---------------------------- MODULE CyclicBuffer ----------------------------
(***************************************************************************)
(* ma::cyclic_buffer (libs/ma_cyclic_buffer): a fixed block of memory split *)
(* into a filled sequence (bytes to be sent) and a nonfilled sequence       *)
(* (space to be read into), both of which may wrap around the end of the    *)
(* block.                                                                   *)
(*                                                                          *)
(* A buffer is a record with the members of the class.  The class has no    *)
(* concurrency of its own, so its methods are operators from buffers to     *)
(* buffers; module Session gives them their callers.                        *)
(***************************************************************************)
EXTENDS Naturals, Sequences

Buffers(size) ==
  [size : {size}, nonfilled_start : 0 .. size - 1, nonfilled_size : 0 .. size,
   filled_start : 0 .. size - 1, filled_size : 0 .. size]

cyclic_buffer(size) ==
  [size |-> size, nonfilled_start |-> 0, nonfilled_size |-> size,
   filled_start |-> 0, filled_size |-> 0]

reset(b) ==
  [b EXCEPT !.nonfilled_size = b.size, !.nonfilled_start = 0,
            !.filled_start = 0, !.filled_size = 0]

\* Both commit and consume move the start of a sequence up by n, circularly.
Advance(size, start, n) ==
  LET d == size - start IN IF n < d THEN start + n ELSE n - d

\* commit throws std::length_error unless CanCommit, consume unless CanConsume.
CanCommit(b, n)  == n <= b.filled_size
CanConsume(b, n) == n <= b.nonfilled_size

\* Mutant of commit: the start of the filled sequence stays behind.
commit_in_place(b, n) ==
  [b EXCEPT !.filled_size = @ - n, !.nonfilled_size = @ + n]

commit(b, n) ==
  [b EXCEPT !.filled_size = @ - n, !.nonfilled_size = @ + n,
            !.filled_start = Advance(b.size, @, n)]

consume(b, n) ==
  [b EXCEPT !.filled_size = @ + n, !.nonfilled_size = @ - n,
            !.nonfilled_start = Advance(b.size, @, n)]

(***************************************************************************)
(* The memory blocks handed to the socket: no block, one, or two when the   *)
(* requested bytes run past the end of the memory (class buffers_2).        *)
(***************************************************************************)
buffers_2(size, start, n) ==
  LET d == size - start
  IN  IF n = 0 THEN <<>>
      ELSE IF n > d THEN << [at |-> start, len |-> d], [at |-> 0, len |-> n - d] >>
      ELSE << [at |-> start, len |-> n] >>

Least(m, n) == IF m < n THEN m ELSE n

\* data(max_size) and prepared(max_size); data() and prepared() are the same
\* with max_size the size of the whole sequence.
data(b, max_size) ==
  buffers_2(b.size, b.filled_start, Least(b.filled_size, max_size))

prepared(b, max_size) ==
  buffers_2(b.size, b.nonfilled_start, Least(b.nonfilled_size, max_size))

(***************************************************************************)
(* What the socket sees: the addresses of the bytes of a block sequence, in *)
(* transfer order.                                                          *)
(***************************************************************************)
BlockCells(block) == [i \in 1 .. block.len |-> block.at + i - 1]

\* boost::asio::buffer_size of at most two blocks.
BytesIn(blocks) ==
  (IF Len(blocks) > 0 THEN blocks[1].len ELSE 0)
  + (IF Len(blocks) > 1 THEN blocks[2].len ELSE 0)

Cells(blocks) ==
  (IF Len(blocks) > 0 THEN BlockCells(blocks[1]) ELSE <<>>)
  \o (IF Len(blocks) > 1 THEN BlockCells(blocks[2]) ELSE <<>>)

(***************************************************************************)
(* The representation is sound: the sequences together have every byte of   *)
(* the memory, and each starts where the other ends.                        *)
(***************************************************************************)
WellFormed(b) ==
  /\ b.size \in Nat \ {0}
  /\ b.nonfilled_start \in 0 .. b.size - 1
  /\ b.filled_start \in 0 .. b.size - 1
  /\ b.nonfilled_size \in 0 .. b.size
  /\ b.filled_size \in 0 .. b.size
  /\ b.filled_size + b.nonfilled_size = b.size
  /\ b.nonfilled_start = Advance(b.size, b.filled_start, b.filled_size)
  /\ b.filled_start = Advance(b.size, b.nonfilled_start, b.nonfilled_size)

=============================================================================

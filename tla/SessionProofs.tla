--------------------------- MODULE SessionProofs ---------------------------
(***************************************************************************)
(* Proofs about module Session, for every buffer size, transfer size, set   *)
(* of failing system calls and number of calls and bytes, in four parts:    *)
(*                                                                           *)
(*   1. the count of pending operations, the buffer and the parked handlers; *)
(*   2. Session implements SessionApi;                                       *)
(*   3. the inactivity timer;                                                *)
(*   4. the bytes sent are those received, in order.                         *)
(*                                                                           *)
(* The invariant of the first supplies the states in which the handlers of   *)
(* the others run.                                                           *)
(***************************************************************************)
EXTENDS Session, FiniteSetTheorems, TLAPS

-----------------------------------------------------------------------------
(***************************************************************************)
(* The cyclic buffer.                                                       *)
(***************************************************************************)

\* A new buffer, and one that was reset, is well formed and empty.
LEMMA BufferInit ==
  ASSUME NEW size \in Nat \ {0}
  PROVE  /\ Buf!cyclic_buffer(size) \in Buf!Buffers(size)
         /\ Buf!WellFormed(Buf!cyclic_buffer(size))
  BY DEF Buf!cyclic_buffer, Buf!Buffers, Buf!WellFormed, Buf!Advance

\* The members of a buffer, apart for the provers.
LEMMA BufferFields ==
  ASSUME NEW size \in Nat, NEW b \in Buf!Buffers(size)
  PROVE  /\ b.size = size
         /\ b.nonfilled_start \in 0 .. size - 1
         /\ b.nonfilled_size \in 0 .. size
         /\ b.filled_start \in 0 .. size - 1
         /\ b.filled_size \in 0 .. size
  BY DEF Buf!Buffers

\* cyclic_buffer::reset leaves every byte of the memory free.
LEMMA BufferReset ==
  ASSUME NEW size \in Nat \ {0}, NEW b \in Buf!Buffers(size)
  PROVE  /\ Buf!reset(b) \in Buf!Buffers(size)
         /\ Buf!WellFormed(Buf!reset(b))
         /\ Buf!reset(b).nonfilled_size = size
  <1> DEFINE q == Buf!reset(b)
  <1>1. 0 \in 0 .. size - 1 /\ size \in 0 .. size /\ 0 \in 0 .. size
    OBVIOUS
  <1>2. q \in Buf!Buffers(size)
    BY <1>1, Zenon DEF Buf!reset, Buf!Buffers
  <1>3. q.nonfilled_size = size /\ q.nonfilled_start = 0
        /\ q.filled_start = 0 /\ q.filled_size = 0 /\ q.size = size
    BY Zenon DEF Buf!reset, Buf!Buffers
  <1> HIDE DEF q
  <1>4. Buf!WellFormed(q)
    BY <1>3 DEF Buf!WellFormed, Buf!Advance
  <1> QED
    BY <1>2, <1>3, <1>4 DEF q

\* Moving a start up by no more than the whole memory keeps it in range, and
\* moving it up in two steps is the same as moving it up at once.
LEMMA AdvanceRange ==
  ASSUME NEW size \in Nat \ {0}, NEW start \in 0 .. size - 1, NEW n \in 0 .. size
  PROVE  Buf!Advance(size, start, n) \in 0 .. size - 1
  BY DEF Buf!Advance

\* Two moves of a start, as two partial transfers make them, are one move.
LEMMA AdvanceTwice ==
  ASSUME NEW size \in Nat \ {0}, NEW start \in 0 .. size - 1,
         NEW k \in 0 .. size, NEW n \in 0 .. size, k + n <= size
  PROVE  Buf!Advance(size, Buf!Advance(size, start, k), n)
         = Buf!Advance(size, start, k + n)
  BY DEF Buf!Advance

\* consume moves n free bytes to the filled sequence and keeps the buffer sound.
LEMMA BufferConsume ==
  ASSUME NEW size \in Nat \ {0}, NEW b \in Buf!Buffers(size), Buf!WellFormed(b),
         NEW n \in Nat, Buf!CanConsume(b, n)
  PROVE  /\ Buf!consume(b, n) \in Buf!Buffers(size)
         /\ Buf!WellFormed(Buf!consume(b, n))
         /\ Buf!consume(b, n).filled_size = b.filled_size + n
         /\ Buf!consume(b, n).nonfilled_size = b.nonfilled_size - n
  <1> DEFINE q    == Buf!consume(b, n)
             from == Buf!Advance(size, b.nonfilled_start, n)
  <1>1. /\ b.size = size
        /\ b.nonfilled_start \in 0 .. size - 1 /\ b.nonfilled_size \in 0 .. size
        /\ b.filled_start \in 0 .. size - 1 /\ b.filled_size \in 0 .. size
    BY BufferFields
  <1>2. /\ b.filled_size + b.nonfilled_size = size
        /\ b.nonfilled_start = Buf!Advance(size, b.filled_start, b.filled_size)
        /\ b.filled_start = Buf!Advance(size, b.nonfilled_start, b.nonfilled_size)
    BY <1>1 DEF Buf!WellFormed
  <1>3. /\ n \in 0 .. size
        /\ b.filled_size + n \in 0 .. size
        /\ b.nonfilled_size - n \in 0 .. size
        /\ n + (b.nonfilled_size - n) = b.nonfilled_size
    BY <1>1, <1>2 DEF Buf!CanConsume
  <1>4. from \in 0 .. size - 1
    BY <1>1, <1>3, AdvanceRange
  <1>5. q \in Buf!Buffers(size)
    BY <1>1, <1>3, <1>4, Zenon DEF Buf!consume, Buf!Buffers
  <1>6. /\ q.size = size /\ q.filled_start = b.filled_start
        /\ q.filled_size = b.filled_size + n
        /\ q.nonfilled_size = b.nonfilled_size - n /\ q.nonfilled_start = from
    BY <1>1, Zenon DEF Buf!consume, Buf!Buffers
  <1>7. from = Buf!Advance(size, b.filled_start, b.filled_size + n)
    BY <1>1, <1>2, <1>3, AdvanceTwice
  <1>8. b.filled_start = Buf!Advance(size, from, b.nonfilled_size - n)
    <2> DEFINE k == b.nonfilled_size - n
    <2>1. k \in 0 .. size /\ n + k <= size /\ n + k = b.nonfilled_size
      BY <1>1, <1>3
    <2> HIDE DEF k
    <2>2. Buf!Advance(size, from, k) = Buf!Advance(size, b.nonfilled_start, n + k)
      BY <1>1, <1>3, <2>1, AdvanceTwice
    <2> QED
      BY <1>2, <2>1, <2>2 DEF k
  <1> HIDE DEF q, from
  <1>9. Buf!WellFormed(q)
    <2>1. q.nonfilled_start = Buf!Advance(q.size, q.filled_start, q.filled_size)
      BY <1>6, <1>7, <1>8, Zenon
    <2>2. q.filled_start = Buf!Advance(q.size, q.nonfilled_start, q.nonfilled_size)
      BY <1>6, <1>7, <1>8, Zenon
    <2>3. /\ q.size \in Nat \ {0} /\ q.nonfilled_start \in 0 .. q.size - 1
          /\ q.filled_start \in 0 .. q.size - 1 /\ q.nonfilled_size \in 0 .. q.size
          /\ q.filled_size \in 0 .. q.size
          /\ q.filled_size + q.nonfilled_size = q.size
      BY <1>1, <1>2, <1>3, <1>4, <1>6
    <2> QED
      BY <2>1, <2>2, <2>3, Zenon DEF Buf!WellFormed
  <1> QED
    BY <1>5, <1>6, <1>9, Zenon DEF q

\* commit moves n filled bytes to the free sequence and keeps the buffer sound.
LEMMA BufferCommit ==
  ASSUME NEW size \in Nat \ {0}, NEW b \in Buf!Buffers(size), Buf!WellFormed(b),
         NEW n \in Nat, Buf!CanCommit(b, n)
  PROVE  /\ Buf!commit(b, n) \in Buf!Buffers(size)
         /\ Buf!WellFormed(Buf!commit(b, n))
         /\ Buf!commit(b, n).filled_size = b.filled_size - n
         /\ Buf!commit(b, n).nonfilled_size = b.nonfilled_size + n
  <1> DEFINE q    == Buf!commit(b, n)
             from == Buf!Advance(size, b.filled_start, n)
  <1>1. /\ b.size = size
        /\ b.nonfilled_start \in 0 .. size - 1 /\ b.nonfilled_size \in 0 .. size
        /\ b.filled_start \in 0 .. size - 1 /\ b.filled_size \in 0 .. size
    BY BufferFields
  <1>2. /\ b.filled_size + b.nonfilled_size = size
        /\ b.nonfilled_start = Buf!Advance(size, b.filled_start, b.filled_size)
        /\ b.filled_start = Buf!Advance(size, b.nonfilled_start, b.nonfilled_size)
    BY <1>1 DEF Buf!WellFormed
  <1>3. /\ n \in 0 .. size
        /\ b.filled_size - n \in 0 .. size
        /\ b.nonfilled_size + n \in 0 .. size
        /\ (b.filled_size - n) + (b.nonfilled_size + n) = size
    BY <1>1, <1>2 DEF Buf!CanCommit
  <1>4. from \in 0 .. size - 1
    BY <1>1, <1>3, AdvanceRange
  <1>5. q \in Buf!Buffers(size)
    BY <1>1, <1>3, <1>4, Zenon DEF Buf!commit, Buf!Buffers
  <1>6. /\ q.size = size /\ q.nonfilled_start = b.nonfilled_start
        /\ q.filled_size = b.filled_size - n
        /\ q.nonfilled_size = b.nonfilled_size + n /\ q.filled_start = from
    BY <1>1, Zenon DEF Buf!commit, Buf!Buffers
  <1>7. from = Buf!Advance(size, b.nonfilled_start, b.nonfilled_size + n)
    BY <1>1, <1>2, <1>3, AdvanceTwice
  <1>8. b.nonfilled_start = Buf!Advance(size, from, b.filled_size - n)
    <2> DEFINE k == b.filled_size - n
    <2>1. k \in 0 .. size /\ n + k <= size /\ n + k = b.filled_size
      BY <1>1, <1>3
    <2> HIDE DEF k
    <2>2. Buf!Advance(size, from, k) = Buf!Advance(size, b.filled_start, n + k)
      BY <1>1, <1>3, <2>1, AdvanceTwice
    <2> QED
      BY <1>2, <2>1, <2>2 DEF k
  <1> HIDE DEF q, from
  <1>9. Buf!WellFormed(q)
    <2>1. q.nonfilled_start = Buf!Advance(q.size, q.filled_start, q.filled_size)
      BY <1>6, <1>7, <1>8, Zenon
    <2>2. q.filled_start = Buf!Advance(q.size, q.nonfilled_start, q.nonfilled_size)
      BY <1>6, <1>7, <1>8, Zenon
    <2>3. /\ q.size \in Nat \ {0} /\ q.nonfilled_start \in 0 .. q.size - 1
          /\ q.filled_start \in 0 .. q.size - 1 /\ q.nonfilled_size \in 0 .. q.size
          /\ q.filled_size \in 0 .. q.size
          /\ q.filled_size + q.nonfilled_size = q.size
      BY <1>1, <1>2, <1>3, <1>4, <1>6
    <2> QED
      BY <2>1, <2>2, <2>3, Zenon DEF Buf!WellFormed
  <1> QED
    BY <1>5, <1>6, <1>9, Zenon DEF q

\* The blocks of n bytes are at most two and have n bytes.
LEMMA BlocksOfSize ==
  ASSUME NEW size \in Nat \ {0}, NEW start \in 0 .. size - 1, NEW n \in 0 .. size
  PROVE  /\ Buf!buffers_2(size, start, n) \in Seq(Blocks)
         /\ Buf!BytesIn(Buf!buffers_2(size, start, n)) = n
  <1> DEFINE d == size - start
             x == [at |-> start, len |-> d]
             y == [at |-> 0, len |-> n - d]
             z == [at |-> start, len |-> n]
  <1>1. CASE n = 0
    BY <1>1 DEF Buf!buffers_2, Buf!BytesIn
  <1>2. CASE n > d
    <2>1. x \in Blocks /\ y \in Blocks /\ x.len = d /\ y.len = n - d
      BY <1>2 DEF Blocks
    <2>2. Buf!buffers_2(size, start, n) = <<x, y>>
      BY <1>2 DEF Buf!buffers_2
    <2> HIDE DEF x, y
    <2>3. /\ <<x, y>> \in Seq(Blocks) /\ Len(<<x, y>>) = 2
          /\ <<x, y>>[1] = x /\ <<x, y>>[2] = y
      BY <2>1
    <2>4. Buf!BytesIn(<<x, y>>) = d + (n - d)
      BY <2>1, <2>3 DEF Buf!BytesIn
    <2> QED
      BY <2>2, <2>3, <2>4
  <1>3. CASE n > 0 /\ n <= d
    <2>1. z \in Blocks /\ z.len = n
      BY <1>3 DEF Blocks
    <2>2. Buf!buffers_2(size, start, n) = <<z>>
      BY <1>3 DEF Buf!buffers_2
    <2> HIDE DEF z
    <2>3. <<z>> \in Seq(Blocks) /\ Len(<<z>>) = 1 /\ <<z>>[1] = z
      BY <2>1
    <2>4. Buf!BytesIn(<<z>>) = n
      BY <2>1, <2>3 DEF Buf!BytesIn
    <2> QED
      BY <2>2, <2>3, <2>4
  <1> QED
    BY <1>1, <1>2, <1>3

\* The buffers given to a transfer hold no more than there is.
LEMMA PreparedFits ==
  ASSUME NEW size \in Nat \ {0}, NEW b \in Buf!Buffers(size), NEW max_size \in Nat
  PROVE  /\ Buf!prepared(b, max_size) \in Seq(Blocks)
         /\ Buf!BytesIn(Buf!prepared(b, max_size)) <= b.nonfilled_size
  <1>1. /\ b.size = size /\ b.nonfilled_start \in 0 .. size - 1
        /\ b.nonfilled_size \in 0 .. size
    BY BufferFields
  <1>2. /\ Buf!Least(b.nonfilled_size, max_size) \in 0 .. size
        /\ Buf!Least(b.nonfilled_size, max_size) <= b.nonfilled_size
    BY <1>1 DEF Buf!Least
  <1> QED
    BY <1>1, <1>2, BlocksOfSize DEF Buf!prepared

\* The buffers given to a write hold no more than is filled.
LEMMA DataFits ==
  ASSUME NEW size \in Nat \ {0}, NEW b \in Buf!Buffers(size), NEW max_size \in Nat
  PROVE  /\ Buf!data(b, max_size) \in Seq(Blocks)
         /\ Buf!BytesIn(Buf!data(b, max_size)) <= b.filled_size
  <1>1. /\ b.size = size /\ b.filled_start \in 0 .. size - 1
        /\ b.filled_size \in 0 .. size
    BY BufferFields
  <1>2. /\ Buf!Least(b.filled_size, max_size) \in 0 .. size
        /\ Buf!Least(b.filled_size, max_size) <= b.filled_size
    BY <1>1 DEF Buf!Least
  <1> QED
    BY <1>1, <1>2, BlocksOfSize DEF Buf!data

-----------------------------------------------------------------------------
(***************************************************************************)
(* The inductive invariant, as predicates of a session record so that they  *)
(* can be stated of the states inside a handler too.                        *)
(***************************************************************************)
Busy(state) == IF state = "in_progress" THEN 1 ELSE 0

\* The activities' states tell what asio owns, and what is pending.
OpsMatch(r) ==
  /\ "read"  \in r.ops <=> r.read_state  = "in_progress"
  /\ "write" \in r.ops <=> r.write_state = "in_progress"
  /\ "timer" \in r.ops <=> r.timer_state = "in_progress"
  /\ r.pending_operations =
       Busy(r.read_state) + Busy(r.write_state) + Busy(r.timer_state)

\* The buffer is sound and the transfers in flight fit into it.
BufferFits(r) ==
  /\ Buf!WellFormed(r.buffer)
  /\ r.intern_state \in {"work", "shutdown"} =>
       /\ "read"  \in r.ops => Buf!BytesIn(r.reading) <= r.buffer.nonfilled_size
       /\ "write" \in r.ops => Buf!BytesIn(r.writing) <= r.buffer.filled_size

\* What holds at every point of a handler.
Core(r) == r \in SessionStates /\ OpsMatch(r) /\ BufferFits(r)

\* What each phase of the session means for its activities.
Phases(r) ==
  /\ r.intern_state = "work" =>
       r.read_state # "stopped" /\ r.write_state # "stopped"
  /\ r.intern_state \in {"work", "shutdown"} => r.timer_state # "stopped"
  /\ r.intern_state = "stop" =>
       /\ r.pending_operations # 0 /\ ~r.open
       /\ r.read_state # "wait" /\ r.write_state # "wait"
       /\ r.timer_state # "ready"
  /\ r.intern_state = "stopped" =>
       /\ r.read_state = "stopped" /\ r.write_state = "stopped"
       /\ r.timer_state = "stopped" /\ ~r.open

WaitParked(r) ==
  r.wait_handler => r.extern_state = "work" /\ r.intern_state = "work"

\* What the user has called for fits the phase.
UserMatches(r) ==
  /\ r.stop_handler <=> r.extern_state = "stop"
  /\ r.extern_state = "stop" => r.intern_state \in {"shutdown", "stop"}
  /\ r.extern_state = "stopped" => r.intern_state = "stopped"
  /\ r.extern_state = "ready" => r.intern_state = "work" /\ r.ops = {}

SessionInv(r) == Core(r) /\ Phases(r) /\ WaitParked(r) /\ UserMatches(r)

IInv ==
  /\ SessionInv(s)
  /\ calls \in [Calls -> Nat] /\ rcvd \in Nat

-----------------------------------------------------------------------------
(***************************************************************************)
(* What an update leaves alone.                                             *)
(***************************************************************************)
SameUser(q, r) ==
  /\ q.extern_state = r.extern_state
  /\ q.wait_handler = r.wait_handler /\ q.stop_handler = r.stop_handler

SamePhase(q, r) == q.intern_state = r.intern_state /\ q.open = r.open

SameOps(q, r) ==
  /\ q.read_state = r.read_state /\ q.write_state = r.write_state
  /\ q.timer_state = r.timer_state /\ q.ops = r.ops
  /\ q.pending_operations = r.pending_operations

SameData(q, r) ==
  q.buffer = r.buffer /\ q.reading = r.reading /\ q.writing = r.writing

\* The type of every member that a proof below reasons about.
LEMMA Members ==
  ASSUME NEW r \in SessionStates
  PROVE  /\ r.extern_state \in {"ready", "work", "stop", "stopped"}
         /\ r.intern_state \in {"work", "shutdown", "stop", "stopped"}
         /\ r.read_state \in {"wait", "in_progress", "stopped"}
         /\ r.write_state \in {"wait", "in_progress", "stopped"}
         /\ r.timer_state \in {"ready", "in_progress", "stopped"}
         /\ r.pending_operations \in Nat
         /\ r.buffer \in Buf!Buffers(BufferSize)
         /\ r.ops \in SUBSET {"read", "write", "timer"}
         /\ r.reading \in Seq(Blocks) /\ r.writing \in Seq(Blocks)
         /\ r.extern_wait_error \in Errors
         /\ r.posted \in [Calls -> Seq(Errors)]
         /\ r.wait_handler \in BOOLEAN /\ r.stop_handler \in BOOLEAN
         /\ r.open \in BOOLEAN
  BY Zenon DEF SessionStates

\* start_socket_read touches only the reading activity and the counter.
LEMMA StartReadFrame ==
  ASSUME NEW r \in SessionStates, NEW buffers \in Seq(Blocks)
  PROVE  LET q == start_socket_read(r, buffers)
         IN  /\ q \in SessionStates /\ SameUser(q, r) /\ SamePhase(q, r)
             /\ q.read_state = "in_progress" /\ q.write_state = r.write_state
             /\ q.timer_state = r.timer_state /\ q.ops = r.ops \cup {"read"}
             /\ q.pending_operations = r.pending_operations + 1
             /\ q.buffer = r.buffer /\ q.reading = buffers
             /\ q.writing = r.writing
  <1>1. r.pending_operations + 1 \in Nat
    BY Members
  <1>2. r.ops \cup {"read"} \in SUBSET {"read", "write", "timer"}
    BY Members
  <1> QED
    BY <1>1, <1>2, Zenon
       DEF start_socket_read, SessionStates, SameUser, SamePhase

\* start_socket_write touches only the writing activity and the counter.
LEMMA StartWriteFrame ==
  ASSUME NEW r \in SessionStates, NEW buffers \in Seq(Blocks)
  PROVE  LET q == start_socket_write(r, buffers)
         IN  /\ q \in SessionStates /\ SameUser(q, r) /\ SamePhase(q, r)
             /\ q.read_state = r.read_state /\ q.write_state = "in_progress"
             /\ q.timer_state = r.timer_state /\ q.ops = r.ops \cup {"write"}
             /\ q.pending_operations = r.pending_operations + 1
             /\ q.buffer = r.buffer /\ q.reading = r.reading
             /\ q.writing = buffers
  <1>1. r.pending_operations + 1 \in Nat
    BY Members
  <1>2. r.ops \cup {"write"} \in SUBSET {"read", "write", "timer"}
    BY Members
  <1> QED
    BY <1>1, <1>2, Zenon
       DEF start_socket_write, SessionStates, SameUser, SamePhase

\* start_timer_wait touches only the timer activity and the counter.
LEMMA StartTimerFrame ==
  ASSUME NEW r \in SessionStates
  PROVE  LET q == start_timer_wait(r)
         IN  /\ q \in SessionStates /\ SameUser(q, r) /\ SamePhase(q, r)
             /\ SameData(q, r)
             /\ q.read_state = r.read_state /\ q.write_state = r.write_state
             /\ q.timer_state = "in_progress" /\ q.ops = r.ops \cup {"timer"}
             /\ q.pending_operations = r.pending_operations + 1
  <1>1. r.pending_operations + 1 \in Nat
    BY Members
  <1>2. r.ops \cup {"timer"} \in SUBSET {"read", "write", "timer"}
    BY Members
  <1> QED
    BY <1>1, <1>2, Zenon
       DEF start_timer_wait, SessionStates, SameUser, SamePhase, SameData

\* cancel_timer_wait leaves the wait outstanding: only its completion ends it.
LEMMA CancelTimerFrame ==
  ASSUME NEW r \in SessionStates, NEW failed \in BOOLEAN
  PROVE  LET q == cancel_timer_wait(r, failed)
         IN  /\ q \in SessionStates /\ SameUser(q, r) /\ SamePhase(q, r)
             /\ SameOps(q, r) /\ SameData(q, r)
  <1> DEFINE aborted == r.timer_aborted \/ ( ~r.timer_wait_cancelled
                                             /\ r.timer_state = "in_progress" )
             t == [r EXCEPT !.timer_aborted = aborted,
                            !.timer_wait_cancelled = TRUE,
                            !.timer_turned = FALSE]
  <1>1. aborted \in BOOLEAN
    OBVIOUS
  <1> HIDE DEF aborted
  <1>2. /\ t \in SessionStates /\ SameUser(t, r) /\ SamePhase(t, r)
        /\ SameOps(t, r) /\ SameData(t, r)
    BY <1>1, Zenon DEF SessionStates, SameUser, SamePhase, SameOps, SameData
  <1>3. cancel_timer_wait(r, failed) = r \/ cancel_timer_wait(r, failed) = t
    BY Zenon DEF cancel_timer_wait, aborted
  <1>4. /\ SameUser(r, r) /\ SamePhase(r, r) /\ SameOps(r, r) /\ SameData(r, r)
    BY Zenon DEF SameUser, SamePhase, SameOps, SameData
  <1> QED
    BY <1>2, <1>3, <1>4, Zenon

\* complete_extern_wait unparks the wait handler and nothing else.
LEMMA CompleteWaitFrame ==
  ASSUME NEW r \in SessionStates, NEW error \in Errors
  PROVE  LET q == complete_extern_wait(r, error)
         IN  /\ q \in SessionStates /\ SamePhase(q, r)
             /\ SameOps(q, r) /\ SameData(q, r)
             /\ q.extern_state = r.extern_state
             /\ q.stop_handler = r.stop_handler /\ ~q.wait_handler
  <1> DEFINE why == FirstError(r.extern_wait_error, error)
             p == [r.posted EXCEPT !["wait"] = Append(@, why)]
             t == [r EXCEPT !.extern_wait_error = why]
             u == [[r EXCEPT !.extern_wait_error = why]
                     EXCEPT !.wait_handler = FALSE, !.posted = p]
  <1>1. why \in Errors
    BY Members, Zenon DEF FirstError
  <1> HIDE DEF why
  <1>2. p \in [Calls -> Seq(Errors)]
    BY <1>1, Members DEF Calls
  <1>3. /\ t \in SessionStates /\ SamePhase(t, r) /\ SameOps(t, r)
        /\ SameData(t, r) /\ t.extern_state = r.extern_state
        /\ t.stop_handler = r.stop_handler /\ t.wait_handler = r.wait_handler
    BY <1>1, Zenon DEF SessionStates, SamePhase, SameOps, SameData
  <1> HIDE DEF p
  <1>4. /\ u \in SessionStates /\ SamePhase(u, r) /\ SameOps(u, r)
        /\ SameData(u, r) /\ u.extern_state = r.extern_state
        /\ u.stop_handler = r.stop_handler /\ u.wait_handler = FALSE
    BY <1>1, <1>2, Zenon DEF SessionStates, SamePhase, SameOps, SameData
  <1>5. t.posted = r.posted
    BY Zenon DEF SessionStates
  <1>6. complete_extern_wait(r, error) = IF r.wait_handler THEN u ELSE t
    BY <1>5, Zenon DEF complete_extern_wait, why, p
  <1>7. r.wait_handler \in BOOLEAN
    BY Members
  <1> HIDE DEF t, u
  <1> QED
    BY <1>3, <1>4, <1>6, <1>7, Zenon

\* complete_extern_stop unparks the stop handler and nothing else.
LEMMA CompleteStopFrame ==
  ASSUME NEW r \in SessionStates, NEW error \in Errors
  PROVE  LET q == complete_extern_stop(r, error)
         IN  /\ q \in SessionStates /\ SamePhase(q, r)
             /\ SameOps(q, r) /\ SameData(q, r)
             /\ q.extern_state = r.extern_state
             /\ q.wait_handler = r.wait_handler /\ ~q.stop_handler
  <1> DEFINE p == [r.posted EXCEPT !["stop"] = Append(@, error)]
             u == [r EXCEPT !.stop_handler = FALSE, !.posted = p]
  <1>1. p \in [Calls -> Seq(Errors)]
    BY Members DEF Calls
  <1> HIDE DEF p
  <1>2. /\ u \in SessionStates /\ SamePhase(u, r) /\ SameOps(u, r)
        /\ SameData(u, r) /\ u.extern_state = r.extern_state
        /\ u.wait_handler = r.wait_handler /\ u.stop_handler = FALSE
    BY <1>1, Zenon DEF SessionStates, SamePhase, SameOps, SameData
  <1>3. /\ SamePhase(r, r) /\ SameOps(r, r) /\ SameData(r, r)
    BY Zenon DEF SamePhase, SameOps, SameData
  <1>4. complete_extern_stop(r, error) = IF r.stop_handler THEN u ELSE r
    BY Zenon DEF complete_extern_stop, p
  <1>5. r.stop_handler \in BOOLEAN
    BY Members
  <1> HIDE DEF u
  <1> QED
    BY <1>2, <1>3, <1>4, <1>5, Zenon

\* Posting a result changes nothing of the session itself.
LEMMA PostFrame ==
  ASSUME NEW r \in SessionStates, NEW call \in Calls, NEW error \in Errors
  PROVE  LET q == Post(r, call, error)
         IN  /\ q \in SessionStates /\ SameUser(q, r) /\ SamePhase(q, r)
             /\ SameOps(q, r) /\ SameData(q, r)
  <1> DEFINE p == [r.posted EXCEPT ![call] = Append(@, error)]
  <1>1. p \in [Calls -> Seq(Errors)]
    BY Members
  <1>2. Post(r, call, error) = [r EXCEPT !.posted = p]
    BY Zenon DEF Post
  <1> HIDE DEF p
  <1> DEFINE u == [r EXCEPT !.posted = p]
  <1>3. /\ u \in SessionStates /\ SameUser(u, r) /\ SamePhase(u, r)
        /\ SameOps(u, r) /\ SameData(u, r)
    BY <1>1, Zenon DEF SessionStates, SameUser, SamePhase, SameOps, SameData
  <1> HIDE DEF u
  <1> QED
    BY <1>2, <1>3, Zenon DEF u

\* start_stop stops the activities that are idle, the others stay outstanding.
LEMMA StopIdleFrame ==
  ASSUME NEW r \in SessionStates
  PROVE  LET q == StopIdle(r)
         IN  /\ q \in SessionStates /\ SameUser(q, r) /\ SamePhase(q, r)
             /\ SameData(q, r) /\ q.ops = r.ops
             /\ q.pending_operations = r.pending_operations
             /\ q.read_state = IF r.read_state = "in_progress"
                               THEN "in_progress" ELSE "stopped"
             /\ q.write_state = IF r.write_state = "in_progress"
                                THEN "in_progress" ELSE "stopped"
             /\ q.timer_state = IF r.timer_state = "in_progress"
                                THEN "in_progress" ELSE "stopped"
  <1> DEFINE rs == IF r.read_state = "in_progress" THEN "in_progress" ELSE "stopped"
             ws == IF r.write_state = "in_progress" THEN "in_progress" ELSE "stopped"
             ts == IF r.timer_state = "in_progress" THEN "in_progress" ELSE "stopped"
  <1>1. /\ rs = IF r.read_state = "wait" THEN "stopped" ELSE r.read_state
        /\ ws = IF r.write_state = "wait" THEN "stopped" ELSE r.write_state
        /\ ts = IF r.timer_state = "ready" THEN "stopped" ELSE r.timer_state
    BY Members
  <1>2. /\ rs \in {"wait", "in_progress", "stopped"}
        /\ ws \in {"wait", "in_progress", "stopped"}
        /\ ts \in {"ready", "in_progress", "stopped"}
    OBVIOUS
  <1>3. StopIdle(r) = [r EXCEPT !.read_state = rs, !.write_state = ws,
                                !.timer_state = ts]
    BY <1>1, Zenon DEF StopIdle
  <1> HIDE DEF rs, ws, ts
  <1>4. LET q == [r EXCEPT !.read_state = rs, !.write_state = ws,
                           !.timer_state = ts]
        IN  /\ q \in SessionStates /\ SameUser(q, r) /\ SamePhase(q, r)
            /\ SameData(q, r) /\ q.ops = r.ops
            /\ q.pending_operations = r.pending_operations
            /\ q.read_state = rs /\ q.write_state = ws /\ q.timer_state = ts
    BY <1>2, Zenon DEF SessionStates, SameUser, SamePhase, SameData
  <1> QED
    BY <1>3, <1>4, Zenon DEF rs, ws, ts

\* Moving the expiry leaves the wait outstanding.
LEMMA TurnTimerFrame ==
  ASSUME NEW r \in SessionStates
  PROVE  LET q == TurnTimer(r)
         IN  /\ q \in SessionStates /\ SameUser(q, r) /\ SamePhase(q, r)
             /\ SameOps(q, r) /\ SameData(q, r)
  <1> DEFINE aborted == r.timer_aborted \/ "timer" \in r.ops
  <1>1. aborted \in BOOLEAN
    OBVIOUS
  <1>2. TurnTimer(r) =
          [r EXCEPT !.timer_aborted = aborted, !.expiry_stale = FALSE,
                    !.timer_wait_cancelled = TRUE, !.timer_turned = TRUE]
    BY Zenon DEF TurnTimer
  <1> HIDE DEF aborted
  <1> QED
    BY <1>1, <1>2, ZenonT(60)
       DEF SessionStates, SameUser, SamePhase, SameOps, SameData

\* Shutting the socket down for sending ends the writing activity.
LEMMA EndOutputFrame ==
  ASSUME NEW r \in SessionStates
  PROVE  LET q == EndOutput(r)
         IN  /\ q \in SessionStates /\ SameUser(q, r) /\ SamePhase(q, r)
             /\ SameData(q, r) /\ q.ops = r.ops
             /\ q.pending_operations = r.pending_operations
             /\ q.read_state = r.read_state /\ q.write_state = "stopped"
             /\ q.timer_state = r.timer_state
  BY Zenon
     DEF EndOutput, shutdown_socket, SessionStates, SameUser, SamePhase, SameData

\* A failed write ends the writing activity only.
LEMMA StopWritingFrame ==
  ASSUME NEW r \in SessionStates
  PROVE  LET q == StopWriting(r)
         IN  /\ q \in SessionStates /\ SameUser(q, r) /\ SamePhase(q, r)
             /\ SameData(q, r) /\ q.ops = r.ops
             /\ q.pending_operations = r.pending_operations
             /\ q.read_state = r.read_state /\ q.write_state = "stopped"
             /\ q.timer_state = r.timer_state
  BY Zenon DEF StopWriting, SessionStates, SameUser, SamePhase, SameData

\* A failed read, or the end of the stream, ends the reading activity only.
LEMMA StopReadingFrame ==
  ASSUME NEW r \in SessionStates
  PROVE  LET q == StopReading(r)
         IN  /\ q \in SessionStates /\ SameUser(q, r) /\ SamePhase(q, r)
             /\ SameData(q, r) /\ q.ops = r.ops
             /\ q.pending_operations = r.pending_operations
             /\ q.read_state = "stopped" /\ q.write_state = r.write_state
             /\ q.timer_state = r.timer_state
  BY Zenon DEF StopReading, SessionStates, SameUser, SamePhase, SameData

\* A session with another buffer.
LEMMA BufferFrame ==
  ASSUME NEW r \in SessionStates, NEW b \in Buf!Buffers(BufferSize)
  PROVE  LET q == [r EXCEPT !.buffer = b]
         IN  /\ q \in SessionStates /\ SameUser(q, r) /\ SamePhase(q, r)
             /\ SameOps(q, r) /\ q.buffer = b
             /\ q.reading = r.reading /\ q.writing = r.writing
  BY Zenon DEF SessionStates, SameUser, SamePhase, SameOps

\* A completed read is no longer outstanding and no longer counted.
LEMMA ReadDoneFrame ==
  ASSUME NEW r \in SessionStates, r.pending_operations > 0,
         NEW state \in {"wait", "stopped"}
  PROVE  LET q == ReadDone(r, state)
         IN  /\ q \in SessionStates /\ SameUser(q, r) /\ SamePhase(q, r)
             /\ SameData(q, r) /\ q.ops = r.ops \ {"read"}
             /\ q.pending_operations = r.pending_operations - 1
             /\ q.read_state = state /\ q.write_state = r.write_state
             /\ q.timer_state = r.timer_state
  <1>1. r.pending_operations - 1 \in Nat
    BY Members
  <1>2. r.ops \ {"read"} \in SUBSET {"read", "write", "timer"}
    BY Members
  <1>3. state \in {"wait", "in_progress", "stopped"}
    OBVIOUS
  <1> QED
    BY <1>1, <1>2, <1>3, Zenon
       DEF ReadDone, SessionStates, SameUser, SamePhase, SameData

\* A completed write is no longer outstanding and no longer counted.
LEMMA WriteDoneFrame ==
  ASSUME NEW r \in SessionStates, r.pending_operations > 0,
         NEW state \in {"wait", "stopped"}
  PROVE  LET q == WriteDone(r, state)
         IN  /\ q \in SessionStates /\ SameUser(q, r) /\ SamePhase(q, r)
             /\ SameData(q, r) /\ q.ops = r.ops \ {"write"}
             /\ q.pending_operations = r.pending_operations - 1
             /\ q.read_state = r.read_state /\ q.write_state = state
             /\ q.timer_state = r.timer_state
  <1>1. r.pending_operations - 1 \in Nat
    BY Members
  <1>2. r.ops \ {"write"} \in SUBSET {"read", "write", "timer"}
    BY Members
  <1>3. state \in {"wait", "in_progress", "stopped"}
    OBVIOUS
  <1> QED
    BY <1>1, <1>2, <1>3, Zenon
       DEF WriteDone, SessionStates, SameUser, SamePhase, SameData

\* A completed wait is no longer outstanding and no longer counted.
LEMMA TimerDoneFrame ==
  ASSUME NEW r \in SessionStates, r.pending_operations > 0,
         NEW state \in {"ready", "stopped"}
  PROVE  LET q == TimerDone(r, state)
         IN  /\ q \in SessionStates /\ SameUser(q, r) /\ SamePhase(q, r)
             /\ SameData(q, r) /\ q.ops = r.ops \ {"timer"}
             /\ q.pending_operations = r.pending_operations - 1
             /\ q.read_state = r.read_state /\ q.write_state = r.write_state
             /\ q.timer_state = state
  <1>1. r.pending_operations - 1 \in Nat
    BY Members
  <1>2. r.ops \ {"timer"} \in SUBSET {"read", "write", "timer"}
    BY Members
  <1>3. state \in {"ready", "in_progress", "stopped"}
    OBVIOUS
  <1> QED
    BY <1>1, <1>2, <1>3, Zenon
       DEF TimerDone, SessionStates, SameUser, SamePhase, SameData

\* A session in another phase.
LEMMA InternFrame ==
  ASSUME NEW r \in SessionStates,
         NEW phase \in {"work", "shutdown", "stop", "stopped"}
  PROVE  LET q == [r EXCEPT !.intern_state = phase]
         IN  /\ q \in SessionStates /\ SameUser(q, r) /\ SameOps(q, r)
             /\ SameData(q, r) /\ q.intern_state = phase /\ q.open = r.open
  BY Zenon DEF SessionStates, SameUser, SameOps, SameData

\* A change of extern_state_ alone.
LEMMA ExternFrame ==
  ASSUME NEW r \in SessionStates,
         NEW state \in {"ready", "work", "stop", "stopped"}
  PROVE  LET q == [r EXCEPT !.extern_state = state]
         IN  /\ q \in SessionStates /\ SamePhase(q, r) /\ SameOps(q, r)
             /\ SameData(q, r) /\ q.extern_state = state
             /\ q.wait_handler = r.wait_handler
             /\ q.stop_handler = r.stop_handler
  BY Zenon DEF SessionStates, SamePhase, SameOps, SameData

\* continue_stop stops the user's view of the session with the session.
LEMMA StoppedFrame ==
  ASSUME NEW r \in SessionStates
  PROVE  LET q == [r EXCEPT !.intern_state = "stopped",
                            !.extern_state = "stopped"]
         IN  /\ q \in SessionStates /\ SameOps(q, r) /\ SameData(q, r)
             /\ q.open = r.open /\ q.intern_state = "stopped"
             /\ q.extern_state = "stopped"
             /\ q.wait_handler = r.wait_handler
             /\ q.stop_handler = r.stop_handler
  BY Zenon DEF SessionStates, SameOps, SameData

\* The first half of start_stop closes the socket and enters the stop.
LEMMA ClosedFrame ==
  ASSUME NEW r \in SessionStates, NEW error \in Errors
  PROVE  LET q == close_socket([r EXCEPT !.intern_state = "stop",
                                         !.stop_reason = error])
         IN  /\ q \in SessionStates /\ SameUser(q, r) /\ SameOps(q, r)
             /\ SameData(q, r) /\ q.intern_state = "stop" /\ ~q.open
  BY Zenon DEF close_socket, SessionStates, SameUser, SameOps, SameData

\* A session whose socket options cannot be set is stopped at once.
LEMMA StartFailedFrame ==
  ASSUME NEW r \in SessionStates
  PROVE  LET q == StartFailed(r)
         IN  /\ q \in SessionStates /\ SameData(q, r) /\ q.ops = r.ops
             /\ q.pending_operations = r.pending_operations
             /\ q.read_state = "stopped" /\ q.write_state = "stopped"
             /\ q.timer_state = "stopped" /\ ~q.open
             /\ q.intern_state = "stopped" /\ q.extern_state = "stopped"
             /\ q.wait_handler = r.wait_handler
             /\ q.stop_handler = r.stop_handler
  BY Zenon DEF StartFailed, close_socket, SessionStates, SameData

\* Parking a handler changes nothing else.
LEMMA ParkFrame ==
  ASSUME NEW r \in SessionStates
  PROVE  /\ LET q == [r EXCEPT !.stop_handler = TRUE]
            IN  /\ q \in SessionStates /\ SamePhase(q, r) /\ SameOps(q, r)
                /\ SameData(q, r) /\ q.extern_state = r.extern_state
                /\ q.wait_handler = r.wait_handler /\ q.stop_handler
         /\ LET q == [r EXCEPT !.wait_handler = TRUE]
            IN  /\ q \in SessionStates /\ SamePhase(q, r) /\ SameOps(q, r)
                /\ SameData(q, r) /\ q.extern_state = r.extern_state
                /\ q.wait_handler /\ q.stop_handler = r.stop_handler
  BY Zenon DEF SessionStates, SamePhase, SameOps, SameData

-----------------------------------------------------------------------------
(***************************************************************************)
(* The methods, as pre- and postconditions.                                 *)
(***************************************************************************)

\* A handler in the course of work or shutdown.
Active(r) ==
  /\ Core(r) /\ r.intern_state \in {"work", "shutdown"}
  /\ r.extern_state \in {"work", "stop"} /\ WaitParked(r)

\* A stop that waits for what is outstanding.
Stopping(r) ==
  /\ Core(r) /\ r.intern_state = "stop" /\ ~r.open
  /\ r.read_state # "wait" /\ r.write_state # "wait" /\ r.timer_state # "ready"
  /\ r.extern_state \in {"work", "stop"} /\ ~r.wait_handler

\* A method that takes r to q leaves the user's view of it alone, or completes
\* the stop the user asked for.
Kept(r, q) ==
  \/ /\ q.extern_state = r.extern_state /\ q.stop_handler = r.stop_handler
     /\ q.intern_state = "stopped" => r.extern_state # "stop"
  \/ /\ r.extern_state = "stop" /\ q.extern_state = "stopped"
     /\ q.intern_state = "stopped" /\ ~q.stop_handler

After(r, q) ==
  /\ Core(q) /\ Phases(q) /\ WaitParked(q) /\ Kept(r, q)
  /\ q.intern_state = "work" => r.intern_state = "work"

\* An update of nothing but bookkeeping.
LEMMA CoreSame ==
  ASSUME NEW r, NEW q \in SessionStates, Core(r),
         q.intern_state = r.intern_state, SameOps(q, r), SameData(q, r)
  PROVE  Core(q)
  BY DEF Core, OpsMatch, BufferFits, SameOps, SameData

\* Outside of work and shutdown the transfers are of no more interest.
LEMMA CoreEnding ==
  ASSUME NEW r, NEW q \in SessionStates, Core(r),
         q.intern_state \in {"stop", "stopped"}, SameOps(q, r), SameData(q, r)
  PROVE  Core(q)
  BY DEF Core, OpsMatch, BufferFits, SameOps, SameData

\* What a phase means for the activities survives bookkeeping.
LEMMA PhasesSame ==
  ASSUME NEW r, NEW q, Phases(r), SamePhase(q, r), SameOps(q, r)
  PROVE  Phases(q)
  BY DEF Phases, SamePhase, SameOps

\* What is kept by a step after one that touches neither user nor phase.
LEMMA AfterSame ==
  ASSUME NEW r, NEW p, NEW q, SameUser(p, r), p.intern_state = r.intern_state,
         After(p, q)
  PROVE  After(r, q)
  BY DEF After, Kept, SameUser

\* A method that leaves user and phase alone may end in any active session.
LEMMA ActiveAfter ==
  ASSUME NEW r, NEW q, Active(q), Phases(q), SameUser(q, r),
         q.intern_state = r.intern_state
  PROVE  After(r, q)
  BY DEF Active, After, Kept, SameUser

\* continue_stop completes the stop exactly when nothing is outstanding.
LEMMA ContinueStop ==
  ASSUME NEW r, Stopping(r)
  PROVE  After(r, continue_stop(r))
  <1> DEFINE p == [r EXCEPT !.intern_state = "stopped", !.extern_state = "stopped"]
             q == [r EXCEPT !.intern_state = "stopped"]
             c == complete_extern_stop(p, "ok")
  <1>1. r \in SessionStates /\ Core(r)
    BY DEF Stopping, Core
  <1>2. CASE r.pending_operations # 0
    <2>1. continue_stop(r) = r
      BY <1>2, Zenon DEF continue_stop
    <2>2. After(r, r)
      BY <1>2 DEF Stopping, After, Phases, WaitParked, Kept
    <2> QED
      BY <2>1, <2>2, Zenon
  <1>3. CASE r.pending_operations = 0
    <2>1. /\ r.read_state = "stopped" /\ r.write_state = "stopped"
          /\ r.timer_state = "stopped" /\ ~r.open
      <3>1. /\ r.read_state # "in_progress" /\ r.write_state # "in_progress"
            /\ r.timer_state # "in_progress"
        BY <1>1, <1>3 DEF Core, OpsMatch, Busy
      <3> QED
        BY <1>1, <3>1, Members DEF Stopping
    <2>2. CASE r.extern_state = "stop"
      <3>1. continue_stop(r) = c
        BY <1>3, <2>2, Zenon DEF continue_stop
      <3>2. /\ p \in SessionStates /\ SameOps(p, r) /\ SameData(p, r)
            /\ p.open = r.open /\ p.intern_state = "stopped"
            /\ p.extern_state = "stopped" /\ p.wait_handler = r.wait_handler
        BY <1>1, StoppedFrame, Zenon
      <3>3. "ok" \in Errors
        BY DEF Errors
      <3> HIDE DEF p
      <3>4. /\ c \in SessionStates /\ SamePhase(c, p) /\ SameOps(c, p)
            /\ SameData(c, p) /\ c.extern_state = p.extern_state
            /\ c.wait_handler = p.wait_handler /\ ~c.stop_handler
        BY <3>2, <3>3, CompleteStopFrame, Zenon
      <3> HIDE DEF c
      <3>5. SameOps(c, r) /\ SameData(c, r) /\ c.intern_state = "stopped"
            /\ c.extern_state = "stopped" /\ ~c.open /\ ~c.wait_handler
        BY <2>1, <3>2, <3>4 DEF Stopping, SameOps, SameData, SamePhase
      <3>6. Core(c)
        BY <1>1, <3>4, <3>5, CoreEnding
      <3>7. After(r, c)
        BY <2>1, <2>2, <3>4, <3>5, <3>6
           DEF After, Phases, WaitParked, Kept, SameOps
      <3> QED
        BY <3>1, <3>7, Zenon
    <2>3. CASE r.extern_state # "stop"
      <3>1. continue_stop(r) = q
        BY <1>3, <2>3, Zenon DEF continue_stop
      <3>2. /\ q \in SessionStates /\ SameUser(q, r) /\ SameOps(q, r)
            /\ SameData(q, r) /\ q.intern_state = "stopped" /\ q.open = r.open
        BY <1>1, InternFrame, Zenon
      <3> HIDE DEF q
      <3>3. Core(q)
        BY <1>1, <3>2, CoreEnding
      <3>4. After(r, q)
        BY <2>1, <2>3, <3>2, <3>3
           DEF Stopping, After, Phases, WaitParked, Kept, SameUser, SameOps
      <3> QED
        BY <3>1, <3>4, Zenon
    <2> QED
      BY <2>2, <2>3
  <1> QED
    BY <1>2, <1>3

\* start_stop, called in the middle of any handler, leaves a session that is
\* stopped or has an outstanding operation to wait for.
LEMMA StartStop ==
  ASSUME NEW r, Active(r), NEW error \in Errors, NEW f
  PROVE  After(r, start_stop(r, error, f))
  <1> DEFINE closed == close_socket([r EXCEPT !.intern_state = "stop",
                                              !.stop_reason = error])
             late   == "stop_cancel" \in f
             why    == FirstError(FirstError(error,
                                    IF "close" \in f THEN "error" ELSE "ok"),
                         IF CancelFails(closed, late) THEN "error" ELSE "ok")
             c      == cancel_timer_wait(closed, late)
             idle   == StopIdle(c)
             told   == complete_extern_wait(idle, why)
             q      == IF idle.extern_state = "work" THEN told ELSE idle
  <1>1. r \in SessionStates /\ Core(r)
    BY DEF Active, Core
  <1>2. start_stop(r, error, f) = continue_stop(q)
    BY Zenon DEF start_stop
  <1>3. /\ closed \in SessionStates /\ SameUser(closed, r) /\ SameOps(closed, r)
        /\ SameData(closed, r) /\ closed.intern_state = "stop" /\ ~closed.open
    BY <1>1, ClosedFrame, Zenon
  <1>4. why \in Errors
    BY DEF FirstError, Errors
  <1>5. late \in BOOLEAN
    OBVIOUS
  <1> HIDE DEF closed, why, late
  <1>6. /\ c \in SessionStates /\ SameUser(c, closed) /\ SamePhase(c, closed)
        /\ SameOps(c, closed) /\ SameData(c, closed)
    BY <1>3, <1>5, CancelTimerFrame, Zenon
  <1> HIDE DEF c
  <1>7. Core(c)
    <2>1. SameOps(c, r) /\ SameData(c, r) /\ c.intern_state = "stop"
      BY <1>3, <1>6 DEF SameOps, SameData, SamePhase
    <2> QED
      BY <1>1, <1>6, <2>1, CoreEnding
  <1>8. /\ idle \in SessionStates /\ SameUser(idle, c) /\ SamePhase(idle, c)
        /\ SameData(idle, c) /\ idle.ops = c.ops
        /\ idle.pending_operations = c.pending_operations
        /\ idle.read_state = IF c.read_state = "in_progress"
                             THEN "in_progress" ELSE "stopped"
        /\ idle.write_state = IF c.write_state = "in_progress"
                              THEN "in_progress" ELSE "stopped"
        /\ idle.timer_state = IF c.timer_state = "in_progress"
                              THEN "in_progress" ELSE "stopped"
    BY <1>6, StopIdleFrame, Zenon
  <1> HIDE DEF idle
  <1>9. /\ idle.intern_state = "stop" /\ ~idle.open /\ SameUser(idle, r)
        /\ idle.read_state # "wait" /\ idle.write_state # "wait"
        /\ idle.timer_state # "ready"
    BY <1>3, <1>6, <1>8 DEF SameUser, SamePhase
  <1>10. Core(idle)
    <2>1. OpsMatch(idle)
      BY <1>7, <1>8 DEF Core, OpsMatch, Busy
    <2>2. BufferFits(idle)
      BY <1>7, <1>8, <1>9 DEF Core, BufferFits, SameData
    <2> QED
      BY <1>8, <2>1, <2>2 DEF Core
  <1>11. Stopping(q) /\ q.extern_state = r.extern_state
         /\ q.stop_handler = r.stop_handler
    <2>1. CASE idle.extern_state = "work"
      <3>1. /\ told \in SessionStates /\ SamePhase(told, idle)
            /\ SameOps(told, idle) /\ SameData(told, idle)
            /\ told.extern_state = idle.extern_state
            /\ told.stop_handler = idle.stop_handler /\ ~told.wait_handler
        BY <1>4, <1>8, CompleteWaitFrame, Zenon
      <3> HIDE DEF told
      <3>2. Core(told)
        <4>1. told.intern_state = idle.intern_state
          BY <3>1 DEF SamePhase
        <4> QED
          BY <1>10, <3>1, <4>1, CoreSame
      <3>3. Stopping(told) /\ told.extern_state = r.extern_state
            /\ told.stop_handler = r.stop_handler
        BY <1>9, <2>1, <3>1, <3>2 DEF Stopping, SamePhase, SameOps, SameUser
      <3> QED
        BY <2>1, <3>3
    <2>2. CASE idle.extern_state # "work"
      <3>1. Stopping(idle) /\ idle.extern_state = r.extern_state
            /\ idle.stop_handler = r.stop_handler
        BY <1>9, <1>10, <2>2 DEF Active, WaitParked, Stopping, SameUser
      <3> QED
        BY <2>2, <3>1
    <2> QED
      BY <2>1, <2>2
  <1> HIDE DEF q
  <1>12. After(q, continue_stop(q))
    BY <1>11, ContinueStop
  <1>13. After(r, continue_stop(q))
    <2>1. continue_stop(q).intern_state # "work"
      BY <1>11, <1>12 DEF After, Stopping
    <2> QED
      BY <1>11, <1>12, <2>1 DEF After, Kept
  <1> QED
    BY <1>2, <1>13, Zenon

\* expires_from_now keeps a working session sound.
LEMMA TurnTimerActive ==
  ASSUME NEW r, Active(r), Phases(r)
  PROVE  LET q == TurnTimer(r)
         IN  /\ Active(q) /\ Phases(q) /\ SameUser(q, r) /\ SamePhase(q, r)
             /\ q.timer_state = r.timer_state
  <1> DEFINE q == TurnTimer(r)
  <1>1. r \in SessionStates /\ Core(r)
    BY DEF Active, Core
  <1>2. /\ q \in SessionStates /\ SameUser(q, r) /\ SamePhase(q, r)
        /\ SameOps(q, r) /\ SameData(q, r)
    BY <1>1, TurnTimerFrame, Zenon
  <1> HIDE DEF q
  <1>3. Core(q) /\ Phases(q)
    <2>1. q.intern_state = r.intern_state
      BY <1>2 DEF SamePhase
    <2> QED
      BY <1>1, <1>2, <2>1, CoreSame, PhasesSame
  <1>4. Active(q)
    BY <1>2, <1>3 DEF Active, SameUser, SamePhase, WaitParked
  <1>5. q.timer_state = r.timer_state
    BY <1>2 DEF SameOps
  <1> QED
    BY <1>2, <1>3, <1>4, <1>5, Zenon DEF q

\* start_timer_wait keeps a working session sound if no wait is outstanding.
LEMMA StartTimerActive ==
  ASSUME NEW r, Active(r), Phases(r), r.timer_state = "ready"
  PROVE  LET q == start_timer_wait(r)
         IN  /\ Active(q) /\ Phases(q) /\ SameUser(q, r) /\ SamePhase(q, r)
  <1> DEFINE q == start_timer_wait(r)
  <1>1. r \in SessionStates /\ Core(r)
    BY DEF Active, Core
  <1>2. /\ q \in SessionStates /\ SameUser(q, r) /\ SamePhase(q, r)
        /\ SameData(q, r)
        /\ q.read_state = r.read_state /\ q.write_state = r.write_state
        /\ q.timer_state = "in_progress" /\ q.ops = r.ops \cup {"timer"}
        /\ q.pending_operations = r.pending_operations + 1
    BY <1>1, StartTimerFrame, Zenon
  <1> HIDE DEF q
  <1>3. OpsMatch(q)
    BY <1>1, <1>2 DEF Core, OpsMatch, Busy
  <1>4. BufferFits(q)
    BY <1>1, <1>2 DEF Core, BufferFits, SameData, SamePhase
  <1>5. Active(q)
    BY <1>2, <1>3, <1>4 DEF Active, Core, SameUser, SamePhase, WaitParked
  <1>6. Phases(q)
    BY <1>2, <1>5 DEF Active, Phases, SamePhase
  <1> QED
    BY <1>2, <1>5, <1>6, Zenon DEF q

\* continue_timer_wait keeps the session sound, failing expires_from_now included.
LEMMA ContinueTimerWait ==
  ASSUME NEW r, Active(r), Phases(r), NEW f
  PROVE  After(r, continue_timer_wait(r, f))
  <1> DEFINE t == TurnTimer(r)
             w == start_timer_wait(t)
             x == start_stop(r, "error", f)
  <1>1. \/ continue_timer_wait(r, f) = r
        \/ continue_timer_wait(r, f) = x
        \/ continue_timer_wait(r, f) = t
        \/ continue_timer_wait(r, f) = w /\ r.timer_state = "ready"
    BY Zenon DEF continue_timer_wait
  <1>2. /\ Active(t) /\ Phases(t) /\ SameUser(t, r) /\ SamePhase(t, r)
        /\ t.timer_state = r.timer_state
    BY TurnTimerActive, Zenon
  <1> HIDE DEF t
  <1>3. After(r, t)
    BY <1>2, ActiveAfter DEF SamePhase
  <1>4. ASSUME r.timer_state = "ready" PROVE After(r, w)
    <2>1. Active(w) /\ Phases(w) /\ SameUser(w, t) /\ SamePhase(w, t)
      BY <1>2, <1>4, StartTimerActive, Zenon
    <2> HIDE DEF w
    <2>2. SameUser(w, r) /\ w.intern_state = r.intern_state
      BY <1>2, <2>1 DEF SameUser, SamePhase
    <2> QED
      BY <2>1, <2>2, ActiveAfter
  <1>5. "error" \in Errors
    BY DEF Errors
  <1>6. After(r, x)
    BY <1>5, StartStop, Zenon
  <1>7. After(r, r)
    <2>1. SameUser(r, r)
      BY DEF SameUser
    <2> QED
      BY <2>1, ActiveAfter
  <1> QED
    BY <1>1, <1>3, <1>4, <1>6, <1>7, Zenon

\* A new read is given free space only, and none is started twice.
LEMMA ReadMoreActive ==
  ASSUME NEW r, Active(r), Phases(r), NEW max_size \in Nat
  PROVE  LET q == ReadMore(r, max_size)
         IN  /\ Active(q) /\ Phases(q) /\ SameUser(q, r) /\ SamePhase(q, r)
  <1> DEFINE buffers == Buf!prepared(r.buffer, max_size)
             q == start_socket_read(r, buffers)
  <1>1. r \in SessionStates /\ Core(r)
    BY DEF Active, Core
  <1>2. /\ buffers \in Seq(Blocks)
        /\ Buf!BytesIn(buffers) <= r.buffer.nonfilled_size
    BY <1>1, Members, PreparedFits, ConfigAssumption
  <1>3. \/ ReadMore(r, max_size) = r
        \/ ReadMore(r, max_size) = q /\ r.read_state = "wait"
    BY Zenon DEF ReadMore
  <1> HIDE DEF buffers
  <1>4. ASSUME r.read_state = "wait"
        PROVE  /\ Active(q) /\ Phases(q) /\ SameUser(q, r) /\ SamePhase(q, r)
    <2>1. /\ q \in SessionStates /\ SameUser(q, r) /\ SamePhase(q, r)
          /\ q.read_state = "in_progress" /\ q.write_state = r.write_state
          /\ q.timer_state = r.timer_state /\ q.ops = r.ops \cup {"read"}
          /\ q.pending_operations = r.pending_operations + 1
          /\ q.buffer = r.buffer /\ q.reading = buffers
          /\ q.writing = r.writing
      BY <1>1, <1>2, StartReadFrame, Zenon
    <2> HIDE DEF q
    <2>2. OpsMatch(q)
      BY <1>1, <1>4, <2>1 DEF Core, OpsMatch, Busy
    <2>3. BufferFits(q)
      BY <1>1, <1>2, <2>1 DEF Core, BufferFits, SamePhase
    <2>4. Active(q)
      BY <2>1, <2>2, <2>3 DEF Active, Core, SameUser, SamePhase, WaitParked
    <2>5. Phases(q)
      BY <2>1, <2>4 DEF Active, Phases, SamePhase
    <2> QED
      BY <2>1, <2>4, <2>5
  <1>5. SameUser(r, r) /\ SamePhase(r, r)
    BY DEF SameUser, SamePhase
  <1> HIDE DEF q
  <1> QED
    BY <1>3, <1>4, <1>5, Zenon

\* A new write is given filled bytes only, and none is started twice.
LEMMA WriteMoreActive ==
  ASSUME NEW r, Active(r), Phases(r)
  PROVE  LET q == WriteMore(r)
         IN  /\ Active(q) /\ Phases(q) /\ SameUser(q, r) /\ SamePhase(q, r)
             /\ q.read_state = r.read_state
  <1> DEFINE buffers == Buf!data(r.buffer, MaxTransfer)
             q == start_socket_write(r, buffers)
  <1>1. r \in SessionStates /\ Core(r)
    BY DEF Active, Core
  <1>2. /\ buffers \in Seq(Blocks)
        /\ Buf!BytesIn(buffers) <= r.buffer.filled_size
    BY <1>1, Members, DataFits, ConfigAssumption
  <1>3. \/ WriteMore(r) = r
        \/ WriteMore(r) = q /\ r.write_state = "wait"
    BY Zenon DEF WriteMore
  <1> HIDE DEF buffers
  <1>4. ASSUME r.write_state = "wait"
        PROVE  /\ Active(q) /\ Phases(q) /\ SameUser(q, r) /\ SamePhase(q, r)
               /\ q.read_state = r.read_state
    <2>1. /\ q \in SessionStates /\ SameUser(q, r) /\ SamePhase(q, r)
          /\ q.read_state = r.read_state /\ q.write_state = "in_progress"
          /\ q.timer_state = r.timer_state /\ q.ops = r.ops \cup {"write"}
          /\ q.pending_operations = r.pending_operations + 1
          /\ q.buffer = r.buffer /\ q.reading = r.reading
          /\ q.writing = buffers
      BY <1>1, <1>2, StartWriteFrame, Zenon
    <2> HIDE DEF q
    <2>2. OpsMatch(q)
      BY <1>1, <1>4, <2>1 DEF Core, OpsMatch, Busy
    <2>3. BufferFits(q)
      BY <1>1, <1>2, <2>1 DEF Core, BufferFits, SamePhase
    <2>4. Active(q)
      BY <2>1, <2>2, <2>3 DEF Active, Core, SameUser, SamePhase, WaitParked
    <2>5. Phases(q)
      BY <2>1, <2>4 DEF Active, Phases, SamePhase
    <2> QED
      BY <2>1, <2>4, <2>5
  <1>5. SameUser(r, r) /\ SamePhase(r, r)
    BY DEF SameUser, SamePhase
  <1> HIDE DEF q
  <1> QED
    BY <1>3, <1>4, <1>5, Zenon

\* continue_work keeps the session sound.
LEMMA ContinueWork ==
  ASSUME NEW r, Active(r), Phases(r), NEW f
  PROVE  After(r, continue_work(r, f))
  <1> DEFINE p == ReadMore(r, MaxTransfer)
             q == WriteMore(p)
  <1>1. Active(p) /\ Phases(p) /\ SameUser(p, r) /\ SamePhase(p, r)
    <2>1. MaxTransfer \in Nat
      BY ConfigAssumption
    <2> QED
      BY <2>1, ReadMoreActive, Zenon
  <1> HIDE DEF p
  <1>2. Active(q) /\ Phases(q) /\ SameUser(q, p) /\ SamePhase(q, p)
    BY <1>1, WriteMoreActive, Zenon
  <1> HIDE DEF q
  <1>3. After(q, continue_timer_wait(q, f))
    BY <1>2, ContinueTimerWait
  <1>4. SameUser(q, r) /\ q.intern_state = r.intern_state
    BY <1>1, <1>2 DEF SameUser, SamePhase
  <1>5. After(r, continue_timer_wait(q, f))
    BY <1>3, <1>4, AfterSame
  <1> QED
    BY <1>5, Zenon DEF continue_work, p, q

\* The end of every continue_shutdown_*: the timer is restarted if asked for.
LEMMA RestartTimerAfter ==
  ASSUME NEW r, NEW p, Active(p), Phases(p), SameUser(p, r), SamePhase(p, r),
         NEW need_timer_restart \in BOOLEAN, NEW f
  PROVE  After(r, RestartTimer(p, need_timer_restart, f))
  <1>1. \/ RestartTimer(p, need_timer_restart, f) = p
        \/ RestartTimer(p, need_timer_restart, f) = continue_timer_wait(p, f)
    BY Zenon DEF RestartTimer
  <1>2. p.intern_state = r.intern_state
    BY DEF SamePhase
  <1>3. After(r, p)
    BY <1>2, ActiveAfter
  <1>4. After(p, continue_timer_wait(p, f))
    BY ContinueTimerWait
  <1>5. After(r, continue_timer_wait(p, f))
    BY <1>2, <1>4, AfterSame
  <1> QED
    BY <1>1, <1>3, <1>5, Zenon

\* The writing activity ends while nothing is being written.
LEMMA EndWritingActive ==
  ASSUME NEW r, Active(r), Phases(r), r.intern_state = "shutdown",
         r.write_state = "wait", NEW q \in {EndOutput(r), StopWriting(r)}
  PROVE  /\ Active(q) /\ Phases(q) /\ SameUser(q, r) /\ SamePhase(q, r)
         /\ q.read_state = r.read_state /\ q.write_state = "stopped"
  <1>1. r \in SessionStates /\ Core(r)
    BY DEF Active, Core
  <1>2. q = EndOutput(r) \/ q = StopWriting(r)
    OBVIOUS
  <1>3. /\ q \in SessionStates /\ SameUser(q, r) /\ SamePhase(q, r)
        /\ SameData(q, r) /\ q.ops = r.ops
        /\ q.pending_operations = r.pending_operations
        /\ q.read_state = r.read_state /\ q.write_state = "stopped"
        /\ q.timer_state = r.timer_state
    <2>1. CASE q = EndOutput(r)
      BY <1>1, <2>1, EndOutputFrame
    <2>2. CASE q = StopWriting(r)
      BY <1>1, <2>2, StopWritingFrame
    <2> QED
      BY <1>2, <2>1, <2>2
  <1>4. OpsMatch(q)
    BY <1>1, <1>3 DEF Core, OpsMatch, Busy
  <1>5. BufferFits(q)
    BY <1>1, <1>3 DEF Core, BufferFits, SameData, SamePhase
  <1>6. Active(q)
    BY <1>3, <1>4, <1>5 DEF Active, Core, SameUser, SamePhase, WaitParked
  <1>7. Phases(q)
    BY <1>3 DEF Phases, SamePhase
  <1> QED
    BY <1>3, <1>6, <1>7

\* The buffer is given another content that the transfers in flight still fit.
LEMMA BufferActive ==
  ASSUME NEW r, Active(r), NEW b \in Buf!Buffers(BufferSize),
         Buf!WellFormed(b),
         "read"  \in r.ops => Buf!BytesIn(r.reading) <= b.nonfilled_size,
         "write" \in r.ops => Buf!BytesIn(r.writing) <= b.filled_size
  PROVE  LET q == [r EXCEPT !.buffer = b]
         IN  /\ Active(q) /\ SameUser(q, r) /\ SamePhase(q, r) /\ SameOps(q, r)
  <1> DEFINE q == [r EXCEPT !.buffer = b]
  <1>1. r \in SessionStates /\ Core(r)
    BY DEF Active, Core
  <1>2. /\ q \in SessionStates /\ SameUser(q, r) /\ SamePhase(q, r)
        /\ SameOps(q, r) /\ q.buffer = b
        /\ q.reading = r.reading /\ q.writing = r.writing
    BY <1>1, BufferFrame, Zenon
  <1> HIDE DEF q
  <1>3. OpsMatch(q)
    BY <1>1, <1>2 DEF Core, OpsMatch, SameOps
  <1>4. BufferFits(q)
    BY <1>2 DEF BufferFits, SameOps
  <1>5. Active(q)
    BY <1>2, <1>3, <1>4 DEF Active, Core, SameUser, SamePhase, WaitParked
  <1> QED
    BY <1>2, <1>5, Zenon DEF q

\* A buffer is reset only when neither transfer uses it.
LEMMA ResetBufferActive ==
  ASSUME NEW r, Active(r), r.read_state # "in_progress",
         r.write_state # "in_progress"
  PROVE  LET q == ResetBuffer(r)
         IN  /\ Active(q) /\ SameUser(q, r) /\ SamePhase(q, r) /\ SameOps(q, r)
  <1> DEFINE b == Buf!reset(r.buffer)
             q == [r EXCEPT !.buffer = b]
  <1>1. r \in SessionStates /\ Core(r)
    BY DEF Active, Core
  <1>2. b \in Buf!Buffers(BufferSize) /\ Buf!WellFormed(b)
    BY <1>1, Members, BufferReset, ConfigAssumption
  <1>3. "read" \notin r.ops /\ "write" \notin r.ops
    BY <1>1 DEF Core, OpsMatch
  <1> HIDE DEF b
  <1>4. Active(q) /\ SameUser(q, r) /\ SamePhase(q, r) /\ SameOps(q, r)
    BY <1>2, <1>3, BufferActive, Zenon
  <1> QED
    BY <1>4, Zenon DEF ResetBuffer, b

\* continue_shutdown_at_read_wait keeps the session sound; it resets the buffer
\* only when no write uses it.
LEMMA ShutdownAtReadWait ==
  ASSUME NEW r, Active(r), Phases(r), r.intern_state = "shutdown",
         r.read_state = "wait", NEW need_timer_restart \in BOOLEAN, NEW f
  PROVE  After(r, continue_shutdown_at_read_wait(r, need_timer_restart, f))
  <1> DEFINE x == start_stop(r, "error", f)
             w == IF r.write_state = "wait" THEN EndOutput(r) ELSE r
             b == IF w.write_state = "stopped" THEN ResetBuffer(w) ELSE w
             q == ReadMore(b, b.buffer.nonfilled_size)
  <1>1. \/ continue_shutdown_at_read_wait(r, need_timer_restart, f) = x
        \/ continue_shutdown_at_read_wait(r, need_timer_restart, f)
           = RestartTimer(q, need_timer_restart, f)
    BY Zenon DEF continue_shutdown_at_read_wait
  <1>2. "error" \in Errors
    BY DEF Errors
  <1>3. After(r, x)
    BY <1>2, StartStop, Zenon
  <1>4. /\ Active(w) /\ Phases(w) /\ SameUser(w, r) /\ SamePhase(w, r)
        /\ w.read_state = "wait"
    <2>1. CASE r.write_state = "wait"
      BY <2>1, EndWritingActive, Zenon
    <2>2. CASE r.write_state # "wait"
      BY <2>2 DEF SameUser, SamePhase
    <2> QED
      BY <2>1, <2>2
  <1> HIDE DEF w
  <1>5. Active(b) /\ Phases(b) /\ SameUser(b, w) /\ SamePhase(b, w)
    <2>1. CASE w.write_state = "stopped"
      <3>1. w.write_state # "in_progress" /\ w.read_state # "in_progress"
        BY <1>4, <2>1
      <3>2. LET q2 == ResetBuffer(w)
            IN  /\ Active(q2) /\ SameUser(q2, w) /\ SamePhase(q2, w)
                /\ SameOps(q2, w)
        BY <1>4, <3>1, ResetBufferActive, Zenon
      <3>3. Phases(ResetBuffer(w))
        BY <1>4, <3>2, PhasesSame
      <3> QED
        BY <2>1, <3>2, <3>3, Zenon
    <2>2. CASE w.write_state # "stopped"
      BY <1>4, <2>2 DEF SameUser, SamePhase
    <2> QED
      BY <2>1, <2>2
  <1> HIDE DEF b
  <1>6. b.buffer.nonfilled_size \in Nat
    <2>1. b \in SessionStates /\ b.buffer \in Buf!Buffers(BufferSize)
      BY <1>5, Members DEF Active, Core
    <2>2. b.buffer.nonfilled_size \in 0 .. BufferSize
      BY <2>1, BufferFields, ConfigAssumption
    <2> QED
      BY <2>2, ConfigAssumption
  <1>7. Active(q) /\ Phases(q) /\ SameUser(q, b) /\ SamePhase(q, b)
    BY <1>5, <1>6, ReadMoreActive, Zenon
  <1> HIDE DEF q
  <1>8. SameUser(q, r) /\ SamePhase(q, r)
    BY <1>4, <1>5, <1>7 DEF SameUser, SamePhase
  <1>9. After(r, RestartTimer(q, need_timer_restart, f))
    BY <1>7, <1>8, RestartTimerAfter
  <1> QED
    BY <1>1, <1>3, <1>9, Zenon

\* continue_shutdown_at_read_in_progress keeps the session sound.
LEMMA ShutdownAtReadInProgress ==
  ASSUME NEW r, Active(r), Phases(r), r.intern_state = "shutdown",
         NEW need_timer_restart \in BOOLEAN, NEW f
  PROVE  After(r, continue_shutdown_at_read_in_progress(r, need_timer_restart, f))
  <1> DEFINE x == start_stop(r, "error", f)
             w == IF r.write_state = "wait" THEN EndOutput(r) ELSE r
  <1>1. \/ continue_shutdown_at_read_in_progress(r, need_timer_restart, f) = x
        \/ continue_shutdown_at_read_in_progress(r, need_timer_restart, f)
           = RestartTimer(w, need_timer_restart, f)
    BY Zenon DEF continue_shutdown_at_read_in_progress
  <1>2. "error" \in Errors
    BY DEF Errors
  <1>3. After(r, x)
    BY <1>2, StartStop, Zenon
  <1>4. Active(w) /\ Phases(w) /\ SameUser(w, r) /\ SamePhase(w, r)
    <2>1. CASE r.write_state = "wait"
      BY <2>1, EndWritingActive, Zenon
    <2>2. CASE r.write_state # "wait"
      BY <2>2 DEF SameUser, SamePhase
    <2> QED
      BY <2>1, <2>2
  <1> HIDE DEF w
  <1>5. After(r, RestartTimer(w, need_timer_restart, f))
    BY <1>4, RestartTimerAfter
  <1> QED
    BY <1>1, <1>3, <1>5, Zenon

\* continue_shutdown_at_read_stopped keeps the session sound, or stops it.
LEMMA ShutdownAtReadStopped ==
  ASSUME NEW r, Active(r), Phases(r), r.intern_state = "shutdown",
         NEW need_timer_restart \in BOOLEAN, NEW f
  PROVE  After(r, continue_shutdown_at_read_stopped(r, need_timer_restart, f))
  <1> DEFINE w == WriteMore(r)
             e == IF w.write_state # "wait" THEN w
                  ELSE IF "shutdown" \in f THEN StopWriting(w)
                  ELSE EndOutput(w)
             x == start_stop(e, "ok", f)
  <1>1. \/ continue_shutdown_at_read_stopped(r, need_timer_restart, f) = x
        \/ continue_shutdown_at_read_stopped(r, need_timer_restart, f)
           = RestartTimer(e, need_timer_restart, f)
    BY Zenon DEF continue_shutdown_at_read_stopped, StopWriting
  <1>2. Active(w) /\ Phases(w) /\ SameUser(w, r) /\ SamePhase(w, r)
    BY WriteMoreActive, Zenon
  <1> HIDE DEF w
  <1>3. w.intern_state = "shutdown"
    BY <1>2 DEF SamePhase
  <1>4. Active(e) /\ Phases(e) /\ SameUser(e, w) /\ SamePhase(e, w)
    <2>1. CASE w.write_state = "wait"
      <3>1. e = EndOutput(w) \/ e = StopWriting(w)
        BY <2>1, Zenon
      <3> QED
        BY <1>2, <1>3, <2>1, <3>1, EndWritingActive, Zenon
    <2>2. CASE w.write_state # "wait"
      BY <1>2, <2>2 DEF SameUser, SamePhase
    <2> QED
      BY <2>1, <2>2
  <1> HIDE DEF e
  <1>5. SameUser(e, r) /\ SamePhase(e, r)
    BY <1>2, <1>4 DEF SameUser, SamePhase
  <1>6. After(r, RestartTimer(e, need_timer_restart, f))
    BY <1>4, <1>5, RestartTimerAfter
  <1>7. After(r, x)
    <2>1. "ok" \in Errors
      BY DEF Errors
    <2>2. After(e, x)
      BY <1>4, <2>1, StartStop, Zenon
    <2> HIDE DEF x
    <2> QED
      BY <1>5, <2>2, AfterSame DEF SamePhase
  <1> QED
    BY <1>1, <1>6, <1>7, Zenon

\* continue_shutdown keeps the session sound, whatever the reading activity does.
LEMMA ContinueShutdown ==
  ASSUME NEW r, Active(r), Phases(r), r.intern_state = "shutdown",
         NEW need_timer_restart \in BOOLEAN, NEW f
  PROVE  After(r, continue_shutdown(r, need_timer_restart, f))
  <1>1. CASE r.read_state = "wait"
    BY <1>1, ShutdownAtReadWait, Zenon DEF continue_shutdown
  <1>2. CASE r.read_state # "wait"
    BY <1>2, ShutdownAtReadInProgress, ShutdownAtReadStopped, Zenon
       DEF continue_shutdown
  <1> QED
    BY <1>1, <1>2

\* Reading may have stopped already when the shutdown starts.
LEMMA StartShutdown ==
  ASSUME NEW r, Active(r), r.timer_state # "stopped", NEW error \in Errors,
         NEW need_timer_restart \in BOOLEAN, NEW f
  PROVE  /\ After(r, start_shutdown(r, error, need_timer_restart, f))
         /\ start_shutdown(r, error, need_timer_restart, f).intern_state # "work"
  <1> DEFINE p == [r EXCEPT !.intern_state = "shutdown"]
             t == complete_extern_wait(p, error)
             q == IF r.extern_state = "work" THEN t ELSE p
             x == continue_shutdown(q, need_timer_restart, f)
  <1>1. r \in SessionStates /\ Core(r)
    BY DEF Active, Core
  <1>2. start_shutdown(r, error, need_timer_restart, f) = x
    BY Zenon DEF start_shutdown
  <1>3. /\ p \in SessionStates /\ SameUser(p, r) /\ SameOps(p, r)
        /\ SameData(p, r) /\ p.intern_state = "shutdown" /\ p.open = r.open
    BY <1>1, InternFrame, Zenon
  <1> HIDE DEF p
  <1>4. /\ t \in SessionStates /\ SamePhase(t, p) /\ SameOps(t, p)
        /\ SameData(t, p) /\ t.extern_state = p.extern_state
        /\ t.stop_handler = p.stop_handler /\ ~t.wait_handler
    BY <1>3, CompleteWaitFrame, Zenon
  <1> HIDE DEF t
  <1>5. /\ q \in SessionStates /\ SameOps(q, r) /\ SameData(q, r)
        /\ q.intern_state = "shutdown" /\ q.extern_state = r.extern_state
        /\ q.stop_handler = r.stop_handler /\ ~q.wait_handler
    BY <1>3, <1>4
       DEF Active, WaitParked, SameOps, SameData, SamePhase, SameUser
  <1> HIDE DEF q
  <1>6. Active(q) /\ Phases(q)
    <2>1. OpsMatch(q)
      BY <1>1, <1>5 DEF Core, OpsMatch, SameOps
    <2>2. BufferFits(q)
      BY <1>1, <1>5 DEF Active, Core, BufferFits, SameOps, SameData
    <2> QED
      BY <1>5, <2>1, <2>2 DEF Active, Core, WaitParked, Phases, SameOps
  <1>7. After(q, x)
    BY <1>5, <1>6, ContinueShutdown
  <1> HIDE DEF x
  <1>8. After(r, x) /\ x.intern_state # "work"
    BY <1>5, <1>7 DEF After, Kept
  <1> QED
    BY <1>2, <1>8, Zenon

-----------------------------------------------------------------------------
(***************************************************************************)
(* The completion handlers.                                                 *)
(***************************************************************************)
LEMMA BytesInNat ==
  ASSUME NEW blocks \in Seq(Blocks)
  PROVE  Buf!BytesIn(blocks) \in Nat
  <1> DEFINE first  == IF Len(blocks) > 0 THEN blocks[1].len ELSE 0
             second == IF Len(blocks) > 1 THEN blocks[2].len ELSE 0
  <1>1. first \in Nat
    <2>1. Len(blocks) > 0 => blocks[1] \in Blocks
      OBVIOUS
    <2> QED
      BY <2>1 DEF Blocks
  <1>2. second \in Nat
    <2>1. Len(blocks) > 1 => blocks[2] \in Blocks
      OBVIOUS
    <2> QED
      BY <2>1 DEF Blocks
  <1>3. Buf!BytesIn(blocks) = first + second
    BY DEF Buf!BytesIn
  <1> HIDE DEF first, second
  <1> QED
    BY <1>1, <1>2, <1>3

\* An outstanding operation is counted.
LEMMA OpCounted ==
  ASSUME NEW r, Core(r), r.ops # {}
  PROVE  r.pending_operations > 0
  <1>1. r.ops \in SUBSET {"read", "write", "timer"}
    BY Members DEF Core
  <1>2. \/ r.read_state = "in_progress" \/ r.write_state = "in_progress"
        \/ r.timer_state = "in_progress"
    BY <1>1 DEF Core, OpsMatch
  <1> QED
    BY <1>2 DEF Core, OpsMatch, Busy

\* The beginning of handle_read_at_*: the completion is registered.
LEMMA ReadDoneActive ==
  ASSUME NEW r, Active(r), Phases(r), "read" \in r.ops
  PROVE  LET d == ReadDone(r, "wait")
         IN  /\ Active(d) /\ Phases(d) /\ SameUser(d, r) /\ SamePhase(d, r)
             /\ SameData(d, r) /\ d.read_state = "wait" /\ "read" \notin d.ops
  <1> DEFINE d == ReadDone(r, "wait")
  <1>1. r \in SessionStates /\ Core(r) /\ r.ops # {}
    BY DEF Active, Core
  <1>2. /\ d \in SessionStates /\ SameUser(d, r) /\ SamePhase(d, r)
        /\ SameData(d, r) /\ d.ops = r.ops \ {"read"}
        /\ d.pending_operations = r.pending_operations - 1
        /\ d.read_state = "wait" /\ d.write_state = r.write_state
        /\ d.timer_state = r.timer_state
    <2>1. r.pending_operations > 0
      BY <1>1, OpCounted
    <2>2. "wait" \in {"wait", "stopped"}
      OBVIOUS
    <2> QED
      BY <1>1, <2>1, <2>2, ReadDoneFrame, Zenon
  <1> HIDE DEF d
  <1>3. OpsMatch(d)
    BY <1>1, <1>2 DEF Core, OpsMatch, Busy
  <1>4. BufferFits(d)
    BY <1>1, <1>2 DEF Core, BufferFits, SameData, SamePhase
  <1>5. Active(d)
    BY <1>2, <1>3, <1>4 DEF Active, Core, SameUser, SamePhase, WaitParked
  <1>6. Phases(d)
    BY <1>2, <1>5 DEF Active, Phases, SamePhase
  <1>7. "read" \notin d.ops
    BY <1>2
  <1> QED
    BY <1>2, <1>5, <1>6, <1>7, Zenon DEF d

\* The beginning of handle_write_at_*: the completion is registered.
LEMMA WriteDoneActive ==
  ASSUME NEW r, Active(r), Phases(r), "write" \in r.ops
  PROVE  LET d == WriteDone(r, "wait")
         IN  /\ Active(d) /\ Phases(d) /\ SameUser(d, r) /\ SamePhase(d, r)
             /\ SameData(d, r) /\ d.write_state = "wait" /\ "write" \notin d.ops
  <1> DEFINE d == WriteDone(r, "wait")
  <1>1. r \in SessionStates /\ Core(r) /\ r.ops # {}
    BY DEF Active, Core
  <1>2. /\ d \in SessionStates /\ SameUser(d, r) /\ SamePhase(d, r)
        /\ SameData(d, r) /\ d.ops = r.ops \ {"write"}
        /\ d.pending_operations = r.pending_operations - 1
        /\ d.read_state = r.read_state /\ d.write_state = "wait"
        /\ d.timer_state = r.timer_state
    <2>1. r.pending_operations > 0
      BY <1>1, OpCounted
    <2>2. "wait" \in {"wait", "stopped"}
      OBVIOUS
    <2> QED
      BY <1>1, <2>1, <2>2, WriteDoneFrame, Zenon
  <1> HIDE DEF d
  <1>3. OpsMatch(d)
    BY <1>1, <1>2 DEF Core, OpsMatch, Busy
  <1>4. BufferFits(d)
    BY <1>1, <1>2 DEF Core, BufferFits, SameData, SamePhase
  <1>5. Active(d)
    BY <1>2, <1>3, <1>4 DEF Active, Core, SameUser, SamePhase, WaitParked
  <1>6. Phases(d)
    BY <1>2, <1>5 DEF Active, Phases, SamePhase
  <1>7. "write" \notin d.ops
    BY <1>2
  <1> QED
    BY <1>2, <1>5, <1>6, <1>7, Zenon DEF d

\* The beginning of handle_timer_at_*: the completion is registered.
LEMMA TimerDoneActive ==
  ASSUME NEW r, Active(r), Phases(r), "timer" \in r.ops,
         NEW state \in {"ready", "stopped"}
  PROVE  LET d == TimerDone(r, state)
         IN  /\ Active(d) /\ SameUser(d, r) /\ SamePhase(d, r)
             /\ d.timer_state = state /\ (state = "ready" => Phases(d))
  <1> DEFINE d == TimerDone(r, state)
  <1>1. r \in SessionStates /\ Core(r) /\ r.ops # {}
    BY DEF Active, Core
  <1>2. /\ d \in SessionStates /\ SameUser(d, r) /\ SamePhase(d, r)
        /\ SameData(d, r) /\ d.ops = r.ops \ {"timer"}
        /\ d.pending_operations = r.pending_operations - 1
        /\ d.read_state = r.read_state /\ d.write_state = r.write_state
        /\ d.timer_state = state
    <2>1. r.pending_operations > 0
      BY <1>1, OpCounted
    <2> QED
      BY <1>1, <2>1, TimerDoneFrame, Zenon
  <1> HIDE DEF d
  <1>3. OpsMatch(d)
    BY <1>1, <1>2 DEF Core, OpsMatch, Busy
  <1>4. BufferFits(d)
    BY <1>1, <1>2 DEF Core, BufferFits, SameData, SamePhase
  <1>5. Active(d)
    BY <1>2, <1>3, <1>4 DEF Active, Core, SameUser, SamePhase, WaitParked
  <1>6. state = "ready" => Phases(d)
    BY <1>2, <1>5 DEF Active, Phases, SamePhase
  <1> QED
    BY <1>2, <1>5, <1>6, Zenon DEF d

\* cancel_timer_wait keeps a working session sound, failing or not.
LEMMA CancelTimerActive ==
  ASSUME NEW r, Active(r), Phases(r), NEW failed \in BOOLEAN
  PROVE  LET c == cancel_timer_wait(r, failed)
         IN  /\ Active(c) /\ Phases(c) /\ SameUser(c, r) /\ SamePhase(c, r)
             /\ SameOps(c, r) /\ SameData(c, r)
  <1> DEFINE c == cancel_timer_wait(r, failed)
  <1>1. r \in SessionStates /\ Core(r)
    BY DEF Active, Core
  <1>2. /\ c \in SessionStates /\ SameUser(c, r) /\ SamePhase(c, r)
        /\ SameOps(c, r) /\ SameData(c, r)
    BY <1>1, CancelTimerFrame, Zenon
  <1> HIDE DEF c
  <1>3. Core(c) /\ Phases(c)
    <2>1. c.intern_state = r.intern_state
      BY <1>2 DEF SamePhase
    <2> QED
      BY <1>1, <1>2, <2>1, CoreSame, PhasesSame
  <1>4. Active(c)
    BY <1>2, <1>3 DEF Active, SameUser, SamePhase, WaitParked
  <1> QED
    BY <1>2, <1>3, <1>4, Zenon DEF c

\* An activity that waits is stopped.
LEMMA StopReadingActive ==
  ASSUME NEW r, Active(r), Phases(r), r.read_state = "wait"
  PROVE  LET q == StopReading(r)
         IN  /\ Active(q) /\ SameUser(q, r) /\ SamePhase(q, r)
             /\ q.timer_state # "stopped"
             /\ (r.intern_state = "shutdown" => Phases(q))
  <1> DEFINE q == StopReading(r)
  <1>1. r \in SessionStates /\ Core(r)
    BY DEF Active, Core
  <1>2. /\ q \in SessionStates /\ SameUser(q, r) /\ SamePhase(q, r)
        /\ SameData(q, r) /\ q.ops = r.ops
        /\ q.pending_operations = r.pending_operations
        /\ q.read_state = "stopped" /\ q.write_state = r.write_state
        /\ q.timer_state = r.timer_state
    BY <1>1, StopReadingFrame, Zenon
  <1> HIDE DEF q
  <1>3. OpsMatch(q)
    BY <1>1, <1>2 DEF Core, OpsMatch, Busy
  <1>4. BufferFits(q)
    BY <1>1, <1>2 DEF Core, BufferFits, SameData, SamePhase
  <1>5. Active(q)
    BY <1>2, <1>3, <1>4 DEF Active, Core, SameUser, SamePhase, WaitParked
  <1>6. r.intern_state = "shutdown" => Phases(q)
    BY <1>2 DEF Phases, SamePhase
  <1>7. q.timer_state # "stopped"
    BY <1>2 DEF Active, Phases
  <1> QED
    BY <1>2, <1>5, <1>6, <1>7, Zenon DEF q

\* A writing activity that waits is stopped.
LEMMA StopWritingActive ==
  ASSUME NEW r, Active(r), r.write_state = "wait"
  PROVE  LET q == StopWriting(r)
         IN  Active(q) /\ SameUser(q, r) /\ SamePhase(q, r)
  <1> DEFINE q == StopWriting(r)
  <1>1. r \in SessionStates /\ Core(r)
    BY DEF Active, Core
  <1>2. /\ q \in SessionStates /\ SameUser(q, r) /\ SamePhase(q, r)
        /\ SameData(q, r) /\ q.ops = r.ops
        /\ q.pending_operations = r.pending_operations
        /\ q.read_state = r.read_state /\ q.write_state = "stopped"
        /\ q.timer_state = r.timer_state
    BY <1>1, StopWritingFrame, Zenon
  <1> HIDE DEF q
  <1>3. OpsMatch(q)
    BY <1>1, <1>2 DEF Core, OpsMatch, Busy
  <1>4. BufferFits(q)
    BY <1>1, <1>2 DEF Core, BufferFits, SameData, SamePhase
  <1>5. Active(q)
    BY <1>2, <1>3, <1>4 DEF Active, Core, SameUser, SamePhase, WaitParked
  <1> QED
    BY <1>2, <1>5, Zenon DEF q

\* The bytes that were read fit, and leave what is being written in place.
LEMMA ConsumeActive ==
  ASSUME NEW r, Active(r), "read" \notin r.ops, NEW bytes \in Nat,
         bytes <= r.buffer.nonfilled_size
  PROVE  LET q == Consume(r, bytes)
         IN  /\ Active(q) /\ SameUser(q, r) /\ SamePhase(q, r) /\ SameOps(q, r)
  <1> DEFINE b == Buf!consume(r.buffer, bytes)
             q == [r EXCEPT !.buffer = b]
  <1>1. /\ r \in SessionStates /\ Core(r) /\ Buf!WellFormed(r.buffer)
        /\ r.buffer \in Buf!Buffers(BufferSize) /\ r.writing \in Seq(Blocks)
    BY Members DEF Active, Core, BufferFits
  <1>2. /\ b \in Buf!Buffers(BufferSize) /\ Buf!WellFormed(b)
        /\ b.filled_size = r.buffer.filled_size + bytes
    BY <1>1, BufferConsume, ConfigAssumption DEF Buf!CanConsume
  <1> HIDE DEF b
  <1>3. "write" \in r.ops => Buf!BytesIn(r.writing) <= b.filled_size
    <2>1. Buf!BytesIn(r.writing) \in Nat
      BY <1>1, BytesInNat
    <2>2. r.buffer.filled_size \in 0 .. BufferSize
      BY <1>1, BufferFields, ConfigAssumption
    <2>3. "write" \in r.ops => Buf!BytesIn(r.writing) <= r.buffer.filled_size
      BY <1>1 DEF Active, Core, BufferFits
    <2> QED
      BY <1>2, <2>1, <2>2, <2>3, ConfigAssumption
  <1>4. Active(q) /\ SameUser(q, r) /\ SamePhase(q, r) /\ SameOps(q, r)
    BY <1>2, <1>3, BufferActive, Zenon
  <1> QED
    BY <1>4, Zenon DEF Consume, b

\* The bytes that were written were filled, and their space does not take any
\* away from a read in flight.
LEMMA CommitActive ==
  ASSUME NEW r, Active(r), "write" \notin r.ops, NEW bytes \in Nat,
         bytes <= r.buffer.filled_size
  PROVE  LET q == Commit(r, bytes)
         IN  /\ Active(q) /\ SameUser(q, r) /\ SamePhase(q, r) /\ SameOps(q, r)
  <1> DEFINE b == Buf!commit(r.buffer, bytes)
             q == [r EXCEPT !.buffer = b]
  <1>1. /\ r \in SessionStates /\ Core(r) /\ Buf!WellFormed(r.buffer)
        /\ r.buffer \in Buf!Buffers(BufferSize) /\ r.reading \in Seq(Blocks)
    BY Members DEF Active, Core, BufferFits
  <1>2. /\ b \in Buf!Buffers(BufferSize) /\ Buf!WellFormed(b)
        /\ b.nonfilled_size = r.buffer.nonfilled_size + bytes
    BY <1>1, BufferCommit, ConfigAssumption DEF Buf!CanCommit
  <1> HIDE DEF b
  <1>3. "read" \in r.ops => Buf!BytesIn(r.reading) <= b.nonfilled_size
    <2>1. Buf!BytesIn(r.reading) \in Nat
      BY <1>1, BytesInNat
    <2>2. r.buffer.nonfilled_size \in 0 .. BufferSize
      BY <1>1, BufferFields, ConfigAssumption
    <2>3. "read" \in r.ops => Buf!BytesIn(r.reading) <= r.buffer.nonfilled_size
      BY <1>1 DEF Active, Core, BufferFits
    <2> QED
      BY <1>2, <2>1, <2>2, <2>3, ConfigAssumption
  <1>4. Active(q) /\ SameUser(q, r) /\ SamePhase(q, r) /\ SameOps(q, r)
    BY <1>2, <1>3, BufferActive, Zenon
  <1> QED
    BY <1>4, Zenon DEF Commit, b

\* The sessions a completed read leads to before it is acted upon.
LEMMA ReadCompletion ==
  ASSUME NEW r, Active(r), Phases(r), "read" \in r.ops, NEW bytes \in Nat,
         bytes <= Buf!BytesIn(r.reading), NEW failed \in BOOLEAN
  PROVE  LET c == cancel_timer_wait(ReadDone(r, "wait"), failed)
             x == StopReading(c)
             y == Consume(c, bytes)
             z == StopReading(y)
         IN  /\ Active(x) /\ SameUser(x, r) /\ SamePhase(x, r)
             /\ Active(y) /\ SameUser(y, r) /\ SamePhase(y, r) /\ Phases(y)
             /\ Active(z) /\ SameUser(z, r) /\ SamePhase(z, r)
             /\ z.timer_state # "stopped"
             /\ (r.intern_state = "shutdown" => Phases(z))
  <1> DEFINE d == ReadDone(r, "wait")
             c == cancel_timer_wait(d, failed)
             x == StopReading(c)
             y == Consume(c, bytes)
             z == StopReading(y)
  <1>1. /\ Active(d) /\ Phases(d) /\ SameUser(d, r) /\ SamePhase(d, r)
        /\ SameData(d, r) /\ d.read_state = "wait" /\ "read" \notin d.ops
    BY ReadDoneActive, Zenon
  <1> HIDE DEF d
  <1>2. /\ Active(c) /\ Phases(c) /\ SameUser(c, d) /\ SamePhase(c, d)
        /\ SameOps(c, d) /\ SameData(c, d)
    BY <1>1, CancelTimerActive, Zenon
  <1> HIDE DEF c
  <1>3. /\ SameUser(c, r) /\ SamePhase(c, r) /\ SameData(c, r)
        /\ c.read_state = "wait" /\ "read" \notin c.ops
    BY <1>1, <1>2 DEF SameUser, SamePhase, SameOps, SameData
  <1>4. Active(x) /\ SameUser(x, c) /\ SamePhase(x, c)
    BY <1>2, <1>3, StopReadingActive, Zenon
  <1> HIDE DEF x
  <1>5. bytes <= c.buffer.nonfilled_size
    <2>1. Buf!BytesIn(r.reading) <= r.buffer.nonfilled_size
      BY DEF Active, Core, BufferFits
    <2>2. r \in SessionStates
      BY DEF Active, Core
    <2>3. Buf!BytesIn(r.reading) \in Nat
      BY <2>2, Members, BytesInNat
    <2>4. r.buffer.nonfilled_size \in 0 .. BufferSize
      BY <2>2, Members, BufferFields, ConfigAssumption
    <2>5. bytes <= r.buffer.nonfilled_size
      BY <2>1, <2>3, <2>4, ConfigAssumption
    <2> QED
      BY <1>3, <2>5 DEF SameData
  <1>6. Active(y) /\ SameUser(y, c) /\ SamePhase(y, c) /\ SameOps(y, c)
    BY <1>2, <1>3, <1>5, ConsumeActive, Zenon
  <1> HIDE DEF y
  <1>7. Phases(y)
    BY <1>2, <1>6, PhasesSame
  <1>8. y.read_state = "wait"
    BY <1>3, <1>6 DEF SameOps
  <1>9. /\ Active(z) /\ SameUser(z, y) /\ SamePhase(z, y)
        /\ z.timer_state # "stopped"
        /\ (y.intern_state = "shutdown" => Phases(z))
    BY <1>6, <1>7, <1>8, StopReadingActive, Zenon
  <1> HIDE DEF z
  <1>10. /\ SameUser(x, r) /\ SamePhase(x, r) /\ SameUser(y, r)
         /\ SamePhase(y, r) /\ SameUser(z, r) /\ SamePhase(z, r)
         /\ y.intern_state = r.intern_state
    BY <1>3, <1>4, <1>6, <1>9 DEF SameUser, SamePhase
  <1> QED
    BY <1>4, <1>6, <1>7, <1>9, <1>10, Zenon DEF x, y, z, c, d

\* The sessions a completed write leads to before it is acted upon.
LEMMA WriteCompletion ==
  ASSUME NEW r, Active(r), Phases(r), "write" \in r.ops, NEW bytes \in Nat,
         bytes <= Buf!BytesIn(r.writing), NEW failed \in BOOLEAN
  PROVE  LET c == cancel_timer_wait(WriteDone(r, "wait"), failed)
             x == StopWriting(c)
             y == Commit(c, bytes)
         IN  /\ Active(x) /\ SameUser(x, r) /\ SamePhase(x, r)
             /\ Active(y) /\ SameUser(y, r) /\ SamePhase(y, r) /\ Phases(y)
  <1> DEFINE d == WriteDone(r, "wait")
             c == cancel_timer_wait(d, failed)
             x == StopWriting(c)
             y == Commit(c, bytes)
  <1>1. /\ Active(d) /\ Phases(d) /\ SameUser(d, r) /\ SamePhase(d, r)
        /\ SameData(d, r) /\ d.write_state = "wait" /\ "write" \notin d.ops
    BY WriteDoneActive, Zenon
  <1> HIDE DEF d
  <1>2. /\ Active(c) /\ Phases(c) /\ SameUser(c, d) /\ SamePhase(c, d)
        /\ SameOps(c, d) /\ SameData(c, d)
    BY <1>1, CancelTimerActive, Zenon
  <1> HIDE DEF c
  <1>3. /\ SameUser(c, r) /\ SamePhase(c, r) /\ SameData(c, r)
        /\ c.write_state = "wait" /\ "write" \notin c.ops
    BY <1>1, <1>2 DEF SameUser, SamePhase, SameOps, SameData
  <1>4. Active(x) /\ SameUser(x, c) /\ SamePhase(x, c)
    BY <1>2, <1>3, StopWritingActive, Zenon
  <1> HIDE DEF x
  <1>5. bytes <= c.buffer.filled_size
    <2>1. Buf!BytesIn(r.writing) <= r.buffer.filled_size
      BY DEF Active, Core, BufferFits
    <2>2. r \in SessionStates
      BY DEF Active, Core
    <2>3. Buf!BytesIn(r.writing) \in Nat
      BY <2>2, Members, BytesInNat
    <2>4. r.buffer.filled_size \in 0 .. BufferSize
      BY <2>2, Members, BufferFields, ConfigAssumption
    <2>5. bytes <= r.buffer.filled_size
      BY <2>1, <2>3, <2>4, ConfigAssumption
    <2> QED
      BY <1>3, <2>5 DEF SameData
  <1>6. Active(y) /\ SameUser(y, c) /\ SamePhase(y, c) /\ SameOps(y, c)
    BY <1>2, <1>3, <1>5, CommitActive, Zenon
  <1> HIDE DEF y
  <1>7. Phases(y)
    BY <1>2, <1>6, PhasesSame
  <1>8. /\ SameUser(x, r) /\ SamePhase(x, r) /\ SameUser(y, r) /\ SamePhase(y, r)
    BY <1>3, <1>4, <1>6 DEF SameUser, SamePhase
  <1> QED
    BY <1>4, <1>6, <1>7, <1>8, Zenon DEF x, y, c, d

\* handle_read_at_work keeps the session sound, for every result.
LEMMA ReadAtWork ==
  ASSUME NEW r, Active(r), Phases(r), "read" \in r.ops, NEW bytes \in Nat,
         bytes <= Buf!BytesIn(r.reading), NEW error \in Errors, NEW f
  PROVE  After(r, handle_read_at_work(r, error, bytes, f))
  <1> DEFINE failed == "cancel" \in f
             c == cancel_timer_wait(ReadDone(r, "wait"), failed)
             x == StopReading(c)
             y == Consume(c, bytes)
             z == StopReading(y)
             q == handle_read_at_work(r, error, bytes, f)
  <1>1. \/ q = start_stop(x, "error", f)
        \/ q = start_stop(x, error, f)
        \/ q = start_shutdown(z, error, TRUE, f)
        \/ q = continue_work(y, f)
    BY Zenon DEF handle_read_at_work
  <1>2. failed \in BOOLEAN
    OBVIOUS
  <1> HIDE DEF failed
  <1>3. /\ Active(x) /\ SameUser(x, r) /\ SamePhase(x, r)
        /\ Active(y) /\ SameUser(y, r) /\ SamePhase(y, r) /\ Phases(y)
        /\ Active(z) /\ SameUser(z, r) /\ SamePhase(z, r)
        /\ z.timer_state # "stopped"
    BY <1>2, ReadCompletion, Zenon
  <1> HIDE DEF x, y, z, q
  <1>4. "error" \in Errors
    BY DEF Errors
  <1>5. After(x, start_stop(x, "error", f)) /\ After(x, start_stop(x, error, f))
    BY <1>3, <1>4, StartStop
  <1>6. After(z, start_shutdown(z, error, TRUE, f))
    BY <1>3, StartShutdown
  <1>7. After(y, continue_work(y, f))
    BY <1>3, ContinueWork
  <1>8. /\ x.intern_state = r.intern_state /\ y.intern_state = r.intern_state
        /\ z.intern_state = r.intern_state
    BY <1>3 DEF SamePhase
  <1>9. /\ After(r, start_stop(x, "error", f)) /\ After(r, start_stop(x, error, f))
        /\ After(r, start_shutdown(z, error, TRUE, f))
        /\ After(r, continue_work(y, f))
    BY <1>3, <1>5, <1>6, <1>7, <1>8, AfterSame
  <1>10. After(r, q)
    BY <1>1, <1>9, Zenon
  <1> QED
    BY <1>10 DEF q

\* handle_read_at_shutdown keeps the session sound, for every result.
LEMMA ReadAtShutdown ==
  ASSUME NEW r, Active(r), Phases(r), r.intern_state = "shutdown",
         "read" \in r.ops, NEW bytes \in Nat,
         bytes <= Buf!BytesIn(r.reading), NEW error \in Errors, NEW f
  PROVE  After(r, handle_read_at_shutdown(r, error, bytes, f))
  <1> DEFINE failed == "cancel" \in f
             c == cancel_timer_wait(ReadDone(r, "wait"), failed)
             x == StopReading(c)
             y == Consume(c, bytes)
             z == StopReading(y)
             q == handle_read_at_shutdown(r, error, bytes, f)
  <1>1. \/ q = start_stop(x, "error", f)
        \/ q = start_stop(x, error, f)
        \/ q = continue_shutdown(z, TRUE, f)
        \/ q = continue_shutdown(y, TRUE, f)
    BY Zenon DEF handle_read_at_shutdown
  <1>2. failed \in BOOLEAN
    OBVIOUS
  <1> HIDE DEF failed
  <1>3. /\ Active(x) /\ SameUser(x, r) /\ SamePhase(x, r)
        /\ Active(y) /\ SameUser(y, r) /\ SamePhase(y, r) /\ Phases(y)
        /\ Active(z) /\ SameUser(z, r) /\ SamePhase(z, r) /\ Phases(z)
    BY <1>2, ReadCompletion, Zenon
  <1> HIDE DEF x, y, z, q
  <1>4. "error" \in Errors
    BY DEF Errors
  <1>5. After(x, start_stop(x, "error", f)) /\ After(x, start_stop(x, error, f))
    BY <1>3, <1>4, StartStop
  <1>6. /\ x.intern_state = r.intern_state /\ y.intern_state = r.intern_state
        /\ z.intern_state = r.intern_state
    BY <1>3 DEF SamePhase
  <1>7. /\ After(z, continue_shutdown(z, TRUE, f))
        /\ After(y, continue_shutdown(y, TRUE, f))
    BY <1>3, <1>6, ContinueShutdown
  <1>8. /\ After(r, start_stop(x, "error", f)) /\ After(r, start_stop(x, error, f))
        /\ After(r, continue_shutdown(z, TRUE, f))
        /\ After(r, continue_shutdown(y, TRUE, f))
    BY <1>3, <1>5, <1>6, <1>7, AfterSame
  <1>9. After(r, q)
    BY <1>1, <1>8, Zenon
  <1> QED
    BY <1>9 DEF q

\* handle_write_at_work keeps the session sound, for every result.
LEMMA WriteAtWork ==
  ASSUME NEW r, Active(r), Phases(r), "write" \in r.ops, NEW bytes \in Nat,
         bytes <= Buf!BytesIn(r.writing), NEW error \in Errors, NEW f
  PROVE  After(r, handle_write_at_work(r, error, bytes, f))
  <1> DEFINE failed == "cancel" \in f
             c == cancel_timer_wait(WriteDone(r, "wait"), failed)
             x == StopWriting(c)
             y == Commit(c, bytes)
             q == handle_write_at_work(r, error, bytes, f)
  <1>1. \/ q = start_stop(x, "error", f)
        \/ q = start_stop(x, error, f)
        \/ q = continue_work(y, f)
    BY Zenon DEF handle_write_at_work
  <1>2. failed \in BOOLEAN
    OBVIOUS
  <1> HIDE DEF failed
  <1>3. /\ Active(x) /\ SameUser(x, r) /\ SamePhase(x, r)
        /\ Active(y) /\ SameUser(y, r) /\ SamePhase(y, r) /\ Phases(y)
    BY <1>2, WriteCompletion, Zenon
  <1> HIDE DEF x, y, q
  <1>4. "error" \in Errors
    BY DEF Errors
  <1>5. After(x, start_stop(x, "error", f)) /\ After(x, start_stop(x, error, f))
    BY <1>3, <1>4, StartStop
  <1>6. After(y, continue_work(y, f))
    BY <1>3, ContinueWork
  <1>7. x.intern_state = r.intern_state /\ y.intern_state = r.intern_state
    BY <1>3 DEF SamePhase
  <1>8. /\ After(r, start_stop(x, "error", f)) /\ After(r, start_stop(x, error, f))
        /\ After(r, continue_work(y, f))
    BY <1>3, <1>5, <1>6, <1>7, AfterSame
  <1>9. After(r, q)
    BY <1>1, <1>8, Zenon
  <1> QED
    BY <1>9 DEF q

\* handle_write_at_shutdown keeps the session sound, for every result.
LEMMA WriteAtShutdown ==
  ASSUME NEW r, Active(r), Phases(r), r.intern_state = "shutdown",
         "write" \in r.ops, NEW bytes \in Nat,
         bytes <= Buf!BytesIn(r.writing), NEW error \in Errors, NEW f
  PROVE  After(r, handle_write_at_shutdown(r, error, bytes, f))
  <1> DEFINE failed == "cancel" \in f
             c == cancel_timer_wait(WriteDone(r, "wait"), failed)
             x == StopWriting(c)
             y == Commit(c, bytes)
             q == handle_write_at_shutdown(r, error, bytes, f)
  <1>1. \/ q = start_stop(x, "error", f)
        \/ q = start_stop(x, error, f)
        \/ q = continue_shutdown(y, TRUE, f)
    BY Zenon DEF handle_write_at_shutdown
  <1>2. failed \in BOOLEAN
    OBVIOUS
  <1> HIDE DEF failed
  <1>3. /\ Active(x) /\ SameUser(x, r) /\ SamePhase(x, r)
        /\ Active(y) /\ SameUser(y, r) /\ SamePhase(y, r) /\ Phases(y)
    BY <1>2, WriteCompletion, Zenon
  <1> HIDE DEF x, y, q
  <1>4. "error" \in Errors
    BY DEF Errors
  <1>5. After(x, start_stop(x, "error", f)) /\ After(x, start_stop(x, error, f))
    BY <1>3, <1>4, StartStop
  <1>6. x.intern_state = r.intern_state /\ y.intern_state = r.intern_state
    BY <1>3 DEF SamePhase
  <1>7. After(y, continue_shutdown(y, TRUE, f))
    BY <1>3, <1>6, ContinueShutdown
  <1>8. /\ After(r, start_stop(x, "error", f)) /\ After(r, start_stop(x, error, f))
        /\ After(r, continue_shutdown(y, TRUE, f))
    BY <1>3, <1>5, <1>6, <1>7, AfterSame
  <1>9. After(r, q)
    BY <1>1, <1>8, Zenon
  <1> QED
    BY <1>9 DEF q

\* handle_timer_at_work keeps the session sound, a late expiry included.
LEMMA TimerAtWork ==
  ASSUME NEW r, Active(r), Phases(r), "timer" \in r.ops, NEW error \in Errors,
         NEW f
  PROVE  After(r, handle_timer_at_work(r, error, f))
  <1> DEFINE d == TimerDone(r, "ready")
             x == TimerDone(r, "stopped")
             w == start_timer_wait(d)
             q == handle_timer_at_work(r, error, f)
  <1>1. \/ q = start_stop(x, error, f)
        \/ q = start_stop(x, "inactivity_timeout", f)
        \/ q = w
        \/ q = d
    BY Zenon DEF handle_timer_at_work
  <1>2. /\ Active(d) /\ SameUser(d, r) /\ SamePhase(d, r)
        /\ d.timer_state = "ready" /\ Phases(d)
    BY TimerDoneActive
  <1>3. Active(x) /\ SameUser(x, r) /\ SamePhase(x, r)
    BY TimerDoneActive
  <1> HIDE DEF d, x
  <1>4. Active(w) /\ Phases(w) /\ SameUser(w, d) /\ SamePhase(w, d)
    BY <1>2, StartTimerActive, Zenon
  <1> HIDE DEF w, q
  <1>5. "inactivity_timeout" \in Errors
    BY DEF Errors
  <1>6. /\ After(x, start_stop(x, error, f))
        /\ After(x, start_stop(x, "inactivity_timeout", f))
    BY <1>3, <1>5, StartStop
  <1>7. /\ d.intern_state = r.intern_state /\ x.intern_state = r.intern_state
        /\ w.intern_state = r.intern_state /\ SameUser(w, r)
    BY <1>2, <1>3, <1>4 DEF SamePhase, SameUser
  <1>8. /\ After(r, start_stop(x, error, f))
        /\ After(r, start_stop(x, "inactivity_timeout", f))
    BY <1>3, <1>6, <1>7, AfterSame
  <1>9. After(r, d) /\ After(r, w)
    BY <1>2, <1>4, <1>7, ActiveAfter
  <1>10. After(r, q)
    BY <1>1, <1>8, <1>9, Zenon
  <1> QED
    BY <1>10 DEF q

\* The completions that a stop waits for.
LEMMA DoneAtStop ==
  ASSUME NEW r, SessionInv(r), r.intern_state = "stop",
         NEW op \in {"read", "write", "timer"}, op \in r.ops,
         NEW d, d = IF op = "read" THEN ReadDone(r, "stopped")
                    ELSE IF op = "write" THEN WriteDone(r, "stopped")
                    ELSE TimerDone(r, "stopped")
  PROVE  After(r, continue_stop(d))
  <1>1. r \in SessionStates /\ Core(r) /\ r.ops # {}
    BY DEF SessionInv, Core
  <1>2. r.pending_operations > 0
    BY <1>1, OpCounted
  <1>3. "stopped" \in {"wait", "stopped"} /\ "stopped" \in {"ready", "stopped"}
    OBVIOUS
  <1>4. /\ d \in SessionStates /\ SameUser(d, r) /\ SamePhase(d, r)
        /\ SameData(d, r) /\ OpsMatch(d)
        /\ d.read_state # "wait" /\ d.write_state # "wait"
        /\ d.timer_state # "ready"
    <2>1. CASE op = "read"
      <3>1. /\ d \in SessionStates /\ SameUser(d, r) /\ SamePhase(d, r)
            /\ SameData(d, r) /\ d.ops = r.ops \ {"read"}
            /\ d.pending_operations = r.pending_operations - 1
            /\ d.read_state = "stopped" /\ d.write_state = r.write_state
            /\ d.timer_state = r.timer_state
        BY <1>1, <1>2, <1>3, <2>1, ReadDoneFrame
      <3> QED
        BY <1>1, <2>1, <3>1 DEF SessionInv, Core, Phases, OpsMatch, Busy
    <2>2. CASE op = "write"
      <3>1. /\ d \in SessionStates /\ SameUser(d, r) /\ SamePhase(d, r)
            /\ SameData(d, r) /\ d.ops = r.ops \ {"write"}
            /\ d.pending_operations = r.pending_operations - 1
            /\ d.read_state = r.read_state /\ d.write_state = "stopped"
            /\ d.timer_state = r.timer_state
        BY <1>1, <1>2, <1>3, <2>2, WriteDoneFrame
      <3> QED
        BY <1>1, <2>2, <3>1 DEF SessionInv, Core, Phases, OpsMatch, Busy
    <2>3. CASE op = "timer"
      <3>1. /\ d \in SessionStates /\ SameUser(d, r) /\ SamePhase(d, r)
            /\ SameData(d, r) /\ d.ops = r.ops \ {"timer"}
            /\ d.pending_operations = r.pending_operations - 1
            /\ d.read_state = r.read_state /\ d.write_state = r.write_state
            /\ d.timer_state = "stopped"
        BY <1>1, <1>2, <1>3, <2>3, TimerDoneFrame
      <3> QED
        BY <1>1, <2>3, <3>1 DEF SessionInv, Core, Phases, OpsMatch, Busy
    <2> QED
      BY <2>1, <2>2, <2>3
  <1>5. BufferFits(d)
    BY <1>1, <1>4 DEF Core, BufferFits, SameData, SamePhase
  <1>6. r.extern_state \in {"work", "stop"}
    BY <1>1, Members DEF SessionInv, UserMatches
  <1>7. Stopping(d)
    BY <1>4, <1>5, <1>6
       DEF SessionInv, WaitParked, Phases, Stopping, Core, SameUser, SamePhase
  <1>8. After(d, continue_stop(d))
    BY <1>7, ContinueStop
  <1> QED
    BY <1>4, <1>8, AfterSame DEF SamePhase

-----------------------------------------------------------------------------
(***************************************************************************)
(* The invariant is kept by every handler.                                  *)
(***************************************************************************)
LEMMA AfterInv ==
  ASSUME NEW r, SessionInv(r), r.extern_state \in {"work", "stop"}, NEW q,
         After(r, q)
  PROVE  SessionInv(q)
  <1>1. q.intern_state \in {"work", "shutdown", "stop", "stopped"}
    BY Members DEF After, Core
  <1>2. r \in SessionStates
    BY DEF SessionInv, Core
  <1>3. UserMatches(q)
    <2>1. r.stop_handler \in BOOLEAN
      BY <1>2, Members
    <2> QED
      BY <1>1, <2>1 DEF After, Kept, SessionInv, UserMatches
  <1> QED
    BY <1>3 DEF After, SessionInv

\* Answering a call keeps the invariant.
LEMMA PostInv ==
  ASSUME NEW r, SessionInv(r), NEW call \in Calls, NEW error \in Errors
  PROVE  SessionInv(Post(r, call, error))
  <1> DEFINE q == Post(r, call, error)
  <1>1. r \in SessionStates /\ Core(r) /\ Phases(r)
    BY DEF SessionInv, Core
  <1>2. /\ q \in SessionStates /\ SameUser(q, r) /\ SamePhase(q, r)
        /\ SameOps(q, r) /\ SameData(q, r)
    BY <1>1, PostFrame, Zenon
  <1> HIDE DEF q
  <1>3. Core(q)
    <2>1. q.intern_state = r.intern_state
      BY <1>2 DEF SamePhase
    <2> QED
      BY <1>1, <1>2, <2>1, CoreSame
  <1>4. Phases(q)
    BY <1>1, <1>2, PhasesSame
  <1>5. SessionInv(q)
    BY <1>2, <1>3, <1>4
       DEF SessionInv, WaitParked, UserMatches, SameUser, SamePhase, SameOps
  <1> QED
    BY <1>5 DEF q

\* start_extern_start keeps the invariant, failing socket options included.
LEMMA ExternStart ==
  ASSUME NEW r, SessionInv(r), NEW f
  PROVE  SessionInv(start_extern_start(r, f))
  <1> DEFINE x == StartFailed(r)
             w == [r EXCEPT !.extern_state = "work"]
             q == start_extern_start(r, f)
  <1>1. r \in SessionStates /\ Core(r) /\ Phases(r)
    BY DEF SessionInv, Core
  <1>2. \/ q = Post(r, "start", "invalid_state")
        \/ q = Post(x, "start", "error") /\ r.extern_state = "ready"
        \/ q = Post(continue_work(w, f), "start", "ok") /\ r.extern_state = "ready"
    BY Zenon DEF start_extern_start
  <1>3. /\ "start" \in Calls /\ "invalid_state" \in Errors /\ "error" \in Errors
        /\ "ok" \in Errors
    BY DEF Calls, Errors
  <1>4. ASSUME r.extern_state = "ready" PROVE SessionInv(x)
    <2>1. /\ x \in SessionStates /\ SameData(x, r) /\ x.ops = r.ops
          /\ x.pending_operations = r.pending_operations
          /\ x.read_state = "stopped" /\ x.write_state = "stopped"
          /\ x.timer_state = "stopped" /\ ~x.open
          /\ x.intern_state = "stopped" /\ x.extern_state = "stopped"
          /\ x.wait_handler = r.wait_handler
          /\ x.stop_handler = r.stop_handler
      BY <1>1, StartFailedFrame, Zenon
    <2> HIDE DEF x
    <2>2. r.ops = {} /\ ~r.wait_handler /\ ~r.stop_handler
      BY <1>4 DEF SessionInv, UserMatches, WaitParked
    <2>3. OpsMatch(x)
      BY <1>1, <2>1, <2>2 DEF Core, OpsMatch, Busy
    <2>4. BufferFits(x)
      BY <1>1, <2>1 DEF Core, BufferFits, SameData
    <2> QED
      BY <2>1, <2>2, <2>3, <2>4
         DEF SessionInv, Core, Phases, WaitParked, UserMatches
  <1>5. ASSUME r.extern_state = "ready" PROVE SessionInv(continue_work(w, f))
    <2>1. /\ w \in SessionStates /\ SamePhase(w, r) /\ SameOps(w, r)
          /\ SameData(w, r) /\ w.extern_state = "work"
          /\ w.wait_handler = r.wait_handler
          /\ w.stop_handler = r.stop_handler
      <3>1. "work" \in {"ready", "work", "stop", "stopped"}
        OBVIOUS
      <3> QED
        BY <1>1, <3>1, ExternFrame, Zenon
    <2> HIDE DEF w
    <2>2. /\ r.intern_state = "work" /\ ~r.wait_handler /\ ~r.stop_handler
      BY <1>5 DEF SessionInv, UserMatches, WaitParked
    <2>3. Core(w) /\ Phases(w) /\ w.intern_state = "work"
      <3>1. w.intern_state = r.intern_state
        BY <2>1 DEF SamePhase
      <3> QED
        BY <1>1, <2>1, <2>2, <3>1, CoreSame, PhasesSame
    <2>4. Active(w) /\ SessionInv(w)
      BY <2>1, <2>2, <2>3 DEF Active, SessionInv, WaitParked, UserMatches
    <2>5. After(w, continue_work(w, f))
      BY <2>3, <2>4, ContinueWork
    <2> QED
      BY <2>1, <2>4, <2>5, AfterInv
  <1> HIDE DEF x, w
  <1>6. ASSUME r.extern_state = "ready"
        PROVE  /\ SessionInv(Post(x, "start", "error"))
               /\ SessionInv(Post(continue_work(w, f), "start", "ok"))
    BY <1>3, <1>4, <1>5, <1>6, PostInv
  <1>7. SessionInv(Post(r, "start", "invalid_state"))
    BY <1>3, PostInv
  <1> QED
    BY <1>2, <1>6, <1>7, Zenon

\* start_extern_wait keeps the invariant.
LEMMA ExternWait ==
  ASSUME NEW r, SessionInv(r)
  PROVE  SessionInv(start_extern_wait(r))
  <1> DEFINE x == [r EXCEPT !.wait_handler = TRUE]
             q == start_extern_wait(r)
  <1>1. r \in SessionStates /\ Core(r) /\ Phases(r)
    BY DEF SessionInv, Core
  <1>2. \/ q = Post(r, "wait", "invalid_state")
        \/ q = Post(r, "wait", r.extern_wait_error)
        \/ q = x /\ r.extern_state = "work" /\ r.intern_state = "work"
    BY Zenon DEF start_extern_wait
  <1>3. /\ "wait" \in Calls /\ "invalid_state" \in Errors
        /\ r.extern_wait_error \in Errors
    BY <1>1, Members DEF Calls, Errors
  <1>4. ASSUME r.extern_state = "work", r.intern_state = "work"
        PROVE  SessionInv(x)
    <2>1. /\ x \in SessionStates /\ SamePhase(x, r) /\ SameOps(x, r)
          /\ SameData(x, r) /\ x.extern_state = r.extern_state
          /\ x.wait_handler /\ x.stop_handler = r.stop_handler
      BY <1>1, ParkFrame, Zenon
    <2> HIDE DEF x
    <2>2. x.intern_state = r.intern_state
      BY <2>1 DEF SamePhase
    <2>3. Core(x) /\ Phases(x)
      BY <1>1, <2>1, <2>2, CoreSame, PhasesSame
    <2> QED
      BY <1>4, <2>1, <2>2, <2>3 DEF SessionInv, WaitParked, UserMatches
  <1>5. /\ SessionInv(Post(r, "wait", "invalid_state"))
        /\ SessionInv(Post(r, "wait", r.extern_wait_error))
    BY <1>3, PostInv
  <1> HIDE DEF x
  <1> QED
    BY <1>2, <1>4, <1>5, Zenon

\* start_extern_stop keeps the invariant; a stop that completes within the call
\* is answered at once, any other is parked.
LEMMA ExternStop ==
  ASSUME NEW r, SessionInv(r), NEW f
  PROVE  SessionInv(start_extern_stop(r, f))
  <1> DEFINE why == "operation_aborted"
             p == [r EXCEPT !.extern_state = "stop"]
             w == complete_extern_wait(p, why)
             e == start_shutdown(w, why, FALSE, f)
             q == do_start_extern_stop(r, f)
             x == [q EXCEPT !.extern_state = "stopped"]
             y == [q EXCEPT !.stop_handler = TRUE]
             z == start_extern_stop(r, f)
  <1>1. r \in SessionStates /\ Core(r) /\ Phases(r)
    BY DEF SessionInv, Core
  <1>2. q = IF w.intern_state = "work" THEN e ELSE w
    BY Zenon DEF do_start_extern_stop
  <1>3. \/ z = Post(r, "stop", "invalid_state")
        \/ /\ r.extern_state \notin {"stop", "stopped"}
           /\ \/ q.intern_state = "stopped" /\ z = Post(x, "stop", "ok")
              \/ q.intern_state # "stopped" /\ z = y
    BY Zenon DEF start_extern_stop
  <1> HIDE DEF q
  <1>4. /\ "stop" \in Calls /\ "invalid_state" \in Errors /\ "ok" \in Errors
        /\ why \in Errors
    BY DEF Calls, Errors
  <1>5. SessionInv(Post(r, "stop", "invalid_state"))
    BY <1>4, PostInv
  <1>6. SUFFICES ASSUME r.extern_state \notin {"stop", "stopped"}
                 PROVE  /\ q.intern_state = "stopped" =>
                             SessionInv(Post(x, "stop", "ok"))
                        /\ q.intern_state # "stopped" => SessionInv(y)
    BY <1>3, <1>5, Zenon
  <1>7. /\ p \in SessionStates /\ SamePhase(p, r) /\ SameOps(p, r)
        /\ SameData(p, r) /\ p.extern_state = "stop"
        /\ p.wait_handler = r.wait_handler /\ p.stop_handler = r.stop_handler
    <2>1. "stop" \in {"ready", "work", "stop", "stopped"}
      OBVIOUS
    <2> QED
      BY <1>1, <2>1, ExternFrame, Zenon
  <1> HIDE DEF p
  <1>8. /\ w \in SessionStates /\ SamePhase(w, p) /\ SameOps(w, p)
        /\ SameData(w, p) /\ w.extern_state = p.extern_state
        /\ w.stop_handler = p.stop_handler /\ ~w.wait_handler
    BY <1>4, <1>7, CompleteWaitFrame, Zenon
  <1> HIDE DEF w
  <1>9. /\ SamePhase(w, r) /\ SameOps(w, r) /\ SameData(w, r)
        /\ w.extern_state = "stop" /\ ~w.stop_handler /\ ~w.wait_handler
        /\ w.intern_state = r.intern_state
    BY <1>6, <1>7, <1>8
       DEF SessionInv, UserMatches, SamePhase, SameOps, SameData
  <1>10. Core(w) /\ Phases(w)
    BY <1>1, <1>8, <1>9, CoreSame, PhasesSame
  <1>11. /\ Core(q) /\ Phases(q) /\ ~q.wait_handler /\ ~q.stop_handler
         /\ q.intern_state # "work"
         /\ q.intern_state # "stopped" => q.extern_state = "stop"
    <2>1. CASE w.intern_state = "work"
      <3>1. Active(w) /\ w.timer_state # "stopped"
        BY <1>9, <1>10, <2>1 DEF Active, WaitParked, Phases
      <3>2. After(w, e) /\ e.intern_state # "work"
        BY <1>4, <3>1, StartShutdown
      <3> HIDE DEF e
      <3> QED
        BY <1>2, <1>9, <2>1, <3>2 DEF After, Kept, WaitParked
    <2>2. CASE w.intern_state # "work"
      BY <1>2, <1>9, <1>10, <2>2
    <2> QED
      BY <2>1, <2>2
  <1>12. q \in SessionStates
    BY <1>11 DEF Core
  <1>13. ASSUME q.intern_state = "stopped" PROVE SessionInv(Post(x, "stop", "ok"))
    <2>1. /\ x \in SessionStates /\ SamePhase(x, q) /\ SameOps(x, q)
          /\ SameData(x, q) /\ x.extern_state = "stopped"
          /\ x.wait_handler = q.wait_handler /\ x.stop_handler = q.stop_handler
      <3>1. "stopped" \in {"ready", "work", "stop", "stopped"}
        OBVIOUS
      <3> QED
        BY <1>12, <3>1, ExternFrame, Zenon
    <2> HIDE DEF x
    <2>2. x.intern_state = q.intern_state
      BY <2>1 DEF SamePhase
    <2>3. Core(x) /\ Phases(x)
      BY <1>11, <2>1, <2>2, CoreSame, PhasesSame
    <2>4. SessionInv(x)
      BY <1>11, <1>13, <2>1, <2>2, <2>3 DEF SessionInv, WaitParked, UserMatches
    <2> QED
      BY <1>4, <2>4, PostInv
  <1>14. ASSUME q.intern_state # "stopped" PROVE SessionInv(y)
    <2>1. /\ y \in SessionStates /\ SamePhase(y, q) /\ SameOps(y, q)
          /\ SameData(y, q) /\ y.extern_state = q.extern_state
          /\ y.wait_handler = q.wait_handler /\ y.stop_handler
      BY <1>12, ParkFrame, Zenon
    <2> HIDE DEF y
    <2>2. y.intern_state = q.intern_state
      BY <2>1 DEF SamePhase
    <2>3. Core(y) /\ Phases(y)
      BY <1>11, <2>1, <2>2, CoreSame, PhasesSame
    <2>4. q.intern_state \in {"shutdown", "stop"}
      BY <1>11, <1>12, <1>14, Members
    <2> QED
      BY <1>11, <1>14, <2>1, <2>2, <2>3, <2>4
         DEF SessionInv, WaitParked, UserMatches
  <1> QED
    BY <1>13, <1>14

\* A session that was just made.
LEMMA FreshSession ==
  /\ session \in SessionStates
  /\ session.extern_state = "ready" /\ session.intern_state = "work"
  /\ session.read_state = "wait" /\ session.write_state = "wait"
  /\ session.timer_state = "ready" /\ session.ops = {}
  /\ session.pending_operations = 0
  /\ session.buffer = Buf!cyclic_buffer(BufferSize)
  /\ session.wait_handler = FALSE /\ session.stop_handler = FALSE
  <1> DEFINE b == Buf!cyclic_buffer(BufferSize)
             none == [c \in Calls |-> <<>>]
  <1>1. b \in Buf!Buffers(BufferSize)
    BY BufferInit, ConfigAssumption
  <1>2. none \in [Calls -> Seq(Errors)]
    OBVIOUS
  <1>3. /\ "ok" \in Errors /\ <<>> \in Seq(Blocks)
        /\ {} \in SUBSET {"read", "write", "timer"} /\ 0 \in Nat
    BY DEF Errors
  <1> HIDE DEF b, none
  <1>4. session =
          [extern_state |-> "ready", intern_state |-> "work", read_state |-> "wait",
           write_state |-> "wait", timer_state |-> "ready",
           timer_wait_cancelled |-> FALSE, timer_turned |-> FALSE,
           pending_operations |-> 0, buffer |-> b,
           extern_wait_error |-> "ok", wait_handler |-> FALSE,
           stop_handler |-> FALSE, open |-> TRUE, fin |-> FALSE, ops |-> {},
           reading |-> <<>>, writing |-> <<>>,
           timer_aborted |-> FALSE, posted |-> none,
           expiry_stale |-> FALSE, wait_stale |-> FALSE, stop_reason |-> "ok"]
    BY Zenon DEF session, b, none
  <1>5. session \in SessionStates
    BY <1>1, <1>2, <1>3, <1>4, Zenon DEF SessionStates
  <1> QED
    BY <1>4, <1>5, Zenon DEF b

\* What is made anew, or reset, satisfies the invariant.
LEMMA FreshInv ==
  ASSUME NEW q \in SessionStates, SameOps(q, session),
         q.buffer = session.buffer, q.intern_state = "work",
         q.extern_state = "ready", ~q.wait_handler, ~q.stop_handler
  PROVE  SessionInv(q)
  <1>1. Buf!WellFormed(q.buffer)
    BY FreshSession, BufferInit, ConfigAssumption
  <1>2. /\ q.read_state = "wait" /\ q.write_state = "wait"
        /\ q.timer_state = "ready" /\ q.ops = {} /\ q.pending_operations = 0
    BY FreshSession DEF SameOps
  <1> HIDE DEF SameOps
  <1>3. Core(q)
    BY <1>1, <1>2 DEF Core, OpsMatch, BufferFits, Busy
  <1> QED
    BY <1>2, <1>3 DEF SessionInv, Phases, WaitParked, UserMatches

\* The constructor establishes the inductive invariant.
THEOREM InitInv == Init => IInv
  <1> SUFFICES ASSUME Init PROVE IInv
    OBVIOUS
  <1>1. SessionInv(session)
    <2>1. SameOps(session, session)
      BY DEF SameOps
    <2> QED
      BY <2>1, FreshSession, FreshInv
  <1>2. s = session /\ rcvd = 0 /\ calls = [c \in Calls |-> 0]
    BY DEF Init
  <1>3. calls \in [Calls -> Nat]
    BY <1>2
  <1> QED
    BY <1>1, <1>2, <1>3 DEF IInv

\* The bytes of a completed transfer are no more than were asked for.
LEMMA TransferResults ==
  ASSUME IInv
  PROVE  /\ \A res \in ReadResults :
              /\ res.error \in Errors /\ res.bytes \in Nat
              /\ res.bytes <= Buf!BytesIn(s.reading)
         /\ \A res \in WriteResults :
              /\ res.error \in Errors /\ res.bytes \in Nat
              /\ res.bytes <= Buf!BytesIn(s.writing)
         /\ TimerResults \subseteq Errors
  <1>1. Buf!BytesIn(s.reading) \in Nat /\ Buf!BytesIn(s.writing) \in Nat
    BY Members, BytesInNat DEF IInv, SessionInv, Core
  <1>2. rcvd \in Nat
    BY DEF IInv
  <1> DEFINE m == Buf!Least(Buf!BytesIn(s.reading), MaxBytes - rcvd)
  <1>3. m \in Int /\ m <= Buf!BytesIn(s.reading)
    BY <1>1, <1>2, ConfigAssumption DEF Buf!Least
  <1> HIDE DEF m
  <1>4. ASSUME NEW res \in ReadResults
        PROVE  /\ res.error \in Errors /\ res.bytes \in Nat
               /\ res.bytes <= Buf!BytesIn(s.reading)
    <2>1. \/ res \in [error : {"ok"}, bytes : 1 .. m]
          \/ res \in [error : {"eof", "error"}, bytes : {0}]
          \/ res \in [error : {"aborted"}, bytes : {0}]
      BY DEF ReadResults, m
    <2> QED
      BY <1>1, <1>3, <2>1 DEF Errors
  <1>5. ASSUME NEW res \in WriteResults
        PROVE  /\ res.error \in Errors /\ res.bytes \in Nat
               /\ res.bytes <= Buf!BytesIn(s.writing)
    <2>1. \/ res \in [error : {"ok"}, bytes : 1 .. Buf!BytesIn(s.writing)]
          \/ res \in [error : {"error", "aborted"}, bytes : {0}]
      BY DEF WriteResults
    <2> QED
      BY <1>1, <2>1 DEF Errors
  <1>6. TimerResults \subseteq Errors
    BY DEF TimerResults, Errors
  <1> QED
    BY <1>4, <1>5, <1>6

\* A completion finds the session started and not yet stopped.
LEMMA CompletionPhase ==
  ASSUME IInv, s.ops # {}, s.intern_state \in {"work", "shutdown"}
  PROVE  /\ SessionInv(s) /\ Active(s) /\ Phases(s)
         /\ s.extern_state \in {"work", "stop"}
  <1>1. s.extern_state \in {"ready", "work", "stop", "stopped"}
    BY Members DEF IInv, SessionInv, Core
  <1> QED
    BY <1>1 DEF IInv, SessionInv, UserMatches, Active

\* A session that stops was started.
LEMMA StopPhase ==
  ASSUME IInv, s.intern_state = "stop"
  PROVE  SessionInv(s) /\ s.extern_state \in {"work", "stop"}
  <1>1. s.extern_state \in {"ready", "work", "stop", "stopped"}
    BY Members DEF IInv, SessionInv, Core
  <1> QED
    BY <1>1 DEF IInv, SessionInv, UserMatches

\* Every call, every completion and reset() keep the inductive invariant.
THEOREM NextInv == IInv /\ [Next]_vars => IInv'
  <1> SUFFICES ASSUME IInv, [Next]_vars PROVE IInv'
    OBVIOUS
  <1> USE DEF IInv
  <1>1. CASE AsyncStart
    <2>1. PICK f \in SUBSET Faults : s' = start_extern_start(s, f)
      BY <1>1 DEF AsyncStart
    <2>2. SessionInv(s')
      BY <2>1, ExternStart
    <2> QED
      BY <1>1, <2>2 DEF AsyncStart, Call, Calls
  <1>2. CASE AsyncWait
    <2>1. SessionInv(s')
      BY <1>2, ExternWait DEF AsyncWait
    <2> QED
      BY <1>2, <2>1 DEF AsyncWait, Call, Calls
  <1>3. CASE AsyncStop
    <2>1. PICK f \in SUBSET HandlerFaults : s' = start_extern_stop(s, f)
      BY <1>3 DEF AsyncStop
    <2>2. SessionInv(s')
      BY <2>1, ExternStop
    <2> QED
      BY <1>3, <2>2 DEF AsyncStop, Call, Calls
  <1>4. CASE HandleReadAtWork
    <2>1. PICK res \in ReadResults, f \in SUBSET HandlerFaults :
            /\ s' = handle_read_at_work(s, res.error, res.bytes, f)
            /\ Receive(res.bytes)
      BY <1>4 DEF HandleReadAtWork
    <2>2. "read" \in s.ops /\ s.ops # {} /\ s.intern_state = "work"
      BY <1>4 DEF HandleReadAtWork
    <2>3. /\ res.error \in Errors /\ res.bytes \in Nat
          /\ res.bytes <= Buf!BytesIn(s.reading)
      BY <2>1, TransferResults
    <2>4. /\ SessionInv(s) /\ Active(s) /\ Phases(s)
          /\ s.extern_state \in {"work", "stop"}
      BY <2>2, CompletionPhase
    <2>5. After(s, s')
      BY <2>1, <2>2, <2>3, <2>4, ReadAtWork
    <2>6. SessionInv(s')
      BY <2>4, <2>5, AfterInv
    <2> QED
      BY <2>1, <2>3, <2>6 DEF Receive
  <1>5. CASE HandleReadAtShutdown
    <2>1. PICK res \in ReadResults, f \in SUBSET HandlerFaults :
            /\ s' = handle_read_at_shutdown(s, res.error, res.bytes, f)
            /\ Receive(res.bytes)
      BY <1>5 DEF HandleReadAtShutdown
    <2>2. "read" \in s.ops /\ s.ops # {} /\ s.intern_state = "shutdown"
      BY <1>5 DEF HandleReadAtShutdown
    <2>3. /\ res.error \in Errors /\ res.bytes \in Nat
          /\ res.bytes <= Buf!BytesIn(s.reading)
      BY <2>1, TransferResults
    <2>4. /\ SessionInv(s) /\ Active(s) /\ Phases(s)
          /\ s.extern_state \in {"work", "stop"}
      BY <2>2, CompletionPhase
    <2>5. After(s, s')
      BY <2>1, <2>2, <2>3, <2>4, ReadAtShutdown
    <2>6. SessionInv(s')
      BY <2>4, <2>5, AfterInv
    <2> QED
      BY <2>1, <2>3, <2>6 DEF Receive
  <1>6. CASE HandleReadAtStop
    <2>1. PICK res \in ReadResults :
            s' = handle_read_at_stop(s) /\ Receive(res.bytes)
      BY <1>6 DEF HandleReadAtStop
    <2>2. "read" \in s.ops /\ s.intern_state = "stop"
      BY <1>6 DEF HandleReadAtStop
    <2>3. res.bytes \in Nat
      BY <2>1, TransferResults
    <2>4. SessionInv(s) /\ s.extern_state \in {"work", "stop"}
      BY <2>2, StopPhase
    <2>5. After(s, s')
      BY <2>1, <2>2, <2>4, DoneAtStop DEF handle_read_at_stop
    <2>6. SessionInv(s')
      BY <2>4, <2>5, AfterInv
    <2> QED
      BY <2>1, <2>3, <2>6 DEF Receive
  <1>7. CASE HandleWriteAtWork
    <2>1. PICK res \in WriteResults, f \in SUBSET HandlerFaults :
            /\ s' = handle_write_at_work(s, res.error, res.bytes, f)
            /\ Send(res.bytes)
      BY <1>7 DEF HandleWriteAtWork
    <2>2. "write" \in s.ops /\ s.ops # {} /\ s.intern_state = "work"
      BY <1>7 DEF HandleWriteAtWork
    <2>3. /\ res.error \in Errors /\ res.bytes \in Nat
          /\ res.bytes <= Buf!BytesIn(s.writing)
      BY <2>1, TransferResults
    <2>4. /\ SessionInv(s) /\ Active(s) /\ Phases(s)
          /\ s.extern_state \in {"work", "stop"}
      BY <2>2, CompletionPhase
    <2>5. After(s, s')
      BY <2>1, <2>2, <2>3, <2>4, WriteAtWork
    <2>6. SessionInv(s')
      BY <2>4, <2>5, AfterInv
    <2> QED
      BY <2>1, <2>6 DEF Send
  <1>8. CASE HandleWriteAtShutdown
    <2>1. PICK res \in WriteResults, f \in SUBSET HandlerFaults :
            /\ s' = handle_write_at_shutdown(s, res.error, res.bytes, f)
            /\ Send(res.bytes)
      BY <1>8 DEF HandleWriteAtShutdown
    <2>2. "write" \in s.ops /\ s.ops # {} /\ s.intern_state = "shutdown"
      BY <1>8 DEF HandleWriteAtShutdown
    <2>3. /\ res.error \in Errors /\ res.bytes \in Nat
          /\ res.bytes <= Buf!BytesIn(s.writing)
      BY <2>1, TransferResults
    <2>4. /\ SessionInv(s) /\ Active(s) /\ Phases(s)
          /\ s.extern_state \in {"work", "stop"}
      BY <2>2, CompletionPhase
    <2>5. After(s, s')
      BY <2>1, <2>2, <2>3, <2>4, WriteAtShutdown
    <2>6. SessionInv(s')
      BY <2>4, <2>5, AfterInv
    <2> QED
      BY <2>1, <2>6 DEF Send
  <1>9. CASE HandleWriteAtStop
    <2>1. PICK res \in WriteResults :
            s' = handle_write_at_stop(s) /\ Send(res.bytes)
      BY <1>9 DEF HandleWriteAtStop
    <2>2. "write" \in s.ops /\ s.intern_state = "stop"
      BY <1>9 DEF HandleWriteAtStop
    <2>3. SessionInv(s) /\ s.extern_state \in {"work", "stop"}
      BY <2>2, StopPhase
    <2>4. After(s, s')
      BY <2>1, <2>2, <2>3, DoneAtStop DEF handle_write_at_stop
    <2>5. SessionInv(s')
      BY <2>3, <2>4, AfterInv
    <2> QED
      BY <2>1, <2>5 DEF Send
  <1>10. CASE HandleTimerAtWork
    <2>1. PICK error \in TimerResults, f \in SUBSET HandlerFaults :
            s' = handle_timer_at_work(s, error, f)
      BY <1>10 DEF HandleTimerAtWork
    <2>2. /\ "timer" \in s.ops /\ s.ops # {}
          /\ s.intern_state \in {"work", "shutdown"}
      BY <1>10 DEF HandleTimerAtWork
    <2>3. error \in Errors
      BY <2>1, TransferResults
    <2>4. /\ SessionInv(s) /\ Active(s) /\ Phases(s)
          /\ s.extern_state \in {"work", "stop"}
      BY <2>2, CompletionPhase
    <2>5. After(s, s')
      BY <2>1, <2>2, <2>3, <2>4, TimerAtWork
    <2>6. SessionInv(s')
      BY <2>4, <2>5, AfterInv
    <2> QED
      BY <1>10, <2>6 DEF HandleTimerAtWork
  <1>11. CASE HandleTimerAtStop
    <2>1. /\ "timer" \in s.ops /\ s.intern_state = "stop"
          /\ s' = handle_timer_at_stop(s)
      BY <1>11 DEF HandleTimerAtStop
    <2>2. SessionInv(s) /\ s.extern_state \in {"work", "stop"}
      BY <2>1, StopPhase
    <2>3. After(s, s')
      BY <2>1, <2>2, DoneAtStop DEF handle_timer_at_stop
    <2>4. SessionInv(s')
      BY <2>2, <2>3, AfterInv
    <2> QED
      BY <1>11, <2>4 DEF HandleTimerAtStop
  <1>12. CASE Reset
    <2> DEFINE q == [reset(s) EXCEPT !.open = TRUE]
    <2>1. s' = q /\ s.extern_state \in {"ready", "stopped"}
      BY <1>12, Zenon DEF Reset
    <2>2. ~s.wait_handler /\ ~s.stop_handler
      BY <2>1 DEF SessionInv, WaitParked, UserMatches
    <2>3. s.wait_handler \in BOOLEAN /\ s.stop_handler \in BOOLEAN
      BY Members DEF SessionInv, Core
    <2>4. /\ q \in SessionStates /\ SameOps(q, session)
          /\ q.buffer = session.buffer
          /\ q.intern_state = session.intern_state
          /\ q.extern_state = session.extern_state
          /\ q.wait_handler = s.wait_handler /\ q.stop_handler = s.stop_handler
      <3>1. session \in SessionStates
        BY FreshSession
      <3> QED
        BY <2>3, <3>1, Zenon DEF reset, SessionStates, SameOps
    <2> HIDE DEF q
    <2>5. SessionInv(q)
      BY <2>2, <2>4, FreshSession, FreshInv
    <2>6. calls' \in [Calls -> Nat] /\ rcvd' \in Nat
      BY <1>12 DEF Reset
    <2> QED
      BY <2>1, <2>5, <2>6
  <1>13. CASE UNCHANGED vars
    BY <1>13 DEF vars
  <1> QED
    BY <1>1, <1>2, <1>3, <1>4, <1>5, <1>6, <1>7, <1>8, <1>9, <1>10, <1>11,
       <1>12, <1>13 DEF Next

\* The inductive invariant holds of every execution of the session.
THEOREM Invariance == Spec => []IInv
  BY InitInv, NextInv, PTL DEF Spec

-----------------------------------------------------------------------------
(***************************************************************************)
(* What the invariant says of the session.                                  *)
(***************************************************************************)

\* TypeOK: no member of a session ever leaves its range, in particular
\* pending_operations_ and the sizes of the buffer never wrap below zero.
THEOREM TypeCorrect == Spec => []TypeOK
  <1>1. IInv => TypeOK
    BY DEF IInv, SessionInv, Core, TypeOK
  <1> QED
    BY <1>1, Invariance, PTL

\* The operations are counted by the three activities.
LEMMA CountOps ==
  ASSUME NEW ops \in SUBSET {"read", "write", "timer"}
  PROVE  Cardinality(ops) = (IF "read" \in ops THEN 1 ELSE 0)
                            + (IF "write" \in ops THEN 1 ELSE 0)
                            + (IF "timer" \in ops THEN 1 ELSE 0)
  <1> DEFINE a == IF "read" \in ops THEN {} \cup {"read"} ELSE {}
             b == IF "write" \in ops THEN a \cup {"write"} ELSE a
             c == IF "timer" \in ops THEN b \cup {"timer"} ELSE b
  <1>1. IsFiniteSet({}) /\ Cardinality({}) = 0
    BY FS_EmptySet
  <1>2. /\ IsFiniteSet(a)
        /\ Cardinality(a) = IF "read" \in ops THEN 1 ELSE 0
    BY <1>1, FS_AddElement
  <1>3. "write" \notin a /\ Cardinality(a) \in Nat
    BY <1>2
  <1>4. "timer" \notin b
    OBVIOUS
  <1>5. ops = c
    OBVIOUS
  <1> HIDE DEF a
  <1>6. /\ IsFiniteSet(b) /\ Cardinality(b) \in Nat
        /\ Cardinality(b) = Cardinality(a) + (IF "write" \in ops THEN 1 ELSE 0)
    BY <1>2, <1>3, FS_AddElement
  <1> HIDE DEF b
  <1>7. Cardinality(c) = Cardinality(b) + (IF "timer" \in ops THEN 1 ELSE 0)
    <2>1. CASE "timer" \in ops
      <3>1. Cardinality(b \cup {"timer"}) = Cardinality(b) + 1
        BY <1>4, <1>6, FS_AddElement
      <3> QED
        BY <2>1, <3>1
    <2>2. CASE "timer" \notin ops
      BY <1>6, <2>2
    <2> QED
      BY <2>1, <2>2
  <1> QED
    BY <1>2, <1>5, <1>6, <1>7

\* OutstandingMatches: at every completion the handler's assertions on the state
\* of its activity hold, and pending_operations_ is the number of completions
\* that are still to come.
THEOREM OutstandingCounted == Spec => []OutstandingMatches
  <1>1. IInv => OutstandingMatches
    <2> SUFFICES ASSUME IInv PROVE OutstandingMatches
      OBVIOUS
    <2>1. OpsMatch(s) /\ s.ops \in SUBSET {"read", "write", "timer"}
      BY Members DEF IInv, SessionInv, Core
    <2>2. Cardinality(s.ops) = (IF "read" \in s.ops THEN 1 ELSE 0)
                               + (IF "write" \in s.ops THEN 1 ELSE 0)
                               + (IF "timer" \in s.ops THEN 1 ELSE 0)
      BY <2>1, CountOps
    <2> QED
      BY <2>1, <2>2 DEF OpsMatch, Busy, OutstandingMatches
  <1> QED
    BY <1>1, Invariance, PTL

\* StoppedIsQuiet: intern_state_ becomes stopped only when asio owns nothing of
\* the session any more, so a recycled session is never called back.
THEOREM StopIsQuiet == Spec => []StoppedIsQuiet
  <1>1. IInv => StoppedIsQuiet
    <2> SUFFICES ASSUME IInv PROVE StoppedIsQuiet
      OBVIOUS
    <2>1. s.ops \in SUBSET {"read", "write", "timer"}
      BY Members DEF IInv, SessionInv, Core
    <2>2. s.intern_state = "stopped" => s.ops = {}
      BY <2>1 DEF IInv, SessionInv, Core, Phases, OpsMatch
    <2>3. s.pending_operations # 0 => s.ops # {}
      BY DEF IInv, SessionInv, Core, OpsMatch, Busy
    <2> QED
      BY <2>2, <2>3 DEF IInv, SessionInv, Phases, UserMatches, StoppedIsQuiet
  <1> QED
    BY <1>1, Invariance, PTL

\* ParkedWillBeCalled: a handler is parked in extern_wait_handler_ or
\* extern_stop_handler_ only in states from which it is still posted.
THEOREM ParkedHandlers == Spec => []ParkedWillBeCalled
  <1>1. IInv => ParkedWillBeCalled
    BY DEF IInv, SessionInv, WaitParked, UserMatches, ParkedWillBeCalled
  <1> QED
    BY <1>1, Invariance, PTL

\* TransfersFit: cyclic_buffer::consume and commit do not throw in the handlers
\* of completed reads and writes, for any buffer and transfer size.
THEOREM BufferNeverOverrun == Spec => []TransfersFit
  <1>1. IInv => TransfersFit
    BY DEF IInv, SessionInv, Core, BufferFits, TransfersFit
  <1> QED
    BY <1>1, Invariance, PTL

-----------------------------------------------------------------------------
(***************************************************************************)
(* The session implements its interface: Session => SessionApi.  Each        *)
(* method of the session is shown to change what the user sees as an         *)
(* operator of SessionApi says, or not at all.                               *)
(***************************************************************************)

\* What the user sees of a session: the refinement mapping of Session.
View(r) ==
  [extern_state |-> r.extern_state, run |-> Run(r.intern_state),
   extern_wait_error |-> r.extern_wait_error,
   wait_handler |-> r.wait_handler, stop_handler |-> r.stop_handler,
   posted |-> r.posted]

\* A record with the members of a session; what it holds is told apart only as
\* far as the methods below ask for it.
Shaped(r) ==
  /\ DOMAIN r = DOMAIN session
  /\ r = [m \in DOMAIN r |-> r[m]]
  /\ r.wait_handler \in BOOLEAN

\* An update the user does not see.
Unseen(r, q) ==
  Shaped(q) /\ View(q) = View(r) /\ q.intern_state = r.intern_state

\* A session that shuts down has told why, if anybody may ask.
Settled(r) ==
  /\ r.intern_state = "shutdown"
  /\ r.extern_state = "work" => r.extern_wait_error # "ok" /\ ~r.wait_handler

\* A session whose end begins now or has begun.
Ready(r) == Shaped(r) /\ (r.intern_state = "work" \/ Settled(r))

\* The user sees nothing but, perhaps, that the session has ended.
Finishing(r, q) ==
  Shaped(q) /\ (View(q) = View(r) \/ View(q) = Api!Finish(View(r)))

\* The user sees the session end for this reason, or finish to end.
Ends(r, q, reason) ==
  IF r.intern_state = "work"
  THEN Shaped(q) /\ View(q) \in Api!Endings(View(r), reason)
  ELSE Finishing(r, q)

-----------------------------------------------------------------------------
(***************************************************************************)
(* The updates of a session that its user does not see.                     *)
(***************************************************************************)

\* The members of a session.
LEMMA Fields ==
  ASSUME NEW r, Shaped(r)
  PROVE  DOMAIN r =
           {"extern_state", "intern_state", "read_state", "write_state",
            "timer_state", "timer_wait_cancelled", "timer_turned",
            "pending_operations", "buffer", "extern_wait_error",
            "wait_handler", "stop_handler", "open", "fin", "ops", "reading",
            "writing", "timer_aborted", "posted", "expiry_stale",
            "wait_stale", "stop_reason"}
  BY DEF Shaped, session

\* A well-typed session has its members.
LEMMA StatesShaped ==
  ASSUME NEW r \in SessionStates
  PROVE  Shaped(r)
  BY DEF Shaped, session, SessionStates

\* The user does not see asio's operations being started.
LEMMA StartsUnseen ==
  ASSUME NEW r, Shaped(r), NEW buffers
  PROVE  /\ Unseen(r, start_socket_read(r, buffers))
         /\ Unseen(r, start_socket_write(r, buffers))
         /\ Unseen(r, start_timer_wait(r))
  <1>1. Unseen(r, start_socket_read(r, buffers))
    BY Fields DEF Unseen, Shaped, View, start_socket_read
  <1>2. Unseen(r, start_socket_write(r, buffers))
    BY Fields DEF Unseen, Shaped, View, start_socket_write
  <1>3. Unseen(r, start_timer_wait(r))
    BY Fields DEF Unseen, Shaped, View, start_timer_wait
  <1> QED
    BY <1>1, <1>2, <1>3

\* Nor what is done to the timer, the buffer and the activities' states.
LEMMA UpdatesUnseen ==
  ASSUME NEW r, Shaped(r), NEW failed, NEW bytes
  PROVE  /\ Unseen(r, cancel_timer_wait(r, failed))
         /\ Unseen(r, TurnTimer(r)) /\ Unseen(r, StopIdle(r))
         /\ Unseen(r, EndOutput(r)) /\ Unseen(r, ResetBuffer(r))
         /\ Unseen(r, StopReading(r)) /\ Unseen(r, StopWriting(r))
         /\ Unseen(r, Consume(r, bytes)) /\ Unseen(r, Commit(r, bytes))
  <1>1. Unseen(r, cancel_timer_wait(r, failed))
    BY Fields DEF Unseen, Shaped, View, cancel_timer_wait
  <1>2. Unseen(r, TurnTimer(r)) /\ Unseen(r, StopIdle(r))
    BY ZenonT(40), Fields DEF Unseen, Shaped, View, TurnTimer, StopIdle
  <1>3. Unseen(r, EndOutput(r)) /\ Unseen(r, ResetBuffer(r))
    BY Fields DEF Unseen, Shaped, View, EndOutput, ResetBuffer, shutdown_socket
  <1>4. Unseen(r, StopReading(r)) /\ Unseen(r, StopWriting(r))
    BY Fields DEF Unseen, Shaped, View, StopReading, StopWriting
  <1>5. Unseen(r, Consume(r, bytes)) /\ Unseen(r, Commit(r, bytes))
    BY Fields DEF Unseen, Shaped, View, Consume, Commit
  <1> QED
    BY <1>1, <1>2, <1>3, <1>4, <1>5

\* Nor that asio hands an operation back.
LEMMA DoneUnseen ==
  ASSUME NEW r, Shaped(r), NEW state
  PROVE  /\ Unseen(r, ReadDone(r, state)) /\ Unseen(r, WriteDone(r, state))
         /\ Unseen(r, TimerDone(r, state))
  <1>1. Unseen(r, ReadDone(r, state))
    BY Fields DEF Unseen, Shaped, View, ReadDone
  <1>2. Unseen(r, WriteDone(r, state))
    BY Fields DEF Unseen, Shaped, View, WriteDone
  <1>3. Unseen(r, TimerDone(r, state))
    BY Fields DEF Unseen, Shaped, View, TimerDone
  <1> QED
    BY <1>1, <1>2, <1>3

\* Updates the user does not see add up to one.
LEMMA UnseenTwice ==
  ASSUME NEW r, NEW p, NEW q, Unseen(r, p), Unseen(p, q)
  PROVE  Unseen(r, q)
  BY DEF Unseen

\* Nor whether more is read or written.
LEMMA MoreUnseen ==
  ASSUME NEW r, Shaped(r), NEW max_size
  PROVE  /\ Unseen(r, ReadMore(r, max_size)) /\ Unseen(r, WriteMore(r))
         /\ Unseen(r, r)
  BY StartsUnseen, Zenon DEF ReadMore, WriteMore, Unseen

\* What is ready stays ready.
LEMMA UnseenReady ==
  ASSUME NEW r, NEW q, Unseen(r, q)
  PROVE  /\ Ready(r) => Ready(q)
         /\ Settled(r) => Settled(q)
  <1>1. /\ View(r).extern_state = r.extern_state
        /\ View(r).extern_wait_error = r.extern_wait_error
        /\ View(r).wait_handler = r.wait_handler
        /\ View(q).extern_state = q.extern_state
        /\ View(q).extern_wait_error = q.extern_wait_error
        /\ View(q).wait_handler = q.wait_handler
    BY DEF View
  <1> QED
    BY <1>1 DEF Unseen, Ready, Settled

\* An update the user does not see may come first.
LEMMA UnseenEnds ==
  ASSUME NEW r, NEW p, NEW q, Unseen(r, p), NEW reason
  PROVE  /\ Finishing(p, q) => Finishing(r, q)
         /\ Ends(p, q, reason) => Ends(r, q, reason)
         /\ View(q) = View(p) => View(q) = View(r)
  BY DEF Unseen, Finishing, Ends

-----------------------------------------------------------------------------
(***************************************************************************)
(* The end of a session, as its user sees it.                               *)
(***************************************************************************)

\* The session begins to end, the reason being told to a parked wait.
Ending(x, reason) ==
  [(IF x.extern_state = "work" THEN Api!Tell(x, reason) ELSE x)
     EXCEPT !.run = "ending"]

\* It does not matter whether the reason is told before the session begins to end.
LEMMA TellEnding ==
  ASSUME NEW r, NEW reason
  PROVE  LET x == [View(r) EXCEPT !.run = "ending"]
         IN  (IF x.extern_state = "work" THEN Api!Tell(x, reason) ELSE x)
             = Ending(View(r), reason)
  BY ZenonT(40) DEF Ending, Api!Tell, Api!Answer, View

\* Once the reason is known and nobody waits there is nothing to tell.
LEMMA EndingAgain ==
  ASSUME NEW r, Shaped(r), Settled(r), NEW reason
  PROVE  Ending(View(r), reason) = View(r)
  <1>1. Run(r.intern_state) = "ending"
    BY DEF Run, Settled
  <1> DEFINE x == View(r)
  <1>2. x = [x EXCEPT !.run = "ending"]
    BY <1>1 DEF View
  <1>3. ASSUME x.extern_state = "work" PROVE Api!Tell(x, reason) = x
    <2>1. r.extern_state = "work"
      BY <1>3 DEF View
    <2>2. ~r.wait_handler /\ r.extern_wait_error # "ok" /\ r.wait_handler = FALSE
      BY <2>1 DEF Settled, Shaped
    <2> QED
      BY <2>2 DEF Api!Tell, View
  <1> QED
    BY <1>2, <1>3, Zenon DEF Ending

\* The wait handler is told the reason that was registered first.
LEMMA WaitTold ==
  ASSUME NEW r, Shaped(r), NEW error
  PROVE  LET q == complete_extern_wait(r, error)
         IN  /\ View(q) = Api!Tell(View(r), error)
             /\ Shaped(q) /\ q.intern_state = r.intern_state
             /\ ~q.wait_handler /\ q.extern_state = r.extern_state
             /\ error # "ok" => q.extern_wait_error # "ok"
  <1> DEFINE q == complete_extern_wait(r, error)
  <1>1. CASE r.wait_handler
    BY ZenonT(40), <1>1, Fields DEF Shaped, View, complete_extern_wait, Api!Tell, Api!Answer,
       FirstError
  <1>2. CASE ~r.wait_handler
    BY <1>2, Fields DEF Shaped, View, complete_extern_wait, Api!Tell, FirstError
  <1> QED
    BY <1>1, <1>2

\* A call of the stop handler leaves the session its members.
LEMMA AnsweredShaped ==
  ASSUME NEW r, Shaped(r), NEW v
  PROVE  Shaped([r EXCEPT !.stop_handler = FALSE, !.posted = v])
  BY Fields DEF Shaped

\* continue_stop leaves the user's view alone or shows it the end.
LEMMA ContinueStopView ==
  ASSUME NEW r, Shaped(r)
  PROVE  Finishing(r, continue_stop(r))
  <1>0. Shaped(continue_stop(r))
    <2> DEFINE p == [r EXCEPT !.intern_state = "stopped",
                              !.extern_state = "stopped"]
               q == [r EXCEPT !.intern_state = "stopped"]
    <2>1. Shaped(p) /\ Shaped(q)
      BY Fields DEF Shaped
    <2> HIDE DEF p
    <2>2. Shaped(complete_extern_stop(p, "ok"))
      <3>1. CASE p.stop_handler
        <4> DEFINE e == [p EXCEPT !.stop_handler = FALSE,
                                  !.posted["stop"] = Append(@, "ok")]
        <4>1. complete_extern_stop(p, "ok") = e
          BY <3>1 DEF complete_extern_stop
        <4>2. Shaped(e)
          BY <2>1, AnsweredShaped, Zenon
        <4> QED
          BY <4>1, <4>2, Zenon
      <3>2. CASE ~p.stop_handler
        BY <2>1, <3>2, Zenon DEF complete_extern_stop
      <3> QED
        BY <3>1, <3>2
    <2> QED
      BY <2>1, <2>2, Zenon DEF continue_stop, p
  <1>1. CASE r.pending_operations # 0
    BY <1>0, <1>1 DEF continue_stop, Finishing
  <1>2. CASE r.pending_operations = 0 /\ r.extern_state = "stop"
    <2> DEFINE p == [r EXCEPT !.intern_state = "stopped",
                              !.extern_state = "stopped"]
               q == continue_stop(r)
    <2>1. q = IF r.stop_handler
              THEN [p EXCEPT !.stop_handler = FALSE,
                             !.posted["stop"] = Append(@, "ok")]
              ELSE p
      BY <1>2, Fields DEF Shaped, continue_stop, complete_extern_stop
    <2>2. /\ q.extern_state = "stopped" /\ q.intern_state = "stopped"
          /\ q.extern_wait_error = r.extern_wait_error
          /\ q.wait_handler = r.wait_handler
          /\ q.stop_handler = IF r.stop_handler THEN FALSE ELSE r.stop_handler
          /\ q.posted = IF r.stop_handler
                        THEN [r.posted EXCEPT !["stop"] = Append(@, "ok")]
                        ELSE r.posted
      BY <2>1, Fields DEF Shaped
    <2> HIDE DEF q
    <2>3. Run(q.intern_state) = "stopped"
      BY <2>2 DEF Run
    <2>4. View(q) = Api!Finish(View(r))
      <3>1. CASE r.stop_handler
        BY <1>2, <2>2, <2>3, <3>1 DEF View, Api!Finish, Api!Answer
      <3>2. CASE ~r.stop_handler
        BY <1>2, <2>2, <2>3, <3>2 DEF View, Api!Finish
      <3> QED
        BY <3>1, <3>2
    <2> QED
      BY <1>0, <2>4 DEF Finishing, q
  <1>3. CASE r.pending_operations = 0 /\ r.extern_state # "stop"
    <2>1. View(continue_stop(r)) = Api!Finish(View(r))
      BY <1>3, Fields DEF Shaped, continue_stop, View, Api!Finish, Run
    <2> QED
      BY <1>0, <2>1 DEF Finishing
  <1> QED
    BY <1>1, <1>2, <1>3

\* start_stop ends a working session for the reason it is given, and finishes to
\* end one that shuts down; a failing close() or cancel() changes no reason.
LEMMA StartStopView ==
  ASSUME NEW r, Ready(r), NEW error, NEW f,
         r.intern_state = "work" => error # "ok"
  PROVE  Ends(r, start_stop(r, error, f), error)
  <1> DEFINE closed == close_socket([r EXCEPT !.intern_state = "stop",
                                              !.stop_reason = error])
             why == FirstError(FirstError(error,
                                 IF "close" \in f THEN "error" ELSE "ok"),
                      IF CancelFails(closed, "stop_cancel" \in f)
                      THEN "error" ELSE "ok")
             c == cancel_timer_wait(closed, "stop_cancel" \in f)
             idle == StopIdle(c)
             p == IF idle.extern_state = "work"
                  THEN complete_extern_wait(idle, why) ELSE idle
  <1>1. start_stop(r, error, f) = continue_stop(p)
    BY Zenon DEF start_stop
  <1>2. Shaped(closed) /\ View(closed) = [View(r) EXCEPT !.run = "ending"]
    <2>1. /\ Shaped(closed) /\ closed.intern_state = "stop"
          /\ closed.extern_state = r.extern_state
          /\ closed.extern_wait_error = r.extern_wait_error
          /\ closed.wait_handler = r.wait_handler
          /\ closed.stop_handler = r.stop_handler /\ closed.posted = r.posted
      BY Fields DEF Ready, Shaped, close_socket
    <2> HIDE DEF closed
    <2>2. Run(closed.intern_state) = "ending"
      BY <2>1 DEF Run
    <2> QED
      BY <2>1, <2>2 DEF View
  <1>3. error # "ok" => why = error
    BY Zenon DEF FirstError
  <1> HIDE DEF closed, why
  <1>4. Unseen(closed, c)
    BY <1>2, UpdatesUnseen
  <1>5. Unseen(c, idle)
    BY <1>4, UpdatesUnseen DEF Unseen
  <1>6. /\ Shaped(idle) /\ View(idle) = View(closed)
        /\ idle.extern_state = View(closed).extern_state
    <2>1. View(idle).extern_state = idle.extern_state
      BY DEF View
    <2> QED
      BY <1>4, <1>5, <2>1 DEF Unseen
  <1> HIDE DEF c, idle
  <1>7. Shaped(p) /\ View(p) = Ending(View(r), why)
    <2>1. CASE idle.extern_state = "work"
      <3>1. View(p) = Api!Tell(View(closed), why) /\ Shaped(p)
        BY <1>6, <2>1, WaitTold
      <3> QED
        BY <1>2, <1>6, <2>1, <3>1, TellEnding
    <2>2. CASE idle.extern_state # "work"
      BY <1>2, <1>6, <2>2, TellEnding
    <2> QED
      BY <2>1, <2>2
  <1> HIDE DEF p
  <1>8. /\ View(continue_stop(p)) \in {View(p), Api!Finish(View(p))}
        /\ Shaped(continue_stop(p))
    BY <1>7, ContinueStopView DEF Finishing
  <1>9. CASE r.intern_state = "work"
    <2>1. Api!Endings(View(r), error) = {View(p), Api!Finish(View(p))}
      BY <1>3, <1>7, <1>9, Zenon DEF Api!Endings, Ending
    <2> QED
      BY <1>1, <1>8, <1>9, <2>1 DEF Ends
  <1>10. CASE r.intern_state # "work"
    <2>1. View(p) = View(r)
      BY <1>7, <1>10, EndingAgain DEF Ready
    <2> QED
      BY <1>1, <1>8, <1>10, <2>1 DEF Ends, Finishing
  <1> QED
    BY <1>9, <1>10

-----------------------------------------------------------------------------
(***************************************************************************)
(* The timer, work and shutdown, as the user sees them.                     *)
(***************************************************************************)

\* The user sees nothing or a failure of the session.
StaysOrFails(r, q) == Unseen(r, q) \/ Ends(r, q, "error")

\* continue_timer_wait is seen only when the timer cannot be set.
LEMMA TimerWaitView ==
  ASSUME NEW r, Ready(r), NEW f
  PROVE  StaysOrFails(r, continue_timer_wait(r, f))
  <1> DEFINE t == TurnTimer(r)
  <1>1. \/ continue_timer_wait(r, f) = r
        \/ continue_timer_wait(r, f) = start_stop(r, "error", f)
        \/ continue_timer_wait(r, f) = t
        \/ continue_timer_wait(r, f) = start_timer_wait(t)
    BY Zenon DEF continue_timer_wait
  <1>2. Unseen(r, r) /\ Unseen(r, t)
    BY MoreUnseen, UpdatesUnseen DEF Ready
  <1> HIDE DEF t
  <1>3. Unseen(r, start_timer_wait(t))
    BY <1>2, StartsUnseen, UnseenTwice DEF Unseen
  <1>4. Ends(r, start_stop(r, "error", f), "error")
    BY StartStopView
  <1> QED
    BY <1>1, <1>2, <1>3, <1>4, Zenon DEF StaysOrFails

\* What may fail after an update the user does not see.
LEMMA UnseenFails ==
  ASSUME NEW r, NEW p, NEW q, Unseen(r, p), StaysOrFails(p, q)
  PROVE  StaysOrFails(r, q)
  BY UnseenTwice, UnseenEnds DEF StaysOrFails

\* continue_work is seen only when the timer cannot be set.
LEMMA WorkView ==
  ASSUME NEW r, Ready(r), NEW f
  PROVE  StaysOrFails(r, continue_work(r, f))
  <1> DEFINE p == ReadMore(r, MaxTransfer)
             q == WriteMore(p)
  <1>1. Unseen(r, p)
    BY MoreUnseen DEF Ready
  <1> HIDE DEF p
  <1>2. Unseen(p, q)
    BY <1>1, MoreUnseen DEF Unseen
  <1> HIDE DEF q
  <1>3. Unseen(r, q)
    BY <1>1, <1>2, UnseenTwice
  <1>4. StaysOrFails(q, continue_timer_wait(q, f))
    BY <1>3, UnseenReady, TimerWaitView
  <1>5. continue_work(r, f) = continue_timer_wait(q, f)
    BY Zenon DEF continue_work, p, q
  <1> QED
    BY <1>3, <1>4, <1>5, UnseenFails

\* So is a restart of the timer during the shutdown.
LEMMA RestartView ==
  ASSUME NEW r, NEW p, Shaped(r), Settled(r), Unseen(r, p),
         NEW need_timer_restart, NEW f
  PROVE  Finishing(r, RestartTimer(p, need_timer_restart, f))
  <1> DEFINE q == RestartTimer(p, need_timer_restart, f)
  <1>1. Settled(p) /\ Ready(p)
    BY UnseenReady DEF Ready
  <1>2. StaysOrFails(p, continue_timer_wait(p, f))
    BY <1>1, TimerWaitView
  <1>3. StaysOrFails(p, p)
    BY <1>1, MoreUnseen DEF StaysOrFails, Ready
  <1>4. StaysOrFails(p, q)
    BY <1>2, <1>3, Zenon DEF RestartTimer
  <1> HIDE DEF q
  <1>5. StaysOrFails(r, q)
    BY <1>4, UnseenFails
  <1>6. Finishing(r, q)
    BY <1>5 DEF StaysOrFails, Unseen, Ends, Finishing, Settled
  <1> QED
    BY <1>6 DEF q

\* A stop during the shutdown shows the user nothing but the end.
LEMMA StopShutdownView ==
  ASSUME NEW r, NEW p, Shaped(r), Settled(r), Unseen(r, p), NEW error, NEW f
  PROVE  Finishing(r, start_stop(p, error, f))
  <1>1. Settled(p) /\ Ready(p)
    BY UnseenReady DEF Ready
  <1>2. Ends(p, start_stop(p, error, f), error)
    BY <1>1, StartStopView DEF Settled
  <1>3. Finishing(p, start_stop(p, error, f))
    BY <1>1, <1>2 DEF Ends, Settled
  <1> QED
    BY <1>3, UnseenEnds

\* continue_shutdown shows the user nothing but the end.
LEMMA ShutdownView ==
  ASSUME NEW r, Shaped(r), Settled(r), NEW need_timer_restart, NEW f
  PROVE  Finishing(r, continue_shutdown(r, need_timer_restart, f))
  <1> DEFINE e == EndOutput(r)
             w == IF r.write_state = "wait" THEN e ELSE r
             b == IF w.write_state = "stopped" THEN ResetBuffer(w) ELSE w
             m == ReadMore(b, b.buffer.nonfilled_size)
             n == WriteMore(r)
             o == IF n.write_state # "wait" THEN n
                  ELSE IF "shutdown" \in f THEN [n EXCEPT !.write_state = "stopped"]
                  ELSE EndOutput(n)
             x == start_stop(r, "error", f)
             q == continue_shutdown(r, need_timer_restart, f)
  <1>1. \/ q = x
        \/ q = RestartTimer(m, need_timer_restart, f)
        \/ q = RestartTimer(w, need_timer_restart, f)
        \/ q = start_stop(o, "ok", f)
        \/ q = RestartTimer(o, need_timer_restart, f)
    BY Zenon DEF continue_shutdown, continue_shutdown_at_read_wait,
       continue_shutdown_at_read_in_progress, continue_shutdown_at_read_stopped
  <1>2. Unseen(r, r) /\ Unseen(r, e) /\ Unseen(r, n)
    BY MoreUnseen, UpdatesUnseen
  <1>3. Unseen(r, w)
    BY <1>2, Zenon
  <1> HIDE DEF w, n
  <1>4. Unseen(w, b)
    BY <1>3, MoreUnseen, UpdatesUnseen DEF Unseen
  <1>5. Unseen(r, b)
    BY <1>3, <1>4, UnseenTwice
  <1> HIDE DEF b
  <1>6. Unseen(r, m)
    BY <1>5, MoreUnseen, UnseenTwice DEF Unseen
  <1>7. Shaped(n)
    BY <1>2 DEF Unseen
  <1>8. Unseen(n, n) /\ Unseen(n, EndOutput(n)) /\ Unseen(n, StopWriting(n))
    BY <1>7, MoreUnseen, UpdatesUnseen
  <1>9. Unseen(n, o)
    BY <1>8, Zenon DEF StopWriting
  <1>10. Unseen(r, o)
    BY <1>2, <1>9, UnseenTwice
  <1> HIDE DEF m, o, x, q
  <1>11. /\ Finishing(r, RestartTimer(m, need_timer_restart, f))
         /\ Finishing(r, RestartTimer(w, need_timer_restart, f))
         /\ Finishing(r, RestartTimer(o, need_timer_restart, f))
    BY <1>3, <1>6, <1>10, RestartView
  <1>12. Finishing(r, x) /\ Finishing(r, start_stop(o, "ok", f))
    BY <1>2, <1>10, StopShutdownView DEF x
  <1>13. Finishing(r, q)
    BY <1>1, <1>11, <1>12, Zenon
  <1> QED
    BY <1>13 DEF q

\* start_shutdown ends a working session for the reason it is given.
LEMMA StartShutdownView ==
  ASSUME NEW r, Shaped(r), r.intern_state = "work", NEW error,
         r.extern_state = "work" => error # "ok",
         NEW need_timer_restart, NEW f
  PROVE  /\ View(start_shutdown(r, error, need_timer_restart, f))
            \in Api!Endings(View(r), error)
         /\ Shaped(start_shutdown(r, error, need_timer_restart, f))
  <1> DEFINE p == [r EXCEPT !.intern_state = "shutdown"]
             t == IF r.extern_state = "work"
                  THEN complete_extern_wait(p, error) ELSE p
             q == continue_shutdown(t, need_timer_restart, f)
  <1>1. start_shutdown(r, error, need_timer_restart, f) = q
    BY Zenon DEF start_shutdown
  <1>2. /\ Shaped(p) /\ p.intern_state = "shutdown"
        /\ p.extern_state = r.extern_state
        /\ p.extern_wait_error = r.extern_wait_error
        /\ p.wait_handler = r.wait_handler
        /\ p.stop_handler = r.stop_handler /\ p.posted = r.posted
    BY Fields DEF Shaped
  <1> HIDE DEF p
  <1>3. Run(p.intern_state) = "ending"
    BY <1>2 DEF Run
  <1>4. View(p) = [View(r) EXCEPT !.run = "ending"]
    BY <1>2, <1>3 DEF View
  <1>5. [View(r) EXCEPT !.run = "ending"].extern_state = r.extern_state
    BY DEF View
  <1>6. View(t) = Ending(View(r), error) /\ Shaped(t) /\ Settled(t)
    <2>1. CASE r.extern_state = "work"
      <3>1. /\ View(t) = Api!Tell(View(p), error)
            /\ Shaped(t) /\ t.intern_state = p.intern_state
            /\ ~t.wait_handler /\ t.extern_wait_error # "ok"
        BY <1>2, <2>1, WaitTold
      <3>2. View(t) = Ending(View(r), error)
        BY <1>4, <1>5, <2>1, <3>1, TellEnding
      <3> QED
        BY <1>2, <3>1, <3>2 DEF Settled
    <2>2. CASE r.extern_state # "work"
      <3>1. View(t) = Ending(View(r), error)
        BY <1>4, <1>5, <2>2, TellEnding
      <3> QED
        BY <1>2, <2>2, <3>1 DEF Settled
    <2> QED
      BY <2>1, <2>2
  <1> HIDE DEF t
  <1>7. Finishing(t, q)
    BY <1>6, ShutdownView
  <1>8. Api!Endings(View(r), error) = {View(t), Api!Finish(View(t))}
    BY <1>6, Zenon DEF Api!Endings, Ending
  <1> HIDE DEF q
  <1> QED
    BY <1>1, <1>7, <1>8 DEF Finishing

-----------------------------------------------------------------------------
(***************************************************************************)
(* The completion handlers, as the user sees them.                          *)
(***************************************************************************)

\* The user sees nothing, or what a session does by itself.
Shown(r, q) == View(q) = View(r) \/ View(q) \in Api!Ended(View(r))

Reasons == {"eof", "error", "aborted", "inactivity_timeout"}

\* An end is something a session does by itself.
LEMMA EndsShown ==
  ASSUME NEW r, Ready(r), NEW q
  PROVE  /\ \A reason \in Reasons : Ends(r, q, reason) => Shown(r, q)
         /\ Unseen(r, q) => Shown(r, q)
         /\ StaysOrFails(r, q) => Shown(r, q)
  <1>1. View(r).run = IF r.intern_state = "work" THEN "work" ELSE "ending"
    BY DEF Ready, Settled, View, Run
  <1>2. ASSUME NEW reason \in Reasons, Ends(r, q, reason) PROVE Shown(r, q)
    BY <1>1, <1>2 DEF Ends, Finishing, Shown, Api!Ended, Reasons
  <1>3. "error" \in Reasons
    BY DEF Reasons
  <1> QED
    BY <1>2, <1>3 DEF StaysOrFails, Unseen, Shown

\* What a session does by itself after an update the user does not see.
LEMMA UnseenShown ==
  ASSUME NEW r, NEW p, NEW q, Unseen(r, p), Shown(p, q)
  PROVE  Shown(r, q)
  BY DEF Unseen, Shown

\* The ends a handler may lead to.
LEMMA EndShown ==
  ASSUME NEW r, Ready(r), NEW p, Unseen(r, p), NEW f
  PROVE  /\ \A reason \in Reasons : Shown(r, start_stop(p, reason, f))
         /\ r.intern_state = "work" => Shown(r, start_shutdown(p, "eof", TRUE, f))
         /\ r.intern_state = "work" => Shown(r, continue_work(p, f))
         /\ r.intern_state = "shutdown" => Shown(r, continue_shutdown(p, TRUE, f))
  <1>1. Ready(p) /\ p.intern_state = r.intern_state
    BY UnseenReady DEF Unseen
  <1>2. ASSUME NEW reason \in Reasons PROVE Shown(r, start_stop(p, reason, f))
    <2>1. reason # "ok"
      BY DEF Reasons
    <2>2. Ends(p, start_stop(p, reason, f), reason)
      BY <1>1, <2>1, StartStopView
    <2> QED
      BY <1>1, <2>2, EndsShown, UnseenShown
  <1>3. ASSUME r.intern_state = "work"
        PROVE  Shown(r, start_shutdown(p, "eof", TRUE, f))
    <2> DEFINE q == start_shutdown(p, "eof", TRUE, f)
    <2>1. View(q) \in Api!Endings(View(p), "eof") /\ Shaped(q)
      BY <1>1, <1>3, StartShutdownView DEF Ready
    <2> HIDE DEF q
    <2>2. Ends(p, q, "eof") /\ "eof" \in Reasons
      BY <1>1, <1>3, <2>1 DEF Ends, Reasons
    <2>3. Shown(r, q)
      BY <1>1, <2>2, EndsShown, UnseenShown
    <2> QED
      BY <2>3 DEF q
  <1>4. Shown(r, continue_work(p, f))
    BY <1>1, WorkView, EndsShown, UnseenShown
  <1>5. ASSUME r.intern_state = "shutdown"
        PROVE  Shown(r, continue_shutdown(p, TRUE, f))
    <2> DEFINE q == continue_shutdown(p, TRUE, f)
    <2>1. Finishing(p, q)
      BY <1>1, <1>5, ShutdownView DEF Ready
    <2> HIDE DEF q
    <2>2. Ends(p, q, "error")
      BY <1>1, <1>5, <2>1 DEF Ends
    <2>3. Shown(r, q)
      BY <1>1, <2>2, EndsShown, UnseenShown DEF Reasons
    <2> QED
      BY <2>3 DEF q
  <1> QED
    BY <1>2, <1>3, <1>4, <1>5

\* The handlers of reads and writes.
LEMMA TransferShown ==
  ASSUME NEW r, Ready(r), NEW error \in {"ok", "eof", "error", "aborted"},
         NEW bytes, NEW f
  PROVE  /\ r.intern_state = "work" =>
              /\ Shown(r, handle_read_at_work(r, error, bytes, f))
              /\ Shown(r, handle_write_at_work(r, error, bytes, f))
         /\ r.intern_state = "shutdown" =>
              /\ Shown(r, handle_read_at_shutdown(r, error, bytes, f))
              /\ Shown(r, handle_write_at_shutdown(r, error, bytes, f))
  <1> DEFINE failed == "cancel" \in f
             d == ReadDone(r, "wait")
             c == cancel_timer_wait(d, failed)
             x == StopReading(c)
             y == Consume(c, bytes)
             z == StopReading(y)
             wd == WriteDone(r, "wait")
             wc == cancel_timer_wait(wd, failed)
             wx == StopWriting(wc)
             wy == Commit(wc, bytes)
  <1>1. Unseen(r, d) /\ Unseen(r, wd)
    BY DoneUnseen DEF Ready
  <1>2. Unseen(r, c) /\ Unseen(r, wc)
    <2> HIDE DEF d, wd, failed
    <2>1. Unseen(d, c) /\ Unseen(wd, wc)
      BY <1>1, UpdatesUnseen DEF Unseen
    <2> QED
      BY <1>1, <2>1, UnseenTwice
  <1>3. Unseen(r, x) /\ Unseen(r, y) /\ Unseen(r, wx) /\ Unseen(r, wy)
    <2> HIDE DEF c, wc
    <2>1. Unseen(c, x) /\ Unseen(c, y) /\ Unseen(wc, wx) /\ Unseen(wc, wy)
      BY <1>2, UpdatesUnseen DEF Unseen
    <2> QED
      BY <1>2, <2>1, UnseenTwice
  <1>4. Unseen(r, z)
    <2> HIDE DEF y
    <2>1. Unseen(y, z)
      BY <1>3, UpdatesUnseen DEF Unseen
    <2> QED
      BY <1>3, <2>1, UnseenTwice
  <1>5. "error" \in Reasons /\ (error # "ok" => error \in Reasons)
    BY DEF Reasons
  <1>6. ASSUME r.intern_state = "work"
        PROVE  /\ Shown(r, handle_read_at_work(r, error, bytes, f))
               /\ Shown(r, handle_write_at_work(r, error, bytes, f))
    <2> DEFINE q == handle_read_at_work(r, error, bytes, f)
               wq == handle_write_at_work(r, error, bytes, f)
    <2>1. \/ q = start_stop(x, "error", f)
          \/ q = start_stop(x, error, f) /\ error # "ok"
          \/ q = start_shutdown(z, "eof", TRUE, f)
          \/ q = continue_work(y, f)
      BY Zenon DEF handle_read_at_work
    <2>2. \/ wq = start_stop(wx, "error", f)
          \/ wq = start_stop(wx, error, f) /\ error # "ok"
          \/ wq = continue_work(wy, f)
      BY Zenon DEF handle_write_at_work
    <2> HIDE DEF x, y, z, wx, wy, q, wq
    <2>3. Shown(r, q) /\ Shown(r, wq)
      BY <1>3, <1>4, <1>5, <1>6, <2>1, <2>2, EndShown
    <2> QED
      BY <2>3 DEF q, wq
  <1>7. ASSUME r.intern_state = "shutdown"
        PROVE  /\ Shown(r, handle_read_at_shutdown(r, error, bytes, f))
               /\ Shown(r, handle_write_at_shutdown(r, error, bytes, f))
    <2> DEFINE q == handle_read_at_shutdown(r, error, bytes, f)
               wq == handle_write_at_shutdown(r, error, bytes, f)
    <2>1. \/ q = start_stop(x, "error", f)
          \/ q = start_stop(x, error, f) /\ error # "ok"
          \/ q = continue_shutdown(z, TRUE, f)
          \/ q = continue_shutdown(y, TRUE, f)
      BY Zenon DEF handle_read_at_shutdown
    <2>2. \/ wq = start_stop(wx, "error", f)
          \/ wq = start_stop(wx, error, f) /\ error # "ok"
          \/ wq = continue_shutdown(wy, TRUE, f)
      BY Zenon DEF handle_write_at_shutdown
    <2> HIDE DEF x, y, z, wx, wy, q, wq
    <2>3. Shown(r, q) /\ Shown(r, wq)
      BY <1>3, <1>4, <1>5, <1>7, <2>1, <2>2, EndShown
    <2> QED
      BY <2>3 DEF q, wq
  <1> QED
    BY <1>6, <1>7

\* The handler of the timer wait.
LEMMA TimerShown ==
  ASSUME NEW r, Ready(r), NEW error \in {"ok", "error", "aborted"}, NEW f
  PROVE  Shown(r, handle_timer_at_work(r, error, f))
  <1> DEFINE d == TimerDone(r, "ready")
             e == TimerDone(r, "stopped")
             q == handle_timer_at_work(r, error, f)
  <1>1. \/ q = start_stop(e, error, f) /\ error # "ok"
        \/ q = start_stop(e, "inactivity_timeout", f)
        \/ q = start_timer_wait(d)
        \/ q = d
    BY Zenon DEF handle_timer_at_work
  <1>2. Unseen(r, d) /\ Unseen(r, e)
    BY DoneUnseen DEF Ready
  <1> HIDE DEF d, e, q
  <1>3. Unseen(r, start_timer_wait(d))
    BY <1>2, StartsUnseen, UnseenTwice DEF Unseen
  <1>4. "inactivity_timeout" \in Reasons /\ (error # "ok" => error \in Reasons)
    BY DEF Reasons
  <1>5. Shown(r, q)
    BY <1>1, <1>2, <1>3, <1>4, EndShown, EndsShown
  <1> QED
    BY <1>5 DEF q

\* The handlers of what is still outstanding when the session has been stopped.
LEMMA StopShown ==
  ASSUME NEW r, Shaped(r), r.intern_state = "stop"
  PROVE  /\ Shown(r, handle_read_at_stop(r)) /\ Shown(r, handle_write_at_stop(r))
         /\ Shown(r, handle_timer_at_stop(r))
  <1>1. View(r).run = "ending"
    BY DEF View, Run
  <1>2. ASSUME NEW p, Unseen(r, p) PROVE Shown(r, continue_stop(p))
    <2>1. Finishing(p, continue_stop(p))
      BY <1>2, ContinueStopView DEF Unseen
    <2>2. Finishing(r, continue_stop(p))
      BY <1>2, <2>1, UnseenEnds
    <2> QED
      BY <1>1, <2>2 DEF Finishing, Shown, Api!Ended
  <1>3. /\ Unseen(r, ReadDone(r, "stopped")) /\ Unseen(r, WriteDone(r, "stopped"))
        /\ Unseen(r, TimerDone(r, "stopped"))
    BY DoneUnseen
  <1> QED
    BY <1>2, <1>3, Zenon DEF handle_read_at_stop, handle_write_at_stop,
       handle_timer_at_stop

-----------------------------------------------------------------------------
(***************************************************************************)
(* The user's calls.                                                        *)
(***************************************************************************)

\* A posted result is an answer.
LEMMA PostView ==
  ASSUME NEW r, Shaped(r), NEW call, NEW error
  PROVE  View(Post(r, call, error)) = Api!Answer(View(r), call, error)
  <1> DEFINE q == Post(r, call, error)
  <1>1. /\ q.extern_state = r.extern_state /\ q.intern_state = r.intern_state
        /\ q.extern_wait_error = r.extern_wait_error
        /\ q.wait_handler = r.wait_handler /\ q.stop_handler = r.stop_handler
        /\ q.posted = [r.posted EXCEPT ![call] = Append(@, error)]
    BY Fields DEF Shaped, Post
  <1> HIDE DEF q
  <1>2. View(q) = Api!Answer(View(r), call, error)
    <2> DEFINE x == View(r)
    <2>1. ASSUME NEW v, q.posted = v PROVE View(q) = [x EXCEPT !.posted = v]
      BY SMTT(30), <1>1, <2>1 DEF View
    <2>2. q.posted = [x.posted EXCEPT ![call] = Append(@, error)]
      BY <1>1 DEF View
    <2> QED
      BY <2>1, <2>2, Zenon DEF Api!Answer
  <1> QED
    BY <1>2 DEF q

\* The user sees what the session believes it called for.
LEMMA ExternView ==
  ASSUME NEW r, Shaped(r), NEW state
  PROVE  LET q == [r EXCEPT !.extern_state = state]
         IN  /\ Shaped(q) /\ View(q) = [View(r) EXCEPT !.extern_state = state]
             /\ q.intern_state = r.intern_state /\ q.extern_state = state
  <1> DEFINE q == [r EXCEPT !.extern_state = state]
  <1>1. /\ Shaped(q) /\ q.extern_state = state /\ q.intern_state = r.intern_state
        /\ q.extern_wait_error = r.extern_wait_error
        /\ q.wait_handler = r.wait_handler /\ q.stop_handler = r.stop_handler
        /\ q.posted = r.posted
    BY Fields DEF Shaped
  <1> HIDE DEF q
  <1>2. View(q) = [View(r) EXCEPT !.extern_state = state]
    BY <1>1 DEF View
  <1> QED
    BY <1>1, <1>2 DEF q

\* async_start is answered as the interface says.
LEMMA StartView ==
  ASSUME NEW r, Shaped(r), r.extern_state = "ready" => r.intern_state = "work",
         NEW f
  PROVE  View(start_extern_start(r, f)) \in Api!Started(View(r))
  <1> DEFINE x == View(r)
             y == [x EXCEPT !.extern_state = "work"]
  <1>1. x.extern_state = r.extern_state /\ x.extern_wait_error = r.extern_wait_error
    BY DEF View
  <1>2. CASE r.extern_state # "ready"
    <2>1. View(start_extern_start(r, f)) = Api!Answer(x, "start", "invalid_state")
      BY <1>2, PostView DEF start_extern_start
    <2> QED
      BY <1>1, <1>2, <2>1, Zenon DEF Api!Started
  <1>3. CASE r.extern_state = "ready" /\ apply_socket_options(f) # "ok"
    <2> DEFINE p == StartFailed(r)
               w == [x EXCEPT !.extern_state = "stopped", !.run = "stopped",
                              !.extern_wait_error = x.extern_wait_error]
    <2>1. /\ Shaped(p) /\ p.extern_state = "stopped" /\ p.intern_state = "stopped"
          /\ p.extern_wait_error = r.extern_wait_error
          /\ p.wait_handler = r.wait_handler /\ p.stop_handler = r.stop_handler
          /\ p.posted = r.posted
      BY ZenonT(40), Fields DEF Shaped, StartFailed, close_socket
    <2> HIDE DEF p
    <2>2. Run(p.intern_state) = "stopped"
      BY <2>1 DEF Run
    <2>3. View(p) = w
      <3> DEFINE seen(run) ==
                   [extern_state |-> "stopped", run |-> run,
                    extern_wait_error |-> r.extern_wait_error,
                    wait_handler |-> r.wait_handler,
                    stop_handler |-> r.stop_handler, posted |-> r.posted]
                 w1 == [x EXCEPT !.extern_state = "stopped"]
                 w2 == [w1 EXCEPT !.run = "stopped"]
                 w3 == [w2 EXCEPT !.extern_wait_error = x.extern_wait_error]
      <3>1. w1 = seen(Run(r.intern_state))
        BY DEF View
      <3> HIDE DEF w1
      <3>2. w2 = seen("stopped")
        BY <3>1
      <3> HIDE DEF w2
      <3>3. w3 = seen("stopped")
        BY <1>1, <3>2
      <3> HIDE DEF w3
      <3>4. View(p) = w3
        BY <2>1, <2>2, <3>3, Zenon DEF View
      <3> QED
        BY <3>4, Zenon DEF w1, w2, w3
    <2>4. View(start_extern_start(r, f)) = Api!Answer(w, "start", "error")
      BY <1>3, <2>1, <2>3, PostView DEF start_extern_start, p
    <2> QED
      BY <1>1, <1>3, <2>4, Zenon DEF Api!Started
  <1>4. CASE r.extern_state = "ready" /\ apply_socket_options(f) = "ok"
    <2> DEFINE p == [r EXCEPT !.extern_state = "work"]
               q == continue_work(p, f)
    <2>1. Shaped(p) /\ View(p) = y /\ p.intern_state = "work"
      BY <1>4, ExternView, Zenon
    <2> HIDE DEF p
    <2>2. StaysOrFails(p, q)
      BY <2>1, WorkView DEF Ready
    <2> HIDE DEF q
    <2>3. View(q) \in {y} \cup Api!Endings(y, "error") /\ Shaped(q)
      BY <2>1, <2>2 DEF StaysOrFails, Unseen, Ends
    <2>4. View(start_extern_start(r, f)) = Api!Answer(View(q), "start", "ok")
      <3>1. start_extern_start(r, f) = Post(q, "start", "ok")
        BY <1>4 DEF start_extern_start, p, q
      <3> QED
        BY <2>3, <3>1, PostView
    <2> QED
      BY <1>1, <1>4, <2>3, <2>4, Zenon DEF Api!Started
  <1> QED
    BY <1>2, <1>3, <1>4

\* A parked handler is seen.
LEMMA ParkView ==
  ASSUME NEW r, Shaped(r)
  PROVE  /\ View([r EXCEPT !.wait_handler = TRUE])
            = [View(r) EXCEPT !.wait_handler = TRUE]
         /\ View([r EXCEPT !.stop_handler = TRUE])
            = [View(r) EXCEPT !.stop_handler = TRUE]
  <1> DEFINE p == [r EXCEPT !.wait_handler = TRUE]
             q == [r EXCEPT !.stop_handler = TRUE]
  <1>1. /\ p.extern_state = r.extern_state /\ p.intern_state = r.intern_state
        /\ p.extern_wait_error = r.extern_wait_error
        /\ p.stop_handler = r.stop_handler /\ p.posted = r.posted
    BY Fields DEF Shaped
  <1>2. /\ q.extern_state = r.extern_state /\ q.intern_state = r.intern_state
        /\ q.extern_wait_error = r.extern_wait_error
        /\ q.wait_handler = r.wait_handler /\ q.posted = r.posted
    BY Fields DEF Shaped
  <1>0. p.wait_handler = TRUE /\ q.stop_handler = TRUE
    BY Fields DEF Shaped
  <1> HIDE DEF p, q
  <1>3. View(p) = [View(r) EXCEPT !.wait_handler = TRUE]
    <2>1. ASSUME NEW v, p.wait_handler = v
          PROVE  View(p) = [View(r) EXCEPT !.wait_handler = v]
      BY <1>1, <2>1 DEF View
    <2> QED
      BY <1>0, <2>1, Zenon
  <1>4. View(q) = [View(r) EXCEPT !.stop_handler = TRUE]
    <2>1. ASSUME NEW v, q.stop_handler = v
          PROVE  View(q) = [View(r) EXCEPT !.stop_handler = v]
      BY <1>2, <2>1 DEF View
    <2> QED
      BY <1>0, <2>1, Zenon
  <1> QED
    BY <1>3, <1>4 DEF p, q

\* The user sees whether the session works and whether it has ended.
LEMMA RunView ==
  ASSUME NEW r
  PROVE  /\ View(r).run = "work" <=> r.intern_state = "work"
         /\ View(r).run = "stopped" <=> r.intern_state = "stopped"
         /\ View(r).extern_state = r.extern_state
         /\ View(r).wait_handler = r.wait_handler
         /\ View(r).stop_handler = r.stop_handler
         /\ View(r).extern_wait_error = r.extern_wait_error
  BY DEF View, Run

\* async_wait is answered or parked as the interface says.
LEMMA WaitView ==
  ASSUME NEW r, Shaped(r)
  PROVE  View(start_extern_wait(r)) \in Api!Waited(View(r))
  <1> DEFINE x == View(r)
  <1>1. /\ View(Post(r, "wait", "invalid_state"))
           = Api!Answer(x, "wait", "invalid_state")
        /\ View(Post(r, "wait", r.extern_wait_error))
           = Api!Answer(x, "wait", x.extern_wait_error)
        /\ View([r EXCEPT !.wait_handler = TRUE]) = [x EXCEPT !.wait_handler = TRUE]
    <2>1. x.extern_wait_error = r.extern_wait_error
      BY RunView
    <2>2. ASSUME NEW error
          PROVE  View(Post(r, "wait", error)) = Api!Answer(x, "wait", error)
      BY PostView
    <2> QED
      BY <2>1, <2>2, ParkView
  <1>2. /\ x.run = "work" <=> r.intern_state = "work"
        /\ x.extern_state = r.extern_state /\ x.wait_handler = r.wait_handler
    BY RunView
  <1> HIDE DEF x
  <1>3. View(start_extern_wait(r)) \in Api!Waited(x)
    BY <1>1, <1>2, Zenon DEF start_extern_wait, Api!Waited
  <1> QED
    BY <1>3 DEF x

\* It does not matter whether the wait is aborted before the stop is registered.
LEMMA TellStop ==
  ASSUME NEW r, NEW reason
  PROVE  Api!Tell([View(r) EXCEPT !.extern_state = "stop"], reason)
         = [Api!Tell(View(r), reason) EXCEPT !.extern_state = "stop"]
  BY ZenonT(40) DEF Api!Tell, Api!Answer, View

\* async_stop is answered or parked as the interface says.
LEMMA StopView ==
  ASSUME NEW r, Shaped(r), NEW f
  PROVE  View(start_extern_stop(r, f)) \in Api!Stopped(View(r))
  <1> DEFINE x == View(r)
             z == [Api!Tell(x, "operation_aborted") EXCEPT !.extern_state = "stop"]
             p == [r EXCEPT !.extern_state = "stop"]
             c == complete_extern_wait(p, "operation_aborted")
             q == do_start_extern_stop(r, f)
             ys == IF z.run = "work" THEN Api!Endings(z, "ok") ELSE {z}
             seen(y) == IF y.run = "stopped"
                        THEN Api!Answer([y EXCEPT !.extern_state = "stopped"],
                                        "stop", "ok")
                        ELSE [y EXCEPT !.stop_handler = TRUE]
  <1>1. Shaped(p) /\ View(p) = [x EXCEPT !.extern_state = "stop"]
        /\ p.extern_state = "stop"
    BY ExternView, Zenon
  <1> HIDE DEF p
  <1>2. Shaped(c) /\ View(c) = z /\ c.extern_state = "stop"
    <2>1. /\ Shaped(c) /\ c.extern_state = "stop"
          /\ View(c) = Api!Tell(View(p), "operation_aborted")
      BY <1>1, WaitTold
    <2> QED
      BY <1>1, <2>1, TellStop, ZenonT(60)
  <1>3. q = IF c.intern_state = "work"
            THEN start_shutdown(c, "operation_aborted", FALSE, f) ELSE c
    BY Zenon DEF do_start_extern_stop, p
  <1> HIDE DEF c, z, q
  <1>4. z.run = "work" <=> c.intern_state = "work"
    BY <1>2, RunView
  <1>5. z.extern_state = "stop"
    BY <1>2, RunView
  <1>6. View(q) \in ys /\ Shaped(q)
    <2>1. CASE c.intern_state = "work"
      <3> DEFINE sd == start_shutdown(c, "operation_aborted", FALSE, f)
      <3>1. View(sd) \in Api!Endings(z, "operation_aborted") /\ Shaped(sd)
        BY <1>2, <2>1, StartShutdownView, Zenon
      <3> HIDE DEF sd
      <3>2. Api!Endings(z, "operation_aborted") = Api!Endings(z, "ok")
        BY <1>5, Zenon DEF Api!Endings
      <3>3. q = sd
        BY <1>3, <2>1 DEF sd
      <3> QED
        BY <1>4, <2>1, <3>1, <3>2, <3>3
    <2>2. CASE c.intern_state # "work"
      BY <1>2, <1>3, <1>4, <2>2
    <2> QED
      BY <2>1, <2>2
  <1>7. ASSUME r.extern_state \notin {"stop", "stopped"}
        PROVE  View(start_extern_stop(r, f)) = seen(View(q))
    <2>1. CASE q.intern_state = "stopped"
      <3> DEFINE e == [q EXCEPT !.extern_state = "stopped"]
      <3>1. Shaped(e) /\ View(e) = [View(q) EXCEPT !.extern_state = "stopped"]
        BY <1>6, ExternView, Zenon
      <3> HIDE DEF e
      <3>2. View(Post(e, "stop", "ok")) = Api!Answer(View(e), "stop", "ok")
        BY <3>1, PostView
      <3>3. start_extern_stop(r, f) = Post(e, "stop", "ok")
        BY <1>7, <2>1, Zenon DEF start_extern_stop, q, e
      <3> QED
        BY <2>1, <3>1, <3>2, <3>3, RunView
    <2>2. CASE q.intern_state # "stopped"
      <3>1. start_extern_stop(r, f) = [q EXCEPT !.stop_handler = TRUE]
        BY <1>7, <2>2, Zenon DEF start_extern_stop, q
      <3> QED
        BY <1>6, <2>2, <3>1, RunView, ParkView
    <2> QED
      BY <2>1, <2>2
  <1>8. CASE r.extern_state \notin {"stop", "stopped"}
    <2>1. Api!Stopped(x) = {seen(y) : y \in ys}
      BY <1>8, RunView, Zenon DEF Api!Stopped, z
    <2> HIDE DEF x
    <2>2. View(start_extern_stop(r, f)) \in Api!Stopped(x)
      BY <1>6, <1>7, <1>8, <2>1, Zenon
    <2> QED
      BY <2>2 DEF x
  <1>9. CASE r.extern_state \in {"stop", "stopped"}
    <2>1. View(start_extern_stop(r, f)) = Api!Answer(x, "stop", "invalid_state")
      BY <1>9, PostView, Zenon DEF start_extern_stop
    <2>2. Api!Stopped(x) = {Api!Answer(x, "stop", "invalid_state")}
      BY <1>9, RunView, Zenon DEF Api!Stopped
    <2> QED
      BY <2>1, <2>2
  <1> QED
    BY <1>8, <1>9

-----------------------------------------------------------------------------
(***************************************************************************)
(* What the interface guarantees: handlers are accounted for, and the end   *)
(* has a reason.                                                            *)
(***************************************************************************)

\* The calls a session knows of: those it answered and the one it has parked.
Owed(x, c) ==
  IF c = "wait" THEN (IF x.wait_handler THEN 1 ELSE 0)
  ELSE IF c = "stop" THEN (IF x.stop_handler THEN 1 ELSE 0)
  ELSE 0

Known(x, c) == Len(x.posted[c]) + Owed(x, c)

\* Nothing is forgotten or answered twice from x to y.
SameKnown(x, y) == \A c \in Api!Calls : Known(y, c) = Known(x, c)

\* Nothing but one call is new.
OneMore(x, y, call) ==
  \A c \in Api!Calls : Known(y, c) = Known(x, c) + (IF c = call THEN 1 ELSE 0)

\* A session that has begun to end has its reason, while anybody may wait for it.
Reasoned(x) ==
  x.run # "work" /\ x.extern_state = "work" => x.extern_wait_error # "ok"

\* The user sees a state of the interface.
LEMMA ViewType ==
  ASSUME NEW r \in SessionStates
  PROVE  View(r) \in Api!ApiStates
  BY Zenon DEF View, SessionStates, Api!ApiStates, Run, Api!Errors, Errors,
     Api!Calls, Calls

\* An answer is one more result of its call.
LEMMA AnswerKnown ==
  ASSUME NEW x \in Api!ApiStates, NEW call \in Api!Calls, NEW error \in Api!Errors
  PROVE  LET y == Api!Answer(x, call, error)
         IN  /\ y \in Api!ApiStates
             /\ y.extern_state = x.extern_state /\ y.run = x.run
             /\ y.extern_wait_error = x.extern_wait_error
             /\ y.wait_handler = x.wait_handler
             /\ y.stop_handler = x.stop_handler
             /\ OneMore(x, y, call)
  <1> DEFINE y == Api!Answer(x, call, error)
             longer == [x.posted EXCEPT ![call] = Append(@, error)]
  <1>1. /\ x.posted \in [Api!Calls -> Seq(Api!Errors)]
        /\ \A c \in Api!Calls : x.posted[c] \in Seq(Api!Errors)
    BY DEF Api!ApiStates
  <1>2. longer \in [Api!Calls -> Seq(Api!Errors)]
    BY <1>1
  <1>3. \A c \in Api!Calls :
          Len(longer[c]) = Len(x.posted[c]) + (IF c = call THEN 1 ELSE 0)
    <2> SUFFICES ASSUME NEW c \in Api!Calls
                 PROVE  Len(longer[c])
                        = Len(x.posted[c]) + (IF c = call THEN 1 ELSE 0)
      OBVIOUS
    <2> DEFINE v == x.posted[c]
    <2>1. v \in Seq(Api!Errors)
      BY <1>1
    <2>2. longer[c] = IF c = call THEN Append(v, error) ELSE v
      BY <1>1
    <2> HIDE DEF v
    <2>3. Len(Append(v, error)) = Len(v) + 1 /\ Len(v) \in Nat
      BY <2>1
    <2> HIDE DEF longer
    <2>4. Len(longer[c]) = Len(v) + (IF c = call THEN 1 ELSE 0)
      BY <2>2, <2>3
    <2> QED
      BY <2>4 DEF v
  <1>4. y = [x EXCEPT !.posted = longer]
    BY Zenon DEF Api!Answer
  <1> HIDE DEF longer
  <1>5. /\ y \in Api!ApiStates /\ y.posted = longer
        /\ y.extern_state = x.extern_state /\ y.run = x.run
        /\ y.extern_wait_error = x.extern_wait_error
        /\ y.wait_handler = x.wait_handler /\ y.stop_handler = x.stop_handler
    BY <1>2, <1>4 DEF Api!ApiStates
  <1> HIDE DEF y
  <1>6. OneMore(x, y, call)
    <2> SUFFICES ASSUME NEW c \in Api!Calls
                 PROVE  Known(y, c) = Known(x, c) + (IF c = call THEN 1 ELSE 0)
      BY DEF OneMore
    <2>1. Owed(y, c) = Owed(x, c) /\ Owed(x, c) \in {0, 1}
      BY <1>5, Zenon DEF Owed
    <2>2. x.posted[c] \in Seq(Api!Errors)
      BY <1>1
    <2>3. Len(x.posted[c]) \in Nat
      BY <2>2
    <2>4. Len(y.posted[c]) = Len(x.posted[c]) + (IF c = call THEN 1 ELSE 0)
      BY <1>3, <1>5
    <2> QED
      <3>1. ASSUME NEW n \in Nat, NEW one \in {0, 1}, NEW more \in {0, 1}
            PROVE  (n + more) + one = (n + one) + more
        OBVIOUS
      <3>2. (IF c = call THEN 1 ELSE 0) \in {0, 1}
        OBVIOUS
      <3> QED
        BY <2>1, <2>3, <2>4, <3>1, <3>2, Zenon DEF Known
  <1> QED
    BY <1>5, <1>6 DEF y

\* What is owed, call by call.
LEMMA OwedIs ==
  ASSUME NEW x
  PROVE  /\ Owed(x, "wait") = IF x.wait_handler THEN 1 ELSE 0
         /\ Owed(x, "stop") = IF x.stop_handler THEN 1 ELSE 0
         /\ Owed(x, "start") = 0
  <1>1. "stop" # "wait"
    OBVIOUS
  <1>2. Owed(x, "wait") = IF x.wait_handler THEN 1 ELSE 0
    BY Zenon DEF Owed
  <1>3. Owed(x, "stop") = IF x.stop_handler THEN 1 ELSE 0
    BY <1>1, Zenon DEF Owed
  <1>4. Owed(x, "start") = 0
    BY DEF Owed
  <1> QED
    BY <1>2, <1>3, <1>4

\* The counts are numbers.
LEMMA KnownType ==
  ASSUME NEW x \in Api!ApiStates, NEW c \in Api!Calls
  PROVE  Len(x.posted[c]) \in Nat /\ Owed(x, c) \in {0, 1} /\ Known(x, c) \in Nat
  <1>1. x.posted[c] \in Seq(Api!Errors)
    BY DEF Api!ApiStates
  <1>2. Len(x.posted[c]) \in Nat
    BY <1>1
  <1>3. Owed(x, c) \in {0, 1}
    BY Zenon DEF Owed
  <1> QED
    BY <1>2, <1>3 DEF Known

\* An update that posts nothing changes the count by what is parked.
LEMMA OwedKnown ==
  ASSUME NEW x \in Api!ApiStates, NEW y \in Api!ApiStates, y.posted = x.posted
  PROVE  \A c \in Api!Calls :
           /\ Owed(y, c) = Owed(x, c) => Known(y, c) = Known(x, c)
           /\ Owed(y, c) = 0 /\ Owed(x, c) = 1 => Known(y, c) + 1 = Known(x, c)
           /\ Owed(y, c) = 1 /\ Owed(x, c) = 0 => Known(y, c) = Known(x, c) + 1
  <1> SUFFICES ASSUME NEW c \in Api!Calls
               PROVE  /\ Owed(y, c) = Owed(x, c) => Known(y, c) = Known(x, c)
                      /\ Owed(y, c) = 0 /\ Owed(x, c) = 1 =>
                           Known(y, c) + 1 = Known(x, c)
                      /\ Owed(y, c) = 1 /\ Owed(x, c) = 0 =>
                           Known(y, c) = Known(x, c) + 1
    OBVIOUS
  <1>1. Len(x.posted[c]) \in Nat /\ Len(y.posted[c]) = Len(x.posted[c])
    BY KnownType
  <1> QED
    BY <1>1 DEF Known

\* A reason that is told answers a parked wait, and no other call.
LEMMA TellKnown ==
  ASSUME NEW x \in Api!ApiStates, NEW reason \in Api!Errors
  PROVE  LET y == Api!Tell(x, reason)
         IN  /\ y \in Api!ApiStates /\ SameKnown(x, y)
             /\ y.extern_state = x.extern_state /\ y.run = x.run
             /\ y.wait_handler = FALSE /\ y.stop_handler = x.stop_handler
             /\ (reason # "ok" => y.extern_wait_error # "ok")
  <1> DEFINE why == IF x.extern_wait_error = "ok" THEN reason
                    ELSE x.extern_wait_error
             p == [x EXCEPT !.extern_wait_error = why]
             q == [p EXCEPT !.wait_handler = FALSE]
             y == Api!Tell(x, reason)
  <1>1. y = IF x.wait_handler THEN Api!Answer(q, "wait", why) ELSE q
    BY Zenon DEF Api!Tell
  <1>2. why \in Api!Errors /\ (reason # "ok" => why # "ok")
    BY DEF Api!ApiStates
  <1> HIDE DEF why
  <1>3. /\ q \in Api!ApiStates /\ q.posted = x.posted
        /\ q.extern_state = x.extern_state /\ q.run = x.run
        /\ q.extern_wait_error = why
        /\ q.wait_handler = FALSE /\ q.stop_handler = x.stop_handler
    BY <1>2 DEF Api!ApiStates
  <1> HIDE DEF p, q, y
  <1>4. "wait" \in Api!Calls
    BY DEF Api!Calls
  <1>5. CASE x.wait_handler
    <2>1. y = Api!Answer(q, "wait", why)
      BY <1>1, <1>5
    <2>2. OneMore(q, y, "wait")
      BY <1>2, <1>3, <1>4, <2>1, AnswerKnown
    <2>3. SameKnown(x, y)
      <3> SUFFICES ASSUME NEW c \in Api!Calls PROVE Known(y, c) = Known(x, c)
        BY DEF SameKnown
      <3>1. CASE c = "wait"
        <4>1. Owed(q, c) = 0 /\ Owed(x, c) = 1
          BY <1>3, <1>5, <3>1, OwedIs, Zenon
        <4>2. Known(q, c) + 1 = Known(x, c)
          BY <1>3, <4>1, OwedKnown
        <4>3. Known(y, c) = Known(q, c) + 1
          BY <2>2, <3>1 DEF OneMore
        <4> QED
          BY <4>2, <4>3
      <3>2. CASE c # "wait"
        <4>1. Owed(q, c) = Owed(x, c)
          BY <1>3, <3>2, Zenon DEF Owed
        <4>2. Known(q, c) = Known(x, c) /\ Known(x, c) \in Nat
          BY <1>3, <4>1, OwedKnown, KnownType
        <4> QED
          BY <2>2, <3>2, <4>2 DEF OneMore
      <3> QED
        BY <3>1, <3>2
    <2>4. /\ y \in Api!ApiStates
          /\ y.extern_state = q.extern_state /\ y.run = q.run
          /\ y.extern_wait_error = q.extern_wait_error
          /\ y.wait_handler = q.wait_handler /\ y.stop_handler = q.stop_handler
      BY <1>2, <1>3, <1>4, <2>1, AnswerKnown
    <2> QED
      BY <1>2, <1>3, <2>3, <2>4 DEF y
  <1>6. CASE ~x.wait_handler
    <2>1. y = q
      BY <1>1, <1>6
    <2>2. x.wait_handler = FALSE
      BY <1>6 DEF Api!ApiStates
    <2>3. \A c \in Api!Calls : Owed(q, c) = Owed(x, c)
      BY <1>3, <2>2, Zenon DEF Owed
    <2>4. SameKnown(x, y)
      BY <1>3, <2>1, <2>3, OwedKnown DEF SameKnown
    <2> QED
      BY <1>2, <1>3, <2>1, <2>4 DEF y
  <1> QED
    BY <1>5, <1>6

\* The end answers a parked stop, and no other call.
LEMMA FinishKnown ==
  ASSUME NEW x \in Api!ApiStates
  PROVE  LET y == Api!Finish(x)
         IN  /\ y \in Api!ApiStates /\ SameKnown(x, y)
             /\ y.run = "stopped"
             /\ y.extern_state = IF x.extern_state = "stop" THEN "stopped"
                                 ELSE x.extern_state
             /\ y.extern_wait_error = x.extern_wait_error
             /\ y.wait_handler = x.wait_handler
             /\ y.stop_handler = (x.stop_handler /\ x.extern_state # "stop")
  <1> DEFINE y == Api!Finish(x)
             p == [x EXCEPT !.run = "stopped"]
             q == [p EXCEPT !.extern_state = "stopped"]
             u == [q EXCEPT !.stop_handler = FALSE]
  <1>1. y = IF x.extern_state # "stop" THEN p
            ELSE IF x.stop_handler THEN Api!Answer(u, "stop", "ok") ELSE q
    BY Zenon DEF Api!Finish
  <1>2. /\ p \in Api!ApiStates /\ p.posted = x.posted /\ p.run = "stopped"
        /\ p.extern_state = x.extern_state
        /\ p.extern_wait_error = x.extern_wait_error
        /\ p.wait_handler = x.wait_handler /\ p.stop_handler = x.stop_handler
    BY DEF Api!ApiStates
  <1> HIDE DEF p
  <1>3. /\ q \in Api!ApiStates /\ q.posted = x.posted /\ q.run = "stopped"
        /\ q.extern_state = "stopped"
        /\ q.extern_wait_error = x.extern_wait_error
        /\ q.wait_handler = x.wait_handler /\ q.stop_handler = x.stop_handler
    BY <1>2 DEF Api!ApiStates
  <1> HIDE DEF q
  <1>4. /\ u \in Api!ApiStates /\ u.posted = x.posted /\ u.run = "stopped"
        /\ u.extern_state = "stopped"
        /\ u.extern_wait_error = x.extern_wait_error
        /\ u.wait_handler = x.wait_handler /\ u.stop_handler = FALSE
    BY <1>3 DEF Api!ApiStates
  <1> HIDE DEF u, y
  <1>5. x.stop_handler \in BOOLEAN
    BY DEF Api!ApiStates
  <1>6. ASSUME NEW z \in {p, q} PROVE SameKnown(x, z)
    <2>1. \A c \in Api!Calls : Owed(z, c) = Owed(x, c)
      BY <1>2, <1>3, Zenon DEF Owed
    <2> QED
      BY <1>2, <1>3, <2>1, OwedKnown DEF SameKnown
  <1>7. CASE x.extern_state # "stop"
    BY <1>1, <1>2, <1>5, <1>6, <1>7 DEF y
  <1>8. CASE x.extern_state = "stop" /\ ~x.stop_handler
    BY <1>1, <1>3, <1>5, <1>6, <1>8 DEF y
  <1>9. CASE x.extern_state = "stop" /\ x.stop_handler
    <2>1. y = Api!Answer(u, "stop", "ok")
      BY <1>1, <1>9
    <2>2. "stop" \in Api!Calls /\ "ok" \in Api!Errors
      BY DEF Api!Calls, Api!Errors
    <2>3. /\ y \in Api!ApiStates
          /\ y.extern_state = u.extern_state /\ y.run = u.run
          /\ y.extern_wait_error = u.extern_wait_error
          /\ y.wait_handler = u.wait_handler /\ y.stop_handler = u.stop_handler
          /\ OneMore(u, y, "stop")
      BY <1>4, <2>1, <2>2, AnswerKnown
    <2>4. SameKnown(x, y)
      <3> SUFFICES ASSUME NEW c \in Api!Calls PROVE Known(y, c) = Known(x, c)
        BY DEF SameKnown
      <3>1. CASE c = "stop"
        <4>1. Owed(u, c) = 0 /\ Owed(x, c) = 1
          <5>1. Owed(u, "stop") = 0
            BY <1>4, OwedIs, Zenon
          <5>2. Owed(x, "stop") = 1
            BY <1>9, OwedIs, Zenon
          <5> QED
            BY <3>1, <5>1, <5>2
        <4>2. Known(u, c) + 1 = Known(x, c)
          BY <1>4, <4>1, OwedKnown
        <4>3. Known(y, c) = Known(u, c) + 1
          BY <2>3, <3>1 DEF OneMore
        <4> QED
          BY <4>2, <4>3
      <3>2. CASE c # "stop"
        <4>1. Owed(u, c) = Owed(x, c)
          BY <1>4, <3>2, Zenon DEF Owed
        <4>2. Known(u, c) = Known(x, c) /\ Known(x, c) \in Nat
          BY <1>4, <4>1, OwedKnown, KnownType
        <4> QED
          BY <2>3, <3>2, <4>2 DEF OneMore
      <3> QED
        BY <3>1, <3>2
    <2> QED
      BY <1>4, <1>9, <2>3, <2>4 DEF y
  <1> QED
    BY <1>7, <1>8, <1>9

\* A session that ends answers what is parked, and has its reason.
LEMMA EndingsKnown ==
  ASSUME NEW x \in Api!ApiStates, NEW reason \in Api!Errors,
         x.extern_state = "work" => reason # "ok",
         NEW y \in Api!Endings(x, reason)
  PROVE  /\ y \in Api!ApiStates /\ SameKnown(x, y) /\ Reasoned(y)
         /\ (x.stop_handler = FALSE => y.stop_handler = FALSE)
  <1> DEFINE t == IF x.extern_state = "work" THEN Api!Tell(x, reason) ELSE x
             q == [t EXCEPT !.run = "ending"]
  <1>1. y = q \/ y = Api!Finish(q)
    BY Zenon DEF Api!Endings
  <1>2. /\ t \in Api!ApiStates /\ SameKnown(x, t)
        /\ t.extern_state = x.extern_state /\ t.stop_handler = x.stop_handler
        /\ (t.extern_state = "work" => t.extern_wait_error # "ok")
    <2>1. CASE x.extern_state = "work"
      BY <2>1, TellKnown
    <2>2. CASE x.extern_state # "work"
      BY <2>2 DEF SameKnown
    <2> QED
      BY <2>1, <2>2
  <1> HIDE DEF t
  <1>3. /\ q \in Api!ApiStates /\ q.posted = t.posted
        /\ q.extern_state = t.extern_state /\ q.run = "ending"
        /\ q.extern_wait_error = t.extern_wait_error
        /\ q.wait_handler = t.wait_handler /\ q.stop_handler = t.stop_handler
    BY <1>2 DEF Api!ApiStates
  <1> HIDE DEF q
  <1>4. \A c \in Api!Calls : Owed(q, c) = Owed(t, c)
    BY <1>3, Zenon DEF Owed
  <1>5. SameKnown(x, q) /\ Reasoned(q)
    BY <1>2, <1>3, <1>4, OwedKnown DEF SameKnown, Reasoned
  <1>6. CASE y = q
    BY <1>2, <1>3, <1>5, <1>6
  <1>7. CASE y = Api!Finish(q)
    <2>1. /\ y \in Api!ApiStates /\ SameKnown(q, y)
          /\ y.extern_state = IF q.extern_state = "stop" THEN "stopped"
                              ELSE q.extern_state
          /\ y.extern_wait_error = q.extern_wait_error
          /\ y.stop_handler = (q.stop_handler /\ q.extern_state # "stop")
      BY <1>3, <1>7, FinishKnown
    <2>2. SameKnown(x, y)
      BY <1>5, <2>1 DEF SameKnown
    <2>3. Reasoned(y)
      BY <1>2, <1>3, <2>1 DEF Reasoned
    <2>4. x.stop_handler = FALSE => y.stop_handler = FALSE
      BY <1>2, <1>3, <2>1
    <2> QED
      BY <2>1, <2>2, <2>3, <2>4
  <1> QED
    BY <1>1, <1>6, <1>7

\* An answer alone keeps the reason.
LEMMA AnswerOneMore ==
  ASSUME NEW x \in Api!ApiStates, NEW y \in Api!ApiStates, SameKnown(x, y),
         Reasoned(y), NEW call \in Api!Calls, NEW error \in Api!Errors
  PROVE  LET z == Api!Answer(y, call, error)
         IN  z \in Api!ApiStates /\ OneMore(x, z, call) /\ Reasoned(z)
  <1> DEFINE z == Api!Answer(y, call, error)
  <1>1. /\ z \in Api!ApiStates /\ OneMore(y, z, call)
        /\ z.extern_state = y.extern_state /\ z.run = y.run
        /\ z.extern_wait_error = y.extern_wait_error
    BY AnswerKnown
  <1> HIDE DEF z
  <1>2. OneMore(x, z, call)
    BY <1>1 DEF OneMore, SameKnown
  <1>3. Reasoned(z)
    BY <1>1 DEF Reasoned
  <1> QED
    BY <1>1, <1>2, <1>3 DEF z

\* A call is one more call, and none else is answered by it.
LEMMA StartedKnown ==
  ASSUME NEW x \in Api!ApiStates, Reasoned(x),
         x.extern_state = "ready" => x.run = "work", NEW y \in Api!Started(x)
  PROVE  OneMore(x, y, "start") /\ Reasoned(y)
  <1> DEFINE q == [x EXCEPT !.extern_state = "work"]
             failed(why) == [x EXCEPT !.extern_state = "stopped",
                                      !.run = "stopped",
                                      !.extern_wait_error = why]
  <1>1. /\ "start" \in Api!Calls
        /\ {"invalid_state", "ok", "error"} \subseteq Api!Errors
    BY DEF Api!Calls, Api!Errors
  <1>2. SameKnown(x, x)
    BY DEF SameKnown
  <1>3. CASE x.extern_state # "ready"
    <2>1. y = Api!Answer(x, "start", "invalid_state")
      BY <1>3, Zenon DEF Api!Started
    <2> QED
      BY <1>1, <1>2, <2>1, AnswerOneMore
  <1>4. CASE x.extern_state = "ready"
    <2>1. \/ \E z \in {q} \cup Api!Endings(q, "error") :
               y = Api!Answer(z, "start", "ok")
          \/ \E why \in {x.extern_wait_error, "error"} :
               y = Api!Answer(failed(why), "start", "error")
      BY <1>4, Zenon DEF Api!Started
    <2>2. /\ q \in Api!ApiStates /\ q.posted = x.posted
          /\ q.wait_handler = x.wait_handler /\ q.stop_handler = x.stop_handler
          /\ q.run = x.run /\ q.extern_wait_error = x.extern_wait_error
      BY DEF Api!ApiStates
    <2>3. CASE \E z \in {q} \cup Api!Endings(q, "error") :
                 y = Api!Answer(z, "start", "ok")
      <3> HIDE DEF q
      <3>1. SameKnown(x, q)
        <4>1. \A c \in Api!Calls : Owed(q, c) = Owed(x, c)
          BY <2>2, Zenon DEF Owed
        <4> QED
          BY <2>2, <4>1, OwedKnown DEF SameKnown
      <3>2. PICK z \in {q} \cup Api!Endings(q, "error") :
                   y = Api!Answer(z, "start", "ok")
        BY <2>3
      <3>3. CASE z \in Api!Endings(q, "error")
        <4>1. z \in Api!ApiStates /\ SameKnown(q, z) /\ Reasoned(z)
          BY <1>1, <2>2, <3>3, EndingsKnown
        <4>2. SameKnown(x, z)
          BY <3>1, <4>1 DEF SameKnown
        <4> QED
          BY <1>1, <3>2, <4>1, <4>2, AnswerOneMore
      <3>4. CASE z = q
        <4>1. Reasoned(q)
          BY <1>4, <2>2 DEF Reasoned
        <4> QED
          BY <1>1, <2>2, <3>1, <3>2, <3>4, <4>1, AnswerOneMore
      <3> QED
        BY <3>2, <3>3, <3>4
    <2>4. CASE \E why \in {x.extern_wait_error, "error"} :
                 y = Api!Answer(failed(why), "start", "error")
      <3>1. PICK why \in {x.extern_wait_error, "error"} :
                   y = Api!Answer(failed(why), "start", "error")
        BY <2>4
      <3>2. why \in Api!Errors
        BY <1>1 DEF Api!ApiStates
      <3> DEFINE z == failed(why)
      <3>3. /\ z \in Api!ApiStates /\ z.posted = x.posted
            /\ z.wait_handler = x.wait_handler /\ z.stop_handler = x.stop_handler
            /\ z.extern_state = "stopped"
        BY <3>2 DEF Api!ApiStates
      <3>4. y = Api!Answer(z, "start", "error")
        BY <3>1
      <3> HIDE DEF z
      <3>5. \A c \in Api!Calls : Owed(z, c) = Owed(x, c)
        BY <3>3, Zenon DEF Owed
      <3>6. SameKnown(x, z) /\ Reasoned(z)
        BY <3>3, <3>5, OwedKnown DEF SameKnown, Reasoned
      <3> QED
        BY <1>1, <3>3, <3>4, <3>6, AnswerOneMore
    <2> QED
      BY <2>1, <2>3, <2>4
  <1> QED
    BY <1>3, <1>4

\* A wait is answered or parked, never both.
LEMMA WaitedKnown ==
  ASSUME NEW x \in Api!ApiStates, Reasoned(x), NEW y \in Api!Waited(x)
  PROVE  OneMore(x, y, "wait") /\ Reasoned(y)
  <1>1. /\ "wait" \in Api!Calls /\ "invalid_state" \in Api!Errors
        /\ x.extern_wait_error \in Api!Errors /\ x.wait_handler \in BOOLEAN
    BY DEF Api!Calls, Api!Errors, Api!ApiStates
  <1>2. SameKnown(x, x)
    BY DEF SameKnown
  <1>3. \/ y = Api!Answer(x, "wait", "invalid_state")
        \/ y = Api!Answer(x, "wait", x.extern_wait_error)
        \/ y = [x EXCEPT !.wait_handler = TRUE] /\ ~x.wait_handler
    BY Zenon DEF Api!Waited
  <1>4. CASE y = [x EXCEPT !.wait_handler = TRUE] /\ ~x.wait_handler
    <2>1. /\ y \in Api!ApiStates /\ y.posted = x.posted /\ y.wait_handler = TRUE
          /\ y.stop_handler = x.stop_handler /\ y.run = x.run
          /\ y.extern_state = x.extern_state
          /\ y.extern_wait_error = x.extern_wait_error
      BY <1>4 DEF Api!ApiStates
    <2>2. OneMore(x, y, "wait")
      <3> SUFFICES ASSUME NEW c \in Api!Calls
                   PROVE  Known(y, c) = Known(x, c)
                                        + (IF c = "wait" THEN 1 ELSE 0)
        BY DEF OneMore
      <3>1. CASE c = "wait"
        <4>1. Owed(y, "wait") = 1
          BY <2>1, OwedIs, Zenon
        <4>2. Owed(x, "wait") = 0
          BY <1>4, OwedIs, Zenon
        <4>3. Known(y, "wait") = Known(x, "wait") + 1
          BY <1>1, <2>1, <4>1, <4>2, OwedKnown
        <4> QED
          BY <3>1, <4>3
      <3>2. CASE c # "wait"
        <4>1. Owed(y, c) = Owed(x, c)
          BY <2>1, <3>2, Zenon DEF Owed
        <4>2. Known(y, c) = Known(x, c) /\ Known(x, c) \in Nat
          BY <2>1, <4>1, OwedKnown, KnownType
        <4> QED
          BY <3>2, <4>2
      <3> QED
        BY <3>1, <3>2
    <2>3. Reasoned(y)
      BY <2>1 DEF Reasoned
    <2> QED
      BY <2>2, <2>3
  <1> QED
    BY <1>1, <1>2, <1>3, <1>4, AnswerOneMore

\* A stop is answered or parked, never both, and aborts a parked wait.
LEMMA StoppedKnown ==
  ASSUME NEW x \in Api!ApiStates, Reasoned(x),
         x.extern_state \in {"ready", "work"} => x.stop_handler = FALSE,
         NEW y \in Api!Stopped(x)
  PROVE  OneMore(x, y, "stop") /\ Reasoned(y)
  <1> DEFINE t == Api!Tell(x, "operation_aborted")
             q == [t EXCEPT !.extern_state = "stop"]
             ys == IF q.run = "work" THEN Api!Endings(q, "ok") ELSE {q}
             seen(z) == IF z.run = "stopped"
                        THEN Api!Answer([z EXCEPT !.extern_state = "stopped"],
                                        "stop", "ok")
                        ELSE [z EXCEPT !.stop_handler = TRUE]
  <1>1. /\ "stop" \in Api!Calls
        /\ {"invalid_state", "ok", "operation_aborted"} \subseteq Api!Errors
    BY DEF Api!Calls, Api!Errors
  <1>2. CASE x.extern_state \in {"stop", "stopped"}
    <2>1. y = Api!Answer(x, "stop", "invalid_state")
      BY <1>2, Zenon DEF Api!Stopped
    <2>2. SameKnown(x, x)
      BY DEF SameKnown
    <2> QED
      BY <1>1, <2>1, <2>2, AnswerOneMore
  <1>3. CASE x.extern_state \notin {"stop", "stopped"}
    <2>1. x.stop_handler = FALSE
      BY <1>3 DEF Api!ApiStates
    <2>2. PICK z \in ys : y = seen(z)
      BY <1>3, Zenon DEF Api!Stopped
    <2>3. t \in Api!ApiStates /\ SameKnown(x, t) /\ t.stop_handler = FALSE
      BY <1>1, <2>1, TellKnown
    <2> HIDE DEF t
    <2>4. /\ q \in Api!ApiStates /\ q.posted = t.posted
          /\ q.wait_handler = t.wait_handler /\ q.stop_handler = t.stop_handler
          /\ q.extern_state = "stop"
      BY <2>3 DEF Api!ApiStates
    <2> HIDE DEF q
    <2>5. SameKnown(x, q)
      <3>1. \A c \in Api!Calls : Owed(q, c) = Owed(t, c)
        BY <2>4, Zenon DEF Owed
      <3> QED
        BY <2>3, <2>4, <3>1, OwedKnown DEF SameKnown
    <2>6. /\ z \in Api!ApiStates /\ SameKnown(x, z) /\ z.stop_handler = FALSE
          /\ Reasoned(z)
      <3>1. CASE z \in Api!Endings(q, "ok")
        <4>1. /\ z \in Api!ApiStates /\ SameKnown(q, z) /\ Reasoned(z)
              /\ z.stop_handler = FALSE
          BY <1>1, <2>3, <2>4, <3>1, EndingsKnown
        <4> QED
          BY <2>5, <4>1 DEF SameKnown
      <3>2. CASE z = q
        BY <2>3, <2>4, <2>5, <3>2 DEF Reasoned
      <3> QED
        BY <2>2, <3>1, <3>2
    <2> HIDE DEF ys
    <2>7. CASE z.run = "stopped"
      <3> DEFINE e == [z EXCEPT !.extern_state = "stopped"]
      <3>1. /\ e \in Api!ApiStates /\ e.posted = z.posted
            /\ e.wait_handler = z.wait_handler /\ e.stop_handler = z.stop_handler
            /\ e.extern_state = "stopped"
        BY <2>6 DEF Api!ApiStates
      <3>2. y = Api!Answer(e, "stop", "ok")
        BY <2>2, <2>7
      <3> HIDE DEF e
      <3>3. \A c \in Api!Calls : Owed(e, c) = Owed(z, c)
        BY <3>1, Zenon DEF Owed
      <3>4. SameKnown(x, e) /\ Reasoned(e)
        BY <2>6, <3>1, <3>3, OwedKnown DEF SameKnown, Reasoned
      <3> QED
        BY <1>1, <3>1, <3>2, <3>4, AnswerOneMore
    <2>8. CASE z.run # "stopped"
      <3>1. y = [z EXCEPT !.stop_handler = TRUE]
        BY <2>2, <2>8
      <3>2. /\ y \in Api!ApiStates /\ y.posted = z.posted
            /\ y.stop_handler = TRUE /\ y.wait_handler = z.wait_handler
            /\ y.run = z.run /\ y.extern_state = z.extern_state
            /\ y.extern_wait_error = z.extern_wait_error
        BY <2>6, <3>1 DEF Api!ApiStates
      <3>3. OneMore(x, y, "stop")
        <4> SUFFICES ASSUME NEW c \in Api!Calls
                     PROVE  Known(y, c) = Known(x, c)
                                          + (IF c = "stop" THEN 1 ELSE 0)
          BY DEF OneMore
        <4>1. Known(z, c) = Known(x, c) /\ Known(x, c) \in Nat
          BY <2>6, KnownType DEF SameKnown
        <4>2. CASE c = "stop"
          <5>1. Owed(y, "stop") = 1
            BY <3>2, OwedIs, Zenon
          <5>2. Owed(z, "stop") = 0
            BY <2>6, OwedIs, Zenon
          <5>3. Known(y, "stop") = Known(z, "stop") + 1
            BY <1>1, <2>6, <3>2, <5>1, <5>2, OwedKnown
          <5> QED
            BY <4>1, <4>2, <5>3
        <4>3. CASE c # "stop"
          <5>1. Owed(y, c) = Owed(z, c)
            BY <3>2, <4>3, Zenon DEF Owed
          <5>2. Known(y, c) = Known(z, c)
            BY <2>6, <3>2, <5>1, OwedKnown
          <5> QED
            BY <4>1, <4>3, <5>2
        <4> QED
          BY <4>2, <4>3
      <3>4. Reasoned(y)
        BY <2>6, <3>2 DEF Reasoned
      <3> QED
        BY <3>3, <3>4
    <2> QED
      BY <2>7, <2>8
  <1> QED
    BY <1>2, <1>3

\* What a session does by itself answers only what is parked.
LEMMA EndedKnown ==
  ASSUME NEW x \in Api!ApiStates, Reasoned(x), NEW y \in Api!Ended(x)
  PROVE  SameKnown(x, y) /\ Reasoned(y)
  <1>1. CASE x.run = "work"
    <2>1. PICK reason \in Reasons : y \in Api!Endings(x, reason)
      BY <1>1, Zenon DEF Api!Ended, Reasons
    <2>2. reason \in Api!Errors /\ reason # "ok"
      BY DEF Reasons, Api!Errors
    <2> QED
      BY <2>1, <2>2, EndingsKnown
  <1>2. CASE x.run = "ending"
    <2>1. y = Api!Finish(x)
      BY <1>2 DEF Api!Ended
    <2>2. /\ SameKnown(x, y) /\ y.extern_wait_error = x.extern_wait_error
          /\ y.extern_state = IF x.extern_state = "stop" THEN "stopped"
                              ELSE x.extern_state
      BY <2>1, FinishKnown
    <2>3. Reasoned(y)
      BY <1>2, <2>2 DEF Reasoned
    <2> QED
      BY <2>2, <2>3
  <1>3. CASE x.run \notin {"work", "ending"}
    BY <1>3 DEF Api!Ended
  <1> QED
    BY <1>1, <1>2, <1>3

-----------------------------------------------------------------------------
(***************************************************************************)
(* The refinement.                                                          *)
(***************************************************************************)

\* What the session knows of the calls is what was called.
CallsKnown == \A c \in Calls : calls[c] = Known(View(s), c)

\* The invariant IInv, together with what the user can rely on.
ApiInv == IInv /\ Reasoned(View(s)) /\ CallsKnown

\* The refinement mapping.
view == View(s)

\* A session that is running is ready for its handlers.
LEMMA InvReady ==
  ASSUME IInv, Reasoned(View(s))
  PROVE  /\ Shaped(s) /\ View(s) \in Api!ApiStates
         /\ s.intern_state \in {"work", "shutdown"} => Ready(s)
         /\ s.extern_state = "ready" => s.intern_state = "work" /\ s.ops = {}
         /\ s.extern_state \in {"ready", "work"} => s.stop_handler = FALSE
         /\ s.extern_state \in {"ready", "stopped"} =>
              s.wait_handler = FALSE /\ s.stop_handler = FALSE
  <1>1. s \in SessionStates /\ s.wait_handler \in BOOLEAN /\ s.stop_handler \in BOOLEAN
    BY Members DEF IInv, SessionInv, Core
  <1>2. Shaped(s) /\ View(s) \in Api!ApiStates
    BY <1>1, StatesShaped, ViewType
  <1>3. WaitParked(s) /\ UserMatches(s)
    BY DEF IInv, SessionInv
  <1>4. View(s).run # "work" /\ s.extern_state = "work" =>
          s.extern_wait_error # "ok"
    BY RunView DEF Reasoned
  <1>5. s.intern_state = "shutdown" => Settled(s)
    BY <1>3, <1>4, RunView DEF Settled, WaitParked
  <1> QED
    BY <1>1, <1>2, <1>3, <1>5 DEF Ready, WaitParked, UserMatches

\* Every result asio may deliver.
LEMMA ResultErrors ==
  /\ \A res \in ReadResults : res.error \in {"ok", "eof", "error", "aborted"}
  /\ \A res \in WriteResults : res.error \in {"ok", "eof", "error", "aborted"}
  /\ TimerResults \subseteq {"ok", "error", "aborted"}
  BY DEF ReadResults, WriteResults, TimerResults

\* Every step of the session is a step of the interface, or none.
LEMMA StepView ==
  ASSUME IInv, Reasoned(View(s)), Next
  PROVE  \/ AsyncStart /\ View(s') \in Api!Started(View(s))
         \/ AsyncWait /\ View(s') \in Api!Waited(View(s))
         \/ AsyncStop /\ View(s') \in Api!Stopped(View(s))
         \/ /\ Shown(s, s') /\ s.extern_state # "ready"
            /\ UNCHANGED calls
         \/ Reset /\ View(s') = Api!Fresh
  <1>1. /\ Shaped(s) /\ View(s) \in Api!ApiStates
        /\ s.intern_state \in {"work", "shutdown"} => Ready(s)
        /\ s.extern_state = "ready" => s.intern_state = "work" /\ s.ops = {}
        /\ s.extern_state \in {"ready", "stopped"} =>
             s.wait_handler = FALSE /\ s.stop_handler = FALSE
    BY InvReady
  <1>2. CASE AsyncStart
    BY <1>1, <1>2, StartView DEF AsyncStart
  <1>3. CASE AsyncWait
    BY <1>1, <1>3, WaitView DEF AsyncWait
  <1>4. CASE AsyncStop
    BY <1>1, <1>4, StopView DEF AsyncStop
  <1>5. CASE HandleReadAtWork
    BY <1>1, <1>5, TransferShown, ResultErrors DEF HandleReadAtWork, Receive
  <1>6. CASE HandleReadAtShutdown
    BY <1>1, <1>6, TransferShown, ResultErrors DEF HandleReadAtShutdown, Receive
  <1>7. CASE HandleReadAtStop
    BY <1>1, <1>7, StopShown DEF HandleReadAtStop, Receive
  <1>8. CASE HandleWriteAtWork
    BY <1>1, <1>8, TransferShown, ResultErrors DEF HandleWriteAtWork, Send
  <1>9. CASE HandleWriteAtShutdown
    BY <1>1, <1>9, TransferShown, ResultErrors DEF HandleWriteAtShutdown, Send
  <1>10. CASE HandleWriteAtStop
    BY <1>1, <1>10, StopShown DEF HandleWriteAtStop, Send
  <1>11. CASE HandleTimerAtWork
    BY <1>1, <1>11, TimerShown, ResultErrors DEF HandleTimerAtWork
  <1>12. CASE HandleTimerAtStop
    BY <1>1, <1>12, StopShown DEF HandleTimerAtStop
  <1>13. CASE Reset
    <2> DEFINE q == [reset(s) EXCEPT !.open = TRUE]
    <2>1. s.wait_handler = FALSE /\ s.stop_handler = FALSE /\ s' = q
      BY <1>1, <1>13 DEF Reset
    <2>2. /\ q.extern_state = "ready" /\ q.intern_state = "work"
          /\ q.extern_wait_error = "ok" /\ q.posted = [c \in Calls |-> <<>>]
      BY DEF reset, session
    <2>3. q.wait_handler = FALSE /\ q.stop_handler = FALSE
      BY <2>1 DEF reset, session
    <2> HIDE DEF q
    <2>4. Run(q.intern_state) = "work"
      BY <2>2 DEF Run
    <2>5. View(q) = Api!Fresh
      BY <2>2, <2>3, <2>4, Zenon DEF View, Api!Fresh, Calls, Api!Calls
    <2> QED
      BY <1>13, <2>1, <2>5
  <1> QED
    BY <1>2, <1>3, <1>4, <1>5, <1>6, <1>7, <1>8, <1>9, <1>10, <1>11, <1>12,
       <1>13 DEF Next

\* A fresh session knows of no call.
LEMMA FreshKnown ==
  /\ Reasoned(Api!Fresh)
  /\ \A c \in Calls : Known(Api!Fresh, c) = 0
  <1>1. Api!Fresh.run = "work" /\ Api!Fresh.posted = [c \in Calls |-> <<>>]
    BY DEF Api!Fresh, Calls, Api!Calls
  <1>2. Api!Fresh.wait_handler = FALSE /\ Api!Fresh.stop_handler = FALSE
    BY DEF Api!Fresh
  <1>3. ASSUME NEW c \in Calls PROVE Known(Api!Fresh, c) = 0
    <2>1. Owed(Api!Fresh, c) = 0
      BY <1>2, Zenon DEF Owed
    <2>2. Len(Api!Fresh.posted[c]) = 0
      BY <1>1
    <2> QED
      BY <2>1, <2>2 DEF Known
  <1> QED
    BY <1>1, <1>3 DEF Reasoned

\* The user sees a fresh session at first.
LEMMA InitView == Init => View(s) = Api!Fresh
  <1> SUFFICES ASSUME Init PROVE View(s) = Api!Fresh
    OBVIOUS
  <1>1. /\ s.extern_state = "ready" /\ s.intern_state = "work"
        /\ s.extern_wait_error = "ok" /\ s.posted = [c \in Calls |-> <<>>]
    BY DEF Init, session
  <1>2. s.wait_handler = FALSE /\ s.stop_handler = FALSE
    BY DEF Init, session
  <1>3. Run(s.intern_state) = "work"
    BY <1>1 DEF Run
  <1> QED
    BY <1>1, <1>2, <1>3, Zenon DEF View, Api!Fresh, Calls, Api!Calls

\* The invariant holds at first.
LEMMA InitApiInv == Init => ApiInv
  <1> SUFFICES ASSUME Init PROVE ApiInv
    OBVIOUS
  <1>1. \A c \in Calls : calls[c] = 0
    BY DEF Init
  <1> QED
    BY <1>1, InitInv, InitView, FreshKnown DEF ApiInv, CallsKnown

\* Every step keeps the invariant.
LEMMA NextApiInv == ApiInv /\ [Next]_vars => ApiInv'
  <1> SUFFICES ASSUME ApiInv, [Next]_vars PROVE ApiInv'
    OBVIOUS
  <1>1. IInv'
    BY NextInv DEF ApiInv
  <1>2. CASE UNCHANGED vars
    BY <1>1, <1>2 DEF vars, ApiInv, CallsKnown
  <1>3. CASE Next
    <2> DEFINE x == View(s)
               y == View(s')
    <2>1. /\ x \in Api!ApiStates /\ Reasoned(x) /\ CallsKnown
          /\ calls \in [Calls -> Nat] /\ Calls = Api!Calls
          /\ x.extern_state = "ready" => x.run = "work"
          /\ x.extern_state \in {"ready", "work"} => x.stop_handler = FALSE
      BY InvReady, RunView DEF ApiInv, IInv, Calls, Api!Calls
    <2>2. \/ AsyncStart /\ y \in Api!Started(x)
          \/ AsyncWait /\ y \in Api!Waited(x)
          \/ AsyncStop /\ y \in Api!Stopped(x)
          \/ Shown(s, s') /\ s.extern_state # "ready" /\ UNCHANGED calls
          \/ Reset /\ y = Api!Fresh
      BY <1>3, StepView DEF ApiInv
    <2>3. Shown(s, s') => y = x \/ y \in Api!Ended(x)
      BY DEF Shown
    <2> HIDE DEF x, y
    <2>4. ASSUME NEW c \in Calls, Call(c), OneMore(x, y, c), Reasoned(y)
          PROVE  Reasoned(y) /\ \A b \in Calls : calls'[b] = Known(y, b)
      <3>1. calls' = [calls EXCEPT ![c] = @ + 1]
        BY <2>4 DEF Call
      <3>2. ASSUME NEW b \in Calls PROVE calls'[b] = Known(y, b)
        <4>1. calls[b] = Known(x, b) /\ calls[b] \in Nat
          BY <2>1, <3>2 DEF CallsKnown, x
        <4>2. calls'[b] = calls[b] + (IF b = c THEN 1 ELSE 0)
          BY <2>1, <3>1, <4>1
        <4>3. Known(y, b) = Known(x, b) + (IF b = c THEN 1 ELSE 0)
          BY <2>1, <2>4, <3>2 DEF OneMore
        <4> QED
          BY <4>1, <4>2, <4>3
      <3> QED
        BY <2>4, <3>2
    <2>5. Reasoned(y) /\ \A b \in Calls : calls'[b] = Known(y, b)
      <3>1. CASE AsyncStart /\ y \in Api!Started(x)
        <4>1. Call("start") /\ OneMore(x, y, "start") /\ Reasoned(y)
          BY <2>1, <3>1, StartedKnown DEF AsyncStart
        <4> QED
          BY <2>4, <4>1 DEF Calls
      <3>2. CASE AsyncWait /\ y \in Api!Waited(x)
        <4>1. Call("wait") /\ OneMore(x, y, "wait") /\ Reasoned(y)
          BY <2>1, <3>2, WaitedKnown DEF AsyncWait
        <4> QED
          BY <2>4, <4>1 DEF Calls
      <3>3. CASE AsyncStop /\ y \in Api!Stopped(x)
        <4>1. Call("stop") /\ OneMore(x, y, "stop") /\ Reasoned(y)
          BY <2>1, <3>3, StoppedKnown DEF AsyncStop
        <4> QED
          BY <2>4, <4>1 DEF Calls
      <3>4. CASE Shown(s, s') /\ UNCHANGED calls
        <4>1. SameKnown(x, y) /\ Reasoned(y)
          <5>1. SameKnown(x, x)
            BY DEF SameKnown
          <5> QED
            BY <2>1, <2>3, <3>4, <5>1, EndedKnown
        <4>2. \A b \in Calls : calls[b] = Known(x, b)
          BY <2>1 DEF CallsKnown, x
        <4> QED
          BY <2>1, <3>4, <4>1, <4>2 DEF SameKnown
      <3>5. CASE Reset /\ y = Api!Fresh
        <4>1. \A b \in Calls : calls'[b] = 0
          BY <3>5 DEF Reset
        <4> QED
          BY <3>5, <4>1, FreshKnown
      <3> QED
        BY <2>2, <3>1, <3>2, <3>3, <3>4, <3>5
    <2> QED
      BY <1>1, <2>5 DEF ApiInv, CallsKnown, y
  <1> QED
    BY <1>2, <1>3

\* What the user can rely on holds throughout.
THEOREM ApiInvariance == Spec => []ApiInv
  BY InitApiInv, NextApiInv, PTL DEF Spec

\* Session implements SessionApi: whatever the socket and the timer do, every
\* call is answered as the interface says, and every accepted wait is told the
\* first reason.
THEOREM SessionImplementsApi == Spec => ImplementsApi
  <1>1. Init => Api!Init
    BY InitView DEF Api!Init, View
  <1>2. ApiInv /\ [Next]_vars => [Api!Next]_view
    <2> SUFFICES ASSUME ApiInv, [Next]_vars PROVE [Api!Next]_view
      OBVIOUS
    <2>1. CASE UNCHANGED vars
      BY <2>1 DEF vars, view, View
    <2>2. CASE Next
      <3>1. \/ View(s') \in Api!Started(View(s))
            \/ View(s') \in Api!Waited(View(s))
            \/ View(s') \in Api!Stopped(View(s))
            \/ Shown(s, s') /\ View(s).extern_state # "ready"
            \/ Reset /\ View(s') = Api!Fresh
        BY <2>2, StepView, RunView DEF ApiInv
      <3>2. Reset => View(s).extern_state \in {"ready", "stopped"}
        BY RunView DEF Reset
      <3> QED
        BY <3>1, <3>2, Zenon DEF Shown, Api!Next, Api!Start, Api!Wait, Api!Stop,
           Api!End, Api!Reset, view, View
    <2> QED
      BY <2>1, <2>2
  <1> QED
    BY <1>1, <1>2, ApiInvariance, PTL DEF Spec, ImplementsApi, Api!Spec, view, View

\* No handler of the user is lost or called twice.
THEOREM HandlersAccounted == Spec => []NoHandlerLost
  <1>1. ApiInv => NoHandlerLost
    <2> SUFFICES ASSUME ApiInv, NEW c \in Calls
                 PROVE  LET parked == [start |-> FALSE, wait |-> s.wait_handler,
                                       stop |-> s.stop_handler]
                        IN  calls[c] = Len(s.posted[c])
                                       + (IF parked[c] THEN 1 ELSE 0)
      BY Zenon DEF NoHandlerLost
    <2> DEFINE parked == [start |-> FALSE, wait |-> s.wait_handler,
                          stop |-> s.stop_handler]
    <2>1. calls[c] = Len(s.posted[c]) + Owed(View(s), c)
      BY DEF ApiInv, CallsKnown, Known, View
    <2>2. (IF parked[c] THEN 1 ELSE 0) = Owed(View(s), c)
      <3>1. View(s).wait_handler = s.wait_handler /\ View(s).stop_handler = s.stop_handler
        BY RunView
      <3>2. CASE c = "start"
        BY <3>2, OwedIs
      <3>3. CASE c = "wait"
        BY <3>1, <3>3, OwedIs
      <3>4. CASE c = "stop"
        BY <3>1, <3>4, OwedIs
      <3> QED
        BY <3>2, <3>3, <3>4 DEF Calls
    <2> QED
      BY <2>1, <2>2, Zenon
  <1> QED
    BY <1>1, ApiInvariance, PTL

-----------------------------------------------------------------------------
(***************************************************************************)
(* The watchdog.                                                            *)
(***************************************************************************)

\* An expiry that is set is waited for, and neither it nor a wait that is to be
\* believed has been overtaken by a transfer.
TimerSound(r) ==
  /\ r.timer_turned => "timer" \in r.ops /\ ~r.expiry_stale
  /\ "timer" \in r.ops /\ ~r.timer_wait_cancelled => ~r.wait_stale

\* A wait is outstanding and the next expiry is set.
Armed(r) == "timer" \in r.ops /\ r.timer_turned

\* The session is past guarding.
Over(r) == r.intern_state \in {"stop", "stopped"}

\* What a handler that dealt with the timer leaves behind.
Guarded(r) == Over(r) \/ (TimerSound(r) /\ (Timeout => Armed(r)))

\* What one that had no need to leaves behind.
StillGuarded(q, r) == Over(q) \/ (TimerSound(q) /\ (Armed(r) => Armed(q)))

\* The timer, and why the session was stopped, are left alone.
SameTimer(q, r) ==
  /\ Shaped(q) /\ q.intern_state = r.intern_state
  /\ q.timer_state = r.timer_state /\ q.timer_turned = r.timer_turned
  /\ q.timer_wait_cancelled = r.timer_wait_cancelled
  /\ q.expiry_stale = r.expiry_stale /\ q.wait_stale = r.wait_stale
  /\ "timer" \in q.ops <=> "timer" \in r.ops
  /\ q.stop_reason = r.stop_reason

\* The reason a session was stopped for is an old one or not the inactivity.
Caused(q, r) ==
  q.stop_reason # "inactivity_timeout" \/ q.stop_reason = r.stop_reason

\* The updates that leave the timer alone.
LEMMA TimerAlone ==
  ASSUME NEW r, Shaped(r), NEW v
  PROVE  /\ SameTimer(r, r)
         /\ SameTimer(start_socket_read(r, v), r)
         /\ SameTimer(start_socket_write(r, v), r)
         /\ SameTimer(EndOutput(r), r) /\ SameTimer(ResetBuffer(r), r)
         /\ SameTimer(StopReading(r), r) /\ SameTimer(StopWriting(r), r)
         /\ SameTimer(Consume(r, v), r) /\ SameTimer(Commit(r, v), r)
  <1>1. SameTimer(r, r)
    BY DEF SameTimer
  <1>2. SameTimer(start_socket_read(r, v), r)
    BY Fields DEF SameTimer, Shaped, start_socket_read
  <1>3. SameTimer(start_socket_write(r, v), r)
    BY Fields DEF SameTimer, Shaped, start_socket_write
  <1>4. SameTimer(EndOutput(r), r) /\ SameTimer(ResetBuffer(r), r)
    BY Fields DEF SameTimer, Shaped, EndOutput, ResetBuffer, shutdown_socket
  <1>5. SameTimer(StopReading(r), r) /\ SameTimer(StopWriting(r), r)
    BY Fields DEF SameTimer, Shaped, StopReading, StopWriting
  <1>6. SameTimer(Consume(r, v), r) /\ SameTimer(Commit(r, v), r)
    BY Fields DEF SameTimer, Shaped, Consume, Commit
  <1> QED
    BY <1>1, <1>2, <1>3, <1>4, <1>5, <1>6

\* They add up.
LEMMA SameTimerTwice ==
  ASSUME NEW r, NEW p, NEW q, SameTimer(p, r), SameTimer(q, p)
  PROVE  SameTimer(q, r)
  BY DEF SameTimer

\* Reading and writing more leave the timer alone.
LEMMA MoreTimerAlone ==
  ASSUME NEW r, Shaped(r), NEW max_size
  PROVE  SameTimer(ReadMore(r, max_size), r) /\ SameTimer(WriteMore(r), r)
  BY TimerAlone, Zenon DEF ReadMore, WriteMore

\* A stop ends the guard, and tells why.
LEMMA StopOver ==
  ASSUME NEW r, Shaped(r), NEW error, NEW f
  PROVE  /\ Over(start_stop(r, error, f))
         /\ start_stop(r, error, f).stop_reason = error
         /\ r.intern_state = "stop" => Over(continue_stop(r))
         /\ continue_stop(r).stop_reason = r.stop_reason
  <1>1. ASSUME NEW p, Shaped(p)
        PROVE  /\ continue_stop(p).stop_reason = p.stop_reason
               /\ p.intern_state = "stop" => Over(continue_stop(p))
    <2> DEFINE t == [p EXCEPT !.intern_state = "stopped",
                              !.extern_state = "stopped"]
               u == [p EXCEPT !.intern_state = "stopped"]
    <2>1. /\ Shaped(t) /\ t.intern_state = "stopped"
          /\ t.stop_reason = p.stop_reason
          /\ u.intern_state = "stopped" /\ u.stop_reason = p.stop_reason
      BY <1>1, Fields DEF Shaped
    <2> HIDE DEF t, u
    <2> DEFINE e == complete_extern_stop(t, "ok")
    <2>2. e.intern_state = t.intern_state /\ e.stop_reason = t.stop_reason
      <3>1. ASSUME NEW v
            PROVE  LET w == [t EXCEPT !.stop_handler = FALSE, !.posted = v]
                   IN  /\ w.intern_state = t.intern_state
                       /\ w.stop_reason = t.stop_reason
        BY <2>1, Fields DEF Shaped
      <3> QED
        BY <3>1, Zenon DEF complete_extern_stop
    <2> HIDE DEF e
    <2>3. continue_stop(p) = p \/ continue_stop(p) = e \/ continue_stop(p) = u
      BY Zenon DEF continue_stop, t, u, e
    <2> QED
      BY <2>1, <2>2, <2>3 DEF Over
  <1> DEFINE closed == close_socket([r EXCEPT !.intern_state = "stop",
                                              !.stop_reason = error])
             c == cancel_timer_wait(closed, "stop_cancel" \in f)
             idle == StopIdle(c)
             why == FirstError(FirstError(error,
                                 IF "close" \in f THEN "error" ELSE "ok"),
                      IF CancelFails(closed, "stop_cancel" \in f)
                      THEN "error" ELSE "ok")
             p == IF idle.extern_state = "work"
                  THEN complete_extern_wait(idle, why) ELSE idle
  <1>2. start_stop(r, error, f) = continue_stop(p)
    BY Zenon DEF start_stop
  <1>3. /\ Shaped(closed) /\ closed.intern_state = "stop"
        /\ closed.stop_reason = error
    BY Fields DEF Shaped, close_socket
  <1> HIDE DEF closed, why
  <1>4. Shaped(c) /\ c.intern_state = "stop" /\ c.stop_reason = error
    BY <1>3, Fields DEF Shaped, cancel_timer_wait
  <1> HIDE DEF c
  <1>5. Shaped(idle) /\ idle.intern_state = "stop" /\ idle.stop_reason = error
    BY <1>4, Fields DEF Shaped, StopIdle
  <1> HIDE DEF idle
  <1>6. Shaped(p) /\ p.intern_state = "stop" /\ p.stop_reason = error
    <2> DEFINE q == complete_extern_wait(idle, why)
    <2>1. Shaped(q) /\ q.intern_state = "stop"
      BY <1>5, WaitTold
    <2>2. q.stop_reason = error
      BY <1>5, Fields DEF Shaped, complete_extern_wait
    <2> HIDE DEF q
    <2> QED
      BY <1>5, <2>1, <2>2 DEF q
  <1> HIDE DEF p
  <1> QED
    BY <1>1, <1>2, <1>6

\* There is a block wherever there are bytes to transfer.
LEMMA BlocksForBytes ==
  ASSUME NEW b \in Buf!Buffers(BufferSize), NEW max_size \in Nat \ {0}
  PROVE  /\ b.nonfilled_size > 0 => Buf!prepared(b, max_size) # <<>>
         /\ b.filled_size > 0 => Buf!data(b, max_size) # <<>>
  <1>1. /\ b.size = BufferSize /\ b.nonfilled_start \in 0 .. BufferSize - 1
        /\ b.nonfilled_size \in 0 .. BufferSize
        /\ b.filled_start \in 0 .. BufferSize - 1
        /\ b.filled_size \in 0 .. BufferSize
    BY BufferFields, ConfigAssumption
  <1>2. ASSUME NEW start \in 0 .. BufferSize - 1, NEW n \in 1 .. BufferSize
        PROVE  Buf!buffers_2(BufferSize, start, n) # <<>>
    <2>1. Buf!BytesIn(Buf!buffers_2(BufferSize, start, n)) = n
      BY BlocksOfSize, ConfigAssumption
    <2>2. Buf!BytesIn(<<>>) = 0
      BY DEF Buf!BytesIn
    <2> QED
      BY <2>1, <2>2
  <1>3. ASSUME NEW n \in 1 .. BufferSize
        PROVE  Buf!Least(n, max_size) \in 1 .. BufferSize
    BY ConfigAssumption DEF Buf!Least
  <1>4. ASSUME b.nonfilled_size > 0 PROVE Buf!prepared(b, max_size) # <<>>
    <2>1. b.nonfilled_size \in 1 .. BufferSize
      BY <1>1, <1>4
    <2> QED
      BY <1>1, <1>2, <1>3, <2>1 DEF Buf!prepared
  <1>5. ASSUME b.filled_size > 0 PROVE Buf!data(b, max_size) # <<>>
    <2>1. b.filled_size \in 1 .. BufferSize
      BY <1>1, <1>5
    <2> QED
      BY <1>1, <1>2, <1>3, <2>1 DEF Buf!data
  <1> QED
    BY <1>4, <1>5

\* What ReadMore and WriteMore do to the activities.
LEMMA MoreStates ==
  ASSUME NEW r, Active(r), NEW max_size \in Nat \ {0}
  PROVE  /\ ReadMore(r, max_size).write_state = r.write_state
         /\ ReadMore(r, max_size).buffer = r.buffer
         /\ ReadMore(r, max_size).read_state =
              IF r.read_state = "wait" /\ r.buffer.nonfilled_size > 0
              THEN "in_progress" ELSE r.read_state
         /\ WriteMore(r).read_state = r.read_state
         /\ WriteMore(r).write_state =
              IF r.write_state = "wait" /\ r.buffer.filled_size > 0
              THEN "in_progress" ELSE r.write_state
  <1> DEFINE b == r.buffer
             pb == Buf!prepared(b, max_size)
             db == Buf!data(b, MaxTransfer)
  <1>1. /\ r \in SessionStates /\ Shaped(r) /\ b \in Buf!Buffers(BufferSize)
        /\ b.nonfilled_size \in Nat /\ b.filled_size \in Nat
        /\ b.size = BufferSize
        /\ b.nonfilled_start \in 0 .. BufferSize - 1
        /\ b.filled_start \in 0 .. BufferSize - 1
    BY Members, StatesShaped, BufferFields, ConfigAssumption DEF Active, Core
  <1>2. /\ pb # <<>> <=> b.nonfilled_size > 0
        /\ db # <<>> <=> b.filled_size > 0
    <2>1. b.nonfilled_size = 0 => pb = <<>>
      <3>1. b.nonfilled_size = 0 => Buf!Least(b.nonfilled_size, max_size) = 0
        BY DEF Buf!Least
      <3> QED
        BY <3>1, Zenon DEF Buf!prepared, Buf!buffers_2
    <2>2. b.filled_size = 0 => db = <<>>
      <3>1. b.filled_size = 0 => Buf!Least(b.filled_size, MaxTransfer) = 0
        BY ConfigAssumption DEF Buf!Least
      <3> QED
        BY <3>1, Zenon DEF Buf!data, Buf!buffers_2
    <2>3. /\ b.nonfilled_size > 0 => pb # <<>>
          /\ b.filled_size > 0 => db # <<>>
      BY <1>1, BlocksForBytes, ConfigAssumption
    <2> QED
      BY <1>1, <2>1, <2>2, <2>3
  <1> HIDE DEF pb, db
  <1>3. ASSUME NEW v
        PROVE  /\ start_socket_read(r, v).write_state = r.write_state
               /\ start_socket_read(r, v).buffer = r.buffer
               /\ start_socket_read(r, v).read_state = "in_progress"
               /\ start_socket_write(r, v).read_state = r.read_state
               /\ start_socket_write(r, v).write_state = "in_progress"
    BY <1>1, Fields DEF Shaped, start_socket_read, start_socket_write
  <1>4. /\ ReadMore(r, max_size) = IF r.read_state = "wait" /\ pb # <<>>
                                   THEN start_socket_read(r, pb) ELSE r
        /\ WriteMore(r) = IF r.write_state = "wait" /\ db # <<>>
                          THEN start_socket_write(r, db) ELSE r
    BY Zenon DEF ReadMore, WriteMore, pb, db
  <1> QED
    BY <1>2, <1>3, <1>4

\* continue_timer_wait arms the watchdog of a session with a transfer under way.
LEMMA TimerWaitGuards ==
  ASSUME NEW r, Active(r), Phases(r), TimerSound(r), HasIoActivity(r),
         NEW f
  PROVE  LET q == continue_timer_wait(r, f) IN Guarded(q) /\ Caused(q, r)
  <1> DEFINE t == TurnTimer(r)
             w == start_timer_wait(t)
             x == start_stop(r, "error", f)
             q == continue_timer_wait(r, f)
  <1>1. /\ r \in SessionStates /\ Shaped(r)
        /\ r.timer_state \in {"ready", "in_progress"}
        /\ "timer" \in r.ops <=> r.timer_state = "in_progress"
    BY Members, StatesShaped DEF Active, Core, OpsMatch, Phases
  <1>2. \/ q = r /\ ~Timeout
        \/ q = r /\ r.timer_turned
        \/ q = x
        \/ q = w /\ r.timer_state = "ready"
        \/ q = t /\ r.timer_state # "ready"
    BY Zenon DEF continue_timer_wait
  <1>3. /\ Shaped(t) /\ t.timer_turned = TRUE /\ t.expiry_stale = FALSE
        /\ t.timer_wait_cancelled = TRUE /\ t.ops = r.ops
        /\ t.stop_reason = r.stop_reason /\ t.timer_state = r.timer_state
    BY <1>1, Fields DEF Shaped, TurnTimer
  <1> HIDE DEF t
  <1>4. /\ w.timer_turned = TRUE /\ w.expiry_stale = FALSE /\ w.wait_stale = FALSE
        /\ w.ops = t.ops \cup {"timer"} /\ w.stop_reason = t.stop_reason
    BY <1>3, Fields DEF Shaped, start_timer_wait
  <1> HIDE DEF w
  <1>5. Over(x) /\ x.stop_reason = "error"
    BY <1>1, StopOver
  <1> HIDE DEF x, q
  <1>6. Guarded(q) /\ Caused(q, r)
    <2>1. CASE q = r /\ (~Timeout \/ r.timer_turned)
      BY <2>1 DEF Guarded, Caused, TimerSound, Armed
    <2>2. CASE q = x
      BY <1>5, <2>2 DEF Guarded, Caused
    <2>3. CASE q = w
      BY <1>3, <1>4, <2>3 DEF Guarded, Caused, TimerSound, Armed
    <2>4. CASE q = t /\ r.timer_state # "ready"
      BY <1>1, <1>3, <2>4 DEF Guarded, Caused, TimerSound, Armed
    <2> QED
      BY <1>2, <2>1, <2>2, <2>3, <2>4
  <1> QED
    BY <1>6 DEF q

\* A transfer is under way in every session that goes on working.
LEMMA WorkGuards ==
  ASSUME NEW r, Active(r), Phases(r), r.intern_state = "work", TimerSound(r),
         NEW f
  PROVE  LET q == continue_work(r, f) IN Guarded(q) /\ Caused(q, r)
  <1> DEFINE p == ReadMore(r, MaxTransfer)
             m == WriteMore(p)
             q == continue_timer_wait(m, f)
  <1>1. continue_work(r, f) = q
    BY Zenon DEF continue_work
  <1>2. Shaped(r) /\ MaxTransfer \in Nat \ {0}
    BY StatesShaped, ConfigAssumption DEF Active, Core
  <1>3. Active(p) /\ Phases(p) /\ SameTimer(p, r)
    BY <1>2, ReadMoreActive, MoreTimerAlone
  <1>4. /\ p.write_state = r.write_state /\ p.buffer = r.buffer
        /\ p.read_state = IF r.read_state = "wait" /\ r.buffer.nonfilled_size > 0
                          THEN "in_progress" ELSE r.read_state
    BY <1>2, MoreStates
  <1> HIDE DEF p
  <1>5. Active(m) /\ Phases(m) /\ SameTimer(m, p)
    BY <1>3, WriteMoreActive, MoreTimerAlone DEF SameTimer
  <1>6. /\ m.read_state = p.read_state
        /\ m.write_state = IF p.write_state = "wait" /\ p.buffer.filled_size > 0
                           THEN "in_progress" ELSE p.write_state
    BY <1>2, <1>3, MoreStates
  <1> HIDE DEF m
  <1>7. /\ r.read_state \in {"wait", "in_progress"}
        /\ r.write_state \in {"wait", "in_progress"}
        /\ r.buffer.nonfilled_size > 0 \/ r.buffer.filled_size > 0
    <2>1. /\ r.read_state \in {"wait", "in_progress", "stopped"}
          /\ r.write_state \in {"wait", "in_progress", "stopped"}
          /\ Buf!WellFormed(r.buffer)
      BY Members DEF Active, Core, BufferFits
    <2>2. r.buffer.nonfilled_size > 0 \/ r.buffer.filled_size > 0
      BY <2>1 DEF Buf!WellFormed
    <2> QED
      BY <2>1, <2>2 DEF Phases
  <1>8. HasIoActivity(m)
    BY <1>4, <1>6, <1>7 DEF HasIoActivity
  <1>9. SameTimer(m, r) /\ TimerSound(m) /\ m.stop_reason = r.stop_reason
    BY <1>3, <1>5, SameTimerTwice DEF SameTimer, TimerSound, Armed
  <1>10. Guarded(q) /\ Caused(q, m)
    BY <1>5, <1>8, <1>9, TimerWaitGuards
  <1> HIDE DEF q
  <1>11. Guarded(q) /\ Caused(q, r)
    BY <1>9, <1>10 DEF Caused
  <1> QED
    BY <1>1, <1>11

\* A restart of the timer arms the watchdog.
LEMMA RestartGuards ==
  ASSUME NEW r, NEW p, Active(p), Phases(p), SameTimer(p, r), TimerSound(r),
         HasIoActivity(p), NEW f
  PROVE  LET q == RestartTimer(p, TRUE, f) IN Guarded(q) /\ Caused(q, r)
  <1> DEFINE q == continue_timer_wait(p, f)
  <1>1. RestartTimer(p, TRUE, f) = q
    BY DEF RestartTimer
  <1>2. TimerSound(p) /\ p.stop_reason = r.stop_reason
    BY DEF SameTimer, TimerSound, Armed
  <1>3. Guarded(q) /\ Caused(q, p)
    BY <1>2, TimerWaitGuards
  <1> HIDE DEF q
  <1>4. Guarded(q) /\ Caused(q, r)
    BY <1>2, <1>3 DEF Caused
  <1> QED
    BY <1>1, <1>4

\* continue_shutdown finds a transfer under way or stops the session; without a
\* restart it leaves the timer alone.
LEMMA ShutdownGuards ==
  ASSUME NEW r, Active(r), Phases(r), r.intern_state = "shutdown", TimerSound(r),
         NEW f
  PROVE  /\ LET q == continue_shutdown(r, TRUE, f) IN Guarded(q) /\ Caused(q, r)
         /\ LET q == continue_shutdown(r, FALSE, f)
            IN  (Over(q) \/ SameTimer(q, r)) /\ Caused(q, r)
  <1> DEFINE x == start_stop(r, "error", f)
             w == IF r.write_state = "wait" THEN EndOutput(r) ELSE r
             b == IF w.write_state = "stopped" THEN ResetBuffer(w) ELSE w
             m == ReadMore(b, b.buffer.nonfilled_size)
             n == WriteMore(r)
             o == IF n.write_state # "wait" THEN n
                  ELSE IF "shutdown" \in f THEN [n EXCEPT !.write_state = "stopped"]
                  ELSE EndOutput(n)
             y == start_stop(o, "ok", f)
  <1>1. ASSUME NEW restart
        PROVE  LET q == continue_shutdown(r, restart, f)
               IN  \/ q = x
                   \/ q = RestartTimer(m, restart, f) /\ r.read_state = "wait"
                   \/ q = RestartTimer(w, restart, f)
                      /\ r.read_state = "in_progress"
                   \/ q = y
                   \/ q = RestartTimer(o, restart, f) /\ o.write_state # "stopped"
    BY Zenon DEF continue_shutdown, continue_shutdown_at_read_wait,
       continue_shutdown_at_read_in_progress, continue_shutdown_at_read_stopped
  <1>2. /\ Shaped(r) /\ r.write_state \in {"wait", "in_progress", "stopped"}
    BY StatesShaped, Members DEF Active, Core
  <1>3. /\ Active(w) /\ Phases(w) /\ SameTimer(w, r)
        /\ w.read_state = r.read_state
        /\ w.write_state \in {"in_progress", "stopped"}
    <2>1. CASE r.write_state = "wait"
      BY <1>2, <2>1, EndWritingActive, TimerAlone
    <2>2. CASE r.write_state # "wait"
      BY <1>2, <2>2, TimerAlone
    <2> QED
      BY <2>1, <2>2
  <1> HIDE DEF w
  <1>4. ASSUME r.read_state = "wait"
        PROVE  Active(m) /\ Phases(m) /\ SameTimer(m, r) /\ HasIoActivity(m)
    <2>1. /\ Active(b) /\ Phases(b) /\ SameTimer(b, w) /\ b.read_state = "wait"
          /\ b.write_state = w.write_state
          /\ w.write_state = "stopped" => b.buffer.nonfilled_size = BufferSize
      <3>1. CASE w.write_state = "stopped"
        <4> DEFINE e == ResetBuffer(w)
        <4>1. Active(e) /\ SameUser(e, w) /\ SamePhase(e, w) /\ SameOps(e, w)
          BY <1>3, <1>4, <3>1, ResetBufferActive
        <4>2. SameTimer(e, w)
          BY <1>3, TimerAlone DEF SameTimer
        <4>3. e.buffer.nonfilled_size = BufferSize
          <5>1. Shaped(w) /\ w.buffer \in Buf!Buffers(BufferSize)
            BY <1>3, Members DEF SameTimer, Active, Core
          <5>2. e.buffer = Buf!reset(w.buffer)
            BY <5>1, Fields DEF Shaped, ResetBuffer
          <5> QED
            BY <5>1, <5>2, BufferReset, ConfigAssumption
        <4> HIDE DEF e
        <4>4. b = e
          BY <3>1 DEF e
        <4>5. Phases(e)
          BY <1>3, <4>1, PhasesSame
        <4> QED
          BY <1>3, <1>4, <4>1, <4>2, <4>3, <4>4, <4>5 DEF SameOps
      <3>2. CASE w.write_state # "stopped"
        BY <1>3, <1>4, <3>2, TimerAlone DEF SameTimer
      <3> QED
        BY <3>1, <3>2
    <2> HIDE DEF b
    <2>2. b.buffer.nonfilled_size \in Nat
      BY <2>1, Members, BufferFields, ConfigAssumption DEF Active, Core
    <2>3. Active(m) /\ Phases(m) /\ SameTimer(m, b)
      BY ZenonT(40), <2>1, <2>2, ReadMoreActive, MoreTimerAlone DEF SameTimer
    <2>4. SameTimer(m, r)
      BY <1>3, <2>1, <2>3, SameTimerTwice
    <2>5. HasIoActivity(m)
      <3>1. CASE b.buffer.nonfilled_size = 0
        <4>1. w.write_state = "in_progress" /\ b.write_state = "in_progress"
          BY <1>3, <2>1, <3>1, ConfigAssumption
        <4>2. m = b
          <5>1. b.buffer \in Buf!Buffers(BufferSize)
            BY <2>1, Members DEF Active, Core
          <5>2. Buf!Least(b.buffer.nonfilled_size, b.buffer.nonfilled_size) = 0
            BY <3>1 DEF Buf!Least
          <5>3. Buf!prepared(b.buffer, b.buffer.nonfilled_size) = <<>>
            BY <5>2, Zenon DEF Buf!prepared, Buf!buffers_2
          <5> QED
            BY <5>3, Zenon DEF ReadMore
        <4> QED
          BY <4>1, <4>2 DEF HasIoActivity
      <3>2. CASE b.buffer.nonfilled_size # 0
        <4>1. m.read_state = "in_progress"
          BY <2>1, <2>2, <3>2, MoreStates
        <4> QED
          BY <4>1 DEF HasIoActivity
      <3> QED
        BY <3>1, <3>2
    <2> QED
      BY <2>3, <2>4, <2>5
  <1>5. /\ Active(n) /\ Phases(n) /\ SameTimer(n, r) /\ n.intern_state = "shutdown"
        /\ n.write_state \in {"wait", "in_progress", "stopped"}
    <2>1. Active(n) /\ Phases(n) /\ SameTimer(n, r)
      BY <1>2, WriteMoreActive, MoreTimerAlone
    <2> QED
      BY <2>1, Members DEF Active, Core, SameTimer
  <1> HIDE DEF n
  <1>6. /\ Active(o) /\ Phases(o) /\ SameTimer(o, r)
        /\ o.write_state # "stopped" => HasIoActivity(o)
    <2>1. Shaped(n)
      BY <1>5 DEF SameTimer
    <2>2. CASE n.write_state # "wait"
      BY <1>5, <2>2 DEF HasIoActivity
    <2>3. CASE n.write_state = "wait"
      <3>1. ASSUME NEW e \in {EndOutput(n), StopWriting(n)}
            PROVE  /\ Active(e) /\ Phases(e) /\ SameTimer(e, n)
                   /\ e.write_state = "stopped"
        BY <1>5, <2>1, <2>3, EndWritingActive, TimerAlone
      <3>2. o \in {EndOutput(n), StopWriting(n)}
        BY <2>3, Zenon DEF StopWriting
      <3> HIDE DEF o
      <3> QED
        BY <1>5, <3>1, <3>2, SameTimerTwice
    <2> QED
      BY <2>2, <2>3
  <1> HIDE DEF m, o
  <1>7. Over(x) /\ Caused(x, r)
    BY <1>2, StopOver DEF Caused
  <1>8. Over(y) /\ Caused(y, r)
    BY <1>6, StopOver DEF Caused, SameTimer
  <1> HIDE DEF x, y
  <1>9. LET q == continue_shutdown(r, TRUE, f) IN Guarded(q) /\ Caused(q, r)
    <2> DEFINE q == continue_shutdown(r, TRUE, f)
    <2>1. CASE q = RestartTimer(m, TRUE, f) /\ r.read_state = "wait"
      BY <1>4, <2>1, RestartGuards
    <2>2. CASE q = RestartTimer(w, TRUE, f) /\ r.read_state = "in_progress"
      <3>1. HasIoActivity(w)
        BY <1>3, <2>2 DEF HasIoActivity
      <3> QED
        BY <1>3, <2>2, <3>1, RestartGuards
    <2>3. CASE q = RestartTimer(o, TRUE, f) /\ o.write_state # "stopped"
      BY <1>6, <2>3, RestartGuards
    <2>4. CASE q = x \/ q = y
      BY <1>7, <1>8, <2>4 DEF Guarded
    <2> QED
      BY <1>1, <2>1, <2>2, <2>3, <2>4
  <1>10. LET q == continue_shutdown(r, FALSE, f)
         IN  (Over(q) \/ SameTimer(q, r)) /\ Caused(q, r)
    <2> DEFINE q == continue_shutdown(r, FALSE, f)
    <2>1. \A p : RestartTimer(p, FALSE, f) = p
      BY DEF RestartTimer
    <2>2. \/ q = x \/ q = y \/ q = w \/ q = o
          \/ q = m /\ r.read_state = "wait"
      BY <1>1, <2>1, Zenon
    <2> HIDE DEF q
    <2>3. (Over(q) \/ SameTimer(q, r)) /\ Caused(q, r)
      BY <1>3, <1>4, <1>6, <1>7, <1>8, <2>2 DEF Caused, SameTimer
    <2> QED
      BY <2>3 DEF q
  <1> QED
    BY <1>9, <1>10

\* Telling the user, and what he asks for, leave the timer alone.
LEMMA ToldTimer ==
  ASSUME NEW r, Shaped(r), NEW error, NEW call
  PROVE  /\ SameTimer(complete_extern_wait(r, error), r)
         /\ SameTimer(Post(r, call, error), r)
  <1> DEFINE why == FirstError(r.extern_wait_error, error)
             q == [r EXCEPT !.extern_wait_error = why]
  <1>1. SameTimer(q, r) /\ q.wait_handler = r.wait_handler
    BY Fields DEF SameTimer, Shaped
  <1> HIDE DEF q
  <1>2. ASSUME NEW v
        PROVE  SameTimer([q EXCEPT !.wait_handler = FALSE, !.posted = v], q)
    BY <1>1, Fields DEF SameTimer, Shaped
  <1>3. ASSUME NEW v
        PROVE  SameTimer([q EXCEPT !.wait_handler = FALSE, !.posted = v], r)
    BY <1>1, <1>2, SameTimerTwice
  <1>4. SameTimer(complete_extern_wait(r, error), r)
    BY <1>1, <1>3, Zenon DEF complete_extern_wait, q
  <1>5. ASSUME NEW v PROVE SameTimer([r EXCEPT !.posted = v], r)
    BY Fields DEF SameTimer, Shaped
  <1>6. SameTimer(Post(r, call, error), r)
    BY <1>5, Zenon DEF Post
  <1> QED
    BY <1>4, <1>6

\* The shutdown that an end of the stream starts arms the watchdog; the one the
\* user starts leaves the timer alone.
LEMMA StartShutdownGuards ==
  ASSUME NEW r, Active(r), r.timer_state # "stopped", TimerSound(r),
         NEW error \in Errors, NEW f
  PROVE  /\ LET q == start_shutdown(r, error, TRUE, f)
            IN  Guarded(q) /\ Caused(q, r)
         /\ LET q == start_shutdown(r, error, FALSE, f)
            IN  StillGuarded(q, r) /\ Caused(q, r)
  <1> DEFINE p == [r EXCEPT !.intern_state = "shutdown"]
             t == complete_extern_wait(p, error)
             m == IF r.extern_state = "work" THEN t ELSE p
  <1>1. r \in SessionStates /\ Core(r) /\ Shaped(r)
    BY StatesShaped DEF Active, Core
  <1>2. \A restart : start_shutdown(r, error, restart, f)
                     = continue_shutdown(m, restart, f)
    BY Zenon DEF start_shutdown
  <1>3. /\ p \in SessionStates /\ SameUser(p, r) /\ SameOps(p, r)
        /\ SameData(p, r) /\ p.intern_state = "shutdown" /\ p.open = r.open
    BY <1>1, InternFrame, Zenon
  <1>4. /\ Shaped(p) /\ p.timer_turned = r.timer_turned
        /\ p.timer_wait_cancelled = r.timer_wait_cancelled
        /\ p.expiry_stale = r.expiry_stale /\ p.wait_stale = r.wait_stale
        /\ p.ops = r.ops /\ p.stop_reason = r.stop_reason
    BY <1>1, Fields DEF Shaped
  <1> HIDE DEF p
  <1>5. /\ t \in SessionStates /\ SamePhase(t, p) /\ SameOps(t, p)
        /\ SameData(t, p) /\ t.extern_state = p.extern_state
        /\ t.stop_handler = p.stop_handler /\ ~t.wait_handler
    BY <1>3, CompleteWaitFrame, Zenon
  <1>6. SameTimer(t, p)
    BY <1>4, ToldTimer
  <1> HIDE DEF t
  <1>7. /\ m \in SessionStates /\ SameOps(m, r) /\ SameData(m, r)
        /\ m.intern_state = "shutdown" /\ m.extern_state = r.extern_state
        /\ m.stop_handler = r.stop_handler /\ ~m.wait_handler
    BY <1>3, <1>5
       DEF Active, WaitParked, SameOps, SameData, SamePhase, SameUser
  <1>8. /\ TimerSound(m) /\ (Armed(r) => Armed(m))
        /\ m.stop_reason = r.stop_reason
    BY <1>4, <1>6 DEF SameTimer, TimerSound, Armed
  <1> HIDE DEF m
  <1>9. Active(m) /\ Phases(m)
    <2>1. OpsMatch(m)
      BY <1>1, <1>7 DEF Core, OpsMatch, SameOps
    <2>2. BufferFits(m)
      BY <1>1, <1>7 DEF Active, Core, BufferFits, SameOps, SameData
    <2> QED
      BY <1>7, <2>1, <2>2 DEF Active, Core, WaitParked, Phases, SameOps
  <1> DEFINE u == continue_shutdown(m, TRUE, f)
             v == continue_shutdown(m, FALSE, f)
  <1>10. /\ Guarded(u) /\ Caused(u, m)
         /\ Over(v) \/ SameTimer(v, m)
         /\ Caused(v, m)
    BY <1>7, <1>8, <1>9, ShutdownGuards
  <1> HIDE DEF u, v
  <1>11. Guarded(u) /\ Caused(u, r) /\ StillGuarded(v, r) /\ Caused(v, r)
    BY <1>8, <1>10 DEF Caused, StillGuarded, SameTimer, TimerSound, Armed
  <1> QED
    BY <1>2, <1>11 DEF u, v

\* A transfer that completes takes the outstanding wait and its expiry back,
\* unless that fails.
LEMMA TransferTimer ==
  ASSUME NEW r, Shaped(r), NEW d \in {ReadDone(r, "wait"), WriteDone(r, "wait")},
         NEW failed, NEW v
  PROVE  LET c == cancel_timer_wait(d, failed)
         IN  /\ Shaped(c) /\ Shaped(StopReading(c)) /\ Shaped(StopWriting(c))
             /\ ~CancelFails(d, failed) =>
                  \A q \in {Consume(c, v), StopReading(Consume(c, v)),
                            Commit(c, v)} :
                    TimerSound(q) /\ q.stop_reason = r.stop_reason
  <1> DEFINE c == cancel_timer_wait(d, failed)
             y == Consume(c, v)
             z == StopReading(y)
             w == Commit(c, v)
  <1>1. Shaped(d) /\ d.stop_reason = r.stop_reason
    <2>1. /\ Shaped(ReadDone(r, "wait"))
          /\ ReadDone(r, "wait").stop_reason = r.stop_reason
      BY Fields DEF Shaped, ReadDone
    <2>2. /\ Shaped(WriteDone(r, "wait"))
          /\ WriteDone(r, "wait").stop_reason = r.stop_reason
      BY Fields DEF Shaped, WriteDone
    <2> QED
      BY <2>1, <2>2
  <1>2. /\ Shaped(c)
        /\ ~CancelFails(d, failed) =>
             /\ c.timer_turned = FALSE /\ c.timer_wait_cancelled = TRUE
             /\ c.stop_reason = d.stop_reason
    BY <1>1, Fields DEF Shaped, cancel_timer_wait
  <1> HIDE DEF c
  <1>3. SameTimer(y, c) /\ SameTimer(w, c)
    BY <1>2, TimerAlone
  <1>4. Shaped(StopReading(c)) /\ Shaped(StopWriting(c))
    BY <1>2, TimerAlone DEF SameTimer
  <1> HIDE DEF y, w
  <1>5. SameTimer(z, y)
    BY <1>3, TimerAlone DEF SameTimer
  <1> HIDE DEF z
  <1>6. ASSUME ~CancelFails(d, failed), NEW q \in {y, z, w}
        PROVE  TimerSound(q) /\ q.stop_reason = r.stop_reason
    BY <1>1, <1>2, <1>3, <1>5, <1>6 DEF SameTimer, TimerSound
  <1> QED
    BY <1>2, <1>4, <1>6 DEF c, y, z, w

\* The handlers of the transfers leave the watchdog armed.
LEMMA TransferGuards ==
  ASSUME NEW r, Active(r), Phases(r), NEW error \in Errors,
         error # "inactivity_timeout", NEW bytes \in Nat, NEW f
  PROVE  /\ "read" \in r.ops /\ bytes <= Buf!BytesIn(r.reading) =>
              /\ r.intern_state = "work" =>
                   LET q == handle_read_at_work(r, error, bytes, f)
                   IN  Guarded(q) /\ Caused(q, r)
              /\ r.intern_state = "shutdown" =>
                   LET q == handle_read_at_shutdown(r, error, bytes, f)
                   IN  Guarded(q) /\ Caused(q, r)
         /\ "write" \in r.ops /\ bytes <= Buf!BytesIn(r.writing) =>
              /\ r.intern_state = "work" =>
                   LET q == handle_write_at_work(r, error, bytes, f)
                   IN  Guarded(q) /\ Caused(q, r)
              /\ r.intern_state = "shutdown" =>
                   LET q == handle_write_at_shutdown(r, error, bytes, f)
                   IN  Guarded(q) /\ Caused(q, r)
  <1> DEFINE failed == "cancel" \in f
             d == ReadDone(r, "wait")
             c == cancel_timer_wait(d, failed)
             x == StopReading(c)
             y == Consume(c, bytes)
             z == StopReading(y)
             wd == WriteDone(r, "wait")
             wc == cancel_timer_wait(wd, failed)
             wx == StopWriting(wc)
             wy == Commit(wc, bytes)
  <1>1. Shaped(r) /\ failed \in BOOLEAN
    BY StatesShaped DEF Active, Core
  <1>2. /\ Shaped(x) /\ Shaped(wx)
        /\ ~CancelFails(d, failed) =>
             /\ TimerSound(y) /\ y.stop_reason = r.stop_reason
             /\ TimerSound(z) /\ z.stop_reason = r.stop_reason
        /\ ~CancelFails(wd, failed) =>
             TimerSound(wy) /\ wy.stop_reason = r.stop_reason
    <2> HIDE DEF failed
    <2>1. d \in {d, wd} /\ wd \in {d, wd}
      OBVIOUS
    <2> QED
      BY <1>1, <2>1, TransferTimer
  <1>3. ASSUME NEW p \in {x, wx}, NEW why \in {error, "error"}
        PROVE  LET q == start_stop(p, why, f) IN Guarded(q) /\ Caused(q, r)
    <2>1. Shaped(p) /\ why # "inactivity_timeout"
      BY <1>2, <1>3
    <2> QED
      BY <2>1, StopOver DEF Guarded, Caused
  <1>4. ASSUME "read" \in r.ops, bytes <= Buf!BytesIn(r.reading)
        PROVE  /\ Active(y) /\ SamePhase(y, r) /\ Phases(y)
               /\ Active(z) /\ SamePhase(z, r) /\ z.timer_state # "stopped"
               /\ (r.intern_state = "shutdown" => Phases(z))
    BY <1>1, <1>4, ReadCompletion
  <1>5. ASSUME "write" \in r.ops, bytes <= Buf!BytesIn(r.writing)
        PROVE  Active(wy) /\ SamePhase(wy, r) /\ Phases(wy)
    BY <1>1, <1>5, WriteCompletion
  <1>6. ASSUME "read" \in r.ops, bytes <= Buf!BytesIn(r.reading),
               r.intern_state = "work"
        PROVE  LET q == handle_read_at_work(r, error, bytes, f)
               IN  Guarded(q) /\ Caused(q, r)
    <2> DEFINE q == handle_read_at_work(r, error, bytes, f)
    <2>1. \/ \E why \in {error, "error"} : q = start_stop(x, why, f)
          \/ /\ ~CancelFails(d, failed)
             /\ \/ q = start_shutdown(z, "eof", TRUE, f)
                \/ q = continue_work(y, f)
      BY Zenon DEF handle_read_at_work
    <2> HIDE DEF x, y, z, q, d, failed
    <2>2. "eof" \in Errors
      BY DEF Errors
    <2>3. ASSUME ~CancelFails(d, failed), q = start_shutdown(z, "eof", TRUE, f)
          PROVE  Guarded(q) /\ Caused(q, z)
      BY <1>2, <1>4, <1>6, <2>2, <2>3, StartShutdownGuards
    <2>4. ASSUME ~CancelFails(d, failed), q = continue_work(y, f)
          PROVE  Guarded(q) /\ Caused(q, y)
      <3>1. y.intern_state = "work"
        BY <1>4, <1>6 DEF SamePhase
      <3> QED
        BY <1>2, <1>4, <1>6, <2>4, <3>1, WorkGuards
    <2>5. Guarded(q) /\ Caused(q, r)
      BY <1>2, <1>3, <2>1, <2>3, <2>4 DEF Caused
    <2> QED
      BY <2>5 DEF q
  <1>7. ASSUME "read" \in r.ops, bytes <= Buf!BytesIn(r.reading),
               r.intern_state = "shutdown"
        PROVE  LET q == handle_read_at_shutdown(r, error, bytes, f)
               IN  Guarded(q) /\ Caused(q, r)
    <2> DEFINE q == handle_read_at_shutdown(r, error, bytes, f)
    <2>1. \/ \E why \in {error, "error"} : q = start_stop(x, why, f)
          \/ /\ ~CancelFails(d, failed)
             /\ \E p \in {y, z} : q = continue_shutdown(p, TRUE, f)
      BY Zenon DEF handle_read_at_shutdown
    <2> HIDE DEF x, y, z, q, d, failed
    <2>2. ASSUME ~CancelFails(d, failed), NEW p \in {y, z},
                 q = continue_shutdown(p, TRUE, f)
          PROVE  Guarded(q) /\ Caused(q, r)
      <3>1. /\ Active(p) /\ Phases(p) /\ p.intern_state = "shutdown"
            /\ TimerSound(p) /\ p.stop_reason = r.stop_reason
        BY <1>2, <1>4, <1>7, <2>2 DEF SamePhase
      <3>2. Guarded(q) /\ Caused(q, p)
        BY <2>2, <3>1, ShutdownGuards
      <3> QED
        BY <3>1, <3>2 DEF Caused
    <2>3. Guarded(q) /\ Caused(q, r)
      BY <1>3, <2>1, <2>2
    <2> QED
      BY <2>3 DEF q
  <1>8. ASSUME "write" \in r.ops, bytes <= Buf!BytesIn(r.writing),
               r.intern_state = "work"
        PROVE  LET q == handle_write_at_work(r, error, bytes, f)
               IN  Guarded(q) /\ Caused(q, r)
    <2> DEFINE q == handle_write_at_work(r, error, bytes, f)
    <2>1. \/ \E why \in {error, "error"} : q = start_stop(wx, why, f)
          \/ ~CancelFails(wd, failed) /\ q = continue_work(wy, f)
      BY Zenon DEF handle_write_at_work
    <2> HIDE DEF wx, wy, q, wd, failed
    <2>2. ASSUME ~CancelFails(wd, failed), q = continue_work(wy, f)
          PROVE  Guarded(q) /\ Caused(q, wy)
      <3>1. wy.intern_state = "work"
        BY <1>5, <1>8 DEF SamePhase
      <3> QED
        BY <1>2, <1>5, <1>8, <2>2, <3>1, WorkGuards
    <2>3. Guarded(q) /\ Caused(q, r)
      BY <1>2, <1>3, <2>1, <2>2 DEF Caused
    <2> QED
      BY <2>3 DEF q
  <1>9. ASSUME "write" \in r.ops, bytes <= Buf!BytesIn(r.writing),
               r.intern_state = "shutdown"
        PROVE  LET q == handle_write_at_shutdown(r, error, bytes, f)
               IN  Guarded(q) /\ Caused(q, r)
    <2> DEFINE q == handle_write_at_shutdown(r, error, bytes, f)
    <2>1. \/ \E why \in {error, "error"} : q = start_stop(wx, why, f)
          \/ ~CancelFails(wd, failed) /\ q = continue_shutdown(wy, TRUE, f)
      BY Zenon DEF handle_write_at_shutdown
    <2> HIDE DEF wx, wy, q, wd, failed
    <2>2. ASSUME ~CancelFails(wd, failed), q = continue_shutdown(wy, TRUE, f)
          PROVE  Guarded(q) /\ Caused(q, wy)
      <3>1. wy.intern_state = "shutdown"
        BY <1>5, <1>9 DEF SamePhase
      <3> QED
        BY <1>2, <1>5, <1>9, <2>2, <3>1, ShutdownGuards
    <2>3. Guarded(q) /\ Caused(q, r)
      BY <1>2, <1>3, <2>1, <2>2 DEF Caused
    <2> QED
      BY <2>3 DEF q
  <1> QED
    BY <1>6, <1>7, <1>8, <1>9

\* The handler of the timer wait: one that was cancelled is followed by the next,
\* any other found no transfer complete since its expiry was set.
LEMMA TimerGuards ==
  ASSUME NEW r, Shaped(r), "timer" \in r.ops, TimerSound(r),
         NEW error \in {"ok", "error", "aborted"}, NEW f
  PROVE  LET q == handle_timer_at_work(r, error, f)
         IN  StillGuarded(q, r) /\ (Caused(q, r) \/ ~r.wait_stale)
  <1> DEFINE d == TimerDone(r, "ready")
             e == TimerDone(r, "stopped")
             w == start_timer_wait(d)
             q == handle_timer_at_work(r, error, f)
  <1>1. /\ Shaped(d) /\ d.ops = r.ops \ {"timer"}
        /\ d.timer_turned = r.timer_turned /\ d.expiry_stale = r.expiry_stale
        /\ d.timer_wait_cancelled = r.timer_wait_cancelled
        /\ d.stop_reason = r.stop_reason
    BY Fields DEF Shaped, TimerDone
  <1>2. Shaped(e)
    BY Fields DEF Shaped, TimerDone
  <1>3. \/ q = start_stop(e, error, f) /\ error \notin {"ok", "aborted"}
        \/ q = start_stop(e, "inactivity_timeout", f) /\ ~d.timer_wait_cancelled
        \/ q = w /\ d.timer_turned
        \/ q = d /\ ~d.timer_turned
    BY Zenon DEF handle_timer_at_work
  <1> HIDE DEF d, e, q
  <1>4. /\ w.timer_turned = d.timer_turned /\ w.expiry_stale = d.expiry_stale
        /\ w.wait_stale = d.expiry_stale /\ w.ops = d.ops \cup {"timer"}
        /\ w.stop_reason = d.stop_reason
    BY <1>1, Fields DEF Shaped, start_timer_wait
  <1> HIDE DEF w
  <1>5. CASE q = start_stop(e, error, f) /\ error \notin {"ok", "aborted"}
    BY <1>2, <1>5, StopOver DEF StillGuarded, Caused, q
  <1>6. CASE q = start_stop(e, "inactivity_timeout", f) /\ ~d.timer_wait_cancelled
    <2>1. ~r.wait_stale
      BY <1>1, <1>6 DEF TimerSound
    <2> QED
      BY <1>2, <1>6, <2>1, StopOver DEF StillGuarded, q
  <1>7. CASE q = w /\ d.timer_turned
    BY <1>1, <1>4, <1>7 DEF StillGuarded, Caused, TimerSound, Armed, q
  <1>8. CASE q = d /\ ~d.timer_turned
    BY <1>1, <1>8 DEF StillGuarded, Caused, TimerSound, Armed, q
  <1> QED
    BY <1>3, <1>5, <1>6, <1>7, <1>8

\* A session that stops goes on to do so, for the reason it has.
LEMMA StopStaysOver ==
  ASSUME NEW r, Shaped(r), r.intern_state = "stop"
  PROVE  \A q \in {handle_read_at_stop(r), handle_write_at_stop(r),
                   handle_timer_at_stop(r)} :
           Over(q) /\ q.stop_reason = r.stop_reason
  <1>1. ASSUME NEW d \in {ReadDone(r, "stopped"), WriteDone(r, "stopped"),
                          TimerDone(r, "stopped")}
        PROVE  Shaped(d) /\ d.intern_state = "stop" /\ d.stop_reason = r.stop_reason
    <2>1. LET d1 == ReadDone(r, "stopped")
          IN  /\ Shaped(d1) /\ d1.intern_state = "stop"
              /\ d1.stop_reason = r.stop_reason
      BY Fields DEF Shaped, ReadDone
    <2>2. LET d2 == WriteDone(r, "stopped")
          IN  /\ Shaped(d2) /\ d2.intern_state = "stop"
              /\ d2.stop_reason = r.stop_reason
      BY Fields DEF Shaped, WriteDone
    <2>3. LET d3 == TimerDone(r, "stopped")
          IN  /\ Shaped(d3) /\ d3.intern_state = "stop"
              /\ d3.stop_reason = r.stop_reason
      <3> DEFINE d3 == TimerDone(r, "stopped")
      <3>1. Shaped(d3)
        BY ZenonT(40), Fields DEF Shaped, TimerDone
      <3>2. d3.intern_state = "stop" /\ d3.stop_reason = r.stop_reason
        BY Fields DEF Shaped, TimerDone
      <3> QED
        BY <3>1, <3>2
    <2> QED
      BY <1>1, <2>1, <2>2, <2>3
  <1>2. ASSUME NEW d \in {ReadDone(r, "stopped"), WriteDone(r, "stopped"),
                          TimerDone(r, "stopped")}
        PROVE  /\ Over(continue_stop(d))
               /\ continue_stop(d).stop_reason = r.stop_reason
    BY <1>1, StopOver
  <1> QED
    BY <1>2 DEF handle_read_at_stop, handle_write_at_stop, handle_timer_at_stop

\* A start arms the watchdog.
LEMMA StartGuards ==
  ASSUME NEW r, SessionInv(r), NEW f,
         r.intern_state \in {"work", "shutdown"} => TimerSound(r)
  PROVE  LET q == start_extern_start(r, f)
         IN  /\ \/ r.extern_state # "ready" /\ SameTimer(q, r)
                \/ r.extern_state = "ready" /\ Guarded(q)
             /\ Caused(q, r)
  <1> DEFINE x == StartFailed(r)
             w == [r EXCEPT !.extern_state = "work"]
             k == continue_work(w, f)
             q == start_extern_start(r, f)
  <1>1. r \in SessionStates /\ Core(r) /\ Phases(r) /\ Shaped(r)
    BY StatesShaped DEF SessionInv, Core
  <1>2. \/ q = Post(r, "start", "invalid_state") /\ r.extern_state # "ready"
        \/ q = Post(x, "start", "error") /\ r.extern_state = "ready"
        \/ q = Post(k, "start", "ok") /\ r.extern_state = "ready"
    BY Zenon DEF start_extern_start
  <1> HIDE DEF q
  <1>3. CASE q = Post(r, "start", "invalid_state") /\ r.extern_state # "ready"
    <2>1. SameTimer(q, r)
      BY <1>1, <1>3, ToldTimer
    <2> QED
      BY <1>3, <2>1 DEF SameTimer, Caused, q
  <1>4. CASE q = Post(x, "start", "error") /\ r.extern_state = "ready"
    <2>1. Shaped(x) /\ x.intern_state = "stopped" /\ x.stop_reason = r.stop_reason
      BY <1>1, Fields DEF Shaped, StartFailed, close_socket
    <2> HIDE DEF x
    <2>2. SameTimer(q, x)
      BY <1>4, <2>1, ToldTimer
    <2> QED
      BY <1>4, <2>1, <2>2 DEF SameTimer, Caused, Guarded, Over, q
  <1>5. CASE q = Post(k, "start", "ok") /\ r.extern_state = "ready"
    <2>1. /\ w \in SessionStates /\ SamePhase(w, r) /\ SameOps(w, r)
          /\ SameData(w, r) /\ w.extern_state = "work"
          /\ w.wait_handler = r.wait_handler
      <3>1. "work" \in {"ready", "work", "stop", "stopped"}
        OBVIOUS
      <3> QED
        BY <1>1, <3>1, ExternFrame, Zenon
    <2>2. /\ w.timer_turned = r.timer_turned
          /\ w.timer_wait_cancelled = r.timer_wait_cancelled
          /\ w.expiry_stale = r.expiry_stale /\ w.wait_stale = r.wait_stale
          /\ w.ops = r.ops /\ w.stop_reason = r.stop_reason
      BY <1>1, Fields DEF Shaped
    <2> HIDE DEF w
    <2>3. r.intern_state = "work" /\ ~r.wait_handler
      BY <1>5 DEF SessionInv, UserMatches, WaitParked
    <2>4. w.intern_state = "work" /\ w.intern_state = r.intern_state
      BY <2>1, <2>3 DEF SamePhase
    <2>5. Core(w) /\ Phases(w)
      BY <1>1, <2>1, <2>4, CoreSame, PhasesSame
    <2>6. Active(w)
      BY <2>1, <2>3, <2>4, <2>5 DEF Active, WaitParked
    <2>7. TimerSound(w)
      BY <2>2, <2>3 DEF TimerSound
    <2>8. Guarded(k) /\ Caused(k, w) /\ Core(k)
      BY <2>4, <2>5, <2>6, <2>7, WorkGuards, ContinueWork DEF After
    <2> HIDE DEF k
    <2>9. SameTimer(q, k)
      BY <1>5, <2>8, StatesShaped, ToldTimer DEF Core
    <2> QED
      BY <1>5, <2>2, <2>8, <2>9
         DEF SameTimer, Guarded, Over, TimerSound, Armed, Caused, q
  <1> QED
    BY <1>2, <1>3, <1>4, <1>5

\* A wait leaves the watchdog as it is.
LEMMA WaitGuards ==
  ASSUME NEW r, Shaped(r)
  PROVE  SameTimer(start_extern_wait(r), r)
  <1>1. SameTimer([r EXCEPT !.wait_handler = TRUE], r)
    BY Fields DEF SameTimer, Shaped
  <1>2. \A error : SameTimer(Post(r, "wait", error), r)
    BY ToldTimer
  <1> QED
    BY <1>1, <1>2, Zenon DEF start_extern_wait

\* So does a stop, which may also end the session.
LEMMA StopGuards ==
  ASSUME NEW r, SessionInv(r), NEW f,
         r.intern_state \in {"work", "shutdown"} => TimerSound(r)
  PROVE  LET z == start_extern_stop(r, f)
         IN  /\ r.intern_state \in {"work", "shutdown"} => StillGuarded(z, r)
             /\ Over(r) => Over(z)
             /\ Caused(z, r)
  <1> DEFINE why == "operation_aborted"
             p == [r EXCEPT !.extern_state = "stop"]
             w == complete_extern_wait(p, why)
             e == start_shutdown(w, why, FALSE, f)
             q == do_start_extern_stop(r, f)
             x == [q EXCEPT !.extern_state = "stopped"]
             y == [q EXCEPT !.stop_handler = TRUE]
             z == start_extern_stop(r, f)
  <1>1. r \in SessionStates /\ Core(r) /\ Phases(r) /\ Shaped(r)
    BY StatesShaped DEF SessionInv, Core
  <1>2. q = IF w.intern_state = "work" THEN e ELSE w
    BY Zenon DEF do_start_extern_stop
  <1>3. \/ z = Post(r, "stop", "invalid_state")
        \/ /\ r.extern_state \notin {"stop", "stopped"}
           /\ z = Post(x, "stop", "ok") \/ z = y
    BY Zenon DEF start_extern_stop
  <1> HIDE DEF q, z
  <1>4. why \in Errors
    BY DEF Errors
  <1>5. /\ p \in SessionStates /\ SamePhase(p, r) /\ SameOps(p, r)
        /\ SameData(p, r) /\ p.extern_state = "stop"
    <2>1. "stop" \in {"ready", "work", "stop", "stopped"}
      OBVIOUS
    <2> QED
      BY <1>1, <2>1, ExternFrame, Zenon
  <1>6. SameTimer(p, r)
    BY <1>1, Fields DEF Shaped, SameTimer
  <1> HIDE DEF p
  <1>7. /\ w \in SessionStates /\ SamePhase(w, p) /\ SameOps(w, p)
        /\ SameData(w, p) /\ w.extern_state = p.extern_state /\ ~w.wait_handler
    BY <1>4, <1>5, CompleteWaitFrame, Zenon
  <1>8. SameTimer(w, r)
    BY <1>5, <1>6, StatesShaped, ToldTimer, SameTimerTwice
  <1> HIDE DEF w
  <1>9. /\ SamePhase(w, r) /\ SameOps(w, r) /\ SameData(w, r)
        /\ w.extern_state = "stop" /\ w.intern_state = r.intern_state
    BY <1>5, <1>7 DEF SamePhase, SameOps, SameData
  <1>10. Core(w) /\ Phases(w)
    BY <1>1, <1>7, <1>9, CoreSame, PhasesSame
  <1>11. /\ r.intern_state \in {"work", "shutdown"} => StillGuarded(q, r)
         /\ Over(r) => Over(q)
         /\ Caused(q, r) /\ Shaped(q)
    <2>1. CASE w.intern_state = "work"
      <3>1. Active(w) /\ w.timer_state # "stopped" /\ TimerSound(w)
        BY <1>7, <1>8, <1>9, <1>10, <2>1
           DEF Active, WaitParked, Phases, SameTimer, TimerSound
      <3>2. StillGuarded(e, w) /\ Caused(e, w) /\ Shaped(e)
        BY <1>4, <3>1, StartShutdown, StartShutdownGuards, StatesShaped
           DEF After, Core
      <3> HIDE DEF e
      <3> QED
        BY <1>2, <1>8, <2>1, <3>2
           DEF SameTimer, StillGuarded, Over, Armed, Caused
    <2>2. CASE w.intern_state # "work"
      BY <1>2, <1>8, <2>2 DEF SameTimer, StillGuarded, Over, Armed, TimerSound, Caused
    <2> QED
      BY <2>1, <2>2
  <1>12. ASSUME NEW t, SameTimer(t, r) \/ SameTimer(t, q)
         PROVE  /\ r.intern_state \in {"work", "shutdown"} => StillGuarded(t, r)
                /\ Over(r) => Over(t)
                /\ Caused(t, r)
    BY <1>11, <1>12 DEF SameTimer, StillGuarded, Over, Armed, TimerSound, Caused
  <1>13. SameTimer(Post(r, "stop", "invalid_state"), r)
    BY <1>1, ToldTimer
  <1>14. SameTimer(x, q) /\ SameTimer(y, q)
    BY <1>11, Fields DEF Shaped, SameTimer
  <1>15. SameTimer(Post(x, "stop", "ok"), q)
    <2> HIDE DEF x
    <2>1. SameTimer(Post(x, "stop", "ok"), x)
      BY <1>14, ToldTimer DEF SameTimer
    <2> QED
      BY <1>14, <2>1, SameTimerTwice
  <1>16. SameTimer(z, r) \/ SameTimer(z, q)
    BY <1>3, <1>13, <1>14, <1>15
  <1> QED
    BY <1>12, <1>16 DEF z

-----------------------------------------------------------------------------
\* An answer to another call is none to a start.
LEMMA AnswerStarts ==
  ASSUME NEW x \in Api!ApiStates, NEW call, NEW error
  PROVE  /\ call # "start" =>
              Api!Answer(x, call, error).posted["start"] = x.posted["start"]
         /\ Api!Answer(x, "start", error).posted["start"]
            = Append(x.posted["start"], error)
  <1>1. /\ x.posted = [c \in {"start", "wait", "stop"} |-> x.posted[c]]
        /\ x = [m \in {"extern_state", "run", "extern_wait_error", "wait_handler",
                       "stop_handler", "posted"} |-> x[m]]
    BY DEF Api!ApiStates, Api!Calls
  <1> QED
    BY <1>1 DEF Api!Answer

\* The end of a session answers no start.
LEMMA EndingStarts ==
  ASSUME NEW x \in Api!ApiStates, NEW reason \in Api!Errors
  PROVE  /\ Api!Tell(x, reason).posted["start"] = x.posted["start"]
         /\ Api!Finish(x).posted["start"] = x.posted["start"]
         /\ \A y \in Api!Endings(x, reason) : y.posted["start"] = x.posted["start"]
  <1>1. ASSUME NEW p \in Api!ApiStates, NEW u \in Api!Errors
        PROVE  Api!Tell(p, u).posted["start"] = p.posted["start"]
    <2> DEFINE why == IF p.extern_wait_error = "ok" THEN u ELSE p.extern_wait_error
               q == [p EXCEPT !.extern_wait_error = why, !.wait_handler = FALSE]
    <2>1. why \in Api!Errors
      BY DEF Api!ApiStates
    <2> HIDE DEF why
    <2>2. q \in Api!ApiStates /\ q.posted = p.posted
      BY <2>1 DEF Api!ApiStates
    <2>3. Api!Tell(p, u) = IF p.wait_handler THEN Api!Answer(q, "wait", why) ELSE q
      BY Zenon DEF Api!Tell, why
    <2> HIDE DEF q
    <2>4. Api!Answer(q, "wait", why).posted["start"] = q.posted["start"]
      BY <2>2, AnswerStarts
    <2> QED
      BY <2>2, <2>3, <2>4
  <1>2. ASSUME NEW p \in Api!ApiStates
        PROVE  Api!Finish(p).posted["start"] = p.posted["start"]
    <2> DEFINE q == [p EXCEPT !.run = "stopped"]
               u == [q EXCEPT !.extern_state = "stopped"]
               v == [q EXCEPT !.extern_state = "stopped", !.stop_handler = FALSE]
    <2>1. q \in Api!ApiStates /\ q.posted = p.posted
      BY DEF Api!ApiStates
    <2>2. \/ Api!Finish(p) = q \/ Api!Finish(p) = u
          \/ Api!Finish(p) = Api!Answer(v, "stop", "ok")
      BY Zenon DEF Api!Finish
    <2> HIDE DEF q
    <2>3. v \in Api!ApiStates /\ v.posted = q.posted /\ u.posted = q.posted
      BY <2>1 DEF Api!ApiStates
    <2> HIDE DEF u, v
    <2>4. Api!Answer(v, "stop", "ok").posted["start"] = v.posted["start"]
      BY <2>3, AnswerStarts
    <2> QED
      BY <2>1, <2>2, <2>3, <2>4
  <1>3. ASSUME NEW y \in Api!Endings(x, reason)
        PROVE  y.posted["start"] = x.posted["start"]
    <2> DEFINE t == Api!Tell(x, reason)
               m == IF x.extern_state = "work" THEN t ELSE x
               q == [m EXCEPT !.run = "ending"]
    <2>1. t \in Api!ApiStates
      BY TellKnown
    <2>2. t.posted["start"] = x.posted["start"]
      BY <1>1
    <2>3. y \in {q, Api!Finish(q)}
      BY <1>3, Zenon DEF Api!Endings
    <2> HIDE DEF t
    <2>4. m \in Api!ApiStates /\ m.posted["start"] = x.posted["start"]
      BY <2>1, <2>2
    <2> HIDE DEF m
    <2>5. q \in Api!ApiStates /\ q.posted = m.posted
      BY <2>4 DEF Api!ApiStates
    <2> HIDE DEF q
    <2>6. Api!Finish(q).posted["start"] = q.posted["start"]
      BY <1>2, <2>5
    <2> QED
      BY <2>3, <2>4, <2>5, <2>6
  <1> QED
    BY <1>1, <1>2, <1>3

\* A start of a session in use is refused, and nothing else answers one.
LEMMA CallStarts ==
  ASSUME NEW x \in Api!ApiStates, NEW y
  PROVE  /\ y \in Api!Started(x) /\ x.extern_state # "ready" =>
              y.posted["start"] = Append(x.posted["start"], "invalid_state")
         /\ y \in Api!Waited(x) \cup Api!Stopped(x) \cup Api!Ended(x) =>
              y.posted["start"] = x.posted["start"]
  <1>1. ASSUME y \in Api!Started(x), x.extern_state # "ready"
        PROVE  y.posted["start"] = Append(x.posted["start"], "invalid_state")
    <2>1. y = Api!Answer(x, "start", "invalid_state")
      BY <1>1, Zenon DEF Api!Started
    <2> QED
      BY <2>1, AnswerStarts
  <1>2. ASSUME y \in Api!Waited(x) PROVE y.posted["start"] = x.posted["start"]
    <2>1. \/ \E error : y = Api!Answer(x, "wait", error)
          \/ y = [x EXCEPT !.wait_handler = TRUE]
      BY <1>2, Zenon DEF Api!Waited
    <2>2. [x EXCEPT !.wait_handler = TRUE].posted = x.posted
      BY DEF Api!ApiStates
    <2>3. \A error : Api!Answer(x, "wait", error).posted["start"] = x.posted["start"]
      BY AnswerStarts
    <2> QED
      BY <2>1, <2>2, <2>3, Zenon
  <1>3. ASSUME y \in Api!Ended(x) PROVE y.posted["start"] = x.posted["start"]
    <2>1. \/ \E reason \in Reasons : y \in Api!Endings(x, reason)
          \/ y = Api!Finish(x)
      BY <1>3, Zenon DEF Api!Ended, Reasons
    <2>2. Reasons \subseteq Api!Errors
      BY DEF Reasons, Api!Errors
    <2>3. "ok" \in Api!Errors
      BY DEF Api!Errors
    <2> QED
      BY <2>1, <2>2, <2>3, EndingStarts
  <1>4. ASSUME y \in Api!Stopped(x) PROVE y.posted["start"] = x.posted["start"]
    <2> DEFINE t == Api!Tell(x, "operation_aborted")
               q == [t EXCEPT !.extern_state = "stop"]
               ys == IF q.run = "work" THEN Api!Endings(q, "ok") ELSE {q}
               seen(z) == IF z.run = "stopped"
                          THEN Api!Answer([z EXCEPT !.extern_state = "stopped"],
                                          "stop", "ok")
                          ELSE [z EXCEPT !.stop_handler = TRUE]
    <2>1. {"operation_aborted", "ok"} \subseteq Api!Errors
      BY DEF Api!Errors
    <2>2. \/ y = Api!Answer(x, "stop", "invalid_state")
          \/ \E z \in ys : y = seen(z)
      BY <1>4, Zenon DEF Api!Stopped
    <2>3. t \in Api!ApiStates /\ t.posted["start"] = x.posted["start"]
      BY <2>1, TellKnown, EndingStarts
    <2> HIDE DEF t
    <2>4. /\ q \in Api!ApiStates /\ q.posted = t.posted
          /\ q.extern_state = "stop"
      BY <2>3 DEF Api!ApiStates
    <2> HIDE DEF q
    <2>5. ASSUME NEW z \in ys
          PROVE  z \in Api!ApiStates /\ z.posted["start"] = x.posted["start"]
      <3>1. ASSUME z \in Api!Endings(q, "ok")
            PROVE  z \in Api!ApiStates /\ z.posted["start"] = q.posted["start"]
        BY <2>1, <2>4, <3>1, EndingStarts, EndingsKnown
      <3> QED
        BY <2>3, <2>4, <2>5, <3>1
    <2> HIDE DEF ys
    <2>6. ASSUME NEW z \in ys, y = seen(z)
          PROVE  y.posted["start"] = x.posted["start"]
      <3> DEFINE e == [z EXCEPT !.extern_state = "stopped"]
      <3>1. e \in Api!ApiStates /\ e.posted = z.posted
        BY <2>5, <2>6 DEF Api!ApiStates
      <3>2. [z EXCEPT !.stop_handler = TRUE].posted = z.posted
        BY <2>5, <2>6 DEF Api!ApiStates
      <3>3. y = Api!Answer(e, "stop", "ok") \/ y = [z EXCEPT !.stop_handler = TRUE]
        BY <2>6, Zenon
      <3> HIDE DEF e
      <3>4. Api!Answer(e, "stop", "ok").posted["start"] = e.posted["start"]
        BY <3>1, AnswerStarts
      <3> QED
        BY <2>5, <2>6, <3>1, <3>2, <3>3, <3>4
    <2>7. Api!Answer(x, "stop", "invalid_state").posted["start"] = x.posted["start"]
      BY AnswerStarts
    <2> QED
      BY <2>2, <2>6, <2>7
  <1> QED
    BY <1>1, <1>2, <1>3, <1>4

\* A start has succeeded.
Started == "ok" \in ToSet(s.posted["start"])

\* Only a start of a fresh session succeeds.
LEMMA StartsOnce ==
  ASSUME IInv, Reasoned(View(s)), Next, Started', ~Started
  PROVE  AsyncStart /\ s.extern_state = "ready"
  <1>1. /\ View(s) \in Api!ApiStates /\ View(s).posted = s.posted
        /\ View(s').posted = s'.posted /\ View(s).extern_state = s.extern_state
    BY InvReady DEF View
  <1>2. s'.posted["start"] # s.posted["start"]
    BY DEF Started
  <1>3. ~(View(s') \in Api!Waited(View(s)) \cup Api!Stopped(View(s))
                          \cup Api!Ended(View(s)))
    BY <1>1, <1>2, CallStarts
  <1>4. ~Shown(s, s')
    BY <1>1, <1>2, <1>3 DEF Shown
  <1>5. View(s') # Api!Fresh
    <2>1. ASSUME View(s') = Api!Fresh PROVE s'.posted["start"] = <<>>
      <3>1. Api!Fresh.posted["start"] = <<>>
        BY DEF Api!Fresh, Api!Calls
      <3> QED
        BY <1>1, <2>1, <3>1
    <2>2. "ok" \notin ToSet(<<>>)
      BY DEF ToSet
    <2> QED
      BY <2>1, <2>2 DEF Started
  <1>6. AsyncStart /\ View(s') \in Api!Started(View(s))
    BY <1>3, <1>4, <1>5, StepView
  <1>7. ASSUME s.extern_state # "ready" PROVE FALSE
    <2>1. s'.posted["start"] = Append(s.posted["start"], "invalid_state")
      <3>1. View(s').posted["start"]
            = Append(View(s).posted["start"], "invalid_state")
        BY <1>1, <1>6, <1>7, CallStarts
      <3> QED
        BY <1>1, <3>1
    <2>2. s.posted["start"] \in Seq(Errors)
      BY Members DEF IInv, SessionInv, Core, Calls
    <2>3. \A p \in Seq(Errors) : "ok" \in ToSet(Append(p, "invalid_state"))
                                 => "ok" \in ToSet(p)
      BY DEF ToSet
    <2> QED
      BY <2>1, <2>2, <2>3 DEF Started
  <1> QED
    BY <1>6, <1>7

-----------------------------------------------------------------------------
\* The inductive invariant of the watchdog: a session that runs has a sound timer,
\* and one that was started has it armed.
TimerGuard(r, started) ==
  r.intern_state \in {"work", "shutdown"} =>
    TimerSound(r) /\ (Timeout /\ started => Armed(r))

TimerInv == ApiInv /\ TimerGuard(s, Started)

\* What a step does to the watchdog.
LEMMA StepGuards ==
  ASSUME TimerInv, Next
  PROVE  /\ \/ Guarded(s')
            \/ /\ s.intern_state \in {"work", "shutdown"} /\ StillGuarded(s', s)
               /\ Started' => Started
            \/ Reset
         /\ s'.stop_reason = "inactivity_timeout" /\ s'.stop_reason # s.stop_reason
            => ~s.wait_stale
  <1>1. IInv /\ Reasoned(View(s)) /\ SessionInv(s) /\ s \in SessionStates /\ Shaped(s)
    BY StatesShaped DEF TimerInv, ApiInv, IInv, SessionInv, Core
  <1>2. /\ s.intern_state \in {"work", "shutdown"} => TimerSound(s)
        /\ s.intern_state \in {"work", "shutdown"} \/ Over(s)
    BY <1>1, Members DEF TimerInv, TimerGuard, Over
  <1>3. SUFFICES /\ \/ Guarded(s')
                    \/ /\ s.intern_state \in {"work", "shutdown"}
                       /\ StillGuarded(s', s)
                       /\ ~(AsyncStart /\ s.extern_state = "ready")
                    \/ Reset
                 /\ Caused(s', s) \/ ~s.wait_stale
    BY <1>1, StartsOnce DEF Caused
  <1>4. ASSUME AsyncStart
        PROVE  /\ \/ s.extern_state # "ready" /\ SameTimer(s', s)
                  \/ s.extern_state = "ready" /\ Guarded(s')
               /\ Caused(s', s)
    <2>1. PICK f \in SUBSET Faults : s' = start_extern_start(s, f)
      BY <1>4 DEF AsyncStart
    <2> QED
      BY <1>1, <1>2, <2>1, StartGuards
  <1>5. SUFFICES ASSUME ~(AsyncStart /\ s.extern_state = "ready")
                 PROVE  /\ \/ Guarded(s')
                           \/ /\ s.intern_state \in {"work", "shutdown"}
                              /\ StillGuarded(s', s)
                           \/ Reset
                        /\ Caused(s', s) \/ ~s.wait_stale
    BY <1>4
  <1>6. ASSUME SameTimer(s', s)
        PROVE  /\ \/ Guarded(s')
                  \/ /\ s.intern_state \in {"work", "shutdown"}
                     /\ StillGuarded(s', s)
               /\ Caused(s', s)
    BY <1>2, <1>6
       DEF SameTimer, Guarded, StillGuarded, Over, TimerSound, Armed, Caused
  <1>7. CASE AsyncStart
    BY <1>4, <1>5, <1>6, <1>7
  <1>8. CASE AsyncWait
    BY <1>1, <1>6, <1>8, WaitGuards DEF AsyncWait
  <1>9. CASE AsyncStop
    <2>1. PICK f \in SUBSET HandlerFaults : s' = start_extern_stop(s, f)
      BY <1>9 DEF AsyncStop
    <2>2. /\ s.intern_state \in {"work", "shutdown"} => StillGuarded(s', s)
          /\ Over(s) => Over(s')
          /\ Caused(s', s)
      BY <1>1, <1>2, <2>1, StopGuards
    <2> QED
      BY <1>2, <2>2 DEF Guarded
  <1>10. CASE HandleReadAtWork
    <2>1. PICK res \in ReadResults, f \in SUBSET HandlerFaults :
            s' = handle_read_at_work(s, res.error, res.bytes, f)
      BY <1>10 DEF HandleReadAtWork
    <2>2. "read" \in s.ops /\ s.ops # {} /\ s.intern_state = "work"
      BY <1>10 DEF HandleReadAtWork
    <2> QED
      BY <1>1, <2>1, <2>2, CompletionPhase, TransferResults, ResultErrors,
         TransferGuards
  <1>11. CASE HandleReadAtShutdown
    <2>1. PICK res \in ReadResults, f \in SUBSET HandlerFaults :
            s' = handle_read_at_shutdown(s, res.error, res.bytes, f)
      BY <1>11 DEF HandleReadAtShutdown
    <2>2. "read" \in s.ops /\ s.ops # {} /\ s.intern_state = "shutdown"
      BY <1>11 DEF HandleReadAtShutdown
    <2> QED
      BY <1>1, <2>1, <2>2, CompletionPhase, TransferResults, ResultErrors,
         TransferGuards
  <1>12. CASE HandleWriteAtWork
    <2>1. PICK res \in WriteResults, f \in SUBSET HandlerFaults :
            s' = handle_write_at_work(s, res.error, res.bytes, f)
      BY <1>12 DEF HandleWriteAtWork
    <2>2. "write" \in s.ops /\ s.ops # {} /\ s.intern_state = "work"
      BY <1>12 DEF HandleWriteAtWork
    <2> QED
      BY <1>1, <2>1, <2>2, CompletionPhase, TransferResults, ResultErrors,
         TransferGuards
  <1>13. CASE HandleWriteAtShutdown
    <2>1. PICK res \in WriteResults, f \in SUBSET HandlerFaults :
            s' = handle_write_at_shutdown(s, res.error, res.bytes, f)
      BY <1>13 DEF HandleWriteAtShutdown
    <2>2. "write" \in s.ops /\ s.ops # {} /\ s.intern_state = "shutdown"
      BY <1>13 DEF HandleWriteAtShutdown
    <2> QED
      BY <1>1, <2>1, <2>2, CompletionPhase, TransferResults, ResultErrors,
         TransferGuards
  <1>14. CASE HandleTimerAtWork
    <2>1. PICK error \in TimerResults, f \in SUBSET HandlerFaults :
            s' = handle_timer_at_work(s, error, f)
      BY <1>14 DEF HandleTimerAtWork
    <2>2. "timer" \in s.ops /\ s.intern_state \in {"work", "shutdown"}
      BY <1>14 DEF HandleTimerAtWork
    <2>3. StillGuarded(s', s) /\ (Caused(s', s) \/ ~s.wait_stale)
      BY <1>1, <1>2, <2>1, <2>2, ResultErrors, TimerGuards
    <2> QED
      BY <2>2, <2>3
  <1>15. CASE HandleReadAtStop \/ HandleWriteAtStop \/ HandleTimerAtStop
    <2>1. /\ s.intern_state = "stop"
          /\ s' \in {handle_read_at_stop(s), handle_write_at_stop(s),
                     handle_timer_at_stop(s)}
      BY <1>15 DEF HandleReadAtStop, HandleWriteAtStop, HandleTimerAtStop
    <2>2. Over(s') /\ s'.stop_reason = s.stop_reason
      BY <1>1, <2>1, StopStaysOver
    <2> QED
      BY <2>2 DEF Guarded, Caused
  <1>16. CASE Reset
    <2>1. s'.stop_reason = "ok"
      BY <1>16 DEF Reset, reset, session
    <2> QED
      BY <1>16, <2>1 DEF Caused
  <1> QED
    BY <1>7, <1>8, <1>9, <1>10, <1>11, <1>12, <1>13, <1>14, <1>15, <1>16 DEF Next

\* A fresh session has nothing to guard.
LEMMA InitTimerInv == Init => TimerInv
  <1> SUFFICES ASSUME Init PROVE TimerInv
    OBVIOUS
  <1>1. s.timer_turned = FALSE /\ s.ops = {} /\ s.posted["start"] = <<>>
    BY DEF Init, session, Calls
  <1>2. ToSet(<<>>) = {}
    BY DEF ToSet
  <1> QED
    BY <1>1, <1>2, InitApiInv DEF TimerInv, TimerGuard, TimerSound, Started

\* Every step keeps the watchdog's invariant.
LEMMA NextTimerInv == TimerInv /\ [Next]_vars => TimerInv'
  <1> SUFFICES ASSUME TimerInv, [Next]_vars PROVE TimerInv'
    OBVIOUS
  <1>1. ApiInv'
    BY NextApiInv DEF TimerInv
  <1>2. CASE UNCHANGED vars
    BY <1>1, <1>2 DEF vars, TimerInv, TimerGuard, TimerSound, Armed, Started
  <1>3. CASE Reset
    <2>1. /\ s'.timer_turned = FALSE /\ s'.ops = {}
          /\ s'.posted["start"] = <<>>
      BY <1>3 DEF Reset, reset, session, Calls
    <2>2. ToSet(<<>>) = {}
      BY DEF ToSet
    <2> QED
      BY <1>1, <2>1, <2>2 DEF TimerInv, TimerGuard, TimerSound, Started
  <1>4. CASE Next /\ ~Reset
    <2>1. \/ Guarded(s')
          \/ /\ s.intern_state \in {"work", "shutdown"} /\ StillGuarded(s', s)
             /\ Started' => Started
      BY <1>4, StepGuards
    <2>2. TimerGuard(s, Started)
      BY DEF TimerInv
    <2>3. TimerGuard(s', Started')
      BY <2>1, <2>2 DEF TimerGuard, Guarded, StillGuarded, Over
    <2> QED
      BY <1>1, <2>3 DEF TimerInv
  <1> QED
    BY <1>2, <1>3, <1>4

\* The watchdog is armed in every execution of the session.
THEOREM TimerInvariance == Spec => []TimerInv
  BY InitTimerInv, NextTimerInv, PTL DEF Spec

\* With an inactivity timeout every started session that runs has a wait
\* outstanding, for an expiry no transfer has overtaken.
THEOREM WatchdogIsArmed == Spec => []WatchdogArmed
  <1>1. TimerInv => WatchdogArmed
    BY DEF TimerInv, TimerGuard, TimerSound, Armed, Started, WatchdogArmed
  <1> QED
    BY <1>1, TimerInvariance, PTL

\* No late completion of a wait that was cancelled stops a session for inactivity.
THEOREM TimeoutNotSpurious == Spec => NoSpuriousTimeout
  <1> DEFINE Just == s'.stop_reason = "inactivity_timeout"
                     /\ s'.stop_reason # s.stop_reason => ~s.wait_stale
  <1>1. TimerInv /\ [Next]_vars => [Just]_s
    <2> SUFFICES ASSUME TimerInv, [Next]_vars PROVE [Just]_s
      OBVIOUS
    <2>1. CASE Next
      BY <2>1, StepGuards
    <2>2. CASE UNCHANGED vars
      BY <2>2 DEF vars
    <2> QED
      BY <2>1, <2>2
  <1> QED
    BY <1>1, TimerInvariance, PTL DEF Spec, NoSpuriousTimeout

-----------------------------------------------------------------------------
(***************************************************************************)
(* The data path: what is sent is what was received, in order, through the  *)
(* cells of the cyclic buffer.  A read in flight fills the first free cells, *)
(* a write in flight sends the first filled ones, and neither the timer nor  *)
(* the end of the session touches what a transfer in flight was given.       *)
(***************************************************************************)

\* The cell of the k-th byte of a sequence that starts at start, circularly.
Place(start, k) ==
  IF start + k - 1 < BufferSize THEN start + k - 1 ELSE start + k - 1 - BufferSize

\* A buffer b holds in the memory M the bytes that follow the n already sent.
Holds(b, M, n, k) == \A i \in 1 .. k : M[Place(b.filled_start, i)] = n + i

\* A read in flight was given the first free cells.
Reads(r) ==
  "read" \in r.ops =>
    \E k \in 1 .. r.buffer.nonfilled_size :
      r.reading = Buf!buffers_2(BufferSize, r.buffer.nonfilled_start, k)

\* A write in flight was given the first bytes that wait to be sent.
Writes(r, M, n) ==
  "write" \in r.ops =>
    \E k \in 1 .. r.buffer.filled_size :
      /\ r.writing = Buf!buffers_2(BufferSize, r.buffer.filled_start, k)
      /\ Holds(r.buffer, M, n, k)

\* A stream that was ended for the peer's sake was ended after the last byte.
Ended(r, got, n) ==
  r.fin /\ r.extern_state = "work" =>
    n = got /\ "read" \notin r.ops /\ "write" \notin r.ops

\* The transfers in flight, which a stop leaves to complete.
InFlight(r, M, got, n) == Reads(r) /\ Writes(r, M, n) /\ Ended(r, got, n)

\* The buffer has what was received, got bytes, and not yet sent.
Buffered(b, M, got, n) == n + b.filled_size = got /\ Holds(b, M, n, b.filled_size)

\* The session may still write.
MayWrite(r) ==
  r.intern_state \in {"work", "shutdown"} /\ r.write_state # "stopped"

\* A shutdown under which the user may still wait follows the end of the stream.
Drained(r) ==
  r.intern_state = "shutdown" /\ r.extern_state = "work" =>
    r.read_state = "stopped"

\* The data path inside a handler: M is the memory, got the number of bytes
\* received and n that of the bytes sent.
Flow(r, M, got, n) ==
  /\ InFlight(r, M, got, n)
  /\ MayWrite(r) => Buffered(r.buffer, M, got, n)
  /\ r.intern_state = "work" => ~r.fin
  /\ Drained(r)

\* The bytes of o are numbered from the first one on.
Counted(o) == o \in Seq(Nat) /\ o = [k \in 1 .. Len(o) |-> k]

\* The inductive invariant of the data path.
EchoInv ==
  /\ IInv
  /\ mem \in [0 .. BufferSize - 1 -> Nat]
  /\ out \in Seq(Nat) /\ out = [k \in 1 .. Len(out) |-> k]
  /\ Flow(s, mem, rcvd, Len(out))

-----------------------------------------------------------------------------
(***************************************************************************)
(* The cells of the blocks handed to the socket.                            *)
(***************************************************************************)

\* A function on 1 .. n is a sequence of length n.
LEMMA FunctionSeq ==
  ASSUME NEW S, NEW n \in Nat, NEW f \in [1 .. n -> S]
  PROVE  f \in Seq(S) /\ Len(f) = n
  OBVIOUS

\* Two sequences, one after the other.
LEMMA ConcatFacts ==
  ASSUME NEW S, NEW u \in Seq(S), NEW v \in Seq(S)
  PROVE  /\ u \o v \in Seq(S) /\ Len(u \o v) = Len(u) + Len(v)
         /\ \A i \in 1 .. Len(u) : (u \o v)[i] = u[i]
         /\ \A i \in 1 .. Len(v) : (u \o v)[Len(u) + i] = v[i]
  OBVIOUS

\* The cells of n bytes from start, in order.
LEMMA CellsOf ==
  ASSUME NEW start \in 0 .. BufferSize - 1, NEW n \in 0 .. BufferSize
  PROVE  LET c == Buf!Cells(Buf!buffers_2(BufferSize, start, n))
         IN  /\ c \in Seq(Nat) /\ Len(c) = n
             /\ \A k \in 1 .. n : c[k] = Place(start, k)
  <1> DEFINE d == BufferSize - start
             x == [at |-> start, len |-> d]
             y == [at |-> 0, len |-> n - d]
             z == [at |-> start, len |-> n]
             u == [i \in 1 .. d |-> start + i - 1]
             v == [i \in 1 .. n - d |-> 0 + i - 1]
             w == [i \in 1 .. n |-> start + i - 1]
             c == Buf!Cells(Buf!buffers_2(BufferSize, start, n))
  <1> SUFFICES /\ c \in Seq(Nat) /\ Len(c) = n
               /\ \A k \in 1 .. n : c[k] = Place(start, k)
    OBVIOUS
  <1> HIDE DEF c
  <1>1. BufferSize \in Nat \ {0} /\ d \in 1 .. BufferSize
    BY ConfigAssumption
  <1>2. CASE n = 0
    <2>1. Buf!buffers_2(BufferSize, start, n) = <<>>
      BY <1>2, Zenon DEF Buf!buffers_2
    <2>2. c = <<>>
      BY <2>1 DEF Buf!Cells, c
    <2>3. <<>> \in Seq(Nat) /\ Len(<<>>) = 0
      OBVIOUS
    <2> QED
      BY <1>2, <2>2, <2>3
  <1>3. CASE n > d
    <2>1. Buf!buffers_2(BufferSize, start, n) = <<x, y>>
      BY <1>1, <1>3 DEF Buf!buffers_2
    <2>2. Buf!BlockCells(x) = u /\ Buf!BlockCells(y) = v
      BY DEF Buf!BlockCells
    <2> HIDE DEF x, y
    <2>3. /\ Len(<<x, y>>) > 0 /\ Len(<<x, y>>) > 1
          /\ <<x, y>>[1] = x /\ <<x, y>>[2] = y
      OBVIOUS
    <2>4. c = u \o v
      BY <2>1, <2>2, <2>3, Zenon DEF Buf!Cells, c
    <2>5. u \in Seq(Nat) /\ Len(u) = d /\ \A k \in 1 .. d : u[k] = start + k - 1
      <3>1. u \in [1 .. d -> Nat]
        BY <1>1
      <3> QED
        BY <1>1, <3>1, FunctionSeq
    <2>6. v \in Seq(Nat) /\ Len(v) = n - d /\ \A k \in 1 .. n - d : v[k] = k - 1
      <3>1. v \in [1 .. n - d -> Nat] /\ n - d \in Nat
        BY <1>1, <1>3
      <3> QED
        BY <3>1, FunctionSeq
    <2> HIDE DEF u, v
    <2>7. c \in Seq(Nat) /\ Len(c) = n
      <3>1. u \o v \in Seq(Nat) /\ Len(u \o v) = Len(u) + Len(v)
        <4>1. u \in Seq(Nat) /\ v \in Seq(Nat)
          BY <2>5, <2>6
        <4> QED
          BY <4>1
      <3>2. Len(u) + Len(v) = n
        BY <1>1, <2>5, <2>6
      <3> QED
        BY <2>4, <3>1, <3>2
    <2>8. ASSUME NEW k \in 1 .. n PROVE c[k] = Place(start, k)
      <3>1. CASE k <= d
        BY <1>1, <2>4, <2>5, <2>6, <3>1 DEF Place
      <3>2. CASE k > d
        <4>1. c[k] = v[k - d]
          BY <1>1, <1>3, <2>4, <2>5, <2>6, <3>2, SMTT(30)
        <4>2. k - d \in 1 .. n - d
          BY <1>1, <1>3, <3>2
        <4> QED
          BY <1>1, <2>6, <3>2, <4>1, <4>2 DEF Place
      <3> QED
        BY <1>1, <3>1, <3>2
    <2> QED
      BY <2>7, <2>8
  <1>4. CASE n > 0 /\ n <= d
    <2>1. Buf!buffers_2(BufferSize, start, n) = <<z>>
      BY <1>1, <1>4 DEF Buf!buffers_2
    <2>2. Buf!BlockCells(z) = w
      BY DEF Buf!BlockCells
    <2> HIDE DEF z
    <2>3. Len(<<z>>) > 0 /\ ~(Len(<<z>>) > 1) /\ <<z>>[1] = z
      OBVIOUS
    <2>4. c = w \o <<>>
      BY <2>1, <2>2, <2>3, Zenon DEF Buf!Cells, c
    <2>5. w \in Seq(Nat) /\ Len(w) = n /\ \A k \in 1 .. n : w[k] = start + k - 1
      <3>1. w \in [1 .. n -> Nat]
        BY <1>1
      <3> QED
        BY <3>1, FunctionSeq
    <2> HIDE DEF w
    <2>6. c = w
      BY <2>4, <2>5
    <2>7. \A k \in 1 .. n : start + k - 1 = Place(start, k)
      BY <1>1, <1>4 DEF Place
    <2> QED
      BY <2>5, <2>6, <2>7
  <1> QED
    BY <1>1, <1>2, <1>3, <1>4

\* A place is a cell; places within one turn are told apart, and a sequence goes
\* on where it was advanced to.
LEMMA Places ==
  ASSUME NEW start \in 0 .. BufferSize - 1
  PROVE  /\ \A k \in 1 .. BufferSize : Place(start, k) \in 0 .. BufferSize - 1
         /\ \A j, k \in 1 .. BufferSize : Place(start, j) = Place(start, k) => j = k
         /\ \A n \in 0 .. BufferSize : \A k \in 1 .. BufferSize - n :
              Place(Buf!Advance(BufferSize, start, n), k) = Place(start, n + k)
  BY ConfigAssumption DEF Place, Buf!Advance

\* The free cells follow the filled ones and no cell is both.
LEMMA FreeApart ==
  ASSUME NEW b \in Buf!Buffers(BufferSize), Buf!WellFormed(b),
         NEW k \in 1 .. b.nonfilled_size
  PROVE  /\ Place(b.nonfilled_start, k) = Place(b.filled_start, b.filled_size + k)
         /\ \A i \in 1 .. b.filled_size :
              Place(b.filled_start, i) # Place(b.nonfilled_start, k)
  <1>1. /\ b.size = BufferSize /\ b.filled_start \in 0 .. BufferSize - 1
        /\ b.filled_size \in 0 .. BufferSize /\ b.nonfilled_size \in 0 .. BufferSize
        /\ b.filled_size + b.nonfilled_size = BufferSize
        /\ b.nonfilled_start = Buf!Advance(BufferSize, b.filled_start, b.filled_size)
    BY BufferFields, ConfigAssumption DEF Buf!WellFormed
  <1>2. BufferSize \in Nat \ {0}
    BY ConfigAssumption
  <1>3. k \in 1 .. BufferSize - b.filled_size
    BY <1>1, <1>2
  <1>4. Place(b.nonfilled_start, k) = Place(b.filled_start, b.filled_size + k)
    BY <1>1, <1>3, Places
  <1>5. /\ b.filled_size + k \in 1 .. BufferSize
        /\ \A i \in 1 .. b.filled_size : i \in 1 .. BufferSize /\ i # b.filled_size + k
    BY <1>1, <1>2
  <1> QED
    BY <1>1, <1>4, <1>5, Places

-----------------------------------------------------------------------------
(***************************************************************************)
(* What leaves the data path alone.                                         *)
(***************************************************************************)

\* The buffer and the transfers in flight stay as they are.
SameFlow(q, r) ==
  /\ Shaped(q) /\ q.buffer = r.buffer /\ q.reading = r.reading
  /\ q.writing = r.writing /\ q.fin = r.fin
  /\ "read" \in q.ops <=> "read" \in r.ops
  /\ "write" \in q.ops <=> "write" \in r.ops

\* So does what the session may do with them.
Untouched(q, r) ==
  /\ SameFlow(q, r)
  /\ q.intern_state = r.intern_state /\ q.extern_state = r.extern_state
  /\ q.read_state = r.read_state /\ q.write_state = r.write_state

\* Two updates in a row that leave the data path alone leave it alone.
LEMMA UntouchedTwice ==
  ASSUME NEW r, NEW p, NEW q, Untouched(p, r), Untouched(q, p)
  PROVE  Untouched(q, r)
  BY DEF Untouched, SameFlow

\* Two updates in a row that keep the transfers in flight keep them.
LEMMA SameFlowTwice ==
  ASSUME NEW r, NEW p, NEW q, SameFlow(p, r), SameFlow(q, p)
  PROVE  SameFlow(q, r)
  BY DEF SameFlow

\* The operations on the timer leave the data path alone.
LEMMA TimerUntouched ==
  ASSUME NEW r, Shaped(r), NEW v
  PROVE  /\ Untouched(r, r) /\ Untouched(start_timer_wait(r), r)
         /\ Untouched(TurnTimer(r), r) /\ Untouched(cancel_timer_wait(r, v), r)
         /\ Untouched(TimerDone(r, v), r)
  <1>1. Untouched(r, r)
    BY DEF Untouched, SameFlow
  <1>2. Untouched(start_timer_wait(r), r)
    BY Fields DEF Untouched, SameFlow, Shaped, start_timer_wait
  <1>3. Untouched(TurnTimer(r), r)
    BY Fields DEF Untouched, SameFlow, Shaped, TurnTimer
  <1>4. Untouched(cancel_timer_wait(r, v), r)
    BY Fields DEF Untouched, SameFlow, Shaped, cancel_timer_wait
  <1>5. Untouched(TimerDone(r, v), r)
    BY Fields DEF Untouched, SameFlow, Shaped, TimerDone
  <1> QED
    BY <1>1, <1>2, <1>3, <1>4, <1>5

\* What the user is told leaves the data path alone.
LEMMA ToldUntouched ==
  ASSUME NEW r, Shaped(r), NEW error, NEW call
  PROVE  /\ Untouched(complete_extern_wait(r, error), r)
         /\ Untouched(Post(r, call, error), r)
  <1> DEFINE why == FirstError(r.extern_wait_error, error)
             q == [r EXCEPT !.extern_wait_error = why]
  <1>1. Untouched(q, r) /\ q.wait_handler = r.wait_handler
    BY Fields DEF Untouched, SameFlow, Shaped
  <1> HIDE DEF q
  <1>2. ASSUME NEW v
        PROVE  Untouched([q EXCEPT !.wait_handler = FALSE, !.posted = v], q)
    BY <1>1, Fields DEF Untouched, SameFlow, Shaped
  <1>3. ASSUME NEW v
        PROVE  Untouched([q EXCEPT !.wait_handler = FALSE, !.posted = v], r)
    BY <1>1, <1>2, UntouchedTwice
  <1>4. Untouched(complete_extern_wait(r, error), r)
    BY <1>1, <1>3, Zenon DEF complete_extern_wait, q
  <1>5. ASSUME NEW v PROVE Untouched([r EXCEPT !.posted = v], r)
    BY Fields DEF Untouched, SameFlow, Shaped
  <1>6. Untouched(Post(r, call, error), r)
    BY <1>5, Zenon DEF Post
  <1> QED
    BY <1>4, <1>6

\* A stop leaves the transfers in flight to complete.
LEMMA ContinueStopFlow ==
  ASSUME NEW r, Shaped(r), r.intern_state = "stop"
  PROVE  LET q == continue_stop(r)
         IN  /\ SameFlow(q, r) /\ Over(q)
             /\ q.extern_state \in {r.extern_state, "stopped"}
  <1> DEFINE t == [r EXCEPT !.intern_state = "stopped",
                            !.extern_state = "stopped"]
             u == [r EXCEPT !.intern_state = "stopped"]
             e == complete_extern_stop(t, "ok")
             q == continue_stop(r)
  <1>1. /\ SameFlow(t, r) /\ t.intern_state = "stopped"
        /\ t.extern_state = "stopped"
    BY Fields DEF SameFlow, Shaped
  <1>2. /\ SameFlow(u, r) /\ u.intern_state = "stopped"
        /\ u.extern_state = r.extern_state
    BY Fields DEF SameFlow, Shaped
  <1> HIDE DEF t, u
  <1>3. SameFlow(e, t) /\ e.intern_state = "stopped" /\ e.extern_state = "stopped"
    <2>1. ASSUME NEW v
          PROVE  LET w == [t EXCEPT !.stop_handler = FALSE, !.posted = v]
                 IN  /\ SameFlow(w, t) /\ w.intern_state = "stopped"
                     /\ w.extern_state = "stopped"
      BY <1>1, Fields DEF SameFlow, Shaped
    <2>2. SameFlow(t, t)
      BY <1>1 DEF SameFlow
    <2> QED
      BY <1>1, <2>1, <2>2, Zenon DEF complete_extern_stop
  <1> HIDE DEF e
  <1>4. SameFlow(e, r)
    BY <1>1, <1>3, SameFlowTwice
  <1>5. q = r \/ q = e \/ q = u
    BY Zenon DEF continue_stop, t, u, e
  <1>6. SameFlow(r, r)
    BY DEF SameFlow
  <1> HIDE DEF q
  <1>7. /\ SameFlow(q, r) /\ Over(q)
        /\ q.extern_state \in {r.extern_state, "stopped"}
    BY <1>2, <1>3, <1>4, <1>5, <1>6 DEF Over
  <1> QED
    BY <1>7 DEF q

\* start_stop ends the work of the session and keeps the transfers in flight:
\* their handlers still come.
LEMMA StartStopFlow ==
  ASSUME NEW r, Shaped(r), NEW error, NEW f
  PROVE  LET q == start_stop(r, error, f)
         IN  /\ SameFlow(q, r) /\ Over(q)
             /\ q.extern_state \in {r.extern_state, "stopped"}
  <1> DEFINE closed == close_socket([r EXCEPT !.intern_state = "stop",
                                              !.stop_reason = error])
             c == cancel_timer_wait(closed, "stop_cancel" \in f)
             idle == StopIdle(c)
             why == FirstError(FirstError(error,
                                 IF "close" \in f THEN "error" ELSE "ok"),
                      IF CancelFails(closed, "stop_cancel" \in f)
                      THEN "error" ELSE "ok")
             w == complete_extern_wait(idle, why)
             p == IF idle.extern_state = "work" THEN w ELSE idle
             q == continue_stop(p)
  <1>1. start_stop(r, error, f) = q
    BY Zenon DEF start_stop
  <1>2. /\ SameFlow(closed, r) /\ closed.intern_state = "stop"
        /\ closed.extern_state = r.extern_state
    BY Fields DEF SameFlow, Shaped, close_socket
  <1> HIDE DEF closed, why
  <1>3. Untouched(c, closed)
    BY <1>2, TimerUntouched DEF SameFlow
  <1> HIDE DEF c
  <1>4. /\ SameFlow(idle, c) /\ idle.intern_state = c.intern_state
        /\ idle.extern_state = c.extern_state
    <2>1. Shaped(c)
      BY <1>3 DEF Untouched, SameFlow
    <2> QED
      BY <2>1, Fields DEF SameFlow, Shaped, StopIdle
  <1> HIDE DEF idle
  <1>5. Untouched(w, idle)
    BY <1>4, ToldUntouched DEF SameFlow
  <1> HIDE DEF w
  <1>6. /\ SameFlow(p, r) /\ p.intern_state = "stop"
        /\ p.extern_state = r.extern_state
    <2>1. SameFlow(idle, r)
      BY <1>2, <1>3, <1>4, SameFlowTwice DEF Untouched
    <2>2. SameFlow(w, r)
      BY <1>5, <2>1, SameFlowTwice DEF Untouched
    <2> QED
      BY <1>2, <1>3, <1>4, <1>5, <2>1, <2>2 DEF Untouched
  <1> HIDE DEF p
  <1>7. /\ SameFlow(q, p) /\ Over(q)
        /\ q.extern_state \in {p.extern_state, "stopped"}
    BY <1>6, ContinueStopFlow DEF SameFlow
  <1> HIDE DEF q
  <1>8. /\ SameFlow(q, r) /\ Over(q)
        /\ q.extern_state \in {r.extern_state, "stopped"}
    BY <1>6, <1>7, SameFlowTwice
  <1> QED
    BY <1>1, <1>8

\* What the data path is worth after an update that leaves it alone ...
LEMMA UntouchedFlow ==
  ASSUME NEW r, NEW q, NEW M, NEW got, NEW n, Untouched(q, r)
  PROVE  /\ InFlight(r, M, got, n) => InFlight(q, M, got, n)
         /\ Flow(r, M, got, n) => Flow(q, M, got, n)
  BY DEF Untouched, SameFlow, Flow, InFlight, Reads, Writes, Ended, MayWrite,
         Drained

\* ... and after the session has begun to stop.
LEMMA OverFlow ==
  ASSUME NEW r, NEW q, NEW M, NEW got, NEW n, SameFlow(q, r), Over(q),
         q.extern_state \in {r.extern_state, "stopped"}, InFlight(r, M, got, n)
  PROVE  Flow(q, M, got, n)
  BY DEF SameFlow, Over, Flow, InFlight, Reads, Writes, Ended, MayWrite, Drained

\* A handler that gives up leaves only what is in flight.
LEMMA StopFlow ==
  ASSUME NEW r, Shaped(r), NEW error, NEW f, NEW M, NEW got, NEW n,
         InFlight(r, M, got, n)
  PROVE  Flow(start_stop(r, error, f), M, got, n)
  BY StartStopFlow, OverFlow

-----------------------------------------------------------------------------
(***************************************************************************)
(* The methods of work and shutdown.                                        *)
(***************************************************************************)

\* The blocks given to a transfer are those of one or more bytes of its sequence.
LEMMA BlocksAt ==
  ASSUME NEW b \in Buf!Buffers(BufferSize), NEW max_size \in Nat
  PROVE  /\ Buf!prepared(b, max_size) # <<>> =>
              \E k \in 1 .. b.nonfilled_size :
                Buf!prepared(b, max_size)
                = Buf!buffers_2(BufferSize, b.nonfilled_start, k)
         /\ Buf!data(b, max_size) # <<>> =>
              \E k \in 1 .. b.filled_size :
                Buf!data(b, max_size)
                = Buf!buffers_2(BufferSize, b.filled_start, k)
  <1>1. /\ b.size = BufferSize /\ b.nonfilled_size \in Nat /\ b.filled_size \in Nat
    BY BufferFields, ConfigAssumption
  <1>2. \A start : Buf!buffers_2(BufferSize, start, 0) = <<>>
    BY DEF Buf!buffers_2
  <1>3. ASSUME Buf!prepared(b, max_size) # <<>>
        PROVE  \E k \in 1 .. b.nonfilled_size :
                 Buf!prepared(b, max_size)
                 = Buf!buffers_2(BufferSize, b.nonfilled_start, k)
    <2> DEFINE k == Buf!Least(b.nonfilled_size, max_size)
    <2>1. Buf!prepared(b, max_size)
          = Buf!buffers_2(BufferSize, b.nonfilled_start, k)
      BY <1>1, Zenon DEF Buf!prepared
    <2>2. k # 0
      BY <1>2, <1>3, <2>1
    <2>3. k \in 1 .. b.nonfilled_size
      BY <1>1, <2>2 DEF Buf!Least
    <2> HIDE DEF k
    <2> QED
      BY <2>1, <2>3
  <1>4. ASSUME Buf!data(b, max_size) # <<>>
        PROVE  \E k \in 1 .. b.filled_size :
                 Buf!data(b, max_size)
                 = Buf!buffers_2(BufferSize, b.filled_start, k)
    <2> DEFINE k == Buf!Least(b.filled_size, max_size)
    <2>1. Buf!data(b, max_size)
          = Buf!buffers_2(BufferSize, b.filled_start, k)
      BY <1>1, Zenon DEF Buf!data
    <2>2. k # 0
      BY <1>2, <1>4, <2>1
    <2>3. k \in 1 .. b.filled_size
      BY <1>1, <2>2 DEF Buf!Least
    <2> HIDE DEF k
    <2> QED
      BY <2>1, <2>3
  <1> QED
    BY <1>3, <1>4

\* A new read is given free cells.
LEMMA ReadMoreFlow ==
  ASSUME NEW r, Active(r), NEW max_size \in Nat, NEW M, NEW got, NEW n,
         Flow(r, M, got, n)
  PROVE  Flow(ReadMore(r, max_size), M, got, n)
  <1> DEFINE v == Buf!prepared(r.buffer, max_size)
             q == start_socket_read(r, v)
  <1>1. /\ Shaped(r) /\ r.buffer \in Buf!Buffers(BufferSize)
        /\ r.intern_state \in {"work", "shutdown"}
    BY Members, StatesShaped DEF Active, Core
  <1>2. ASSUME r.read_state = "wait", v # <<>>
        PROVE  Flow(q, M, got, n)
    <2>1. \E k \in 1 .. r.buffer.nonfilled_size :
            v = Buf!buffers_2(BufferSize, r.buffer.nonfilled_start, k)
      BY <1>1, <1>2, BlocksAt
    <2> HIDE DEF v
    <2>2. /\ q.buffer = r.buffer /\ q.reading = v /\ q.writing = r.writing
          /\ q.fin = r.fin /\ q.ops = r.ops \cup {"read"}
          /\ q.read_state = "in_progress" /\ q.write_state = r.write_state
          /\ q.intern_state = r.intern_state /\ q.extern_state = r.extern_state
      BY <1>1, Fields DEF Shaped, start_socket_read
    <2> HIDE DEF q
    <2>3. ~(r.fin /\ r.extern_state = "work")
      BY <1>1, <1>2 DEF Flow, Drained
    <2>4. Reads(q)
      BY <2>1, <2>2 DEF Reads
    <2>5. Writes(q, M, n)
      BY <2>2 DEF Flow, InFlight, Writes
    <2>6. Ended(q, got, n) /\ Drained(q)
      BY <1>1, <1>2, <2>2, <2>3 DEF Flow, Ended, Drained
    <2> QED
      BY <2>2, <2>4, <2>5, <2>6 DEF Flow, InFlight, MayWrite
  <1>3. ReadMore(r, max_size) = IF r.read_state = "wait" /\ v # <<>> THEN q ELSE r
    BY Zenon DEF ReadMore
  <1> HIDE DEF q, v
  <1> QED
    BY <1>2, <1>3

\* A new write is given the first bytes that wait to be sent.
LEMMA WriteMoreFlow ==
  ASSUME NEW r, Active(r), NEW M, NEW got, NEW n \in Nat, Flow(r, M, got, n),
         NEW m, m = WriteMore(r)
  PROVE  /\ Flow(m, M, got, n) /\ m.buffer = r.buffer
         /\ "read" \in m.ops <=> "read" \in r.ops
  <1> DEFINE v == Buf!data(r.buffer, MaxTransfer)
             q == start_socket_write(r, v)
  <1>1. /\ Shaped(r) /\ r.buffer \in Buf!Buffers(BufferSize)
        /\ r.intern_state \in {"work", "shutdown"}
        /\ r.buffer.filled_size \in Nat
    BY Members, StatesShaped, BufferFields, ConfigAssumption DEF Active, Core
  <1>2. ASSUME r.write_state = "wait", v # <<>>
        PROVE  /\ Flow(q, M, got, n) /\ q.buffer = r.buffer
               /\ "read" \in q.ops <=> "read" \in r.ops
    <2>1. PICK k \in 1 .. r.buffer.filled_size :
            v = Buf!buffers_2(BufferSize, r.buffer.filled_start, k)
      BY <1>1, <1>2, BlocksAt, ConfigAssumption
    <2> HIDE DEF v
    <2>2. /\ q.buffer = r.buffer /\ q.reading = r.reading /\ q.writing = v
          /\ q.fin = r.fin /\ q.ops = r.ops \cup {"write"}
          /\ q.read_state = r.read_state /\ q.write_state = "in_progress"
          /\ q.intern_state = r.intern_state /\ q.extern_state = r.extern_state
      BY <1>1, Fields DEF Shaped, start_socket_write
    <2> HIDE DEF q
    <2>3. Buffered(r.buffer, M, got, n)
      BY <1>1, <1>2 DEF Flow, MayWrite
    <2>4. Holds(r.buffer, M, n, k)
      BY <1>1, <2>1, <2>3 DEF Buffered, Holds
    <2>5. Writes(q, M, n)
      BY <2>1, <2>2, <2>4 DEF Writes
    <2>6. Reads(q)
      BY <2>2 DEF Flow, InFlight, Reads
    <2>7. ~(r.fin /\ r.extern_state = "work")
      <3>1. CASE r.intern_state = "work"
        BY <3>1 DEF Flow
      <3>2. CASE r.intern_state = "shutdown" /\ r.fin /\ r.extern_state = "work"
        <4>1. n = got /\ n + r.buffer.filled_size = got
          BY <2>3, <3>2 DEF Flow, InFlight, Ended, Buffered
        <4> QED
          BY <1>1, <2>1, <4>1
      <3> QED
        BY <1>1, <3>1, <3>2
    <2>8. Ended(q, got, n) /\ Drained(q)
      BY <2>2, <2>7 DEF Flow, Ended, Drained
    <2> QED
      BY <2>2, <2>3, <2>5, <2>6, <2>8 DEF Flow, InFlight, MayWrite
  <1>3. m = IF r.write_state = "wait" /\ v # <<>> THEN q ELSE r
    BY Zenon DEF WriteMore
  <1> HIDE DEF q, v
  <1> QED
    BY <1>2, <1>3

\* The watchdog leaves the data path alone or stops the session.
LEMMA TimerWaitFlow ==
  ASSUME NEW r, Shaped(r), NEW f, NEW M, NEW got, NEW n, Flow(r, M, got, n)
  PROVE  /\ Flow(continue_timer_wait(r, f), M, got, n)
         /\ \A restart : Flow(RestartTimer(r, restart, f), M, got, n)
  <1> DEFINE t == TurnTimer(r)
             w == start_timer_wait(t)
             x == start_stop(r, "error", f)
             q == continue_timer_wait(r, f)
  <1>1. q = r \/ q = x \/ q = w \/ q = t
    BY Zenon DEF continue_timer_wait
  <1>2. Untouched(t, r)
    BY TimerUntouched
  <1> HIDE DEF t
  <1>3. Untouched(w, r)
    BY <1>2, TimerUntouched, UntouchedTwice DEF Untouched, SameFlow
  <1> HIDE DEF w
  <1>4. Flow(x, M, got, n)
    BY StopFlow DEF Flow
  <1> HIDE DEF x
  <1>5. Flow(t, M, got, n) /\ Flow(w, M, got, n)
    BY <1>2, <1>3, UntouchedFlow
  <1>6. Flow(q, M, got, n)
    BY <1>1, <1>4, <1>5
  <1> HIDE DEF q
  <1>7. \A restart : RestartTimer(r, restart, f) = IF restart THEN q ELSE r
    BY Zenon DEF RestartTimer, q
  <1> QED
    BY <1>6, <1>7 DEF q

\* continue_work keeps the data path.
LEMMA WorkFlow ==
  ASSUME NEW r, Active(r), Phases(r), NEW f, NEW M, NEW got, NEW n \in Nat,
         Flow(r, M, got, n)
  PROVE  Flow(continue_work(r, f), M, got, n)
  <1> DEFINE p == ReadMore(r, MaxTransfer)
             m == WriteMore(p)
  <1>1. continue_work(r, f) = continue_timer_wait(m, f)
    BY Zenon DEF continue_work
  <1>2. MaxTransfer \in Nat
    BY ConfigAssumption
  <1>3. Active(p) /\ Phases(p) /\ Flow(p, M, got, n)
    BY <1>2, ReadMoreActive, ReadMoreFlow
  <1> HIDE DEF p
  <1>4. Active(m) /\ Flow(m, M, got, n)
    BY <1>3, WriteMoreActive, WriteMoreFlow
  <1> HIDE DEF m
  <1>5. Shaped(m)
    BY <1>4, StatesShaped DEF Active, Core
  <1> QED
    BY <1>1, <1>4, <1>5, TimerWaitFlow

\* The outgoing stream is ended only when nobody counts on it, or when all is sent.
LEMMA EndOutputFlow ==
  ASSUME NEW r, Shaped(r), NEW M, NEW got, NEW n, Flow(r, M, got, n),
         r.intern_state = "shutdown",
         r.extern_state = "work" => /\ n = got /\ "read" \notin r.ops
                                    /\ "write" \notin r.ops
  PROVE  Flow(EndOutput(r), M, got, n) /\ Flow(StopWriting(r), M, got, n)
  <1> DEFINE q == EndOutput(r)
             p == StopWriting(r)
  <1>1. /\ q.buffer = r.buffer /\ q.reading = r.reading /\ q.writing = r.writing
        /\ q.ops = r.ops /\ q.read_state = r.read_state
        /\ q.write_state = "stopped" /\ q.intern_state = r.intern_state
        /\ q.extern_state = r.extern_state
    BY Fields DEF Shaped, EndOutput, shutdown_socket
  <1>2. /\ p.buffer = r.buffer /\ p.reading = r.reading /\ p.writing = r.writing
        /\ p.ops = r.ops /\ p.read_state = r.read_state
        /\ p.write_state = "stopped" /\ p.intern_state = r.intern_state
        /\ p.extern_state = r.extern_state
    BY Fields DEF Shaped, StopWriting
  <1> HIDE DEF p, q
  <1>3. Flow(q, M, got, n)
    BY <1>1 DEF Flow, InFlight, Reads, Writes, Ended, MayWrite, Drained
  <1>4. Flow(p, M, got, n)
    BY <1>2 DEF Flow, InFlight, Reads, Writes, Ended, MayWrite, Drained
  <1> QED
    BY <1>3, <1>4 DEF p, q

\* The buffer is emptied only when nothing is in flight and nothing to be sent.
LEMMA ResetBufferFlow ==
  ASSUME NEW r, Shaped(r), NEW M, NEW got, NEW n, Flow(r, M, got, n),
         "read" \notin r.ops, "write" \notin r.ops, r.write_state = "stopped"
  PROVE  Flow(ResetBuffer(r), M, got, n)
  <1> DEFINE q == ResetBuffer(r)
  <1>1. /\ q.ops = r.ops /\ q.read_state = r.read_state
        /\ q.write_state = r.write_state /\ q.intern_state = r.intern_state
        /\ q.extern_state = r.extern_state /\ q.fin = r.fin
    BY Fields DEF Shaped, ResetBuffer
  <1> HIDE DEF q
  <1>2. Flow(q, M, got, n)
    BY <1>1 DEF Flow, InFlight, Reads, Writes, Ended, MayWrite, Drained
  <1> QED
    BY <1>2 DEF q

\* continue_shutdown sends what is buffered before it ends the stream, unless the
\* user has asked for the stop.
LEMMA ShutdownFlow ==
  ASSUME NEW r, Active(r), Phases(r), r.intern_state = "shutdown",
         NEW restart, NEW f, NEW M, NEW got \in Nat, NEW n \in Nat,
         Flow(r, M, got, n)
  PROVE  Flow(continue_shutdown(r, restart, f), M, got, n)
  <1> DEFINE x == start_stop(r, "error", f)
             w == IF r.write_state = "wait" THEN EndOutput(r) ELSE r
             b == IF w.write_state = "stopped" THEN ResetBuffer(w) ELSE w
             m == ReadMore(b, b.buffer.nonfilled_size)
             k == WriteMore(r)
             o == IF k.write_state # "wait" THEN k
                  ELSE IF "shutdown" \in f THEN [k EXCEPT !.write_state = "stopped"]
                  ELSE EndOutput(k)
             y == start_stop(o, "ok", f)
             q == continue_shutdown(r, restart, f)
  <1>1. \/ q = x
        \/ q = RestartTimer(m, restart, f) /\ r.read_state = "wait"
        \/ q = RestartTimer(w, restart, f) /\ r.read_state = "in_progress"
        \/ q = y /\ r.read_state \notin {"wait", "in_progress"}
        \/ q = RestartTimer(o, restart, f)
           /\ r.read_state \notin {"wait", "in_progress"}
    BY Zenon DEF continue_shutdown, continue_shutdown_at_read_wait,
       continue_shutdown_at_read_in_progress, continue_shutdown_at_read_stopped
  <1> HIDE DEF q
  <1>2. /\ Shaped(r) /\ r.write_state \in {"wait", "in_progress", "stopped"}
        /\ "read" \in r.ops <=> r.read_state = "in_progress"
        /\ "write" \in r.ops <=> r.write_state = "in_progress"
    BY StatesShaped, Members DEF Active, Core, OpsMatch
  <1>3. Flow(x, M, got, n)
    BY <1>2, StopFlow DEF Flow
  <1> HIDE DEF x
  <1>4. ASSUME r.read_state # "stopped"
        PROVE  /\ Active(w) /\ Phases(w) /\ Flow(w, M, got, n) /\ Shaped(w)
               /\ w.read_state = r.read_state /\ w.intern_state = "shutdown"
    <2>1. r.extern_state # "work"
      BY <1>4 DEF Flow, Drained
    <2>2. CASE r.write_state = "wait"
      <3> DEFINE e == EndOutput(r)
      <3>1. /\ Active(e) /\ Phases(e) /\ SamePhase(e, r)
            /\ e.read_state = r.read_state
        BY <2>2, EndWritingActive
      <3>2. Flow(e, M, got, n)
        BY <1>2, <2>1, EndOutputFlow
      <3> HIDE DEF e
      <3>3. w = e
        BY <2>2 DEF e
      <3> HIDE DEF w
      <3> QED
        BY <3>1, <3>2, <3>3, StatesShaped DEF Active, Core, SamePhase
    <2>3. CASE r.write_state # "wait"
      BY <1>2, <2>3
    <2> QED
      BY <2>2, <2>3
  <1> HIDE DEF w
  <1>5. ASSUME r.read_state = "wait"
        PROVE  Flow(m, M, got, n) /\ Shaped(m)
    <2>0. /\ Active(w) /\ Phases(w) /\ Flow(w, M, got, n) /\ Shaped(w)
          /\ w.read_state = "wait"
      BY <1>4, <1>5
    <2>1. Active(b) /\ Phases(b) /\ Flow(b, M, got, n)
      <3>1. CASE w.write_state = "stopped"
        <4> DEFINE e == ResetBuffer(w)
        <4>1. Active(e) /\ SamePhase(e, w) /\ SameOps(e, w)
          BY <2>0, <3>1, ResetBufferActive
        <4>2. "read" \notin w.ops /\ "write" \notin w.ops
          BY <2>0, <3>1 DEF Active, Core, OpsMatch
        <4>3. Flow(e, M, got, n)
          BY <2>0, <3>1, <4>2, ResetBufferFlow
        <4> HIDE DEF e
        <4>4. b = e
          BY <3>1 DEF e
        <4>5. Phases(e)
          BY <2>0, <4>1, PhasesSame
        <4> QED
          BY <4>1, <4>3, <4>4, <4>5
      <3>2. CASE w.write_state # "stopped"
        BY <2>0, <3>2
      <3> QED
        BY <3>1, <3>2
    <2> HIDE DEF b
    <2>2. b.buffer.nonfilled_size \in Nat
      BY <2>1, Members, BufferFields, ConfigAssumption DEF Active, Core
    <2>3. Active(m) /\ Flow(m, M, got, n)
      BY <2>1, <2>2, ReadMoreActive, ReadMoreFlow
    <2> HIDE DEF m
    <2> QED
      BY <2>3, StatesShaped DEF Active, Core
  <1> HIDE DEF b, m
  <1>6. ASSUME r.read_state \notin {"wait", "in_progress"}
        PROVE  Flow(o, M, got, n) /\ Shaped(o)
    <2>1. /\ Active(k) /\ SamePhase(k, r) /\ Flow(k, M, got, n)
          /\ k.buffer = r.buffer /\ "read" \notin k.ops
      BY <1>2, <1>6, WriteMoreActive, WriteMoreFlow
    <2>2. k.write_state = IF r.write_state = "wait" /\ r.buffer.filled_size > 0
                          THEN "in_progress" ELSE r.write_state
      BY MoreStates, ConfigAssumption
    <2> HIDE DEF k
    <2>3. /\ Shaped(k) /\ k.intern_state = "shutdown"
          /\ "write" \in k.ops <=> k.write_state = "in_progress"
          /\ r.buffer.filled_size \in Nat
      BY <2>1, StatesShaped, Members, BufferFields, ConfigAssumption
         DEF Active, Core, OpsMatch, SamePhase
    <2>4. CASE k.write_state # "wait"
      BY <2>1, <2>3, <2>4
    <2>5. CASE k.write_state = "wait"
      <3>1. r.buffer.filled_size = 0
        BY <2>2, <2>3, <2>5
      <3>2. Buffered(k.buffer, M, got, n)
        BY <2>1, <2>3, <2>5 DEF Flow, MayWrite
      <3>3. n = got
        BY <2>1, <3>1, <3>2 DEF Buffered
      <3>4. Flow(EndOutput(k), M, got, n) /\ Flow(StopWriting(k), M, got, n)
        BY <2>1, <2>3, <2>5, <3>3, EndOutputFlow
      <3>5. Shaped(EndOutput(k)) /\ Shaped(StopWriting(k))
        BY <2>3, TimerAlone DEF SameTimer
      <3>6. o = EndOutput(k) \/ o = StopWriting(k)
        BY <2>5, Zenon DEF StopWriting
      <3> HIDE DEF o
      <3> QED
        BY <3>4, <3>5, <3>6
    <2> QED
      BY <2>4, <2>5
  <1> HIDE DEF o
  <1>7. ASSUME r.read_state \notin {"wait", "in_progress"}
        PROVE  Flow(y, M, got, n)
    BY <1>6, <1>7, StopFlow DEF Flow
  <1> HIDE DEF y
  <1>8. Flow(q, M, got, n)
    <2>1. CASE q = RestartTimer(m, restart, f) /\ r.read_state = "wait"
      BY <1>5, <2>1, TimerWaitFlow
    <2>2. CASE q = RestartTimer(w, restart, f) /\ r.read_state = "in_progress"
      BY <1>4, <2>2, TimerWaitFlow
    <2>3. CASE q = RestartTimer(o, restart, f)
               /\ r.read_state \notin {"wait", "in_progress"}
      BY <1>6, <2>3, TimerWaitFlow
    <2> QED
      BY <1>1, <1>3, <1>7, <2>1, <2>2, <2>3
  <1> QED
    BY <1>8 DEF q

\* A shutdown begins with the end of the stream, or because the user asks.
LEMMA StartShutdownFlow ==
  ASSUME NEW r, Active(r), r.timer_state # "stopped", NEW error \in Errors,
         NEW restart, NEW f, NEW M, NEW got \in Nat, NEW n \in Nat,
         InFlight(r, M, got, n), MayWrite(r) => Buffered(r.buffer, M, got, n),
         r.extern_state = "work" => r.read_state = "stopped"
  PROVE  Flow(start_shutdown(r, error, restart, f), M, got, n)
  <1> DEFINE p == [r EXCEPT !.intern_state = "shutdown"]
             t == complete_extern_wait(p, error)
             m == IF r.extern_state = "work" THEN t ELSE p
  <1>1. r \in SessionStates /\ Core(r) /\ Shaped(r)
    BY StatesShaped DEF Active, Core
  <1>2. start_shutdown(r, error, restart, f) = continue_shutdown(m, restart, f)
    BY Zenon DEF start_shutdown
  <1>3. /\ p \in SessionStates /\ SameUser(p, r) /\ SameOps(p, r)
        /\ SameData(p, r) /\ p.intern_state = "shutdown" /\ p.open = r.open
    BY <1>1, InternFrame, Zenon
  <1>4. Shaped(p) /\ p.fin = r.fin
    BY <1>1, Fields DEF Shaped
  <1> HIDE DEF p
  <1>5. /\ t \in SessionStates /\ SamePhase(t, p) /\ SameOps(t, p)
        /\ SameData(t, p) /\ t.extern_state = p.extern_state
        /\ t.stop_handler = p.stop_handler /\ ~t.wait_handler
    BY <1>3, CompleteWaitFrame, Zenon
  <1>6. Untouched(t, p)
    BY <1>4, ToldUntouched
  <1> HIDE DEF t
  <1>7. /\ m \in SessionStates /\ SameOps(m, r) /\ SameData(m, r)
        /\ m.intern_state = "shutdown" /\ m.extern_state = r.extern_state
        /\ m.stop_handler = r.stop_handler /\ ~m.wait_handler
    BY <1>3, <1>5
       DEF Active, WaitParked, SameOps, SameData, SamePhase, SameUser
  <1>8. m.fin = r.fin
    BY <1>4, <1>6 DEF Untouched, SameFlow
  <1> HIDE DEF m
  <1>9. Active(m) /\ Phases(m)
    <2>1. OpsMatch(m)
      BY <1>1, <1>7 DEF Core, OpsMatch, SameOps
    <2>2. BufferFits(m)
      BY <1>1, <1>7 DEF Active, Core, BufferFits, SameOps, SameData
    <2> QED
      BY <1>7, <2>1, <2>2 DEF Active, Core, WaitParked, Phases, SameOps
  <1>10. Flow(m, M, got, n)
    BY <1>7, <1>8
       DEF Active, Flow, InFlight, Reads, Writes, Ended, MayWrite, Drained,
           SameOps, SameData
  <1> QED
    BY <1>2, <1>7, <1>9, <1>10, ShutdownFlow

-----------------------------------------------------------------------------
(***************************************************************************)
(* The transfers.                                                           *)
(***************************************************************************)

\* The members of a buffer after consume and commit.
LEMMA MovedStarts ==
  ASSUME NEW b \in Buf!Buffers(BufferSize), NEW k
  PROVE  /\ Buf!consume(b, k).filled_start = b.filled_start
         /\ Buf!consume(b, k).filled_size = b.filled_size + k
         /\ Buf!consume(b, k).nonfilled_size = b.nonfilled_size - k
         /\ Buf!commit(b, k).nonfilled_start = b.nonfilled_start
         /\ Buf!commit(b, k).filled_size = b.filled_size - k
         /\ Buf!commit(b, k).nonfilled_size = b.nonfilled_size + k
         /\ Buf!commit(b, k).filled_start
            = Buf!Advance(BufferSize, b.filled_start, k)
  <1>1. b.size = BufferSize
    BY BufferFields, ConfigAssumption
  <1>2. DOMAIN b = {"size", "nonfilled_start", "nonfilled_size", "filled_start",
                    "filled_size"}
    BY DEF Buf!Buffers
  <1> QED
    BY <1>1, <1>2 DEF Buf!consume, Buf!commit

\* The memory N is M after k bytes have arrived for the read of r.
Arrival(r, M, N, got, k) ==
  N = [i \in DOMAIN M |->
         IF \E j \in 1 .. k : Buf!Cells(r.reading)[j] = i
         THEN got + (CHOOSE j \in 1 .. k : Buf!Cells(r.reading)[j] = i)
         ELSE M[i]]

\* The memory N is M after k bytes were stored into the first free cells of b.
Stored(b, M, N, got, k) ==
  /\ \A i \in 1 .. b.filled_size :
       N[Place(b.filled_start, i)] = M[Place(b.filled_start, i)]
  /\ \A i \in 1 .. k : N[Place(b.nonfilled_start, i)] = got + i

\* The bytes of a read arrive in free cells, one after the other.
LEMMA Received ==
  ASSUME NEW r, Core(r), "read" \in r.ops, Reads(r), NEW k \in Nat,
         k <= Buf!BytesIn(r.reading),
         NEW M \in [0 .. BufferSize - 1 -> Nat], NEW got \in Nat, NEW N,
         Arrival(r, M, N, got, k)
  PROVE  /\ N \in [0 .. BufferSize - 1 -> Nat] /\ k <= r.buffer.nonfilled_size
         /\ Stored(r.buffer, M, N, got, k)
  <1> DEFINE b == r.buffer
             c == Buf!Cells(r.reading)
  <1>1. /\ b \in Buf!Buffers(BufferSize) /\ Buf!WellFormed(b)
        /\ BufferSize \in Nat \ {0}
        /\ b.nonfilled_start \in 0 .. BufferSize - 1
        /\ b.filled_start \in 0 .. BufferSize - 1
        /\ b.nonfilled_size \in 0 .. BufferSize
        /\ b.filled_size \in 0 .. BufferSize
    BY Members, BufferFields, ConfigAssumption DEF Core, BufferFits
  <1>2. PICK l \in 1 .. b.nonfilled_size :
          r.reading = Buf!buffers_2(BufferSize, b.nonfilled_start, l)
    BY DEF Reads
  <1>3. l \in 0 .. BufferSize
    BY <1>1, <1>2
  <1>4. Buf!BytesIn(r.reading) = l
    <2>1. BufferSize \in Nat \ {0}
      BY ConfigAssumption
    <2>2. Buf!BytesIn(Buf!buffers_2(BufferSize, b.nonfilled_start, l)) = l
      <3> HIDE DEF b
      <3> QED
        BY <1>1, <1>3, <2>1, BlocksOfSize
    <2> QED
      BY <1>2, <2>2
  <1>5. \A j \in 1 .. l : c[j] = Place(b.nonfilled_start, j)
    <2>1. \A j \in 1 .. l :
            Buf!Cells(Buf!buffers_2(BufferSize, b.nonfilled_start, l))[j]
            = Place(b.nonfilled_start, j)
      BY <1>1, <1>3, CellsOf
    <2> QED
      BY <1>2, <2>1, Zenon
  <1> HIDE DEF c
  <1>6. k <= l /\ k <= b.nonfilled_size /\ k <= BufferSize
    <2>1. k <= l
      BY <1>4
    <2>2. /\ l <= b.nonfilled_size /\ l \in Nat /\ b.nonfilled_size \in Nat
          /\ l <= BufferSize /\ BufferSize \in Nat
      BY <1>1, <1>2, <1>3
    <2> HIDE DEF b
    <2> QED
      BY <2>1, <2>2
  <1>7. \A j \in 1 .. k : c[j] = Place(b.nonfilled_start, j)
    BY <1>5, <1>6
  <1>8. N = [i \in 0 .. BufferSize - 1 |->
               IF \E j \in 1 .. k : c[j] = i
               THEN got + (CHOOSE j \in 1 .. k : c[j] = i) ELSE M[i]]
    <2>1. DOMAIN M = 0 .. BufferSize - 1
      OBVIOUS
    <2> QED
      BY <2>1, Zenon DEF c, Arrival
  <1>9. N \in [0 .. BufferSize - 1 -> Nat]
    <2>1. ASSUME NEW i \in 0 .. BufferSize - 1 PROVE N[i] \in Nat
      <3>1. CASE \E j \in 1 .. k : c[j] = i
        <4>1. (CHOOSE j \in 1 .. k : c[j] = i) \in 1 .. k
          BY <3>1
        <4>2. N[i] = got + (CHOOSE j \in 1 .. k : c[j] = i)
          BY <1>8, <3>1
        <4> QED
          BY <4>1, <4>2
      <3>2. CASE ~ \E j \in 1 .. k : c[j] = i
        BY <1>8, <3>2
      <3> QED
        BY <3>1, <3>2
    <2> QED
      BY <1>8, <2>1
  <1>10. ASSUME NEW i \in 1 .. b.filled_size
         PROVE  N[Place(b.filled_start, i)] = M[Place(b.filled_start, i)]
    <2>1. i \in 1 .. BufferSize
      BY <1>1
    <2>2. Place(b.filled_start, i) \in 0 .. BufferSize - 1
      BY <1>1, <2>1, Places
    <2>3. \A j \in 1 .. k : c[j] # Place(b.filled_start, i)
      <3> SUFFICES ASSUME NEW j \in 1 .. k PROVE c[j] # Place(b.filled_start, i)
        OBVIOUS
      <3>1. j \in 1 .. b.nonfilled_size
        BY <1>1, <1>6
      <3>2. Place(b.filled_start, i) # Place(b.nonfilled_start, j)
        BY <1>1, <3>1, FreeApart
      <3> QED
        BY <1>7, <3>2
    <2> QED
      BY <1>8, <2>2, <2>3
  <1>11. ASSUME NEW i \in 1 .. k
         PROVE  N[Place(b.nonfilled_start, i)] = got + i
    <2> DEFINE a == Place(b.nonfilled_start, i)
    <2>1. i \in 1 .. BufferSize /\ \A j \in 1 .. k : j \in 1 .. BufferSize
      BY <1>1, <1>6
    <2>2. a \in 0 .. BufferSize - 1
      BY <1>1, <2>1, Places
    <2>3. \A j \in 1 .. k : c[j] = a => j = i
      BY <1>1, <1>7, <2>1, Places
    <2>4. c[i] = a
      BY <1>7
    <2> HIDE DEF a
    <2>5. (CHOOSE j \in 1 .. k : c[j] = a) = i
      BY <2>3, <2>4
    <2>6. N[a] = got + (CHOOSE j \in 1 .. k : c[j] = a)
      <3>1. \E j \in 1 .. k : c[j] = a
        BY <2>4
      <3> QED
        BY <1>8, <2>2, <3>1, Zenon
    <2> QED
      BY <2>5, <2>6 DEF a
  <1> QED
    BY <1>6, <1>9, <1>10, <1>11 DEF Stored

\* What is counted on from a count is one.
LEMMA CountedOn ==
  ASSUME NEW o \in Seq(Nat), \A i \in 1 .. Len(o) : o[i] = i, NEW k \in Nat,
         NEW v \in [1 .. k -> Nat], \A i \in 1 .. k : v[i] = Len(o) + i
  PROVE  /\ o \o v \in Seq(Nat) /\ Len(o \o v) = Len(o) + k
         /\ o \o v = [i \in 1 .. Len(o) + k |-> i]
  <1> DEFINE q == o \o v
  <1>1. v \in Seq(Nat) /\ Len(v) = k /\ Len(o) \in Nat
    BY FunctionSeq
  <1>2. /\ q \in Seq(Nat) /\ Len(q) = Len(o) + k
        /\ \A i \in 1 .. Len(o) : q[i] = o[i]
        /\ \A i \in 1 .. k : q[Len(o) + i] = v[i]
    <2>1. /\ q \in Seq(Nat) /\ Len(q) = Len(o) + Len(v)
          /\ \A i \in 1 .. Len(o) : q[i] = o[i]
          /\ \A i \in 1 .. Len(v) : q[Len(o) + i] = v[i]
      <3>1. o \in Seq(Nat) /\ v \in Seq(Nat)
        BY <1>1
      <3> QED
        BY <3>1, ConcatFacts
    <2> QED
      BY <1>1, <2>1, Zenon
  <1> HIDE DEF q
  <1>3. ASSUME NEW i \in 1 .. Len(o) + k PROVE q[i] = i
    <2>1. CASE i \in 1 .. Len(o)
      BY <1>2, <2>1
    <2>2. CASE i \notin 1 .. Len(o)
      <3> DEFINE l == Len(o)
                 j == i - l
      <3>1. l \in Nat /\ i \in 1 .. l + k /\ i \notin 1 .. l
        BY <1>1, <2>2
      <3> HIDE DEF l
      <3>2. j \in 1 .. k /\ i = l + j
        BY <3>1
      <3> HIDE DEF j
      <3>3. q[l + j] = v[j] /\ v[j] = l + j
        BY <1>2, <3>2, Zenon DEF l
      <3> QED
        BY <3>2, <3>3
    <2> QED
      BY <2>1, <2>2
  <1>4. q = [i \in 1 .. Len(o) + k |-> q[i]]
    BY <1>2
  <1>5. q = [i \in 1 .. Len(o) + k |-> i]
    BY <1>3, <1>4
  <1> QED
    BY <1>2, <1>5 DEF q

\* The stream q is o after k bytes of the write of r have left.
Departure(r, M, o, q, k) ==
  q = o \o [i \in 1 .. k |-> M[Buf!Cells(r.writing)[i]]]

\* The bytes of a write leave in the order of the cells.
LEMMA Sent ==
  ASSUME NEW r, Core(r), "write" \in r.ops, NEW k \in Nat,
         k <= Buf!BytesIn(r.writing), NEW M \in [0 .. BufferSize - 1 -> Nat],
         NEW o, Counted(o),
         Writes(r, M, Len(o)), NEW q, Departure(r, M, o, q, k)
  PROVE  Counted(q) /\ Len(q) = Len(o) + k /\ k <= r.buffer.filled_size
  <1> SUFFICES ASSUME o \in Seq(Nat), o = [i \in 1 .. Len(o) |-> i]
               PROVE  /\ q \in Seq(Nat) /\ Len(q) = Len(o) + k
                      /\ q = [i \in 1 .. Len(q) |-> i] /\ k <= r.buffer.filled_size
    BY Zenon DEF Counted
  <1> DEFINE b == r.buffer
             c == Buf!Cells(r.writing)
             v == [i \in 1 .. k |-> Len(o) + i]
  <1>1. /\ b \in Buf!Buffers(BufferSize) /\ BufferSize \in Nat \ {0}
        /\ b.filled_start \in 0 .. BufferSize - 1
        /\ b.filled_size \in 0 .. BufferSize /\ Len(o) \in Nat
    BY Members, BufferFields, ConfigAssumption DEF Core
  <1>2. PICK l \in 1 .. b.filled_size :
          /\ r.writing = Buf!buffers_2(BufferSize, b.filled_start, l)
          /\ Holds(b, M, Len(o), l)
    BY DEF Writes
  <1>3. l \in 0 .. BufferSize
    BY <1>1, <1>2
  <1>4. Buf!BytesIn(r.writing) = l
    <2>1. BufferSize \in Nat \ {0}
      BY ConfigAssumption
    <2>2. Buf!BytesIn(Buf!buffers_2(BufferSize, b.filled_start, l)) = l
      <3> HIDE DEF b
      <3> QED
        BY <1>1, <1>3, <2>1, BlocksOfSize
    <2> QED
      BY <1>2, <2>2
  <1>5. \A j \in 1 .. l : c[j] = Place(b.filled_start, j)
    <2>1. \A j \in 1 .. l :
            Buf!Cells(Buf!buffers_2(BufferSize, b.filled_start, l))[j]
            = Place(b.filled_start, j)
      BY <1>1, <1>3, CellsOf
    <2> QED
      BY <1>2, <2>1, Zenon
  <1> HIDE DEF c
  <1>6. k <= l /\ k <= b.filled_size
    <2>1. k <= l
      BY <1>4
    <2>2. l <= b.filled_size /\ l \in Nat /\ b.filled_size \in Nat
      BY <1>1, <1>2
    <2> HIDE DEF b
    <2> QED
      BY <2>1, <2>2
  <1>7. \A j \in 1 .. k : M[c[j]] = Len(o) + j
    <2>1. \A j \in 1 .. k : j \in 1 .. l
      BY <1>3, <1>6
    <2>2. \A j \in 1 .. l : M[Place(b.filled_start, j)] = Len(o) + j
      BY <1>2, Zenon DEF Holds
    <2> QED
      BY <1>5, <2>1, <2>2, Zenon
  <1>8. q = o \o v
    <2>1. [i \in 1 .. k |-> M[c[i]]] = v
      BY <1>7
    <2> HIDE DEF v
    <2> QED
      BY <2>1 DEF c, Departure
  <1>9. v \in [1 .. k -> Nat] /\ \A i \in 1 .. k : v[i] = Len(o) + i
    BY <1>1
  <1> HIDE DEF v
  <1>10. \A i \in 1 .. Len(o) : o[i] = i
    BY Zenon
  <1>11. /\ o \o v \in Seq(Nat) /\ Len(o \o v) = Len(o) + k
         /\ o \o v = [i \in 1 .. Len(o) + k |-> i]
    BY <1>9, <1>10, CountedOn, Zenon
  <1> QED
    BY <1>6, <1>8, <1>11, Zenon

-----------------------------------------------------------------------------
(***************************************************************************)
(* What a completed transfer leaves of the data path.                       *)
(***************************************************************************)

\* The session q is r after the completion of its read, up to what becomes of
\* the buffer and of the reading activity.
AfterRead(q, r) ==
  /\ Shaped(q) /\ q.writing = r.writing /\ q.fin = r.fin
  /\ q.extern_state = r.extern_state /\ q.intern_state = r.intern_state
  /\ q.write_state = r.write_state
  /\ "read" \notin q.ops /\ ("write" \in q.ops <=> "write" \in r.ops)

\* The session q is r after the completion of its write.
AfterWrite(q, r) ==
  /\ Shaped(q) /\ q.reading = r.reading /\ q.fin = r.fin
  /\ q.extern_state = r.extern_state /\ q.intern_state = r.intern_state
  /\ q.read_state = r.read_state
  /\ "write" \notin q.ops /\ ("read" \in q.ops <=> "read" \in r.ops)

\* The sessions inside the handlers of a read are such, for every result.
LEMMA ReadSessions ==
  ASSUME NEW r, Shaped(r), NEW state, NEW failed, NEW k
  PROVE  LET d == ReadDone(r, state)
             c == cancel_timer_wait(d, failed)
             x == StopReading(c)
             y == Consume(c, k)
             z == StopReading(y)
         IN  /\ AfterRead(d, r) /\ d.buffer = r.buffer
             /\ AfterRead(x, r) /\ x.buffer = r.buffer
             /\ AfterRead(y, r) /\ y.buffer = Buf!consume(r.buffer, k)
             /\ AfterRead(z, r) /\ z.buffer = Buf!consume(r.buffer, k)
             /\ z.read_state = "stopped"
  <1> DEFINE d == ReadDone(r, state)
             c == cancel_timer_wait(d, failed)
             x == StopReading(c)
             y == Consume(c, k)
             z == StopReading(y)
  <1>1. AfterRead(d, r) /\ d.buffer = r.buffer
    BY Fields DEF Shaped, ReadDone, AfterRead
  <1> HIDE DEF d
  <1>2. Untouched(c, d)
    BY <1>1, TimerUntouched DEF AfterRead
  <1>3. AfterRead(c, r) /\ c.buffer = r.buffer /\ Shaped(c)
    BY <1>1, <1>2 DEF AfterRead, Untouched, SameFlow
  <1> HIDE DEF c
  <1>4. AfterRead(x, r) /\ x.buffer = r.buffer
    BY <1>3, Fields DEF Shaped, StopReading, AfterRead
  <1>5. AfterRead(y, r) /\ y.buffer = Buf!consume(r.buffer, k) /\ Shaped(y)
    BY <1>3, Fields DEF Shaped, Consume, AfterRead
  <1> HIDE DEF y
  <1>6. /\ AfterRead(z, r) /\ z.buffer = Buf!consume(r.buffer, k)
        /\ z.read_state = "stopped"
    BY <1>5, Fields DEF Shaped, StopReading, AfterRead
  <1> QED
    BY <1>1, <1>4, <1>5, <1>6 DEF d, c, y

\* So are those inside the handlers of a write.
LEMMA WriteSessions ==
  ASSUME NEW r, Shaped(r), NEW state, NEW failed, NEW k
  PROVE  LET d == WriteDone(r, state)
             c == cancel_timer_wait(d, failed)
             x == StopWriting(c)
             y == Commit(c, k)
         IN  /\ AfterWrite(d, r) /\ d.buffer = r.buffer
             /\ AfterWrite(x, r) /\ x.buffer = r.buffer
             /\ AfterWrite(y, r) /\ y.buffer = Buf!commit(r.buffer, k)
  <1> DEFINE d == WriteDone(r, state)
             c == cancel_timer_wait(d, failed)
             x == StopWriting(c)
             y == Commit(c, k)
  <1>1. AfterWrite(d, r) /\ d.buffer = r.buffer
    BY Fields DEF Shaped, WriteDone, AfterWrite
  <1> HIDE DEF d
  <1>2. Untouched(c, d)
    BY <1>1, TimerUntouched DEF AfterWrite
  <1>3. AfterWrite(c, r) /\ c.buffer = r.buffer /\ Shaped(c)
    BY <1>1, <1>2 DEF AfterWrite, Untouched, SameFlow
  <1> HIDE DEF c
  <1>4. AfterWrite(x, r) /\ x.buffer = r.buffer
    BY <1>3, Fields DEF Shaped, StopWriting, AfterWrite
  <1>5. AfterWrite(y, r) /\ y.buffer = Buf!commit(r.buffer, k)
    BY <1>3, Fields DEF Shaped, Commit, AfterWrite
  <1> QED
    BY <1>1, <1>4, <1>5 DEF d, c

\* What was received disturbs no write in flight.
LEMMA ArrivedFlow ==
  ASSUME NEW r, Core(r), "read" \in r.ops, NEW M, NEW N, NEW got, NEW k, NEW n,
         InFlight(r, M, got, n), Stored(r.buffer, M, N, got, k),
         NEW q, AfterRead(q, r), q.buffer = r.buffer
  PROVE  InFlight(q, N, got + k, n)
  <1>1. Reads(q) /\ Ended(q, got + k, n)
    BY DEF AfterRead, Reads, Ended, InFlight
  <1>2. Writes(q, N, n)
    <2> SUFFICES ASSUME "write" \in q.ops PROVE Writes(q, N, n)
      BY DEF Writes
    <2>1. PICK l \in 1 .. r.buffer.filled_size :
            /\ r.writing = Buf!buffers_2(BufferSize, r.buffer.filled_start, l)
            /\ Holds(r.buffer, M, n, l)
      BY DEF AfterRead, InFlight, Writes
    <2>2. r.buffer.filled_size \in Nat
      BY Members, BufferFields, ConfigAssumption DEF Core
    <2>3. Holds(r.buffer, N, n, l)
      BY <2>1, <2>2 DEF Holds, Stored
    <2> QED
      BY <2>1, <2>3 DEF AfterRead, Writes
  <1> QED
    BY <1>1, <1>2 DEF InFlight

\* The bytes received join those that wait to be sent, in order.
LEMMA ConsumedHolds ==
  ASSUME NEW b \in Buf!Buffers(BufferSize), Buf!WellFormed(b),
         NEW M, NEW N, NEW got \in Nat, NEW n \in Nat, NEW k \in Nat,
         k <= b.nonfilled_size, Stored(b, M, N, got, k)
  PROVE  LET c == Buf!consume(b, k)
         IN  /\ Buffered(b, M, got, n) => Buffered(c, N, got + k, n)
             /\ \A l \in 1 .. b.filled_size :
                  Holds(b, M, n, l) => Holds(c, N, n, l) /\ l \in 1 .. c.filled_size
  <1> DEFINE c == Buf!consume(b, k)
  <1>1. /\ b.filled_size \in Nat /\ b.nonfilled_size \in Nat
        /\ c.filled_start = b.filled_start /\ c.filled_size = b.filled_size + k
    BY MovedStarts, BufferFields, ConfigAssumption
  <1> HIDE DEF c
  <1>2. ASSUME NEW l \in 1 .. b.filled_size, Holds(b, M, n, l)
        PROVE  Holds(c, N, n, l) /\ l \in 1 .. c.filled_size
    BY <1>1, <1>2 DEF Holds, Stored
  <1>3. ASSUME Buffered(b, M, got, n)
        PROVE  Buffered(c, N, got + k, n)
    <2>1. n + b.filled_size = got /\ Holds(b, M, n, b.filled_size)
      BY <1>3 DEF Buffered
    <2>2. n + c.filled_size = got + k
      BY <1>1, <2>1
    <2>3. ASSUME NEW i \in 1 .. c.filled_size
          PROVE  N[Place(c.filled_start, i)] = n + i
      <3>1. CASE i <= b.filled_size
        BY <1>1, <2>1, <3>1 DEF Holds, Stored
      <3>2. CASE ~(i <= b.filled_size)
        <4> DEFINE j == i - b.filled_size
        <4>1. j \in 1 .. k /\ i = b.filled_size + j /\ n + i = got + j
          BY <1>1, <2>1, <3>2
        <4> HIDE DEF j
        <4>2. j \in 1 .. b.nonfilled_size
          BY <1>1, <4>1
        <4>3. Place(b.nonfilled_start, j) = Place(b.filled_start, b.filled_size + j)
          BY <4>2, FreeApart
        <4>4. N[Place(b.nonfilled_start, j)] = got + j
          BY <4>1 DEF Stored
        <4> QED
          BY <1>1, <4>1, <4>3, <4>4
      <3> QED
        BY <3>1, <3>2
    <2> QED
      BY <2>2, <2>3 DEF Buffered, Holds
  <1> QED
    BY <1>2, <1>3 DEF c

\* A session that has taken in the bytes of a read goes on with its data path.
LEMMA ConsumedFlow ==
  ASSUME NEW r, Core(r), "read" \in r.ops, NEW M, NEW N,
         NEW got \in Nat, NEW n \in Nat, NEW k \in Nat,
         k <= r.buffer.nonfilled_size, Flow(r, M, got, n),
         Stored(r.buffer, M, N, got, k),
         NEW q, AfterRead(q, r), q.buffer = Buf!consume(r.buffer, k)
  PROVE  Flow(q, N, got + k, n)
  <1>1. /\ r.buffer \in Buf!Buffers(BufferSize) /\ Buf!WellFormed(r.buffer)
        /\ r.read_state = "in_progress"
    BY Members DEF Core, BufferFits, OpsMatch
  <1>2. /\ Buffered(r.buffer, M, got, n) => Buffered(q.buffer, N, got + k, n)
        /\ \A l \in 1 .. r.buffer.filled_size :
             Holds(r.buffer, M, n, l) =>
               Holds(q.buffer, N, n, l) /\ l \in 1 .. q.buffer.filled_size
        /\ q.buffer.filled_start = r.buffer.filled_start
    <2> DEFINE b == r.buffer
               c == Buf!consume(b, k)
    <2>1. /\ Buffered(b, M, got, n) => Buffered(c, N, got + k, n)
          /\ \A l \in 1 .. b.filled_size :
               Holds(b, M, n, l) => Holds(c, N, n, l) /\ l \in 1 .. c.filled_size
      <3> HIDE DEF b
      <3>1. b \in Buf!Buffers(BufferSize) /\ Buf!WellFormed(b)
            /\ k <= b.nonfilled_size /\ Stored(b, M, N, got, k)
        BY <1>1 DEF b
      <3> QED
        BY <3>1, ConsumedHolds, Zenon
    <2>2. c.filled_start = b.filled_start
      BY <1>1, MovedStarts
    <2>3. q.buffer = c
      OBVIOUS
    <2> HIDE DEF c
    <2> QED
      BY <2>1, <2>2, <2>3
  <1>3. Reads(q) /\ Ended(q, got + k, n)
    BY DEF AfterRead, Reads, Ended, InFlight, Flow
  <1>4. Writes(q, N, n)
    <2> SUFFICES ASSUME "write" \in q.ops PROVE Writes(q, N, n)
      BY DEF Writes
    <2>1. PICK l \in 1 .. r.buffer.filled_size :
            /\ r.writing = Buf!buffers_2(BufferSize, r.buffer.filled_start, l)
            /\ Holds(r.buffer, M, n, l)
      BY DEF AfterRead, InFlight, Writes, Flow
    <2> QED
      BY <1>2, <2>1 DEF AfterRead, Writes
  <1>5. MayWrite(q) => Buffered(q.buffer, N, got + k, n)
    BY <1>2 DEF Flow, MayWrite, AfterRead
  <1>6. (q.intern_state = "work" => ~q.fin) /\ Drained(q)
    BY <1>1 DEF Flow, Drained, AfterRead
  <1> QED
    BY <1>3, <1>4, <1>5, <1>6 DEF Flow, InFlight

\* The bytes sent leave the read in flight alone.
LEMMA SentFlow ==
  ASSUME NEW r, Core(r), "write" \in r.ops, NEW M, NEW got, NEW k, NEW n,
         InFlight(r, M, got, n), NEW q, AfterWrite(q, r), q.buffer = r.buffer
  PROVE  InFlight(q, M, got, n + k)
  BY DEF AfterWrite, Reads, Writes, Ended, InFlight

\* A session that has let go of the bytes of a write goes on with its data path.
LEMMA CommittedFlow ==
  ASSUME NEW r, Core(r), "write" \in r.ops, NEW M, NEW got \in Nat,
         NEW n \in Nat, NEW k \in Nat, k <= r.buffer.filled_size,
         Flow(r, M, got, n), NEW q, AfterWrite(q, r),
         q.buffer = Buf!commit(r.buffer, k)
  PROVE  Flow(q, M, got, n + k)
  <1> DEFINE b == r.buffer
             c == q.buffer
  <1>1. /\ b \in Buf!Buffers(BufferSize) /\ Buf!WellFormed(b)
        /\ r.write_state = "in_progress" /\ b.filled_size \in 0 .. BufferSize
        /\ b.nonfilled_size \in Nat /\ b.filled_start \in 0 .. BufferSize - 1
        /\ BufferSize \in Nat
    BY Members, BufferFields, ConfigAssumption DEF Core, BufferFits, OpsMatch
  <1>2. /\ c.nonfilled_start = b.nonfilled_start
        /\ c.filled_size = b.filled_size - k
        /\ c.nonfilled_size = b.nonfilled_size + k
        /\ c.filled_start = Buf!Advance(BufferSize, b.filled_start, k)
    BY <1>1, MovedStarts
  <1>3. Writes(q, M, n + k) /\ Ended(q, got, n + k)
    BY DEF AfterWrite, Writes, Ended, InFlight, Flow
  <1>4. Reads(q)
    <2> SUFFICES ASSUME "read" \in q.ops PROVE Reads(q)
      BY DEF Reads
    <2>1. PICK l \in 1 .. b.nonfilled_size :
            r.reading = Buf!buffers_2(BufferSize, b.nonfilled_start, l)
      BY DEF AfterWrite, InFlight, Reads, Flow
    <2>2. l \in 1 .. c.nonfilled_size
      BY <1>1, <1>2, <2>1
    <2> QED
      BY <1>2, <2>1, <2>2 DEF AfterWrite, Reads
  <1>5. ASSUME MayWrite(q) PROVE Buffered(c, M, got, n + k)
    <2>1. n + b.filled_size = got /\ Holds(b, M, n, b.filled_size)
      BY <1>1, <1>5 DEF Flow, MayWrite, AfterWrite, Buffered
    <2>2. n + k + c.filled_size = got
      BY <1>1, <1>2, <2>1
    <2>3. ASSUME NEW i \in 1 .. c.filled_size
          PROVE  M[Place(c.filled_start, i)] = n + k + i
      <3>1. i \in 1 .. BufferSize - k /\ k + i \in 1 .. b.filled_size
            /\ k \in 0 .. BufferSize
        BY <1>1, <1>2
      <3>2. Place(c.filled_start, i) = Place(b.filled_start, k + i)
        BY <1>1, <1>2, <3>1, Places
      <3>3. M[Place(b.filled_start, k + i)] = n + (k + i)
        BY <2>1, <3>1 DEF Holds
      <3> QED
        BY <3>1, <3>2, <3>3
    <2> QED
      BY <2>2, <2>3 DEF Buffered, Holds
  <1>6. (q.intern_state = "work" => ~q.fin) /\ Drained(q)
    BY DEF Flow, Drained, AfterWrite
  <1> QED
    BY <1>3, <1>4, <1>5, <1>6 DEF Flow, InFlight

\* The handlers of a completed read keep the data path, for every result.
LEMMA ReadFlow ==
  ASSUME NEW r, Active(r), Phases(r), "read" \in r.ops, NEW error \in Errors,
         NEW k \in Nat, k <= Buf!BytesIn(r.reading), NEW f, NEW M, NEW N,
         NEW got \in Nat, NEW n \in Nat, k <= r.buffer.nonfilled_size,
         Flow(r, M, got, n), Stored(r.buffer, M, N, got, k)
  PROVE  /\ r.intern_state = "work" =>
              Flow(handle_read_at_work(r, error, k, f), N, got + k, n)
         /\ r.intern_state = "shutdown" =>
              Flow(handle_read_at_shutdown(r, error, k, f), N, got + k, n)
  <1> DEFINE failed == "cancel" \in f
             c == cancel_timer_wait(ReadDone(r, "wait"), failed)
             x == StopReading(c)
             y == Consume(c, k)
             z == StopReading(y)
             m == got + k
  <1>1. Core(r) /\ Shaped(r) /\ failed \in BOOLEAN /\ m \in Nat
    BY StatesShaped DEF Active, Core
  <1> HIDE DEF failed
  <1>2. /\ AfterRead(x, r) /\ x.buffer = r.buffer
        /\ AfterRead(y, r) /\ y.buffer = Buf!consume(r.buffer, k)
        /\ AfterRead(z, r) /\ z.buffer = Buf!consume(r.buffer, k)
        /\ z.read_state = "stopped"
    BY <1>1, ReadSessions
  <1>3. /\ Active(y) /\ SamePhase(y, r) /\ Phases(y)
        /\ Active(z) /\ SamePhase(z, r) /\ z.timer_state # "stopped"
        /\ (r.intern_state = "shutdown" => Phases(z))
    BY <1>1, ReadCompletion
  <1> HIDE DEF x, y, z
  <1>4. InFlight(x, N, m, n) /\ Shaped(x)
    BY <1>1, <1>2, ArrivedFlow DEF Flow, AfterRead
  <1>5. Flow(y, N, m, n) /\ Flow(z, N, m, n)
    BY <1>1, <1>2, ConsumedFlow
  <1> HIDE DEF m
  <1>6. \A why : Flow(start_stop(x, why, f), N, m, n)
    BY <1>4, StopFlow
  <1>7. ASSUME r.intern_state = "work"
        PROVE  Flow(handle_read_at_work(r, error, k, f), N, m, n)
    <2> DEFINE q == handle_read_at_work(r, error, k, f)
    <2>1. \/ \E why : q = start_stop(x, why, f)
          \/ q = start_shutdown(z, error, TRUE, f)
          \/ q = continue_work(y, f)
      BY Zenon DEF handle_read_at_work, x, y, z, failed
    <2> HIDE DEF q
    <2>2. Flow(start_shutdown(z, error, TRUE, f), N, m, n)
      <3>1. InFlight(z, N, m, n) /\ (MayWrite(z) => Buffered(z.buffer, N, m, n))
        BY <1>5 DEF Flow
      <3> QED
        BY <1>1, <1>2, <1>3, <3>1, StartShutdownFlow
    <2>3. Flow(continue_work(y, f), N, m, n)
      BY <1>3, <1>5, WorkFlow
    <2> QED
      BY <1>6, <2>1, <2>2, <2>3, Zenon DEF q
  <1>8. ASSUME r.intern_state = "shutdown"
        PROVE  Flow(handle_read_at_shutdown(r, error, k, f), N, m, n)
    <2> DEFINE q == handle_read_at_shutdown(r, error, k, f)
    <2>1. \/ \E why : q = start_stop(x, why, f)
          \/ q = continue_shutdown(z, TRUE, f)
          \/ q = continue_shutdown(y, TRUE, f)
      BY Zenon DEF handle_read_at_shutdown, x, y, z, failed
    <2> HIDE DEF q
    <2>2. ASSUME NEW p \in {y, z}
          PROVE  Flow(continue_shutdown(p, TRUE, f), N, m, n)
      <3>1. Active(p) /\ Phases(p) /\ p.intern_state = "shutdown" /\ Flow(p, N, m, n)
        BY <1>3, <1>5, <1>8 DEF SamePhase
      <3> QED
        BY <1>1, <3>1, ShutdownFlow
    <2> QED
      BY <1>6, <2>1, <2>2, Zenon DEF q
  <1> QED
    BY <1>7, <1>8 DEF m

\* So do the handlers of a completed write.
LEMMA WriteFlow ==
  ASSUME NEW r, Active(r), Phases(r), "write" \in r.ops, NEW error,
         NEW k \in Nat, k <= Buf!BytesIn(r.writing), NEW f, NEW M,
         NEW got \in Nat, NEW n \in Nat, k <= r.buffer.filled_size,
         Flow(r, M, got, n)
  PROVE  /\ r.intern_state = "work" =>
              Flow(handle_write_at_work(r, error, k, f), M, got, n + k)
         /\ r.intern_state = "shutdown" =>
              Flow(handle_write_at_shutdown(r, error, k, f), M, got, n + k)
  <1> DEFINE failed == "cancel" \in f
             c == cancel_timer_wait(WriteDone(r, "wait"), failed)
             x == StopWriting(c)
             y == Commit(c, k)
             m == n + k
  <1>1. Core(r) /\ Shaped(r) /\ failed \in BOOLEAN /\ m \in Nat
    BY StatesShaped DEF Active, Core
  <1> HIDE DEF failed
  <1>2. /\ AfterWrite(x, r) /\ x.buffer = r.buffer
        /\ AfterWrite(y, r) /\ y.buffer = Buf!commit(r.buffer, k)
    BY <1>1, WriteSessions
  <1>3. Active(y) /\ SamePhase(y, r) /\ Phases(y)
    BY <1>1, WriteCompletion
  <1> HIDE DEF x, y
  <1>4. InFlight(x, M, got, m) /\ Shaped(x)
    BY <1>1, <1>2, SentFlow DEF Flow, AfterWrite
  <1>5. Flow(y, M, got, m)
    BY <1>1, <1>2, CommittedFlow
  <1> HIDE DEF m
  <1>6. \A why : Flow(start_stop(x, why, f), M, got, m)
    BY <1>4, StopFlow
  <1>7. ASSUME r.intern_state = "work"
        PROVE  Flow(handle_write_at_work(r, error, k, f), M, got, m)
    <2> DEFINE q == handle_write_at_work(r, error, k, f)
    <2>1. (\E why : q = start_stop(x, why, f)) \/ q = continue_work(y, f)
      BY Zenon DEF handle_write_at_work, x, y, failed
    <2> HIDE DEF q
    <2>2. Flow(continue_work(y, f), M, got, m)
      BY <1>1, <1>3, <1>5, WorkFlow
    <2> QED
      BY <1>6, <2>1, <2>2, Zenon DEF q
  <1>8. ASSUME r.intern_state = "shutdown"
        PROVE  Flow(handle_write_at_shutdown(r, error, k, f), M, got, m)
    <2> DEFINE q == handle_write_at_shutdown(r, error, k, f)
    <2>1. (\E why : q = start_stop(x, why, f)) \/ q = continue_shutdown(y, TRUE, f)
      BY Zenon DEF handle_write_at_shutdown, x, y, failed
    <2> HIDE DEF q
    <2>2. Flow(continue_shutdown(y, TRUE, f), M, got, m)
      <3>1. y.intern_state = "shutdown"
        BY <1>3, <1>8 DEF SamePhase
      <3> QED
        BY <1>1, <1>3, <1>5, <3>1, ShutdownFlow
    <2> QED
      BY <1>6, <2>1, <2>2, Zenon DEF q
  <1> QED
    BY <1>7, <1>8 DEF m

\* The handlers that run while the session stops keep what is in flight.
LEMMA AtStopFlow ==
  ASSUME NEW r, Core(r), r.intern_state = "stop", NEW M, NEW N,
         NEW got, NEW n, NEW k, InFlight(r, M, got, n)
  PROVE  /\ "read" \in r.ops /\ Stored(r.buffer, M, N, got, k) =>
              Flow(handle_read_at_stop(r), N, got + k, n)
         /\ "write" \in r.ops => Flow(handle_write_at_stop(r), M, got, n + k)
         /\ Flow(handle_timer_at_stop(r), M, got, n)
  <1>1. Shaped(r)
    BY StatesShaped DEF Core
  <1>2. ASSUME NEW d, Shaped(d), d.intern_state = "stop", NEW L, NEW g, NEW j,
               InFlight(d, L, g, j)
        PROVE  Flow(continue_stop(d), L, g, j)
    <2> DEFINE q == continue_stop(d)
    <2>1. SameFlow(q, d) /\ Over(q) /\ q.extern_state \in {d.extern_state, "stopped"}
      BY <1>2, ContinueStopFlow
    <2> HIDE DEF q
    <2>2. Flow(q, L, g, j)
      BY <1>2, <2>1, OverFlow
    <2> QED
      BY <2>2 DEF q
  <1>3. ASSUME "read" \in r.ops, Stored(r.buffer, M, N, got, k)
        PROVE  Flow(handle_read_at_stop(r), N, got + k, n)
    <2> DEFINE d == ReadDone(r, "stopped")
    <2>1. AfterRead(d, r) /\ d.buffer = r.buffer
      BY <1>1, ReadSessions
    <2> HIDE DEF d
    <2>2. InFlight(d, N, got + k, n) /\ Shaped(d) /\ d.intern_state = "stop"
      BY <1>3, <2>1, ArrivedFlow DEF AfterRead
    <2>3. Flow(continue_stop(d), N, got + k, n)
      BY <1>2, <2>2
    <2> QED
      BY <2>3, Zenon DEF handle_read_at_stop, d
  <1>4. ASSUME "write" \in r.ops
        PROVE  Flow(handle_write_at_stop(r), M, got, n + k)
    <2> DEFINE d == WriteDone(r, "stopped")
    <2>1. AfterWrite(d, r) /\ d.buffer = r.buffer
      BY <1>1, WriteSessions
    <2> HIDE DEF d
    <2>2. InFlight(d, M, got, n + k) /\ Shaped(d) /\ d.intern_state = "stop"
      BY <1>4, <2>1, SentFlow DEF AfterWrite
    <2>3. Flow(continue_stop(d), M, got, n + k)
      BY <1>2, <2>2
    <2> QED
      BY <2>3, Zenon DEF handle_write_at_stop, d
  <1>5. Flow(handle_timer_at_stop(r), M, got, n)
    <2> DEFINE d == TimerDone(r, "stopped")
    <2>1. Untouched(d, r)
      BY <1>1, TimerUntouched
    <2> HIDE DEF d
    <2>2. InFlight(d, M, got, n)
      BY <2>1, UntouchedFlow
    <2>3. Shaped(d) /\ d.intern_state = "stop"
      BY <2>1 DEF Untouched, SameFlow
    <2>4. Flow(continue_stop(d), M, got, n)
      BY <1>2, <2>2, <2>3
    <2> QED
      BY <2>4, Zenon DEF handle_timer_at_stop, d
  <1> QED
    BY <1>3, <1>4, <1>5

\* The handler of the timer wait leaves the data path alone or stops the session.
LEMMA TimerFlow ==
  ASSUME NEW r, Shaped(r), NEW error, NEW f, NEW M, NEW got, NEW n,
         Flow(r, M, got, n)
  PROVE  Flow(handle_timer_at_work(r, error, f), M, got, n)
  <1> DEFINE d == TimerDone(r, "ready")
             e == TimerDone(r, "stopped")
             w == start_timer_wait(d)
             q == handle_timer_at_work(r, error, f)
  <1>1. (\E why : q = start_stop(e, why, f)) \/ q = w \/ q = d
    BY Zenon DEF handle_timer_at_work
  <1>2. Untouched(d, r) /\ Untouched(e, r)
    BY TimerUntouched
  <1> HIDE DEF d, e, q
  <1>3. Shaped(d) /\ Shaped(e) /\ Flow(d, M, got, n) /\ InFlight(e, M, got, n)
    BY <1>2, UntouchedFlow DEF Untouched, SameFlow, Flow
  <1>4. Untouched(w, d)
    BY <1>3, TimerUntouched
  <1> HIDE DEF w
  <1>5. Flow(w, M, got, n)
    BY <1>3, <1>4, UntouchedFlow
  <1>6. \A why : Flow(start_stop(e, why, f), M, got, n)
    BY <1>3, StopFlow
  <1> QED
    BY <1>1, <1>3, <1>5, <1>6, Zenon DEF q

\* async_start begins the data path, or ends a session that never had one.
LEMMA StartFlow ==
  ASSUME NEW r, SessionInv(r), NEW f, NEW M, NEW got, NEW n \in Nat,
         Flow(r, M, got, n)
  PROVE  Flow(start_extern_start(r, f), M, got, n)
  <1> DEFINE x == StartFailed(r)
             w == [r EXCEPT !.extern_state = "work"]
             k == continue_work(w, f)
             q == start_extern_start(r, f)
  <1>1. r \in SessionStates /\ Core(r) /\ Phases(r) /\ Shaped(r)
    BY StatesShaped DEF SessionInv, Core
  <1>2. \/ q = Post(r, "start", "invalid_state")
        \/ q = Post(x, "start", "error") /\ r.extern_state = "ready"
        \/ q = Post(k, "start", "ok") /\ r.extern_state = "ready"
    BY Zenon DEF start_extern_start
  <1> HIDE DEF q
  <1>3. ASSUME NEW p, Shaped(p), Flow(p, M, got, n), NEW error
        PROVE  Flow(Post(p, "start", error), M, got, n)
    <2>1. Untouched(Post(p, "start", error), p)
      BY <1>3, ToldUntouched
    <2> QED
      BY <1>3, <2>1, UntouchedFlow
  <1>4. CASE q = Post(x, "start", "error") /\ r.extern_state = "ready"
    <2>1. SameFlow(x, r) /\ x.intern_state = "stopped" /\ x.extern_state = "stopped"
      BY <1>1, Fields DEF Shaped, StartFailed, close_socket, SameFlow
    <2> HIDE DEF x
    <2>2. Flow(x, M, got, n) /\ Shaped(x)
      BY <2>1, OverFlow DEF Over, Flow, SameFlow
    <2> QED
      BY <1>3, <1>4, <2>2 DEF q
  <1>5. CASE q = Post(k, "start", "ok") /\ r.extern_state = "ready"
    <2>1. /\ w \in SessionStates /\ SamePhase(w, r) /\ SameOps(w, r)
          /\ SameData(w, r) /\ w.extern_state = "work"
          /\ w.wait_handler = r.wait_handler
      <3>1. "work" \in {"ready", "work", "stop", "stopped"}
        OBVIOUS
      <3> QED
        BY <1>1, <3>1, ExternFrame, Zenon
    <2>2. w.fin = r.fin
      BY <1>1, Fields DEF Shaped
    <2> HIDE DEF w
    <2>3. r.intern_state = "work" /\ ~r.wait_handler
      BY <1>5 DEF SessionInv, UserMatches, WaitParked
    <2>4. w.intern_state = "work" /\ w.intern_state = r.intern_state
      BY <2>1, <2>3 DEF SamePhase
    <2>5. Core(w) /\ Phases(w)
      BY <1>1, <2>1, <2>4, CoreSame, PhasesSame
    <2>6. Active(w)
      BY <2>1, <2>3, <2>4, <2>5 DEF Active, WaitParked
    <2>7. Flow(w, M, got, n)
      BY <2>1, <2>2, <2>3, <2>4
         DEF Flow, InFlight, Reads, Writes, Ended, MayWrite, Drained, SameOps, SameData
    <2>8. Flow(k, M, got, n) /\ Core(k)
      BY <2>5, <2>6, <2>7, WorkFlow, ContinueWork DEF After
    <2> HIDE DEF k
    <2> QED
      BY <1>3, <1>5, <2>8, StatesShaped DEF Core, q
  <1>6. CASE q = Post(r, "start", "invalid_state")
    BY <1>1, <1>3, <1>6 DEF q
  <1> QED
    BY <1>2, <1>4, <1>5, <1>6

\* async_wait leaves the data path alone.
LEMMA WaitFlow ==
  ASSUME NEW r, Shaped(r), NEW M, NEW got, NEW n, Flow(r, M, got, n)
  PROVE  Flow(start_extern_wait(r), M, got, n)
  <1>1. Untouched([r EXCEPT !.wait_handler = TRUE], r)
    BY Fields DEF Untouched, SameFlow, Shaped
  <1>2. \A error : Untouched(Post(r, "wait", error), r)
    BY ToldUntouched
  <1>3. Untouched(start_extern_wait(r), r)
    BY <1>1, <1>2, Zenon DEF start_extern_wait
  <1> QED
    BY <1>3, UntouchedFlow

\* async_stop shuts the data path down: the user no longer counts on it.
LEMMA AsyncStopFlow ==
  ASSUME NEW r, SessionInv(r), NEW f, NEW M, NEW got \in Nat, NEW n \in Nat,
         Flow(r, M, got, n)
  PROVE  Flow(start_extern_stop(r, f), M, got, n)
  <1> DEFINE why == "operation_aborted"
             p == [r EXCEPT !.extern_state = "stop"]
             w == complete_extern_wait(p, why)
             e == start_shutdown(w, why, FALSE, f)
             q == do_start_extern_stop(r, f)
             x == [q EXCEPT !.extern_state = "stopped"]
             y == [q EXCEPT !.stop_handler = TRUE]
             z == start_extern_stop(r, f)
  <1>1. r \in SessionStates /\ Core(r) /\ Phases(r) /\ Shaped(r)
    BY StatesShaped DEF SessionInv, Core
  <1>2. q = IF w.intern_state = "work" THEN e ELSE w
    BY Zenon DEF do_start_extern_stop
  <1>3. z = Post(r, "stop", "invalid_state") \/ z = Post(x, "stop", "ok") \/ z = y
    BY Zenon DEF start_extern_stop
  <1> HIDE DEF q, z
  <1>4. why \in Errors
    BY DEF Errors
  <1>5. /\ p \in SessionStates /\ SamePhase(p, r) /\ SameOps(p, r)
        /\ SameData(p, r) /\ p.extern_state = "stop"
    <2>1. "stop" \in {"ready", "work", "stop", "stopped"}
      OBVIOUS
    <2> QED
      BY <1>1, <2>1, ExternFrame, Zenon
  <1>6. p.fin = r.fin
    BY <1>1, Fields DEF Shaped
  <1> HIDE DEF p
  <1>7. Flow(p, M, got, n) /\ Shaped(p)
    BY <1>5, <1>6, StatesShaped
       DEF Flow, InFlight, Reads, Writes, Ended, MayWrite, Drained, SameOps, SameData,
           SamePhase
  <1>8. /\ w \in SessionStates /\ SamePhase(w, p) /\ SameOps(w, p)
        /\ SameData(w, p) /\ w.extern_state = p.extern_state /\ ~w.wait_handler
    BY <1>4, <1>5, CompleteWaitFrame, Zenon
  <1>9. Untouched(w, p)
    BY <1>7, ToldUntouched
  <1> HIDE DEF w
  <1>10. Flow(w, M, got, n)
    BY <1>7, <1>9, UntouchedFlow
  <1>11. /\ SamePhase(w, r) /\ SameOps(w, r) /\ SameData(w, r)
         /\ w.extern_state = "stop" /\ w.intern_state = r.intern_state
    BY <1>5, <1>8 DEF SamePhase, SameOps, SameData
  <1>12. Core(w) /\ Phases(w)
    BY <1>1, <1>8, <1>11, CoreSame, PhasesSame
  <1>13. Flow(q, M, got, n) /\ Shaped(q)
    <2>1. CASE w.intern_state = "work"
      <3>1. Active(w) /\ w.timer_state # "stopped"
        BY <1>8, <1>11, <1>12, <2>1 DEF Active, WaitParked, Phases
      <3>2. InFlight(w, M, got, n) /\ (MayWrite(w) => Buffered(w.buffer, M, got, n))
        BY <1>10 DEF Flow
      <3>3. Flow(e, M, got, n)
        BY <1>4, <1>11, <3>1, <3>2, StartShutdownFlow
      <3>4. Shaped(e)
        BY <1>4, <3>1, StartShutdown, StatesShaped DEF After, Core
      <3> HIDE DEF e
      <3> QED
        BY <1>2, <2>1, <3>3, <3>4
    <2>2. CASE w.intern_state # "work"
      BY <1>2, <1>8, <1>10, <2>2, StatesShaped
    <2> QED
      BY <2>1, <2>2
  <1>14. Flow(y, M, got, n)
    <2>1. Untouched(y, q)
      BY <1>13, Fields DEF Shaped, Untouched, SameFlow
    <2> HIDE DEF y
    <2> QED
      BY <1>13, <2>1, UntouchedFlow
  <1>15. Flow(x, M, got, n) /\ Shaped(x)
    <2>1. /\ SameFlow(x, q) /\ x.intern_state = q.intern_state
          /\ x.read_state = q.read_state /\ x.write_state = q.write_state
          /\ x.extern_state = "stopped"
      BY <1>13, Fields DEF Shaped, SameFlow
    <2> HIDE DEF x
    <2> QED
      BY <1>13, <2>1
         DEF SameFlow, Flow, InFlight, Reads, Writes, Ended, MayWrite, Drained
  <1> HIDE DEF x, y
  <1>16. /\ Flow(Post(x, "stop", "ok"), M, got, n)
         /\ Flow(Post(r, "stop", "invalid_state"), M, got, n)
    <2>1. /\ Untouched(Post(x, "stop", "ok"), x)
          /\ Untouched(Post(r, "stop", "invalid_state"), r)
      BY <1>1, <1>15, ToldUntouched
    <2> QED
      BY <1>15, <2>1, UntouchedFlow
  <1> QED
    BY <1>3, <1>14, <1>16 DEF z

\* A fresh session has received and sent nothing.
LEMMA FreshFlow ==
  ASSUME NEW r, r.ops = {}, r.fin = FALSE, r.intern_state = "work",
         r.buffer = session.buffer, NEW M
  PROVE  Flow(r, M, 0, 0)
  <1>1. r.buffer.filled_size = 0
    BY FreshSession, ConfigAssumption DEF Buf!cyclic_buffer
  <1> QED
    BY <1>1 DEF Flow, InFlight, Reads, Writes, Ended, Buffered, Holds, Drained

-----------------------------------------------------------------------------
(***************************************************************************)
(* The invariant of the data path.                                          *)
(***************************************************************************)

\* The empty sequence is counted from one.
LEMMA NothingSent ==
  <<>> \in Seq(Nat) /\ Len(<<>>) = 0 /\ <<>> = [k \in 1 .. Len(<<>>) |-> k]
  <1>1. <<>> \in Seq(Nat) /\ Len(<<>>) = 0
    OBVIOUS
  <1>2. \A k \in 1 .. 0 : FALSE
    OBVIOUS
  <1>3. <<>> = [k \in 1 .. 0 |-> k]
    BY <1>2
  <1> QED
    BY <1>1, <1>3

\* The constructor establishes the invariant of the data path.
LEMMA InitEcho == Init => EchoInv
  <1> SUFFICES ASSUME Init PROVE EchoInv
    OBVIOUS
  <1>1. /\ s = session /\ rcvd = 0 /\ out = <<>>
        /\ mem = [i \in 0 .. BufferSize - 1 |-> 0]
    BY DEF Init
  <1>2. session.fin = FALSE /\ session.ops = {} /\ session.intern_state = "work"
    BY DEF session
  <1>3. Flow(s, mem, 0, 0)
    BY <1>1, <1>2, FreshFlow
  <1>4. mem \in [0 .. BufferSize - 1 -> Nat]
    BY <1>1
  <1> QED
    BY <1>1, <1>3, <1>4, InitInv, NothingSent DEF EchoInv

\* What a completed read stores, and that it fits.
LEMMA ReceiveStored ==
  ASSUME EchoInv, "read" \in s.ops, NEW k \in Nat,
         k <= Buf!BytesIn(s.reading), Receive(k)
  PROVE  /\ mem' \in [0 .. BufferSize - 1 -> Nat] /\ k <= s.buffer.nonfilled_size
         /\ Stored(s.buffer, mem, mem', rcvd, k)
         /\ rcvd' = rcvd + k /\ out' = out
  <1>1. /\ Core(s) /\ Reads(s) /\ mem \in [0 .. BufferSize - 1 -> Nat]
        /\ rcvd \in Nat
    BY DEF EchoInv, IInv, SessionInv, Flow, InFlight
  <1>2. rcvd' = rcvd + k /\ out' = out /\ Arrival(s, mem, mem', rcvd, k)
    BY Zenon DEF Receive, Arrival
  <1> QED
    BY <1>1, <1>2, Received

\* What a completed write sends, and that it was filled.
LEMMA SendSent ==
  ASSUME EchoInv, "write" \in s.ops, NEW k \in Nat,
         k <= Buf!BytesIn(s.writing), Send(k)
  PROVE  /\ out' \in Seq(Nat) /\ out' = [i \in 1 .. Len(out') |-> i]
         /\ Len(out') = Len(out) + k /\ k <= s.buffer.filled_size
         /\ rcvd' = rcvd /\ mem' = mem
  <1>1. /\ Core(s) /\ Writes(s, mem, Len(out)) /\ Counted(out)
        /\ mem \in [0 .. BufferSize - 1 -> Nat]
    BY DEF EchoInv, IInv, SessionInv, Flow, InFlight, Counted
  <1>2. rcvd' = rcvd /\ mem' = mem /\ Departure(s, mem, out, out', k)
    BY Zenon DEF Send, Departure
  <1>3. Counted(out') /\ Len(out') = Len(out) + k /\ k <= s.buffer.filled_size
    BY <1>1, <1>2, Sent
  <1> QED
    BY <1>2, <1>3 DEF Counted

\* Every step keeps the data path.
LEMMA NextEcho == EchoInv /\ [Next]_vars => EchoInv'
  <1> SUFFICES ASSUME EchoInv, [Next]_vars PROVE EchoInv'
    OBVIOUS
  <1> DEFINE n == Len(out)
  <1>1. IInv' /\ IInv
    BY NextInv DEF EchoInv
  <1>2. /\ SessionInv(s) /\ Core(s) /\ Shaped(s) /\ rcvd \in Nat /\ n \in Nat
        /\ Flow(s, mem, rcvd, n) /\ InFlight(s, mem, rcvd, n)
        /\ mem \in [0 .. BufferSize - 1 -> Nat]
        /\ out \in Seq(Nat) /\ out = [k \in 1 .. n |-> k]
    BY StatesShaped DEF EchoInv, IInv, SessionInv, Core, Flow
  <1>3. ASSUME mem' = mem, rcvd' = rcvd, out' = out, Flow(s', mem, rcvd, n)
        PROVE  EchoInv'
    BY <1>1, <1>2, <1>3 DEF EchoInv
  <1>4. ASSUME NEW k \in Nat, "read" \in s.ops, k <= Buf!BytesIn(s.reading),
               Receive(k), Flow(s', mem', rcvd + k, n)
        PROVE  EchoInv'
    <2>1. /\ mem' \in [0 .. BufferSize - 1 -> Nat]
          /\ rcvd' = rcvd + k /\ out' = out
      BY <1>4, ReceiveStored
    <2> QED
      BY <1>1, <1>2, <1>4, <2>1 DEF EchoInv
  <1>5. ASSUME NEW k \in Nat, "write" \in s.ops, k <= Buf!BytesIn(s.writing),
               Send(k), Flow(s', mem, rcvd, n + k)
        PROVE  EchoInv'
    <2>1. /\ out' \in Seq(Nat) /\ out' = [i \in 1 .. Len(out') |-> i]
          /\ Len(out') = n + k /\ rcvd' = rcvd /\ mem' = mem
      BY <1>5, SendSent
    <2> QED
      BY <1>1, <1>2, <1>5, <2>1 DEF EchoInv
  <1> HIDE DEF n
  <1>6. CASE AsyncStart
    <2>1. PICK f \in SUBSET Faults : s' = start_extern_start(s, f)
      BY <1>6 DEF AsyncStart
    <2>2. mem' = mem /\ rcvd' = rcvd /\ out' = out
      BY <1>6 DEF AsyncStart, Call
    <2> QED
      BY <1>2, <1>3, <2>1, <2>2, StartFlow
  <1>7. CASE AsyncWait
    BY <1>2, <1>3, <1>7, WaitFlow DEF AsyncWait, Call
  <1>8. CASE AsyncStop
    <2>1. PICK f \in SUBSET HandlerFaults : s' = start_extern_stop(s, f)
      BY <1>8 DEF AsyncStop
    <2>2. mem' = mem /\ rcvd' = rcvd /\ out' = out
      BY <1>8 DEF AsyncStop, Call
    <2> QED
      BY <1>2, <1>3, <2>1, <2>2, AsyncStopFlow
  <1>9. CASE HandleReadAtWork
    <2>1. PICK res \in ReadResults, f \in SUBSET HandlerFaults :
            /\ s' = handle_read_at_work(s, res.error, res.bytes, f)
            /\ Receive(res.bytes)
      BY <1>9 DEF HandleReadAtWork
    <2>2. "read" \in s.ops /\ s.ops # {} /\ s.intern_state = "work"
      BY <1>9 DEF HandleReadAtWork
    <2>3. /\ res.error \in Errors /\ res.bytes \in Nat
          /\ res.bytes <= Buf!BytesIn(s.reading) /\ Active(s) /\ Phases(s)
      BY <1>1, <2>1, <2>2, TransferResults, CompletionPhase
    <2>4. /\ res.bytes <= s.buffer.nonfilled_size
          /\ Stored(s.buffer, mem, mem', rcvd, res.bytes)
      BY <2>1, <2>2, <2>3, ReceiveStored
    <2>5. Flow(s', mem', rcvd + res.bytes, n)
      BY <1>2, <2>1, <2>2, <2>3, <2>4, ReadFlow
    <2> QED
      BY <1>4, <2>1, <2>2, <2>3, <2>5
  <1>10. CASE HandleReadAtShutdown
    <2>1. PICK res \in ReadResults, f \in SUBSET HandlerFaults :
            /\ s' = handle_read_at_shutdown(s, res.error, res.bytes, f)
            /\ Receive(res.bytes)
      BY <1>10 DEF HandleReadAtShutdown
    <2>2. "read" \in s.ops /\ s.ops # {} /\ s.intern_state = "shutdown"
      BY <1>10 DEF HandleReadAtShutdown
    <2>3. /\ res.error \in Errors /\ res.bytes \in Nat
          /\ res.bytes <= Buf!BytesIn(s.reading) /\ Active(s) /\ Phases(s)
      BY <1>1, <2>1, <2>2, TransferResults, CompletionPhase
    <2>4. /\ res.bytes <= s.buffer.nonfilled_size
          /\ Stored(s.buffer, mem, mem', rcvd, res.bytes)
      BY <2>1, <2>2, <2>3, ReceiveStored
    <2>5. Flow(s', mem', rcvd + res.bytes, n)
      BY <1>2, <2>1, <2>2, <2>3, <2>4, ReadFlow
    <2> QED
      BY <1>4, <2>1, <2>2, <2>3, <2>5
  <1>11. CASE HandleReadAtStop
    <2>1. PICK res \in ReadResults :
            s' = handle_read_at_stop(s) /\ Receive(res.bytes)
      BY <1>11 DEF HandleReadAtStop
    <2>2. "read" \in s.ops /\ s.intern_state = "stop"
      BY <1>11 DEF HandleReadAtStop
    <2>3. res.bytes \in Nat /\ res.bytes <= Buf!BytesIn(s.reading)
      BY <1>1, <2>1, TransferResults
    <2>4. Stored(s.buffer, mem, mem', rcvd, res.bytes)
      BY <2>1, <2>2, <2>3, ReceiveStored
    <2>5. Flow(s', mem', rcvd + res.bytes, n)
      BY <1>2, <2>1, <2>2, <2>4, AtStopFlow
    <2> QED
      BY <1>4, <2>1, <2>2, <2>3, <2>5
  <1>12. CASE HandleWriteAtWork
    <2>1. PICK res \in WriteResults, f \in SUBSET HandlerFaults :
            /\ s' = handle_write_at_work(s, res.error, res.bytes, f)
            /\ Send(res.bytes)
      BY <1>12 DEF HandleWriteAtWork
    <2>2. "write" \in s.ops /\ s.ops # {} /\ s.intern_state = "work"
      BY <1>12 DEF HandleWriteAtWork
    <2>3. /\ res.bytes \in Nat /\ res.bytes <= Buf!BytesIn(s.writing)
          /\ Active(s) /\ Phases(s)
      BY <1>1, <2>1, <2>2, TransferResults, CompletionPhase
    <2>4. res.bytes <= s.buffer.filled_size
      BY <2>1, <2>2, <2>3, SendSent
    <2>5. Flow(s', mem, rcvd, n + res.bytes)
      BY <1>2, <2>1, <2>2, <2>3, <2>4, WriteFlow
    <2> QED
      BY <1>5, <2>1, <2>2, <2>3, <2>5
  <1>13. CASE HandleWriteAtShutdown
    <2>1. PICK res \in WriteResults, f \in SUBSET HandlerFaults :
            /\ s' = handle_write_at_shutdown(s, res.error, res.bytes, f)
            /\ Send(res.bytes)
      BY <1>13 DEF HandleWriteAtShutdown
    <2>2. "write" \in s.ops /\ s.ops # {} /\ s.intern_state = "shutdown"
      BY <1>13 DEF HandleWriteAtShutdown
    <2>3. /\ res.bytes \in Nat /\ res.bytes <= Buf!BytesIn(s.writing)
          /\ Active(s) /\ Phases(s)
      BY <1>1, <2>1, <2>2, TransferResults, CompletionPhase
    <2>4. res.bytes <= s.buffer.filled_size
      BY <2>1, <2>2, <2>3, SendSent
    <2>5. Flow(s', mem, rcvd, n + res.bytes)
      BY <1>2, <2>1, <2>2, <2>3, <2>4, WriteFlow
    <2> QED
      BY <1>5, <2>1, <2>2, <2>3, <2>5
  <1>14. CASE HandleWriteAtStop
    <2>1. PICK res \in WriteResults :
            s' = handle_write_at_stop(s) /\ Send(res.bytes)
      BY <1>14 DEF HandleWriteAtStop
    <2>2. "write" \in s.ops /\ s.intern_state = "stop"
      BY <1>14 DEF HandleWriteAtStop
    <2>3. res.bytes \in Nat /\ res.bytes <= Buf!BytesIn(s.writing)
      BY <1>1, <2>1, TransferResults
    <2>4. Flow(s', mem, rcvd, n + res.bytes)
      BY <1>2, <2>1, <2>2, AtStopFlow
    <2> QED
      BY <1>5, <2>1, <2>2, <2>3, <2>4
  <1>15. CASE HandleTimerAtWork
    <2>1. PICK error \in TimerResults, f \in SUBSET HandlerFaults :
            s' = handle_timer_at_work(s, error, f)
      BY <1>15 DEF HandleTimerAtWork
    <2>2. mem' = mem /\ rcvd' = rcvd /\ out' = out
      BY <1>15 DEF HandleTimerAtWork
    <2> QED
      BY <1>2, <1>3, <2>1, <2>2, TimerFlow
  <1>16. CASE HandleTimerAtStop
    <2>1. /\ s.intern_state = "stop" /\ s' = handle_timer_at_stop(s)
          /\ mem' = mem /\ rcvd' = rcvd /\ out' = out
      BY <1>16 DEF HandleTimerAtStop
    <2>2. Flow(s', mem, rcvd, n)
      BY <1>2, <2>1, AtStopFlow
    <2> QED
      BY <1>3, <2>1, <2>2
  <1>17. CASE Reset
    <2> DEFINE q == [reset(s) EXCEPT !.open = TRUE]
    <2>1. /\ s' = q /\ rcvd' = 0 /\ out' = <<>>
          /\ mem' = [i \in DOMAIN mem |-> 0]
      BY <1>17, Zenon DEF Reset
    <2>2. /\ q.ops = {} /\ q.fin = FALSE /\ q.intern_state = "work"
          /\ q.buffer = session.buffer
      BY DEF reset, session
    <2> HIDE DEF q
    <2>3. Flow(s', mem', 0, 0)
      BY <2>1, <2>2, FreshFlow
    <2>4. mem' \in [0 .. BufferSize - 1 -> Nat]
      BY <1>2, <2>1
    <2> QED
      BY <1>1, <2>1, <2>3, <2>4, NothingSent DEF EchoInv
  <1>18. CASE UNCHANGED vars
    BY <1>2, <1>3, <1>18 DEF vars
  <1> QED
    BY <1>6, <1>7, <1>8, <1>9, <1>10, <1>11, <1>12, <1>13, <1>14, <1>15, <1>16,
       <1>17, <1>18 DEF Next

\* The invariant of the data path holds in every execution of the session.
THEOREM EchoInvariance == Spec => []EchoInv
  BY InitEcho, NextEcho, PTL DEF Spec

\* The cells that hold what waits to be sent.
LEMMA FilledCells ==
  ASSUME NEW b \in Buf!Buffers(BufferSize)
  PROVE  LET c == Buf!Cells(Buf!data(b, BufferSize))
         IN  /\ c \in Seq(Nat) /\ Len(c) = b.filled_size
             /\ \A k \in 1 .. b.filled_size : c[k] = Place(b.filled_start, k)
  <1>1. /\ b.size = BufferSize /\ b.filled_size \in 0 .. BufferSize
        /\ b.filled_start \in 0 .. BufferSize - 1 /\ BufferSize \in Nat
    BY BufferFields, ConfigAssumption
  <1>2. Buf!Least(b.filled_size, BufferSize) = b.filled_size
    BY <1>1 DEF Buf!Least
  <1>3. Buf!data(b, BufferSize)
        = Buf!buffers_2(BufferSize, b.filled_start, b.filled_size)
    BY <1>1, <1>2, Zenon DEF Buf!data
  <1>4. LET c == Buf!Cells(Buf!buffers_2(BufferSize, b.filled_start, b.filled_size))
        IN  /\ c \in Seq(Nat) /\ Len(c) = b.filled_size
            /\ \A k \in 1 .. b.filled_size : c[k] = Place(b.filled_start, k)
    BY <1>1, CellsOf
  <1> QED
    BY <1>3, <1>4, Zenon

\* A sequence that agrees with the beginning of a longer one is a prefix of it.
LEMMA PrefixOf ==
  ASSUME NEW u \in Seq(Nat), NEW v \in Seq(Nat), Len(u) <= Len(v),
         \A k \in 1 .. Len(u) : u[k] = v[k]
  PROVE  IsPrefix(u, v)
  <1>1. SubSeq(u, 1, Len(u)) = SubSeq(v, 1, Len(u))
    OBVIOUS
  <1> QED
    BY <1>1 DEF IsPrefix

\* No transfer in flight was given an empty sequence of blocks.
LEMMA BlocksNotEmpty ==
  ASSUME NEW start, NEW k \in Nat \ {0}
  PROVE  Buf!buffers_2(BufferSize, start, k) # <<>>
  BY DEF Buf!buffers_2

\* What the transfers in flight were given keeps apart from the rest.
LEMMA FlowApart ==
  ASSUME NEW r, Core(r), NEW M, NEW got, NEW n, InFlight(r, M, got, n)
  PROVE  LET c == Buf!Cells(Buf!data(r.buffer, BufferSize))
         IN  /\ "read" \in r.ops =>
                  /\ r.reading # <<>>
                  /\ ToSet(Buf!Cells(r.reading)) \cap ToSet(c) = {}
             /\ "write" \in r.ops =>
                  /\ r.writing # <<>>
                  /\ IsPrefix(Buf!Cells(r.writing), c)
  <1> DEFINE b == r.buffer
             c == Buf!Cells(Buf!data(b, BufferSize))
  <1>1. /\ b \in Buf!Buffers(BufferSize) /\ Buf!WellFormed(b)
        /\ BufferSize \in Nat \ {0}
        /\ b.nonfilled_start \in 0 .. BufferSize - 1
        /\ b.filled_start \in 0 .. BufferSize - 1
        /\ b.nonfilled_size \in 0 .. BufferSize
        /\ b.filled_size \in 0 .. BufferSize
    BY Members, BufferFields, ConfigAssumption DEF Core, BufferFits
  <1>2. /\ c \in Seq(Nat) /\ Len(c) = b.filled_size
        /\ \A k \in 1 .. b.filled_size : c[k] = Place(b.filled_start, k)
    BY <1>1, FilledCells
  <1> HIDE DEF c
  <1>3. ASSUME "read" \in r.ops
        PROVE  /\ r.reading # <<>>
               /\ ToSet(Buf!Cells(r.reading)) \cap ToSet(c) = {}
    <2> DEFINE d == Buf!Cells(r.reading)
    <2>1. PICK l \in 1 .. b.nonfilled_size :
            r.reading = Buf!buffers_2(BufferSize, b.nonfilled_start, l)
      BY <1>3 DEF InFlight, Reads
    <2>2. l \in 0 .. BufferSize /\ l \in Nat \ {0}
      BY <1>1, <2>1
    <2>3. r.reading # <<>>
      BY <2>1, <2>2, BlocksNotEmpty
    <2>4. /\ d \in Seq(Nat) /\ Len(d) = l
          /\ \A k \in 1 .. l : d[k] = Place(b.nonfilled_start, k)
      <3>1. LET e == Buf!Cells(Buf!buffers_2(BufferSize, b.nonfilled_start, l))
            IN  /\ e \in Seq(Nat) /\ Len(e) = l
                /\ \A k \in 1 .. l : e[k] = Place(b.nonfilled_start, k)
        BY <1>1, <2>2, CellsOf
      <3> QED
        BY <2>1, <3>1, Zenon
    <2> HIDE DEF d
    <2>5. ASSUME NEW i \in 1 .. l, NEW j \in 1 .. b.filled_size
          PROVE  d[i] # c[j]
      <3>1. i \in 1 .. b.nonfilled_size
        BY <1>1, <2>1
      <3>2. Place(b.filled_start, j) # Place(b.nonfilled_start, i)
        BY <1>1, <3>1, FreeApart
      <3> QED
        BY <1>2, <2>4, <3>2
    <2>6. DOMAIN d = 1 .. l /\ DOMAIN c = 1 .. b.filled_size
      BY <1>2, <2>4
    <2>7. ToSet(d) \cap ToSet(c) = {}
      BY <2>5, <2>6 DEF ToSet
    <2> QED
      BY <2>3, <2>7 DEF d
  <1>4. ASSUME "write" \in r.ops
        PROVE  r.writing # <<>> /\ IsPrefix(Buf!Cells(r.writing), c)
    <2> DEFINE d == Buf!Cells(r.writing)
    <2>1. PICK l \in 1 .. b.filled_size :
            r.writing = Buf!buffers_2(BufferSize, b.filled_start, l)
      BY <1>4 DEF InFlight, Writes
    <2>2. l \in 0 .. BufferSize /\ l \in Nat \ {0}
      BY <1>1, <2>1
    <2>3. r.writing # <<>>
      BY <2>1, <2>2, BlocksNotEmpty
    <2>4. /\ d \in Seq(Nat) /\ Len(d) = l
          /\ \A k \in 1 .. l : d[k] = Place(b.filled_start, k)
      <3>1. LET e == Buf!Cells(Buf!buffers_2(BufferSize, b.filled_start, l))
            IN  /\ e \in Seq(Nat) /\ Len(e) = l
                /\ \A k \in 1 .. l : e[k] = Place(b.filled_start, k)
        BY <1>1, <2>2, CellsOf
      <3> QED
        BY <2>1, <3>1, Zenon
    <2> HIDE DEF d
    <2>5. Len(d) <= Len(c) /\ \A k \in 1 .. Len(d) : d[k] = c[k]
      <3>1. l <= b.filled_size /\ \A k \in 1 .. l : k \in 1 .. b.filled_size
        BY <1>1, <2>1
      <3>2. Len(d) <= Len(c)
        BY <1>2, <2>4, <3>1, Zenon
      <3>3. \A k \in 1 .. l : d[k] = c[k]
        BY <1>2, <2>4, <3>1, Zenon
      <3> QED
        BY <2>4, <3>2, <3>3, Zenon
    <2>6. IsPrefix(d, c)
      BY <1>2, <2>4, <2>5, PrefixOf
    <2> QED
      BY <2>3, <2>6 DEF d
  <1> QED
    BY <1>3, <1>4 DEF c

\* EchoSound: the peer is sent back exactly what it sent, in order; the cells of
\* a read hold nothing that waits to be sent and a write sends the first bytes
\* that do; and the stream is ended after the last of them, for every size of the
\* buffer and of the transfers.
THEOREM EchoIsSound == Spec => []EchoSound
  <1>1. EchoInv => EchoSound
    <2> SUFFICES ASSUME EchoInv PROVE EchoSound
      OBVIOUS
    <2> DEFINE n == Len(out)
    <2>1. /\ Core(s) /\ Flow(s, mem, rcvd, n) /\ InFlight(s, mem, rcvd, n)
          /\ s.buffer \in Buf!Buffers(BufferSize)
          /\ out = [k \in 1 .. Len(out) |-> k]
      BY Members DEF EchoInv, IInv, SessionInv, Core, Flow
    <2>2. /\ Len(Filled) = s.buffer.filled_size
          /\ \A k \in 1 .. s.buffer.filled_size :
               Filled[k] = Place(s.buffer.filled_start, k)
      BY <2>1, FilledCells, Zenon DEF Filled
    <2>3. EchoExact
      <3> SUFFICES ASSUME MayWrite(s)
                   PROVE  /\ n + Len(Filled) = rcvd
                          /\ \A k \in 1 .. Len(Filled) : mem[Filled[k]] = n + k
        BY <2>1, Zenon DEF EchoExact, MayWrite
      <3>1. n + s.buffer.filled_size = rcvd /\ Holds(s.buffer, mem, n, s.buffer.filled_size)
        BY <2>1 DEF Flow, Buffered
      <3> QED
        BY <2>2, <3>1, Zenon DEF Holds
    <2>4. TransfersApart
      <3>1. /\ "read" \in s.ops =>
                 /\ s.reading # <<>>
                 /\ ToSet(Buf!Cells(s.reading)) \cap ToSet(Filled) = {}
            /\ "write" \in s.ops =>
                 s.writing # <<>> /\ IsPrefix(Buf!Cells(s.writing), Filled)
        BY <2>1, FlowApart, Zenon DEF Filled
      <3> QED
        BY <3>1, Zenon DEF TransfersApart
    <2>5. GracefulEcho
      BY <2>1 DEF InFlight, Ended, GracefulEcho
    <2> QED
      BY <2>3, <2>4, <2>5 DEF EchoSound
  <1> QED
    BY <1>1, EchoInvariance, PTL

=============================================================================

-------------------------- MODULE CyclicReadSession --------------------------
(***************************************************************************)
(* The NMEA client (examples/ma_nmea_client): cyclic_read_session cuts what  *)
(* comes from a serial port into frames, keeps the newest of them in a ring  *)
(* and hands them to async_read_some; main.cpp reads frames and prints them  *)
(* until a read fails or the user presses Ctrl+C.                            *)
(*                                                                           *)
(* The session is driven either by main.cpp (caller = "main") or by a caller *)
(* that makes any calls in any order ("any").  What is posted to the strand  *)
(* runs in order, handlers posted to the io_service run in any order.        *)
(* A frame is an object, for the ring may fill one again, and the number of  *)
(* the frame it holds; bytes, heads and tails are not modelled.  External:   *)
(* the serial port, asio, handler_storage (see HandlerStorage).              *)
(***************************************************************************)
EXTENDS Integers, Sequences, SequencesExt, FiniteSets, FiniteSetsExt

CONSTANTS
  RingSize,   \* frame_buffer_size
  Sizes,      \* how many frames a caller has room for
  MaxFrames,  \* bound: frames that arrive
  MaxCalls    \* bound: calls of a caller, or presses of Ctrl+C

ASSUME RingAssumption ==
  /\ RingSize \in Nat \ {0} /\ Sizes \subseteq Nat
  /\ MaxFrames \in Nat /\ MaxCalls \in Nat

VARIABLES
  caller,  \* who calls: "main" or "any"
  s,       \* the session, and the handlers it has posted
  queue,   \* the calls posted to the strand
  owed,    \* owed[op]: calls of op whose handlers have not been called
  calls    \* bound: the calls made

vars == <<caller, s, queue, owed, calls>>

Ops == {"start", "stop", "read", "write"}

Errors == {"ok", "eof", "error", "aborted", "invalid_state"}

Objects == 1 .. (RingSize + MaxFrames + 1)

(***************************************************************************)
(* port is what the read in progress looks for; read_handler and             *)
(* stop_handler are the two handler storages, a read being stored with the   *)
(* room its caller has.  content[o] is the number of the frame in o; arrived, *)
(* given and dropped tell which frames were cut, handed out and overwritten. *)
(***************************************************************************)
cyclic_read_session ==
  [extern_state |-> "ready", frame_buffer |-> <<>>, read_error |-> "ok",
   stop_error |-> "ok", port_read_in_progress |-> FALSE,
   port_write_in_progress |-> FALSE, read_handler |-> {}, stop_handler |-> {},
   port |-> "none", writing |-> FALSE, open |-> TRUE, posted |-> <<>>,
   content |-> [o \in Objects |-> 0], arrived |-> 0, given |-> 0,
   dropped |-> FALSE]

\* io_service::post of a handler bound to its result; the frames are numbered
\* as they were when they were handed out.
Post(x, op, error, frames) ==
  [x EXCEPT !.posted = Append(@, [op |-> op, error |-> error, frames |-> frames,
                                  numbers |-> [k \in DOMAIN frames |->
                                                 x.content[frames[k]]]])]

may_complete_stop(x) == ~x.port_write_in_progress /\ ~x.port_read_in_progress

complete_stop(x) == [x EXCEPT !.extern_state = "stopped"]

post_extern_stop_handler(x) ==
  IF x.stop_handler = {} THEN x
  ELSE Post([x EXCEPT !.stop_handler = {}], "stop", x.stop_error, <<>>)

read_until_head(x) == [x EXCEPT !.port = "head", !.port_read_in_progress = TRUE]

read_until_tail(x) == [x EXCEPT !.port = "tail", !.port_read_in_progress = TRUE]

\* Mutant of copy_buffer: the frames stay in the ring.
copy_buffer_only(x, size) ==
  LET n == Min({size, Len(x.frame_buffer)})
  IN  Post([x EXCEPT !.given = IF n = 0 THEN @ ELSE x.content[x.frame_buffer[n]],
                     !.read_handler = {}],
           "read", "ok", SubSeq(x.frame_buffer, 1, n))

\* copy_buffer, erase_begin and the post of the handler.
copy_buffer(x, size) ==
  LET n == Min({size, Len(x.frame_buffer)})
  IN  Post([x EXCEPT !.frame_buffer = SubSeq(@, n + 1, Len(@)),
                     !.given = IF n = 0 THEN @ ELSE x.content[x.frame_buffer[n]],
                     !.read_handler = {}],
           "read", "ok", SubSeq(x.frame_buffer, 1, n))

-----------------------------------------------------------------------------
(***************************************************************************)
(* The calls, as they run on the strand.                                     *)
(***************************************************************************)
start_extern_start(x) ==
  IF x.extern_state # "ready" THEN Post(x, "start", "invalid_state", <<>>)
  ELSE LET y == [x EXCEPT !.extern_state = "work"]
       IN  Post(IF y.port_read_in_progress THEN y ELSE read_until_head(y),
                "start", "ok", <<>>)

\* The waiting read is aborted, the port closed; what is in progress ends first.
start_extern_stop(x, close_error) ==
  LET y == [x EXCEPT !.extern_state = "stop", !.read_handler = {},
                     !.open = FALSE, !.stop_error = close_error]
      z == IF x.read_handler = {} THEN y ELSE Post(y, "read", "aborted", <<>>)
  IN  IF x.extern_state \in {"stop", "stopped"}
      THEN Post(x, "stop", "invalid_state", <<>>)
      ELSE IF may_complete_stop(z)
      THEN Post(complete_stop(z), "stop", z.stop_error, <<>>)
      ELSE [z EXCEPT !.stop_handler = {1}]

\* Mutant of start_extern_read_some: a read that waits is replaced.
start_extern_read_some_again(x, size) ==
  LET y == [x EXCEPT !.read_handler = {size}]
  IN  IF x.extern_state # "work" THEN Post(x, "read", "invalid_state", <<>>)
      ELSE IF x.frame_buffer # <<>> THEN copy_buffer(x, size)
      ELSE IF x.read_error # "ok"
      THEN Post([x EXCEPT !.read_error = "ok"], "read", x.read_error, <<>>)
      ELSE IF y.port_read_in_progress THEN y ELSE read_until_head(y)

\* Frames first, then the error that came after them, else it waits.
start_extern_read_some(x, size) ==
  LET y == [x EXCEPT !.read_handler = {size}]
  IN  IF x.extern_state # "work" \/ x.read_handler # {}
      THEN Post(x, "read", "invalid_state", <<>>)
      ELSE IF x.frame_buffer # <<>> THEN copy_buffer(x, size)
      ELSE IF x.read_error # "ok"
      THEN Post([x EXCEPT !.read_error = "ok"], "read", x.read_error, <<>>)
      ELSE IF y.port_read_in_progress THEN y ELSE read_until_head(y)

start_extern_write_some(x) ==
  IF x.extern_state # "work" \/ x.port_write_in_progress
  THEN Post(x, "write", "invalid_state", <<>>)
  ELSE [x EXCEPT !.writing = TRUE, !.port_write_in_progress = TRUE]

-----------------------------------------------------------------------------
(***************************************************************************)
(* The handlers of the port's operations.                                    *)
(***************************************************************************)
StopOrStay(x) ==
  IF x.extern_state = "stop" /\ may_complete_stop(x)
  THEN post_extern_stop_handler(complete_stop(x))
  ELSE x

\* Mutant of ReadFailed: the error is kept even if a read waits for it.
ReadFailedKept(x, error) ==
  IF x.read_handler # {}
  THEN Post([x EXCEPT !.read_handler = {}, !.read_error = error],
            "read", error, <<>>)
  ELSE [x EXCEPT !.read_error = error]

\* The waiting read gets the error, or it is kept for the next one.
ReadFailed(x, error) ==
  IF x.read_handler # {}
  THEN Post([x EXCEPT !.read_handler = {}], "read", error, <<>>)
  ELSE [x EXCEPT !.read_error = error]

handle_read_head(x, error) ==
  LET y == [x EXCEPT !.port = "none", !.port_read_in_progress = FALSE]
  IN  IF y.extern_state = "stop" THEN StopOrStay(y)
      ELSE IF error # "ok" THEN ReadFailed(y, error)
      ELSE read_until_tail(y)

Full(x) == Len(x.frame_buffer) = RingSize

\* An object nobody refers to.
NewObject(x) ==
  CHOOSE o \in Objects \ (ToSet(x.frame_buffer)
                         \cup UNION {ToSet(x.posted[k].frames) : k \in DOMAIN x.posted}) :
    TRUE

\* Mutant of SaveFrame: any frame of the ring is filled again.
SaveFrameAgain(x) ==
  LET o == IF x.frame_buffer # <<>> THEN Head(x.frame_buffer) ELSE NewObject(x)
  IN  [x EXCEPT !.arrived = @ + 1, !.content[o] = x.arrived + 1,
                !.dropped = @ \/ Full(x),
                !.frame_buffer = Append(IF Full(x) THEN Tail(@) ELSE @, o)]

\* The frame goes into the ring; a full ring fills its oldest object again,
\* whose slot push_back takes.
SaveFrame(x) ==
  LET o == IF Full(x) THEN Head(x.frame_buffer) ELSE NewObject(x)
  IN  [x EXCEPT !.arrived = @ + 1, !.content[o] = x.arrived + 1,
                !.dropped = @ \/ Full(x),
                !.frame_buffer = Append(IF Full(x) THEN Tail(@) ELSE @, o)]

handle_read_tail(x, error) ==
  LET y == [x EXCEPT !.port = "none", !.port_read_in_progress = FALSE]
      z == SaveFrame(read_until_head(y))
  IN  IF y.extern_state = "stop" THEN StopOrStay(y)
      ELSE IF error # "ok" THEN ReadFailed(y, error)
      ELSE IF z.read_handler = {} THEN z
      ELSE copy_buffer(z, CHOOSE n \in z.read_handler : TRUE)

handle_write(x, error) ==
  StopOrStay(Post([x EXCEPT !.writing = FALSE, !.port_write_in_progress = FALSE],
                  "write", error, <<>>))

resest(x) ==
  [x EXCEPT !.open = FALSE, !.frame_buffer = <<>>, !.read_error = "ok",
            !.extern_state = "ready"]

-----------------------------------------------------------------------------
Init ==
  /\ caller \in {"main", "any"}
  /\ s = cyclic_read_session
  /\ queue = IF caller = "main" THEN <<[op |-> "start", size |-> 0]>> ELSE <<>>
  /\ owed = [op \in Ops |-> IF caller = "main" /\ op = "start" THEN 1 ELSE 0]
  /\ calls = 0

\* async_start, async_stop, async_read_some, async_write_some: posted to the strand.
Call(op, size) ==
  /\ calls < MaxCalls
  /\ calls' = calls + 1
  /\ queue' = Append(queue, [op |-> op, size |-> size])
  /\ owed' = [owed EXCEPT ![op] = @ + 1]
  /\ UNCHANGED <<caller, s>>

AsyncStart == caller = "any" /\ Call("start", 0)
AsyncStop == caller = "any" /\ Call("stop", 0)
AsyncReadSome == caller = "any" /\ \E size \in Sizes : Call("read", size)
AsyncWriteSome == caller = "any" /\ Call("write", 0)

\* Nothing left to do: main's threads return from io_service::run, and a caller
\* who knows that all of its calls have ended may reset the session.
Quiet == queue = <<>> /\ s.posted = <<>> /\ s.port = "none" /\ ~s.writing

\* resest, and the caller opens the port again.
Resest ==
  /\ caller = "any" /\ Quiet
  /\ s.extern_state # "ready" /\ calls < MaxCalls
  /\ s' = [resest(s) EXCEPT !.open = TRUE]
  /\ UNCHANGED <<caller, queue, owed, calls>>

\* Ctrl+C: main stops the session.  Once the threads have ended it does nothing.
handle_console_close == caller = "main" /\ ~Quiet /\ Call("stop", 0)

\* The call at the head of the strand's queue is op, and leaves the session as x.
Perform(op, x) ==
  /\ queue # <<>> /\ Head(queue).op = op
  /\ queue' = Tail(queue)
  /\ s' = x
  /\ UNCHANGED <<caller, owed, calls>>

StartExternStart == Perform("start", start_extern_start(s))
StartExternStop ==
  \E error \in {"ok", "error"} :
    Perform("stop", start_extern_stop(s, error))
StartExternReadSome ==
  Perform("read", start_extern_read_some(s, Head(queue).size))
StartExternWriteSome == Perform("write", start_extern_write_some(s))

\* What an operation of the port may end with; one that had ended before the
\* port was closed keeps its result.
PortResults == IF s.open THEN {"ok", "eof", "error"} ELSE {"ok", "aborted"}

HandleReadHead ==
  /\ s.port = "head"
  /\ \E error \in PortResults : s' = handle_read_head(s, error)
  /\ UNCHANGED <<caller, queue, owed, calls>>

HandleReadTail ==
  /\ s.port = "tail"
  /\ \E error \in PortResults :
       /\ error = "ok" => s.arrived < MaxFrames
       /\ s' = handle_read_tail(s, error)
  /\ UNCHANGED <<caller, queue, owed, calls>>

HandleWrite ==
  /\ s.writing
  /\ \E error \in PortResults : s' = handle_write(s, error)
  /\ UNCHANGED <<caller, queue, owed, calls>>

\* Mutant of Continue: main reads again after any error.
ContinueAlways(h) ==
  IF caller = "any" THEN <<>>
  ELSE CASE h.op = "start" /\ h.error = "ok" -> <<"read">>
         [] h.op = "read" -> <<"read">>
         [] OTHER -> <<>>

\* main's handle_start and handle_read: what they call next, if anything.
Continue(h) ==
  IF caller = "any" THEN <<>>
  ELSE CASE h.op = "start" /\ h.error = "ok" -> <<"read">>
         [] h.op = "read" /\ h.error \in {"ok", "eof"} -> <<"read">>
         [] h.op = "read" /\ h.error \notin {"ok", "eof"} -> <<"stop">>
         [] OTHER -> <<>>

\* A thread calls a posted handler; main has room for RingSize frames.
CallHandler ==
  \E k \in DOMAIN s.posted : LET h == s.posted[k] IN
    /\ s' = [s EXCEPT !.posted = RemoveAt(@, k)]
    /\ queue' = queue \o [j \in DOMAIN Continue(h) |->
                            [op |-> Continue(h)[j], size |-> RingSize]]
    /\ owed' = [op \in Ops |-> owed[op] - (IF op = h.op THEN 1 ELSE 0)
                               + (IF <<op>> = Continue(h) THEN 1 ELSE 0)]
    /\ UNCHANGED <<caller, calls>>

Next ==
  \/ AsyncStart \/ AsyncStop \/ AsyncReadSome \/ AsyncWriteSome \/ Resest
  \/ handle_console_close
  \/ StartExternStart \/ StartExternStop
  \/ StartExternReadSome \/ StartExternWriteSome
  \/ HandleReadHead \/ HandleReadTail \/ HandleWrite
  \/ CallHandler

Spec == Init /\ [][Next]_vars

(***************************************************************************)
(* Fairness: the threads run what is posted, and the operations of a closed  *)
(* port are aborted.  The device owes nothing.                               *)
(***************************************************************************)
Fairness ==
  /\ WF_vars(StartExternStart \/ StartExternStop
             \/ StartExternReadSome \/ StartExternWriteSome)
  /\ WF_vars(CallHandler)
  /\ WF_vars(~s.open /\ (HandleReadHead \/ HandleReadTail))
  /\ WF_vars(~s.open /\ HandleWrite)

LiveSpec == Spec /\ Fairness

-----------------------------------------------------------------------------
TypeOK ==
  /\ s.extern_state \in {"ready", "work", "stop", "stopped"}
  /\ Len(s.frame_buffer) <= RingSize /\ ToSet(s.frame_buffer) \subseteq Objects
  /\ {s.read_error, s.stop_error} \subseteq Errors
  /\ s.port_read_in_progress = (s.port # "none")
  /\ s.port_write_in_progress = s.writing

CountOf(q, op) == Cardinality({k \in DOMAIN q : q[k].op = op})

(***************************************************************************)
(* Every handler passed to the session is in exactly one place until it is  *)
(* called: on the strand, in a storage, in the write of the port or posted. *)
(* A storage never replaces one, and a handler that is stored will be       *)
(* called: something is in progress that will post it, so main does not run *)
(* out of work while a read or a stop waits.                                *)
(***************************************************************************)
HandlersServed ==
  /\ TypeOK
  /\ \A op \in Ops :
       owed[op] = CountOf(queue, op) + CountOf(s.posted, op)
                  + (CASE op = "read" -> Cardinality(s.read_handler)
                       [] op = "stop" -> Cardinality(s.stop_handler)
                       [] op = "write" /\ s.writing -> 1
                       [] OTHER -> 0)
  /\ s.read_handler # {} =>
       s.extern_state = "work" /\ s.port_read_in_progress
       /\ s.frame_buffer = <<>> /\ s.read_error = "ok"
  /\ s.stop_handler # {} => s.extern_state = "stop" /\ ~may_complete_stop(s)
  /\ s.extern_state = "stopped" => may_complete_stop(s)

(***************************************************************************)
(* The frames.  The ring holds the newest ones, one object each, in the     *)
(* order they came and all newer than those handed out; none is missing     *)
(* unless the ring was full.  A frame that was handed out and not yet       *)
(* printed is not filled again under the reader's hands.                    *)
(***************************************************************************)
FramesSound ==
  LET ring == s.frame_buffer
      n == Len(ring)
  IN  /\ \A k \in 1 .. n : s.content[ring[k]] = s.arrived - n + k
      /\ n > 0 => s.arrived - n >= s.given
      /\ (s.extern_state = "work" /\ ~s.dropped /\ caller = "main") =>
            s.arrived - n = s.given
      /\ \A j \in DOMAIN s.posted : LET h == s.posted[j] IN
           \A k \in DOMAIN h.frames : s.content[h.frames[k]] = h.numbers[k]

(***************************************************************************)
(* A read error is seen once, and after the frames that came before it: it  *)
(* is kept only if no read took it, no frame is cut while it is kept, and a *)
(* session that works forgets it only by giving it to a read that found the *)
(* ring empty.                                                              *)
(***************************************************************************)
ErrorSeenOnce ==
  [][ /\ s.read_error # "ok" => s'.arrived = s.arrived
      /\ (s.read_error # "ok" /\ s'.read_error = "ok" /\ s'.extern_state = "work") =>
           /\ Last(s'.posted).error = s.read_error
           /\ s.frame_buffer = <<>>
      /\ (s.read_error = "ok" /\ s'.read_error # "ok") => s'.posted = s.posted ]_vars

(***************************************************************************)
(* However the device and the calls race it, a stop ends everything: the    *)
(* handlers are all called, nothing is in progress, and main ends.          *)
(***************************************************************************)
StopEndsAll ==
  (owed["stop"] > 0) ~> (Quiet /\ \A op \in Ops : owed[op] = 0)

=============================================================================

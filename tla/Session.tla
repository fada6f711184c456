------------------------------ MODULE Session ------------------------------
(***************************************************************************)
(* ma::echo::server::session (examples/ma_echo_server_core): one connection *)
(* of the echo server.                                                      *)
(*                                                                          *)
(* Every member function below runs inside the session's strand, so a       *)
(* handler is atomic; what interleaves is the order in which the strand     *)
(* runs the user's calls and the completions of the socket read, the socket *)
(* write and the timer wait.  The methods are operators from session states *)
(* to session states, and nest the way the methods call each other; the     *)
(* actions are the handlers the strand runs.                                *)
(*                                                                          *)
(* External, modelled from its use: the socket and the deadline timer of    *)
(* asio (the completions of the operations they own) and the peer.          *)
(***************************************************************************)
EXTENDS Naturals, Sequences, FiniteSets, SequencesExt

CONSTANTS
  BufferSize,   \* session_config::buffer_size
  MaxTransfer,  \* session_config::max_transfer_size
  Timeout,      \* whether session_config::inactivity_timeout is set
  Faults,       \* the system calls that may fail, a subset of SystemCalls
  MaxBytes,     \* bound: bytes the peer sends on one connection
  MaxCalls      \* bound: calls of each async_* on one connection

SystemCalls == {"options", "shutdown", "close", "expires", "cancel",
                "stop_cancel", "timer"}

ASSUME ConfigAssumption ==
  /\ BufferSize \in Nat \ {0}
  /\ MaxTransfer \in Nat \ {0}
  /\ Timeout \in BOOLEAN
  /\ Faults \subseteq SystemCalls
  /\ MaxBytes \in Nat
  /\ MaxCalls \in Nat

Buf == INSTANCE CyclicBuffer

VARIABLES
  s,      \* the session with the asio operations it has outstanding
  calls,  \* calls[c]: number of async_start / async_wait / async_stop calls
  mem,    \* the memory of the buffer: mem[i] is the byte in cell i
  rcvd,   \* number of bytes received: the k-th one received is byte k
  out     \* the bytes the peer has been sent

vars == <<s, calls, mem, rcvd, out>>

Calls == {"start", "wait", "stop"}

\* "ok" is the default error_code; "error" stands for any system error other
\* than end of file and an aborted operation.
Errors == {"ok", "eof", "error", "aborted",
           "invalid_state", "operation_aborted", "inactivity_timeout"}

Blocks == [at : Nat, len : Nat]

(***************************************************************************)
(* The members of the class, then what asio and the io_service hold for it, *)
(* then history the properties speak of.                                    *)
(***************************************************************************)
SessionStates ==
  [extern_state         : {"ready", "work", "stop", "stopped"},
   intern_state         : {"work", "shutdown", "stop", "stopped"},
   read_state           : {"wait", "in_progress", "stopped"},
   write_state          : {"wait", "in_progress", "stopped"},
   timer_state          : {"ready", "in_progress", "stopped"},
   timer_wait_cancelled : BOOLEAN,
   timer_turned         : BOOLEAN,
   pending_operations   : Nat,
   buffer               : Buf!Buffers(BufferSize),
   extern_wait_error    : Errors,
   wait_handler         : BOOLEAN,  \* extern_wait_handler_.has_target()
   stop_handler         : BOOLEAN,  \* extern_stop_handler_.has_target()
   open                 : BOOLEAN,  \* the socket is open
   fin                  : BOOLEAN,  \* its sending direction was shut down
   ops                  : SUBSET {"read", "write", "timer"},  \* asio owns
   reading              : Seq(Blocks),  \* buffers of the last socket read
   writing              : Seq(Blocks),  \* buffers of the last socket write
   timer_aborted        : BOOLEAN,  \* the outstanding wait was cancelled
   posted               : [Calls -> Seq(Errors)],  \* handlers' results
   expiry_stale         : BOOLEAN,  \* I/O completed since the expiry was set
   wait_stale           : BOOLEAN,  \* ... or since the wait was started
   stop_reason          : Errors]   \* the error start_stop was called with

session ==
  [extern_state |-> "ready", intern_state |-> "work", read_state |-> "wait",
   write_state |-> "wait", timer_state |-> "ready",
   timer_wait_cancelled |-> FALSE, timer_turned |-> FALSE,
   pending_operations |-> 0, buffer |-> Buf!cyclic_buffer(BufferSize),
   extern_wait_error |-> "ok", wait_handler |-> FALSE, stop_handler |-> FALSE,
   open |-> TRUE, fin |-> FALSE, ops |-> {}, reading |-> <<>>, writing |-> <<>>,
   timer_aborted |-> FALSE, posted |-> [c \in Calls |-> <<>>],
   expiry_stale |-> FALSE, wait_stale |-> FALSE, stop_reason |-> "ok"]

Init ==
  /\ s = session
  /\ calls = [c \in Calls |-> 0]
  /\ mem = [i \in 0 .. BufferSize - 1 |-> 0]
  /\ rcvd = 0
  /\ out = <<>>

-----------------------------------------------------------------------------
(***************************************************************************)
(* The asio operations.                                                     *)
(***************************************************************************)
start_socket_read(r, buffers) ==
  [r EXCEPT !.ops = @ \cup {"read"}, !.reading = buffers,
            !.pending_operations = @ + 1, !.read_state = "in_progress"]

start_socket_write(r, buffers) ==
  [r EXCEPT !.ops = @ \cup {"write"}, !.writing = buffers,
            !.pending_operations = @ + 1, !.write_state = "in_progress"]

\* Mutant of start_timer_wait: the wait is not counted as pending.
start_timer_wait_uncounted(r) ==
  [r EXCEPT !.ops = @ \cup {"timer"}, !.timer_aborted = FALSE,
            !.wait_stale = r.expiry_stale, !.timer_state = "in_progress",
            !.timer_wait_cancelled = FALSE]

start_timer_wait(r) ==
  [r EXCEPT !.ops = @ \cup {"timer"}, !.timer_aborted = FALSE,
            !.wait_stale = r.expiry_stale,
            !.pending_operations = @ + 1, !.timer_state = "in_progress",
            !.timer_wait_cancelled = FALSE]

\* Whether cancel_timer_wait returns an error: the call is made only once.
CancelFails(r, failed) ==
  failed /\ ~r.timer_wait_cancelled /\ r.timer_state = "in_progress"

cancel_timer_wait(r, failed) ==
  IF CancelFails(r, failed)
  THEN r
  ELSE [r EXCEPT !.timer_aborted = @ \/ ( ~r.timer_wait_cancelled
                                          /\ r.timer_state = "in_progress" ),
                 !.timer_wait_cancelled = TRUE, !.timer_turned = FALSE]

\* The socket is closed even when close() reports an error.
close_socket(r) == [r EXCEPT !.open = FALSE]

shutdown_socket(r) == [r EXCEPT !.fin = TRUE]

-----------------------------------------------------------------------------
(***************************************************************************)
(* The general stop.                                                        *)
(***************************************************************************)
complete_extern_stop(r, error) ==
  IF r.stop_handler
  THEN [r EXCEPT !.stop_handler = FALSE, !.posted["stop"] = Append(@, error)]
  ELSE r

FirstError(error1, error2) == IF error1 = "ok" THEN error2 ELSE error1

\* Mutant of complete_extern_wait: a later reason replaces the first one.
complete_extern_wait_latest(r, error) ==
  LET q == [r EXCEPT !.extern_wait_error = error]
  IN  IF r.wait_handler
      THEN [q EXCEPT !.wait_handler = FALSE, !.posted["wait"] = Append(@, error)]
      ELSE q

complete_extern_wait(r, error) ==
  LET why == FirstError(r.extern_wait_error, error)
      q   == [r EXCEPT !.extern_wait_error = why]
  IN  IF r.wait_handler
      THEN [q EXCEPT !.wait_handler = FALSE, !.posted["wait"] = Append(@, why)]
      ELSE q

\* Mutant of continue_stop: it does not wait for the outstanding operations.
continue_stop_early(r) ==
  IF r.extern_state = "stop"
  THEN complete_extern_stop([r EXCEPT !.intern_state = "stopped",
                                      !.extern_state = "stopped"], "ok")
  ELSE [r EXCEPT !.intern_state = "stopped"]

continue_stop(r) ==
  IF r.pending_operations # 0 THEN r
  ELSE IF r.extern_state = "stop"
  THEN complete_extern_stop([r EXCEPT !.intern_state = "stopped",
                                      !.extern_state = "stopped"], "ok")
  ELSE [r EXCEPT !.intern_state = "stopped"]

\* The activities that wait for nothing are stopped at once.
StopIdle(r) ==
  [r EXCEPT !.read_state  = IF @ = "wait" THEN "stopped" ELSE @,
            !.write_state = IF @ = "wait" THEN "stopped" ELSE @,
            !.timer_state = IF @ = "ready" THEN "stopped" ELSE @]

\* Mutant of start_stop: the wait handler is not notified.
start_stop_silent(r, error, f) ==
  LET closed == close_socket([r EXCEPT !.intern_state = "stop",
                                       !.stop_reason = error])
  IN  continue_stop(StopIdle(cancel_timer_wait(closed, "stop_cancel" \in f)))

start_stop(r, error, f) ==
  LET closed == close_socket([r EXCEPT !.intern_state = "stop",
                                       !.stop_reason = error])
      why    == FirstError(FirstError(error,
                             IF "close" \in f THEN "error" ELSE "ok"),
                  IF CancelFails(closed, "stop_cancel" \in f) THEN "error"
                                                              ELSE "ok")
      idle   == StopIdle(cancel_timer_wait(closed, "stop_cancel" \in f))
  IN  continue_stop(IF idle.extern_state = "work"
                    THEN complete_extern_wait(idle, why) ELSE idle)

-----------------------------------------------------------------------------
(***************************************************************************)
(* The timer, work and shutdown.                                            *)
(***************************************************************************)
HasIoActivity(r) == "in_progress" \in {r.read_state, r.write_state}

\* expires_from_now also cancels the outstanding wait.
TurnTimer(r) ==
  [r EXCEPT !.timer_aborted = @ \/ "timer" \in r.ops, !.expiry_stale = FALSE,
            !.timer_wait_cancelled = TRUE, !.timer_turned = TRUE]

continue_timer_wait(r, f) ==
  IF ~Timeout \/ ~HasIoActivity(r) \/ r.timer_turned THEN r
  ELSE IF "expires" \in f THEN start_stop(r, "error", f)
  ELSE IF r.timer_state = "ready" THEN start_timer_wait(TurnTimer(r))
  ELSE TurnTimer(r)

\* Reads into the free space, if there is any.
ReadMore(r, max_size) ==
  LET buffers == Buf!prepared(r.buffer, max_size)
  IN  IF r.read_state = "wait" /\ buffers # <<>>
      THEN start_socket_read(r, buffers) ELSE r

\* Writes what is buffered, if anything is.
WriteMore(r) ==
  LET buffers == Buf!data(r.buffer, MaxTransfer)
  IN  IF r.write_state = "wait" /\ buffers # <<>>
      THEN start_socket_write(r, buffers) ELSE r

continue_work(r, f) ==
  continue_timer_wait(WriteMore(ReadMore(r, MaxTransfer)), f)

\* Mutant of RestartTimer: the watchdog is not restarted during shutdown.
RestartTimerNever(r, need_timer_restart, f) == r

RestartTimer(r, need_timer_restart, f) ==
  IF need_timer_restart THEN continue_timer_wait(r, f) ELSE r

\* Ends the outgoing stream.
EndOutput(r) == [shutdown_socket(r) EXCEPT !.write_state = "stopped"]

ResetBuffer(r) == [r EXCEPT !.buffer = Buf!reset(@)]

\* Mutant of continue_shutdown_at_read_wait: the buffer is reset under a write.
continue_shutdown_reset_always(r, need_timer_restart, f) ==
  IF r.write_state = "wait" /\ "shutdown" \in f THEN start_stop(r, "error", f)
  ELSE LET b == ResetBuffer(IF r.write_state = "wait" THEN EndOutput(r) ELSE r)
       IN  RestartTimer(ReadMore(b, b.buffer.nonfilled_size),
                        need_timer_restart, f)

continue_shutdown_at_read_wait(r, need_timer_restart, f) ==
  IF r.write_state = "wait" /\ "shutdown" \in f THEN start_stop(r, "error", f)
  ELSE LET w == IF r.write_state = "wait" THEN EndOutput(r) ELSE r
           b == IF w.write_state = "stopped" THEN ResetBuffer(w) ELSE w
       IN  RestartTimer(ReadMore(b, b.buffer.nonfilled_size),
                        need_timer_restart, f)

continue_shutdown_at_read_in_progress(r, need_timer_restart, f) ==
  IF r.write_state = "wait" /\ "shutdown" \in f THEN start_stop(r, "error", f)
  ELSE RestartTimer(IF r.write_state = "wait" THEN EndOutput(r) ELSE r,
                    need_timer_restart, f)

\* Mutant of continue_shutdown_at_read_stopped: what is buffered is not sent.
continue_shutdown_unsent(r, need_timer_restart, f) ==
  LET e == IF r.write_state = "wait" THEN EndOutput(r) ELSE r
  IN  IF e.write_state = "stopped" THEN start_stop(e, "ok", f)
      ELSE RestartTimer(e, need_timer_restart, f)

\* A shutdown error is ignored: the outgoing stream is then not ended.
continue_shutdown_at_read_stopped(r, need_timer_restart, f) ==
  LET w == WriteMore(r)
      e == IF w.write_state # "wait" THEN w
           ELSE IF "shutdown" \in f THEN [w EXCEPT !.write_state = "stopped"]
           ELSE EndOutput(w)
  IN  IF e.write_state = "stopped" THEN start_stop(e, "ok", f)
      ELSE RestartTimer(e, need_timer_restart, f)

continue_shutdown(r, need_timer_restart, f) ==
  IF r.read_state = "wait"
  THEN continue_shutdown_at_read_wait(r, need_timer_restart, f)
  ELSE IF r.read_state = "in_progress"
  THEN continue_shutdown_at_read_in_progress(r, need_timer_restart, f)
  ELSE continue_shutdown_at_read_stopped(r, need_timer_restart, f)

start_shutdown(r, error, need_timer_restart, f) ==
  LET q == [r EXCEPT !.intern_state = "shutdown"]
  IN  continue_shutdown(IF r.extern_state = "work"
                        THEN complete_extern_wait(q, error) ELSE q,
                        need_timer_restart, f)

-----------------------------------------------------------------------------
(***************************************************************************)
(* The user's calls.  do_start_extern_wait and do_start_extern_stop either  *)
(* have a result, which is posted, or leave the handler parked.             *)
(***************************************************************************)
Post(r, call, error) == [r EXCEPT !.posted[call] = Append(@, error)]

StartFailed(r) ==
  [close_socket(r) EXCEPT !.extern_state = "stopped", !.intern_state = "stopped",
     !.read_state = "stopped", !.write_state = "stopped",
     !.timer_state = "stopped"]

\* Linger, the two buffer sizes and no_delay; the first one that fails ends it.
apply_socket_options(f) == IF "options" \in f THEN "error" ELSE "ok"

start_extern_start(r, f) ==
  IF r.extern_state # "ready" THEN Post(r, "start", "invalid_state")
  ELSE IF apply_socket_options(f) # "ok" THEN Post(StartFailed(r), "start", "error")
  ELSE Post(continue_work([r EXCEPT !.extern_state = "work"], f), "start", "ok")

\* Mutant of do_start_extern_stop: the parked wait is not aborted.
do_start_extern_stop_silent(r, f) ==
  LET q == [r EXCEPT !.extern_state = "stop"]
  IN  IF q.intern_state = "work"
      THEN start_shutdown(q, "operation_aborted", FALSE, f) ELSE q

do_start_extern_stop(r, f) ==
  LET q == complete_extern_wait([r EXCEPT !.extern_state = "stop"],
                                "operation_aborted")
  IN  IF q.intern_state = "work"
      THEN start_shutdown(q, "operation_aborted", FALSE, f) ELSE q

start_extern_stop(r, f) ==
  LET q == do_start_extern_stop(r, f)
  IN  IF r.extern_state \in {"stop", "stopped"}
      THEN Post(r, "stop", "invalid_state")
      ELSE IF q.intern_state = "stopped"
      THEN Post([q EXCEPT !.extern_state = "stopped"], "stop", "ok")
      ELSE [q EXCEPT !.stop_handler = TRUE]

\* Mutant of start_extern_wait: a second wait replaces the parked one.
start_extern_wait_again(r) ==
  IF r.extern_state # "work" THEN Post(r, "wait", "invalid_state")
  ELSE IF r.intern_state # "work" THEN Post(r, "wait", r.extern_wait_error)
  ELSE [r EXCEPT !.wait_handler = TRUE]

start_extern_wait(r) ==
  IF r.extern_state # "work" \/ r.wait_handler
  THEN Post(r, "wait", "invalid_state")
  ELSE IF r.intern_state # "work" THEN Post(r, "wait", r.extern_wait_error)
  ELSE [r EXCEPT !.wait_handler = TRUE]

-----------------------------------------------------------------------------
(***************************************************************************)
(* The completion handlers.  Each begins by registering the completion.     *)
(***************************************************************************)
ReadDone(r, state) ==
  [r EXCEPT !.ops = @ \ {"read"}, !.pending_operations = @ - 1,
            !.read_state = state, !.expiry_stale = TRUE, !.wait_stale = TRUE]

WriteDone(r, state) ==
  [r EXCEPT !.ops = @ \ {"write"}, !.pending_operations = @ - 1,
            !.write_state = state, !.expiry_stale = TRUE, !.wait_stale = TRUE]

TimerDone(r, state) ==
  [r EXCEPT !.ops = @ \ {"timer"}, !.pending_operations = @ - 1,
            !.timer_state = state]

StopReading(r) == [r EXCEPT !.read_state = "stopped"]
StopWriting(r) == [r EXCEPT !.write_state = "stopped"]

\* Mutant of Consume: a partial read is taken for a full one.
ConsumeAll(r, bytes) ==
  [r EXCEPT !.buffer = Buf!consume(@, Buf!Least(@.nonfilled_size, MaxTransfer))]

Consume(r, bytes) == [r EXCEPT !.buffer = Buf!consume(@, bytes)]
Commit(r, bytes)  == [r EXCEPT !.buffer = Buf!commit(@, bytes)]

handle_read_at_work(r, error, bytes_transferred, f) ==
  LET d == ReadDone(r, "wait")
      c == cancel_timer_wait(d, "cancel" \in f)
  IN  IF CancelFails(d, "cancel" \in f)
      THEN start_stop(StopReading(c), "error", f)
      ELSE IF error \notin {"ok", "eof"}
      THEN start_stop(StopReading(c), error, f)
      ELSE IF error = "eof"
      THEN start_shutdown(StopReading(Consume(c, bytes_transferred)),
                          error, TRUE, f)
      ELSE continue_work(Consume(c, bytes_transferred), f)

handle_read_at_shutdown(r, error, bytes_transferred, f) ==
  LET d == ReadDone(r, "wait")
      c == cancel_timer_wait(d, "cancel" \in f)
  IN  IF CancelFails(d, "cancel" \in f)
      THEN start_stop(StopReading(c), "error", f)
      ELSE IF error \notin {"ok", "eof"}
      THEN start_stop(StopReading(c), error, f)
      ELSE IF error = "eof"
      THEN continue_shutdown(StopReading(Consume(c, bytes_transferred)), TRUE, f)
      ELSE continue_shutdown(Consume(c, bytes_transferred), TRUE, f)

handle_write_at_work(r, error, bytes_transferred, f) ==
  LET d == WriteDone(r, "wait")
      c == cancel_timer_wait(d, "cancel" \in f)
  IN  IF CancelFails(d, "cancel" \in f)
      THEN start_stop(StopWriting(c), "error", f)
      ELSE IF error # "ok"
      THEN start_stop(StopWriting(c), error, f)
      ELSE continue_work(Commit(c, bytes_transferred), f)

handle_write_at_shutdown(r, error, bytes_transferred, f) ==
  LET d == WriteDone(r, "wait")
      c == cancel_timer_wait(d, "cancel" \in f)
  IN  IF CancelFails(d, "cancel" \in f)
      THEN start_stop(StopWriting(c), "error", f)
      ELSE IF error # "ok"
      THEN start_stop(StopWriting(c), error, f)
      ELSE continue_shutdown(Commit(c, bytes_transferred), TRUE, f)

\* Mutants of handle_timer_at_work: a queued expiry counts although the wait was
\* cancelled since; a cancelled wait is not followed by the next one.
handle_timer_expired(r, error, f) ==
  IF error # "aborted"
  THEN start_stop(TimerDone(r, "stopped"), "inactivity_timeout", f)
  ELSE IF r.timer_turned THEN start_timer_wait(TimerDone(r, "ready"))
  ELSE TimerDone(r, "ready")

handle_timer_once(r, error, f) ==
  IF error \notin {"ok", "aborted"}
  THEN start_stop(TimerDone(r, "stopped"), error, f)
  ELSE IF ~r.timer_wait_cancelled
  THEN start_stop(TimerDone(r, "stopped"), "inactivity_timeout", f)
  ELSE TimerDone(r, "ready")

handle_timer_at_work(r, error, f) ==
  LET d == TimerDone(r, "ready")
  IN  IF error \notin {"ok", "aborted"}
      THEN start_stop(TimerDone(r, "stopped"), error, f)
      ELSE IF ~d.timer_wait_cancelled
      THEN start_stop(TimerDone(r, "stopped"), "inactivity_timeout", f)
      ELSE IF d.timer_turned THEN start_timer_wait(d)
      ELSE d

handle_read_at_stop(r)  == continue_stop(ReadDone(r, "stopped"))
handle_write_at_stop(r) == continue_stop(WriteDone(r, "stopped"))
handle_timer_at_stop(r) == continue_stop(TimerDone(r, "stopped"))

reset(r) ==
  [session EXCEPT !.open = FALSE, !.wait_handler = r.wait_handler,
                  !.stop_handler = r.stop_handler]

-----------------------------------------------------------------------------
(***************************************************************************)
(* What asio and the peer do: the results an operation may complete with.   *)
(* An operation is aborted only by close() or cancel(), and one that has    *)
(* completed before that keeps its result: its handler is already queued.   *)
(***************************************************************************)
ReadResults ==
  [error : {"ok"}, bytes : 1 .. Buf!Least(Buf!BytesIn(s.reading), MaxBytes - rcvd)]
  \cup [error : {"eof", "error"}, bytes : {0}]
  \cup [error : IF s.open THEN {} ELSE {"aborted"}, bytes : {0}]

WriteResults ==
  [error : {"ok"}, bytes : 1 .. Buf!BytesIn(s.writing)]
  \cup [error : IF s.open THEN {"error"} ELSE {"error", "aborted"}, bytes : {0}]

TimerResults ==
  {"ok"} \cup (IF s.timer_aborted THEN {"aborted"} ELSE {})
         \cup (IF "timer" \in Faults THEN {"error"} ELSE {})

\* Bytes rcvd + 1 .. rcvd + n arrive in the first n cells of the read.
Receive(n) ==
  LET cells == Buf!Cells(s.reading)
  IN  /\ rcvd' = rcvd + n
      /\ mem' = [i \in DOMAIN mem |->
                   IF \E k \in 1 .. n : cells[k] = i
                   THEN rcvd + (CHOOSE k \in 1 .. n : cells[k] = i)
                   ELSE mem[i]]
      /\ UNCHANGED <<calls, out>>

\* The first n bytes of the write leave.
Send(n) ==
  LET cells == Buf!Cells(s.writing)
  IN  /\ out' = out \o [k \in 1 .. n |-> mem[cells[k]]]
      /\ UNCHANGED <<calls, mem, rcvd>>

\* The system calls a handler makes: socket options are set only by the start,
\* and "timer" is the failure of a wait itself.
HandlerFaults == Faults \ {"options", "timer"}

Call(c) ==
  /\ calls[c] < MaxCalls
  /\ calls' = [calls EXCEPT ![c] = @ + 1]
  /\ UNCHANGED <<mem, rcvd, out>>

-----------------------------------------------------------------------------
AsyncStart == Call("start") /\ \E f \in SUBSET Faults :
                                 s' = start_extern_start(s, f)

AsyncWait == Call("wait") /\ s' = start_extern_wait(s)

AsyncStop == Call("stop") /\ \E f \in SUBSET HandlerFaults :
                               s' = start_extern_stop(s, f)

HandleReadAtWork ==
  /\ "read" \in s.ops /\ s.intern_state = "work"
  /\ \E res \in ReadResults, f \in SUBSET HandlerFaults :
       /\ s' = handle_read_at_work(s, res.error, res.bytes, f)
       /\ Receive(res.bytes)

HandleReadAtShutdown ==
  /\ "read" \in s.ops /\ s.intern_state = "shutdown"
  /\ \E res \in ReadResults, f \in SUBSET HandlerFaults :
       /\ s' = handle_read_at_shutdown(s, res.error, res.bytes, f)
       /\ Receive(res.bytes)

HandleReadAtStop ==
  /\ "read" \in s.ops /\ s.intern_state = "stop"
  /\ \E res \in ReadResults :
       /\ s' = handle_read_at_stop(s)
       /\ Receive(res.bytes)

HandleWriteAtWork ==
  /\ "write" \in s.ops /\ s.intern_state = "work"
  /\ \E res \in WriteResults, f \in SUBSET HandlerFaults :
       /\ s' = handle_write_at_work(s, res.error, res.bytes, f)
       /\ Send(res.bytes)

HandleWriteAtShutdown ==
  /\ "write" \in s.ops /\ s.intern_state = "shutdown"
  /\ \E res \in WriteResults, f \in SUBSET HandlerFaults :
       /\ s' = handle_write_at_shutdown(s, res.error, res.bytes, f)
       /\ Send(res.bytes)

HandleWriteAtStop ==
  /\ "write" \in s.ops /\ s.intern_state = "stop"
  /\ \E res \in WriteResults :
       /\ s' = handle_write_at_stop(s)
       /\ Send(res.bytes)

HandleTimerAtWork ==
  /\ "timer" \in s.ops /\ s.intern_state \in {"work", "shutdown"}
  /\ \E error \in TimerResults, f \in SUBSET HandlerFaults :
       s' = handle_timer_at_work(s, error, f)
  /\ UNCHANGED <<calls, mem, rcvd, out>>

HandleTimerAtStop ==
  /\ "timer" \in s.ops /\ s.intern_state = "stop"
  /\ s' = handle_timer_at_stop(s)
  /\ UNCHANGED <<calls, mem, rcvd, out>>

\* The session_manager resets a session only between two uses: nothing of it is
\* outstanding and it was never started or is stopped.
Reset ==
  /\ s.ops = {} /\ s.extern_state \in {"ready", "stopped"}
  /\ s' = [reset(s) EXCEPT !.open = TRUE]   \* the next accept opens the socket
  /\ calls' = [c \in Calls |-> 0]
  /\ mem' = [i \in DOMAIN mem |-> 0]
  /\ rcvd' = 0
  /\ out' = <<>>

Next ==
  \/ AsyncStart
  \/ AsyncWait
  \/ AsyncStop
  \/ HandleReadAtWork
  \/ HandleReadAtShutdown
  \/ HandleReadAtStop
  \/ HandleWriteAtWork
  \/ HandleWriteAtShutdown
  \/ HandleWriteAtStop
  \/ HandleTimerAtWork
  \/ HandleTimerAtStop
  \/ Reset

Spec == Init /\ [][Next]_vars

(***************************************************************************)
(* Fairness.  A cancelled or closed operation and an expired wait are       *)
(* delivered to the strand by a running io_service; a peer, on the other    *)
(* hand, owes the session nothing, so reads and writes on an open socket    *)
(* get no fairness.                                                         *)
(***************************************************************************)
Fairness ==
  /\ WF_vars(HandleTimerAtWork)
  /\ WF_vars(HandleTimerAtStop)
  /\ WF_vars(HandleReadAtStop)
  /\ WF_vars(HandleWriteAtStop)

LiveSpec == Spec /\ Fairness

-----------------------------------------------------------------------------
(***************************************************************************)
(* Type correctness of the session; in particular no counter or size of it  *)
(* is ever driven below zero.                                               *)
(***************************************************************************)
TypeOK == s \in SessionStates /\ calls \in [Calls -> Nat] /\ rcvd \in Nat

(***************************************************************************)
(* The activities' states tell exactly which asio operations are            *)
(* outstanding, and pending_operations counts them: no handler runs in a    *)
(* state its assertions exclude, and the stop neither completes under an    *)
(* outstanding operation nor waits for one that does not exist.             *)
(***************************************************************************)
OutstandingMatches ==
  /\ "read"  \in s.ops <=> s.read_state  = "in_progress"
  /\ "write" \in s.ops <=> s.write_state = "in_progress"
  /\ "timer" \in s.ops <=> s.timer_state = "in_progress"
  /\ s.pending_operations = Cardinality(s.ops)

(***************************************************************************)
(* A session that reports itself stopped is quiet: every activity is        *)
(* stopped, nothing is outstanding and the socket is closed.  A session in  *)
(* the course of stopping still has something to wait for.                  *)
(***************************************************************************)
StoppedIsQuiet ==
  /\ s.intern_state = "stopped" =>
       /\ s.read_state = "stopped" /\ s.write_state = "stopped"
       /\ s.timer_state = "stopped" /\ s.ops = {} /\ ~s.open
  /\ s.intern_state = "stop" => s.ops # {} /\ ~s.open
  /\ s.extern_state = "stopped" => s.intern_state = "stopped"

(***************************************************************************)
(* A parked handler is one that will still be called: a wait handler only   *)
(* while the session works, a stop handler exactly while it stops.          *)
(***************************************************************************)
ParkedWillBeCalled ==
  /\ s.wait_handler => s.extern_state = "work" /\ s.intern_state = "work"
  /\ s.stop_handler <=> s.extern_state = "stop"
  /\ s.extern_state = "stop" => s.intern_state \in {"shutdown", "stop"}

(***************************************************************************)
(* No handler of the user is lost or called twice: each call was answered   *)
(* once or its handler is the one that is parked.                           *)
(***************************************************************************)
NoHandlerLost ==
  LET parked == [start |-> FALSE, wait |-> s.wait_handler,
                 stop |-> s.stop_handler]
  IN  \A c \in Calls :
        calls[c] = Len(s.posted[c]) + (IF parked[c] THEN 1 ELSE 0)

Filled == Buf!Cells(Buf!data(s.buffer, BufferSize))

(***************************************************************************)
(* The peer is sent back what it sent, from the first byte on and in order; *)
(* and while the session may still write, its buffer holds exactly the      *)
(* bytes received and not yet sent: nothing is dropped, overwritten or      *)
(* repeated by partial reads and writes that wrap around.                   *)
(***************************************************************************)
EchoExact ==
  /\ out = [k \in 1 .. Len(out) |-> k]
  /\ s.intern_state \in {"work", "shutdown"} /\ s.write_state # "stopped" =>
       /\ Len(out) + Len(Filled) = rcvd
       /\ \A k \in 1 .. Len(Filled) : mem[Filled[k]] = Len(out) + k

(***************************************************************************)
(* A transfer in flight fits: whatever was consumed, committed or reset     *)
(* since a read was started, there is still free space for every byte it    *)
(* was given, and a write still finds its bytes buffered.  So consume and   *)
(* commit never throw length_error inside a handler.                        *)
(***************************************************************************)
TransfersFit ==
  s.intern_state \in {"work", "shutdown"} =>
    /\ "read"  \in s.ops => Buf!BytesIn(s.reading) <= s.buffer.nonfilled_size
    /\ "write" \in s.ops => Buf!BytesIn(s.writing) <= s.buffer.filled_size

(***************************************************************************)
(* Transfers in flight keep apart: the cells a read may store into hold no  *)
(* byte that waits to be sent, and a write sends the first bytes that do.   *)
(***************************************************************************)
TransfersApart ==
  s.intern_state \in {"work", "shutdown"} =>
    /\ "read" \in s.ops =>
         /\ s.reading # <<>>
         /\ ToSet(Buf!Cells(s.reading)) \cap ToSet(Filled) = {}
    /\ "write" \in s.ops =>
         /\ s.writing # <<>>
         /\ IsPrefix(Buf!Cells(s.writing), Filled)

(***************************************************************************)
(* Unless the user asked for the stop, the outgoing stream is ended only    *)
(* after every received byte was sent back.                                 *)
(***************************************************************************)
GracefulEcho == s.fin /\ s.extern_state = "work" => Len(out) = rcvd

(***************************************************************************)
(* The data path as a whole: the echo is exact, transfers in flight keep    *)
(* apart, and a peer that ends its stream gets everything back first.       *)
(***************************************************************************)
EchoSound == EchoExact /\ TransfersApart /\ GracefulEcho

(***************************************************************************)
(* A session stops for inactivity only when no transfer completed since the *)
(* expiry it waited for was set, whatever late completion of a cancelled    *)
(* wait the strand delivers.                                                *)
(***************************************************************************)
NoSpuriousTimeout ==
  [][ s'.stop_reason = "inactivity_timeout" /\ s'.stop_reason # s.stop_reason
      => ~s.wait_stale ]_s

(***************************************************************************)
(* The watchdog guards every transfer of a started session: with an         *)
(* inactivity timeout configured, a wait is outstanding that will either    *)
(* stop the session or be followed by one that will.                        *)
(***************************************************************************)
WatchdogArmed ==
  /\ Timeout /\ "ok" \in ToSet(s.posted["start"])
  /\ s.intern_state \in {"work", "shutdown"}
  => "timer" \in s.ops /\ s.timer_turned /\ ~s.expiry_stale

(***************************************************************************)
(* With an inactivity timeout, a started session that is told to stop does  *)
(* stop, whatever its peer does: it may stop reading, never close, or send  *)
(* a last finite number of bytes.                                           *)
(***************************************************************************)
StopCompletes ==
  s.extern_state = "stop" /\ "ok" \in ToSet(s.posted["start"])
    ~> s.extern_state = "stopped"

(***************************************************************************)
(* With an inactivity timeout, a parked wait is answered even if the peer   *)
(* falls silent.                                                            *)
(***************************************************************************)
WaitCompletes == s.wait_handler ~> ~s.wait_handler

(***************************************************************************)
(* Every call a started session has accepted is answered in the end.        *)
(***************************************************************************)
CallsComplete == StopCompletes /\ WaitCompletes

(***************************************************************************)
(* The session implements its interface: seen from outside it is working,   *)
(* ending (shutdown and stop are not told apart) or stopped.                *)
(***************************************************************************)
Run(intern_state) ==
  IF intern_state \in {"work", "stopped"} THEN intern_state ELSE "ending"

Api == INSTANCE SessionApi WITH
         Reasons <- {"eof", "error", "aborted", "inactivity_timeout"},
         a <- [extern_state |-> s.extern_state, run |-> Run(s.intern_state),
               extern_wait_error |-> s.extern_wait_error,
               wait_handler |-> s.wait_handler, stop_handler |-> s.stop_handler,
               posted |-> s.posted]

\* Every call is answered as SessionApi says, whatever the socket and the timer
\* do meanwhile; in particular every accepted wait, also one that comes after the
\* end, is told the first reason, however the session went on to fail.
ImplementsApi == Api!Spec

=============================================================================

----------------------------- MODULE SessionApi -----------------------------
(***************************************************************************)
(* What a session promises to its user (ma::echo::server::session,          *)
(* examples/ma_echo_server_core): how async_start, async_wait and           *)
(* async_stop are answered, with nothing of the socket, the timer and the   *)
(* buffer left but the moments at which the session begins and finishes to  *)
(* end.  Module Session implements this specification; module               *)
(* SessionManager is a user of it.                                          *)
(*                                                                          *)
(* As in Session, the calls run in the session's strand; the operators are  *)
(* from states of the interface to sets of next states, because what a call *)
(* leads to depends on what this module leaves out.                         *)
(***************************************************************************)
EXTENDS Naturals, Sequences

CONSTANT Reasons  \* what can end a session that nobody asked to stop

VARIABLE a

Calls == {"start", "wait", "stop"}

Errors == {"ok", "eof", "error", "aborted",
           "invalid_state", "operation_aborted", "inactivity_timeout"}

ApiStates ==
  [extern_state      : {"ready", "work", "stop", "stopped"},
   run               : {"work", "ending", "stopped"},
   extern_wait_error : Errors,
   wait_handler      : BOOLEAN,
   stop_handler      : BOOLEAN,
   posted            : [Calls -> Seq(Errors)]]

Fresh ==
  [extern_state |-> "ready", run |-> "work", extern_wait_error |-> "ok",
   wait_handler |-> FALSE, stop_handler |-> FALSE,
   posted |-> [c \in Calls |-> <<>>]]

Answer(x, call, error) == [x EXCEPT !.posted[call] = Append(@, error)]

\* The reason is registered, unless there is one, and told to a parked wait.
Tell(x, reason) ==
  LET why == IF x.extern_wait_error = "ok" THEN reason ELSE x.extern_wait_error
      q   == [x EXCEPT !.extern_wait_error = why, !.wait_handler = FALSE]
  IN  IF x.wait_handler THEN Answer(q, "wait", why) ELSE q

\* The session has ended: a parked stop is answered.
Finish(x) ==
  LET q == [x EXCEPT !.run = "stopped"]
  IN  IF x.extern_state # "stop" THEN q
      ELSE IF x.stop_handler
      THEN Answer([q EXCEPT !.extern_state = "stopped", !.stop_handler = FALSE],
                  "stop", "ok")
      ELSE [q EXCEPT !.extern_state = "stopped"]

\* The session begins to end, and may have ended at once.
Endings(x, reason) ==
  LET q == [(IF x.extern_state = "work" THEN Tell(x, reason) ELSE x)
              EXCEPT !.run = "ending"]
  IN  {q, Finish(q)}

Started(x) ==
  LET q == [x EXCEPT !.extern_state = "work"]
  IN  IF x.extern_state # "ready" THEN {Answer(x, "start", "invalid_state")}
      ELSE {Answer(y, "start", "ok") : y \in {q} \cup Endings(q, "error")}
           \cup {Answer([x EXCEPT !.extern_state = "stopped", !.run = "stopped",
                                   !.extern_wait_error = why], "start", "error") :
                   why \in {x.extern_wait_error, "error"}}

Waited(x) ==
  IF x.extern_state # "work" \/ x.wait_handler
  THEN {Answer(x, "wait", "invalid_state")}
  ELSE IF x.run # "work" THEN {Answer(x, "wait", x.extern_wait_error)}
  ELSE {[x EXCEPT !.wait_handler = TRUE]}

\* A stop is answered at once if the session has ended, and parked otherwise.
Stopped(x) ==
  LET q == [Tell(x, "operation_aborted") EXCEPT !.extern_state = "stop"]
  IN  IF x.extern_state \in {"stop", "stopped"}
      THEN {Answer(x, "stop", "invalid_state")}
      ELSE { IF y.run = "stopped"
             THEN Answer([y EXCEPT !.extern_state = "stopped"], "stop", "ok")
             ELSE [y EXCEPT !.stop_handler = TRUE] :
             y \in IF q.run = "work" THEN Endings(q, "ok") ELSE {q} }

\* What the session does by itself.
Ended(x) ==
  IF x.run = "work" THEN UNION {Endings(x, reason) : reason \in Reasons}
  ELSE IF x.run = "ending" THEN {Finish(x)} ELSE {}

-----------------------------------------------------------------------------
Init == a = Fresh

Start == a' \in Started(a)
Wait  == a' \in Waited(a)
Stop  == a' \in Stopped(a)

\* A session that was never started, or told to stop, does not end by itself
\* before it is told to.
End == a.extern_state # "ready" /\ a' \in Ended(a)

Reset == a.extern_state \in {"ready", "stopped"} /\ a' = Fresh

Next == Start \/ Wait \/ Stop \/ End \/ Reset

Spec == Init /\ [][Next]_a

=============================================================================

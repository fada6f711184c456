---------------------------- MODULE EchoServer ----------------------------
(***************************************************************************)
(* The program ma_echo_server (examples/ma_echo_server/src/main.cpp): it    *)
(* starts the server, waits for the server to end or for the user to press  *)
(* Ctrl+C, stops the server and exits.                                      *)
(*                                                                          *)
(* All handle_* functions run in one event loop with one thread.  The       *)
(* server runs in threads of its own: a call is posted to the manager's     *)
(* strand, its handler is first run by the manager's io_service and goes    *)
(* from there to the event loop.  Of the server (class server, which only   *)
(* forwards to its session_manager) the interface is here: SessionApi,      *)
(* which module SessionManager implements.                                  *)
(*                                                                          *)
(* External, modelled from its use: the event loop, the stop timer and the  *)
(* set of signals of console_close_signal.                                  *)
(***************************************************************************)
EXTENDS Naturals, Sequences, FiniteSets, SequencesExt

CONSTANTS
  MaxSignals,     \* bound: how often the user presses Ctrl+C
  MaxExceptions   \* bound: worker threads that die of an exception

ASSUME EchoServerAssumption == MaxSignals \in Nat /\ MaxExceptions \in Nat

VARIABLES
  ctx,  \* the execution_context with what its event loop holds
  srv,  \* the server
  env   \* what the environment has done so far

vars == <<ctx, srv, env>>

Api == INSTANCE SessionApi WITH Reasons <- {"error"}, a <- srv

Events == {"start", "wait", "stop", "timeout", "app_exit", "exception"}

Contexts ==
  [state               : {"starting", "working", "stopping", "stopped"},
   user_initiated_stop : BOOLEAN,
   loop_stopped        : BOOLEAN,   \* event_loop.stop() was called
   exited              : BOOLEAN,   \* the threads are joined, main returns
   timer               : Nat,       \* waits of stop_timer outstanding
   close_waits         : Nat,       \* waits of close_signal outstanding
   signals             : Nat,       \* signals nobody waited for
   events              : [Events -> Seq(Api!Errors)],  \* handlers to be run
   end                 : Events \cup {"none"}]  \* who stopped the loop

Servers ==
  [alive : BOOLEAN,             \* a thread runs the manager's io_service
   queue : Seq(Api!Calls),      \* calls posted to the manager's strand
   api   : Api!ApiStates]

-----------------------------------------------------------------------------
(***************************************************************************)
(* The functions are operators on the pair g = [ctx, srv].                  *)
(***************************************************************************)
Raise(g, event, error) == [g EXCEPT !.ctx.events[event] = Append(@, error)]

async_call(g, call) == [g EXCEPT !.srv.queue = Append(@, call)]

\* close_signal.async_wait: a signal that came before answers it at once.
async_wait_close(g) ==
  IF g.ctx.signals = 0 THEN [g EXCEPT !.ctx.close_waits = @ + 1]
  ELSE Raise([g EXCEPT !.ctx.signals = @ - 1], "app_exit", "ok")

stop_event_loop(g, who) ==
  [g EXCEPT !.ctx.loop_stopped = TRUE, !.ctx.state = "stopped", !.ctx.end = who]

\* Mutant of start_server_stop: the stop is not timed.
start_server_stop_untimed(g, user) ==
  async_wait_close([async_call(g, "stop") EXCEPT
    !.ctx.state = "stopping", !.ctx.user_initiated_stop = user])

\* Mutant of start_server_stop: Ctrl+C is no longer listened to.
start_server_stop_deaf(g, user) ==
  [async_call(g, "stop") EXCEPT
    !.ctx.state = "stopping", !.ctx.user_initiated_stop = user,
    !.ctx.timer = @ + 1]

start_server_stop(g, user) ==
  async_wait_close([async_call(g, "stop") EXCEPT
    !.ctx.state = "stopping", !.ctx.user_initiated_stop = user,
    !.ctx.timer = @ + 1])

handle_work_thread_exception(g) ==
  IF g.ctx.state = "stopped" THEN g ELSE stop_event_loop(g, "exception")

handle_app_exit(g) ==
  IF g.ctx.state = "stopped" THEN g
  ELSE IF g.ctx.state = "stopping" THEN stop_event_loop(g, "app_exit")
  ELSE start_server_stop(g, TRUE)

\* Mutant of handle_server_start: a start that is reported late counts.
handle_server_start_late(g, error) ==
  IF error # "ok" THEN stop_event_loop(g, "start")
  ELSE async_call([g EXCEPT !.ctx.state = "working"], "wait")

handle_server_start(g, error) ==
  IF g.ctx.state # "starting" THEN g
  ELSE IF error # "ok" THEN stop_event_loop(g, "start")
  ELSE async_call([g EXCEPT !.ctx.state = "working"], "wait")

\* Mutant of handle_server_wait: a server that ended needs no stop.
handle_server_wait_quit(g, error) ==
  IF g.ctx.state # "working" THEN g ELSE stop_event_loop(g, "wait")

handle_server_wait(g, error) ==
  IF g.ctx.state # "working" THEN g ELSE start_server_stop(g, FALSE)

handle_server_stop_timeout(g, error) ==
  IF error # "aborted" /\ g.ctx.state = "stopping"
  THEN stop_event_loop(g, "timeout") ELSE g

handle_server_stop(g, error) == stop_event_loop(g, "stop")

\* run_server up to event_loop.run(): the first waits and the start of the server.
run_server ==
  LET context == [state |-> "starting", user_initiated_stop |-> FALSE,
                  loop_stopped |-> FALSE, exited |-> FALSE, timer |-> 0,
                  close_waits |-> 0, signals |-> 0,
                  events |-> [e \in Events |-> <<>>], end |-> "none"]
      server == [alive |-> TRUE, queue |-> <<>>, api |-> Api!Fresh]
  IN  async_call(async_wait_close([ctx |-> context, srv |-> server]), "start")

Init ==
  /\ ctx = run_server.ctx
  /\ srv = run_server.srv
  /\ env = [signals |-> 0, exceptions |-> 0]

-----------------------------------------------------------------------------
(***************************************************************************)
(* The event loop runs a handler that is ready.                             *)
(***************************************************************************)
Taken(event) ==
  [ctx |-> [ctx EXCEPT !.events[event] = Tail(@)], srv |-> srv]

Ready(event) == ~ctx.loop_stopped /\ ctx.events[event] # <<>>

Become(g) == ctx' = g.ctx /\ srv' = g.srv /\ UNCHANGED env

HandleServerStart ==
  /\ Ready("start")
  /\ Become(handle_server_start(Taken("start"), Head(ctx.events["start"])))

HandleServerWait ==
  /\ Ready("wait")
  /\ Become(handle_server_wait(Taken("wait"), Head(ctx.events["wait"])))

HandleServerStop ==
  /\ Ready("stop")
  /\ Become(handle_server_stop(Taken("stop"), Head(ctx.events["stop"])))

HandleServerStopTimeout ==
  /\ Ready("timeout")
  /\ Become(handle_server_stop_timeout(Taken("timeout"),
                                       Head(ctx.events["timeout"])))

HandleAppExit == Ready("app_exit") /\ Become(handle_app_exit(Taken("app_exit")))

HandleWorkThreadException ==
  /\ Ready("exception")
  /\ Become(handle_work_thread_exception(Taken("exception")))

\* The end of run_server: the threads of the server are stopped and joined.
StopThreads ==
  /\ ctx.loop_stopped /\ ~ctx.exited
  /\ ctx' = [ctx EXCEPT !.exited = TRUE]
  /\ srv' = [srv EXCEPT !.alive = FALSE]
  /\ UNCHANGED env

-----------------------------------------------------------------------------
(***************************************************************************)
(* The timer and the signals.  A signal answers all waits there are, or is  *)
(* kept for the next one.                                                   *)
(***************************************************************************)
TimerExpires ==
  /\ ctx.timer > 0 /\ ~ctx.exited
  /\ Become(Raise([ctx |-> [ctx EXCEPT !.timer = @ - 1], srv |-> srv],
                  "timeout", "ok"))

CtrlC ==
  /\ env.signals < MaxSignals /\ ~ctx.exited
  /\ env' = [env EXCEPT !.signals = @ + 1]
  /\ ctx' = IF ctx.close_waits = 0 THEN [ctx EXCEPT !.signals = @ + 1]
            ELSE [ctx EXCEPT !.close_waits = 0,
                   !.events["app_exit"] = @ \o [i \in 1 .. ctx.close_waits |-> "ok"]]
  /\ UNCHANGED srv

(***************************************************************************)
(* The server's threads.                                                    *)
(***************************************************************************)
\* The manager's strand runs the next call.
RunCall ==
  /\ srv.alive /\ srv.queue # <<>>
  /\ \E x \in CASE Head(srv.queue) = "start" -> Api!Started(srv.api)
                [] Head(srv.queue) = "wait"  -> Api!Waited(srv.api)
                [] Head(srv.queue) = "stop"  -> Api!Stopped(srv.api) :
       srv' = [srv EXCEPT !.api = x, !.queue = Tail(@)]
  /\ UNCHANGED <<ctx, env>>

\* The server begins or finishes to end.
EndServer ==
  /\ srv.alive /\ srv.api.extern_state # "ready"
  /\ \E x \in Api!Ended(srv.api) : srv' = [srv EXCEPT !.api = x]
  /\ UNCHANGED <<ctx, env>>

\* A completed call's handler goes to the event loop.
Forward(call) ==
  /\ srv.alive /\ srv.api.posted[call] # <<>>
  /\ Become(Raise([ctx |-> ctx, srv |-> [srv EXCEPT !.api.posted[call] = Tail(@)]],
                  call, Head(srv.api.posted[call])))

\* io_service::run throws in a worker thread, which tells the loop and ends; it
\* may have been the manager's only one.
ThreadFails ==
  /\ env.exceptions < MaxExceptions /\ srv.alive
  /\ env' = [env EXCEPT !.exceptions = @ + 1]
  /\ ctx' = [ctx EXCEPT !.events["exception"] = Append(@, "ok")]
  /\ \E more \in BOOLEAN : srv' = [srv EXCEPT !.alive = more]

Next ==
  \/ HandleServerStart
  \/ HandleServerWait
  \/ HandleServerStop
  \/ HandleServerStopTimeout
  \/ HandleAppExit
  \/ HandleWorkThreadException
  \/ StopThreads
  \/ TimerExpires
  \/ CtrlC
  \/ RunCall
  \/ EndServer
  \/ \E call \in Api!Calls : Forward(call)
  \/ ThreadFails

Spec == Init /\ [][Next]_vars

(***************************************************************************)
(* Fairness.  The event loop runs what is ready and the server's threads,   *)
(* while they live, what is posted to them.  That the server ends after it  *)
(* was told to stop is not assumed.                                         *)
(***************************************************************************)
Fairness ==
  /\ WF_vars(HandleServerStart)
  /\ WF_vars(HandleServerWait)
  /\ WF_vars(HandleServerStop)
  /\ WF_vars(HandleServerStopTimeout)
  /\ WF_vars(HandleAppExit)
  /\ WF_vars(HandleWorkThreadException)
  /\ WF_vars(StopThreads)
  /\ WF_vars(RunCall)
  /\ \A call \in Api!Calls : WF_vars(Forward(call))

\* The stop timeout may be endless: its expiry is not fair.
LiveSpec == Spec /\ Fairness

-----------------------------------------------------------------------------
(***************************************************************************)
(* Type correctness of the context and of the server.                       *)
(***************************************************************************)
TypeOK ==
  /\ ctx \in Contexts /\ srv \in Servers
  /\ env \in [signals : 0 .. MaxSignals, exceptions : 0 .. MaxExceptions]

Flag(b) == IF b THEN 1 ELSE 0

\* How often the program has made a call whose answer it has not handled.
Unhandled(call) ==
  Cardinality({i \in DOMAIN srv.queue : srv.queue[i] = call})
  + Flag(call = "wait" /\ srv.api.wait_handler)
  + Flag(call = "stop" /\ srv.api.stop_handler)
  + Len(srv.api.posted[call]) + Len(ctx.events[call])

(***************************************************************************)
(* The program keeps the server's protocol: no call is repeated, the wait   *)
(* is never rejected for coming too early or after a stop, and the timed    *)
(* stop is begun once, though the stop itself makes the wait fail, and a    *)
(* start or a wait may be reported only when the stop is under way.         *)
(***************************************************************************)
KeepsProtocol ==
  /\ TypeOK
  /\ \A call \in Api!Calls : Unhandled(call) <= 1
  /\ \A call \in {"start", "wait"} :
       "invalid_state" \notin ToSet(srv.api.posted[call] \o ctx.events[call])
  /\ ctx.timer + Len(ctx.events["timeout"]) <= 1
  /\ ctx.state \in {"starting", "working"} =>
       Unhandled("stop") = 0 /\ ctx.timer = 0

(***************************************************************************)
(* The program abandons a running server only when it must: on a timeout,   *)
(* on a second Ctrl+C or because a thread died.  In all other cases the     *)
(* server has stopped, and every connection with it.                        *)
(***************************************************************************)
StopsGracefully ==
  ctx.loop_stopped /\ ctx.end \notin {"timeout", "app_exit", "exception"} =>
    srv.api.extern_state = "stopped" /\ srv.api.run = "stopped"

(***************************************************************************)
(* Ctrl+C ends the program in every state it may be in, and so does a       *)
(* server that could not start or ends by itself, even if the server never  *)
(* completes its stop: then the stop timer, if it expires at all, does.     *)
(***************************************************************************)
EndsInTime ==
  WF_vars(TimerExpires) =>
    (env.signals > 0 \/ srv.api.run # "work" ~> ctx.exited)

(***************************************************************************)
(* "Server is stopping. Press Ctrl+C to terminate server.": a second Ctrl+C *)
(* ends the program without waiting for the stop or for its timeout,        *)
(* however close it follows the first.                                      *)
(***************************************************************************)
SecondCtrlCExits == env.signals > 1 ~> ctx.exited

(***************************************************************************)
(* The program ends when it is told to: at once on the second Ctrl+C, after *)
(* the graceful stop or its timeout on the first and on any other end of    *)
(* the server.                                                              *)
(***************************************************************************)
Ends == EndsInTime /\ SecondCtrlCExits

=============================================================================

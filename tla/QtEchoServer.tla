---------------------------- MODULE QtEchoServer ----------------------------
(***************************************************************************)
(* The echo server with a window (examples/ma_qt_echo_server): Service makes *)
(* a server, with threads of its own, for each start, and destroys it after  *)
(* the stop; MainForm shows the state of the Service and lets the user       *)
(* start, stop and terminate it.                                             *)
(*                                                                           *)
(* Service and MainForm live in the thread of the GUI.  Handlers run by the  *)
(* server's threads emit signals of a ServiceServantSignal, which become     *)
(* events of the GUI thread; these run in order, but the user may be faster, *)
(* and an event that is posted stays posted when its sender is disconnected. *)
(* Of the server the interface is here (SessionApi, which SessionManager     *)
(* implements).  External: Qt, the user.  Options, statistics and the log    *)
(* are not modelled.                                                         *)
(***************************************************************************)
EXTENDS Naturals, Sequences, FiniteSets, SequencesExt

CONSTANTS
  MaxServers,    \* bound: how often the user starts the server
  MaxExceptions  \* bound: worker threads that die of an exception

ASSUME QtAssumption == MaxServers \in Nat /\ MaxExceptions \in Nat

VARIABLES
  g,    \* Service and MainForm, with the events of the GUI thread
  srv,  \* the servers that exist: none or one, in a sequence
  env   \* bound: what has happened so far

vars == <<g, srv, env>>

Api == INSTANCE SessionApi WITH Reasons <- {"error"}, a <- srv

ServiceState == {"Stopped", "Starting", "Working", "Stopping"}

\* Signals of the ServiceServantSignal ("servant") and the ServiceForwardSignal.
Event(from, op, error) == [from |-> from, op |-> op, error |-> error]

\* The Service and the form that shows it; owed counts the starts and the stops
\* that have not been answered.
MainForm ==
  [state |-> "Stopped", events |-> <<>>, shown |-> "Stopped",
   statsTimer |-> FALSE, closed |-> FALSE, owed |-> [start |-> 0, stop |-> 0]]

server == [alive |-> TRUE, queue |-> <<>>, api |-> Api!Fresh]

-----------------------------------------------------------------------------
(***************************************************************************)
(* The functions are operators on x = [g, srv].                              *)
(***************************************************************************)
forwardSignal(x, op, error) ==
  [x EXCEPT !.g.events = Append(@, Event("forward", op, error))]

async_call(x, call) == [x EXCEPT !.srv[1].queue = Append(@, call)]

createServant(x) == [x EXCEPT !.srv = <<server>>]

\* The threads are stopped and joined; there must be a server.
destroyServant(x) == [x EXCEPT !.srv = Tail(@)]

Become(x, state) == [x EXCEPT !.g.state = state]

asyncStart(x) ==
  LET y == [x EXCEPT !.g.owed.start = @ + 1]
  IN  IF x.g.state # "Stopped" THEN forwardSignal(y, "start", "invalid_state")
      ELSE Become(async_call(createServant(y), "start"), "Starting")

\* What the caller of an operation that is given up is told.
Cancelled(x) ==
  CASE x.g.state = "Starting" -> forwardSignal(x, "start", "operation_aborted")
    [] x.g.state = "Working"  -> forwardSignal(x, "work", "operation_aborted")
    [] x.g.state = "Stopping" -> forwardSignal(x, "stop", "operation_aborted")
    [] x.g.state = "Stopped"  -> x

\* Mutant of asyncStop: a start that is given up is not answered.
asyncStop_silent(x) ==
  LET y == [x EXCEPT !.g.owed.stop = @ + 1]
  IN  IF x.g.state \in {"Stopped", "Stopping"}
      THEN forwardSignal(y, "stop", "invalid_state")
      ELSE Become(async_call(y, "stop"), "Stopping")

asyncStop(x) ==
  LET y == [x EXCEPT !.g.owed.stop = @ + 1]
  IN  IF x.g.state \in {"Stopped", "Stopping"}
      THEN forwardSignal(y, "stop", "invalid_state")
      ELSE Become(async_call(Cancelled(y), "stop"), "Stopping")

terminate(x) == Become(Cancelled(destroyServant(x)), "Stopped")

updateWidgetsStates(x) == [x EXCEPT !.g.shown = x.g.state]

conditionalStopStatsTimer(x) ==
  IF x.g.state = "Stopped" THEN [x EXCEPT !.g.statsTimer = FALSE] ELSE x

Refresh(x) == updateWidgetsStates(conditionalStopStatsTimer(x))

on_service_startCompleted(x) == Refresh([x EXCEPT !.g.owed.start = @ - 1])

on_service_stopCompleted(x) == Refresh([x EXCEPT !.g.owed.stop = @ - 1])

on_service_workCompleted(x) ==
  Refresh(IF x.g.state = "Working" THEN asyncStop(x) ELSE x)

on_service_exceptionHappened(x) == Refresh(terminate(x))

\* Mutant of onServantStartCompleted: it also answers a start that was given up.
onServantStartCompleted_late(x, error) ==
  IF x.g.state = "Stopped" THEN x
  ELSE on_service_startCompleted(
         IF error # "ok" THEN Become(destroyServant(x), "Stopped")
         ELSE Become(async_call(x, "wait"), "Working"))

onServantStartCompleted(x, error) ==
  IF x.g.state # "Starting" THEN x
  ELSE on_service_startCompleted(
         IF error # "ok" THEN Become(destroyServant(x), "Stopped")
         ELSE Become(async_call(x, "wait"), "Working"))

onServantWaitCompleted(x) ==
  IF x.g.state = "Working" THEN on_service_workCompleted(x) ELSE x

\* Mutant of onServantStopCompleted: a stop that failed is tried again.
onServantStopCompleted_again(x, error) ==
  IF x.g.state # "Stopping" THEN x
  ELSE IF error # "ok" THEN async_call(x, "stop")
  ELSE on_service_stopCompleted(Become(destroyServant(x), "Stopped"))

onServantStopCompleted(x, error) ==
  IF x.g.state # "Stopping" THEN x
  ELSE on_service_stopCompleted(Become(destroyServant(x), "Stopped"))

onServantWorkThreadExceptionHappened(x) ==
  IF x.g.state = "Stopped" THEN x ELSE on_service_exceptionHappened(x)

-----------------------------------------------------------------------------
Init ==
  /\ g = MainForm
  /\ srv = <<>>
  /\ env = [servers |-> 0, exceptions |-> 0]

Step(x) == g' = x.g /\ srv' = x.srv

Now == [g |-> g, srv |-> srv]

\* Whether the widgets hold a configuration: it throws when a number or the
\* address cannot be read.
buildServiceConfig == BOOLEAN

\* With no configuration the user is told and nothing is started.
on_startButton_clicked ==
  /\ ~g.closed /\ g.shown = "Stopped" /\ env.servers < MaxServers
  /\ \E read \in buildServiceConfig :
       IF read
       THEN /\ Step(updateWidgetsStates([asyncStart(Now) EXCEPT
                                           !.g.statsTimer = TRUE]))
            /\ env' = [env EXCEPT !.servers = @ + 1]
       ELSE Step(updateWidgetsStates(Now)) /\ UNCHANGED env

on_stopButton_clicked ==
  /\ ~g.closed /\ g.shown \in {"Starting", "Working"}
  /\ Step(updateWidgetsStates(asyncStop(Now)))
  /\ UNCHANGED env

on_terminateButton_clicked ==
  /\ ~g.closed /\ g.shown # "Stopped"
  /\ Step(Refresh(terminate(Now)))
  /\ UNCHANGED env

\* The window is closed, main destroys the form and the Service.
Close ==
  /\ ~g.closed
  /\ g' = [g EXCEPT !.closed = TRUE, !.events = <<>>]
  /\ srv' = <<>>
  /\ UNCHANGED env

\* The GUI thread takes an event of the signal named: the error it tells.
Taken(from, op) ==
  IF g.events # <<>> /\ Head(g.events).from = from /\ Head(g.events).op = op
  THEN {Head(g.events).error} ELSE {}

Rest == [g |-> [g EXCEPT !.events = Tail(@)], srv |-> srv]

ServantStartCompleted ==
  \E error \in Taken("servant", "start") :
    Step(onServantStartCompleted(Rest, error)) /\ UNCHANGED env

ServantWaitCompleted ==
  /\ Taken("servant", "wait") # {}
  /\ Step(onServantWaitCompleted(Rest))
  /\ UNCHANGED env

ServantStopCompleted ==
  \E error \in Taken("servant", "stop") :
    Step(onServantStopCompleted(Rest, error)) /\ UNCHANGED env

ServantWorkThreadExceptionHappened ==
  /\ Taken("servant", "exception") # {}
  /\ Step(onServantWorkThreadExceptionHappened(Rest))
  /\ UNCHANGED env

ForwardStartCompleted ==
  /\ Taken("forward", "start") # {}
  /\ Step(on_service_startCompleted(Rest))
  /\ UNCHANGED env

ForwardStopCompleted ==
  /\ Taken("forward", "stop") # {}
  /\ Step(on_service_stopCompleted(Rest))
  /\ UNCHANGED env

ForwardWorkCompleted ==
  /\ Taken("forward", "work") # {}
  /\ Step(on_service_workCompleted(Rest))
  /\ UNCHANGED env

GuiStep ==
  \/ ServantStartCompleted \/ ServantWaitCompleted \/ ServantStopCompleted
  \/ ServantWorkThreadExceptionHappened
  \/ ForwardStartCompleted \/ ForwardStopCompleted \/ ForwardWorkCompleted

-----------------------------------------------------------------------------
(***************************************************************************)
(* The server's threads.                                                     *)
(***************************************************************************)
Running == srv # <<>> /\ srv[1].alive

Called(call, api) ==
  CASE call = "start" -> Api!Started(api)
    [] call = "wait"  -> Api!Waited(api)
    [] call = "stop"  -> Api!Stopped(api)

ServerCall ==
  /\ Running /\ srv[1].queue # <<>>
  /\ \E api \in Called(Head(srv[1].queue), srv[1].api) :
       srv' = <<[srv[1] EXCEPT !.queue = Tail(@), !.api = api]>>
  /\ UNCHANGED <<g, env>>

ServerEnd ==
  /\ Running /\ srv[1].api.extern_state # "ready"
  /\ \E api \in Api!Ended(srv[1].api) : srv' = <<[srv[1] EXCEPT !.api = api]>>
  /\ UNCHANGED <<g, env>>

\* A handler emits its signal: emitStartCompleted and so on.
Emit ==
  /\ Running
  /\ \E call \in Api!Calls :
       /\ srv[1].api.posted[call] # <<>>
       /\ g' = [g EXCEPT !.events = Append(@,
                  Event("servant", call, Head(srv[1].api.posted[call])))]
       /\ srv' = <<[srv[1] EXCEPT !.api.posted[call] = Tail(@)]>>
  /\ UNCHANGED env

\* A thread dies, perhaps the last of the manager's.
WorkThreadException ==
  /\ Running /\ env.exceptions < MaxExceptions
  /\ g' = [g EXCEPT !.events = Append(@, Event("servant", "exception", "ok"))]
  /\ \E alive \in BOOLEAN : srv' = <<[srv[1] EXCEPT !.alive = alive]>>
  /\ env' = [env EXCEPT !.exceptions = @ + 1]

ServerStep == ServerCall \/ ServerEnd \/ Emit

Next ==
  \/ on_startButton_clicked \/ on_stopButton_clicked
  \/ on_terminateButton_clicked \/ Close
  \/ GuiStep \/ ServerStep \/ WorkThreadException

Spec == Init /\ [][Next]_vars

(***************************************************************************)
(* Fairness: the event loop goes on, so do the server's threads, and a       *)
(* server that is told to stop ends (SessionManager).  The user owes nothing.*)
(***************************************************************************)
Fairness ==
  /\ WF_vars(GuiStep)
  /\ WF_vars(ServerCall) /\ WF_vars(Emit)
  /\ WF_vars(ServerEnd /\ srv[1].api.run = "ending")

LiveSpec == Spec /\ Fairness

-----------------------------------------------------------------------------
TypeOK ==
  /\ g.state \in ServiceState /\ g.shown \in ServiceState
  /\ Len(srv) <= 1

\* How many events of the signal named are posted.
CountOf(from, op) ==
  Cardinality({k \in DOMAIN g.events :
                 g.events[k].from = from /\ g.events[k].op = op})

\* The answer to call is to come: from the server, or as an event; or the
\* server's thread is dead, which is an event too.
OnItsWay(call) ==
  \/ CountOf("servant", call) > 0 \/ CountOf("servant", "exception") > 0
  \/ /\ Running
     /\ \/ call \in ToSet(srv[1].queue)
        \/ srv[1].api.posted[call] # <<>>
        \/ call = "stop" /\ srv[1].api.stop_handler

(***************************************************************************)
(* While the window is open: there is a server unless the Service is        *)
(* stopped, so that neither a click nor a late event of an earlier server   *)
(* destroys one that is not there; the form shows the state as it is; and   *)
(* every start and every stop is answered exactly once, by the server, or   *)
(* by an event when it was given up for a stop, a termination or a dead     *)
(* thread.                                                                  *)
(***************************************************************************)
ServiceSound ==
  /\ TypeOK
  /\ ~g.closed =>
       /\ srv = <<>> <=> g.state = "Stopped"
       /\ g.shown = g.state
       /\ g.statsTimer <=> g.state # "Stopped"
       /\ g.owed.start = CountOf("forward", "start")
                         + (IF g.state = "Starting" THEN 1 ELSE 0)
       /\ g.owed.stop = CountOf("forward", "stop")
                        + (IF g.state = "Stopping" THEN 1 ELSE 0)
       /\ g.state = "Starting" => OnItsWay("start")
       /\ g.state = "Stopping" => OnItsWay("stop")

(***************************************************************************)
(* A start and a stop come to an end, whatever the server, its threads and  *)
(* the user do meanwhile.                                                   *)
(***************************************************************************)
Settles ==
  (g.state \in {"Starting", "Stopping"}) ~>
  (g.closed \/ g.state \in {"Stopped", "Working"})

=============================================================================

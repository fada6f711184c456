---------------------------- MODULE ConsoleSignal ----------------------------
(***************************************************************************)
(* Console signals on Windows (libs/ma_windows_console_signal): each         *)
(* io_service has a console_signal_service, and all of them share one        *)
(* system_service, the value of an sp_singleton (libs/ma_sp_singleton),      *)
(* which is made for the first of them, registers windows_ctrl_handler with  *)
(* the system and is destroyed with the last reference.  The system calls    *)
(* windows_ctrl_handler in threads of its own.                               *)
(*                                                                           *)
(* A service s stands for the thread that owns its io_service too: pc[s] is  *)
(* how far its constructor or destructor is.  A step ends where a mutex is   *)
(* taken or released.  Handlers are identities; work, allocation and the     *)
(* boolean answer to the system are not modelled.  External: the system's    *)
(* list of handlers, asio, shared_ptr.                                       *)
(***************************************************************************)
EXTENDS Integers, Sequences, SequencesExt, FiniteSets

CONSTANTS
  Services,     \* console_signal_services, one for each io_service
  MaxSignals,   \* bound: signals, each in a thread of the system of its own
  Impls,        \* implementations (console_signal objects) of a service
  Handlers,     \* handlers passed to async_wait, to one service at a time
  MaxQueued,    \* the greatest value of queued_signals_counter
  MaxStarts     \* bound: how many services are made

ASSUME ConsoleAssumption ==
  /\ MaxQueued \in Nat /\ MaxStarts \in Nat /\ MaxSignals \in Nat
  /\ Services \cap (1 .. MaxSignals) = {}

VARIABLES
  value_mutex,  \* static_data::value_mutex: the thread that holds it
  weak_value,   \* static_data::weak_value: an instance, or 0
  latch,        \* the value of static_data::instance_latch
  inst,         \* the instances of system_service
  svc,          \* the services
  pc,           \* how far each service and each thread of the system is
  ctrl,         \* what each thread of the system delivers, and to whom
  starts        \* bound: the services made

console_vars == <<value_mutex, weak_value, latch, inst, svc, pc, ctrl, starts>>

CtrlThreads == 1 .. MaxSignals

Threads == Services \cup CtrlThreads

Instances == 1 .. 2  \* more than the one that may exist

Signals == {"SIGINT", "SIGTERM"}

-----------------------------------------------------------------------------
(***************************************************************************)
(* A console_signal_service.  waiting[i] holds the handlers of               *)
(* implementation i, binders and posted what is posted to the io_service,    *)
(* accepted the handlers that were passed to it and have not been called or  *)
(* destroyed.  Each operation runs under the service's mutex_.               *)
(***************************************************************************)
console_signal_service ==
  [impls |-> {}, impl_list |-> {}, waiting |-> [i \in Impls |-> {}],
   queued |-> [g \in Signals |-> 0], shutdown |-> FALSE,
   binders |-> <<>>, posted |-> {}, accepted |-> {}]

\* handler_base::post of all of H.
PostHandlers(x, H, result) ==
  [x EXCEPT !.posted = @ \cup {[handler |-> h, result |-> result] : h \in H}]

\* handler_base::destroy of all of H: they are gone without a call.
DestroyHandlers(x, H) == [x EXCEPT !.accepted = @ \ H]

construct(x, i) ==
  [x EXCEPT !.impls = @ \cup {i},
            !.impl_list = IF x.shutdown THEN @ ELSE @ \cup {i}]

destroy(x, i) ==
  LET y == [x EXCEPT !.impls = @ \ {i}]
  IN  IF x.shutdown THEN y
      ELSE PostHandlers([y EXCEPT !.waiting[i] = {}, !.impl_list = @ \ {i}],
                        x.waiting[i], "aborted")

cancel(x, i) ==
  IF x.shutdown THEN x
  ELSE PostHandlers([x EXCEPT !.waiting[i] = {}], x.waiting[i], "aborted")

Take(x, h, g) == PostHandlers([x EXCEPT !.queued[g] = @ - 1], {h}, g)

\* Mutant of async_wait: it waits though a SIGTERM is queued.
async_wait_sigint(x, i, h) ==
  LET y == [x EXCEPT !.accepted = @ \cup {h}]
  IN  IF x.shutdown THEN PostHandlers(y, {h}, "aborted")
      ELSE IF x.queued["SIGINT"] > 0 THEN Take(y, h, "SIGINT")
      ELSE [y EXCEPT !.waiting[i] = @ \cup {h}]

async_wait(x, i, h) ==
  LET y == [x EXCEPT !.accepted = @ \cup {h}]
  IN  IF x.shutdown THEN PostHandlers(y, {h}, "aborted")
      ELSE IF x.queued["SIGINT"] > 0 THEN Take(y, h, "SIGINT")
      ELSE IF x.queued["SIGTERM"] > 0 THEN Take(y, h, "SIGTERM")
      ELSE [y EXCEPT !.waiting[i] = @ \cup {h}]

Waiting(x) == UNION {x.waiting[i] : i \in x.impl_list}

\* The handlers that wait are destroyed.
shutdown_service(x) ==
  [DestroyHandlers(x, Waiting(x)) EXCEPT
            !.shutdown = TRUE,
            !.waiting = [i \in Impls |->
                           IF i \in x.impl_list THEN {} ELSE @[i]],
            !.impl_list = {}]

\* Mutant of deliver_signal: the handlers stay where they wait.
deliver_signal_copy(x, g) ==
  IF x.impl_list = {} \/ x.shutdown THEN x
  ELSE IF Waiting(x) # {}
  THEN [x EXCEPT !.binders = Append(@, [list |-> Waiting(x), signal |-> g])]
  ELSE [x EXCEPT !.queued[g] = IF @ = MaxQueued THEN @ ELSE @ + 1]

\* All handlers that wait get the signal, or it is queued; not without an
\* implementation.
deliver_signal(x, g) ==
  IF x.impl_list = {} \/ x.shutdown THEN x
  ELSE IF Waiting(x) # {}
  THEN [x EXCEPT !.binders = Append(@, [list |-> Waiting(x), signal |-> g]),
                 !.waiting = [i \in Impls |->
                                IF i \in x.impl_list THEN {} ELSE @[i]]]
  ELSE [x EXCEPT !.queued[g] = IF @ = MaxQueued THEN @ ELSE @ + 1]

\* handler_list_binder::operator(), called by the io_service.
handler_list_binder(x) ==
  PostHandlers([x EXCEPT !.binders = Tail(@)], Head(x.binders).list,
               Head(x.binders).signal)

\* ~handler_list_owner: the handlers of a binder that was never called.
handler_list_owner(x) ==
  DestroyHandlers([x EXCEPT !.binders = <<>>],
                  UNION {b.list : b \in ToSet(x.binders)})

-----------------------------------------------------------------------------
(***************************************************************************)
(* The singleton.                                                            *)
(***************************************************************************)
\* An instance that does not exist.
system_service == [refs |-> {}, registered |-> FALSE, subscribers |-> <<>>,
                   subscribers_mutex |-> {}]

ConsoleInit ==
  /\ value_mutex = {} /\ weak_value = 0 /\ latch = 0
  /\ inst = [i \in Instances |-> system_service]
  /\ svc = [s \in Services |-> console_signal_service]
  /\ pc = [t \in Threads |-> IF t \in Services THEN "none" ELSE "idle"]
  /\ ctrl = [t \in CtrlThreads |-> [signal |-> "none", rest |-> <<>>]]
  /\ starts = 0

Goto(t, label) == pc' = [pc EXCEPT ![t] = label]

\* The instance thread t refers to.
InstanceOf(t) == CHOOSE i \in Instances : t \in inst[i].refs

\* weak_value.lock(): the instance, unless the last reference to it is gone.
Locked == {i \in Instances : i = weak_value /\ inst[i].refs # {}}

\* The constructor of a service: system_service::get_instance.
Construct(s) ==
  /\ pc[s] = "none" /\ starts < MaxStarts
  /\ starts' = starts + 1
  /\ Goto(s, "get")
  /\ UNCHANGED <<value_mutex, weak_value, latch, inst, svc, ctrl>>

\* Thread t refers to the instance that is locked, if any.
get_nullable_instance(t) ==
  inst' = [i \in Instances |-> IF i \in Locked
             THEN [inst[i] EXCEPT !.refs = @ \cup {t}] ELSE inst[i]]

\* get_instance keeps value_mutex while it waits for the latch.
get_instance(s) ==
  /\ pc[s] = "get" /\ value_mutex = {}
  /\ IF Locked # {}
     THEN get_nullable_instance(s) /\ Goto(s, "add") /\ UNCHANGED value_mutex
     ELSE value_mutex' = {s} /\ Goto(s, "latch") /\ UNCHANGED inst
  /\ UNCHANGED <<weak_value, latch, svc, ctrl, starts>>

NewInstance ==
  CHOOSE i \in Instances : inst[i].refs = {} /\ ~inst[i].registered

\* Mutant of LatchOpen: the instance before may not be destroyed yet.
LatchAny == TRUE

LatchOpen == latch = 0

\* The guard of an instance counts the latch up for as long as it exists.
instance_guard == latch' = latch + 1

\* The constructor of system_service registers windows_ctrl_handler.
MakeInstance(s) ==
  inst' = [inst EXCEPT ![NewInstance].refs = {s}, ![NewInstance].registered = TRUE]

\* Mutant of CreateInstance: the guard of an instance that throws stays counted.
CreateInstance_leak(s) ==
  /\ pc[s] = "latch" /\ LatchOpen
  /\ value_mutex' = {}
  /\ instance_guard
  /\ \/ /\ MakeInstance(s)
        /\ weak_value' = NewInstance
        /\ Goto(s, "add")
     \/ Goto(s, "none") /\ UNCHANGED <<inst, weak_value>>
  /\ UNCHANGED <<svc, ctrl, starts>>

\* The factory makes an instance; without registration it throws, the guard
\* ends, and the service's constructor throws too.
CreateInstance(s) ==
  /\ pc[s] = "latch" /\ LatchOpen
  /\ value_mutex' = {}
  /\ \/ /\ instance_guard
        /\ MakeInstance(s)
        /\ weak_value' = NewInstance
        /\ Goto(s, "add")
     \/ Goto(s, "none") /\ UNCHANGED <<latch, inst, weak_value>>
  /\ UNCHANGED <<svc, ctrl, starts>>

add_subscriber(s) ==
  LET i == InstanceOf(s)
  IN  /\ pc[s] = "add" /\ inst[i].subscribers_mutex = {}
      /\ inst' = [inst EXCEPT ![i].subscribers = Append(@, s)]
      /\ Goto(s, "open")
      /\ UNCHANGED <<value_mutex, weak_value, latch, svc, ctrl, starts>>

\* What the io_service's threads do with the service until it is destroyed.
Use(s, x) ==
  /\ svc' = [svc EXCEPT ![s] = x]
  /\ UNCHANGED <<value_mutex, weak_value, latch, inst, pc, ctrl, starts>>

InUse == UNION {svc[s].accepted : s \in Services}

Operate(s) ==
  /\ pc[s] \in {"open", "shut"}
  /\ \/ \E i \in Impls \ svc[s].impls : Use(s, construct(svc[s], i))
     \/ \E i \in svc[s].impls : Use(s, destroy(svc[s], i))
     \/ \E i \in svc[s].impls : Use(s, cancel(svc[s], i))
     \/ \E i \in svc[s].impls, h \in Handlers \ InUse :
          Use(s, async_wait(svc[s], i, h))

\* The io_service runs what is posted to it.
RunBinder(s) ==
  /\ pc[s] = "open" /\ svc[s].binders # <<>>
  /\ Use(s, handler_list_binder(svc[s]))

RunHandler(s) ==
  /\ pc[s] = "open"
  /\ \E p \in svc[s].posted :
       Use(s, [svc[s] EXCEPT !.posted = @ \ {p}, !.accepted = @ \ {p.handler}])

\* The destructor of the io_service.
Shutdown(s) ==
  /\ pc[s] = "open"
  /\ svc' = [svc EXCEPT ![s] = shutdown_service(@)]
  /\ Goto(s, "shut")
  /\ UNCHANGED <<value_mutex, weak_value, latch, inst, ctrl, starts>>

\* ma::intrusive_list::erase: s is taken out of the list that holds it.
erase_subscriber(q, s) == RemoveAt(q, CHOOSE k \in DOMAIN q : q[k] = s)

\* Mutant of remove_subscriber: it does not take the mutex.
remove_subscriber_unlocked(s) ==
  /\ pc[s] = "shut"
  /\ inst' = [inst EXCEPT ![InstanceOf(s)].subscribers = erase_subscriber(@, s)]
  /\ Goto(s, "release")

\* What is still posted is destroyed, the handlers in binders with it.
remove_subscriber(s) ==
  /\ pc[s] = "shut" /\ inst[InstanceOf(s)].subscribers_mutex = {}
  /\ inst' = [inst EXCEPT ![InstanceOf(s)].subscribers = erase_subscriber(@, s)]
  /\ Goto(s, "release")

DestroyService(s) ==
  /\ remove_subscriber(s)
  /\ svc' = [svc EXCEPT ![s] =
       [console_signal_service EXCEPT !.accepted =
          handler_list_owner(DestroyHandlers(svc[s],
            {p.handler : p \in svc[s].posted})).accepted]]
  /\ UNCHANGED <<value_mutex, weak_value, latch, ctrl, starts>>

Ends(t) == IF t \in Services THEN "none" ELSE "done"

\* The reference is given up; whoever gives up the last one destroys the instance.
Unreference(t) ==
  LET i == InstanceOf(t)
  IN  /\ pc[t] = "release"
      /\ inst' = [inst EXCEPT ![i].refs = @ \ {t}]
      /\ Goto(t, IF inst[i].refs = {t} THEN "unregister" ELSE Ends(t))
      /\ UNCHANGED <<value_mutex, weak_value, latch, svc, ctrl, starts>>

\* ~system_service.
Unregister(t) ==
  /\ pc[t] = "unregister"
  /\ \E i \in Instances :
       /\ inst[i].registered /\ inst[i].refs = {}
       /\ inst' = [inst EXCEPT ![i] = system_service]
  /\ Goto(t, "count_down")
  /\ UNCHANGED <<value_mutex, weak_value, latch, svc, ctrl, starts>>

\* ~instance_guard.
count_down(t) ==
  /\ pc[t] = "count_down"
  /\ latch' = latch - 1
  /\ Goto(t, Ends(t))
  /\ UNCHANGED <<value_mutex, weak_value, inst, svc, ctrl, starts>>

-----------------------------------------------------------------------------
(***************************************************************************)
(* The threads of the system.                                                *)
(***************************************************************************)
Signal(t) ==
  /\ pc[t] = "idle" /\ \A u \in 1 .. (t - 1) : pc[u] # "idle"
  /\ \E i \in Instances : inst[i].registered
  /\ \E g \in Signals : ctrl' = [ctrl EXCEPT ![t].signal = g]
  /\ Goto(t, "enter")
  /\ UNCHANGED <<value_mutex, weak_value, latch, inst, svc, starts>>

windows_ctrl_handler(t) ==
  /\ pc[t] = "enter" /\ value_mutex = {}
  /\ get_nullable_instance(t)
  /\ Goto(t, IF Locked = {} THEN "done" ELSE "lock")
  /\ ctrl' = IF Locked = {} THEN [ctrl EXCEPT ![t].signal = "none"] ELSE ctrl
  /\ UNCHANGED <<value_mutex, weak_value, latch, svc, starts>>

\* system_service::deliver_signal: under subscribers_mutex_, one service after
\* the other.
LockSubscribers(t) ==
  LET i == InstanceOf(t)
  IN  /\ pc[t] = "lock" /\ inst[i].subscribers_mutex = {}
      /\ inst' = [inst EXCEPT ![i].subscribers_mutex = {t}]
      /\ ctrl' = [ctrl EXCEPT ![t].rest = inst[i].subscribers]
      /\ Goto(t, "deliver")
      /\ UNCHANGED <<value_mutex, weak_value, latch, svc, starts>>

Deliver(t) ==
  /\ pc[t] = "deliver" /\ ctrl[t].rest # <<>>
  /\ svc' = [svc EXCEPT ![Head(ctrl[t].rest)] = deliver_signal(@, ctrl[t].signal)]
  /\ ctrl' = [ctrl EXCEPT ![t].rest = Tail(@)]
  /\ UNCHANGED <<value_mutex, weak_value, latch, inst, pc, starts>>

UnlockSubscribers(t) ==
  /\ pc[t] = "deliver" /\ ctrl[t].rest = <<>>
  /\ inst' = [inst EXCEPT ![InstanceOf(t)].subscribers_mutex = {}]
  /\ ctrl' = [ctrl EXCEPT ![t].signal = "none"]
  /\ Goto(t, "release")
  /\ UNCHANGED <<value_mutex, weak_value, latch, svc, starts>>

ServiceStep(s) ==
  \/ get_instance(s) \/ CreateInstance(s) \/ add_subscriber(s)
  \/ DestroyService(s) \/ Unreference(s) \/ Unregister(s) \/ count_down(s)

CtrlStep(t) ==
  \/ windows_ctrl_handler(t) \/ LockSubscribers(t) \/ Deliver(t)
  \/ UnlockSubscribers(t) \/ Unreference(t) \/ Unregister(t) \/ count_down(t)

ConsoleNext ==
  \/ \E s \in Services :
       \/ Construct(s) \/ Operate(s) \/ Shutdown(s)
       \/ RunBinder(s) \/ RunHandler(s) \/ ServiceStep(s)
  \/ \E t \in CtrlThreads : Signal(t) \/ CtrlStep(t)

ConsoleSpec == ConsoleInit /\ [][ConsoleNext]_console_vars

(***************************************************************************)
(* Fairness: a thread that has begun to construct, to destroy or to deliver  *)
(* goes on when it can.  Nobody has to make or to use a service.             *)
(***************************************************************************)
ConsoleFairness ==
  /\ \A s \in Services : WF_console_vars(ServiceStep(s))
  /\ \A t \in CtrlThreads : WF_console_vars(CtrlStep(t))

ConsoleLiveSpec == ConsoleSpec /\ ConsoleFairness

-----------------------------------------------------------------------------
ConsoleTypeOK ==
  /\ latch \in 0 .. 1 /\ weak_value \in 0 .. 2
  /\ Cardinality(value_mutex) <= 1
  /\ \A s \in Services : \A g \in Signals : svc[s].queued[g] \in 0 .. MaxQueued

\* The places of service x where handler h is.
Places(x, h) ==
  {<<"waiting", i>> : i \in {j \in x.impl_list : h \in x.waiting[j]}}
  \cup {<<"binder", k>> : k \in {j \in DOMAIN x.binders : h \in x.binders[j].list}}
  \cup {<<"posted", p>> : p \in {q \in x.posted : q.handler = h}}

(***************************************************************************)
(* However signals, waits, cancellations, the destruction of an object and  *)
(* the shutdown meet: a handler is in one place until it is called or       *)
(* destroyed, a destroyed service has none left, and a signal never stays   *)
(* queued while a handler waits for one.                                    *)
(***************************************************************************)
HandlersOnce ==
  \A s \in Services : LET x == svc[s] IN
    /\ \A h \in Handlers :
         Cardinality(Places(x, h)) = (IF h \in x.accepted THEN 1 ELSE 0)
    /\ pc[s] \notin {"open", "shut"} => x.accepted = {}
    /\ (\E g \in Signals : x.queued[g] > 0) => Waiting(x) = {}

(***************************************************************************)
(* There is one instance at a time, though one is made while the one before *)
(* is being destroyed, perhaps in a thread of the system; a service that is *)
(* constructed is subscribed to it, and a signal goes to no service that is *)
(* constructed no more.                                                     *)
(***************************************************************************)
OneInstance ==
  /\ Cardinality({i \in Instances : inst[i].registered}) <= 1
  /\ \A s \in Services :
       pc[s] \in {"open", "shut"} =>
         /\ weak_value \in Instances
         /\ s \in inst[weak_value].refs /\ inst[weak_value].registered
         /\ s \in ToSet(inst[weak_value].subscribers)
  /\ \A i \in Instances : \A s \in ToSet(inst[i].subscribers) :
       pc[s] \in {"open", "shut"}
  /\ \A t \in CtrlThreads : \A s \in ToSet(ctrl[t].rest) :
       pc[s] \in {"open", "shut"}

(***************************************************************************)
(* Signals reach the services that exist and no others, and every handler   *)
(* is called or destroyed once: HandlersOnce and OneInstance.               *)
(***************************************************************************)
ConsoleSound == ConsoleTypeOK /\ HandlersOnce /\ OneInstance

(***************************************************************************)
(* Nobody waits for ever: the constructor and the destructor of a service   *)
(* end, and so does the delivery of a signal, though get_instance holds a   *)
(* mutex that the delivery needs while it waits for an instance to go.      *)
(***************************************************************************)
EveryoneReturns ==
  []<>(/\ \A s \in Services : pc[s] \in {"none", "open"}
       /\ \A t \in CtrlThreads : pc[t] \in {"idle", "done"})

=============================================================================

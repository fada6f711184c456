--------------------------- MODULE SessionManager ---------------------------
(***************************************************************************)
(* ma::echo::server::session_manager (examples/ma_echo_server_core): it     *)
(* accepts connections, starts a session for each, waits for the session to *)
(* run out of work, stops it and takes it back for the next connection.     *)
(*                                                                          *)
(* The manager's member functions run in its strand and those of a session  *)
(* in the session's own strand, on any thread of the io_services.  Between  *)
(* the two lie a queue per session (the calls posted to its strand, which   *)
(* keeps their order) and the completions posted back, which reach the      *)
(* manager's strand in any order.  Of a session only its interface is here: *)
(* module SessionApi, which module Session implements - and so does the     *)
(* manager itself, for its own user.                                        *)
(*                                                                          *)
(* A session_wrapper is attached to one session at a time and a session is  *)
(* as good as new after its reset(), so a wrapper stands for its session    *)
(* too.  External, modelled from its use: the acceptor and the factory.     *)
(***************************************************************************)
EXTENDS Naturals, Sequences, FiniteSets, SequencesExt

CONSTANTS
  Wrappers,             \* the session_wrapper objects memory suffices for
  NoSession,            \* the null session_wrapper_ptr
  MaxSessionCount,      \* session_manager_config::max_session_count
  RecycledSessionCount, \* session_manager_config::recycled_session_count
  MaxStoppingSessions,  \* session_manager_config::max_stopping_sessions
  Faults,               \* what may fail: {"open", "create"}
  MaxAccepted,          \* bound: connections accepted
  UserCalls,            \* the async_* the user of the manager calls ...
  MaxCalls              \* ... and bound: how often it calls each

ASSUME ManagerAssumption ==
  /\ IsFiniteSet(Wrappers) /\ NoSession \notin Wrappers
  /\ MaxSessionCount \in Nat \ {0}
  /\ RecycledSessionCount \in Nat
  /\ MaxStoppingSessions \in Nat
  /\ Faults \subseteq {"open", "create"}
  /\ MaxAccepted \in Nat
  /\ UserCalls \subseteq {"start", "wait", "stop"}
  /\ MaxCalls \in Nat

VARIABLES
  m,      \* the manager
  ses,    \* ses[w]: the wrapper w and the session attached to it
  calls   \* calls[c]: number of async_start / async_wait / async_stop calls

vars == <<m, ses, calls>>

\* The interface of the sessions.  The manager treats all reasons alike, so one
\* stands for them; its states are kept per session, in ses[w].api.
Api == INSTANCE SessionApi WITH Reasons <- {"eof"}, a <- ses

Errors == Api!Errors \cup {"no_descriptors"}

ManagerStates ==
  [extern_state          : {"ready", "work", "stop", "stopped"},
   intern_state          : {"work", "stop", "stopped"},
   accept_state          : {"ready", "in_progress", "stopped"},
   pending_operations    : Nat,
   open                  : BOOLEAN,          \* acceptor_.is_open()
   active_sessions       : Seq(Wrappers),
   recycled_sessions     : Seq(Wrappers),
   stopping_sessions_end : Wrappers \cup {NoSession},
   accept_error          : Errors,
   extern_wait_error     : Errors,
   wait_handler          : BOOLEAN,
   stop_handler          : BOOLEAN,
   posted                : [Api!Calls -> Seq(Errors)],
   accepting             : Wrappers \cup {NoSession},  \* asio's async_accept
   scheduled             : BOOLEAN,  \* handle_scheduled_... is posted
   max_active            : Nat,      \* of the statistics: most active, ...
   total_accepted        : Nat,      \* ... accepted ...
   stopped               : Nat]      \* ... and counted as stopped, in all

WrapperStates ==
  [state              : {"ready", "start", "work", "stop", "stopped"},
   pending_operations : Nat,
   attached           : BOOLEAN,         \* session_ is not null
   queue              : Seq(Api!Calls),  \* calls posted to its strand
   api                : Api!ApiStates]

session_manager ==
  [extern_state |-> "ready", intern_state |-> "work", accept_state |-> "ready",
   pending_operations |-> 0, open |-> FALSE, active_sessions |-> <<>>,
   recycled_sessions |-> <<>>, stopping_sessions_end |-> NoSession,
   accept_error |-> "ok", extern_wait_error |-> "ok",
   wait_handler |-> FALSE, stop_handler |-> FALSE,
   posted |-> [c \in Api!Calls |-> <<>>], accepting |-> NoSession,
   scheduled |-> FALSE, max_active |-> 0, total_accepted |-> 0, stopped |-> 0]

Detached ==
  [state |-> "ready", pending_operations |-> 0, attached |-> FALSE,
   queue |-> <<>>, api |-> Api!Fresh]

Init ==
  /\ m = session_manager
  /\ ses = [w \in Wrappers |-> Detached]
  /\ calls = [c \in Api!Calls |-> 0]

-----------------------------------------------------------------------------
(***************************************************************************)
(* The methods are operators on the pair g = [m, ses].                      *)
(***************************************************************************)
Post(g, call, error) == [g EXCEPT !.m.posted[call] = Append(@, error)]

\* async_start, async_wait and async_stop of the wrappers ws: the call is posted
\* to the session's strand and counted by the wrapper and by the manager.
Invoke(g, ws, call, state) ==
  [m   |-> [g.m EXCEPT !.pending_operations = @ + Cardinality(ws)],
   ses |-> [w \in Wrappers |->
              IF w \in ws
              THEN [g.ses[w] EXCEPT !.queue = Append(@, call), !.state = state,
                                    !.pending_operations = @ + 1]
              ELSE g.ses[w]]]

start_session_start(g, w) == Invoke(g, {w}, "start", "start")
start_session_wait(g, w)  == Invoke(g, {w}, "wait", g.ses[w].state)
start_session_stop(g, w)  == Invoke(g, {w}, "stop", "stop")

mark(g, w, state) == [g EXCEPT !.ses[w].state = state]

set_active_session_count(g, count) ==
  [g EXCEPT !.m.max_active = IF @ < count THEN count ELSE @]

add_to_active(g, w) ==
  set_active_session_count([g EXCEPT !.m.active_sessions = <<w>> \o @],
                           Len(g.m.active_sessions) + 1)

\* Where w is in the list; a value is in a list once.
Position(list, w) == CHOOSE k \in DOMAIN list : list[k] = w

\* session_list::next
Following(list, w) ==
  LET i == Position(list, w) IN IF i < Len(list) THEN list[i + 1] ELSE NoSession

\* session_list::erase
Erased(list, w) == RemoveAt(list, Position(list, w))

\* Mutant of remove_from_active: the rest of the list is forgotten.
remove_from_active_rest(g, w) ==
  [g EXCEPT !.m.stopping_sessions_end = IF @ = w THEN NoSession ELSE @,
            !.m.active_sessions = Erased(@, w)]

\* With one session less max_active stays what it is.
remove_from_active(g, w) ==
  [g EXCEPT !.m.stopping_sessions_end =
              IF @ = w THEN Following(g.m.active_sessions, w) ELSE @,
            !.m.active_sessions = Erased(@, w)]

add_to_recycled(g, w) == [g EXCEPT !.m.recycled_sessions = <<w>> \o @]

remove_from_recycled(g, w) ==
  [g EXCEPT !.m.recycled_sessions = Erased(@, w)]

\* The session is detached and goes back to its factory, if need be by the
\* session_release_guard.
Release(g, w) == [g EXCEPT !.ses[w] = Detached]

\* Mutant of recycle: completions still to come are not waited for.
recycle_early(g, w) ==
  IF Len(g.m.recycled_sessions) < RecycledSessionCount
  THEN add_to_recycled(Release(g, w), w) ELSE Release(g, w)

\* The session goes back to its factory and the wrapper is kept or freed.
recycle(g, w) ==
  IF g.ses[w].pending_operations # 0 THEN g
  ELSE IF Len(g.m.recycled_sessions) < RecycledSessionCount
  THEN add_to_recycled(Release(g, w), w) ELSE Release(g, w)

session_accepted(g) == [g EXCEPT !.m.total_accepted = @ + 1]

session_stopped(g) == [g EXCEPT !.m.stopped = @ + 1]

\* A new wrapper is any object that is neither in use nor cached.
NewWrappers(g) ==
  {w \in Wrappers : ~g.ses[w].attached} \ ToSet(g.m.recycled_sessions)

CanCreate(g, f) ==
  "create" \notin f /\ (g.m.recycled_sessions # <<>> \/ NewWrappers(g) # {})

attach(g, w) == [g EXCEPT !.ses[w] = [Detached EXCEPT !.attached = TRUE]]

start_accept_session(g, w) ==
  [g EXCEPT !.m.accepting = w, !.m.accept_state = "in_progress",
            !.m.pending_operations = @ + 1]

\* create_session, where CanCreate holds, and start_accept_session
AcceptNext(g) ==
  LET cached == g.m.recycled_sessions # <<>>
      w == IF cached THEN Head(g.m.recycled_sessions)
                     ELSE CHOOSE x \in NewWrappers(g) : TRUE
      q == attach(IF cached THEN remove_from_recycled(g, w) ELSE g, w)
  IN  start_accept_session([q EXCEPT !.m.accept_error = "ok"], w)

\* The acceptor is opened, bound and made to listen; a step that fails closes it.
open(g, f) == [g EXCEPT !.m.open = "open" \notin f]

open_acceptor(g, f) ==
  [open(g, f) EXCEPT !.m.accept_error = IF "open" \in f THEN "error" ELSE "ok"]

close_acceptor(g) == [g EXCEPT !.m.open = FALSE]

-----------------------------------------------------------------------------
(***************************************************************************)
(* Stop.                                                                    *)
(***************************************************************************)
complete_extern_stop(g, error) ==
  IF g.m.stop_handler THEN Post([g EXCEPT !.m.stop_handler = FALSE], "stop", error)
  ELSE g

\* Mutant of complete_extern_wait: the latest reason replaces the first.
complete_extern_wait_latest(g, error) ==
  LET q == [g EXCEPT !.m.extern_wait_error = error, !.m.wait_handler = FALSE]
  IN  IF g.m.wait_handler THEN Post(q, "wait", error) ELSE q

complete_extern_wait(g, error) ==
  LET why == IF g.m.extern_wait_error = "ok" THEN error ELSE g.m.extern_wait_error
      q   == [g EXCEPT !.m.extern_wait_error = why, !.m.wait_handler = FALSE]
  IN  IF g.m.wait_handler THEN Post(q, "wait", why) ELSE q

continue_stop(g) ==
  IF g.m.pending_operations # 0 THEN g
  ELSE IF g.m.extern_state = "stop"
  THEN complete_extern_stop([g EXCEPT !.m.intern_state = "stopped",
                                      !.m.extern_state = "stopped"], "ok")
  ELSE [g EXCEPT !.m.intern_state = "stopped"]

\* Mutant of start_active_session_stop: a limit of zero sessions per step.
start_active_session_stop_none(g, begin) ==
  LET more == begin # NoSession
  IN  [g EXCEPT !.m.stopping_sessions_end = begin, !.m.scheduled = more,
                !.m.pending_operations = IF more THEN @ + 1 ELSE @]

\* Stops the sessions that are not stopping among the next max_stopping_sessions
\* of the list, from begin on, and schedules the rest.
start_active_session_stop(g, begin) ==
  LET list  == g.m.active_sessions
      first == IF begin = NoSession THEN Len(list) + 1
               ELSE Position(list, begin)
      last  == first + MaxStoppingSessions
      chunk == {list[k] : k \in first .. (IF last > Len(list) THEN Len(list)
                                                              ELSE last - 1)}
      more  == last <= Len(list)
      q     == Invoke(g, {w \in chunk : g.ses[w].state # "stop"}, "stop", "stop")
  IN  [q EXCEPT !.m.stopping_sessions_end = IF more THEN list[last] ELSE NoSession,
                !.m.scheduled = more,
                !.m.pending_operations = IF more THEN @ + 1 ELSE @]

start_stop(g, error) ==
  LET q == [close_acceptor(g) EXCEPT
              !.m.intern_state = "stop",
              !.m.accept_state = IF @ = "ready" THEN "stopped" ELSE @]
      t == IF q.m.extern_state = "work" THEN complete_extern_wait(q, error) ELSE q
      first == IF t.m.active_sessions = <<>> THEN NoSession
               ELSE Head(t.m.active_sessions)
  IN  continue_stop(start_active_session_stop(t, first))

handle_scheduled_active_session_stop(g) ==
  continue_stop(start_active_session_stop(
    [g EXCEPT !.m.scheduled = FALSE, !.m.pending_operations = @ - 1],
    g.m.stopping_sessions_end))

-----------------------------------------------------------------------------
(***************************************************************************)
(* Work.                                                                    *)
(***************************************************************************)
\* Mutant of stop_accept: it does not see that no session is left.
stop_accept_only(g, error) ==
  [g EXCEPT !.m.accept_state = "stopped", !.m.accept_error = error]

\* No accept will be started any more; with no session left the work is over.
stop_accept(g, error) ==
  LET q == [g EXCEPT !.m.accept_state = "stopped", !.m.accept_error = error]
  IN  IF q.m.active_sessions = <<>> THEN start_stop(q, error) ELSE q

\* Mutant of Full: one session too many.
FullLate(g) == Len(g.m.active_sessions) > MaxSessionCount

Full(g) == Len(g.m.active_sessions) >= MaxSessionCount

continue_work(g, f) ==
  LET q == IF g.m.open THEN g ELSE open_acceptor(g, f)
  IN  IF g.m.accept_state = "stopped" THEN stop_accept(g, g.m.accept_error)
      ELSE IF g.m.accept_state = "in_progress" THEN g
      ELSE IF Full(g) THEN close_acceptor(g)
      ELSE IF ~q.m.open THEN stop_accept(q, q.m.accept_error)
      ELSE IF CanCreate(q, f) THEN AcceptNext(q)
      ELSE IF q.m.active_sessions # <<>>
      THEN [q EXCEPT !.m.accept_error = "error"]   \* try later
      ELSE stop_accept(q, "error")

Continue(g, f) ==
  IF g.m.intern_state = "work" THEN continue_work(g, f) ELSE continue_stop(g)

is_accept_recoverable(error) == error = "no_descriptors"

AcceptDone(g, state) ==
  [g EXCEPT !.m.pending_operations = @ - 1, !.m.accept_state = state,
            !.m.accepting = NoSession]

handle_accept_at_work(g, w, error, f) ==
  LET d == AcceptDone(g, IF error = "ok" \/ is_accept_recoverable(error)
                         THEN "ready" ELSE "stopped")
      n == session_accepted(d)
  IN  IF error # "ok"
      THEN continue_work(recycle(
             [d EXCEPT !.m.accept_error =
                         IF is_accept_recoverable(error) THEN @ ELSE error], w), f)
      ELSE IF Full(n)
      THEN continue_work(recycle(session_stopped(n), w), f)
      ELSE continue_work(start_session_start(add_to_active(n, w), w), f)

handle_accept_at_stop(g, w, error) ==
  LET d == AcceptDone(g, "stopped")
      n == session_accepted(d)
  IN  continue_stop(recycle(IF error = "ok" THEN session_stopped(n) ELSE d, w))

-----------------------------------------------------------------------------
(***************************************************************************)
(* The completions of a session's operations.  Any of them may be late: the *)
(* wrapper has moved on, and the last one to arrive recycles it.            *)
(***************************************************************************)
\* The wrapper registers the completion of a call of its session.
Completion(v, call) ==
  [v EXCEPT !.pending_operations = @ - 1, !.api.posted[call] = Tail(@)]

\* Mutant of operation_completed: only the wrapper registers it.
operation_completed_wrapper(g, w, call) ==
  [g EXCEPT !.ses[w] = Completion(@, call)]

operation_completed(g, w, call) ==
  [g EXCEPT !.m.pending_operations = @ - 1, !.ses[w] = Completion(@, call)]

\* mark_stopped, remove_from_active and recycle
Dismiss(g, w) == recycle(remove_from_active(mark(g, w, "stopped"), w), w)

\* Mutant of handle_session_start: a late completion is ignored.
handle_session_start_late(g, w, error, f) ==
  LET d == operation_completed(g, w, "start")
  IN  IF d.ses[w].state # "start" THEN Continue(session_stopped(d), f)
      ELSE IF error # "ok" THEN Continue(Dismiss(session_stopped(d), w), f)
      ELSE IF d.m.intern_state = "work"
      THEN Continue(start_session_wait(mark(d, w, "work"), w), f)
      ELSE Continue(start_session_stop(d, w), f)

handle_session_start(g, w, error, f) ==
  LET d == operation_completed(g, w, "start")
  IN  IF d.ses[w].state # "start" THEN Continue(recycle(session_stopped(d), w), f)
      ELSE IF error # "ok" THEN Continue(Dismiss(session_stopped(d), w), f)
      ELSE IF d.m.intern_state = "work"
      THEN Continue(start_session_wait(mark(d, w, "work"), w), f)
      ELSE Continue(start_session_stop(d, w), f)

handle_session_wait(g, w, error, f) ==
  LET d == session_stopped(operation_completed(g, w, "wait"))
  IN  IF d.ses[w].state # "work" THEN Continue(recycle(d, w), f)
      ELSE Continue(start_session_stop(d, w), f)

\* Mutant of handle_session_stop: the session is counted as stopped here too.
handle_session_stop_counted(g, w, error, f) ==
  LET d == session_stopped(operation_completed(g, w, "stop"))
  IN  IF d.ses[w].state # "stop" THEN Continue(recycle(d, w), f)
      ELSE Continue(Dismiss(d, w), f)

handle_session_stop(g, w, error, f) ==
  LET d == operation_completed(g, w, "stop")
  IN  IF d.ses[w].state # "stop" THEN Continue(recycle(d, w), f)
      ELSE Continue(Dismiss(d, w), f)

-----------------------------------------------------------------------------
(***************************************************************************)
(* The user's calls.                                                        *)
(***************************************************************************)
start_extern_start(g, f) ==
  LET q == continue_work([g EXCEPT !.m.extern_state = "work"], f)
  IN  IF g.m.extern_state # "ready" THEN Post(g, "start", "invalid_state")
      ELSE IF q.m.intern_state = "stopped"
      THEN Post([q EXCEPT !.m.extern_state = "stopped"],
                "start", q.m.extern_wait_error)
      ELSE Post(q, "start", "ok")

start_extern_stop(g) ==
  LET t == complete_extern_wait([g EXCEPT !.m.extern_state = "stop"],
                                "operation_aborted")
      q == IF t.m.intern_state = "work" THEN start_stop(t, "operation_aborted")
                                        ELSE t
  IN  IF g.m.extern_state \in {"stop", "stopped"}
      THEN Post(g, "stop", "invalid_state")
      ELSE IF q.m.intern_state = "stopped"
      THEN Post([q EXCEPT !.m.extern_state = "stopped"], "stop", "ok")
      ELSE [q EXCEPT !.m.stop_handler = TRUE]

start_extern_wait(g) ==
  IF g.m.extern_state # "work" \/ g.m.wait_handler
  THEN Post(g, "wait", "invalid_state")
  ELSE IF g.m.intern_state # "work" THEN Post(g, "wait", g.m.extern_wait_error)
  ELSE [g EXCEPT !.m.wait_handler = TRUE]

-----------------------------------------------------------------------------
Current == [m |-> m, ses |-> ses]
Become(g) == m' = g.m /\ ses' = g.ses

Call(c) ==
  /\ c \in UserCalls /\ calls[c] < MaxCalls
  /\ calls' = [calls EXCEPT ![c] = @ + 1]

AsyncStart == Call("start") /\ \E f \in SUBSET Faults :
                                 Become(start_extern_start(Current, f))
AsyncWait == Call("wait") /\ Become(start_extern_wait(Current))
AsyncStop == Call("stop") /\ Become(start_extern_stop(Current))

\* A connection that was accepted before the acceptor was closed stays so.
AcceptResults ==
  (IF m.total_accepted < MaxAccepted THEN {"ok"} ELSE {})
  \cup {"no_descriptors", "error"} \cup (IF m.open THEN {} ELSE {"aborted"})

HandleAcceptAtWork ==
  /\ m.accepting # NoSession /\ m.intern_state = "work"
  /\ \E error \in AcceptResults, f \in SUBSET Faults :
       Become(handle_accept_at_work(Current, m.accepting, error, f))
  /\ UNCHANGED calls

HandleAcceptAtStop ==
  /\ m.accepting # NoSession /\ m.intern_state = "stop"
  /\ \E error \in AcceptResults :
       Become(handle_accept_at_stop(Current, m.accepting, error))
  /\ UNCHANGED calls

Completed(w, call) ==
  /\ ses[w].api.posted[call] # <<>> /\ m.intern_state # "stopped"
  /\ UNCHANGED calls

HandleSessionStart(w) ==
  /\ Completed(w, "start")
  /\ \E f \in SUBSET Faults : Become(handle_session_start(Current, w,
                                Head(ses[w].api.posted["start"]), f))

HandleSessionWait(w) ==
  /\ Completed(w, "wait")
  /\ \E f \in SUBSET Faults : Become(handle_session_wait(Current, w,
                                Head(ses[w].api.posted["wait"]), f))

HandleSessionStop(w) ==
  /\ Completed(w, "stop")
  /\ \E f \in SUBSET Faults : Become(handle_session_stop(Current, w,
                                Head(ses[w].api.posted["stop"]), f))

HandleScheduled ==
  /\ m.scheduled
  /\ Become(handle_scheduled_active_session_stop(Current))
  /\ UNCHANGED calls

\* The session's strand runs the next call posted to it.
RunCall(w) ==
  /\ ses[w].queue # <<>>
  /\ \E x \in LET y == ses[w].api
               IN  CASE Head(ses[w].queue) = "start" -> Api!Started(y)
                     [] Head(ses[w].queue) = "wait"  -> Api!Waited(y)
                     [] Head(ses[w].queue) = "stop"  -> Api!Stopped(y) :
       ses' = [ses EXCEPT ![w].api = x, ![w].queue = Tail(@)]
  /\ UNCHANGED <<m, calls>>

\* The session begins or finishes to end by itself.
EndSession(w) ==
  /\ ses[w].api.extern_state # "ready"
  /\ \E x \in Api!Ended(ses[w].api) : ses' = [ses EXCEPT ![w].api = x]
  /\ UNCHANGED <<m, calls>>

Reset(free_recycled_sessions) ==
  /\ m.extern_state \in {"ready", "stopped"} /\ m.pending_operations = 0
  /\ m' = [session_manager EXCEPT
              !.recycled_sessions = IF free_recycled_sessions THEN <<>>
                                    ELSE m.recycled_sessions,
              !.stopping_sessions_end = m.stopping_sessions_end,
              !.accept_error = m.accept_error]
  /\ calls' = [c \in Api!Calls |-> 0]
  /\ UNCHANGED ses

Next ==
  \/ AsyncStart
  \/ AsyncWait
  \/ AsyncStop
  \/ HandleAcceptAtWork
  \/ HandleAcceptAtStop
  \/ HandleScheduled
  \/ \E w \in Wrappers : \/ HandleSessionStart(w)
                         \/ HandleSessionWait(w)
                         \/ HandleSessionStop(w)
                         \/ RunCall(w)
                         \/ EndSession(w)
  \/ \E free_recycled_sessions \in BOOLEAN : Reset(free_recycled_sessions)

Spec == Init /\ [][Next]_vars

(***************************************************************************)
(* Fairness.  The threads of the io_services run what is posted.  An accept *)
(* completes once the acceptor is closed, and a session that was told to    *)
(* stop ends: that is StopCompletes of module Session, which the inactivity *)
(* timeout guarantees.                                                      *)
(***************************************************************************)
FinishSession(w) == ses[w].api.run = "ending" /\ EndSession(w)

Fairness ==
  /\ WF_vars(HandleAcceptAtStop)
  /\ WF_vars(HandleScheduled)
  /\ \A w \in Wrappers :
       /\ WF_vars(HandleSessionStart(w))
       /\ WF_vars(HandleSessionWait(w))
       /\ WF_vars(HandleSessionStop(w))
       /\ WF_vars(RunCall(w))
       /\ WF_vars(FinishSession(w))

LiveSpec == Spec /\ Fairness

-----------------------------------------------------------------------------
(***************************************************************************)
(* Type correctness of the manager, its wrappers and its sessions.          *)
(***************************************************************************)
TypeOK ==
  /\ m \in ManagerStates
  /\ ses \in [Wrappers -> WrapperStates]
  /\ calls \in [Api!Calls -> Nat]

Flag(b) == IF b THEN 1 ELSE 0

\* Operations of the session of wrapper v the manager has not heard the end of.
Unanswered(v) ==
  LET x == v.api
  IN  Len(v.queue) + Flag(x.wait_handler) + Flag(x.stop_handler)
      + Len(x.posted["start"]) + Len(x.posted["wait"]) + Len(x.posted["stop"])

\* One element for each pending operation of each wrapper.
Pending(vs) == UNION {{w} \X (1 .. vs[w].pending_operations) : w \in Wrappers}

(***************************************************************************)
(* Both counters of pending operations are exact, through every late and    *)
(* reordered completion: a wrapper counts the unanswered operations of its  *)
(* session, the manager those of all wrappers, the accept and the scheduled *)
(* stop.  The manager's stop and the recycling of a session rest on them.   *)
(***************************************************************************)
PendingMatches ==
  /\ TypeOK
  /\ \A w \in Wrappers : ses[w].pending_operations = Unanswered(ses[w])
  /\ m.pending_operations =
       Flag(m.accepting # NoSession) + Flag(m.scheduled)
       + Cardinality(Pending(ses))
  /\ m.accepting # NoSession <=> m.accept_state = "in_progress"

(***************************************************************************)
(* No session is leaked, shared or stuck: every attached wrapper is being   *)
(* accepted or has an answer to come, the wrappers in the active list among *)
(* them; the cached ones are free; and when the manager has stopped it      *)
(* holds no session at all.                                                 *)
(***************************************************************************)
NoSessionLeaked ==
  /\ \A w \in Wrappers :
       ses[w].attached <=> m.accepting = w \/ ses[w].pending_operations > 0
  /\ \A w \in ToSet(m.active_sessions) :
       /\ ses[w].pending_operations > 0
       /\ ses[w].state \in {"start", "work", "stop"}
  /\ \A w \in ToSet(m.recycled_sessions) : ~ses[w].attached
  /\ Cardinality(ToSet(m.active_sessions)) = Len(m.active_sessions)
  /\ Cardinality(ToSet(m.recycled_sessions)) = Len(m.recycled_sessions)
  /\ m.intern_state = "stopped" => \A w \in Wrappers : ~ses[w].attached

(***************************************************************************)
(* recycle() resets a session only when it is out of use: it was never      *)
(* started or has stopped, its strand has no call left to run, and the      *)
(* completion being handled is its last one.                                *)
(***************************************************************************)
ResetOnlyWhenQuiet ==
  [][ \A w \in Wrappers : ses[w].attached /\ ~ses'[w].attached =>
        /\ ses[w].api.extern_state \in {"ready", "stopped"}
        /\ ses[w].api.run = "stopped" \/ ses[w].api.extern_state = "ready"
        /\ Unanswered(ses[w]) = IF m.accepting = w THEN 0 ELSE 1 ]_vars

(***************************************************************************)
(* While an accept is outstanding there is room for the connection, so a    *)
(* client is never accepted only to be dropped, and the limit on sessions   *)
(* holds.                                                                   *)
(***************************************************************************)
AcceptHasRoom ==
  /\ Len(m.active_sessions) <= MaxSessionCount
  /\ m.accepting # NoSession /\ m.intern_state = "work" =>
       m.open /\ Len(m.active_sessions) < MaxSessionCount

(***************************************************************************)
(* A manager that works has something that will wake it up: an accept       *)
(* outstanding or an active session.  A failure to open the acceptor or to  *)
(* create a session never leaves it idle for ever.                          *)
(***************************************************************************)
NeverIdle ==
  m.extern_state = "work" /\ m.intern_state = "work" =>
    m.accepting # NoSession \/ m.active_sessions # <<>>

(***************************************************************************)
(* During the stop, every active session has been told to stop or is in the *)
(* part of the list that a scheduled step still has to go through, whatever *)
(* sessions left the list in between.                                       *)
(***************************************************************************)
NoSessionForgotten ==
  m.intern_state = "stop" =>
    \A i \in DOMAIN m.active_sessions :
      \/ ses[m.active_sessions[i]].state = "stop"
      \/ m.scheduled /\ \E k \in 1 .. i :
           m.active_sessions[k] = m.stopping_sessions_end

(***************************************************************************)
(* The statistics balance: while the manager works, the accepted sessions   *)
(* not counted as stopped are those whose start or wait is unanswered; no   *)
(* session is ever counted twice.  The highest number of active sessions is *)
(* never less than there are, nor more than were accepted or than the limit.*)
(***************************************************************************)
StatsBalance ==
  LET uncounted == Cardinality({w \in Wrappers :
                     \/ ses[w].api.wait_handler
                     \/ \E c \in {"start", "wait"} :
                          \/ c \in ToSet(ses[w].queue)
                          \/ ses[w].api.posted[c] # <<>>})
  IN  /\ m.intern_state = "work" => m.total_accepted = m.stopped + uncounted
      /\ m.total_accepted >= m.stopped + uncounted
      /\ m.max_active \in Len(m.active_sessions) .. MaxSessionCount
      /\ m.max_active <= m.total_accepted

(***************************************************************************)
(* Whatever the manager counts is exact: the pending operations and the     *)
(* sessions of the statistics.                                              *)
(***************************************************************************)
CountsExact == PendingMatches /\ StatsBalance

(***************************************************************************)
(* The accept loop neither overruns the limit on sessions nor falls asleep. *)
(***************************************************************************)
AcceptLoopSound == AcceptHasRoom /\ NeverIdle

(***************************************************************************)
(* A manager that is told to stop does stop, with every session it had.     *)
(***************************************************************************)
StopCompletes == m.extern_state = "stop" ~> m.extern_state = "stopped"

(***************************************************************************)
(* The assertion and its comment in handle_session_stop_at_stop: the stop   *)
(* of a session never fails, because the wrapper's state prevents a double  *)
(* stop.                                                                    *)
(***************************************************************************)
StopNeverFails ==
  \A w \in Wrappers :
    ses[w].state = "stop" => "invalid_state" \notin ToSet(ses[w].api.posted["stop"])

-----------------------------------------------------------------------------
(***************************************************************************)
(* The manager promises to its user what a session promises to the manager. *)
(***************************************************************************)
Own == INSTANCE SessionApi WITH
         Reasons <- {"error"},
         a <- [extern_state |-> m.extern_state,
               run |-> IF m.intern_state = "stop" THEN "ending" ELSE m.intern_state,
               extern_wait_error |-> m.extern_wait_error,
               wait_handler |-> m.wait_handler, stop_handler |-> m.stop_handler,
               posted |-> m.posted]

\* Every call is answered as SessionApi says, whatever the sessions and the
\* acceptor do meanwhile: a failed start leaves nothing running, a wait is told
\* the first reason and a stop is answered when everything has ended.
ImplementsApi == Own!Spec

=============================================================================

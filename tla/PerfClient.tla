----------------------------- MODULE PerfClient -----------------------------
(***************************************************************************)
(* The performance test client (examples/ma_asio_performance_test_client):  *)
(* main starts a session_manager, waits for its sessions or for the end of   *)
(* the test, stops the manager and joins the threads; the manager starts its *)
(* sessions in batches; a session connects, retries, and then sends what it  *)
(* receives through a buffer that starts half full, until it is stopped or   *)
(* fails.                                                                    *)
(*                                                                           *)
(* Each session and the manager run on a strand: what is posted to it runs   *)
(* in order, a completed operation gets its turn at any time.  main runs in  *)
(* a thread of its own.  The bytes are not modelled, only how many are in    *)
(* the buffer; nor is shutdown_socket, whose result nobody looks at.  An     *)
(* operation that completed before the socket was closed keeps its result.   *)
(* External: asio, the peer, the resolver.                                   *)
(***************************************************************************)
EXTENDS Integers, Sequences, FiniteSets, FiniteSetsExt, LimitedInt

CONSTANTS
  SessionCount,  \* session_manager_config::session_count
  BatchSize,     \* session_manager_config::batch_size
  BufferSize,    \* session_config::buffer_size
  Attempts,      \* the values of session_config::max_connect_attempts
  Intervals,     \* the values of the option batch-interval
  Endpoints,     \* how many endpoints the host resolves to
  Faults,        \* system calls that may fail: "options", "timer"
  MaxBytes       \* bound: bytes a peer sends

ASSUME PerfAssumption ==
  /\ SessionCount \in Nat /\ BatchSize \in Nat /\ MaxBytes \in Nat
  /\ BufferSize \in Nat \ {0} /\ Endpoints \in Nat \ {0}
  /\ Attempts \subseteq Nat /\ Intervals \subseteq Nat

VARIABLES
  config,  \* max_connect_attempts and whether there is a batch_interval,
           \* 0 attempts standing for any number of them
  c,       \* c.ses[i]: session i; c.outstanding: work_state::outstanding_
  m,       \* the session_manager
  main,    \* how far main() is
  stats    \* stats_

vars == <<config, c, m, main, stats>>

Ids == 1 .. SessionCount

to_optional_duration(milliseconds) == milliseconds # 0

build_client_config(o) ==
  [max_connect_attempts |-> o.attempts,
   batch_interval |-> to_optional_duration(o.interval)]

-----------------------------------------------------------------------------
(***************************************************************************)
(* A session.  queue holds the calls posted to its strand, ops the asio      *)
(* operations whose handlers have not run, reading and writing the sizes     *)
(* they were given; rcvd, sent and established are what really happened,     *)
(* for comparison with the statistics.                                       *)
(***************************************************************************)
session ==
  [queue |-> <<>>, ops |-> {}, open |-> FALSE, attempt |-> 0, endpoint |-> 1,
   filled |-> BufferSize \div 2, reading |-> 0, writing |-> 0,
   bytes_written |-> limited_int(0), bytes_read |-> limited_int(0),
   connected |-> FALSE, write_in_progress |-> FALSE, read_in_progress |-> FALSE,
   started |-> FALSE, stopped |-> FALSE, was_connected |-> FALSE,
   rcvd |-> 0, sent |-> 0, established |-> FALSE]

SessionStates ==
  [queue : Seq({"start", "stop"}), ops : SUBSET {"connect", "read", "write"},
   open : BOOLEAN, attempt : Nat, endpoint : 1 .. Endpoints,
   filled : 0 .. BufferSize, reading : 0 .. BufferSize, writing : 0 .. BufferSize,
   bytes_written : Limited, bytes_read : Limited,
   connected : BOOLEAN, write_in_progress : BOOLEAN, read_in_progress : BOOLEAN,
   started : BOOLEAN, stopped : BOOLEAN, was_connected : BOOLEAN,
   rcvd : Nat, sent : Nat, established : BOOLEAN]

close_socket(x, i) == [x EXCEPT !.ses[i].open = FALSE]

dec_outstanding(x) == [x EXCEPT !.outstanding = @ - 1]

stop(x, i) ==
  dec_outstanding([close_socket(x, i) EXCEPT !.ses[i].connected = FALSE,
                                             !.ses[i].stopped = TRUE])

start_connect(x, i, attempt, endpoint) ==
  [x EXCEPT !.ses[i].ops = @ \cup {"connect"}, !.ses[i].open = TRUE,
            !.ses[i].attempt = attempt, !.ses[i].endpoint = endpoint]

start_write_some(x, i) ==
  IF x.ses[i].filled = 0 THEN x
  ELSE [x EXCEPT !.ses[i].ops = @ \cup {"write"},
                 !.ses[i].writing = x.ses[i].filled,
                 !.ses[i].write_in_progress = TRUE]

start_read_some(x, i) ==
  IF x.ses[i].filled = BufferSize THEN x
  ELSE [x EXCEPT !.ses[i].ops = @ \cup {"read"},
                 !.ses[i].reading = BufferSize - x.ses[i].filled,
                 !.ses[i].read_in_progress = TRUE]

do_start(x, i) ==
  IF x.ses[i].stopped THEN x
  ELSE start_connect([x EXCEPT !.ses[i].started = TRUE], i, 0, 1)

\* Mutant of do_stop: it does not look whether the session has stopped.
do_stop_again(x, i) == stop(x, i)

do_stop(x, i) == IF x.ses[i].stopped THEN x ELSE stop(x, i)

\* Every endpoint in turn, then all of them again unless that was the last attempt.
Reconnect(x, i) ==
  LET s == x.ses[i]
      y == close_socket(x, i)
      limit == config.max_connect_attempts
      attempt == IF limit = 0 THEN s.attempt ELSE s.attempt + 1
  IN  IF s.endpoint < Endpoints
      THEN start_connect(y, i, s.attempt, s.endpoint + 1)
      ELSE IF limit # 0 /\ attempt >= limit THEN stop(y, i)
      ELSE start_connect(y, i, attempt, 1)

\* The first option that cannot be set ends the attempt to set them.
apply_socket_options(f) == IF "options" \in f THEN "error" ELSE "ok"

Connected(x, i, f) ==
  LET y == [x EXCEPT !.ses[i].connected = TRUE]
  IN  IF apply_socket_options(f) # "ok" THEN stop(y, i)
      ELSE start_read_some(start_write_some(y, i), i)

\* Mutant of handle_connect: a session that has stopped keeps no statistics.
handle_connect_late(x, i, error, f) ==
  LET y == [x EXCEPT !.ses[i].ops = @ \ {"connect"}]
      z == [y EXCEPT !.ses[i].was_connected = error = "ok"]
  IN  IF y.ses[i].stopped THEN y
      ELSE IF error # "ok" THEN Reconnect(z, i)
      ELSE Connected(z, i, f)

handle_connect(x, i, error, f) ==
  LET y == [x EXCEPT !.ses[i].ops = @ \ {"connect"},
                     !.ses[i].was_connected = error = "ok"]
  IN  IF y.ses[i].stopped THEN y
      ELSE IF error # "ok" THEN Reconnect(y, i)
      ELSE Connected(y, i, f)

\* Mutant of handle_read: a stopped session returns before it clears the flag.
handle_read_late(x, i, error, bytes) ==
  LET w == [x EXCEPT !.ses[i] =
             [x.ses[i] EXCEPT !.ops = @ \ {"read"}, !.reading = 0,
                              !.bytes_read = add_value(@, bytes), !.filled = @ + bytes]]
      y == [w EXCEPT !.ses[i].read_in_progress = FALSE]
      z == IF y.ses[i].write_in_progress THEN y ELSE start_write_some(y, i)
  IN  IF y.ses[i].stopped THEN w
      ELSE IF error # "ok" THEN stop(y, i)
      ELSE start_read_some(z, i)

handle_read(x, i, error, bytes) ==
  LET y == [x EXCEPT !.ses[i] =
             [x.ses[i] EXCEPT !.ops = @ \ {"read"}, !.reading = 0,
                              !.read_in_progress = FALSE,
                              !.bytes_read = add_value(@, bytes), !.filled = @ + bytes]]
      z == IF y.ses[i].write_in_progress THEN y ELSE start_write_some(y, i)
  IN  IF y.ses[i].stopped THEN y
      ELSE IF error # "ok" THEN stop(y, i)
      ELSE start_read_some(z, i)

\* Mutant of handle_write: it leaves it to the next read to go on reading.
handle_write_only(x, i, error, bytes) ==
  LET y == [x EXCEPT !.ses[i] =
             [x.ses[i] EXCEPT !.ops = @ \ {"write"}, !.writing = 0,
                              !.write_in_progress = FALSE,
                              !.bytes_written = add_value(@, bytes), !.filled = @ - bytes]]
  IN  IF y.ses[i].stopped THEN y
      ELSE IF error # "ok" THEN stop(y, i)
      ELSE start_write_some(y, i)

handle_write(x, i, error, bytes) ==
  LET y == [x EXCEPT !.ses[i] =
             [x.ses[i] EXCEPT !.ops = @ \ {"write"}, !.writing = 0,
                              !.write_in_progress = FALSE,
                              !.bytes_written = add_value(@, bytes), !.filled = @ - bytes]]
      z == IF y.ses[i].read_in_progress THEN y ELSE start_read_some(y, i)
  IN  IF y.ses[i].stopped THEN y
      ELSE IF error # "ok" THEN stop(y, i)
      ELSE start_write_some(z, i)

-----------------------------------------------------------------------------
(***************************************************************************)
(* The manager: queue holds what is posted to its strand, timer tells        *)
(* whether the wait for the next batch is outstanding; the sessions up to    *)
(* started_sessions_end have been started.                                   *)
(***************************************************************************)
ManagerStates ==
  [queue : Seq({"start", "stop", "scheduled"}), timer : BOOLEAN,
   timer_in_progess : BOOLEAN, stopped : BOOLEAN,
   started_sessions_end : 0 .. SessionCount]

session_manager ==
  [queue |-> <<>>, timer |-> FALSE, timer_in_progess |-> FALSE,
   stopped |-> FALSE, started_sessions_end |-> 0]

\* call is posted to the strands of the sessions in S.
PostAll(x, S, call) ==
  [x EXCEPT !.ses = [i \in Ids |->
     IF i \in S THEN [x.ses[i] EXCEPT !.queue = Append(@, call)] ELSE x.ses[i]]]

BatchEnd == Min({SessionCount, m.started_sessions_end + BatchSize})

schedule_session_start(y) ==
  IF config.batch_interval THEN [y EXCEPT !.timer = TRUE, !.timer_in_progess = TRUE]
  ELSE [y EXCEPT !.queue = Append(@, "scheduled")]

\* start_sessions, and the next batch is scheduled if there is one.
StartBatch(y) ==
  LET z == [y EXCEPT !.started_sessions_end = BatchEnd]
  IN  /\ c' = PostAll(c, (m.started_sessions_end + 1) .. BatchEnd, "start")
      /\ m' = IF BatchEnd < SessionCount THEN schedule_session_start(z) ELSE z

StopSessions(y) ==
  IF y.stopped THEN m' = y /\ UNCHANGED c
  ELSE /\ m' = [y EXCEPT !.stopped = TRUE]    \* cancel_timer: see TimerResults
       /\ c' = PostAll(c, 1 .. y.started_sessions_end, "stop")

\* Mutant of handle_scheduled_session_start: a stop in between is not noticed.
handle_scheduled_session_start_blind(y, error) ==
  IF error = "error" THEN StopSessions([y EXCEPT !.timer_in_progess = FALSE])
  ELSE StartBatch([y EXCEPT !.timer_in_progess = FALSE])

handle_scheduled_session_start(y, error) ==
  LET z == [y EXCEPT !.timer_in_progess = FALSE]
  IN  IF z.stopped THEN m' = z /\ UNCHANGED c
      ELSE IF error = "error" THEN StopSessions(z)
      ELSE StartBatch(z)

Popped(call) ==
  IF m.queue # <<>> /\ Head(m.queue) = call THEN {[m EXCEPT !.queue = Tail(@)]}
  ELSE {}

ManagerStart ==
  \E y \in Popped("start") :
    /\ IF y.stopped THEN m' = y /\ UNCHANGED c ELSE StartBatch(y)
    /\ UNCHANGED <<config, main, stats>>

ManagerStop ==
  \E y \in Popped("stop") : StopSessions(y) /\ UNCHANGED <<config, main, stats>>

NextBatchPosted ==
  \E y \in Popped("scheduled") :
    handle_scheduled_session_start(y, "ok") /\ UNCHANGED <<config, main, stats>>

\* The wait is aborted only by cancel_timer; one that has expired stays expired.
TimerResults == {"ok"} \cup (IF m.stopped THEN {"aborted"} ELSE {})
                       \cup (IF "timer" \in Faults THEN {"error"} ELSE {})

NextBatchTimer ==
  /\ m.timer
  /\ \E error \in TimerResults :
       handle_scheduled_session_start([m EXCEPT !.timer = FALSE], error)
  /\ UNCHANGED <<config, main, stats>>

-----------------------------------------------------------------------------
PoppedSession(i, call) ==
  LET q == c.ses[i].queue
  IN  IF q # <<>> /\ Head(q) = call THEN {[c EXCEPT !.ses[i].queue = Tail(q)]}
      ELSE {}

SessionStart(i) ==
  \E x \in PoppedSession(i, "start") :
    c' = do_start(x, i) /\ UNCHANGED <<config, m, main, stats>>

SessionStop(i) ==
  \E x \in PoppedSession(i, "stop") :
    c' = do_stop(x, i) /\ UNCHANGED <<config, m, main, stats>>

\* Whether the socket cannot be opened or bound, ConnectEx fails at once or the
\* connection is refused, aborted or established: the handler is called once,
\* later, with an error or without.
async_connect == {"ok", "error"}

HandleConnect(i) ==
  /\ "connect" \in c.ses[i].ops
  /\ \E error \in async_connect, f \in SUBSET (Faults \cap {"options"}) :
       c' = handle_connect([c EXCEPT !.ses[i].established = @ \/ error = "ok"],
                           i, error, f)
  /\ UNCHANGED <<config, m, main, stats>>

HandleRead(i) ==
  LET s == c.ses[i]
  IN  /\ "read" \in s.ops
      /\ \/ \E bytes \in 1 .. Min({s.reading, MaxBytes - s.rcvd}) :
              c' = handle_read([c EXCEPT !.ses[i].rcvd = @ + bytes], i, "ok", bytes)
         \/ c' = handle_read(c, i, "error", 0)   \* end of file included
      /\ UNCHANGED <<config, m, main, stats>>

HandleWrite(i) ==
  LET s == c.ses[i]
  IN  /\ "write" \in s.ops
      /\ \/ \E bytes \in 1 .. s.writing :
              c' = handle_write([c EXCEPT !.ses[i].sent = @ + bytes], i, "ok", bytes)
         \/ c' = handle_write(c, i, "error", 0)
      /\ UNCHANGED <<config, m, main, stats>>

-----------------------------------------------------------------------------
NoStats ==
  [connected |-> limited_int(0), written |-> limited_int(0), read |-> limited_int(0)]

\* main(): the sessions and the manager are made, the threads run.
Init ==
  /\ \E o \in [attempts : Attempts, interval : Intervals] :
       config = build_client_config(o)
  /\ c = [ses |-> [i \in Ids |-> session], outstanding |-> SessionCount]
  /\ m = session_manager
  /\ main = "start"
  /\ stats = NoStats

MainStart ==
  /\ main = "start"
  /\ main' = "wait"
  /\ m' = [m EXCEPT !.queue = Append(@, "start")]
  /\ UNCHANGED <<config, c, stats>>

\* work_state::wait returns when nothing is outstanding or the time is up.
MainStop ==
  /\ main = "wait"
  /\ main' = "join_manager"
  /\ m' = [m EXCEPT !.queue = Append(@, "stop")]
  /\ UNCHANGED <<config, c, stats>>

JoinManager ==
  /\ main = "join_manager"
  /\ m.queue = <<>> /\ ~m.timer
  /\ main' = "join_sessions"
  /\ UNCHANGED <<config, c, m, stats>>

stats_add(st, bytes_written, bytes_read) ==
  [connected |-> increment(st.connected), written |-> add(st.written, bytes_written),
   read |-> add(st.read, bytes_read)]

register_stats(st, s) ==
  IF s.was_connected THEN stats_add(st, s.bytes_written, s.bytes_read) ELSE st

\* The session threads end and the manager is destroyed.
JoinSessions ==
  /\ main = "join_sessions"
  /\ \A i \in Ids : c.ses[i].queue = <<>> /\ c.ses[i].ops = {}
  /\ main' = "done"
  /\ LET collected[n \in 0 .. m.started_sessions_end] ==
           IF n = 0 THEN stats ELSE register_stats(collected[n - 1], c.ses[n])
     IN  stats' = collected[m.started_sessions_end]
  /\ UNCHANGED <<config, c, m>>

Next ==
  \/ MainStart \/ MainStop \/ JoinManager \/ JoinSessions
  \/ ManagerStart \/ ManagerStop \/ NextBatchPosted \/ NextBatchTimer
  \/ \E i \in Ids :
       \/ SessionStart(i) \/ SessionStop(i)
       \/ HandleConnect(i) \/ HandleRead(i) \/ HandleWrite(i)

Spec == Init /\ [][Next]_vars

(***************************************************************************)
(* Fairness.  The threads run what is posted, a wait of main or of the timer *)
(* ends, and an operation on a closed socket is aborted.  A peer owes an     *)
(* open connection nothing, and may refuse every attempt to connect.         *)
(***************************************************************************)
Fairness ==
  /\ WF_vars(MainStart \/ MainStop \/ JoinManager \/ JoinSessions)
  /\ WF_vars(ManagerStart \/ ManagerStop \/ NextBatchPosted)
  /\ WF_vars(NextBatchTimer)
  /\ \A i \in Ids :
       /\ WF_vars(SessionStart(i) \/ SessionStop(i))
       /\ WF_vars(~c.ses[i].open /\ (HandleConnect(i) \/ HandleRead(i) \/ HandleWrite(i)))

LiveSpec == Spec /\ Fairness

-----------------------------------------------------------------------------
TypeOK ==
  /\ c \in [ses : [Ids -> SessionStates], outstanding : 0 .. SessionCount]
  /\ m \in ManagerStates

(***************************************************************************)
(* A session gives up its share of the outstanding work once, whichever of  *)
(* the peer, the last failed attempt and the manager's stop comes first:    *)
(* the count neither wraps around nor keeps main waiting.                   *)
(***************************************************************************)
OutstandingExact ==
  /\ TypeOK
  /\ c.outstanding = Cardinality({i \in Ids : ~c.ses[i].stopped})

(***************************************************************************)
(* A connected session never stalls: it writes whenever there is something  *)
(* to write and reads whenever there is room, though the two start each     *)
(* other; and what a transfer in flight was given is still there when it    *)
(* completes, so that neither consume nor commit throws.                    *)
(***************************************************************************)
NeverStalls ==
  \A i \in Ids : LET s == c.ses[i] IN
    /\ s.connected => /\ "write" \in s.ops <=> s.filled > 0
                      /\ "read" \in s.ops <=> s.filled < BufferSize
    /\ s.writing <= s.filled /\ s.reading <= BufferSize - s.filled

(***************************************************************************)
(* When main destroys the manager, the assertions of the destructors hold:  *)
(* whatever was in progress as the test ended, no session is connected or   *)
(* has an operation in progress, each started one has stopped, and the      *)
(* batch timer is not running.                                              *)
(***************************************************************************)
DestroyedQuiet ==
  main = "done" =>
    /\ ~m.timer_in_progess
    /\ \A i \in Ids : LET s == c.ses[i] IN
         /\ ~s.connected /\ ~s.read_in_progress /\ ~s.write_in_progress
         /\ s.started => s.stopped

\* The sum of what all sessions have of value.
SumOf(value) ==
  LET sum[n \in 0 .. SessionCount] ==
        IF n = 0 THEN 0 ELSE sum[n - 1] + value[n]
  IN  sum[SessionCount]

(***************************************************************************)
(* The statistics printed at the end leave nothing out: they count every    *)
(* connection that was established and every byte that was transferred,     *)
(* those of sessions stopped meanwhile included, up to the limit of the     *)
(* counters and with the mark of an overflow beyond it.                     *)
(***************************************************************************)
StatsComplete ==
  /\ stats \in [connected : Limited, written : Limited, read : Limited]
  /\ main = "done" =>
       /\ Exact(stats.connected, Cardinality({i \in Ids : c.ses[i].established}))
       /\ Exact(stats.written, SumOf([i \in Ids |-> c.ses[i].sent]))
       /\ Exact(stats.read, SumOf([i \in Ids |-> c.ses[i].rcvd]))

(***************************************************************************)
(* The program ends, though a peer may never answer, never close and never  *)
(* let a session connect, and with no limit on the attempts.                *)
(***************************************************************************)
Terminates == <>(main = "done")

=============================================================================

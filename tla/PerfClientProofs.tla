-------------------------- MODULE PerfClientProofs --------------------------
(***************************************************************************)
(* Proofs about module PerfClient, for every number of sessions, batch and  *)
(* buffer size, limit of attempts and number of endpoints: the count of     *)
(* outstanding work is exact, a connected session never stalls, nothing is  *)
(* left in progress when the manager is destroyed and the statistics are    *)
(* complete.  First the counters of module LimitedInt, for every width of   *)
(* the integer.                                                             *)
(***************************************************************************)
EXTENDS PerfClient, FiniteSetTheorems, WellFoundedInduction, TLAPS

-----------------------------------------------------------------------------
(***************************************************************************)
(* The counters the statistics are kept in.                                 *)
(***************************************************************************)

\* Counting one up, below, at and beyond the greatest value.
LEMMA IncrementExact ==
  ASSUME NEW x \in Limited, NEW n \in Nat, Exact(x, n)
  PROVE  increment(x) \in Limited /\ Exact(increment(x), n + 1)
<1>1. CASE x.overflowed
  BY <1>1, LimitedAssumption DEF Limited, Exact, increment
<1>2. CASE ~x.overflowed /\ x.value = Greatest
  <2>1. increment(x) = [value |-> Greatest, overflowed |-> TRUE]
    BY <1>2 DEF Limited, increment
  <2>2. n = Greatest
    BY <1>2, LimitedAssumption DEF Exact
  <2> QED
    BY <2>1, <2>2, LimitedAssumption DEF Limited, Exact
<1>3. CASE ~x.overflowed /\ x.value # Greatest
  <2>1. increment(x) = [value |-> x.value + 1, overflowed |-> FALSE]
    BY <1>3 DEF Limited, increment
  <2>2. n = x.value /\ n < Greatest
    BY <1>3, LimitedAssumption DEF Exact
  <2> QED
    BY <2>1, <2>2, LimitedAssumption DEF Limited, Exact
<1> QED
  BY <1>1, <1>2, <1>3

\* Adding a plain value.
LEMMA AddValueExact ==
  ASSUME NEW x \in Limited, NEW n \in Nat, Exact(x, n), NEW k \in Nat
  PROVE  add_value(x, k) \in Limited /\ Exact(add_value(x, k), n + k)
  BY LimitedAssumption DEF Limited, Exact, add_value, Overflow

\* Adding another counter, overflowed or not.
LEMMA AddExact ==
  ASSUME NEW x \in Limited, NEW n \in Nat, Exact(x, n),
         NEW y \in Limited, NEW k \in Nat, Exact(y, k)
  PROVE  add(x, y) \in Limited /\ Exact(add(x, y), n + k)
  BY LimitedAssumption DEF Limited, Exact, add, Overflow

\* Every operation of the class keeps a counter truthful, for every width of the
\* integer: what is made from a value, counted up, added to or summed from
\* truthful counters is a truthful counter of the exact result.
THEOREM LimitedCorrect ==
  ASSUME NEW x \in Limited, NEW n \in Nat, Exact(x, n),
         NEW y \in Limited, NEW k \in Nat, Exact(y, k),
         NEW v \in 0 .. Greatest
  PROVE  /\ limited_int(v) \in Limited /\ Exact(limited_int(v), v)
         /\ increment(x) \in Limited /\ Exact(increment(x), n + 1)
         /\ add_value(x, v) \in Limited /\ Exact(add_value(x, v), n + v)
         /\ add(x, y) \in Limited /\ Exact(add(x, y), n + k)
<1>1. limited_int(v) \in Limited /\ Exact(limited_int(v), v)
  BY LimitedAssumption DEF limited_int, Limited, Exact
<1>2. v \in Nat
  BY LimitedAssumption
<1> QED
  BY <1>1, <1>2, IncrementExact, AddValueExact, AddExact

-----------------------------------------------------------------------------
(***************************************************************************)
(* The sessions and their manager.                                          *)
(***************************************************************************)

Clients == [ses : [Ids -> SessionStates], outstanding : Int]

(***************************************************************************)
(* The inductive invariant, of a session s.                                 *)
(***************************************************************************)
StartQueued(s) == s.queue \in {<<"start">>, <<"start", "stop">>}

Fresh(s) == s.ops = {} /\ ~s.started /\ ~s.stopped /\ ~s.connected

Writes(s) == "write" \in s.ops <=> s.filled > 0
Reads(s)  == "read" \in s.ops <=> s.filled < BufferSize

\* A session is started once, the flags tell which operations are in progress,
\* what they were given is still there, and nothing else runs while it connects.
Base(s) ==
  /\ s \in SessionStates
  /\ s.queue \in {<<>>, <<"start">>, <<"stop">>, <<"start", "stop">>}
  /\ StartQueued(s) => Fresh(s)
  /\ s.writing <= s.filled /\ s.reading <= BufferSize - s.filled
  /\ "write" \in s.ops <=> s.write_in_progress
  /\ "read" \in s.ops <=> s.read_in_progress
  /\ "connect" \in s.ops => s.ops = {"connect"} /\ ~s.connected

\* A started session is connected or connecting until it stops.
SesSound(s) ==
  /\ Base(s)
  /\ s.connected => ~s.stopped /\ Writes(s) /\ Reads(s)
  /\ s.started /\ ~s.stopped => s.connected \/ "connect" \in s.ops

Quiet(s) == s.queue = <<>> /\ s.ops = {}

(***************************************************************************)
(* The inductive invariant.                                                 *)
(***************************************************************************)
Running(x) == {i \in Ids : ~x.ses[i].stopped}

SessionsSound(x) ==
  /\ x \in Clients /\ x.outstanding = Cardinality(Running(x))
  /\ \A i \in Ids : SesSound(x.ses[i])

\* What the manager has posted to the sessions.
Posted(x, y) ==
  /\ \A i \in Ids : i > y.started_sessions_end =>
       x.ses[i].queue = <<>> /\ Fresh(x.ses[i])
  /\ ~y.stopped => \A i \in Ids : x.ses[i].queue \in {<<>>, <<"start">>}

\* The next batch waits in the queue or for the timer, never both.
BatchSound(y) ==
  /\ y.timer <=> y.timer_in_progess
  /\ y.timer => config.batch_interval
  /\ config.batch_interval => y.queue \in Seq({"start", "stop"})

PInv ==
  /\ config \in [max_connect_attempts : Nat, batch_interval : BOOLEAN]
  /\ m \in ManagerStates
  /\ main \in {"start", "wait", "join_manager", "join_sessions", "done"}
  /\ SessionsSound(c) /\ Posted(c, m) /\ BatchSound(m)
  /\ main \in {"join_sessions", "done"} => m.queue = <<>> /\ ~m.timer
  /\ main = "done" => \A i \in Ids : Quiet(c.ses[i])

-----------------------------------------------------------------------------
(***************************************************************************)
(* A step of one session.                                                   *)
(***************************************************************************)
\* Session i alone changes, and gives up its share of the work when it stops.
Step(x, y, i) ==
  /\ x \in Clients /\ y \in Clients
  /\ \A j \in Ids : j # i => y.ses[j] = x.ses[j]
  /\ \/ (y.ses[i].stopped <=> x.ses[i].stopped) /\ y.outstanding = x.outstanding
     \/ /\ ~x.ses[i].stopped /\ y.ses[i].stopped
        /\ y.outstanding = x.outstanding - 1

\* Steps of a session follow each other.
LEMMA StepTrans ==
  ASSUME NEW x, NEW y, NEW z, NEW i \in Ids, Step(x, y, i), Step(y, z, i),
         x.ses[i].stopped <=> y.ses[i].stopped
  PROVE  Step(x, z, i)
  BY DEF Step

\* Session i gets a new state.
LEMMA Update ==
  ASSUME NEW x \in Clients, NEW i \in Ids, NEW s \in SessionStates
  PROVE  LET y == [x EXCEPT !.ses[i] = s]
         IN  /\ y \in Clients /\ y.outstanding = x.outstanding /\ y.ses[i] = s
             /\ \A j \in Ids : j # i => y.ses[j] = x.ses[j]
             /\ (s.stopped <=> x.ses[i].stopped) => Step(x, y, i)
  <1> DEFINE y == [x EXCEPT !.ses[i] = s]
  <1>1. /\ y \in Clients /\ y.outstanding = x.outstanding
        /\ y.ses[i] = s /\ \A j \in Ids : j # i => y.ses[j] = x.ses[j]
    BY DEF Clients
  <1> HIDE DEF y
  <1>2. (s.stopped <=> x.ses[i].stopped) => Step(x, y, i)
    BY <1>1 DEF Step
  <1> QED
    BY <1>1, <1>2 DEF y

\* The step of a session keeps the count of those that have not stopped.
LEMMA CountStep ==
  ASSUME NEW x, NEW y, NEW i \in Ids, Step(x, y, i),
         x.outstanding = Cardinality(Running(x))
  PROVE  y.outstanding = Cardinality(Running(y))
  <1>1. IsFiniteSet(Running(x))
    <2>1. IsFiniteSet(Ids)
      BY PerfAssumption, FS_Interval DEF Ids
    <2>2. Running(x) \subseteq Ids
      BY DEF Running
    <2> QED
      BY <2>1, <2>2, FS_Subset
  <1>2. CASE (y.ses[i].stopped <=> x.ses[i].stopped) /\ y.outstanding = x.outstanding
    <2>1. Running(y) = Running(x)
      BY <1>2 DEF Running, Step
    <2> QED
      BY <1>2, <2>1
  <1>3. CASE /\ ~x.ses[i].stopped /\ y.ses[i].stopped
             /\ y.outstanding = x.outstanding - 1
    <2>1. Running(y) = Running(x) \ {i} /\ i \in Running(x)
      BY <1>3 DEF Running, Step
    <2>2. Cardinality(Running(y)) = Cardinality(Running(x)) - 1
      BY <1>1, <2>1, FS_RemoveElement
    <2> QED
      BY <1>3, <2>2
  <1> QED
    BY <1>2, <1>3 DEF Step

\* The invariant after a step of a session.
LEMMA StepSound ==
  ASSUME NEW x, NEW y, NEW i \in Ids, SessionsSound(x), Step(x, y, i),
         SesSound(y.ses[i])
  PROVE  SessionsSound(y)
  <1>1. y.outstanding = Cardinality(Running(y))
    BY CountStep DEF SessionsSound
  <1> QED
    BY <1>1 DEF SessionsSound, Step

-----------------------------------------------------------------------------
(***************************************************************************)
(* The operations of a session.                                             *)
(***************************************************************************)
\* What the invariant sees of a session, but for its operations.
Alike(t, s) ==
  /\ t.queue = s.queue /\ t.filled = s.filled
  /\ t.connected = s.connected /\ t.started = s.started /\ t.stopped = s.stopped

\* The numbers of a session.
LEMMA Numbers ==
  ASSUME NEW s \in SessionStates
  PROVE  /\ BufferSize \in Nat /\ BufferSize > 0
         /\ s.filled \in Nat /\ s.filled <= BufferSize
         /\ s.writing \in Nat /\ s.writing <= BufferSize
         /\ s.reading \in Nat /\ s.reading <= BufferSize
  <1>1. /\ s.filled \in 0 .. BufferSize /\ s.writing \in 0 .. BufferSize
        /\ s.reading \in 0 .. BufferSize
    BY DEF SessionStates
  <1> QED
    BY <1>1, PerfAssumption

\* close_socket changes what the invariant does not look at.
LEMMA CloseStep ==
  ASSUME NEW x \in Clients, NEW i \in Ids
  PROVE  LET y == close_socket(x, i)
         IN  /\ Step(x, y, i) /\ Alike(y.ses[i], x.ses[i])
             /\ y.ses[i].ops = x.ses[i].ops
             /\ y.ses[i].attempt = x.ses[i].attempt
             /\ Base(x.ses[i]) => Base(y.ses[i])
  <1> DEFINE s == x.ses[i]
             t == [s EXCEPT !.open = FALSE]
             y == close_socket(x, i)
  <1>1. s \in SessionStates
    BY DEF Clients
  <1>2. y = [x EXCEPT !.ses[i] = t]
    BY Zenon DEF close_socket
  <1>3. /\ t \in SessionStates /\ Alike(t, s) /\ t.ops = s.ops
        /\ t.attempt = s.attempt /\ t.reading = s.reading /\ t.writing = s.writing
        /\ t.write_in_progress = s.write_in_progress
        /\ t.read_in_progress = s.read_in_progress
    BY <1>1 DEF SessionStates, Alike
  <1> HIDE DEF t
  <1>4. Base(s) => Base(t)
    BY <1>3 DEF Base, Alike, Fresh, StartQueued
  <1>5. t.stopped = s.stopped
    BY <1>3 DEF Alike
  <1>6. y.ses[i] = t /\ Step(x, y, i)
    BY <1>2, <1>3, <1>5, Update
  <1> HIDE DEF y
  <1> QED
    BY <1>3, <1>4, <1>6 DEF y

\* stop is reached once by a session, which then gives up its share.
LEMMA StopStep ==
  ASSUME NEW x \in Clients, NEW i \in Ids, Base(x.ses[i]), ~x.ses[i].stopped,
         ~StartQueued(x.ses[i])
  PROVE  LET y == stop(x, i)
         IN  /\ Step(x, y, i) /\ SesSound(y.ses[i])
             /\ y.ses[i].queue = x.ses[i].queue
  <1> DEFINE z == close_socket(x, i)
             s == z.ses[i]
             t1 == [s EXCEPT !.connected = FALSE]
             t == [t1 EXCEPT !.stopped = TRUE]
             u == [z EXCEPT !.ses[i] = t]
             y == stop(x, i)
  <1>1. /\ Step(x, z, i) /\ Alike(s, x.ses[i]) /\ Base(s) /\ z \in Clients
    BY CloseStep DEF Step
  <1> HIDE DEF z
  <1>2. s \in SessionStates
    BY <1>1 DEF Clients
  <1>3. y = [u EXCEPT !.outstanding = @ - 1]
    <2>1. u = [z EXCEPT !.ses[i].connected = FALSE, !.ses[i].stopped = TRUE]
      BY <1>1 DEF Clients
    <2> HIDE DEF u
    <2> QED
      BY <2>1, Zenon DEF stop, dec_outstanding, z
  <1>4. /\ t \in SessionStates /\ t.connected = FALSE /\ t.stopped = TRUE
        /\ t.queue = s.queue /\ t.ops = s.ops /\ t.filled = s.filled
        /\ t.reading = s.reading /\ t.writing = s.writing /\ t.started = s.started
        /\ t.write_in_progress = s.write_in_progress
        /\ t.read_in_progress = s.read_in_progress
    BY <1>2 DEF SessionStates
  <1> HIDE DEF t
  <1>5. /\ u \in Clients /\ u.outstanding = z.outstanding /\ u.ses[i] = t
        /\ \A j \in Ids : j # i => u.ses[j] = z.ses[j]
    BY <1>1, <1>4, Update
  <1> HIDE DEF u
  <1>6. /\ y \in Clients /\ y.outstanding = z.outstanding - 1 /\ y.ses = u.ses
    BY <1>1, <1>3, <1>5 DEF Clients
  <1> HIDE DEF y
  <1>7. y.ses[i] = t /\ \A j \in Ids : j # i => y.ses[j] = x.ses[j]
    BY <1>1, <1>5, <1>6 DEF Step
  <1>8. z.outstanding = x.outstanding
    BY <1>1 DEF Step, Alike
  <1>9. Step(x, y, i)
    BY <1>4, <1>6, <1>7, <1>8 DEF Step
  <1>10. SesSound(t) /\ t.queue = x.ses[i].queue
    BY <1>1, <1>4 DEF SesSound, Base, Alike, StartQueued
  <1> QED
    BY <1>7, <1>9, <1>10 DEF y

\* A started session that does nothing else begins to connect.
LEMMA ConnectStep ==
  ASSUME NEW x \in Clients, NEW i \in Ids, NEW attempt \in Nat,
         NEW endpoint \in 1 .. Endpoints, Base(x.ses[i]), ~StartQueued(x.ses[i]),
         x.ses[i].ops = {}, ~x.ses[i].connected
  PROVE  LET y == start_connect(x, i, attempt, endpoint)
         IN  /\ Step(x, y, i) /\ SesSound(y.ses[i])
             /\ y.ses[i].queue = x.ses[i].queue
  <1> DEFINE s == x.ses[i]
             t1 == [s EXCEPT !.ops = @ \cup {"connect"}]
             t2 == [t1 EXCEPT !.open = TRUE]
             t3 == [t2 EXCEPT !.attempt = attempt]
             t == [t3 EXCEPT !.endpoint = endpoint]
             y == start_connect(x, i, attempt, endpoint)
  <1>1. s \in SessionStates
    BY DEF Clients
  <1>2. y = [x EXCEPT !.ses[i] = t]
    BY ZenonT(40) DEF start_connect, Clients
  <1>3. /\ t1 \in SessionStates /\ t1.ops = {"connect"} /\ Alike(t1, s)
        /\ t1.reading = s.reading /\ t1.writing = s.writing
        /\ t1.write_in_progress = s.write_in_progress
        /\ t1.read_in_progress = s.read_in_progress
    BY <1>1 DEF SessionStates, Alike
  <1> HIDE DEF t1
  <1>4. /\ t \in SessionStates /\ t.ops = t1.ops /\ Alike(t, t1)
        /\ t.reading = t1.reading /\ t.writing = t1.writing
        /\ t.write_in_progress = t1.write_in_progress
        /\ t.read_in_progress = t1.read_in_progress
    BY <1>3 DEF SessionStates, Alike
  <1> HIDE DEF t
  <1>5. t.stopped = s.stopped
    BY <1>3, <1>4 DEF Alike
  <1>6. SesSound(t) /\ t.queue = s.queue
    BY <1>3, <1>4 DEF SesSound, Base, Alike, StartQueued
  <1> HIDE DEF y
  <1>7. y.ses[i] = t /\ Step(x, y, i)
    BY <1>2, <1>4, <1>5, Update
  <1> QED
    BY <1>6, <1>7 DEF y

\* A write is begun if there is something to write.
LEMMA WriteStep ==
  ASSUME NEW x \in Clients, NEW i \in Ids, Base(x.ses[i]),
         "write" \notin x.ses[i].ops, "connect" \notin x.ses[i].ops,
         ~StartQueued(x.ses[i])
  PROVE  LET y == start_write_some(x, i)
         IN  /\ Step(x, y, i) /\ Base(y.ses[i]) /\ Alike(y.ses[i], x.ses[i])
             /\ Writes(y.ses[i])
             /\ "read" \in y.ses[i].ops <=> "read" \in x.ses[i].ops
             /\ "connect" \notin y.ses[i].ops
  <1> DEFINE s == x.ses[i]
             t1 == [s EXCEPT !.ops = @ \cup {"write"}]
             t2 == [t1 EXCEPT !.writing = s.filled]
             t == [t2 EXCEPT !.write_in_progress = TRUE]
             y == start_write_some(x, i)
  <1>1. s \in SessionStates
    BY DEF Clients
  <1>2. \/ s.filled = 0 /\ y = x
        \/ s.filled # 0 /\ y = [x EXCEPT !.ses[i] = t]
    <2>1. [x EXCEPT !.ses[i] = t]
          = [x EXCEPT !.ses[i].ops = @ \cup {"write"}, !.ses[i].writing = x.ses[i].filled,
                      !.ses[i].write_in_progress = TRUE]
      BY DEF Clients
    <2> HIDE DEF t
    <2> QED
      BY <2>1, Zenon DEF start_write_some
  <1>3. CASE s.filled = 0 /\ y = x
    BY SMTT(30), <1>1, <1>3 DEF Step, Alike, Writes, SessionStates
  <1>4. CASE s.filled # 0 /\ y = [x EXCEPT !.ses[i] = t]
    <2>1. /\ t1 \in SessionStates /\ t1.ops = s.ops \cup {"write"} /\ Alike(t1, s)
          /\ t1.reading = s.reading /\ t1.writing = s.writing
          /\ t1.write_in_progress = s.write_in_progress
          /\ t1.read_in_progress = s.read_in_progress
      BY <1>1 DEF SessionStates, Alike
    <2> HIDE DEF t1
    <2>2. /\ t \in SessionStates /\ t.ops = t1.ops /\ Alike(t, t1)
          /\ t.reading = t1.reading /\ t.writing = s.filled
          /\ t.write_in_progress = TRUE
          /\ t.read_in_progress = t1.read_in_progress
      BY <1>1, <2>1 DEF SessionStates, Alike
    <2> HIDE DEF t
    <2>3. Alike(t, s)
      BY <2>1, <2>2 DEF Alike
    <2>4. s.filled > 0
      BY SMTT(30), <1>1, <1>4 DEF SessionStates
    <2>5. Base(t) /\ Writes(t)
      BY <1>1, <2>1, <2>2, <2>3, <2>4, Numbers DEF Base, Writes, Alike, StartQueued
    <2>6. y.ses[i] = t /\ Step(x, y, i)
      BY <1>4, <2>2, <2>3, Update DEF Alike
    <2> HIDE DEF y
    <2> QED
      BY <2>1, <2>2, <2>3, <2>5, <2>6 DEF y
  <1> QED
    BY <1>2, <1>3, <1>4

\* A read is begun if there is room.
LEMMA ReadStep ==
  ASSUME NEW x \in Clients, NEW i \in Ids, Base(x.ses[i]),
         "read" \notin x.ses[i].ops, "connect" \notin x.ses[i].ops,
         ~StartQueued(x.ses[i])
  PROVE  LET y == start_read_some(x, i)
         IN  /\ Step(x, y, i) /\ Base(y.ses[i]) /\ Alike(y.ses[i], x.ses[i])
             /\ Reads(y.ses[i])
             /\ "write" \in y.ses[i].ops <=> "write" \in x.ses[i].ops
             /\ "connect" \notin y.ses[i].ops
  <1> DEFINE s == x.ses[i]
             room == BufferSize - s.filled
             t1 == [s EXCEPT !.ops = @ \cup {"read"}]
             t2 == [t1 EXCEPT !.reading = room]
             t == [t2 EXCEPT !.read_in_progress = TRUE]
             y == start_read_some(x, i)
  <1>1. s \in SessionStates
    BY DEF Clients
  <1>2. \/ s.filled = BufferSize /\ y = x
        \/ s.filled # BufferSize /\ y = [x EXCEPT !.ses[i] = t]
    <2>1. [x EXCEPT !.ses[i] = t]
          = [x EXCEPT !.ses[i].ops = @ \cup {"read"}, !.ses[i].reading = room,
                      !.ses[i].read_in_progress = TRUE]
      <3> HIDE DEF room
      <3> QED
        BY DEF Clients
    <2> HIDE DEF t
    <2> QED
      BY <2>1, Zenon DEF start_read_some
  <1>3. CASE s.filled = BufferSize /\ y = x
    BY <1>1, <1>3, Numbers DEF Step, Alike, Reads
  <1>4. CASE s.filled # BufferSize /\ y = [x EXCEPT !.ses[i] = t]
    <2>1. /\ t1 \in SessionStates /\ t1.ops = s.ops \cup {"read"} /\ Alike(t1, s)
          /\ t1.reading = s.reading /\ t1.writing = s.writing
          /\ t1.write_in_progress = s.write_in_progress
          /\ t1.read_in_progress = s.read_in_progress
      BY <1>1 DEF SessionStates, Alike
    <2> HIDE DEF t1
    <2>2. s.filled < BufferSize /\ room \in 0 .. BufferSize /\ room <= BufferSize - s.filled
      BY <1>1, <1>4, Numbers
    <2> HIDE DEF room
    <2>3. /\ t \in SessionStates /\ t.ops = t1.ops /\ Alike(t, t1)
          /\ t.reading = room /\ t.writing = t1.writing
          /\ t.write_in_progress = t1.write_in_progress
          /\ t.read_in_progress = TRUE
      BY <1>1, <2>1, <2>2 DEF SessionStates, Alike
    <2> HIDE DEF t
    <2>4. Alike(t, s)
      BY <2>1, <2>3 DEF Alike
    <2>5. Base(t) /\ Reads(t)
      BY <1>1, <2>1, <2>2, <2>3, <2>4 DEF Base, Reads, Alike, StartQueued
    <2>6. y.ses[i] = t /\ Step(x, y, i)
      BY <1>4, <2>3, <2>4, Update DEF Alike
    <2> HIDE DEF y
    <2> QED
      BY <2>1, <2>3, <2>4, <2>5, <2>6 DEF y
  <1> QED
    BY <1>2, <1>3, <1>4

-----------------------------------------------------------------------------
(***************************************************************************)
(* The handlers of a session.                                               *)
(***************************************************************************)
\* A change of what the invariant does not look at.
Same(t, s) ==
  /\ Alike(t, s) /\ t.ops = s.ops /\ t.reading = s.reading /\ t.writing = s.writing
  /\ t.write_in_progress = s.write_in_progress
  /\ t.read_in_progress = s.read_in_progress

\* Such a change keeps the invariant of the session.
LEMMA SameSound ==
  ASSUME NEW s, NEW t \in SessionStates, SesSound(s), Same(t, s)
  PROVE  SesSound(t)
  BY DEF SesSound, Base, Same, Alike, Fresh, StartQueued, Writes, Reads

\* The counters that the statistics are compared with.
LEMMA GhostStep ==
  ASSUME NEW x \in Clients, NEW i \in Ids, SesSound(x.ses[i]), NEW n \in Nat,
         NEW b \in BOOLEAN
  PROVE  \A y \in {[x EXCEPT !.ses[i].rcvd = n], [x EXCEPT !.ses[i].sent = n],
                   [x EXCEPT !.ses[i].established = b]} :
           Step(x, y, i) /\ SesSound(y.ses[i]) /\ Same(y.ses[i], x.ses[i])
  <1> DEFINE s == x.ses[i]
             t1 == [s EXCEPT !.rcvd = n]
             t2 == [s EXCEPT !.sent = n]
             t3 == [s EXCEPT !.established = b]
  <1>1. s \in SessionStates
    BY DEF Clients
  <1>2. /\ [x EXCEPT !.ses[i].rcvd = n] = [x EXCEPT !.ses[i] = t1]
        /\ [x EXCEPT !.ses[i].sent = n] = [x EXCEPT !.ses[i] = t2]
        /\ [x EXCEPT !.ses[i].established = b] = [x EXCEPT !.ses[i] = t3]
    BY Zenon
  <1>3. t1 \in SessionStates /\ Same(t1, s)
    BY <1>1 DEF SessionStates, Same, Alike
  <1>4. t2 \in SessionStates /\ Same(t2, s)
    BY <1>1 DEF SessionStates, Same, Alike
  <1>5. t3 \in SessionStates /\ Same(t3, s)
    BY <1>1 DEF SessionStates, Same, Alike
  <1> HIDE DEF t1, t2, t3
  <1>6. ASSUME NEW t \in SessionStates, Same(t, s)
        PROVE  LET y == [x EXCEPT !.ses[i] = t]
               IN  Step(x, y, i) /\ SesSound(y.ses[i]) /\ Same(y.ses[i], x.ses[i])
    <2> DEFINE y == [x EXCEPT !.ses[i] = t]
    <2>1. t.stopped = s.stopped
      BY <1>6 DEF Same, Alike
    <2>2. Step(x, y, i) /\ y.ses[i] = t
      BY <1>6, <2>1, Update
    <2>3. SesSound(t)
      BY <1>6, SameSound
    <2> QED
      BY <1>6, <2>2, <2>3
  <1> QED
    BY <1>2, <1>3, <1>4, <1>5, <1>6

\* What is left of a queue after its first call.
LEMMA QueueTail ==
  ASSUME NEW q \in {<<"start">>, <<"stop">>, <<"start", "stop">>}
  PROVE  /\ Tail(q) \in {<<>>, <<"stop">>}
         /\ Tail(q) \notin {<<"start">>, <<"start", "stop">>}
         /\ Tail(q) \in Seq({"start", "stop"})
         /\ Head(q) = "start" => q \in {<<"start">>, <<"start", "stop">>}
         /\ q = <<"start">> => Tail(q) = <<>>
  <1>1. CASE q = <<"start">>
    <2>1. Tail(q) = <<>> /\ Head(q) = "start"
      BY <1>1
    <2> QED
      BY <1>1, <2>1
  <1>2. CASE q = <<"stop">>
    <2>1. Tail(q) = <<>> /\ Head(q) = "stop"
      BY <1>2
    <2>2. q # <<"start">>
      BY <1>2
    <2> QED
      BY <1>2, <2>1, <2>2
  <1>3. CASE q = <<"start", "stop">>
    <2>1. Tail(q) = <<"stop">> /\ Head(q) = "start"
      BY <1>3
    <2>2. q # <<"start">>
      BY <1>3
    <2> QED
      BY <1>3, <2>1, <2>2
  <1> QED
    BY <1>1, <1>2, <1>3

\* A session runs the call that is first in its queue.
LEMMA PopStep ==
  ASSUME NEW x \in Clients, NEW i \in Ids, SesSound(x.ses[i]),
         x.ses[i].queue # <<>>
  PROVE  LET y == [x EXCEPT !.ses[i].queue = Tail(x.ses[i].queue)]
             s == x.ses[i]
             t == y.ses[i]
         IN  /\ Step(x, y, i) /\ SesSound(t) /\ t.ops = s.ops
             /\ t.connected = s.connected /\ t.started = s.started
             /\ t.stopped = s.stopped
             /\ ~StartQueued(t)
             /\ t.queue = Tail(s.queue)
             /\ Head(s.queue) = "start" => Fresh(s)
             /\ s.queue \in {<<>>, <<"start">>} => t.queue = <<>>
  <1> DEFINE s == x.ses[i]
             rest == Tail(s.queue)
             t == [s EXCEPT !.queue = rest]
             y == [x EXCEPT !.ses[i].queue = rest]
  <1>1. s \in SessionStates
    BY DEF Clients
  <1>2. s.queue \in {<<"start">>, <<"stop">>, <<"start", "stop">>}
    BY DEF SesSound, Base
  <1>3. /\ rest \in {<<>>, <<"stop">>} /\ rest \in Seq({"start", "stop"})
        /\ rest \notin {<<"start">>, <<"start", "stop">>}
        /\ s.queue \in {<<>>, <<"start">>} => rest = <<>>
        /\ Head(s.queue) = "start" => StartQueued(s)
    <2> HIDE DEF s
    <2> QED
      BY <1>2, QueueTail, Zenon DEF StartQueued, s
  <1>4. y = [x EXCEPT !.ses[i] = t]
    BY Zenon
  <1> HIDE DEF rest
  <1>5. /\ t \in SessionStates /\ t.ops = s.ops /\ t.filled = s.filled
        /\ t.connected = s.connected /\ t.started = s.started
        /\ t.stopped = s.stopped /\ t.queue = rest
        /\ t.reading = s.reading /\ t.writing = s.writing
        /\ t.write_in_progress = s.write_in_progress
        /\ t.read_in_progress = s.read_in_progress
    BY <1>1, <1>3 DEF SessionStates
  <1> HIDE DEF t, y
  <1>6. y.ses[i] = t /\ Step(x, y, i)
    BY <1>4, <1>5, Update
  <1>7. ~StartQueued(t)
    BY <1>3, <1>5 DEF StartQueued
  <1>8. SesSound(t)
    BY <1>3, <1>5, <1>7 DEF SesSound, Base, Writes, Reads
  <1>9. Head(s.queue) = "start" => Fresh(s)
    BY <1>3 DEF SesSound, Base
  <1>10. /\ Step(x, y, i) /\ SesSound(y.ses[i]) /\ y.ses[i].ops = s.ops
         /\ y.ses[i].connected = s.connected /\ y.ses[i].started = s.started
         /\ y.ses[i].stopped = s.stopped /\ ~StartQueued(y.ses[i])
         /\ y.ses[i].queue = rest
    BY <1>5, <1>6, <1>7, <1>8
  <1> QED
    BY <1>3, <1>9, <1>10 DEF y, rest

\* do_start: the session was fresh, so it begins to connect.
LEMMA DoStartStep ==
  ASSUME NEW x \in Clients, NEW i \in Ids, SesSound(x.ses[i]),
         Fresh(x.ses[i]), ~StartQueued(x.ses[i])
  PROVE  LET y == do_start(x, i)
         IN  /\ Step(x, y, i) /\ SesSound(y.ses[i])
             /\ y.ses[i].queue = x.ses[i].queue
  <1> DEFINE s == x.ses[i]
             t == [s EXCEPT !.started = TRUE]
             z == [x EXCEPT !.ses[i] = t]
             y == do_start(x, i)
  <1>1. s \in SessionStates /\ ~s.stopped /\ s.ops = {} /\ ~s.connected
    BY DEF Clients, Fresh
  <1>2. y = start_connect(z, i, 0, 1)
    <2>1. z = [x EXCEPT !.ses[i].started = TRUE]
      BY Zenon
    <2> HIDE DEF z
    <2> QED
      BY <1>1, <2>1, Zenon DEF do_start
  <1>3. /\ t \in SessionStates /\ t.ops = s.ops /\ t.filled = s.filled
        /\ t.connected = s.connected
        /\ t.stopped = s.stopped /\ t.queue = s.queue
        /\ t.reading = s.reading /\ t.writing = s.writing
        /\ t.write_in_progress = s.write_in_progress
        /\ t.read_in_progress = s.read_in_progress
    BY <1>1 DEF SessionStates
  <1> HIDE DEF t
  <1>4. z.ses[i] = t /\ Step(x, z, i) /\ z \in Clients
    BY <1>3, Update
  <1> HIDE DEF z
  <1>5. Base(t) /\ ~StartQueued(t)
    BY <1>3 DEF SesSound, Base, StartQueued
  <1>6. 0 \in Nat /\ 1 \in 1 .. Endpoints
    BY PerfAssumption
  <1>7. /\ Step(z, y, i) /\ SesSound(y.ses[i])
        /\ y.ses[i].queue = z.ses[i].queue
    BY <1>1, <1>2, <1>3, <1>4, <1>5, <1>6, ConnectStep
  <1> HIDE DEF y
  <1>8. Step(x, y, i)
    BY <1>3, <1>4, <1>7, StepTrans
  <1> QED
    BY <1>3, <1>4, <1>7, <1>8 DEF y

\* do_stop: a session that has stopped is left alone.
LEMMA DoStopStep ==
  ASSUME NEW x \in Clients, NEW i \in Ids, SesSound(x.ses[i]),
         ~StartQueued(x.ses[i])
  PROVE  LET y == do_stop(x, i)
         IN  /\ Step(x, y, i) /\ SesSound(y.ses[i])
             /\ y.ses[i].queue = x.ses[i].queue
  <1>1. CASE x.ses[i].stopped
    <2>1. do_stop(x, i) = x
      BY <1>1, Zenon DEF do_stop
    <2> QED
      BY <2>1 DEF Step
  <1>2. CASE ~x.ses[i].stopped
    <2>1. do_stop(x, i) = stop(x, i)
      BY <1>2, Zenon DEF do_stop
    <2> QED
      BY <1>2, <2>1, StopStep DEF SesSound
  <1> QED
    BY <1>1, <1>2

\* A failed attempt: the next endpoint, the next attempt, or the end.
LEMMA ReconnectStep ==
  ASSUME NEW x \in Clients, NEW i \in Ids, Base(x.ses[i]), ~StartQueued(x.ses[i]),
         x.ses[i].ops = {}, ~x.ses[i].connected, ~x.ses[i].stopped,
         config \in [max_connect_attempts : Nat, batch_interval : BOOLEAN]
  PROVE  LET y == Reconnect(x, i)
         IN  /\ Step(x, y, i) /\ SesSound(y.ses[i])
             /\ y.ses[i].queue = x.ses[i].queue
  <1> DEFINE s == x.ses[i]
             z == close_socket(x, i)
             limit == config.max_connect_attempts
             attempt == IF limit = 0 THEN s.attempt ELSE s.attempt + 1
             y == Reconnect(x, i)
  <1>1. /\ s.attempt \in Nat /\ s.endpoint \in 1 .. Endpoints /\ Endpoints \in Nat
        /\ 1 \in 1 .. Endpoints
    <2>1. s \in SessionStates
      BY DEF Clients
    <2>2. s.attempt \in Nat /\ s.endpoint \in 1 .. Endpoints
      BY <2>1 DEF SessionStates
    <2> QED
      BY <2>2, PerfAssumption
  <1>2. attempt \in Nat
    BY <1>1
  <1> HIDE DEF attempt
  <1>3. \/ s.endpoint < Endpoints /\ y = start_connect(z, i, s.attempt, s.endpoint + 1)
        \/ y = stop(z, i)
        \/ y = start_connect(z, i, attempt, 1)
    BY Zenon DEF Reconnect, attempt
  <1>4. /\ Step(x, z, i) /\ Base(z.ses[i]) /\ z \in Clients
        /\ Alike(z.ses[i], s) /\ z.ses[i].ops = {}
    BY CloseStep DEF Step
  <1> HIDE DEF z, y
  <1>5. /\ ~StartQueued(z.ses[i]) /\ ~z.ses[i].connected /\ ~z.ses[i].stopped
        /\ z.ses[i].queue = s.queue /\ z.ses[i].stopped = s.stopped
    BY <1>4 DEF Alike, StartQueued
  <1>6. s.endpoint < Endpoints => s.endpoint + 1 \in 1 .. Endpoints
    BY <1>1
  <1>7. /\ Step(z, y, i) /\ SesSound(y.ses[i])
        /\ y.ses[i].queue = z.ses[i].queue
    <2>1. CASE s.endpoint < Endpoints /\ y = start_connect(z, i, s.attempt, s.endpoint + 1)
      <3> DEFINE next == s.endpoint + 1
      <3>1. next \in 1 .. Endpoints /\ y = start_connect(z, i, s.attempt, next)
        BY <1>6, <2>1
      <3> HIDE DEF next
      <3> QED
        BY <1>1, <1>4, <1>5, <3>1, ConnectStep
    <2>2. CASE y = stop(z, i)
      BY <1>4, <1>5, <2>2, StopStep
    <2>3. CASE y = start_connect(z, i, attempt, 1)
      BY <1>1, <1>2, <1>4, <1>5, <2>3, ConnectStep
    <2> QED
      BY <1>3, <2>1, <2>2, <2>3
  <1>8. Step(x, y, i)
    BY <1>4, <1>5, <1>7, StepTrans
  <1> QED
    BY <1>5, <1>7, <1>8 DEF y

\* A session that has connected writes and reads as far as it can.
LEMMA ConnectedStep ==
  ASSUME NEW x \in Clients, NEW i \in Ids, Base(x.ses[i]), ~StartQueued(x.ses[i]),
         x.ses[i].ops = {}, ~x.ses[i].connected, ~x.ses[i].stopped, NEW f
  PROVE  LET y == Connected(x, i, f)
         IN  /\ Step(x, y, i) /\ SesSound(y.ses[i])
             /\ y.ses[i].queue = x.ses[i].queue
  <1> DEFINE s == x.ses[i]
             t == [s EXCEPT !.connected = TRUE]
             z == [x EXCEPT !.ses[i] = t]
             w == start_write_some(z, i)
             r == start_read_some(w, i)
             y == Connected(x, i, f)
  <1>1. s \in SessionStates
    BY DEF Clients
  <1>2. y = stop(z, i) \/ y = r
    <2>1. z = [x EXCEPT !.ses[i].connected = TRUE]
      BY Zenon
    <2> HIDE DEF z
    <2> QED
      BY <2>1, Zenon DEF Connected
  <1>3. /\ t \in SessionStates /\ t.ops = s.ops /\ t.filled = s.filled
        /\ t.connected = TRUE /\ t.started = s.started
        /\ t.stopped = s.stopped /\ t.queue = s.queue
        /\ t.reading = s.reading /\ t.writing = s.writing
        /\ t.write_in_progress = s.write_in_progress
        /\ t.read_in_progress = s.read_in_progress
    BY <1>1 DEF SessionStates
  <1> HIDE DEF t
  <1>4. Step(x, z, i) /\ z \in Clients /\ z.ses[i] = t
    BY <1>3, Update
  <1>5. Base(t) /\ ~StartQueued(t) /\ ~t.stopped /\ t.ops = {}
    BY <1>3 DEF Base, StartQueued
  <1> HIDE DEF z, y
  <1>6. CASE y = stop(z, i)
    <2>1. /\ Step(z, y, i) /\ SesSound(y.ses[i])
          /\ y.ses[i].queue = z.ses[i].queue
      BY <1>4, <1>5, <1>6, StopStep
    <2>2. Step(x, y, i)
      BY <1>3, <1>4, <2>1, StepTrans
    <2> QED
      BY <1>3, <1>4, <2>1, <2>2 DEF y
  <1>7. CASE y = r
    <2>1. /\ Step(z, w, i) /\ Base(w.ses[i]) /\ Alike(w.ses[i], t) /\ Writes(w.ses[i])
          /\ "read" \notin w.ses[i].ops /\ "connect" \notin w.ses[i].ops
          /\ w \in Clients
      BY <1>4, <1>5, WriteStep DEF Step
    <2> HIDE DEF w
    <2>2. ~StartQueued(w.ses[i])
      BY <1>5, <2>1 DEF Alike, StartQueued
    <2>3. /\ Step(w, r, i) /\ Base(r.ses[i]) /\ Alike(r.ses[i], w.ses[i])
          /\ Reads(r.ses[i])
          /\ "write" \in r.ses[i].ops <=> "write" \in w.ses[i].ops
      BY <2>1, <2>2, ReadStep
    <2> HIDE DEF r
    <2>4. Alike(r.ses[i], t) /\ Writes(r.ses[i])
      BY <2>1, <2>3 DEF Alike, Writes
    <2>5. SesSound(r.ses[i])
      BY <1>3, <1>5, <2>3, <2>4 DEF SesSound, Alike
    <2>6. Step(x, w, i)
      BY <1>3, <1>4, <2>1, StepTrans
    <2>7. Step(x, r, i)
      BY <1>3, <2>1, <2>3, <2>6, StepTrans DEF Alike
    <2> QED
      BY <1>3, <1>7, <2>4, <2>5, <2>7 DEF y, Alike
  <1> QED
    BY <1>2, <1>6, <1>7

\* handle_connect.
LEMMA HandleConnectStep ==
  ASSUME NEW x \in Clients, NEW i \in Ids, SesSound(x.ses[i]),
         "connect" \in x.ses[i].ops, NEW error, NEW f,
         config \in [max_connect_attempts : Nat, batch_interval : BOOLEAN]
  PROVE  LET y == handle_connect(x, i, error, f)
         IN  /\ Step(x, y, i) /\ SesSound(y.ses[i])
             /\ y.ses[i].queue = x.ses[i].queue
  <1> DEFINE s == x.ses[i]
             b == error = "ok"
             t1 == [s EXCEPT !.ops = @ \ {"connect"}]
             t == [t1 EXCEPT !.was_connected = b]
             z == [x EXCEPT !.ses[i] = t]
             y == handle_connect(x, i, error, f)
  <1>1. s \in SessionStates /\ s.ops = {"connect"} /\ ~s.connected
    BY DEF Clients, SesSound, Base
  <1>2. b \in BOOLEAN
    OBVIOUS
  <1>3. z = [x EXCEPT !.ses[i].ops = @ \ {"connect"}, !.ses[i].was_connected = b]
    <2> HIDE DEF b
    <2> QED
      BY DEF Clients
  <1>4. \/ y = z /\ z.ses[i].stopped
        \/ y = Reconnect(z, i) /\ ~z.ses[i].stopped
        \/ y = Connected(z, i, f) /\ ~z.ses[i].stopped
    <2> HIDE DEF z
    <2> QED
      BY <1>3, Zenon DEF handle_connect
  <1>5. /\ t1 \in SessionStates /\ t1.ops = {} /\ Alike(t1, s)
        /\ t1.reading = s.reading /\ t1.writing = s.writing
        /\ t1.write_in_progress = s.write_in_progress
        /\ t1.read_in_progress = s.read_in_progress
    BY <1>1 DEF SessionStates, Alike
  <1> HIDE DEF t1, b
  <1>6. t \in SessionStates /\ Same(t, t1)
    BY <1>2, <1>5 DEF SessionStates, Same, Alike
  <1> HIDE DEF t
  <1>7. /\ t.ops = {} /\ Alike(t, s)
        /\ t.reading = s.reading /\ t.writing = s.writing
        /\ t.write_in_progress = s.write_in_progress
        /\ t.read_in_progress = s.read_in_progress
    BY <1>5, <1>6 DEF Same, Alike
  <1>8. Step(x, z, i) /\ z \in Clients /\ z.ses[i] = t
    BY <1>6, <1>7, Update DEF Alike
  <1> HIDE DEF z
  <1>9. ~StartQueued(s)
    BY <1>1 DEF SesSound, Base, Fresh
  <1>10. Base(t) /\ ~StartQueued(t) /\ ~t.connected /\ t.stopped = s.stopped
    BY <1>1, <1>6, <1>7, <1>9 DEF SesSound, Base, StartQueued, Alike
  <1>11. /\ Step(x, y, i) /\ SesSound(y.ses[i]) /\ y.ses[i].queue = t.queue
    <2> HIDE DEF y
    <2>1. CASE y = z /\ z.ses[i].stopped
      BY <1>8, <1>10, <2>1 DEF SesSound
    <2>2. CASE y = Reconnect(z, i) /\ ~z.ses[i].stopped
      <3>1. /\ Step(z, y, i) /\ SesSound(y.ses[i])
            /\ y.ses[i].queue = z.ses[i].queue
        BY <1>7, <1>8, <1>10, <2>2, ReconnectStep
      <3> QED
        BY <1>8, <1>10, <3>1, StepTrans
    <2>3. CASE y = Connected(z, i, f) /\ ~z.ses[i].stopped
      <3>1. /\ Step(z, y, i) /\ SesSound(y.ses[i])
            /\ y.ses[i].queue = z.ses[i].queue
        BY <1>7, <1>8, <1>10, <2>3, ConnectedStep
      <3> QED
        BY <1>8, <1>10, <3>1, StepTrans
    <2> QED
      BY <1>4, <2>1, <2>2, <2>3
  <1> HIDE DEF y
  <1> QED
    BY <1>7, <1>11 DEF y, Alike

\* A counter of bytes stays a counter.
LEMMA AddedLimited ==
  ASSUME NEW x \in Limited, NEW n \in Nat
  PROVE  add_value(x, n) \in Limited
  BY LimitedAssumption DEF Limited, add_value, Overflow

\* How the handlers of a read and of a write go on.
TryWrite(y, i) == IF y.ses[i].write_in_progress THEN y ELSE start_write_some(y, i)
TryRead(y, i)  == IF y.ses[i].read_in_progress THEN y ELSE start_read_some(y, i)

ReadOn(y, i, error) ==
  IF y.ses[i].stopped THEN y
  ELSE IF error # "ok" THEN stop(y, i)
  ELSE start_read_some(TryWrite(y, i), i)

WriteOn(y, i, error) ==
  IF y.ses[i].stopped THEN y
  ELSE IF error # "ok" THEN stop(y, i)
  ELSE start_write_some(TryRead(y, i), i)

\* The three ways to go on.
LEMMA OnCases ==
  ASSUME NEW z, NEW i, NEW error
  PROVE  /\ LET y == ReadOn(z, i, error)
            IN  \/ y = z /\ z.ses[i].stopped
                \/ y = stop(z, i) /\ ~z.ses[i].stopped
                \/ y = start_read_some(TryWrite(z, i), i) /\ ~z.ses[i].stopped
         /\ LET y == WriteOn(z, i, error)
            IN  \/ y = z /\ z.ses[i].stopped
                \/ y = stop(z, i) /\ ~z.ses[i].stopped
                \/ y = start_write_some(TryRead(z, i), i) /\ ~z.ses[i].stopped
  BY DEF ReadOn, WriteOn

\* handle_read: what was received fits, and the session goes on writing and
\* reading as far as it can.
LEMMA HandleReadStep ==
  ASSUME NEW x \in Clients, NEW i \in Ids, SesSound(x.ses[i]),
         "read" \in x.ses[i].ops, NEW error,
         NEW bytes \in Nat, bytes <= x.ses[i].reading
  PROVE  LET y == handle_read(x, i, error, bytes)
         IN  /\ Step(x, y, i) /\ SesSound(y.ses[i])
             /\ y.ses[i].queue = x.ses[i].queue
  <1> DEFINE s == x.ses[i]
             full == s.filled + bytes
             t1 == [s EXCEPT !.ops = @ \ {"read"}]
             t2 == [t1 EXCEPT !.reading = 0]
             t3 == [t2 EXCEPT !.read_in_progress = FALSE]
             t4 == [t3 EXCEPT !.bytes_read = add_value(@, bytes)]
             t5 == [t4 EXCEPT !.filled = @ + bytes]
             t == [s EXCEPT !.ops = @ \ {"read"}, !.reading = 0,
                            !.read_in_progress = FALSE,
                            !.bytes_read = add_value(@, bytes), !.filled = @ + bytes]
             z == [x EXCEPT !.ses[i] = t]
             w == TryWrite(z, i)
             r == start_read_some(w, i)
             y == handle_read(x, i, error, bytes)
  <1>1. s \in SessionStates /\ s.reading <= BufferSize - s.filled
    BY DEF Clients, SesSound, Base
  <1>3. full \in 0 .. BufferSize /\ s.writing <= full
    BY <1>1, Numbers DEF SesSound, Base
  <1>4. t = t5
    BY <1>1 DEF SessionStates
  <1>5. \/ y = z /\ z.ses[i].stopped
        \/ y = stop(z, i) /\ ~z.ses[i].stopped
        \/ y = r /\ ~z.ses[i].stopped
    <2>1. y = ReadOn(z, i, error)
      BY DEF handle_read, ReadOn, TryWrite
    <2> HIDE DEF t, z, y
    <2> QED
      BY <2>1, OnCases
  <1>6. /\ t1 \in SessionStates /\ t1.ops = s.ops \ {"read"} /\ Alike(t1, s)
        /\ t1.writing = s.writing /\ t1.write_in_progress = s.write_in_progress
    BY <1>1 DEF SessionStates, Alike
  <1> HIDE DEF t1
  <1>7. /\ t3 \in SessionStates /\ t3.ops = t1.ops /\ Alike(t3, t1)
        /\ t3.reading = 0 /\ t3.writing = t1.writing
        /\ t3.write_in_progress = t1.write_in_progress
        /\ t3.read_in_progress = FALSE
    <2>1. 0 \in 0 .. BufferSize
      BY <1>1, Numbers
    <2> QED
      BY <1>6, <2>1 DEF SessionStates, Alike
  <1> HIDE DEF t3
  <1>8. t4 \in SessionStates /\ Same(t4, t3)
    <2> DEFINE total == add_value(t3.bytes_read, bytes)
    <2>1. t3.bytes_read \in Limited
      BY <1>7 DEF SessionStates
    <2>2. total \in Limited
      BY <2>1, AddedLimited
    <2>3. t4 = [t3 EXCEPT !.bytes_read = total]
      BY Zenon
    <2> HIDE DEF total, t4
    <2> QED
      BY <1>7, <2>2, <2>3 DEF SessionStates, Same, Alike
  <1> HIDE DEF t4
  <1>15. t5 = [t4 EXCEPT !.filled = full]
    <2>1. t4.filled = s.filled
      BY <1>6, <1>7, <1>8 DEF Same, Alike
    <2> QED
      BY <2>1, Zenon
  <1> HIDE DEF full
  <1>9. /\ t \in SessionStates /\ t.filled = full /\ t.ops = t4.ops
        /\ t.connected = t4.connected /\ t.started = t4.started
        /\ t.stopped = t4.stopped /\ t.queue = t4.queue
        /\ t.reading = t4.reading /\ t.writing = t4.writing
        /\ t.write_in_progress = t4.write_in_progress
        /\ t.read_in_progress = t4.read_in_progress
    <2> HIDE DEF t, t5
    <2> QED
      BY <1>3, <1>4, <1>8, <1>15 DEF SessionStates
  <1> HIDE DEF t
  <1>10. /\ t.filled = full /\ t.ops = s.ops \ {"read"}
         /\ t.connected = s.connected /\ t.started = s.started
         /\ t.stopped = s.stopped /\ t.queue = s.queue
         /\ t.reading = 0 /\ t.writing = s.writing
         /\ t.write_in_progress = s.write_in_progress
         /\ t.read_in_progress = FALSE
    BY <1>6, <1>7, <1>8, <1>9 DEF Same, Alike
  <1>11. Step(x, z, i) /\ z \in Clients /\ z.ses[i] = t
    BY <1>9, <1>10, Update
  <1> HIDE DEF z
  <1>12. ~StartQueued(s) /\ "connect" \notin s.ops
    BY DEF SesSound, Base, Fresh
  <1>13. Base(t) /\ ~StartQueued(t) /\ "connect" \notin t.ops /\ "read" \notin t.ops
    <2>1. t.reading <= BufferSize - t.filled
      BY <1>3, <1>9, <1>10, Numbers
    <2> QED
      BY <1>3, <1>9, <1>10, <1>12, <2>1 DEF SesSound, Base, StartQueued
  <1>14. /\ Step(x, y, i) /\ SesSound(y.ses[i]) /\ y.ses[i].queue = t.queue
    <2> HIDE DEF y
    <2>1. CASE y = z /\ z.ses[i].stopped
      BY <1>10, <1>11, <1>13, <2>1 DEF SesSound
    <2>2. CASE y = stop(z, i) /\ ~z.ses[i].stopped
      <3>1. /\ Step(z, y, i) /\ SesSound(y.ses[i])
            /\ y.ses[i].queue = z.ses[i].queue
        BY <1>11, <1>13, <2>2, StopStep
      <3> QED
        BY <1>10, <1>11, <3>1, StepTrans
    <2>3. CASE y = r /\ ~z.ses[i].stopped
      <3>1. /\ Step(z, w, i) /\ Base(w.ses[i]) /\ Alike(w.ses[i], t)
            /\ s.connected => Writes(w.ses[i])
            /\ "read" \notin w.ses[i].ops /\ "connect" \notin w.ses[i].ops
            /\ w \in Clients
        <4>1. CASE z.ses[i].write_in_progress
          <5>1. w = z
            BY <4>1, Zenon DEF TryWrite
          <5>2. "write" \in t.ops /\ (s.connected => t.filled > 0)
            <6>1. "write" \in t.ops
              BY <1>11, <1>13, <4>1 DEF Base
            <6>2. s.connected => s.filled > 0
              BY <1>10, <6>1 DEF SesSound, Writes
            <6>3. s.filled <= full
              BY <1>1, Numbers DEF full
            <6> QED
              BY <1>1, <1>3, <1>10, <6>1, <6>2, <6>3, Numbers
          <5> HIDE DEF w
          <5> QED
            BY <1>11, <1>13, <5>1, <5>2 DEF Step, Alike, Writes
        <4>2. CASE ~z.ses[i].write_in_progress
          <5>1. w = start_write_some(z, i)
            BY <4>2, Zenon DEF TryWrite
          <5>2. "write" \notin t.ops
            BY <1>11, <1>13, <4>2 DEF Base
          <5> HIDE DEF w
          <5> QED
            BY <1>11, <1>13, <5>1, <5>2, WriteStep DEF Step
        <4> QED
          BY <4>1, <4>2
      <3> HIDE DEF w
      <3>2. ~StartQueued(w.ses[i])
        BY <1>13, <3>1 DEF Alike, StartQueued
      <3>3. /\ Step(w, r, i) /\ Base(r.ses[i]) /\ Alike(r.ses[i], w.ses[i])
            /\ Reads(r.ses[i])
            /\ "write" \in r.ses[i].ops <=> "write" \in w.ses[i].ops
        BY <3>1, <3>2, ReadStep
      <3> HIDE DEF r
      <3>4. Alike(r.ses[i], t) /\ (s.connected => Writes(r.ses[i]))
        BY <3>1, <3>3 DEF Alike, Writes
      <3>5. t.started => s.connected
        BY <1>10, <1>11, <1>12, <2>3 DEF SesSound
      <3>6. SesSound(r.ses[i])
        BY <1>10, <1>11, <2>3, <3>3, <3>4, <3>5 DEF SesSound, Alike
      <3>7. Step(x, w, i)
        BY <1>10, <1>11, <3>1, StepTrans
      <3>8. Step(x, r, i)
        BY <1>10, <3>1, <3>3, <3>7, StepTrans DEF Alike
      <3> QED
        BY <2>3, <3>4, <3>6, <3>8 DEF Alike
    <2> QED
      BY <1>5, <2>1, <2>2, <2>3
  <1> HIDE DEF y
  <1> QED
    BY <1>10, <1>14 DEF y

\* handle_write: what was sent was there, and the session goes on reading and
\* writing as far as it can.
LEMMA HandleWriteStep ==
  ASSUME NEW x \in Clients, NEW i \in Ids, SesSound(x.ses[i]),
         "write" \in x.ses[i].ops, NEW error,
         NEW bytes \in Nat, bytes <= x.ses[i].writing
  PROVE  LET y == handle_write(x, i, error, bytes)
         IN  /\ Step(x, y, i) /\ SesSound(y.ses[i])
             /\ y.ses[i].queue = x.ses[i].queue
  <1> DEFINE s == x.ses[i]
             rest == s.filled - bytes
             t1 == [s EXCEPT !.ops = @ \ {"write"}]
             t2 == [t1 EXCEPT !.writing = 0]
             t3 == [t2 EXCEPT !.write_in_progress = FALSE]
             t4 == [t3 EXCEPT !.bytes_written = add_value(@, bytes)]
             t5 == [t4 EXCEPT !.filled = @ - bytes]
             t == [s EXCEPT !.ops = @ \ {"write"}, !.writing = 0,
                            !.write_in_progress = FALSE,
                            !.bytes_written = add_value(@, bytes), !.filled = @ - bytes]
             z == [x EXCEPT !.ses[i] = t]
             w == TryRead(z, i)
             r == start_write_some(w, i)
             y == handle_write(x, i, error, bytes)
  <1>1. s \in SessionStates /\ s.writing <= s.filled
    BY DEF Clients, SesSound, Base
  <1>3. rest \in 0 .. BufferSize /\ s.reading <= BufferSize - rest
    BY SMTT(30), <1>1, Numbers DEF SesSound, Base
  <1>4. t = t5
    BY <1>1 DEF SessionStates
  <1>5. \/ y = z /\ z.ses[i].stopped
        \/ y = stop(z, i) /\ ~z.ses[i].stopped
        \/ y = r /\ ~z.ses[i].stopped
    <2>1. y = WriteOn(z, i, error)
      BY DEF handle_write, WriteOn, TryRead
    <2> HIDE DEF t, z, y
    <2> QED
      BY <2>1, OnCases
  <1>6. /\ t1 \in SessionStates /\ t1.ops = s.ops \ {"write"} /\ Alike(t1, s)
        /\ t1.reading = s.reading /\ t1.read_in_progress = s.read_in_progress
    BY <1>1 DEF SessionStates, Alike
  <1> HIDE DEF t1
  <1>7. /\ t3 \in SessionStates /\ t3.ops = t1.ops /\ Alike(t3, t1)
        /\ t3.writing = 0 /\ t3.reading = t1.reading
        /\ t3.read_in_progress = t1.read_in_progress
        /\ t3.write_in_progress = FALSE
    <2>1. 0 \in 0 .. BufferSize
      BY <1>1, Numbers
    <2> QED
      BY <1>6, <2>1 DEF SessionStates, Alike
  <1> HIDE DEF t3
  <1>8. t4 \in SessionStates /\ Same(t4, t3)
    <2> DEFINE total == add_value(t3.bytes_written, bytes)
    <2>1. t3.bytes_written \in Limited
      BY <1>7 DEF SessionStates
    <2>2. total \in Limited
      BY <2>1, AddedLimited
    <2>3. t4 = [t3 EXCEPT !.bytes_written = total]
      BY Zenon
    <2> HIDE DEF total, t4
    <2> QED
      BY <1>7, <2>2, <2>3 DEF SessionStates, Same, Alike
  <1> HIDE DEF t4
  <1>15. t5 = [t4 EXCEPT !.filled = rest]
    <2>1. t4.filled = s.filled
      BY <1>6, <1>7, <1>8 DEF Same, Alike
    <2> QED
      BY <2>1, Zenon
  <1> HIDE DEF rest
  <1>9. /\ t \in SessionStates /\ t.filled = rest /\ t.ops = t4.ops
        /\ t.connected = t4.connected /\ t.started = t4.started
        /\ t.stopped = t4.stopped /\ t.queue = t4.queue
        /\ t.writing = t4.writing /\ t.reading = t4.reading
        /\ t.read_in_progress = t4.read_in_progress
        /\ t.write_in_progress = t4.write_in_progress
    <2> HIDE DEF t, t5
    <2> QED
      BY <1>3, <1>4, <1>8, <1>15 DEF SessionStates
  <1> HIDE DEF t
  <1>10. /\ t.filled = rest /\ t.ops = s.ops \ {"write"}
         /\ t.connected = s.connected /\ t.started = s.started
         /\ t.stopped = s.stopped /\ t.queue = s.queue
         /\ t.writing = 0 /\ t.reading = s.reading
         /\ t.read_in_progress = s.read_in_progress
         /\ t.write_in_progress = FALSE
    BY <1>6, <1>7, <1>8, <1>9 DEF Same, Alike
  <1>11. Step(x, z, i) /\ z \in Clients /\ z.ses[i] = t
    BY <1>9, <1>10, Update
  <1> HIDE DEF z
  <1>12. ~StartQueued(s) /\ "connect" \notin s.ops
    BY DEF SesSound, Base, Fresh
  <1>13. Base(t) /\ ~StartQueued(t) /\ "connect" \notin t.ops /\ "write" \notin t.ops
    <2>1. t.writing <= t.filled
      BY <1>3, <1>9, <1>10, Numbers
    <2> QED
      BY <1>3, <1>9, <1>10, <1>12, <2>1 DEF SesSound, Base, StartQueued
  <1>14. /\ Step(x, y, i) /\ SesSound(y.ses[i]) /\ y.ses[i].queue = t.queue
    <2> HIDE DEF y
    <2>1. CASE y = z /\ z.ses[i].stopped
      BY <1>10, <1>11, <1>13, <2>1 DEF SesSound
    <2>2. CASE y = stop(z, i) /\ ~z.ses[i].stopped
      <3>1. /\ Step(z, y, i) /\ SesSound(y.ses[i])
            /\ y.ses[i].queue = z.ses[i].queue
        BY <1>11, <1>13, <2>2, StopStep
      <3> QED
        BY <1>10, <1>11, <3>1, StepTrans
    <2>3. CASE y = r /\ ~z.ses[i].stopped
      <3>1. /\ Step(z, w, i) /\ Base(w.ses[i]) /\ Alike(w.ses[i], t)
            /\ s.connected => Reads(w.ses[i])
            /\ "write" \notin w.ses[i].ops /\ "connect" \notin w.ses[i].ops
            /\ w \in Clients
        <4>1. CASE z.ses[i].read_in_progress
          <5>1. w = z
            BY <4>1, Zenon DEF TryRead
          <5>2. "read" \in t.ops /\ (s.connected => t.filled < BufferSize)
            <6>1. "read" \in t.ops
              BY <1>11, <1>13, <4>1 DEF Base
            <6>2. s.connected => s.filled < BufferSize
              BY <1>10, <6>1 DEF SesSound, Reads
            <6>3. rest <= s.filled
              BY <1>1, Numbers DEF rest
            <6> QED
              BY <1>1, <1>3, <1>10, <6>1, <6>2, <6>3, Numbers
          <5> HIDE DEF w
          <5> QED
            BY <1>11, <1>13, <5>1, <5>2 DEF Step, Alike, Reads
        <4>2. CASE ~z.ses[i].read_in_progress
          <5>1. w = start_read_some(z, i)
            BY <4>2, Zenon DEF TryRead
          <5>2. "read" \notin t.ops
            BY <1>11, <1>13, <4>2 DEF Base
          <5> HIDE DEF w
          <5> QED
            BY <1>11, <1>13, <5>1, <5>2, ReadStep DEF Step
        <4> QED
          BY <4>1, <4>2
      <3> HIDE DEF w
      <3>2. ~StartQueued(w.ses[i])
        BY <1>13, <3>1 DEF Alike, StartQueued
      <3>3. /\ Step(w, r, i) /\ Base(r.ses[i]) /\ Alike(r.ses[i], w.ses[i])
            /\ Writes(r.ses[i])
            /\ "read" \in r.ses[i].ops <=> "read" \in w.ses[i].ops
        BY <3>1, <3>2, WriteStep
      <3> HIDE DEF r
      <3>4. Alike(r.ses[i], t) /\ (s.connected => Reads(r.ses[i]))
        BY <3>1, <3>3 DEF Alike, Reads
      <3>5. t.started => s.connected
        BY <1>10, <1>11, <1>12, <2>3 DEF SesSound
      <3>6. SesSound(r.ses[i])
        BY <1>10, <1>11, <2>3, <3>3, <3>4, <3>5 DEF SesSound, Alike
      <3>7. Step(x, w, i)
        BY <1>10, <1>11, <3>1, StepTrans
      <3>8. Step(x, r, i)
        BY <1>10, <3>1, <3>3, <3>7, StepTrans DEF Alike
      <3> QED
        BY <2>3, <3>4, <3>6, <3>8 DEF Alike
    <2> QED
      BY <1>5, <2>1, <2>2, <2>3
  <1> HIDE DEF y
  <1> QED
    BY <1>10, <1>14 DEF y

-----------------------------------------------------------------------------
(***************************************************************************)
(* The actions of the sessions.                                             *)
(***************************************************************************)
\* A session that has something to do takes a step: its queue does not grow.
LEMMA SessionStepInv ==
  ASSUME PInv, NEW i \in Ids, ~Quiet(c.ses[i]), Step(c, c', i), SesSound(c'.ses[i]),
         c.ses[i].queue \in {<<>>, <<"start">>} => c'.ses[i].queue \in {<<>>, <<"start">>},
         UNCHANGED <<config, m, main>>
  PROVE  PInv'
  <1>1. SessionsSound(c')
    BY StepSound DEF PInv
  <1>2. ~(i > m.started_sessions_end) /\ main # "done"
    BY DEF PInv, Posted, Fresh, Quiet
  <1>3. Posted(c', m)
    <2>1. ASSUME NEW j \in Ids, j > m.started_sessions_end
          PROVE  c'.ses[j].queue = <<>> /\ Fresh(c'.ses[j])
      <3>1. j # i
        BY <1>2, <2>1
      <3> QED
        BY <2>1, <3>1 DEF PInv, Posted, Step
    <2>2. ASSUME ~m.stopped, NEW j \in Ids
          PROVE  c'.ses[j].queue \in {<<>>, <<"start">>}
      <3>1. c.ses[j].queue \in {<<>>, <<"start">>}
        BY <2>2 DEF PInv, Posted
      <3> QED
        BY <3>1 DEF Step
    <2> QED
      BY <2>1, <2>2 DEF Posted
  <1> QED
    BY <1>1, <1>2, <1>3 DEF PInv, BatchSound

\* A call that a session takes from its queue.
LEMMA PopInv ==
  ASSUME PInv, NEW i \in Ids, NEW call, NEW x \in PoppedSession(i, call)
  PROVE  /\ Step(c, x, i) /\ SesSound(x.ses[i]) /\ ~StartQueued(x.ses[i])
         /\ call = "start" => Fresh(x.ses[i])
         /\ ~Quiet(c.ses[i]) /\ x \in Clients /\ x.ses[i].stopped = c.ses[i].stopped
         /\ c.ses[i].queue \in {<<>>, <<"start">>} => x.ses[i].queue = <<>>
  <1> DEFINE q == c.ses[i].queue
             y == [c EXCEPT !.ses[i].queue = Tail(q)]
  <1>1. x = y /\ q # <<>> /\ Head(q) = call
    BY Zenon DEF PoppedSession
  <1>2. c \in Clients /\ SesSound(c.ses[i])
    BY DEF PInv, SessionsSound
  <1>3. /\ Step(c, y, i) /\ SesSound(y.ses[i]) /\ y.ses[i].ops = c.ses[i].ops
        /\ y.ses[i].connected = c.ses[i].connected
        /\ y.ses[i].started = c.ses[i].started
        /\ y.ses[i].stopped = c.ses[i].stopped
        /\ ~StartQueued(y.ses[i])
        /\ Head(q) = "start" => Fresh(c.ses[i])
        /\ q \in {<<>>, <<"start">>} => y.ses[i].queue = <<>>
    BY <1>1, <1>2, PopStep
  <1> HIDE DEF y
  <1>4. ~Quiet(c.ses[i])
    BY <1>1 DEF Quiet
  <1>5. call = "start" => Fresh(x.ses[i])
    BY <1>1, <1>3 DEF Fresh
  <1> QED
    BY <1>1, <1>3, <1>4, <1>5 DEF Step

\* What a session posts to its strand.
LEMMA SessionStartInv ==
  ASSUME PInv, NEW i \in Ids, SessionStart(i)
  PROVE  PInv' /\ Step(c, c', i)
  <1>1. PICK x \in PoppedSession(i, "start") : c' = do_start(x, i)
    BY DEF SessionStart
  <1>2. /\ Step(c, x, i) /\ SesSound(x.ses[i]) /\ ~StartQueued(x.ses[i])
        /\ Fresh(x.ses[i])
        /\ ~Quiet(c.ses[i]) /\ x \in Clients /\ x.ses[i].stopped = c.ses[i].stopped
        /\ c.ses[i].queue \in {<<>>, <<"start">>} => x.ses[i].queue = <<>>
    BY PopInv
  <1>3. Step(x, c', i) /\ SesSound(c'.ses[i]) /\ c'.ses[i].queue = x.ses[i].queue
    BY <1>1, <1>2, DoStartStep
  <1>4. Step(c, c', i)
    BY <1>2, <1>3, StepTrans
  <1>5. UNCHANGED <<config, m, main>>
    BY DEF SessionStart
  <1> QED
    BY <1>2, <1>3, <1>4, <1>5, SessionStepInv

\* A stop of the manager reaches the session.
LEMMA SessionStopInv ==
  ASSUME PInv, NEW i \in Ids, SessionStop(i)
  PROVE  PInv' /\ Step(c, c', i)
  <1>1. PICK x \in PoppedSession(i, "stop") : c' = do_stop(x, i)
    BY DEF SessionStop
  <1>2. /\ Step(c, x, i) /\ SesSound(x.ses[i]) /\ ~StartQueued(x.ses[i])
        /\ ~Quiet(c.ses[i]) /\ x \in Clients /\ x.ses[i].stopped = c.ses[i].stopped
        /\ c.ses[i].queue \in {<<>>, <<"start">>} => x.ses[i].queue = <<>>
    BY PopInv
  <1>3. Step(x, c', i) /\ SesSound(c'.ses[i]) /\ c'.ses[i].queue = x.ses[i].queue
    BY <1>1, <1>2, DoStopStep
  <1>4. Step(c, c', i)
    BY <1>2, <1>3, StepTrans
  <1>5. UNCHANGED <<config, m, main>>
    BY DEF SessionStop
  <1> QED
    BY <1>2, <1>3, <1>4, <1>5, SessionStepInv

\* A handler runs, after what really happened was recorded: x is the state
\* between the two.
LEMMA HandlerInv ==
  ASSUME PInv, NEW i \in Ids, UNCHANGED <<config, m, main>>, c.ses[i].ops # {},
         NEW x, Step(c, x, i), Same(x.ses[i], c.ses[i]),
         Step(x, c', i), SesSound(c'.ses[i]), c'.ses[i].queue = x.ses[i].queue
  PROVE  PInv' /\ Step(c, c', i)
  <1>1. Step(c, c', i)
    BY StepTrans DEF Same, Alike
  <1>2. ~Quiet(c.ses[i]) /\ c'.ses[i].queue = c.ses[i].queue
    BY DEF Quiet, Same, Alike
  <1> QED
    BY <1>1, <1>2, SessionStepInv

\* The attempt to connect ends.
LEMMA HandleConnectInv ==
  ASSUME PInv, NEW i \in Ids, HandleConnect(i)
  PROVE  PInv' /\ Step(c, c', i)
  <1>1. c \in Clients /\ SesSound(c.ses[i])
    BY DEF PInv, SessionsSound
  <1>2. PICK error \in async_connect, f \in SUBSET (Faults \cap {"options"}) :
          c' = handle_connect([c EXCEPT !.ses[i].established = @ \/ error = "ok"],
                              i, error, f)
    BY DEF HandleConnect
  <1> DEFINE b == c.ses[i].established \/ error = "ok"
             x == [c EXCEPT !.ses[i].established = b]
  <1>3. c' = handle_connect(x, i, error, f)
    BY <1>2
  <1>4. b \in BOOLEAN
    OBVIOUS
  <1> HIDE DEF b
  <1>5. Step(c, x, i) /\ SesSound(x.ses[i]) /\ Same(x.ses[i], c.ses[i])
    BY <1>1, <1>4, GhostStep
  <1> HIDE DEF x
  <1>6. "connect" \in x.ses[i].ops /\ x \in Clients /\ c.ses[i].ops # {}
    BY <1>5 DEF HandleConnect, Same, Step
  <1>7. Step(x, c', i) /\ SesSound(c'.ses[i]) /\ c'.ses[i].queue = x.ses[i].queue
    BY <1>3, <1>5, <1>6, HandleConnectStep DEF PInv
  <1>8. UNCHANGED <<config, m, main>>
    BY DEF HandleConnect
  <1> QED
    BY <1>5, <1>6, <1>7, <1>8, HandlerInv

\* Nothing is recorded when an operation fails.
LEMMA NoGhost ==
  ASSUME PInv, NEW i \in Ids
  PROVE  Step(c, c, i) /\ Same(c.ses[i], c.ses[i])
  BY DEF PInv, SessionsSound, Step, Same, Alike

\* A number of bytes is at most what the operation was given.
LEMMA BytesOf ==
  ASSUME NEW n \in Nat, NEW limit \in Int, NEW bytes \in 1 .. Min({n, limit})
  PROVE  bytes \in Nat /\ bytes <= n
  <1> DEFINE S == {n, limit}
  <1>1. Min(S) \in {n, limit} /\ Min(S) <= n
    <2>1. \E y \in S : \A z \in S : z >= y
      <3>1. CASE n <= limit
        BY <3>1
      <3>2. CASE ~(n <= limit)
        BY <3>2
      <3> QED
        BY <3>1, <3>2
    <2> HIDE DEF S
    <2>2. Min(S) \in S /\ \A z \in S : z >= Min(S)
      BY <2>1 DEF Min
    <2> QED
      BY <2>2 DEF S
  <1> QED
    BY <1>1

\* A read ends.
LEMMA HandleReadInv ==
  ASSUME PInv, NEW i \in Ids, HandleRead(i)
  PROVE  PInv' /\ Step(c, c', i)
  <1> DEFINE s == c.ses[i]
  <1>1. c \in Clients /\ SesSound(s) /\ s \in SessionStates
    BY DEF PInv, SessionsSound, SesSound, Base
  <1>2. "read" \in s.ops /\ UNCHANGED <<config, m, main>>
    BY DEF HandleRead
  <1>3. ASSUME NEW bytes \in 1 .. Min({s.reading, MaxBytes - s.rcvd}),
               c' = handle_read([c EXCEPT !.ses[i].rcvd = @ + bytes], i, "ok", bytes)
        PROVE  PInv' /\ Step(c, c', i)
    <2> DEFINE n == s.rcvd + bytes
               x == [c EXCEPT !.ses[i].rcvd = n]
    <2>1. c' = handle_read(x, i, "ok", bytes)
      BY <1>3
    <2>2. bytes \in Nat /\ bytes <= s.reading /\ s.rcvd \in Nat
      <3>1. s.rcvd \in Nat /\ s.reading \in Nat
        BY <1>1, Numbers DEF SessionStates
      <3>2. MaxBytes - s.rcvd \in Int
        BY <3>1, PerfAssumption
      <3> QED
        BY <3>1, <3>2, BytesOf
    <2>3. n \in Nat
      BY <2>2
    <2> HIDE DEF n
    <2>4. Step(c, x, i) /\ SesSound(x.ses[i]) /\ Same(x.ses[i], s)
      BY <1>1, <2>3, GhostStep
    <2> HIDE DEF x
    <2>5. x \in Clients /\ "read" \in x.ses[i].ops /\ bytes <= x.ses[i].reading
      BY <1>2, <2>2, <2>4 DEF Same, Step
    <2>6. Step(x, c', i) /\ SesSound(c'.ses[i]) /\ c'.ses[i].queue = x.ses[i].queue
      BY <2>1, <2>2, <2>4, <2>5, HandleReadStep
    <2> QED
      BY <1>2, <2>4, <2>6, HandlerInv
  <1>4. ASSUME c' = handle_read(c, i, "error", 0)
        PROVE  PInv' /\ Step(c, c', i)
    <2>1. 0 \in Nat /\ 0 <= s.reading
      BY <1>1, Numbers
    <2>2. Step(c, c', i) /\ SesSound(c'.ses[i]) /\ c'.ses[i].queue = c.ses[i].queue
      BY <1>1, <1>2, <1>4, <2>1, HandleReadStep
    <2> QED
      BY <1>2, <2>2, NoGhost, HandlerInv
  <1> QED
    BY <1>3, <1>4 DEF HandleRead

\* A write ends.
LEMMA HandleWriteInv ==
  ASSUME PInv, NEW i \in Ids, HandleWrite(i)
  PROVE  PInv' /\ Step(c, c', i)
  <1> DEFINE s == c.ses[i]
  <1>1. c \in Clients /\ SesSound(s) /\ s \in SessionStates
    BY DEF PInv, SessionsSound, SesSound, Base
  <1>2. "write" \in s.ops /\ UNCHANGED <<config, m, main>>
    BY DEF HandleWrite
  <1>3. ASSUME NEW bytes \in 1 .. s.writing,
               c' = handle_write([c EXCEPT !.ses[i].sent = @ + bytes], i, "ok", bytes)
        PROVE  PInv' /\ Step(c, c', i)
    <2> DEFINE n == s.sent + bytes
               x == [c EXCEPT !.ses[i].sent = n]
    <2>1. c' = handle_write(x, i, "ok", bytes)
      BY <1>3
    <2>2. bytes \in Nat /\ bytes <= s.writing /\ s.sent \in Nat
      <3>1. s.sent \in Nat /\ s.writing \in Nat
        BY <1>1, Numbers DEF SessionStates
      <3> QED
        BY <1>3, <3>1
    <2>3. n \in Nat
      BY <2>2
    <2> HIDE DEF n
    <2>4. Step(c, x, i) /\ SesSound(x.ses[i]) /\ Same(x.ses[i], s)
      BY <1>1, <2>3, GhostStep
    <2> HIDE DEF x
    <2>5. x \in Clients /\ "write" \in x.ses[i].ops /\ bytes <= x.ses[i].writing
      BY <1>2, <2>2, <2>4 DEF Same, Step
    <2>6. Step(x, c', i) /\ SesSound(c'.ses[i]) /\ c'.ses[i].queue = x.ses[i].queue
      BY <2>1, <2>2, <2>4, <2>5, HandleWriteStep
    <2> QED
      BY <1>2, <2>4, <2>6, HandlerInv
  <1>4. ASSUME c' = handle_write(c, i, "error", 0)
        PROVE  PInv' /\ Step(c, c', i)
    <2>1. 0 \in Nat /\ 0 <= s.writing
      BY <1>1, Numbers
    <2>2. Step(c, c', i) /\ SesSound(c'.ses[i]) /\ c'.ses[i].queue = c.ses[i].queue
      BY <1>1, <1>2, <1>4, <2>1, HandleWriteStep
    <2> QED
      BY <1>2, <2>2, NoGhost, HandlerInv
  <1> QED
    BY <1>3, <1>4 DEF HandleWrite

-----------------------------------------------------------------------------
(***************************************************************************)
(* The actions of the manager and of main.                                  *)
(***************************************************************************)
\* What is posted to a strand comes last.
LEMMA AppendCall ==
  ASSUME NEW call \in {"start", "stop"}
  PROVE  /\ Append(<<>>, call) = <<call>>
         /\ Append(<<"start">>, call) = <<"start", call>>
         /\ <<call>> # <<>> /\ <<"start", call>> # <<>>
         /\ <<"stop">> \notin {<<"start">>, <<"start", "stop">>}
  <1> DEFINE p == <<"start", call>>
             r == Append(<<"start">>, call)
  <1>1. r \in Seq({"start", call})
    OBVIOUS
  <1>2. Len(r) = 2
    OBVIOUS
  <1>3. r[1] = "start" /\ r[2] = call
    OBVIOUS
  <1>4. r = p
    <2> HIDE DEF r
    <2> QED
      BY <1>1, <1>2, <1>3
  <1>5. Append(<<>>, call) = <<call>>
    OBVIOUS
  <1>6. <<call>> # <<>> /\ p # <<>>
    OBVIOUS
  <1>7. <<"stop">> \notin {<<"start">>, <<"start", "stop">>}
    <2>1. <<"stop">>[1] = "stop" /\ <<"start">>[1] = "start" /\ <<"start", "stop">>[1] = "start"
      OBVIOUS
    <2> QED
      BY <2>1
  <1> QED
    BY <1>4, <1>5, <1>6, <1>7

\* A session gets a call: a start while it is fresh, a stop unless it has one.
LEMMA PostOne ==
  ASSUME NEW s, SesSound(s), NEW call \in {"start", "stop"},
         s.queue \in {<<>>, <<"start">>},
         call = "start" => s.queue = <<>> /\ Fresh(s)
  PROVE  LET t == [s EXCEPT !.queue = Append(@, call)]
         IN  /\ SesSound(t) /\ t.stopped = s.stopped
             /\ call = "start" => t.queue = <<"start">>
  <1> DEFINE q == Append(s.queue, call)
             t == [s EXCEPT !.queue = q]
  <1>1. s \in SessionStates
    BY DEF SesSound, Base
  <1>2. /\ q \in {<<"start">>, <<"stop">>, <<"start", "stop">>}
        /\ call = "start" => q = <<"start">>
        /\ call = "stop" => q # <<"start">>
        /\ q = <<"start", "stop">> => s.queue = <<"start">>
        /\ q \in Seq({"start", "stop"})
    <2>1. s.queue \in Seq({"start", "stop"})
      BY <1>1 DEF SessionStates
    <2>2. CASE s.queue = <<>>
      <3>1. q = <<call>>
        BY <2>2, AppendCall
      <3>2. <<"stop">> \notin {<<"start">>, <<"start", "stop">>}
        BY AppendCall
      <3>3. <<"start">> # <<"start", "stop">>
        <4>1. Len(<<"start">>) = 1 /\ Len(<<"start", "stop">>) = 2
          OBVIOUS
        <4> QED
          BY <4>1
      <3> QED
        BY <2>1, <3>1, <3>2, <3>3
    <2>3. CASE s.queue = <<"start">>
      <3>1. call = "stop"
        <4>1. <<"start">> # <<>>
          BY AppendCall
        <4> QED
          BY <2>3, <4>1
      <3>2. q = <<"start", "stop">>
        BY <2>3, <3>1, AppendCall
      <3>3. <<"start">> # <<"start", "stop">>
        <4>1. Len(<<"start">>) = 1 /\ Len(<<"start", "stop">>) = 2
          OBVIOUS
        <4> QED
          BY <4>1
      <3> QED
        BY <2>1, <2>3, <3>1, <3>2, <3>3
    <2> QED
      BY <2>2, <2>3
  <1>3. q \in {<<"start">>, <<"start", "stop">>} => Fresh(s)
    BY <1>2 DEF SesSound, Base, StartQueued
  <1> HIDE DEF q
  <1>4. /\ t \in SessionStates /\ t.queue = q /\ t.ops = s.ops
        /\ t.filled = s.filled /\ t.connected = s.connected
        /\ t.started = s.started /\ t.stopped = s.stopped
        /\ t.reading = s.reading /\ t.writing = s.writing
        /\ t.write_in_progress = s.write_in_progress
        /\ t.read_in_progress = s.read_in_progress
    BY <1>1, <1>2 DEF SessionStates
  <1> HIDE DEF t
  <1>5. SesSound(t)
    BY <1>2, <1>3, <1>4 DEF SesSound, Base, Fresh, StartQueued, Writes, Reads
  <1> QED
    BY <1>2, <1>4, <1>5 DEF t, q

\* The manager posts a call to some of its sessions.
LEMMA PostSound ==
  ASSUME NEW x, SessionsSound(x), NEW S, NEW call \in {"start", "stop"},
         \A i \in Ids : i \in S =>
           /\ x.ses[i].queue \in {<<>>, <<"start">>}
           /\ call = "start" => x.ses[i].queue = <<>> /\ Fresh(x.ses[i])
  PROVE  LET y == PostAll(x, S, call)
         IN  /\ SessionsSound(y)
             /\ \A i \in Ids : i \notin S => y.ses[i] = x.ses[i]
             /\ call = "start" =>
                  \A i \in Ids : i \in S => y.ses[i].queue = <<"start">>
  <1> DEFINE one(i) == [x.ses[i] EXCEPT !.queue = Append(@, call)]
             f == [i \in Ids |-> IF i \in S THEN one(i) ELSE x.ses[i]]
             y == PostAll(x, S, call)
  <1>1. x \in Clients /\ x.ses \in [Ids -> SessionStates] /\ x.outstanding \in Int
    BY DEF SessionsSound, Clients
  <1>2. y = [x EXCEPT !.ses = f]
    BY Zenon DEF PostAll
  <1>3. ASSUME NEW i \in Ids
        PROVE  /\ SesSound(f[i]) /\ f[i].stopped = x.ses[i].stopped
               /\ i \notin S => f[i] = x.ses[i]
               /\ call = "start" /\ i \in S => f[i].queue = <<"start">>
    <2>1. SesSound(x.ses[i])
      BY DEF SessionsSound
    <2>2. CASE i \in S
      <3>1. f[i] = one(i)
        BY <2>2
      <3>2. /\ SesSound(one(i)) /\ one(i).stopped = x.ses[i].stopped
            /\ call = "start" => one(i).queue = <<"start">>
        BY <2>1, <2>2, PostOne
      <3> HIDE DEF f, one
      <3> QED
        BY <2>2, <3>1, <3>2
    <2>3. CASE i \notin S
      <3>1. f[i] = x.ses[i]
        BY <2>3
      <3> HIDE DEF f
      <3> QED
        BY <2>1, <2>3, <3>1
    <2> QED
      BY <2>2, <2>3
  <1>4. DOMAIN f = Ids /\ f = [i \in Ids |-> f[i]]
    OBVIOUS
  <1> HIDE DEF f
  <1>5. f \in [Ids -> SessionStates]
    BY <1>3, <1>4 DEF SesSound, Base
  <1>6. y \in Clients /\ y.ses = f /\ y.outstanding = x.outstanding
    BY <1>1, <1>2, <1>5 DEF Clients
  <1> HIDE DEF y
  <1>7. Running(y) = Running(x)
    BY <1>3, <1>6 DEF Running
  <1>8. SessionsSound(y)
    BY <1>3, <1>6, <1>7 DEF SessionsSound
  <1>9. /\ \A i \in Ids : i \notin S => y.ses[i] = x.ses[i]
        /\ call = "start" => \A i \in Ids : i \in S => y.ses[i].queue = <<"start">>
    BY <1>3, <1>6
  <1> QED
    BY <1>8, <1>9 DEF y

\* The sessions of the next batch.
LEMMA BatchEndIn ==
  ASSUME m \in ManagerStates
  PROVE  /\ BatchEnd \in 0 .. SessionCount
         /\ m.started_sessions_end \in Nat /\ BatchEnd \in Nat
         /\ m.started_sessions_end <= BatchEnd
  <1> DEFINE e == m.started_sessions_end
             S == {SessionCount, e + BatchSize}
  <1>1. e \in 0 .. SessionCount
    BY DEF ManagerStates
  <1>2. e \in Nat /\ e <= SessionCount /\ SessionCount \in Nat /\ BatchSize \in Nat
    BY <1>1, PerfAssumption
  <1>3. BatchEnd = Min(S)
    BY DEF BatchEnd
  <1> HIDE DEF e
  <1>4. \E y \in S : \A z \in S : z >= y
    <2>1. CASE SessionCount <= e + BatchSize
      BY <1>2, <2>1
    <2>2. CASE ~(SessionCount <= e + BatchSize)
      BY <1>2, <2>2
    <2> QED
      BY <2>1, <2>2
  <1>5. Min(S) \in S /\ \A z \in S : z >= Min(S)
    <2> HIDE DEF S
    <2> QED
      BY <1>4 DEF Min
  <1>6. Min(S) \in Nat /\ Min(S) <= SessionCount /\ e <= Min(S)
    <2> DEFINE k == Min(S)
    <2>1. k \in S /\ SessionCount >= k
      BY <1>5
    <2> HIDE DEF k
    <2>2. k \in Nat /\ k <= SessionCount /\ e <= k
      BY <1>2, <2>1
    <2> QED
      BY <2>2 DEF k
  <1> QED
    BY <1>2, <1>3, <1>6 DEF e

\* What a manager that is about to start or to stop sessions is like.
Ready(y) ==
  /\ y \in ManagerStates /\ BatchSound(y)
  /\ y.started_sessions_end = m.started_sessions_end
  /\ y.stopped = m.stopped

\* What a step of the manager leaves behind.
Kept == m' \in ManagerStates /\ SessionsSound(c') /\ Posted(c', m') /\ BatchSound(m)'

\* Nothing is posted.
LEMMA IdleInv ==
  ASSUME PInv, NEW y, Ready(y), m' = y, c' = c, config' = config
  PROVE  Kept
  BY DEF PInv, Ready, Kept, Posted, BatchSound

\* A batch is started: the sessions in it were not started before.
LEMMA StartBatchInv ==
  ASSUME PInv, NEW y, Ready(y), ~y.stopped, StartBatch(y), config' = config
  PROVE  Kept
  <1> DEFINE e == m.started_sessions_end
             S == (e + 1) .. BatchEnd
             z == [y EXCEPT !.started_sessions_end = BatchEnd]
             w == schedule_session_start(z)
  <1>1. /\ BatchEnd \in 0 .. SessionCount /\ e \in Nat /\ BatchEnd \in Nat
        /\ e <= BatchEnd
    BY BatchEndIn DEF PInv
  <1>2. c' = PostAll(c, S, "start") /\ m' = IF BatchEnd < SessionCount THEN w ELSE z
    BY DEF StartBatch
  <1>3. \A i \in Ids : i > e => c.ses[i].queue = <<>> /\ Fresh(c.ses[i])
    BY DEF PInv, Posted
  <1>4. \A i \in Ids : i \in S => c.ses[i].queue = <<>> /\ Fresh(c.ses[i])
    BY <1>1, <1>3 DEF Ids
  <1>5. /\ SessionsSound(c')
        /\ \A i \in Ids : i \notin S => c'.ses[i] = c.ses[i]
        /\ \A i \in Ids : i \in S => c'.ses[i].queue = <<"start">>
    <2>1. SessionsSound(c)
      BY DEF PInv
    <2> HIDE DEF S
    <2> QED
      BY <1>2, <1>4, <2>1, PostSound
  <1>6. /\ z \in ManagerStates /\ z.started_sessions_end = BatchEnd
        /\ z.queue = y.queue /\ z.timer = y.timer /\ z.stopped = y.stopped
        /\ z.timer_in_progess = y.timer_in_progess
    BY <1>1 DEF Ready, ManagerStates
  <1> HIDE DEF z
  <1>7. BatchSound(z)
    BY <1>6 DEF Ready, BatchSound
  <1>8. /\ w \in ManagerStates /\ w.started_sessions_end = BatchEnd
        /\ w.stopped = z.stopped /\ BatchSound(w)
    <2>1. CASE config.batch_interval
      <3>1. w = [z EXCEPT !.timer = TRUE, !.timer_in_progess = TRUE]
        BY <2>1, Zenon DEF schedule_session_start
      <3> HIDE DEF w
      <3>2. /\ w \in ManagerStates /\ w.started_sessions_end = z.started_sessions_end
            /\ w.stopped = z.stopped /\ w.timer = TRUE /\ w.timer_in_progess = TRUE
            /\ w.queue = z.queue
        BY <1>6, <3>1 DEF ManagerStates
      <3> QED
        BY <1>6, <1>7, <2>1, <3>2 DEF BatchSound
    <2>2. CASE ~config.batch_interval
      <3> DEFINE q == Append(z.queue, "scheduled")
      <3>1. w = [z EXCEPT !.queue = q]
        BY <2>2, Zenon DEF schedule_session_start
      <3>2. q \in Seq({"start", "stop", "scheduled"})
        BY <1>6 DEF ManagerStates
      <3> HIDE DEF w, q
      <3>3. /\ w \in ManagerStates /\ w.started_sessions_end = z.started_sessions_end
            /\ w.stopped = z.stopped /\ w.timer = z.timer
            /\ w.timer_in_progess = z.timer_in_progess
        BY <1>6, <3>1, <3>2 DEF ManagerStates
      <3> QED
        BY <1>6, <1>7, <2>2, <3>3 DEF BatchSound
    <2> QED
      BY <2>1, <2>2
  <1> HIDE DEF w
  <1>9. /\ m' \in ManagerStates /\ m'.started_sessions_end = BatchEnd
        /\ m'.stopped = y.stopped /\ BatchSound(m')
    BY <1>2, <1>6, <1>7, <1>8
  <1>10. BatchSound(m)'
    BY <1>9 DEF BatchSound
  <1>11. Posted(c', m')
    <2>1. ASSUME NEW i \in Ids, i > BatchEnd
          PROVE  c'.ses[i].queue = <<>> /\ Fresh(c'.ses[i])
      <3>1. i \notin S /\ i > e
        BY <1>1, <2>1 DEF Ids
      <3> QED
        BY <1>3, <1>5, <3>1
    <2>2. ASSUME NEW i \in Ids PROVE c'.ses[i].queue \in {<<>>, <<"start">>}
      <3>1. c.ses[i].queue \in {<<>>, <<"start">>}
        BY DEF PInv, Posted, Ready
      <3> QED
        BY <1>5, <3>1
    <2> QED
      BY <1>9, <2>1, <2>2 DEF Posted
  <1> QED
    BY <1>5, <1>9, <1>10, <1>11 DEF Kept

\* A stop is posted once to every session that was started.
LEMMA StopSessionsInv ==
  ASSUME PInv, NEW y, Ready(y), StopSessions(y), config' = config
  PROVE  Kept
  <1>1. CASE y.stopped
    <2>1. m' = y /\ c' = c
      BY <1>1, Zenon DEF StopSessions
    <2> QED
      BY <2>1, IdleInv
  <1>2. CASE ~y.stopped
    <2> DEFINE S == 1 .. y.started_sessions_end
               z == [y EXCEPT !.stopped = TRUE]
    <2>1. m' = z /\ c' = PostAll(c, S, "stop")
      BY <1>2, Zenon DEF StopSessions
    <2>2. \A i \in Ids : c.ses[i].queue \in {<<>>, <<"start">>}
      BY <1>2 DEF PInv, Posted, Ready
    <2>3. /\ SessionsSound(c')
          /\ \A i \in Ids : i \notin S => c'.ses[i] = c.ses[i]
      <3>1. SessionsSound(c)
        BY DEF PInv
      <3> HIDE DEF S
      <3> QED
        BY <2>1, <2>2, <3>1, PostSound
    <2>4. /\ z \in ManagerStates /\ z.started_sessions_end = y.started_sessions_end
          /\ z.queue = y.queue /\ z.timer = y.timer /\ z.stopped = TRUE
          /\ z.timer_in_progess = y.timer_in_progess
      BY DEF Ready, ManagerStates
    <2> HIDE DEF z
    <2>5. BatchSound(m)'
      BY <2>1, <2>4 DEF Ready, BatchSound
    <2>6. ASSUME NEW i \in Ids, i > z.started_sessions_end
          PROVE  c'.ses[i].queue = <<>> /\ Fresh(c'.ses[i])
      <3>1. y.started_sessions_end \in 0 .. SessionCount
        BY DEF Ready, ManagerStates
      <3>2. i \notin S
        BY <2>4, <2>6, <3>1 DEF Ids
      <3>3. i > m.started_sessions_end
        BY <2>4, <2>6 DEF Ready
      <3> QED
        BY <2>3, <3>2, <3>3 DEF PInv, Posted
    <2>7. Posted(c', m')
      BY <2>1, <2>4, <2>6 DEF Posted
    <2> QED
      BY <2>1, <2>3, <2>4, <2>5, <2>7 DEF Kept
  <1> QED
    BY <1>1, <1>2

\* The wait for the next batch is over.
LEMMA ScheduledInv ==
  ASSUME PInv, NEW y \in ManagerStates, ~y.timer,
         y.started_sessions_end = m.started_sessions_end, y.stopped = m.stopped,
         config.batch_interval => y.queue \in Seq({"start", "stop"}),
         NEW error, handle_scheduled_session_start(y, error), config' = config
  PROVE  Kept
  <1> DEFINE z == [y EXCEPT !.timer_in_progess = FALSE]
  <1>1. \/ z.stopped /\ m' = z /\ c' = c
        \/ StopSessions(z)
        \/ ~z.stopped /\ StartBatch(z)
    BY Zenon DEF handle_scheduled_session_start
  <1>2. /\ z \in ManagerStates /\ z.queue = y.queue /\ z.timer = y.timer
        /\ z.timer_in_progess = FALSE /\ z.stopped = y.stopped
        /\ z.started_sessions_end = y.started_sessions_end
    BY DEF ManagerStates
  <1> HIDE DEF z
  <1>3. Ready(z)
    BY <1>2 DEF Ready, BatchSound
  <1> QED
    BY <1>1, <1>3, IdleInv, StopSessionsInv, StartBatchInv

\* A call that the manager takes from its queue.
LEMMA PoppedReady ==
  ASSUME PInv, NEW call, NEW y \in Popped(call)
  PROVE  Ready(y) /\ m.queue # <<>> /\ (call = "scheduled" => ~config.batch_interval)
  <1> DEFINE q == Tail(m.queue)
  <1>1. y = [m EXCEPT !.queue = q] /\ m.queue # <<>> /\ Head(m.queue) = call
    BY Zenon DEF Popped
  <1>2. m \in ManagerStates /\ m.queue \in Seq({"start", "stop", "scheduled"})
    BY DEF PInv, ManagerStates
  <1>3. q \in Seq({"start", "stop", "scheduled"})
    BY <1>1, <1>2
  <1>4. config.batch_interval =>
          q \in Seq({"start", "stop"}) /\ call \in {"start", "stop"}
    <2> SUFFICES ASSUME config.batch_interval
                 PROVE  q \in Seq({"start", "stop"}) /\ call \in {"start", "stop"}
      OBVIOUS
    <2>1. m.queue \in Seq({"start", "stop"})
      BY DEF PInv, BatchSound
    <2> QED
      BY <1>1, <2>1
  <1> HIDE DEF q
  <1>5. /\ y \in ManagerStates /\ y.queue = q /\ y.timer = m.timer
        /\ y.timer_in_progess = m.timer_in_progess /\ y.stopped = m.stopped
        /\ y.started_sessions_end = m.started_sessions_end
    BY <1>1, <1>2, <1>3 DEF ManagerStates
  <1>6. BatchSound(y)
    BY <1>4, <1>5 DEF PInv, BatchSound
  <1> QED
    BY <1>1, <1>4, <1>5, <1>6 DEF Ready

\* What the manager keeps, the program keeps: main waits for the manager.
LEMMA KeptInv ==
  ASSUME PInv, Kept, m.queue # <<>> \/ m.timer, UNCHANGED <<config, main>>
  PROVE  PInv'
  BY DEF PInv, Kept

\* The start of main reaches the manager.
LEMMA ManagerStartInv ==
  ASSUME PInv, ManagerStart
  PROVE  PInv'
  <1>1. UNCHANGED <<config, main>>
    BY DEF ManagerStart
  <1>2. PICK y \in Popped("start") :
          IF y.stopped THEN m' = y /\ UNCHANGED c ELSE StartBatch(y)
    BY DEF ManagerStart
  <1>3. Ready(y) /\ m.queue # <<>>
    BY PoppedReady
  <1>4. (y.stopped /\ m' = y /\ c' = c) \/ (~y.stopped /\ StartBatch(y))
    BY <1>2, Zenon
  <1>5. Kept
    BY <1>1, <1>3, <1>4, IdleInv, StartBatchInv
  <1> QED
    BY <1>1, <1>3, <1>5, KeptInv

\* The stop of main reaches the manager.
LEMMA ManagerStopInv ==
  ASSUME PInv, ManagerStop
  PROVE  PInv'
  <1>1. UNCHANGED <<config, main>>
    BY DEF ManagerStop
  <1>2. PICK y \in Popped("stop") : StopSessions(y)
    BY DEF ManagerStop
  <1>3. Ready(y) /\ m.queue # <<>>
    BY PoppedReady
  <1>4. Kept
    BY <1>1, <1>2, <1>3, StopSessionsInv
  <1> QED
    BY <1>1, <1>3, <1>4, KeptInv

\* The next batch was posted.
LEMMA NextBatchPostedInv ==
  ASSUME PInv, NextBatchPosted
  PROVE  PInv'
  <1>1. UNCHANGED <<config, main>>
    BY DEF NextBatchPosted
  <1>2. PICK y \in Popped("scheduled") : handle_scheduled_session_start(y, "ok")
    BY DEF NextBatchPosted
  <1>3. Ready(y) /\ m.queue # <<>> /\ ~config.batch_interval
    BY PoppedReady
  <1>4. ~y.timer
    BY <1>3 DEF Ready, BatchSound
  <1>5. Kept
    BY <1>1, <1>2, <1>3, <1>4, ScheduledInv DEF Ready
  <1> QED
    BY <1>1, <1>3, <1>5, KeptInv

\* The timer of the next batch expires or is cancelled.
LEMMA NextBatchTimerInv ==
  ASSUME PInv, NextBatchTimer
  PROVE  PInv'
  <1> DEFINE y == [m EXCEPT !.timer = FALSE]
  <1>1. UNCHANGED <<config, main>> /\ m.timer
    BY DEF NextBatchTimer
  <1>2. PICK error \in TimerResults : handle_scheduled_session_start(y, error)
    BY DEF NextBatchTimer
  <1>3. /\ y \in ManagerStates /\ y.timer = FALSE /\ y.queue = m.queue
        /\ y.stopped = m.stopped /\ y.started_sessions_end = m.started_sessions_end
    BY DEF PInv, ManagerStates
  <1> HIDE DEF y
  <1>4. config.batch_interval => y.queue \in Seq({"start", "stop"})
    BY <1>3 DEF PInv, BatchSound
  <1>5. Kept
    BY <1>1, <1>2, <1>3, <1>4, ScheduledInv
  <1> QED
    BY <1>1, <1>5, KeptInv

\* main posts to the manager.
LEMMA MainPosts ==
  ASSUME PInv, NEW call \in {"start", "stop"}, NEW next \in {"wait", "join_manager"},
         main \in {"start", "wait"}, main' = next, UNCHANGED <<config, c>>,
         m' = [m EXCEPT !.queue = Append(@, call)]
  PROVE  PInv'
  <1> DEFINE q == Append(m.queue, call)
  <1>1. m \in ManagerStates /\ m.queue \in Seq({"start", "stop", "scheduled"})
    BY DEF PInv, ManagerStates
  <1>2. m' = [m EXCEPT !.queue = q] /\ q \in Seq({"start", "stop", "scheduled"})
    BY <1>1
  <1>3. config.batch_interval => q \in Seq({"start", "stop"})
    <2> SUFFICES ASSUME config.batch_interval PROVE q \in Seq({"start", "stop"})
      OBVIOUS
    <2>1. m.queue \in Seq({"start", "stop"})
      BY DEF PInv, BatchSound
    <2> QED
      BY <2>1
  <1> HIDE DEF q
  <1>4. /\ m' \in ManagerStates /\ m'.queue = q /\ m'.timer = m.timer
        /\ m'.timer_in_progess = m.timer_in_progess /\ m'.stopped = m.stopped
        /\ m'.started_sessions_end = m.started_sessions_end
    BY <1>1, <1>2 DEF ManagerStates
  <1>5. BatchSound(m)' /\ Posted(c', m')
    BY <1>3, <1>4 DEF PInv, BatchSound, Posted
  <1> QED
    BY <1>4, <1>5 DEF PInv

\* main waits for the threads of the manager and of the sessions.
LEMMA JoinInv ==
  ASSUME PInv, JoinManager \/ JoinSessions
  PROVE  PInv'
  BY DEF PInv, JoinManager, JoinSessions, BatchSound, Quiet

-----------------------------------------------------------------------------
(***************************************************************************)
(* The theorems.                                                            *)
(***************************************************************************)
\* The sessions as main makes them.
LEMMA FirstSession ==
  /\ SesSound(session) /\ Fresh(session) /\ session.queue = <<>>
  <1> DEFINE half == BufferSize \div 2
  <1>1. half \in 0 .. BufferSize /\ 0 \in 0 .. BufferSize /\ 1 \in 1 .. Endpoints
    BY PerfAssumption
  <1>2. limited_int(0) \in Limited
    BY LimitedAssumption DEF Limited, limited_int
  <1> HIDE DEF half
  <1>3. session \in SessionStates
    BY <1>1, <1>2 DEF session, SessionStates, half
  <1>4. /\ session.queue = <<>> /\ session.ops = {} /\ ~session.started
        /\ ~session.stopped /\ ~session.connected /\ session.writing = 0
        /\ session.reading = 0 /\ ~session.write_in_progress
        /\ ~session.read_in_progress
    BY DEF session
  <1>5. session.filled \in Nat /\ session.filled <= BufferSize /\ BufferSize \in Nat
    BY <1>3, Numbers
  <1>6. 0 <= session.filled /\ 0 <= BufferSize - session.filled
    BY <1>5
  <1>7. ~StartQueued(session)
    BY <1>4 DEF StartQueued
  <1> QED
    BY <1>3, <1>4, <1>6, <1>7 DEF SesSound, Base, Fresh

\* The invariant holds when main begins.
LEMMA InitInv == Init => PInv
  <1> SUFFICES ASSUME Init PROVE PInv
    OBVIOUS
  <1>1. /\ c = [ses |-> [i \in Ids |-> session], outstanding |-> SessionCount]
        /\ m = session_manager /\ main = "start"
    BY DEF Init
  <1>2. config \in [max_connect_attempts : Nat, batch_interval : BOOLEAN]
    <2>1. PICK o \in [attempts : Attempts, interval : Intervals] :
            config = build_client_config(o)
      BY DEF Init
    <2>2. o.attempts \in Nat /\ to_optional_duration(o.interval) \in BOOLEAN
      BY PerfAssumption DEF to_optional_duration
    <2> QED
      BY <2>1, <2>2 DEF build_client_config
  <1>3. m \in ManagerStates /\ BatchSound(m)
    <2>1. 0 \in 0 .. SessionCount
      BY PerfAssumption
    <2> QED
      BY <1>1, <2>1 DEF session_manager, ManagerStates, BatchSound
  <1>4. /\ SesSound(session) /\ Fresh(session) /\ session.queue = <<>>
        /\ session \in SessionStates
    BY FirstSession DEF SesSound, Base
  <1>5. /\ c \in Clients /\ c.outstanding = SessionCount
        /\ \A i \in Ids : c.ses[i] = session
    BY <1>1, <1>4, PerfAssumption DEF Clients
  <1>6. Running(c) = Ids
    BY <1>4, <1>5 DEF Running, Fresh
  <1>7. Cardinality(Ids) = SessionCount
    BY PerfAssumption, FS_Interval DEF Ids
  <1>8. SessionsSound(c)
    BY <1>4, <1>5, <1>6, <1>7 DEF SessionsSound
  <1>9. Posted(c, m)
    BY <1>4, <1>5 DEF Posted
  <1> QED
    BY <1>1, <1>2, <1>3, <1>8, <1>9 DEF PInv

\* Every step keeps the invariant.
LEMMA NextInv == PInv /\ [Next]_vars => PInv'
  <1> SUFFICES ASSUME PInv, [Next]_vars PROVE PInv'
    OBVIOUS
  <1>1. CASE MainStart
    <2>1. /\ main \in {"start", "wait"} /\ main' = "wait" /\ UNCHANGED <<config, c>>
          /\ m' = [m EXCEPT !.queue = Append(@, "start")]
      BY <1>1 DEF MainStart
    <2> QED
      BY <2>1, MainPosts
  <1>2. CASE MainStop
    <2>1. /\ main \in {"start", "wait"} /\ main' = "join_manager"
          /\ UNCHANGED <<config, c>> /\ m' = [m EXCEPT !.queue = Append(@, "stop")]
      BY <1>2 DEF MainStop
    <2> QED
      BY <2>1, MainPosts
  <1>3. CASE JoinManager \/ JoinSessions
    BY <1>3, JoinInv
  <1>4. CASE ManagerStart
    BY <1>4, ManagerStartInv
  <1>5. CASE ManagerStop
    BY <1>5, ManagerStopInv
  <1>6. CASE NextBatchPosted
    BY <1>6, NextBatchPostedInv
  <1>7. CASE NextBatchTimer
    BY <1>7, NextBatchTimerInv
  <1>8. ASSUME NEW i \in Ids, SessionStart(i)
        PROVE  PInv'
    BY <1>8, SessionStartInv
  <1>9. ASSUME NEW i \in Ids, SessionStop(i)
        PROVE  PInv'
    BY <1>9, SessionStopInv
  <1>10. ASSUME NEW i \in Ids, HandleConnect(i)
         PROVE  PInv'
    BY <1>10, HandleConnectInv
  <1>11. ASSUME NEW i \in Ids, HandleRead(i)
         PROVE  PInv'
    BY <1>11, HandleReadInv
  <1>12. ASSUME NEW i \in Ids, HandleWrite(i)
         PROVE  PInv'
    BY <1>12, HandleWriteInv
  <1>13. CASE UNCHANGED vars
    BY <1>13 DEF PInv, BatchSound, vars
  <1> QED
    BY <1>1, <1>2, <1>3, <1>4, <1>5, <1>6, <1>7, <1>8, <1>9, <1>10, <1>11, <1>12,
       <1>13 DEF Next

\* The sessions, the manager and main keep the invariant, whatever the batches,
\* the peers and the moment the test ends.
THEOREM ClientInvariance == Spec => []PInv
  BY InitInv, NextInv, PTL DEF Spec

\* work_state::outstanding_: each session gives up its share once, whichever of
\* stop, the last failed attempt and the peer comes first, so that the count is
\* the number of sessions that have not stopped and never wraps around.
THEOREM OutstandingIsExact == Spec => []OutstandingExact
  <1>1. PInv => OutstandingExact
    <2> SUFFICES ASSUME PInv PROVE OutstandingExact
      OBVIOUS
    <2>1. /\ c \in Clients /\ c.outstanding = Cardinality(Running(c))
          /\ m \in ManagerStates
      BY DEF PInv, SessionsSound
    <2>2. IsFiniteSet(Ids) /\ Cardinality(Ids) = SessionCount
      BY PerfAssumption, FS_Interval DEF Ids
    <2>3. Running(c) \subseteq Ids
      BY DEF Running
    <2>4. Cardinality(Running(c)) <= SessionCount /\ IsFiniteSet(Running(c))
      BY <2>2, <2>3, FS_Subset
    <2>5. Cardinality(Running(c)) \in Nat
      BY <2>4, FS_CardinalityType
    <2>6. c.outstanding \in 0 .. SessionCount
      BY <2>1, <2>4, <2>5, PerfAssumption
    <2>7. c \in [ses : [Ids -> SessionStates], outstanding : 0 .. SessionCount]
      BY <2>1, <2>6 DEF Clients
    <2> QED
      BY <2>1, <2>7 DEF OutstandingExact, TypeOK, Running
  <1> QED
    BY <1>1, ClientInvariance, PTL

\* handle_read, handle_write and handle_connect: a connected session writes
\* whenever its buffer holds something and reads whenever it has room, and the
\* bytes that a transfer was given are still there when it completes.
THEOREM SessionNeverStalls == Spec => []NeverStalls
  <1>1. PInv => NeverStalls
    BY DEF PInv, SessionsSound, SesSound, Base, Writes, Reads, NeverStalls
  <1> QED
    BY <1>1, ClientInvariance, PTL

\* The destructors of session and session_manager: nothing is in progress when
\* main destroys them.
THEOREM DestructorsQuiet == Spec => []DestroyedQuiet
  <1>1. PInv => DestroyedQuiet
    <2> SUFFICES ASSUME PInv, main = "done" PROVE DestroyedQuiet
      BY DEF DestroyedQuiet
    <2>1. ~m.timer_in_progess
      BY DEF PInv, BatchSound
    <2>2. ASSUME NEW i \in Ids
          PROVE  /\ ~c.ses[i].connected /\ ~c.ses[i].read_in_progress
                 /\ ~c.ses[i].write_in_progress
                 /\ c.ses[i].started => c.ses[i].stopped
      <3> DEFINE s == c.ses[i]
      <3>1. SesSound(s) /\ s.ops = {} /\ s \in SessionStates
        BY DEF PInv, SessionsSound, Quiet, SesSound, Base
      <3> HIDE DEF s
      <3>2. ~s.read_in_progress /\ ~s.write_in_progress
        BY <3>1 DEF SesSound, Base
      <3>3. ~s.connected
        <4>1. s.filled > 0 \/ s.filled < BufferSize
          BY <3>1, Numbers
        <4> QED
          BY <3>1, <4>1 DEF SesSound, Writes, Reads
      <3>4. s.started => s.stopped
        BY <3>1, <3>3 DEF SesSound
      <3> QED
        BY <3>2, <3>3, <3>4 DEF s
    <2> QED
      BY <2>1, <2>2 DEF DestroyedQuiet
  <1> QED
    BY <1>1, ClientInvariance, PTL

-----------------------------------------------------------------------------
(***************************************************************************)
(* The statistics.  Each session keeps its own books: its counters tell     *)
(* what was really transferred, and a session that was never connected has  *)
(* transferred nothing.                                                     *)
(***************************************************************************)
Tally(s) ==
  /\ Exact(s.bytes_written, s.sent) /\ Exact(s.bytes_read, s.rcvd)
  /\ s.was_connected = s.established
  /\ s.established => "connect" \notin s.ops
  /\ ~s.established => s.sent = 0 /\ s.rcvd = 0 /\ s.ops \subseteq {"connect"}
  /\ s.established \/ s.ops # {} => s.started

\* The books are the same.
Ledger(t, s) ==
  /\ t.bytes_written = s.bytes_written /\ t.bytes_read = s.bytes_read
  /\ t.sent = s.sent /\ t.rcvd = s.rcvd /\ t.established = s.established
  /\ t.was_connected = s.was_connected /\ t.started = s.started

\* Session i may have begun operations in A; nothing is entered in its books.
Adds(y, x, i, A) ==
  /\ y \in Clients /\ Ledger(y.ses[i], x.ses[i])
  /\ y.ses[i].ops \subseteq x.ses[i].ops \cup A

\* Such steps follow each other.
LEMMA AddsTrans ==
  ASSUME NEW x, NEW y, NEW z, NEW i, NEW A, NEW B, NEW C,
         Adds(y, x, i, A), Adds(z, y, i, B), A \subseteq C, B \subseteq C
  PROVE  Adds(z, x, i, C)
  BY DEF Adds, Ledger

\* The books stay right when the operations begun are those of a session that
\* is, or is not, connected.
LEMMA AddsTally ==
  ASSUME NEW x, NEW y, NEW i, NEW A, Tally(x.ses[i]), Adds(y, x, i, A),
         A # {} => x.ses[i].started,
         x.ses[i].established => "connect" \notin A,
         ~x.ses[i].established => A \subseteq {"connect"}
  PROVE  Tally(y.ses[i])
  BY DEF Tally, Adds, Ledger

\* A new state of session i with the same books.
LEMMA AddsUpdate ==
  ASSUME NEW x \in Clients, NEW i \in Ids, NEW t \in SessionStates, NEW A,
         Ledger(t, x.ses[i]), t.ops \subseteq x.ses[i].ops \cup A
  PROVE  Adds([x EXCEPT !.ses[i] = t], x, i, A)
  <1> DEFINE y == [x EXCEPT !.ses[i] = t]
  <1>1. y \in Clients /\ y.ses[i] = t
    BY Update
  <1> HIDE DEF y
  <1>2. Adds(y, x, i, A)
    BY <1>1 DEF Adds
  <1> QED
    BY <1>2 DEF y

\* close_socket.
LEMMA CloseAdds ==
  ASSUME NEW x \in Clients, NEW i \in Ids
  PROVE  Adds(close_socket(x, i), x, i, {})
  <1> DEFINE s == x.ses[i]
             t == [s EXCEPT !.open = FALSE]
  <1>1. s \in SessionStates
    BY DEF Clients
  <1>2. close_socket(x, i) = [x EXCEPT !.ses[i] = t]
    BY Zenon DEF close_socket
  <1>3. t \in SessionStates /\ Ledger(t, s) /\ t.ops \subseteq s.ops \cup {}
    BY <1>1 DEF SessionStates, Ledger
  <1> HIDE DEF t
  <1> QED
    BY <1>2, <1>3, AddsUpdate

\* stop.
LEMMA StopAdds ==
  ASSUME NEW x \in Clients, NEW i \in Ids
  PROVE  Adds(stop(x, i), x, i, {})
  <1> DEFINE z == close_socket(x, i)
             s == z.ses[i]
             t1 == [s EXCEPT !.connected = FALSE]
             t == [t1 EXCEPT !.stopped = TRUE]
             u == [z EXCEPT !.ses[i] = t]
             y == stop(x, i)
  <1>1. Adds(z, x, i, {}) /\ z \in Clients
    BY CloseAdds DEF Adds
  <1> HIDE DEF z
  <1>2. s \in SessionStates
    BY <1>1 DEF Clients
  <1>3. y = [u EXCEPT !.outstanding = @ - 1]
    <2>1. u = [z EXCEPT !.ses[i].connected = FALSE, !.ses[i].stopped = TRUE]
      BY <1>1 DEF Clients
    <2> HIDE DEF u
    <2> QED
      BY <2>1, Zenon DEF stop, dec_outstanding, z
  <1>4. t \in SessionStates /\ Ledger(t, s) /\ t.ops \subseteq s.ops \cup {}
    BY <1>2 DEF SessionStates, Ledger
  <1> HIDE DEF t
  <1>5. Adds(u, z, i, {}) /\ u \in Clients
    BY <1>1, <1>4, AddsUpdate DEF Adds
  <1> HIDE DEF u
  <1>6. y \in Clients /\ y.ses = u.ses
    BY <1>3, <1>5 DEF Clients
  <1> HIDE DEF y
  <1>7. Adds(y, z, i, {})
    BY <1>5, <1>6 DEF Adds
  <1> QED
    BY <1>1, <1>7, AddsTrans DEF y

\* start_connect.
LEMMA ConnectAdds ==
  ASSUME NEW x \in Clients, NEW i \in Ids, NEW attempt \in Nat,
         NEW endpoint \in 1 .. Endpoints
  PROVE  Adds(start_connect(x, i, attempt, endpoint), x, i, {"connect"})
  <1> DEFINE s == x.ses[i]
             t1 == [s EXCEPT !.ops = @ \cup {"connect"}]
             t2 == [t1 EXCEPT !.open = TRUE]
             t3 == [t2 EXCEPT !.attempt = attempt]
             t == [t3 EXCEPT !.endpoint = endpoint]
  <1>1. s \in SessionStates
    BY DEF Clients
  <1>2. start_connect(x, i, attempt, endpoint) = [x EXCEPT !.ses[i] = t]
    BY ZenonT(40) DEF start_connect, Clients
  <1>3. t1 \in SessionStates /\ t1.ops = s.ops \cup {"connect"} /\ Ledger(t1, s)
    BY <1>1 DEF SessionStates, Ledger
  <1> HIDE DEF t1
  <1>4. t \in SessionStates /\ t.ops = t1.ops /\ Ledger(t, t1)
    BY <1>3 DEF SessionStates, Ledger
  <1> HIDE DEF t
  <1>5. Ledger(t, s) /\ t.ops \subseteq s.ops \cup {"connect"}
    BY <1>3, <1>4 DEF Ledger
  <1> QED
    BY <1>2, <1>4, <1>5, AddsUpdate

\* Nothing happens to the session.
LEMMA NoAdds ==
  ASSUME NEW x \in Clients, NEW i, NEW A PROVE Adds(x, x, i, A)
  BY DEF Adds, Ledger

\* start_write_some.
LEMMA WriteAdds ==
  ASSUME NEW x \in Clients, NEW i \in Ids
  PROVE  Adds(start_write_some(x, i), x, i, {"write"})
  <1> DEFINE s == x.ses[i]
             t1 == [s EXCEPT !.ops = @ \cup {"write"}]
             t2 == [t1 EXCEPT !.writing = s.filled]
             t == [t2 EXCEPT !.write_in_progress = TRUE]
             y == start_write_some(x, i)
  <1>1. s \in SessionStates
    BY DEF Clients
  <1>2. y = x \/ y = [x EXCEPT !.ses[i] = t]
    <2>1. [x EXCEPT !.ses[i] = t]
          = [x EXCEPT !.ses[i].ops = @ \cup {"write"}, !.ses[i].writing = x.ses[i].filled,
                      !.ses[i].write_in_progress = TRUE]
      BY DEF Clients
    <2> HIDE DEF t
    <2> QED
      BY <2>1, Zenon DEF start_write_some
  <1>3. t1 \in SessionStates /\ t1.ops = s.ops \cup {"write"} /\ Ledger(t1, s)
    BY <1>1 DEF SessionStates, Ledger
  <1>4. s.filled \in 0 .. BufferSize
    BY <1>1 DEF SessionStates
  <1> HIDE DEF t1
  <1>5. t \in SessionStates /\ t.ops = t1.ops /\ Ledger(t, t1)
    BY <1>3, <1>4 DEF SessionStates, Ledger
  <1> HIDE DEF t
  <1>6. Ledger(t, s) /\ t.ops \subseteq s.ops \cup {"write"}
    BY <1>3, <1>5 DEF Ledger
  <1> HIDE DEF y
  <1> QED
    BY <1>2, <1>5, <1>6, AddsUpdate, NoAdds DEF y

\* start_read_some.
LEMMA ReadAdds ==
  ASSUME NEW x \in Clients, NEW i \in Ids
  PROVE  Adds(start_read_some(x, i), x, i, {"read"})
  <1> DEFINE s == x.ses[i]
             room == BufferSize - s.filled
             t1 == [s EXCEPT !.ops = @ \cup {"read"}]
             t2 == [t1 EXCEPT !.reading = room]
             t == [t2 EXCEPT !.read_in_progress = TRUE]
             y == start_read_some(x, i)
  <1>1. s \in SessionStates
    BY DEF Clients
  <1>2. y = x \/ y = [x EXCEPT !.ses[i] = t]
    <2>1. [x EXCEPT !.ses[i] = t]
          = [x EXCEPT !.ses[i].ops = @ \cup {"read"}, !.ses[i].reading = room,
                      !.ses[i].read_in_progress = TRUE]
      <3> HIDE DEF room
      <3> QED
        BY DEF Clients
    <2> HIDE DEF t
    <2> QED
      BY <2>1, Zenon DEF start_read_some
  <1>3. t1 \in SessionStates /\ t1.ops = s.ops \cup {"read"} /\ Ledger(t1, s)
    BY <1>1 DEF SessionStates, Ledger
  <1>4. room \in 0 .. BufferSize
    BY <1>1, Numbers
  <1> HIDE DEF t1, room
  <1>5. t \in SessionStates /\ t.ops = t1.ops /\ Ledger(t, t1)
    BY <1>3, <1>4 DEF SessionStates, Ledger
  <1> HIDE DEF t
  <1>6. Ledger(t, s) /\ t.ops \subseteq s.ops \cup {"read"}
    BY <1>3, <1>5 DEF Ledger
  <1> HIDE DEF y
  <1> QED
    BY <1>2, <1>5, <1>6, AddsUpdate, NoAdds DEF y

\* A failed attempt to connect.
LEMMA ReconnectAdds ==
  ASSUME NEW x \in Clients, NEW i \in Ids,
         config \in [max_connect_attempts : Nat, batch_interval : BOOLEAN]
  PROVE  Adds(Reconnect(x, i), x, i, {"connect"})
  <1> DEFINE s == x.ses[i]
             z == close_socket(x, i)
             limit == config.max_connect_attempts
             attempt == IF limit = 0 THEN s.attempt ELSE s.attempt + 1
             next == s.endpoint + 1
             y == Reconnect(x, i)
  <1>1. /\ s.attempt \in Nat /\ s.endpoint \in 1 .. Endpoints /\ Endpoints \in Nat
        /\ 1 \in 1 .. Endpoints
    <2>1. s \in SessionStates
      BY DEF Clients
    <2>2. s.attempt \in Nat /\ s.endpoint \in 1 .. Endpoints
      BY <2>1 DEF SessionStates
    <2> QED
      BY <2>2, PerfAssumption
  <1>2. attempt \in Nat
    BY <1>1
  <1>3. s.endpoint < Endpoints => next \in 1 .. Endpoints
    BY <1>1
  <1> HIDE DEF attempt
  <1>4. \/ s.endpoint < Endpoints /\ y = start_connect(z, i, s.attempt, next)
        \/ y = stop(z, i)
        \/ y = start_connect(z, i, attempt, 1)
    BY Zenon DEF Reconnect, attempt
  <1>5. Adds(z, x, i, {}) /\ z \in Clients
    BY CloseAdds DEF Adds
  <1> HIDE DEF z, y, next
  <1>6. Adds(y, z, i, {"connect"}) \/ Adds(y, z, i, {})
    BY <1>1, <1>2, <1>3, <1>4, <1>5, ConnectAdds, StopAdds
  <1> QED
    BY <1>5, <1>6, AddsTrans DEF y

\* Writing and reading are begun together.
LEMMA TransferAdds ==
  ASSUME NEW x \in Clients, NEW i \in Ids
  PROVE  LET A == {"read", "write"}
         IN  /\ Adds(start_read_some(start_write_some(x, i), i), x, i, A)
             /\ Adds(start_write_some(start_read_some(x, i), i), x, i, A)
             /\ Adds(start_read_some(x, i), x, i, A)
             /\ Adds(start_write_some(x, i), x, i, A)
             /\ Adds(stop(x, i), x, i, A)
  <1> DEFINE A == {"read", "write"}
             w == start_write_some(x, i)
             r == start_read_some(x, i)
             wr == start_read_some(w, i)
             rw == start_write_some(r, i)
  <1>1. Adds(w, x, i, {"write"}) /\ w \in Clients
    BY WriteAdds DEF Adds
  <1>2. Adds(r, x, i, {"read"}) /\ r \in Clients
    BY ReadAdds DEF Adds
  <1> HIDE DEF w, r
  <1>3. Adds(wr, w, i, {"read"}) /\ Adds(rw, r, i, {"write"})
    BY <1>1, <1>2, ReadAdds, WriteAdds
  <1>4. Adds(stop(x, i), x, i, {})
    BY StopAdds
  <1> HIDE DEF wr, rw
  <1>5. {"write"} \subseteq A /\ {"read"} \subseteq A /\ {} \subseteq A
    OBVIOUS
  <1>6. Adds(wr, x, i, A) /\ Adds(rw, x, i, A)
    BY <1>1, <1>2, <1>3, <1>5, AddsTrans
  <1>7. Adds(w, x, i, A) /\ Adds(r, x, i, A) /\ Adds(stop(x, i), x, i, A)
    BY <1>1, <1>2, <1>4, <1>5 DEF Adds
  <1> QED
    BY <1>6, <1>7 DEF w, r, wr, rw

\* A session that has connected.
LEMMA ConnectedAdds ==
  ASSUME NEW x \in Clients, NEW i \in Ids, NEW f
  PROVE  Adds(Connected(x, i, f), x, i, {"read", "write"})
  <1> DEFINE s == x.ses[i]
             t == [s EXCEPT !.connected = TRUE]
             z == [x EXCEPT !.ses[i] = t]
             A == {"read", "write"}
             y == Connected(x, i, f)
  <1>1. s \in SessionStates
    BY DEF Clients
  <1>2. y = stop(z, i) \/ y = start_read_some(start_write_some(z, i), i)
    <2>1. z = [x EXCEPT !.ses[i].connected = TRUE]
      BY Zenon
    <2> HIDE DEF z
    <2> QED
      BY <2>1, Zenon DEF Connected
  <1>3. t \in SessionStates /\ Ledger(t, s) /\ t.ops \subseteq s.ops \cup A
    BY <1>1 DEF SessionStates, Ledger
  <1> HIDE DEF t
  <1>4. Adds(z, x, i, A) /\ z \in Clients
    BY <1>3, AddsUpdate DEF Adds
  <1> HIDE DEF z, y
  <1>5. Adds(y, z, i, A)
    BY <1>2, <1>4, TransferAdds
  <1> HIDE DEF A
  <1>6. A \subseteq A
    OBVIOUS
  <1> QED
    BY <1>4, <1>5, <1>6, AddsTrans DEF y, A

-----------------------------------------------------------------------------
(***************************************************************************)
(* The books of a session after each of its steps.                          *)
(***************************************************************************)
\* A call that a session takes from its queue.
LEMMA PopTally ==
  ASSUME PInv, NEW i \in Ids, NEW call, NEW x \in PoppedSession(i, call),
         Tally(c.ses[i])
  PROVE  Tally(x.ses[i])
  <1> DEFINE s == c.ses[i]
             rest == Tail(s.queue)
             t == [s EXCEPT !.queue = rest]
  <1>1. s \in SessionStates /\ c \in Clients
    BY DEF PInv, SessionsSound, SesSound, Base
  <1>2. x = [c EXCEPT !.ses[i] = t]
    BY Zenon DEF PoppedSession
  <1>3. t.ops = s.ops /\ Ledger(t, s)
    <2> HIDE DEF rest
    <2> QED
      BY <1>1 DEF SessionStates, Ledger
  <1> HIDE DEF t
  <1>4. x.ses[i] = t
    BY <1>1, <1>2 DEF Clients
  <1> QED
    BY <1>3, <1>4 DEF Tally, Ledger

\* start of a session: it has never been connected.
LEMMA SessionStartTally ==
  ASSUME PInv, NEW i \in Ids, SessionStart(i), Tally(c.ses[i])
  PROVE  Tally(c'.ses[i])
  <1>1. PICK x \in PoppedSession(i, "start") : c' = do_start(x, i)
    BY DEF SessionStart
  <1>2. x \in Clients /\ Fresh(x.ses[i])
    BY PopInv
  <1>3. Tally(x.ses[i])
    BY PopTally
  <1> DEFINE s == x.ses[i]
             t == [s EXCEPT !.started = TRUE]
             z == [x EXCEPT !.ses[i] = t]
  <1>4. s \in SessionStates
    BY <1>2 DEF Clients
  <1>5. c' = x \/ c' = start_connect(z, i, 0, 1)
    <2>1. z = [x EXCEPT !.ses[i].started = TRUE]
      BY Zenon
    <2> HIDE DEF z
    <2> QED
      BY <1>1, <2>1, Zenon DEF do_start
  <1>6. /\ t \in SessionStates /\ t.started = TRUE /\ t.ops = s.ops
        /\ t.bytes_written = s.bytes_written /\ t.bytes_read = s.bytes_read
        /\ t.sent = s.sent /\ t.rcvd = s.rcvd /\ t.established = s.established
        /\ t.was_connected = s.was_connected
    BY <1>4 DEF SessionStates
  <1> HIDE DEF t
  <1>7. z \in Clients /\ z.ses[i] = t
    BY <1>2, <1>6, Update
  <1>8. ~s.established /\ Tally(t)
    BY <1>2, <1>3, <1>6 DEF Fresh, Tally
  <1> HIDE DEF z
  <1>9. 0 \in Nat /\ 1 \in 1 .. Endpoints
    BY PerfAssumption
  <1>10. Adds(start_connect(z, i, 0, 1), z, i, {"connect"})
    BY <1>7, <1>9, ConnectAdds
  <1>11. Tally(start_connect(z, i, 0, 1).ses[i])
    BY <1>6, <1>7, <1>8, <1>10, AddsTally
  <1> QED
    BY <1>3, <1>5, <1>11

\* stop of a session.
LEMMA SessionStopTally ==
  ASSUME PInv, NEW i \in Ids, SessionStop(i), Tally(c.ses[i])
  PROVE  Tally(c'.ses[i])
  <1>1. PICK x \in PoppedSession(i, "stop") : c' = do_stop(x, i)
    BY DEF SessionStop
  <1>2. x \in Clients
    BY PopInv
  <1>3. Tally(x.ses[i])
    BY PopTally
  <1>4. c' = x \/ c' = stop(x, i)
    BY <1>1, Zenon DEF do_stop
  <1>5. Adds(stop(x, i), x, i, {})
    BY <1>2, StopAdds
  <1>6. Tally(stop(x, i).ses[i])
    BY <1>3, <1>5, AddsTally
  <1> QED
    BY <1>3, <1>4, <1>6

\* handle_connect: the session knows that it was connected also when it was
\* stopped meanwhile.
LEMMA HandleConnectTally ==
  ASSUME PInv, NEW i \in Ids, HandleConnect(i), Tally(c.ses[i])
  PROVE  Tally(c'.ses[i])
  <1>1. PICK error \in async_connect, f \in SUBSET (Faults \cap {"options"}) :
          c' = handle_connect([c EXCEPT !.ses[i].established = @ \/ error = "ok"],
                              i, error, f)
    BY DEF HandleConnect
  <1> DEFINE s == c.ses[i]
             b == error = "ok"
             e == s.established \/ b
             t1 == [s EXCEPT !.established = e]
             x == [c EXCEPT !.ses[i] = t1]
             t2 == [x.ses[i] EXCEPT !.ops = @ \ {"connect"}]
             t == [t2 EXCEPT !.was_connected = b]
             z == [x EXCEPT !.ses[i] = t]
  <1>2. s \in SessionStates /\ c \in Clients /\ "connect" \in s.ops
    BY DEF PInv, SessionsSound, SesSound, Base, HandleConnect
  <1>3. c' = handle_connect(x, i, error, f)
    <2>1. x = [c EXCEPT !.ses[i].established = @ \/ error = "ok"]
      BY Zenon
    <2> HIDE DEF x
    <2> QED
      BY <1>1, <2>1
  <1>4. b \in BOOLEAN /\ e \in BOOLEAN /\ ~s.established /\ e = b
    <2>1. s.established \in BOOLEAN /\ ~s.established
      BY <1>2 DEF SessionStates, Tally
    <2> QED
      BY <2>1
  <1> HIDE DEF e
  <1>5. /\ t1 \in SessionStates /\ t1.ops = s.ops /\ t1.established = e
        /\ t1.bytes_written = s.bytes_written /\ t1.bytes_read = s.bytes_read
        /\ t1.sent = s.sent /\ t1.rcvd = s.rcvd /\ t1.started = s.started
    BY <1>2, <1>4 DEF SessionStates
  <1> HIDE DEF t1
  <1>6. x \in Clients /\ x.ses[i] = t1
    BY <1>2, <1>5, Update
  <1>7. z = [x EXCEPT !.ses[i].ops = @ \ {"connect"}, !.ses[i].was_connected = b]
    <2> HIDE DEF b, x
    <2> QED
      BY <1>6 DEF Clients
  <1>8. \/ c' = z
        \/ ~b /\ c' = Reconnect(z, i)
        \/ b /\ c' = Connected(z, i, f)
    <2> HIDE DEF z, x
    <2> QED
      BY <1>3, <1>7, Zenon DEF handle_connect
  <1> HIDE DEF b, x
  <1>9. /\ t2 \in SessionStates /\ t2.ops = t1.ops \ {"connect"}
        /\ t2.established = t1.established
        /\ t2.bytes_written = t1.bytes_written /\ t2.bytes_read = t1.bytes_read
        /\ t2.sent = t1.sent /\ t2.rcvd = t1.rcvd /\ t2.started = t1.started
    BY <1>5, <1>6 DEF SessionStates
  <1> HIDE DEF t2
  <1>10. /\ t \in SessionStates /\ t.ops = t2.ops /\ t.was_connected = b
         /\ t.established = t2.established
         /\ t.bytes_written = t2.bytes_written /\ t.bytes_read = t2.bytes_read
         /\ t.sent = t2.sent /\ t.rcvd = t2.rcvd /\ t.started = t2.started
    BY <1>4, <1>9 DEF SessionStates
  <1> HIDE DEF t
  <1>11. z \in Clients /\ z.ses[i] = t
    BY <1>6, <1>10, Update
  <1> HIDE DEF z
  <1>12. Tally(t) /\ t.established = b /\ t.started
    BY <1>2, <1>4, <1>5, <1>9, <1>10 DEF Tally
  <1>13. CASE c' = z
    BY <1>11, <1>12, <1>13
  <1>14. CASE ~b /\ c' = Reconnect(z, i)
    <2>1. Adds(c', z, i, {"connect"})
      BY <1>11, <1>14, ReconnectAdds DEF PInv
    <2> QED
      BY <1>11, <1>12, <1>14, <2>1, AddsTally
  <1>15. CASE b /\ c' = Connected(z, i, f)
    <2>1. Adds(c', z, i, {"read", "write"})
      BY <1>11, <1>15, ConnectedAdds
    <2> QED
      BY <1>11, <1>12, <1>15, <2>1, AddsTally
  <1> QED
    BY <1>8, <1>13, <1>14, <1>15

\* Adding up goes on exactly as long as the transfers do.
LEMMA TallyAdd ==
  ASSUME NEW x \in Limited, NEW n \in Nat, Exact(x, n), NEW bytes \in Nat
  PROVE  Exact(add_value(x, bytes), n + bytes) /\ add_value(x, bytes) \in Limited
  BY AddValueExact

\* handle_read on the books: x is the state in which what really arrived has
\* been recorded.
LEMMA HandleReadTally ==
  ASSUME NEW x \in Clients, NEW i \in Ids, "read" \in x.ses[i].ops, NEW error,
         NEW bytes \in Nat, NEW n \in Nat, x.ses[i].rcvd = n + bytes,
         x.ses[i].filled + bytes \in 0 .. BufferSize,
         Exact(x.ses[i].bytes_read, n),
         Exact(x.ses[i].bytes_written, x.ses[i].sent),
         x.ses[i].established, x.ses[i].was_connected = x.ses[i].established,
         x.ses[i].started, "connect" \notin x.ses[i].ops
  PROVE  Tally(handle_read(x, i, error, bytes).ses[i])
  <1> DEFINE s == x.ses[i]
             full == s.filled + bytes
             total == add_value(s.bytes_read, bytes)
             t1 == [s EXCEPT !.ops = @ \ {"read"}]
             t2 == [t1 EXCEPT !.reading = 0]
             t3 == [t2 EXCEPT !.read_in_progress = FALSE]
             t4 == [t3 EXCEPT !.bytes_read = total]
             t5 == [t4 EXCEPT !.filled = full]
             t == [s EXCEPT !.ops = @ \ {"read"}, !.reading = 0,
                            !.read_in_progress = FALSE,
                            !.bytes_read = add_value(@, bytes), !.filled = @ + bytes]
             z == [x EXCEPT !.ses[i] = t]
             A == {"read", "write"}
             y == handle_read(x, i, error, bytes)
  <1>1. s \in SessionStates
    BY DEF Clients
  <1>2. total \in Limited /\ Exact(total, n + bytes)
    <2>1. s.bytes_read \in Limited
      BY <1>1 DEF SessionStates
    <2> QED
      BY <2>1, TallyAdd
  <1>3. t = t5
    <2>1. t = [s EXCEPT !.ops = @ \ {"read"}, !.reading = 0,
                        !.read_in_progress = FALSE,
                        !.bytes_read = total, !.filled = full]
      BY Zenon
    <2> HIDE DEF t, total, full
    <2> QED
      BY <1>1, <2>1 DEF SessionStates
  <1>4. \/ y = z
        \/ y = stop(z, i)
        \/ y = start_read_some(TryWrite(z, i), i)
    <2>1. y = ReadOn(z, i, error)
      BY DEF handle_read, ReadOn, TryWrite
    <2> HIDE DEF t, z, y
    <2> QED
      BY <2>1, OnCases
  <1> HIDE DEF t, full, total
  <1>5. /\ t1 \in SessionStates /\ t1.ops \subseteq s.ops /\ Ledger(t1, s)
    BY <1>1 DEF SessionStates, Ledger
  <1> HIDE DEF t1
  <1>6. /\ t3 \in SessionStates /\ t3.ops = t1.ops /\ Ledger(t3, t1)
    <2>1. 0 \in 0 .. BufferSize
      BY PerfAssumption
    <2> QED
      BY <1>5, <2>1 DEF SessionStates, Ledger
  <1> HIDE DEF t3
  <1>7. /\ t4 \in SessionStates /\ t4.ops = t3.ops /\ t4.bytes_read = total
        /\ t4.bytes_written = t3.bytes_written /\ t4.sent = t3.sent
        /\ t4.rcvd = t3.rcvd /\ t4.established = t3.established
        /\ t4.was_connected = t3.was_connected /\ t4.started = t3.started
    BY <1>2, <1>6 DEF SessionStates
  <1> HIDE DEF t4
  <1>8. /\ t5 \in SessionStates /\ t5.ops = t4.ops /\ Ledger(t5, t4)
    <2>1. full \in 0 .. BufferSize
      BY DEF full
    <2> QED
      BY <1>7, <2>1 DEF SessionStates, Ledger
  <1> HIDE DEF t5
  <1>9. Tally(t) /\ t.established /\ t.started /\ t \in SessionStates
    BY <1>2, <1>3, <1>5, <1>6, <1>7, <1>8 DEF Tally, Ledger
  <1>10. z \in Clients /\ z.ses[i] = t
    BY <1>9, Update
  <1> HIDE DEF z, y
  <1>11. Adds(y, z, i, A)
    <2>1. TryWrite(z, i) = z \/ TryWrite(z, i) = start_write_some(z, i)
      BY Zenon DEF TryWrite
    <2> QED
      BY <1>4, <1>10, <2>1, TransferAdds, NoAdds
  <1>12. Tally(y.ses[i])
    BY <1>9, <1>10, <1>11, AddsTally
  <1> QED
    BY <1>12 DEF y

\* handle_write on the books: x is the state in which what was really sent has
\* been recorded.
LEMMA HandleWriteTally ==
  ASSUME NEW x \in Clients, NEW i \in Ids, "write" \in x.ses[i].ops, NEW error,
         NEW bytes \in Nat, NEW n \in Nat, x.ses[i].sent = n + bytes,
         x.ses[i].filled - bytes \in 0 .. BufferSize,
         Exact(x.ses[i].bytes_written, n),
         Exact(x.ses[i].bytes_read, x.ses[i].rcvd),
         x.ses[i].established, x.ses[i].was_connected = x.ses[i].established,
         x.ses[i].started, "connect" \notin x.ses[i].ops
  PROVE  Tally(handle_write(x, i, error, bytes).ses[i])
  <1> DEFINE s == x.ses[i]
             rest == s.filled - bytes
             total == add_value(s.bytes_written, bytes)
             t1 == [s EXCEPT !.ops = @ \ {"write"}]
             t2 == [t1 EXCEPT !.writing = 0]
             t3 == [t2 EXCEPT !.write_in_progress = FALSE]
             t4 == [t3 EXCEPT !.bytes_written = total]
             t5 == [t4 EXCEPT !.filled = rest]
             t == [s EXCEPT !.ops = @ \ {"write"}, !.writing = 0,
                            !.write_in_progress = FALSE,
                            !.bytes_written = add_value(@, bytes), !.filled = @ - bytes]
             z == [x EXCEPT !.ses[i] = t]
             A == {"read", "write"}
             y == handle_write(x, i, error, bytes)
  <1>1. s \in SessionStates
    BY DEF Clients
  <1>2. total \in Limited /\ Exact(total, n + bytes)
    <2>1. s.bytes_written \in Limited
      BY <1>1 DEF SessionStates
    <2> QED
      BY <2>1, TallyAdd
  <1>3. t = t5
    <2>1. t = [s EXCEPT !.ops = @ \ {"write"}, !.writing = 0,
                        !.write_in_progress = FALSE,
                        !.bytes_written = total, !.filled = rest]
      BY Zenon
    <2> HIDE DEF t, total, rest
    <2> QED
      BY <1>1, <2>1 DEF SessionStates
  <1>4. \/ y = z
        \/ y = stop(z, i)
        \/ y = start_write_some(TryRead(z, i), i)
    <2>1. y = WriteOn(z, i, error)
      BY DEF handle_write, WriteOn, TryRead
    <2> HIDE DEF t, z, y
    <2> QED
      BY <2>1, OnCases
  <1> HIDE DEF t, rest, total
  <1>5. /\ t1 \in SessionStates /\ t1.ops \subseteq s.ops /\ Ledger(t1, s)
    BY <1>1 DEF SessionStates, Ledger
  <1> HIDE DEF t1
  <1>6. /\ t3 \in SessionStates /\ t3.ops = t1.ops /\ Ledger(t3, t1)
    <2>1. 0 \in 0 .. BufferSize
      BY PerfAssumption
    <2> QED
      BY <1>5, <2>1 DEF SessionStates, Ledger
  <1> HIDE DEF t3
  <1>7. /\ t4 \in SessionStates /\ t4.ops = t3.ops /\ t4.bytes_written = total
        /\ t4.bytes_read = t3.bytes_read /\ t4.sent = t3.sent
        /\ t4.rcvd = t3.rcvd /\ t4.established = t3.established
        /\ t4.was_connected = t3.was_connected /\ t4.started = t3.started
    BY <1>2, <1>6 DEF SessionStates
  <1> HIDE DEF t4
  <1>8. /\ t5 \in SessionStates /\ t5.ops = t4.ops /\ Ledger(t5, t4)
    <2>1. rest \in 0 .. BufferSize
      BY DEF rest
    <2> QED
      BY <1>7, <2>1 DEF SessionStates, Ledger
  <1> HIDE DEF t5
  <1>9. Tally(t) /\ t.established /\ t.started /\ t \in SessionStates
    BY <1>2, <1>3, <1>5, <1>6, <1>7, <1>8 DEF Tally, Ledger
  <1>10. z \in Clients /\ z.ses[i] = t
    BY <1>9, Update
  <1> HIDE DEF z, y
  <1>11. Adds(y, z, i, A)
    <2>1. TryRead(z, i) = z \/ TryRead(z, i) = start_read_some(z, i)
      BY Zenon DEF TryRead
    <2> QED
      BY <1>4, <1>10, <2>1, TransferAdds, NoAdds
  <1>12. Tally(y.ses[i])
    BY <1>9, <1>10, <1>11, AddsTally
  <1> QED
    BY <1>12 DEF y

\* A transfer is one of a session that was connected.
LEMMA TransferOf ==
  ASSUME PInv, NEW i \in Ids, Tally(c.ses[i]),
         "read" \in c.ses[i].ops \/ "write" \in c.ses[i].ops
  PROVE  LET s == c.ses[i]
         IN  /\ c \in Clients /\ s \in SessionStates /\ s.rcvd \in Nat /\ s.sent \in Nat
             /\ s.established /\ s.was_connected = s.established /\ s.started
             /\ "connect" \notin s.ops
             /\ Exact(s.bytes_read, s.rcvd) /\ Exact(s.bytes_written, s.sent)
             /\ \A bytes \in Nat :
                  /\ bytes <= s.reading => s.filled + bytes \in 0 .. BufferSize
                  /\ bytes <= s.writing => s.filled - bytes \in 0 .. BufferSize
  <1> DEFINE s == c.ses[i]
  <1>1. c \in Clients /\ s \in SessionStates /\ Base(s)
    BY DEF PInv, SessionsSound, SesSound, Base
  <1>2. s.rcvd \in Nat /\ s.sent \in Nat
    BY <1>1 DEF SessionStates
  <1>3. /\ s.established /\ s.was_connected = s.established /\ s.started
        /\ "connect" \notin s.ops
        /\ Exact(s.bytes_read, s.rcvd) /\ Exact(s.bytes_written, s.sent)
    BY DEF Tally
  <1>4. s.reading <= BufferSize - s.filled /\ s.writing <= s.filled
    BY <1>1 DEF Base
  <1> HIDE DEF s
  <1>5. \A bytes \in Nat :
          /\ bytes <= s.reading => s.filled + bytes \in 0 .. BufferSize
          /\ bytes <= s.writing => s.filled - bytes \in 0 .. BufferSize
    BY <1>1, <1>4, Numbers
  <1> QED
    BY <1>1, <1>2, <1>3, <1>5 DEF s

\* A read ends.
LEMMA HandleReadTallies ==
  ASSUME PInv, NEW i \in Ids, HandleRead(i), Tally(c.ses[i])
  PROVE  Tally(c'.ses[i])
  <1> DEFINE s == c.ses[i]
  <1>1. "read" \in s.ops
    BY DEF HandleRead
  <1>2. /\ c \in Clients /\ s \in SessionStates /\ s.rcvd \in Nat
        /\ s.established /\ s.was_connected = s.established /\ s.started
        /\ "connect" \notin s.ops
        /\ Exact(s.bytes_read, s.rcvd) /\ Exact(s.bytes_written, s.sent)
        /\ \A bytes \in Nat :
             bytes <= s.reading => s.filled + bytes \in 0 .. BufferSize
    BY <1>1, TransferOf
  <1>3. ASSUME NEW bytes \in 1 .. Min({s.reading, MaxBytes - s.rcvd}),
               c' = handle_read([c EXCEPT !.ses[i].rcvd = @ + bytes], i, "ok", bytes)
        PROVE  Tally(c'.ses[i])
    <2> DEFINE n == s.rcvd + bytes
               t == [s EXCEPT !.rcvd = n]
               x == [c EXCEPT !.ses[i] = t]
    <2>1. c' = handle_read(x, i, "ok", bytes)
      <3>1. x = [c EXCEPT !.ses[i].rcvd = @ + bytes]
        BY Zenon
      <3> HIDE DEF x
      <3> QED
        BY <1>3, <3>1
    <2>2. bytes \in Nat /\ bytes <= s.reading
      <3>1. s.reading \in Nat /\ MaxBytes - s.rcvd \in Int
        BY <1>2, Numbers, PerfAssumption
      <3> QED
        BY <1>3, <3>1, BytesOf
    <2>3. n \in Nat /\ s.filled + bytes \in 0 .. BufferSize
      BY <1>2, <2>2
    <2>4. n = s.rcvd + bytes
      OBVIOUS
    <2> HIDE DEF n
    <2>5. /\ t \in SessionStates /\ t.rcvd = n /\ t.ops = s.ops
          /\ t.filled = s.filled /\ t.sent = s.sent
          /\ t.bytes_read = s.bytes_read /\ t.bytes_written = s.bytes_written
          /\ t.established = s.established /\ t.was_connected = s.was_connected
          /\ t.started = s.started
      BY <1>2, <2>3 DEF SessionStates
    <2> HIDE DEF t
    <2>6. x \in Clients /\ x.ses[i] = t
      BY <1>2, <2>5, Update
    <2> HIDE DEF x
    <2> QED
      BY <1>1, <1>2, <2>1, <2>2, <2>3, <2>4, <2>5, <2>6, HandleReadTally
  <1>4. ASSUME c' = handle_read(c, i, "error", 0)
        PROVE  Tally(c'.ses[i])
    <2>1. 0 \in Nat /\ 0 <= s.reading /\ s.rcvd = s.rcvd + 0
      BY <1>2, Numbers
    <2>2. s.filled + 0 \in 0 .. BufferSize
      BY <1>2, <2>1
    <2> QED
      BY <1>1, <1>2, <1>4, <2>1, <2>2, HandleReadTally
  <1> QED
    BY <1>3, <1>4 DEF HandleRead

\* A write ends.
LEMMA HandleWriteTallies ==
  ASSUME PInv, NEW i \in Ids, HandleWrite(i), Tally(c.ses[i])
  PROVE  Tally(c'.ses[i])
  <1> DEFINE s == c.ses[i]
  <1>1. "write" \in s.ops
    BY DEF HandleWrite
  <1>2. /\ c \in Clients /\ s \in SessionStates /\ s.sent \in Nat
        /\ s.established /\ s.was_connected = s.established /\ s.started
        /\ "connect" \notin s.ops
        /\ Exact(s.bytes_read, s.rcvd) /\ Exact(s.bytes_written, s.sent)
        /\ \A bytes \in Nat :
             bytes <= s.writing => s.filled - bytes \in 0 .. BufferSize
    BY <1>1, TransferOf
  <1>3. ASSUME NEW bytes \in 1 .. s.writing,
               c' = handle_write([c EXCEPT !.ses[i].sent = @ + bytes], i, "ok", bytes)
        PROVE  Tally(c'.ses[i])
    <2> DEFINE n == s.sent + bytes
               t == [s EXCEPT !.sent = n]
               x == [c EXCEPT !.ses[i] = t]
    <2>1. c' = handle_write(x, i, "ok", bytes)
      <3>1. x = [c EXCEPT !.ses[i].sent = @ + bytes]
        BY Zenon
      <3> HIDE DEF x
      <3> QED
        BY <1>3, <3>1
    <2>2. bytes \in Nat /\ bytes <= s.writing
      <3>1. s.writing \in Nat
        BY <1>2, Numbers
      <3> QED
        BY <1>3, <3>1
    <2>3. n \in Nat /\ s.filled - bytes \in 0 .. BufferSize
      BY <1>2, <2>2
    <2>4. n = s.sent + bytes
      OBVIOUS
    <2> HIDE DEF n
    <2>5. /\ t \in SessionStates /\ t.sent = n /\ t.ops = s.ops
          /\ t.filled = s.filled /\ t.rcvd = s.rcvd
          /\ t.bytes_read = s.bytes_read /\ t.bytes_written = s.bytes_written
          /\ t.established = s.established /\ t.was_connected = s.was_connected
          /\ t.started = s.started
      BY <1>2, <2>3 DEF SessionStates
    <2> HIDE DEF t
    <2>6. x \in Clients /\ x.ses[i] = t
      BY <1>2, <2>5, Update
    <2> HIDE DEF x
    <2> QED
      BY <1>1, <1>2, <2>1, <2>2, <2>3, <2>4, <2>5, <2>6, HandleWriteTally
  <1>4. ASSUME c' = handle_write(c, i, "error", 0)
        PROVE  Tally(c'.ses[i])
    <2>1. 0 \in Nat /\ 0 <= s.writing /\ s.sent = s.sent + 0
      BY <1>2, Numbers
    <2>2. s.filled - 0 \in 0 .. BufferSize
      BY <1>2, <2>1
    <2> QED
      BY <1>1, <1>2, <1>4, <2>1, <2>2, HandleWriteTally
  <1> QED
    BY <1>3, <1>4 DEF HandleWrite

\* What the manager posts to the sessions changes no books.
LEMMA PostTally ==
  ASSUME NEW S, NEW call, c \in Clients, c' = PostAll(c, S, call),
         NEW i \in Ids, Tally(c.ses[i])
  PROVE  Tally(c'.ses[i])
  <1> DEFINE s == c.ses[i]
             q == Append(s.queue, call)
             t == [s EXCEPT !.queue = q]
  <1>1. s \in SessionStates
    BY DEF Clients
  <1>2. c'.ses[i] = t \/ c'.ses[i] = s
    BY DEF PostAll, Clients
  <1> HIDE DEF q
  <1>3. t.ops = s.ops /\ Ledger(t, s)
    BY <1>1 DEF SessionStates, Ledger
  <1> HIDE DEF t
  <1> QED
    BY <1>2, <1>3 DEF Tally, Ledger

\* A step of the manager posts one call to some sessions, or none.
LEMMA ManagerPosts ==
  ASSUME ManagerStart \/ ManagerStop \/ NextBatchPosted \/ NextBatchTimer
  PROVE  /\ c' = c \/ \E S, call : c' = PostAll(c, S, call)
         /\ UNCHANGED <<main, stats>>
  <1>1. ASSUME NEW y, StartBatch(y) \/ StopSessions(y)
        PROVE  c' = c \/ \E S, call : c' = PostAll(c, S, call)
    <2>1. CASE StartBatch(y)
      BY <2>1 DEF StartBatch
    <2>2. CASE StopSessions(y)
      BY <2>2 DEF StopSessions
    <2> QED
      BY <1>1, <2>1, <2>2
  <1>2. ASSUME NEW y, NEW error, handle_scheduled_session_start(y, error)
        PROVE  c' = c \/ \E S, call : c' = PostAll(c, S, call)
    <2> DEFINE z == [y EXCEPT !.timer_in_progess = FALSE]
    <2>1. c' = c \/ StopSessions(z) \/ StartBatch(z)
      BY <1>2, Zenon DEF handle_scheduled_session_start
    <2> QED
      BY <1>1, <2>1
  <1>3. CASE ManagerStart
    BY <1>1, <1>3 DEF ManagerStart
  <1>4. CASE ManagerStop
    BY <1>1, <1>4 DEF ManagerStop
  <1>5. CASE NextBatchPosted
    BY <1>2, <1>5 DEF NextBatchPosted
  <1>6. CASE NextBatchTimer
    BY <1>2, <1>6 DEF NextBatchTimer
  <1> QED
    BY <1>3, <1>4, <1>5, <1>6

\* Every step keeps the books of every session.
LEMMA NextTally ==
  ASSUME PInv, Next, \A i \in Ids : Tally(c.ses[i])
  PROVE  \A i \in Ids : Tally(c'.ses[i])
  <1>0. c \in Clients
    BY DEF PInv, SessionsSound
  <1>1. CASE MainStart \/ MainStop \/ JoinManager \/ JoinSessions
    BY <1>1 DEF MainStart, MainStop, JoinManager, JoinSessions
  <1>2. CASE ManagerStart \/ ManagerStop \/ NextBatchPosted \/ NextBatchTimer
    <2>1. CASE c' = c
      BY <2>1
    <2>2. ASSUME NEW S, NEW call, c' = PostAll(c, S, call)
          PROVE  \A i \in Ids : Tally(c'.ses[i])
      BY <1>0, <2>2, PostTally
    <2> QED
      BY <1>2, <2>1, <2>2, ManagerPosts
  <1>3. ASSUME NEW i \in Ids,
               \/ SessionStart(i) \/ SessionStop(i)
               \/ HandleConnect(i) \/ HandleRead(i) \/ HandleWrite(i)
        PROVE  \A j \in Ids : Tally(c'.ses[j])
    <2>1. Tally(c'.ses[i])
      BY <1>3, SessionStartTally, SessionStopTally, HandleConnectTally,
         HandleReadTallies, HandleWriteTallies
    <2>2. Step(c, c', i)
      BY <1>3, SessionStartInv, SessionStopInv, HandleConnectInv, HandleReadInv,
         HandleWriteInv
    <2>3. \A j \in Ids : j # i => c'.ses[j] = c.ses[j]
      BY <2>2 DEF Step
    <2> QED
      BY <2>1, <2>3
  <1> QED
    BY <1>1, <1>2, <1>3 DEF Next

\* Nothing happens after the end.
LEMMA DoneStays ==
  ASSUME PInv, main = "done", Next
  PROVE  FALSE
  <1>1. /\ m.queue = <<>> /\ ~m.timer
        /\ \A i \in Ids : c.ses[i].queue = <<>> /\ c.ses[i].ops = {}
    BY DEF PInv, Quiet
  <1>2. \A call : Popped(call) = {} /\ \A i \in Ids : PoppedSession(i, call) = {}
    BY <1>1, Zenon DEF Popped, PoppedSession
  <1>3. ~MainStart /\ ~MainStop /\ ~JoinManager /\ ~JoinSessions
    BY DEF MainStart, MainStop, JoinManager, JoinSessions
  <1>4. ~ManagerStart /\ ~ManagerStop /\ ~NextBatchPosted
    BY <1>2, Zenon DEF ManagerStart, ManagerStop, NextBatchPosted
  <1>5. ~NextBatchTimer
    BY <1>1, Zenon DEF NextBatchTimer
  <1>6. \A i \in Ids : ~SessionStart(i) /\ ~SessionStop(i)
    BY <1>2, Zenon DEF SessionStart, SessionStop
  <1>7. \A i \in Ids : ~HandleConnect(i) /\ ~HandleRead(i) /\ ~HandleWrite(i)
    BY <1>1, Zenon DEF HandleConnect, HandleRead, HandleWrite
  <1> QED
    BY <1>3, <1>4, <1>5, <1>6, <1>7, Zenon DEF Next

-----------------------------------------------------------------------------
(***************************************************************************)
(* The sum of the statistics, session by session.                           *)
(***************************************************************************)
\* A set of numbers has a least one.
LEMMA LeastNumber ==
  ASSUME NEW T \in SUBSET Nat, T # {}
  PROVE  \E x \in T : \A y \in T : x <= y
  <1> DEFINE R == OpToRel(<, Nat)
  <1>1. IsWellFoundedOn(R, Nat)
    BY NatLessThanWellFounded, Zenon
  <1>2. \A p \in Nat, q \in Nat : p < q => <<p, q>> \in R
    BY DEF OpToRel
  <1> HIDE DEF R
  <1>3. PICK x \in T : \A y \in T : ~(<<y, x>> \in R)
    BY <1>1, WFMin, Zenon
  <1>4. ASSUME NEW y \in T PROVE x <= y
    <2>1. ~(y < x)
      BY <1>2, <1>3
    <2> QED
      BY <2>1
  <1> QED
    BY <1>4

\* g[k] is the sum of the first k values of v.
Sums(g, v, n) == g = [k \in 0 .. n |-> IF k = 0 THEN 0 ELSE g[k - 1] + v[k]]

\* g[k] is what register_stats has collected from the first k sessions.
Collects(g, st, ses, n) ==
  g = [k \in 0 .. n |-> IF k = 0 THEN st ELSE register_stats(g[k - 1], ses[k])]

\* There are such sums.
LEMMA SumsExist ==
  ASSUME NEW v, NEW n \in Nat PROVE \E g : Sums(g, v, n)
  <1> DEFINE T == {k \in Nat : ~\E g : Sums(g, v, k)}
  <1> SUFFICES ASSUME T # {} PROVE FALSE
    OBVIOUS
  <1>1. PICK k \in T : \A y \in T : k <= y
    BY LeastNumber
  <1>2. CASE k = 0
    <2> DEFINE g == [i \in 0 .. 0 |-> 0]
    <2>1. Sums(g, v, 0)
      BY DEF Sums
    <2> QED
      BY <1>1, <1>2, <2>1
  <1>3. CASE k # 0
    <2>1. k - 1 \in Nat /\ k - 1 \notin T
      BY <1>1, <1>3
    <2>2. PICK g : Sums(g, v, k - 1)
      BY <2>1
    <2> DEFINE e == [i \in 0 .. k |-> IF i = k THEN g[k - 1] + v[k] ELSE g[i]]
    <2>3. \A i \in 0 .. k - 1 : g[i] = IF i = 0 THEN 0 ELSE g[i - 1] + v[i]
      BY <2>2 DEF Sums
    <2>4. \A i \in 0 .. k : e[i] = IF i = 0 THEN 0 ELSE e[i - 1] + v[i]
      BY <1>1, <1>3, <2>3
    <2>5. Sums(e, v, k)
      BY <2>4 DEF Sums
    <2> QED
      BY <1>1, <2>5
  <1> QED
    BY <1>2, <1>3

\* SumOf is the last of them.
LEMMA SumOfIs ==
  ASSUME NEW v PROVE \E g : Sums(g, v, SessionCount) /\ SumOf(v) = g[SessionCount]
  <1> DEFINE P(g) == g = [k \in 0 .. SessionCount |->
                            IF k = 0 THEN 0 ELSE g[k - 1] + v[k]]
             g == CHOOSE g : P(g)
  <1>1. PICK f : P(f)
    BY SumsExist, PerfAssumption DEF Sums
  <1>2. P(g)
    BY <1>1, Zenon
  <1>3. SumOf(v) = g[SessionCount]
    BY Zenon DEF SumOf
  <1> HIDE DEF g
  <1>4. Sums(g, v, SessionCount)
    BY <1>2, Zenon DEF Sums
  <1> QED
    BY <1>3, <1>4

\* The sessions are asked one after the other.
LEMMA CollectsExist ==
  ASSUME NEW st, NEW ses, NEW n \in Nat PROVE \E g : Collects(g, st, ses, n)
  <1> DEFINE T == {k \in Nat : ~\E g : Collects(g, st, ses, k)}
  <1> SUFFICES ASSUME T # {} PROVE FALSE
    OBVIOUS
  <1>1. PICK k \in T : \A y \in T : k <= y
    BY LeastNumber
  <1>2. CASE k = 0
    <2> DEFINE g == [i \in 0 .. 0 |-> st]
    <2>1. Collects(g, st, ses, 0)
      BY DEF Collects
    <2> QED
      BY <1>1, <1>2, <2>1
  <1>3. CASE k # 0
    <2>1. k - 1 \in Nat /\ k - 1 \notin T
      BY <1>1, <1>3
    <2>2. PICK g : Collects(g, st, ses, k - 1)
      BY <2>1
    <2> DEFINE e == [i \in 0 .. k |->
                       IF i = k THEN register_stats(g[k - 1], ses[k]) ELSE g[i]]
    <2>3. \A i \in 0 .. k - 1 :
            g[i] = IF i = 0 THEN st ELSE register_stats(g[i - 1], ses[i])
      BY <2>2 DEF Collects
    <2>4. \A i \in 0 .. k :
            e[i] = IF i = 0 THEN st ELSE register_stats(e[i - 1], ses[i])
      BY <1>1, <1>3, <2>3
    <2>5. Collects(e, st, ses, k)
      BY <2>4 DEF Collects
    <2> QED
      BY <1>1, <2>5
  <1> QED
    BY <1>2, <1>3

\* main asks the sessions that were started.
LEMMA JoinCollects ==
  ASSUME JoinSessions, m.started_sessions_end \in Nat
  PROVE  \E g : /\ Collects(g, stats, c.ses, m.started_sessions_end)
                /\ stats' = g[m.started_sessions_end]
  <1> DEFINE n == m.started_sessions_end
             P(g) == g = [k \in 0 .. n |->
                            IF k = 0 THEN stats ELSE register_stats(g[k - 1], c.ses[k])]
             g == CHOOSE g : P(g)
  <1>1. PICK f : P(f)
    <2>1. n \in Nat
      OBVIOUS
    <2> HIDE DEF n
    <2>2. \E f : Collects(f, stats, c.ses, n)
      BY <2>1, CollectsExist
    <2> QED
      BY <2>2, Zenon DEF Collects
  <1>2. P(g)
    BY <1>1, Zenon
  <1>3. stats' = g[n]
    BY Zenon DEF JoinSessions
  <1> HIDE DEF g
  <1>4. Collects(g, stats, c.ses, n)
    BY <1>2, Zenon DEF Collects
  <1> QED
    BY <1>3, <1>4

\* The sessions among the first k that were ever connected.
Reached(ses, k) == {i \in 1 .. k : ses[i].established}

Statistics == [connected : Limited, written : Limited, read : Limited]

\* What is collected from the first k sessions is right; p and q are the sums of
\* what they sent and received.
Right(st, ses, k, p, q) ==
  /\ st \in Statistics /\ p \in Nat /\ q \in Nat
  /\ IsFiniteSet(Reached(ses, k))
  /\ Exact(st.connected, Cardinality(Reached(ses, k)))
  /\ Exact(st.written, p) /\ Exact(st.read, q)

\* register_stats: one session more.
LEMMA RegisterRight ==
  ASSUME NEW ses, NEW k \in Nat \ {0}, NEW st, NEW p, NEW q,
         Right(st, ses, k - 1, p, q), ses[k] \in SessionStates, Tally(ses[k])
  PROVE  Right(register_stats(st, ses[k]), ses, k, p + ses[k].sent, q + ses[k].rcvd)
  <1> DEFINE s == ses[k]
             t == register_stats(st, s)
             R == Reached(ses, k - 1)
  <1>1. /\ s.sent \in Nat /\ s.rcvd \in Nat /\ s.bytes_written \in Limited
        /\ s.bytes_read \in Limited /\ s.was_connected \in BOOLEAN
    BY DEF SessionStates
  <1>2. /\ st \in Statistics /\ p \in Nat /\ q \in Nat /\ IsFiniteSet(R)
        /\ Exact(st.connected, Cardinality(R))
        /\ Exact(st.written, p) /\ Exact(st.read, q)
    BY DEF Right
  <1>3. /\ st.connected \in Limited /\ st.written \in Limited /\ st.read \in Limited
        /\ Cardinality(R) \in Nat
    BY <1>2, FS_CardinalityType DEF Statistics
  <1>4. Reached(ses, k) = IF s.established THEN R \cup {k} ELSE R
    BY DEF Reached
  <1>5. k \notin R
    BY DEF Reached
  <1> HIDE DEF R
  <1>6. CASE s.established
    <2>1. t = stats_add(st, s.bytes_written, s.bytes_read)
      BY <1>6, Zenon DEF register_stats, Tally
    <2>2. Exact(s.bytes_written, s.sent) /\ Exact(s.bytes_read, s.rcvd)
      BY DEF Tally
    <2> DEFINE a == increment(st.connected)
               w == add(st.written, s.bytes_written)
               r == add(st.read, s.bytes_read)
    <2>3. a \in Limited /\ Exact(a, Cardinality(R) + 1)
      BY <1>2, <1>3, IncrementExact
    <2>4. w \in Limited /\ Exact(w, p + s.sent)
      BY <1>1, <1>2, <1>3, <2>2, AddExact
    <2>5. r \in Limited /\ Exact(r, q + s.rcvd)
      BY <1>1, <1>2, <1>3, <2>2, AddExact
    <2>6. t = [connected |-> a, written |-> w, read |-> r]
      BY <2>1, Zenon DEF stats_add
    <2> HIDE DEF a, w, r, t
    <2>7. /\ t \in Statistics /\ t.connected = a /\ t.written = w /\ t.read = r
      BY <2>3, <2>4, <2>5, <2>6 DEF Statistics
    <2>8. /\ IsFiniteSet(Reached(ses, k))
          /\ Cardinality(Reached(ses, k)) = Cardinality(R) + 1
      <3>1. Reached(ses, k) = R \cup {k}
        BY <1>4, <1>6, Zenon
      <3> QED
        BY <1>2, <1>5, <3>1, FS_AddElement
    <2>9. p + s.sent \in Nat /\ q + s.rcvd \in Nat
      BY <1>1, <1>2
    <2> QED
      BY <2>3, <2>4, <2>5, <2>7, <2>8, <2>9 DEF Right, t
  <1>7. CASE ~s.established
    <2>1. s.sent = 0 /\ s.rcvd = 0 /\ ~s.was_connected
      BY <1>1, <1>7 DEF Tally
    <2>2. t = st
      BY <2>1, Zenon DEF register_stats
    <2>3. Reached(ses, k) = R
      BY <1>4, <1>7, Zenon
    <2>4. p + s.sent = p /\ q + s.rcvd = q
      BY <1>2, <2>1
    <2> HIDE DEF t
    <2>5. Right(t, ses, k, p + s.sent, q + s.rcvd)
      BY <1>2, <2>2, <2>3, <2>4 DEF Right
    <2> QED
      BY <2>5 DEF t
  <1> QED
    BY <1>6, <1>7

\* What main has after k sessions.
LEMMA CollectRight ==
  ASSUME NEW ses, NEW e \in Nat, NEW n \in Nat, e <= n,
         \A i \in 1 .. n : ses[i] \in SessionStates /\ Tally(ses[i]),
         NEW st, Right(st, ses, 0, 0, 0),
         NEW g, Collects(g, st, ses, e),
         NEW v, \A i \in 1 .. n : v[i] = ses[i].sent,
         NEW u, \A i \in 1 .. n : u[i] = ses[i].rcvd,
         NEW p, Sums(p, v, n), NEW q, Sums(q, u, n), NEW k \in 0 .. e
  PROVE  Right(g[k], ses, k, p[k], q[k])
  <1> DEFINE T == {j \in Nat : j <= e /\ ~Right(g[j], ses, j, p[j], q[j])}
  <1> SUFFICES ASSUME T # {} PROVE FALSE
    OBVIOUS
  <1>1. PICK j \in T : \A y \in T : j <= y
    BY LeastNumber
  <1>2. j \in Nat /\ j <= e /\ j \in 0 .. n /\ j \in 0 .. e
    OBVIOUS
  <1>3. CASE j = 0
    <2>1. g[0] = st /\ p[0] = 0 /\ q[0] = 0
      BY <1>2, <1>3 DEF Collects, Sums
    <2> QED
      BY <1>1, <1>3, <2>1
  <1>4. CASE j # 0
    <2>1. j - 1 \in Nat /\ j - 1 <= e /\ j - 1 \notin T /\ j \in 1 .. n
      BY <1>1, <1>2, <1>4
    <2>2. Right(g[j - 1], ses, j - 1, p[j - 1], q[j - 1])
      BY <2>1
    <2>3. /\ g[j] = register_stats(g[j - 1], ses[j])
          /\ p[j] = p[j - 1] + v[j] /\ q[j] = q[j - 1] + u[j]
      BY <1>2, <1>4 DEF Collects, Sums
    <2>4. v[j] = ses[j].sent /\ u[j] = ses[j].rcvd /\ ses[j] \in SessionStates
          /\ Tally(ses[j]) /\ j \in Nat \ {0}
      BY <1>4, <2>1
    <2>5. Right(g[j], ses, j, p[j], q[j])
      BY <2>2, <2>3, <2>4, RegisterRight
    <2> QED
      BY <1>1, <2>5
  <1> QED
    BY <1>3, <1>4

\* Values that are zero from e on add nothing.
LEMMA SumsStay ==
  ASSUME NEW e \in Nat, NEW n \in Nat, e <= n, NEW v, NEW p, Sums(p, v, n),
         p[e] \in Nat, \A i \in 1 .. n : i > e => v[i] = 0
  PROVE  p[n] = p[e]
  <1> DEFINE T == {j \in Nat : e <= j /\ j <= n /\ p[j] # p[e]}
  <1>1. CASE T = {}
    BY <1>1
  <1>2. CASE T # {}
    <2>1. PICK j \in T : \A y \in T : j <= y
      BY <1>2, LeastNumber
    <2>2. j # e /\ j \in Nat /\ e <= j /\ j <= n
      OBVIOUS
    <2>3. j \in 1 .. n /\ j > e /\ j - 1 \in Nat /\ j - 1 \notin T
      BY <2>1, <2>2
    <2>4. p[j - 1] = p[e]
      BY <2>2, <2>3
    <2>5. p[j] = p[j - 1] + v[j]
      BY <2>2, <2>3 DEF Sums
    <2>6. p[j] = p[e]
      BY <2>3, <2>4, <2>5
    <2> QED
      BY <2>1, <2>6
  <1> QED
    BY <1>1, <1>2

\* The inductive invariant of the statistics.
StatsInv ==
  /\ PInv /\ StatsComplete
  /\ \A i \in Ids : Tally(c.ses[i])
  /\ main # "done" => stats = NoStats

\* Nothing has been collected yet.
LEMMA NoStatsRight ==
  ASSUME NEW ses PROVE NoStats \in Statistics /\ Right(NoStats, ses, 0, 0, 0)
  <1> DEFINE zero == limited_int(0)
  <1>1. zero \in Limited /\ Exact(zero, 0)
    BY LimitedAssumption DEF limited_int, Limited, Exact
  <1>2. NoStats = [connected |-> zero, written |-> zero, read |-> zero]
    BY Zenon DEF NoStats
  <1> HIDE DEF zero
  <1>3. /\ NoStats \in Statistics /\ NoStats.connected = zero
        /\ NoStats.written = zero /\ NoStats.read = zero
    BY <1>1, <1>2 DEF Statistics
  <1>4. Reached(ses, 0) = {}
    BY DEF Reached
  <1>5. IsFiniteSet({}) /\ Cardinality({}) = 0
    BY FS_EmptySet
  <1> QED
    BY <1>1, <1>3, <1>4, <1>5 DEF Right

\* When main has joined the sessions, the statistics are complete: a session
\* that was not started has nothing to add.
LEMMA JoinComplete ==
  ASSUME StatsInv, JoinSessions PROVE StatsComplete'
  <1> DEFINE e == m.started_sessions_end
             sent == [i \in Ids |-> c.ses[i].sent]
             rcvd == [i \in Ids |-> c.ses[i].rcvd]
  <1>1. e \in Nat /\ e <= SessionCount /\ SessionCount \in Nat
    <2>1. e \in 0 .. SessionCount
      BY DEF StatsInv, PInv, ManagerStates
    <2> QED
      BY <2>1, PerfAssumption
  <1>2. c' = c /\ stats = NoStats
    BY DEF JoinSessions, StatsInv
  <1>3. \A i \in 1 .. SessionCount : c.ses[i] \in SessionStates /\ Tally(c.ses[i])
    BY DEF StatsInv, PInv, SessionsSound, SesSound, Base, Ids
  <1>4. PICK g : Collects(g, stats, c.ses, e) /\ stats' = g[e]
    BY <1>1, JoinCollects
  <1>5. /\ \A i \in 1 .. SessionCount : sent[i] = c.ses[i].sent
        /\ \A i \in 1 .. SessionCount : rcvd[i] = c.ses[i].rcvd
    BY DEF Ids
  <1> HIDE DEF sent, rcvd, e
  <1>6. PICK p : Sums(p, sent, SessionCount) /\ SumOf(sent) = p[SessionCount]
    BY SumOfIs
  <1>7. PICK q : Sums(q, rcvd, SessionCount) /\ SumOf(rcvd) = q[SessionCount]
    BY SumOfIs
  <1>8. Right(stats, c.ses, 0, 0, 0)
    BY <1>2, NoStatsRight
  <1>9. Right(g[e], c.ses, e, p[e], q[e])
    <2>1. e \in 0 .. e
      BY <1>1
    <2> QED
      BY <1>1, <1>3, <1>4, <1>5, <1>6, <1>7, <1>8, <2>1, CollectRight
  <1>10. \A i \in 1 .. SessionCount : i > e =>
           ~c.ses[i].established /\ c.ses[i].sent = 0 /\ c.ses[i].rcvd = 0
    <2> SUFFICES ASSUME NEW i \in 1 .. SessionCount, i > e
                 PROVE  ~c.ses[i].established /\ c.ses[i].sent = 0 /\ c.ses[i].rcvd = 0
      OBVIOUS
    <2>1. Fresh(c.ses[i])
      BY DEF StatsInv, PInv, Posted, Ids, e
    <2> QED
      BY <1>3, <2>1 DEF Fresh, Tally
  <1>11. p[SessionCount] = p[e]
    <2>1. \A i \in 1 .. SessionCount : i > e => sent[i] = 0
      BY <1>5, <1>10
    <2>2. p[e] \in Nat
      BY <1>9 DEF Right
    <2> QED
      BY <1>1, <1>6, <2>1, <2>2, SumsStay
  <1>12. q[SessionCount] = q[e]
    <2>1. \A i \in 1 .. SessionCount : i > e => rcvd[i] = 0
      BY <1>5, <1>10
    <2>2. q[e] \in Nat
      BY <1>9 DEF Right
    <2> QED
      BY <1>1, <1>7, <2>1, <2>2, SumsStay
  <1>13. {i \in Ids : c.ses[i].established} = Reached(c.ses, e)
    BY <1>1, <1>10 DEF Reached, Ids
  <1>14. /\ stats' \in Statistics
         /\ Exact(stats'.connected, Cardinality({i \in Ids : c.ses[i].established}))
         /\ Exact(stats'.written, SumOf(sent)) /\ Exact(stats'.read, SumOf(rcvd))
    <2>1. SumOf(sent) = p[e] /\ SumOf(rcvd) = q[e]
      BY <1>6, <1>7, <1>11, <1>12
    <2> QED
      BY <1>4, <1>9, <1>13, <2>1 DEF Right
  <1> QED
    BY <1>2, <1>14 DEF StatsComplete, Statistics, sent, rcvd

\* The statistics when main begins.
LEMMA StatsInit == Init => StatsInv
  <1> SUFFICES ASSUME Init PROVE StatsInv
    OBVIOUS
  <1>1. PInv /\ main # "done" /\ stats = NoStats
    BY InitInv DEF Init
  <1>2. \A i \in Ids : c.ses[i] = session
    BY DEF Init
  <1>3. Tally(session)
    <2> DEFINE zero == limited_int(0)
    <2>1. zero \in Limited /\ Exact(zero, 0)
      BY LimitedAssumption DEF limited_int, Limited, Exact
    <2>2. /\ session.bytes_written = zero /\ session.bytes_read = zero
          /\ session.sent = 0 /\ session.rcvd = 0 /\ session.ops = {}
          /\ ~session.established /\ session.was_connected = session.established
      BY DEF session
    <2> HIDE DEF zero
    <2> QED
      BY <2>1, <2>2 DEF Tally
  <1>4. NoStats \in Statistics
    BY NoStatsRight
  <1> QED
    BY <1>1, <1>2, <1>3, <1>4 DEF StatsInv, StatsComplete, Statistics

\* Every step keeps the statistics right.
LEMMA StatsNext == StatsInv /\ [Next]_vars => StatsInv'
  <1> SUFFICES ASSUME StatsInv, [Next]_vars PROVE StatsInv'
    OBVIOUS
  <1>1. PInv /\ PInv'
    BY NextInv DEF StatsInv
  <1>2. CASE UNCHANGED vars
    BY <1>1, <1>2 DEF StatsInv, StatsComplete, vars
  <1>3. CASE Next
    <2>1. main # "done"
      BY <1>1, <1>3, DoneStays
    <2>2. \A i \in Ids : Tally(c'.ses[i])
      BY <1>1, <1>3, NextTally DEF StatsInv
    <2>3. CASE JoinSessions
      <3>1. StatsComplete' /\ main' = "done"
        BY <2>3, JoinComplete DEF JoinSessions
      <3> QED
        BY <1>1, <2>2, <3>1 DEF StatsInv
    <2>4. CASE ~JoinSessions
      <3>1. main' # "done" /\ stats' = stats
        <4>1. CASE MainStart \/ MainStop \/ JoinManager
          BY <4>1 DEF MainStart, MainStop, JoinManager
        <4>2. CASE ManagerStart \/ ManagerStop \/ NextBatchPosted \/ NextBatchTimer
          BY <2>1, <4>2, ManagerPosts
        <4>3. ASSUME NEW i \in Ids,
                     \/ SessionStart(i) \/ SessionStop(i)
                     \/ HandleConnect(i) \/ HandleRead(i) \/ HandleWrite(i)
              PROVE  main' # "done" /\ stats' = stats
          BY <2>1, <4>3 DEF SessionStart, SessionStop, HandleConnect, HandleRead,
                            HandleWrite
        <4> QED
          BY <1>3, <2>4, <4>1, <4>2, <4>3 DEF Next
      <3>2. stats' = NoStats /\ stats' \in Statistics
        BY <2>1, <3>1, NoStatsRight DEF StatsInv
      <3> QED
        BY <1>1, <2>2, <3>1, <3>2 DEF StatsInv, StatsComplete, Statistics
    <2> QED
      BY <2>3, <2>4
  <1> QED
    BY <1>2, <1>3

\* register_stats and the counters of the sessions: the statistics printed at
\* the end count every connection that was ever established and every byte that
\* was transferred, those of sessions that were stopped or had failed meanwhile
\* included, up to the limit of the counters and with the mark of an overflow
\* beyond it, for any number of sessions and any width of the counters.
THEOREM StatisticsComplete == Spec => []StatsComplete
  <1>1. Spec => []StatsInv
    BY StatsInit, StatsNext, PTL DEF Spec
  <1>2. StatsInv => StatsComplete
    BY DEF StatsInv
  <1> QED
    BY <1>1, <1>2, PTL
=============================================================================

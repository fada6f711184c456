------------------------ MODULE QtEchoServerProofs ------------------------
(***************************************************************************)
(* Proofs about module QtEchoServer, for any number of servers and of dying *)
(* threads: however the events of earlier servers, the answers of the       *)
(* present one and the clicks of the user interleave, the form shows the    *)
(* service as it is and every start and stop is answered once.              *)
(***************************************************************************)
EXTENDS QtEchoServer, FiniteSetTheorems, SequenceTheorems, TLAPS

-----------------------------------------------------------------------------
(***************************************************************************)
(* The states of the window and its server, and the events it has.          *)
(***************************************************************************)
Signals ==
  [from : {"servant", "forward"},
   op : {"start", "wait", "stop", "work", "exception"}, error : Api!Errors]

Servers == [alive : BOOLEAN, queue : Seq(Api!Calls), api : Api!ApiStates]

Windows ==
  [state : ServiceState, events : Seq(Signals), shown : ServiceState,
   statsTimer : BOOLEAN, closed : BOOLEAN, owed : [start : Int, stop : Int]]

Uses == [g : Windows, srv : Seq(Servers)]

One(b) == IF b THEN 1 ELSE 0

Occurs(q, from, op) == {k \in DOMAIN q : q[k].from = from /\ q[k].op = op}
Num(q, from, op) == Cardinality(Occurs(q, from, op))

\* p holds the events of q and one of the signal named.
Extra(p, q, from, op) ==
  /\ Num(p, "forward", "start") =
       Num(q, "forward", "start") + One(from = "forward" /\ op = "start")
  /\ Num(p, "forward", "stop") =
       Num(q, "forward", "stop") + One(from = "forward" /\ op = "stop")
  /\ Num(p, "servant", "start") =
       Num(q, "servant", "start") + One(from = "servant" /\ op = "start")
  /\ Num(p, "servant", "stop") =
       Num(q, "servant", "stop") + One(from = "servant" /\ op = "stop")
  /\ Num(p, "servant", "exception") =
       Num(q, "servant", "exception") + One(from = "servant" /\ op = "exception")

\* Events are counted in natural numbers.
LEMMA NumType ==
  ASSUME NEW q \in Seq(Signals), NEW from, NEW op
  PROVE  Num(q, from, op) \in Nat /\ IsFiniteSet(Occurs(q, from, op))
  <1>1. DOMAIN q = 1 .. Len(q) /\ Len(q) \in Nat
    OBVIOUS
  <1>2. IsFiniteSet(1 .. Len(q))
    BY <1>1, FS_Interval
  <1>3. Occurs(q, from, op) \in SUBSET (1 .. Len(q))
    BY <1>1 DEF Occurs
  <1>4. IsFiniteSet(Occurs(q, from, op))
    BY <1>2, <1>3, FS_Subset
  <1> QED
    BY <1>4, FS_CardinalityType DEF Num

\* An event that is posted is counted.
LEMMA NumAppend ==
  ASSUME NEW q \in Seq(Signals), NEW e \in Signals, NEW from, NEW op
  PROVE  Num(Append(q, e), from, op) =
           Num(q, from, op) + One(e.from = from /\ e.op = op)
  <1> DEFINE r == Append(q, e)
             n == Len(q) + 1
  <1>1. /\ r \in Seq(Signals) /\ Len(r) = n /\ r[n] = e /\ n \in Nat
        /\ \A k \in 1 .. Len(q) : r[k] = q[k]
        /\ DOMAIN r = 1 .. n /\ DOMAIN q = 1 .. Len(q) /\ Len(q) \in Nat
    OBVIOUS
  <1>2. Num(q, from, op) \in Nat /\ IsFiniteSet(Occurs(q, from, op))
    BY NumType
  <1>3. n \notin Occurs(q, from, op)
    BY <1>1 DEF Occurs
  <1> HIDE DEF r
  <1>4. CASE e.from = from /\ e.op = op
    <2>1. Occurs(r, from, op) = Occurs(q, from, op) \cup {n}
      BY <1>1, <1>4 DEF Occurs
    <2>2. Num(r, from, op) = Num(q, from, op) + 1
      BY <1>2, <1>3, <2>1, FS_AddElement DEF Num
    <2> QED
      BY <1>2, <1>4, <2>2 DEF One, r
  <1>5. CASE ~(e.from = from /\ e.op = op)
    <2>1. Occurs(r, from, op) = Occurs(q, from, op)
      BY <1>1, <1>5 DEF Occurs
    <2> QED
      BY <1>2, <1>5, <2>1 DEF One, r, Num
  <1> QED
    BY <1>4, <1>5

\* An event that is taken was counted.
LEMMA NumTail ==
  ASSUME NEW q \in Seq(Signals), q # <<>>, NEW from, NEW op
  PROVE  Num(q, from, op) =
           Num(Tail(q), from, op) + One(Head(q).from = from /\ Head(q).op = op)
  <1> DEFINE r == Tail(q)
             P == Occurs(r, from, op)
             Q == Occurs(q, from, op) \ {1}
             f == [j \in P |-> j + 1]
  <1>1. /\ r \in Seq(Signals) /\ Len(r) = Len(q) - 1 /\ Head(q) = q[1]
        /\ \A k \in 1 .. Len(r) : r[k] = q[k + 1]
        /\ DOMAIN r = 1 .. Len(r) /\ DOMAIN q = 1 .. Len(q)
        /\ Len(q) \in Nat /\ Len(r) \in Nat
    OBVIOUS
  <1>2. /\ Num(q, from, op) \in Nat /\ IsFiniteSet(Occurs(q, from, op))
        /\ Num(r, from, op) \in Nat /\ IsFiniteSet(P)
    BY <1>1, NumType
  <1> HIDE DEF r
  <1>3. f \in [P -> Q]
    BY <1>1 DEF Occurs
  <1>4. \A i, j \in P : f[i] = f[j] => i = j
    BY <1>1 DEF Occurs
  <1>5. ASSUME NEW p \in Q PROVE \E j \in P : f[j] = p
    <2>1. p \in 1 .. Len(q) /\ q[p].from = from /\ q[p].op = op /\ p # 1
      BY <1>1 DEF Occurs
    <2>2. /\ p - 1 \in 1 .. Len(r) /\ (p - 1) + 1 = p
      BY <1>1, <2>1
    <2>3. r[p - 1] = q[p]
      BY <1>1, <2>2
    <2>4. p - 1 \in P
      BY <1>1, <2>1, <2>2, <2>3 DEF Occurs
    <2> QED
      BY <2>2, <2>4
  <1>6. 1 \in Occurs(q, from, op) <=> Head(q).from = from /\ Head(q).op = op
    BY <1>1 DEF Occurs
  <1>7. Cardinality(Q) = IF 1 \in Occurs(q, from, op) THEN Num(q, from, op) - 1
                         ELSE Num(q, from, op)
    BY <1>2, FS_RemoveElement DEF Num
  <1> HIDE DEF f, P, Q
  <1>8. f \in Bijection(P, Q)
    BY <1>3, <1>4, <1>5 DEF Bijection, Injection, Surjection, IsInjective
  <1>9. Cardinality(Q) = Cardinality(P)
    BY <1>2, <1>8, FS_Bijection DEF ExistsBijection
  <1>10. Cardinality(P) = Num(r, from, op)
    BY DEF P, Num
  <1> QED
    BY <1>2, <1>6, <1>7, <1>9, <1>10 DEF One, r

\* What posting an event does to the counts.
LEMMA ExtraAppend ==
  ASSUME NEW q \in Seq(Signals), NEW e \in Signals
  PROVE  Extra(Append(q, e), q, e.from, e.op)
  <1>1. Num(Append(q, e), "forward", "start") =
          Num(q, "forward", "start") + One(e.from = "forward" /\ e.op = "start")
    BY NumAppend
  <1>2. Num(Append(q, e), "forward", "stop") =
          Num(q, "forward", "stop") + One(e.from = "forward" /\ e.op = "stop")
    BY NumAppend
  <1>3. Num(Append(q, e), "servant", "start") =
          Num(q, "servant", "start") + One(e.from = "servant" /\ e.op = "start")
    BY NumAppend
  <1>4. Num(Append(q, e), "servant", "stop") =
          Num(q, "servant", "stop") + One(e.from = "servant" /\ e.op = "stop")
    BY NumAppend
  <1>5. Num(Append(q, e), "servant", "exception") =
          Num(q, "servant", "exception") + One(e.from = "servant" /\ e.op = "exception")
    BY NumAppend
  <1> QED
    BY <1>1, <1>2, <1>3, <1>4, <1>5 DEF Extra

\* What taking one does to them.
LEMMA ExtraTail ==
  ASSUME NEW q \in Seq(Signals), q # <<>>
  PROVE  Extra(q, Tail(q), Head(q).from, Head(q).op)
  <1>1. Num(q, "forward", "start") = Num(Tail(q), "forward", "start")
          + One(Head(q).from = "forward" /\ Head(q).op = "start")
    BY NumTail
  <1>2. Num(q, "forward", "stop") = Num(Tail(q), "forward", "stop")
          + One(Head(q).from = "forward" /\ Head(q).op = "stop")
    BY NumTail
  <1>3. Num(q, "servant", "start") = Num(Tail(q), "servant", "start")
          + One(Head(q).from = "servant" /\ Head(q).op = "start")
    BY NumTail
  <1>4. Num(q, "servant", "stop") = Num(Tail(q), "servant", "stop")
          + One(Head(q).from = "servant" /\ Head(q).op = "stop")
    BY NumTail
  <1>5. Num(q, "servant", "exception") = Num(Tail(q), "servant", "exception")
          + One(Head(q).from = "servant" /\ Head(q).op = "exception")
    BY NumTail
  <1> QED
    BY <1>1, <1>2, <1>3, <1>4, <1>5 DEF Extra

-----------------------------------------------------------------------------
(***************************************************************************)
(* The functions of the Service and of the form, member by member.          *)
(***************************************************************************)
Has(y, srvs, state, events, shown, timer, starts, stops) ==
  /\ y \in Uses /\ y.g.closed = FALSE
  /\ y.srv = srvs /\ y.g.state = state /\ y.g.events = events
  /\ y.g.shown = shown /\ y.g.statsTimer = timer
  /\ y.g.owed.start = starts /\ y.g.owed.stop = stops

Opened(x) == x \in Uses /\ x.g.closed = FALSE

\* A window has its own members.
LEMMA OpenedHas ==
  ASSUME NEW x, Opened(x)
  PROVE  Has(x, x.srv, x.g.state, x.g.events, x.g.shown, x.g.statsTimer,
             x.g.owed.start, x.g.owed.stop)
  BY DEF Opened, Has

\* Become sets the state.
LEMMA BecomeHas ==
  ASSUME NEW x, Opened(x), NEW state \in ServiceState
  PROVE  Has(Become(x, state), x.srv, state, x.g.events, x.g.shown,
             x.g.statsTimer, x.g.owed.start, x.g.owed.stop)
  BY DEF Opened, Has, Become, Uses, Windows

\* Become leaves the other members as they were.
LEMMA BecomeFrom ==
  ASSUME NEW x, NEW srvs, NEW old, NEW events, NEW shown, NEW timer, NEW starts,
         NEW stops, Has(x, srvs, old, events, shown, timer, starts, stops),
         NEW state \in ServiceState
  PROVE  Has(Become(x, state), srvs, state, events, shown, timer, starts, stops)
  <1> DEFINE y == Become(x, state)
  <1>1. Opened(x)
    BY DEF Has, Opened
  <1>2. Has(y, x.srv, state, x.g.events, x.g.shown, x.g.statsTimer,
            x.g.owed.start, x.g.owed.stop)
    BY <1>1, BecomeHas
  <1> HIDE DEF y
  <1>3. Has(y, srvs, state, events, shown, timer, starts, stops)
    BY <1>2 DEF Has
  <1> QED
    BY <1>3 DEF y

\* forwardSignal posts an event.
LEMMA ForwardHas ==
  ASSUME NEW x, Opened(x), NEW op \in {"start", "stop", "work"},
         NEW error \in {"invalid_state", "operation_aborted"}
  PROVE  /\ Has(forwardSignal(x, op, error), x.srv, x.g.state,
                Append(x.g.events, Event("forward", op, error)), x.g.shown,
                x.g.statsTimer, x.g.owed.start, x.g.owed.stop)
         /\ Extra(forwardSignal(x, op, error).g.events, x.g.events, "forward", op)
  <1> DEFINE e == Event("forward", op, error)
             p == Append(x.g.events, e)
  <1>1. e \in Signals /\ e.from = "forward" /\ e.op = op
    BY DEF Event, Signals, Api!Errors
  <1> HIDE DEF e
  <1>2. x.g.events \in Seq(Signals)
    BY DEF Opened, Uses, Windows
  <1>3. p \in Seq(Signals) /\ Extra(p, x.g.events, "forward", op)
    BY <1>1, <1>2, ExtraAppend
  <1>4. forwardSignal(x, op, error) = [x EXCEPT !.g.events = p]
    BY Zenon DEF forwardSignal, e
  <1> HIDE DEF p
  <1>5. Has([x EXCEPT !.g.events = p], x.srv, x.g.state, p, x.g.shown,
            x.g.statsTimer, x.g.owed.start, x.g.owed.stop)
    BY <1>3 DEF Opened, Has, Uses, Windows
  <1> QED
    BY <1>3, <1>4, <1>5 DEF p, e, Has

\* async_call appends the call to the queue of the server.
LEMMA CallHas ==
  ASSUME NEW x, Opened(x), Len(x.srv) = 1, NEW call \in Api!Calls
  PROVE  LET y == async_call(x, call)
         IN  /\ Has(y, y.srv, x.g.state, x.g.events, x.g.shown,
                    x.g.statsTimer, x.g.owed.start, x.g.owed.stop)
             /\ Len(y.srv) = 1 /\ y.srv[1].alive = x.srv[1].alive
             /\ y.srv[1].queue = Append(x.srv[1].queue, call)
             /\ y.srv[1].api = x.srv[1].api
  <1> DEFINE v == x.srv[1]
             q == Append(v.queue, call)
             u == [v EXCEPT !.queue = q]
             w == [x.srv EXCEPT ![1] = u]
             y == [x EXCEPT !.srv = w]
  <1>1. x.srv \in Seq(Servers) /\ v \in Servers
    BY DEF Opened, Uses
  <1>2. async_call(x, call) = y
    BY <1>1, Zenon DEF async_call
  <1>3. q \in Seq(Api!Calls)
    BY <1>1 DEF Servers
  <1> HIDE DEF q
  <1>4. u \in Servers /\ u.alive = v.alive /\ u.queue = q /\ u.api = v.api
    BY <1>1, <1>3 DEF Servers
  <1> HIDE DEF u
  <1>5. w \in Seq(Servers) /\ Len(w) = 1 /\ w[1] = u
    BY <1>1, <1>4
  <1> HIDE DEF w
  <1>6. Has(y, w, x.g.state, x.g.events, x.g.shown,
            x.g.statsTimer, x.g.owed.start, x.g.owed.stop)
    BY <1>5 DEF Opened, Has, Uses
  <1>7. y.srv = w
    BY <1>6 DEF Has
  <1> QED
    BY <1>2, <1>4, <1>5, <1>6, <1>7 DEF q

\* A fresh server is one the program may call.
LEMMA ServerFresh ==
  /\ server \in Servers /\ server.alive /\ server.queue = <<>>
  /\ server.api = Api!Fresh
  <1>1. Api!Fresh \in Api!ApiStates
    BY DEF Api!Fresh, Api!ApiStates, Api!Errors, Api!Calls
  <1>2. server = [alive |-> TRUE, queue |-> <<>>, api |-> Api!Fresh]
    BY Zenon DEF server
  <1> QED
    BY <1>1, <1>2 DEF Servers

\* createServant makes a server, destroyServant leaves none.
LEMMA CreateHas ==
  ASSUME NEW x, Opened(x)
  PROVE  Has(createServant(x), <<server>>, x.g.state, x.g.events,
             x.g.shown, x.g.statsTimer, x.g.owed.start, x.g.owed.stop)
  <1>1. <<server>> \in Seq(Servers)
    BY ServerFresh
  <1>2. createServant(x) = [x EXCEPT !.srv = <<server>>]
    BY Zenon DEF createServant
  <1> DEFINE w == <<server>>
  <1> HIDE DEF w
  <1>3. Has([x EXCEPT !.srv = w], w, x.g.state, x.g.events,
            x.g.shown, x.g.statsTimer, x.g.owed.start, x.g.owed.stop)
    BY <1>1 DEF Opened, Has, Uses, w
  <1> QED
    BY <1>2, <1>3 DEF w

\* destroyServant takes the only server away.
LEMMA DestroyHas ==
  ASSUME NEW x, Opened(x), Len(x.srv) = 1
  PROVE  Has(destroyServant(x), <<>>, x.g.state, x.g.events,
             x.g.shown, x.g.statsTimer, x.g.owed.start, x.g.owed.stop)
  <1>1. x.srv \in Seq(Servers)
    BY DEF Opened, Uses
  <1>2. Tail(x.srv) \in Seq(Servers) /\ Len(Tail(x.srv)) = 0
    BY <1>1
  <1>3. Tail(x.srv) = <<>>
    BY <1>2, EmptySeq
  <1> QED
    BY <1>2, <1>3 DEF Opened, Has, destroyServant, Uses

\* The form shows the state.
LEMMA UpdateHas ==
  ASSUME NEW x, Opened(x)
  PROVE  Has(updateWidgetsStates(x), x.srv, x.g.state, x.g.events,
             x.g.state, x.g.statsTimer, x.g.owed.start, x.g.owed.stop)
  BY DEF Opened, Has, updateWidgetsStates, Uses, Windows

\* The form shows the state and stops the timer of a stopped service.
LEMMA RefreshHas ==
  ASSUME NEW x, Opened(x)
  PROVE  Has(Refresh(x), x.srv, x.g.state, x.g.events, x.g.state,
             x.g.statsTimer /\ x.g.state # "Stopped",
             x.g.owed.start, x.g.owed.stop)
  <1> DEFINE y == conditionalStopStatsTimer(x)
  <1>1. Has(y, x.srv, x.g.state, x.g.events, x.g.shown,
            x.g.statsTimer /\ x.g.state # "Stopped",
            x.g.owed.start, x.g.owed.stop)
    <2>1. CASE x.g.state = "Stopped"
      <3>1. y = [x EXCEPT !.g.statsTimer = FALSE]
        BY <2>1, Zenon DEF conditionalStopStatsTimer
      <3>2. Has([x EXCEPT !.g.statsTimer = FALSE], x.srv, x.g.state, x.g.events,
                x.g.shown, FALSE, x.g.owed.start, x.g.owed.stop)
        BY DEF Opened, Has, Uses, Windows
      <3> HIDE DEF y
      <3> QED
        BY <2>1, <3>1, <3>2
    <2>2. CASE x.g.state # "Stopped"
      <3>1. y = x
        BY <2>2, Zenon DEF conditionalStopStatsTimer
      <3>2. x.g.statsTimer \in BOOLEAN
        BY DEF Opened, Uses, Windows
      <3> QED
        BY <2>2, <3>1, <3>2 DEF Opened, Has
    <2> QED
      BY <2>1, <2>2
  <1> HIDE DEF y
  <1>2. Opened(y)
    BY <1>1 DEF Opened, Has
  <1>3. Refresh(x) = updateWidgetsStates(y)
    BY Zenon DEF Refresh, y
  <1>4. Has(updateWidgetsStates(y), y.srv, y.g.state, y.g.events, y.g.state,
            y.g.statsTimer, y.g.owed.start, y.g.owed.stop)
    BY <1>2, UpdateHas
  <1>5. Has(Refresh(x), y.srv, y.g.state, y.g.events, y.g.state,
            y.g.statsTimer, y.g.owed.start, y.g.owed.stop)
    BY <1>3, <1>4
  <1> QED
    BY <1>1, <1>5 DEF Has

OweStarts(x, n) == [x EXCEPT !.g.owed.start = n]
OweStops(x, n) == [x EXCEPT !.g.owed.stop = n]

\* One start more, or fewer, is to be answered.
LEMMA OwedStartHas ==
  ASSUME NEW x, Opened(x), NEW n \in Int
  PROVE  Has(OweStarts(x, n), x.srv, x.g.state, x.g.events,
             x.g.shown, x.g.statsTimer, n, x.g.owed.stop)
  BY DEF OweStarts, Opened, Has, Uses, Windows

\* One stop more, or fewer, is to be answered.
LEMMA OwedStopHas ==
  ASSUME NEW x, Opened(x), NEW n \in Int
  PROVE  Has(OweStops(x, n), x.srv, x.g.state, x.g.events,
             x.g.shown, x.g.statsTimer, x.g.owed.start, n)
  BY DEF OweStops, Opened, Has, Uses, Windows

\* The timer of the statistics is started.
LEMMA TimerHas ==
  ASSUME NEW x, Opened(x)
  PROVE  Has([x EXCEPT !.g.statsTimer = TRUE], x.srv, x.g.state, x.g.events,
             x.g.shown, TRUE, x.g.owed.start, x.g.owed.stop)
  BY DEF Opened, Has, Uses, Windows

\* Cancelled tells the caller of the operation that is given up.
LEMMA CancelledHas ==
  ASSUME NEW x, Opened(x), x.g.state # "Stopped"
  PROVE  LET y == Cancelled(x)
         IN  /\ Has(y, x.srv, x.g.state, y.g.events, x.g.shown,
                    x.g.statsTimer, x.g.owed.start, x.g.owed.stop)
             /\ Num(y.g.events, "forward", "start") =
                  Num(x.g.events, "forward", "start") + One(x.g.state = "Starting")
             /\ Num(y.g.events, "forward", "stop") =
                  Num(x.g.events, "forward", "stop") + One(x.g.state = "Stopping")
             /\ Num(y.g.events, "servant", "exception") =
                  Num(x.g.events, "servant", "exception")
  <1> DEFINE op == IF x.g.state = "Starting" THEN "start"
                   ELSE IF x.g.state = "Working" THEN "work" ELSE "stop"
             y == forwardSignal(x, op, "operation_aborted")
  <1>1. x.g.state \in {"Starting", "Working", "Stopping"}
    BY DEF Opened, Uses, Windows, ServiceState
  <1>2. Cancelled(x) = y
    <2>1. CASE x.g.state = "Starting"
      BY <2>1 DEF Cancelled
    <2>2. CASE x.g.state = "Working"
      BY <2>2 DEF Cancelled
    <2>3. CASE x.g.state = "Stopping"
      BY <2>3 DEF Cancelled
    <2> QED
      BY <1>1, <2>1, <2>2, <2>3
  <1>3. /\ op \in {"start", "stop", "work"}
        /\ op = "start" <=> x.g.state = "Starting"
        /\ op = "stop" <=> x.g.state = "Stopping"
    BY <1>1
  <1> HIDE DEF op
  <1>4. /\ Has(y, x.srv, x.g.state, y.g.events, x.g.shown,
               x.g.statsTimer, x.g.owed.start, x.g.owed.stop)
        /\ Extra(y.g.events, x.g.events, "forward", op)
    BY <1>3, ForwardHas DEF Has
  <1>5. \A o \in {"start", "stop", "exception"}, f \in {"servant", "forward"} :
          Num(x.g.events, f, o) \in Nat
    BY NumType DEF Opened, Uses, Windows
  <1> HIDE DEF y
  <1> QED
    BY <1>2, <1>3, <1>4, <1>5 DEF Extra, One

-----------------------------------------------------------------------------
(***************************************************************************)
(* The server forgets neither an answer nor a stop that it has parked.      *)
(***************************************************************************)
Holds(x) == x.stop_handler \/ x.posted["stop"] # <<>>

Remembers(x, y) ==
  /\ y \in Api!ApiStates
  /\ x.posted["start"] # <<>> => y.posted["start"] # <<>>
  /\ Holds(x) => Holds(y)

\* A sequence that something was appended to is not empty.
LEMMA AppendedSome ==
  ASSUME NEW S, NEW q \in Seq(S), NEW e PROVE Append(q, e) # <<>>
  <1>1. Len(Append(q, e)) = Len(q) + 1 /\ Len(q) \in Nat /\ Len(<<>>) = 0
    OBVIOUS
  <1> QED
    BY <1>1

\* The results that are posted are sequences.
LEMMA PostedSeqs ==
  ASSUME NEW x \in Api!ApiStates
  PROVE  /\ x.posted["start"] \in Seq(Api!Errors)
         /\ x.posted["wait"] \in Seq(Api!Errors)
         /\ x.posted["stop"] \in Seq(Api!Errors)
         /\ x.stop_handler \in BOOLEAN
  BY DEF Api!ApiStates, Api!Calls

\* What is neither an answer nor a stop does not matter.
LEMMA SameRemembers ==
  ASSUME NEW x, NEW y \in Api!ApiStates, y.posted = x.posted,
         y.stop_handler = x.stop_handler
  PROVE  Remembers(x, y)
  BY DEF Remembers, Holds

\* What is not forgotten twice is not forgotten.
LEMMA RemembersOn ==
  ASSUME NEW x, NEW y, NEW z, Remembers(x, y), Remembers(y, z)
  PROVE  Remembers(x, z)
  BY DEF Remembers

\* An answer is not forgotten.
LEMMA AnswerRemembers ==
  ASSUME NEW x \in Api!ApiStates, NEW call \in Api!Calls, NEW error \in Api!Errors
  PROVE  LET y == Api!Answer(x, call, error)
         IN  Remembers(x, y) /\ y.posted[call] # <<>>
  <1> DEFINE longer == [x.posted EXCEPT ![call] = Append(@, error)]
             y == Api!Answer(x, call, error)
  <1>1. x.posted \in [Api!Calls -> Seq(Api!Errors)]
    BY DEF Api!ApiStates
  <1>2. /\ longer \in [Api!Calls -> Seq(Api!Errors)]
        /\ longer[call] = Append(x.posted[call], error)
        /\ \A c \in Api!Calls : c # call => longer[c] = x.posted[c]
    BY <1>1
  <1>3. longer[call] # <<>>
    BY <1>1, <1>2, AppendedSome
  <1>4. y = [x EXCEPT !.posted = longer]
    BY Zenon DEF Api!Answer
  <1> HIDE DEF longer
  <1>5. /\ y \in Api!ApiStates /\ y.posted = longer
        /\ y.stop_handler = x.stop_handler
    BY <1>2, <1>4 DEF Api!ApiStates
  <1> HIDE DEF y
  <1>6. Remembers(x, y) /\ y.posted[call] # <<>>
    BY <1>2, <1>3, <1>5 DEF Remembers, Holds, Api!Calls
  <1> QED
    BY <1>6 DEF y

\* Nor is anything when a parked wait is told of an end.
LEMMA TellRemembers ==
  ASSUME NEW x \in Api!ApiStates, NEW reason \in Api!Errors
  PROVE  Remembers(x, Api!Tell(x, reason))
  <1> DEFINE why == IF x.extern_wait_error = "ok" THEN reason
                    ELSE x.extern_wait_error
             p == [x EXCEPT !.extern_wait_error = why, !.wait_handler = FALSE]
             n == Api!Answer(p, "wait", why)
  <1>1. Api!Tell(x, reason) = IF x.wait_handler THEN n ELSE p
    BY Zenon DEF Api!Tell
  <1>2. why \in Api!Errors /\ "wait" \in Api!Calls
    BY DEF Api!ApiStates, Api!Calls
  <1> HIDE DEF why
  <1>3. /\ p \in Api!ApiStates /\ p.posted = x.posted
        /\ p.stop_handler = x.stop_handler
    BY <1>2 DEF Api!ApiStates
  <1> HIDE DEF p
  <1>4. Remembers(x, p)
    BY <1>3, SameRemembers
  <1>5. Remembers(p, n)
    BY <1>2, <1>3, AnswerRemembers
  <1>6. Remembers(x, n)
    BY <1>4, <1>5, RemembersOn
  <1> QED
    BY <1>1, <1>4, <1>6

\* A stop that was parked is answered when the server has ended.
LEMMA FinishRemembers ==
  ASSUME NEW x \in Api!ApiStates PROVE Remembers(x, Api!Finish(x))
  <1> DEFINE q == [x EXCEPT !.run = "stopped"]
             u == [q EXCEPT !.extern_state = "stopped"]
             v == [q EXCEPT !.extern_state = "stopped", !.stop_handler = FALSE]
             n == Api!Answer(v, "stop", "ok")
  <1>1. \/ Api!Finish(x) = q \/ Api!Finish(x) = n \/ Api!Finish(x) = u
    BY Zenon DEF Api!Finish
  <1>2. /\ q \in Api!ApiStates /\ q.posted = x.posted
        /\ q.stop_handler = x.stop_handler
    BY DEF Api!ApiStates
  <1> HIDE DEF q
  <1>3. /\ u \in Api!ApiStates /\ u.posted = x.posted
        /\ u.stop_handler = x.stop_handler
    BY <1>2 DEF Api!ApiStates
  <1>4. v \in Api!ApiStates /\ v.posted = x.posted
    BY <1>2 DEF Api!ApiStates
  <1> HIDE DEF u, v
  <1>5. "stop" \in Api!Calls /\ "ok" \in Api!Errors
    BY DEF Api!Calls, Api!Errors
  <1>6. Remembers(v, n) /\ n.posted["stop"] # <<>>
    BY <1>4, <1>5, AnswerRemembers
  <1> HIDE DEF n
  <1>7. Remembers(x, n)
    BY <1>4, <1>6 DEF Remembers, Holds
  <1> QED
    BY <1>1, <1>2, <1>3, <1>7, SameRemembers

\* An end that begins forgets nothing.
LEMMA EndingsRemember ==
  ASSUME NEW x \in Api!ApiStates, NEW reason \in Api!Errors,
         NEW y \in Api!Endings(x, reason)
  PROVE  Remembers(x, y)
  <1> DEFINE t == Api!Tell(x, reason)
             m == IF x.extern_state = "work" THEN t ELSE x
             q == [m EXCEPT !.run = "ending"]
             e == Api!Finish(q)
  <1>1. y \in {q, e}
    BY Zenon DEF Api!Endings
  <1>2. Remembers(x, t) /\ Remembers(x, x)
    BY TellRemembers, SameRemembers
  <1> HIDE DEF t
  <1>3. Remembers(x, m)
    BY <1>2
  <1> HIDE DEF m
  <1>4. /\ q \in Api!ApiStates /\ q.posted = m.posted
        /\ q.stop_handler = m.stop_handler
    BY <1>3 DEF Api!ApiStates, Remembers
  <1> HIDE DEF q
  <1>5. Remembers(m, q) /\ Remembers(q, e)
    BY <1>4, SameRemembers, FinishRemembers
  <1>6. Remembers(x, q)
    BY <1>3, <1>5, RemembersOn
  <1>7. Remembers(x, e)
    BY <1>5, <1>6, RemembersOn
  <1> QED
    BY <1>1, <1>6, <1>7

\* Nor does an end by itself.
LEMMA EndedRemembers ==
  ASSUME NEW x \in Api!ApiStates, NEW y \in Api!Ended(x)
  PROVE  Remembers(x, y)
  <1>1. y \in Api!Endings(x, "error") \/ y = Api!Finish(x)
    BY Zenon DEF Api!Ended
  <1>2. "error" \in Api!Errors
    BY DEF Api!Errors
  <1> QED
    BY <1>1, <1>2, EndingsRemember, FinishRemembers

\* A start is answered at once.
LEMMA StartedRemembers ==
  ASSUME NEW x \in Api!ApiStates, NEW y \in Api!Started(x)
  PROVE  Remembers(x, y) /\ y.posted["start"] # <<>>
  <1> DEFINE q == [x EXCEPT !.extern_state = "work"]
             u(why) == [x EXCEPT !.extern_state = "stopped", !.run = "stopped",
                                 !.extern_wait_error = why]
  <1>1. \/ y = Api!Answer(x, "start", "invalid_state")
        \/ \E z \in {q} \cup Api!Endings(q, "error") :
             y = Api!Answer(z, "start", "ok")
        \/ \E why \in {x.extern_wait_error, "error"} :
             y = Api!Answer(u(why), "start", "error")
    BY Zenon DEF Api!Started
  <1>2. /\ {"error", "ok", "invalid_state"} \subseteq Api!Errors
        /\ x.extern_wait_error \in Api!Errors /\ "start" \in Api!Calls
    BY DEF Api!Errors, Api!ApiStates, Api!Calls
  <1>3. /\ q \in Api!ApiStates /\ q.posted = x.posted
        /\ q.stop_handler = x.stop_handler
    BY DEF Api!ApiStates
  <1>4. Remembers(x, q)
    BY <1>3 DEF Remembers, Holds
  <1> HIDE DEF q
  <1>5. CASE y = Api!Answer(x, "start", "invalid_state")
    BY <1>2, <1>5, AnswerRemembers
  <1>6. ASSUME NEW z \in {q} \cup Api!Endings(q, "error"),
               y = Api!Answer(z, "start", "ok")
        PROVE  Remembers(x, y) /\ y.posted["start"] # <<>>
    <2>1. Remembers(q, z)
      <3>1. CASE z = q
        BY <1>3, <3>1 DEF Remembers
      <3>2. CASE z \in Api!Endings(q, "error")
        BY <1>2, <1>3, <3>2, EndingsRemember
      <3> QED
        BY <1>6, <3>1, <3>2
    <2>2. Remembers(z, y) /\ y.posted["start"] # <<>>
      BY <1>2, <1>6, <2>1, AnswerRemembers DEF Remembers
    <2> QED
      BY <1>4, <2>1, <2>2 DEF Remembers
  <1>7. ASSUME NEW why \in {x.extern_wait_error, "error"},
               y = Api!Answer(u(why), "start", "error")
        PROVE  Remembers(x, y) /\ y.posted["start"] # <<>>
    <2> DEFINE z == u(why)
    <2>1. why \in Api!Errors
      BY <1>2, <1>7
    <2>2. /\ z \in Api!ApiStates /\ z.posted = x.posted
          /\ z.stop_handler = x.stop_handler
      BY <2>1 DEF Api!ApiStates
    <2>3. y = Api!Answer(z, "start", "error")
      BY <1>7
    <2> HIDE DEF z
    <2>4. Remembers(z, y) /\ y.posted["start"] # <<>>
      BY <1>2, <2>2, <2>3, AnswerRemembers
    <2> QED
      BY <2>2, <2>4 DEF Remembers, Holds
  <1> QED
    BY <1>1, <1>5, <1>6, <1>7

\* A wait is parked or answered.
LEMMA WaitedRemembers ==
  ASSUME NEW x \in Api!ApiStates, NEW y \in Api!Waited(x)
  PROVE  Remembers(x, y)
  <1> DEFINE q == [x EXCEPT !.wait_handler = TRUE]
  <1>1. \/ y = Api!Answer(x, "wait", "invalid_state")
        \/ y = Api!Answer(x, "wait", x.extern_wait_error)
        \/ y = q
    BY Zenon DEF Api!Waited
  <1>2. /\ "invalid_state" \in Api!Errors /\ x.extern_wait_error \in Api!Errors
        /\ "wait" \in Api!Calls
    BY DEF Api!Errors, Api!ApiStates, Api!Calls
  <1>3. /\ q \in Api!ApiStates /\ q.posted = x.posted
        /\ q.stop_handler = x.stop_handler
    BY DEF Api!ApiStates
  <1>4. Remembers(x, q)
    BY <1>3 DEF Remembers, Holds
  <1> QED
    BY <1>1, <1>2, <1>4, AnswerRemembers

\* A stop is parked or answered.
LEMMA StoppedRemembers ==
  ASSUME NEW x \in Api!ApiStates, NEW y \in Api!Stopped(x)
  PROVE  Remembers(x, y) /\ Holds(y)
  <1> DEFINE t == Api!Tell(x, "operation_aborted")
             q == [t EXCEPT !.extern_state = "stop"]
             end(z) == IF z.run = "stopped"
                       THEN Api!Answer([z EXCEPT !.extern_state = "stopped"],
                                       "stop", "ok")
                       ELSE [z EXCEPT !.stop_handler = TRUE]
  <1>1. \/ y = Api!Answer(x, "stop", "invalid_state")
        \/ \E z \in {q} \cup Api!Endings(q, "ok") : y = end(z)
    BY Zenon DEF Api!Stopped
  <1>2. /\ {"operation_aborted", "ok", "invalid_state"} \subseteq Api!Errors
        /\ "stop" \in Api!Calls
    BY DEF Api!Errors, Api!Calls
  <1>3. Remembers(x, t)
    BY <1>2, TellRemembers
  <1> HIDE DEF t
  <1>4. /\ q \in Api!ApiStates /\ q.posted = t.posted
        /\ q.stop_handler = t.stop_handler
    BY <1>3 DEF Api!ApiStates, Remembers
  <1>5. Remembers(x, q)
    BY <1>3, <1>4 DEF Remembers, Holds
  <1> HIDE DEF q
  <1>6. CASE y = Api!Answer(x, "stop", "invalid_state")
    BY <1>2, <1>6, AnswerRemembers DEF Holds
  <1>7. ASSUME NEW z \in {q} \cup Api!Endings(q, "ok"), y = end(z)
        PROVE  Remembers(x, y) /\ Holds(y)
    <2>1. Remembers(q, z)
      <3>1. CASE z = q
        BY <1>4, <3>1 DEF Remembers
      <3>2. CASE z \in Api!Endings(q, "ok")
        BY <1>2, <1>4, <3>2, EndingsRemember
      <3> QED
        BY <1>7, <3>1, <3>2
    <2>2. Remembers(z, y) /\ Holds(y)
      <3>1. CASE z.run = "stopped"
        <4> DEFINE v == [z EXCEPT !.extern_state = "stopped"]
        <4>1. /\ v \in Api!ApiStates /\ v.posted = z.posted
              /\ v.stop_handler = z.stop_handler
          BY <2>1 DEF Remembers, Api!ApiStates
        <4>2. y = Api!Answer(v, "stop", "ok")
          BY <1>7, <3>1
        <4> HIDE DEF v
        <4>3. Remembers(v, y) /\ y.posted["stop"] # <<>>
          BY <1>2, <4>1, <4>2, AnswerRemembers
        <4> QED
          BY <4>1, <4>3 DEF Remembers, Holds
      <3>2. CASE z.run # "stopped"
        <4>1. y = [z EXCEPT !.stop_handler = TRUE]
          BY <1>7, <3>2
        <4>2. y \in Api!ApiStates /\ y.posted = z.posted /\ y.stop_handler = TRUE
          BY <2>1, <4>1 DEF Remembers, Api!ApiStates
        <4> QED
          BY <4>2 DEF Remembers, Holds
      <3> QED
        BY <3>1, <3>2
    <2> QED
      BY <1>5, <2>1, <2>2 DEF Remembers
  <1> QED
    BY <1>1, <1>6, <1>7

-----------------------------------------------------------------------------
(***************************************************************************)
(* The inductive invariant.  What is missing in ServiceSound is that a dead *)
(* server has said so, and that an event is what it looks like.             *)
(***************************************************************************)
\* Starts and stops that were not answered are events, or the present one.
Paid(state, events, starts, stops) ==
  /\ starts = Num(events, "forward", "start") + One(state = "Starting")
  /\ stops = Num(events, "forward", "stop") + One(state = "Stopping")

\* The server has the call, or the answer to it.
Busy(v, call) ==
  \/ call \in ToSet(v.queue) \/ v.api.posted[call] # <<>>
  \/ call = "stop" /\ v.api.stop_handler

Expected(srvs, events, call) ==
  \/ Num(events, "servant", call) > 0 \/ Num(events, "servant", "exception") > 0
  \/ Busy(srvs[1], call)

Steady(srvs, state, events) ==
  /\ IF state = "Stopped" THEN srvs = <<>> ELSE Len(srvs) = 1
  /\ state # "Stopped" /\ ~srvs[1].alive => Num(events, "servant", "exception") > 0
  /\ state = "Starting" => Expected(srvs, events, "start")
  /\ state = "Stopping" => Expected(srvs, events, "stop")

InStep(x) ==
  /\ Opened(x) /\ Steady(x.srv, x.g.state, x.g.events)
  /\ Paid(x.g.state, x.g.events, x.g.owed.start, x.g.owed.stop)

Fine(x) ==
  /\ InStep(x) /\ x.g.shown = x.g.state
  /\ x.g.statsTimer <=> x.g.state # "Stopped"

QtInv ==
  IF g.closed
  THEN /\ g.state \in ServiceState /\ g.shown \in ServiceState
       /\ g.events = <<>> /\ srv = <<>>
  ELSE Fine(Now)

\* The counts of events are natural numbers.
LEMMA NumsNat ==
  ASSUME NEW q \in Seq(Signals)
  PROVE  /\ Num(q, "forward", "start") \in Nat /\ Num(q, "forward", "stop") \in Nat
         /\ Num(q, "servant", "start") \in Nat /\ Num(q, "servant", "stop") \in Nat
         /\ Num(q, "servant", "exception") \in Nat
  BY NumType

\* A window that is refreshed is fine, if it was in step and the timer ran.
LEMMA RefreshFine ==
  ASSUME NEW x, InStep(x), x.g.state # "Stopped" => x.g.statsTimer
  PROVE  Fine(Refresh(x))
  <1> DEFINE y == Refresh(x)
  <1>1. Has(y, x.srv, x.g.state, x.g.events, x.g.state,
            x.g.statsTimer /\ x.g.state # "Stopped", x.g.owed.start, x.g.owed.stop)
    BY RefreshHas DEF InStep
  <1> HIDE DEF y
  <1>2. Fine(y)
    BY <1>1 DEF Has, InStep, Fine, Opened
  <1> QED
    BY <1>2 DEF y

\* So is one that only shows its state, if its timer is right.
LEMMA UpdateFine ==
  ASSUME NEW x, InStep(x), x.g.statsTimer <=> x.g.state # "Stopped"
  PROVE  Fine(updateWidgetsStates(x))
  <1> DEFINE y == updateWidgetsStates(x)
  <1>1. Has(y, x.srv, x.g.state, x.g.events, x.g.state, x.g.statsTimer,
            x.g.owed.start, x.g.owed.stop)
    BY UpdateHas DEF InStep
  <1> HIDE DEF y
  <1>2. Fine(y)
    BY <1>1 DEF Has, InStep, Fine, Opened
  <1> QED
    BY <1>2 DEF y

\* The calls a queue holds.
LEMMA QueueHolds ==
  ASSUME NEW q \in Seq(Api!Calls), NEW call \in Api!Calls
  PROVE  /\ call \in ToSet(Append(q, call))
         /\ ToSet(q) \subseteq ToSet(Append(q, call))
  <1> DEFINE r == Append(q, call)
  <1>1. /\ DOMAIN r = 1 .. (Len(q) + 1) /\ DOMAIN q = 1 .. Len(q) /\ Len(q) \in Nat
        /\ r[Len(q) + 1] = call /\ \A k \in 1 .. Len(q) : r[k] = q[k]
    OBVIOUS
  <1> HIDE DEF r
  <1>2. call \in ToSet(r) /\ ToSet(q) \subseteq ToSet(r)
    BY <1>1 DEF ToSet
  <1> QED
    BY <1>2 DEF r

\* asyncStart: a new server has the call.
LEMMA StartInStep ==
  ASSUME NEW x, InStep(x), x.g.state = "Stopped"
  PROVE  LET y == asyncStart(x)
         IN  InStep(y) /\ y.g.state = "Starting"
  <1> DEFINE p == [x EXCEPT !.g.owed.start = @ + 1]
             c == createServant(p)
             q == async_call(c, "start")
             y == Become(q, "Starting")
  <1>1. asyncStart(x) = y
    BY Zenon DEF asyncStart, InStep
  <1>2. Opened(x) /\ x.g.owed.start \in Int /\ x.g.events \in Seq(Signals)
    BY DEF InStep, Opened, Uses, Windows
  <1>3. p = OweStarts(x, x.g.owed.start + 1)
    BY <1>2 DEF Opened, Uses, Windows, OweStarts
  <1>4. Has(p, x.srv, "Stopped", x.g.events, x.g.shown, x.g.statsTimer,
            x.g.owed.start + 1, x.g.owed.stop)
    <2> DEFINE n == x.g.owed.start + 1
    <2>1. n \in Int
      BY <1>2
    <2> HIDE DEF n, p
    <2>2. Has(OweStarts(x, n), x.srv, x.g.state, x.g.events, x.g.shown,
              x.g.statsTimer, n, x.g.owed.stop)
      BY <1>2, <2>1, OwedStartHas
    <2> QED
      BY <1>3, <2>2 DEF n
  <1> HIDE DEF p
  <1>5. Has(c, <<server>>, "Stopped", x.g.events, x.g.shown, x.g.statsTimer,
            x.g.owed.start + 1, x.g.owed.stop)
    BY <1>4, CreateHas DEF Has, Opened
  <1>6. Opened(c) /\ Len(c.srv) = 1 /\ c.srv[1] = server
    BY <1>5 DEF Has, Opened
  <1> HIDE DEF c
  <1>7. "start" \in Api!Calls /\ "Starting" \in ServiceState
    BY DEF Api!Calls, ServiceState
  <1>8. /\ Has(q, q.srv, "Stopped", x.g.events, x.g.shown, x.g.statsTimer,
               x.g.owed.start + 1, x.g.owed.stop)
        /\ Len(q.srv) = 1 /\ q.srv[1].alive /\ q.srv[1].queue = Append(<<>>, "start")
    <2>1. /\ Has(q, q.srv, c.g.state, c.g.events, c.g.shown,
                 c.g.statsTimer, c.g.owed.start, c.g.owed.stop)
          /\ Len(q.srv) = 1 /\ q.srv[1].alive = c.srv[1].alive
          /\ q.srv[1].queue = Append(c.srv[1].queue, "start")
          /\ q.srv[1].api = c.srv[1].api
      BY <1>6, <1>7, CallHas
    <2> HIDE DEF q
    <2> QED
      BY <1>5, <1>6, <2>1, ServerFresh DEF Has
  <1>9. "start" \in ToSet(q.srv[1].queue)
    <2>1. <<>> \in Seq(Api!Calls)
      OBVIOUS
    <2>2. "start" \in ToSet(Append(<<>>, "start"))
      BY <1>7, <2>1, QueueHolds
    <2> QED
      BY <1>8, <2>2
  <1> HIDE DEF q
  <1>10. Has(y, q.srv, "Starting", x.g.events, x.g.shown, x.g.statsTimer,
             x.g.owed.start + 1, x.g.owed.stop)
    BY <1>7, <1>8, BecomeFrom
  <1> HIDE DEF y
  <1>11. InStep(y) /\ y.g.state = "Starting"
    <2>1. Steady(q.srv, "Starting", x.g.events)
      BY <1>8, <1>9 DEF Steady, Expected, Busy
    <2>2. Paid("Starting", x.g.events, x.g.owed.start + 1, x.g.owed.stop)
      BY <1>2, NumsNat DEF InStep, Paid, One
    <2> QED
      BY <1>10, <2>1, <2>2 DEF Has, InStep, Opened
  <1> QED
    BY <1>1, <1>11

\* asyncStop: the server has the call, or its death is known.
LEMMA StopInStep ==
  ASSUME NEW x, InStep(x), x.g.state \in {"Starting", "Working"}
  PROVE  LET y == asyncStop(x)
         IN  /\ InStep(y) /\ y.g.state = "Stopping"
             /\ y.g.statsTimer = x.g.statsTimer
  <1> DEFINE p == [x EXCEPT !.g.owed.stop = @ + 1]
             c == Cancelled(p)
             q == async_call(c, "stop")
             y == Become(q, "Stopping")
  <1>1. asyncStop(x) = y
    BY Zenon DEF asyncStop, InStep
  <1>2. /\ Opened(x) /\ x.g.owed.stop \in Int /\ x.g.events \in Seq(Signals)
        /\ x.srv \in Seq(Servers)
    BY DEF InStep, Opened, Uses, Windows
  <1>3. p = OweStops(x, x.g.owed.stop + 1)
    BY <1>2 DEF Opened, Uses, Windows, OweStops
  <1>4. Has(p, x.srv, x.g.state, x.g.events, x.g.shown, x.g.statsTimer,
            x.g.owed.start, x.g.owed.stop + 1)
    <2> DEFINE n == x.g.owed.stop + 1
    <2>1. n \in Int
      BY <1>2
    <2> HIDE DEF n, p
    <2>2. Has(OweStops(x, n), x.srv, x.g.state, x.g.events, x.g.shown,
              x.g.statsTimer, x.g.owed.start, n)
      BY <1>2, <2>1, OwedStopHas
    <2> QED
      BY <1>3, <2>2 DEF n
  <1> HIDE DEF p
  <1>5. /\ Has(c, x.srv, x.g.state, c.g.events, x.g.shown, x.g.statsTimer,
               x.g.owed.start, x.g.owed.stop + 1)
        /\ Num(c.g.events, "forward", "start") =
             Num(x.g.events, "forward", "start") + One(x.g.state = "Starting")
        /\ Num(c.g.events, "forward", "stop") =
             Num(x.g.events, "forward", "stop") + One(x.g.state = "Stopping")
        /\ Num(c.g.events, "servant", "exception") =
             Num(x.g.events, "servant", "exception")
    <2>1. Opened(p) /\ p.g.state # "Stopped"
      BY <1>4 DEF Has, Opened
    <2>2. /\ Has(c, p.srv, p.g.state, c.g.events, p.g.shown, p.g.statsTimer,
                 p.g.owed.start, p.g.owed.stop)
          /\ Num(c.g.events, "forward", "start") =
               Num(p.g.events, "forward", "start") + One(p.g.state = "Starting")
          /\ Num(c.g.events, "forward", "stop") =
               Num(p.g.events, "forward", "stop") + One(p.g.state = "Stopping")
          /\ Num(c.g.events, "servant", "exception") =
               Num(p.g.events, "servant", "exception")
      BY <2>1, CancelledHas
    <2> HIDE DEF c
    <2> QED
      BY <1>4, <2>2 DEF Has
  <1>6. Opened(c) /\ c.srv = x.srv /\ Len(c.srv) = 1
    BY <1>5 DEF Has, Opened, InStep, Steady
  <1> HIDE DEF c
  <1>7. "stop" \in Api!Calls /\ "Stopping" \in ServiceState
    BY DEF Api!Calls, ServiceState
  <1>8. /\ Has(q, q.srv, x.g.state, c.g.events, x.g.shown, x.g.statsTimer,
               x.g.owed.start, x.g.owed.stop + 1)
        /\ Len(q.srv) = 1 /\ q.srv[1].alive = x.srv[1].alive
        /\ q.srv[1].queue = Append(x.srv[1].queue, "stop")
    <2>1. /\ Has(q, q.srv, c.g.state, c.g.events, c.g.shown,
                 c.g.statsTimer, c.g.owed.start, c.g.owed.stop)
          /\ Len(q.srv) = 1 /\ q.srv[1].alive = c.srv[1].alive
          /\ q.srv[1].queue = Append(c.srv[1].queue, "stop")
      BY <1>6, <1>7, CallHas
    <2> HIDE DEF q
    <2> QED
      BY <1>5, <1>6, <2>1 DEF Has
  <1> HIDE DEF q
  <1>9. "stop" \in ToSet(q.srv[1].queue)
    <2>1. x.srv[1].queue \in Seq(Api!Calls)
      <3>1. x.srv[1] \in Servers
        BY <1>2, <1>6
      <3> QED
        BY <3>1 DEF Servers
    <2>2. "stop" \in ToSet(Append(x.srv[1].queue, "stop"))
      BY <1>7, <2>1, QueueHolds
    <2> QED
      BY <1>8, <2>2
  <1>10. Has(y, q.srv, "Stopping", c.g.events, x.g.shown, x.g.statsTimer,
             x.g.owed.start, x.g.owed.stop + 1)
    BY <1>7, <1>8, BecomeFrom
  <1> HIDE DEF y
  <1>11. /\ InStep(y) /\ y.g.state = "Stopping"
         /\ y.g.statsTimer = x.g.statsTimer
    <2>1. Steady(q.srv, "Stopping", c.g.events)
      BY <1>5, <1>8, <1>9 DEF InStep, Steady, Expected, Busy
    <2>2. Paid("Stopping", c.g.events, x.g.owed.start, x.g.owed.stop + 1)
      <3>1. Paid(x.g.state, x.g.events, x.g.owed.start, x.g.owed.stop)
        BY DEF InStep
      <3>2. /\ Num(x.g.events, "forward", "start") \in Nat
            /\ Num(x.g.events, "forward", "stop") \in Nat
        BY <1>2, NumsNat
      <3> QED
        BY <1>5, <3>1, <3>2 DEF Paid, One
    <2> QED
      BY <1>10, <2>1, <2>2 DEF Has, InStep, Opened
  <1> QED
    BY <1>1, <1>11

\* terminate: there is no server any more, and its caller will be told.
LEMMA TerminateInStep ==
  ASSUME NEW x, Opened(x), Len(x.srv) = 1, x.g.state # "Stopped",
         Paid(x.g.state, x.g.events, x.g.owed.start, x.g.owed.stop)
  PROVE  LET y == terminate(x) IN InStep(y) /\ y.g.state = "Stopped"
  <1> DEFINE d == destroyServant(x)
             c == Cancelled(d)
             y == Become(c, "Stopped")
  <1>1. terminate(x) = y
    BY Zenon DEF terminate
  <1>2. /\ x.g.events \in Seq(Signals) /\ x.g.state \in ServiceState
        /\ x.g.owed.start \in Int /\ x.g.owed.stop \in Int
    BY DEF Opened, Uses, Windows
  <1>3. Has(d, <<>>, x.g.state, x.g.events, x.g.shown, x.g.statsTimer,
            x.g.owed.start, x.g.owed.stop)
    BY DestroyHas
  <1>4. Opened(d) /\ d.g.state # "Stopped"
    BY <1>3 DEF Has, Opened
  <1> HIDE DEF d
  <1>5. /\ Has(c, d.srv, d.g.state, c.g.events, d.g.shown, d.g.statsTimer,
               d.g.owed.start, d.g.owed.stop)
        /\ Num(c.g.events, "forward", "start") =
             Num(d.g.events, "forward", "start") + One(d.g.state = "Starting")
        /\ Num(c.g.events, "forward", "stop") =
             Num(d.g.events, "forward", "stop") + One(d.g.state = "Stopping")
    BY <1>4, CancelledHas
  <1> HIDE DEF c
  <1>6. "Stopped" \in ServiceState /\ Opened(c)
    BY <1>5 DEF ServiceState, Has, Opened
  <1>7. Has(y, c.srv, "Stopped", c.g.events, c.g.shown, c.g.statsTimer,
            c.g.owed.start, c.g.owed.stop)
    BY <1>6, BecomeHas
  <1> HIDE DEF y
  <1>8. InStep(y) /\ y.g.state = "Stopped"
    <2>1. Steady(<<>>, "Stopped", c.g.events)
      BY DEF Steady
    <2>2. Paid("Stopped", c.g.events, x.g.owed.start, x.g.owed.stop)
      BY <1>2, <1>3, <1>5, NumsNat DEF Has, Paid, One
    <2> QED
      BY <1>3, <1>5, <1>7, <2>1, <2>2 DEF Has, InStep, Opened
  <1> QED
    BY <1>1, <1>8

-----------------------------------------------------------------------------
(***************************************************************************)
(* Every action keeps the invariant: the buttons.                           *)
(***************************************************************************)
\* A step that ends in a fine window keeps the invariant.
LEMMA StepFine ==
  ASSUME NEW y, Fine(y), Step(y) PROVE QtInv'
  <1>1. g' = y.g /\ srv' = y.srv
    BY DEF Step
  <1>2. y \in Uses /\ y.g.closed = FALSE
    BY DEF Fine, InStep, Opened
  <1>3. [g |-> g', srv |-> srv'] = y
    BY <1>1, <1>2 DEF Uses
  <1>4. Now' = y
    BY <1>3 DEF Now
  <1>5. Fine(Now')
    BY <1>4
  <1>6. (QtInv)' = (IF g'.closed
                  THEN /\ g'.state \in ServiceState
                       /\ g'.shown \in ServiceState
                       /\ g'.events = <<>> /\ srv' = <<>>
                  ELSE Fine(Now'))
    BY DEF QtInv, Fine, InStep
  <1> QED
    BY <1>1, <1>2, <1>5, <1>6

\* The members of the window now.
LEMMA NowIs == Now.g = g /\ Now.srv = srv
  BY DEF Now

\* The start button.
LEMMA StartButton ==
  ASSUME QtInv, on_startButton_clicked PROVE QtInv'
  <1> DEFINE x == Now
             s == asyncStart(x)
             t == [s EXCEPT !.g.statsTimer = TRUE]
  <1>1. /\ ~g.closed /\ g.shown = "Stopped"
        /\ \/ Step(updateWidgetsStates(t))
           \/ Step(updateWidgetsStates(x))
    BY Zenon DEF on_startButton_clicked
  <1>2. Fine(x) /\ x.g.state = "Stopped"
    BY <1>1, NowIs DEF QtInv, Fine
  <1> HIDE DEF x
  <1>3. InStep(s) /\ s.g.state = "Starting"
    BY <1>2, StartInStep DEF Fine
  <1> HIDE DEF s
  <1>4. Has(t, s.srv, s.g.state, s.g.events, s.g.shown, TRUE,
            s.g.owed.start, s.g.owed.stop)
    BY <1>3, TimerHas DEF InStep
  <1>5. InStep(t) /\ t.g.state = "Starting" /\ t.g.statsTimer = TRUE
    BY <1>3, <1>4 DEF Has, InStep, Opened
  <1> HIDE DEF t
  <1>6. Fine(updateWidgetsStates(t)) /\ Fine(updateWidgetsStates(x))
    BY <1>2, <1>5, UpdateFine DEF Fine
  <1> QED
    BY <1>1, <1>6, StepFine

\* The stop button.
LEMMA StopButton ==
  ASSUME QtInv, on_stopButton_clicked PROVE QtInv'
  <1> DEFINE x == Now
             s == asyncStop(x)
  <1>1. /\ ~g.closed /\ g.shown \in {"Starting", "Working"}
        /\ Step(updateWidgetsStates(s))
    BY Zenon DEF on_stopButton_clicked
  <1>2. Fine(x) /\ x.g.state \in {"Starting", "Working"}
    BY <1>1, NowIs DEF QtInv, Fine
  <1> HIDE DEF x
  <1>3. /\ InStep(s) /\ s.g.state = "Stopping" /\ s.g.statsTimer = x.g.statsTimer
    BY <1>2, StopInStep DEF Fine
  <1> HIDE DEF s
  <1>4. Fine(updateWidgetsStates(s))
    BY <1>2, <1>3, UpdateFine DEF Fine
  <1> QED
    BY <1>1, <1>4, StepFine

\* The terminate button.
LEMMA TerminateButton ==
  ASSUME QtInv, on_terminateButton_clicked PROVE QtInv'
  <1> DEFINE x == Now
             s == terminate(x)
  <1>1. /\ ~g.closed /\ g.shown # "Stopped"
        /\ Step(Refresh(s))
    BY Zenon DEF on_terminateButton_clicked
  <1>2. Fine(x) /\ x.g.state # "Stopped"
    BY <1>1, NowIs DEF QtInv, Fine
  <1> HIDE DEF x
  <1>3. /\ Opened(x) /\ Len(x.srv) = 1
        /\ Paid(x.g.state, x.g.events, x.g.owed.start, x.g.owed.stop)
    BY <1>2 DEF Fine, InStep, Steady
  <1>4. InStep(s) /\ s.g.state = "Stopped"
    BY <1>2, <1>3, TerminateInStep
  <1> HIDE DEF s
  <1>5. Fine(Refresh(s))
    BY <1>4, RefreshFine
  <1> QED
    BY <1>1, <1>5, StepFine

\* The window is closed.
LEMMA CloseKeeps ==
  ASSUME QtInv, Close PROVE QtInv'
  <1>1. /\ ~g.closed /\ srv' = <<>>
        /\ g' = [g EXCEPT !.closed = TRUE, !.events = <<>>]
    BY DEF Close
  <1>2. g \in Windows
    BY <1>1, NowIs DEF QtInv, Fine, InStep, Opened, Uses
  <1>3. /\ g'.closed = TRUE /\ g'.events = <<>>
        /\ g'.state = g.state /\ g'.shown = g.shown
    BY <1>1, <1>2 DEF Windows
  <1>4. g.state \in ServiceState /\ g.shown \in ServiceState
    BY <1>2 DEF Windows
  <1> QED
    BY <1>1, <1>3, <1>4 DEF QtInv, ServiceState

-----------------------------------------------------------------------------
(***************************************************************************)
(* Every action keeps the invariant: the events of the GUI thread.          *)
(***************************************************************************)
\* An event that was taken is not posted any more.
LEMMA RestHas ==
  ASSUME QtInv, NEW from, NEW op, Taken(from, op) # {}
  PROVE  LET x == Rest
         IN  /\ Has(x, srv, g.state, x.g.events, g.shown,
                    g.statsTimer, g.owed.start, g.owed.stop)
             /\ Extra(g.events, x.g.events, from, op)
             /\ x.g.events \in Seq(Signals) /\ g.events \in Seq(Signals)
             /\ Fine(Now) /\ Now.g = g /\ Now.srv = srv
  <1>1. /\ g.events # <<>>
        /\ Head(g.events).from = from /\ Head(g.events).op = op
    BY Zenon DEF Taken
  <1>2. ~g.closed /\ Fine(Now)
    BY <1>1 DEF QtInv
  <1>3. g \in Windows /\ srv \in Seq(Servers) /\ g.closed = FALSE
    BY <1>2, NowIs DEF Fine, InStep, Opened, Uses
  <1>4. g.events \in Seq(Signals)
    BY <1>3 DEF Windows
  <1> DEFINE t == Tail(g.events)
             x == [g |-> [g EXCEPT !.events = t], srv |-> srv]
  <1>5. t \in Seq(Signals) /\ Extra(g.events, t, from, op)
    BY <1>1, <1>4, ExtraTail
  <1>6. Rest = x
    BY Zenon DEF Rest
  <1> HIDE DEF t
  <1>7. /\ Has(x, srv, g.state, t, g.shown,
               g.statsTimer, g.owed.start, g.owed.stop)
    BY <1>3, <1>5 DEF Has, Uses, Windows
  <1>8. x.g.events = t
    BY <1>7 DEF Has
  <1> HIDE DEF x
  <1> QED
    BY <1>2, <1>4, <1>5, <1>6, <1>7, <1>8, NowIs

\* A start is answered.
LEMMA StartAnswered ==
  ASSUME NEW x, Opened(x), Steady(x.srv, x.g.state, x.g.events),
         Paid(x.g.state, x.g.events, x.g.owed.start - 1, x.g.owed.stop),
         x.g.state # "Stopped" => x.g.statsTimer
  PROVE  Fine(on_service_startCompleted(x))
  <1> DEFINE p == [x EXCEPT !.g.owed.start = @ - 1]
             n == x.g.owed.start - 1
  <1>1. x.g.owed.start \in Int
    BY DEF Opened, Uses, Windows
  <1>2. p = OweStarts(x, n) /\ n \in Int
    BY <1>1 DEF Opened, Uses, Windows, OweStarts
  <1>3. on_service_startCompleted(x) = Refresh(p)
    BY Zenon DEF on_service_startCompleted
  <1>4. Paid(x.g.state, x.g.events, n, x.g.owed.stop)
    OBVIOUS
  <1> HIDE DEF p, n
  <1>5. Has(p, x.srv, x.g.state, x.g.events, x.g.shown, x.g.statsTimer,
            n, x.g.owed.stop)
    BY <1>2, OwedStartHas
  <1>6. InStep(p) /\ (p.g.state # "Stopped" => p.g.statsTimer)
    BY <1>4, <1>5 DEF Has, InStep, Opened
  <1> QED
    BY <1>3, <1>6, RefreshFine

\* A stop is answered.
LEMMA StopIsAnswered ==
  ASSUME NEW x, Opened(x), Steady(x.srv, x.g.state, x.g.events),
         Paid(x.g.state, x.g.events, x.g.owed.start, x.g.owed.stop - 1),
         x.g.state # "Stopped" => x.g.statsTimer
  PROVE  Fine(on_service_stopCompleted(x))
  <1> DEFINE p == [x EXCEPT !.g.owed.stop = @ - 1]
             n == x.g.owed.stop - 1
  <1>1. x.g.owed.stop \in Int
    BY DEF Opened, Uses, Windows
  <1>2. p = OweStops(x, n) /\ n \in Int
    BY <1>1 DEF Opened, Uses, Windows, OweStops
  <1>3. on_service_stopCompleted(x) = Refresh(p)
    BY Zenon DEF on_service_stopCompleted
  <1>4. Paid(x.g.state, x.g.events, x.g.owed.start, n)
    OBVIOUS
  <1> HIDE DEF p, n
  <1>5. Has(p, x.srv, x.g.state, x.g.events, x.g.shown, x.g.statsTimer,
            x.g.owed.start, n)
    BY <1>2, OwedStopHas
  <1>6. InStep(p) /\ (p.g.state # "Stopped" => p.g.statsTimer)
    BY <1>4, <1>5 DEF Has, InStep, Opened
  <1> QED
    BY <1>3, <1>6, RefreshFine

\* The work of the server has ended: it is stopped.
LEMMA WorkAnswered ==
  ASSUME NEW x, InStep(x), x.g.state # "Stopped" => x.g.statsTimer
  PROVE  Fine(on_service_workCompleted(x))
  <1> DEFINE s == asyncStop(x)
  <1>1. CASE x.g.state = "Working"
    <2>1. on_service_workCompleted(x) = Refresh(s)
      BY <1>1, Zenon DEF on_service_workCompleted
    <2>2. InStep(s) /\ s.g.statsTimer = x.g.statsTimer
      BY <1>1, StopInStep
    <2> HIDE DEF s
    <2> QED
      BY <1>1, <2>1, <2>2, RefreshFine
  <1>2. CASE x.g.state # "Working"
    <2>1. on_service_workCompleted(x) = Refresh(x)
      BY <1>2, Zenon DEF on_service_workCompleted
    <2> QED
      BY <2>1, RefreshFine
  <1> QED
    BY <1>1, <1>2

\* An event the Service has no use for.
LEMMA RestFine ==
  ASSUME QtInv, NEW from, NEW op, Taken(from, op) # {},
         \/ from = "servant" /\ op = "start" /\ g.state # "Starting"
         \/ from = "servant" /\ op = "stop" /\ g.state # "Stopping"
         \/ from = "servant" /\ op = "exception" /\ g.state = "Stopped"
         \/ from = "servant" /\ op = "wait"
         \/ from = "forward" /\ op = "work"
  PROVE  Fine(Rest)
  <1> DEFINE x == Rest
             t == x.g.events
  <1>1. /\ Has(x, srv, g.state, t, g.shown,
               g.statsTimer, g.owed.start, g.owed.stop)
        /\ Extra(g.events, t, from, op)
        /\ t \in Seq(Signals) /\ g.events \in Seq(Signals)
        /\ Fine(Now) /\ Now.g = g /\ Now.srv = srv
    BY RestHas
  <1> HIDE DEF x, t
  <1>2. /\ Steady(srv, g.state, g.events)
        /\ Paid(g.state, g.events, g.owed.start, g.owed.stop)
        /\ g.shown = g.state
        /\ g.statsTimer <=> g.state # "Stopped"
    BY <1>1 DEF Fine, InStep
  <1>3. Paid(g.state, t, g.owed.start, g.owed.stop)
    BY <1>1, <1>2, NumsNat DEF Paid, Extra, One
  <1>4. Steady(srv, g.state, t)
    <2>1. /\ Num(t, "servant", "start") \in Nat /\ Num(t, "servant", "stop") \in Nat
          /\ Num(t, "servant", "exception") \in Nat
      BY <1>1, NumsNat
    <2>2. /\ g.state = "Starting" =>
               Num(g.events, "servant", "start") = Num(t, "servant", "start")
          /\ g.state = "Stopping" =>
               Num(g.events, "servant", "stop") = Num(t, "servant", "stop")
          /\ g.state # "Stopped" =>
               Num(g.events, "servant", "exception")
                 = Num(t, "servant", "exception")
      BY <1>1, <2>1 DEF Extra, One
    <2> QED
      BY <1>2, <2>2 DEF Steady, Expected
  <1>5. Fine(x)
    BY <1>1, <1>2, <1>3, <1>4 DEF Has, Fine, InStep, Opened
  <1> QED
    BY <1>5 DEF x

\* The server answers a start, this or one that was given up.
LEMMA ServantStartKeeps ==
  ASSUME QtInv, ServantStartCompleted PROVE QtInv'
  <1> DEFINE x == Rest
             t == x.g.events
  <1>1. PICK error \in Taken("servant", "start") :
          Step(onServantStartCompleted(x, error))
    BY Zenon DEF ServantStartCompleted
  <1>2. Taken("servant", "start") # {}
    OBVIOUS
  <1>3. CASE g.state # "Starting"
    <2>1. Fine(x)
      BY <1>2, <1>3, RestFine
    <2>2. x.g.state # "Starting"
      BY <1>2, <1>3, RestHas DEF Has
    <2>3. onServantStartCompleted(x, error) = x
      BY <2>2, Zenon DEF onServantStartCompleted
    <2> QED
      BY <1>1, <2>1, <2>3, StepFine
  <1>4. CASE g.state = "Starting"
    <2>1. /\ Has(x, srv, "Starting", t, g.shown,
                 g.statsTimer, g.owed.start, g.owed.stop)
          /\ Extra(g.events, t, "servant", "start")
          /\ t \in Seq(Signals) /\ g.events \in Seq(Signals)
          /\ Fine(Now) /\ Now.g = g /\ Now.srv = srv
      BY <1>2, <1>4, RestHas
    <2> DEFINE d == Become(destroyServant(x), "Stopped")
               w == Become(async_call(x, "wait"), "Working")
    <2>2. \/ onServantStartCompleted(x, error) = on_service_startCompleted(d)
          \/ onServantStartCompleted(x, error) = on_service_startCompleted(w)
      <3>1. x.g.state = "Starting"
        BY <2>1 DEF Has
      <3> QED
        BY <3>1, Zenon DEF onServantStartCompleted
    <2> HIDE DEF x, t
    <2>3. /\ Steady(srv, "Starting", g.events)
          /\ Paid("Starting", g.events, g.owed.start, g.owed.stop)
          /\ g.statsTimer /\ Len(srv) = 1
          /\ g.owed.start \in Int /\ g.owed.stop \in Int
      BY <1>4, <2>1 DEF Fine, InStep, Steady, Opened, Uses, Windows
    <2>4. /\ Num(t, "forward", "start") = Num(g.events, "forward", "start")
          /\ Num(t, "forward", "stop") = Num(g.events, "forward", "stop")
          /\ Num(t, "servant", "exception") =
               Num(g.events, "servant", "exception")
          /\ Num(t, "forward", "start") \in Nat /\ Num(t, "forward", "stop") \in Nat
      BY <2>1, NumsNat DEF Extra, One
    <2>5. Opened(x) /\ Len(x.srv) = 1
      BY <2>1, <2>3 DEF Has, Opened
    <2>6. /\ Paid("Stopped", t, g.owed.start - 1, g.owed.stop)
          /\ Paid("Working", t, g.owed.start - 1, g.owed.stop)
      BY <2>3, <2>4 DEF Paid, One
    <2>7. {"Stopped", "Working"} \subseteq ServiceState /\ "wait" \in Api!Calls
      BY DEF ServiceState, Api!Calls
    <2>8. Fine(on_service_startCompleted(d))
      <3> DEFINE c == destroyServant(x)
      <3>1. Has(c, <<>>, "Starting", t, g.shown,
                g.statsTimer, g.owed.start, g.owed.stop)
        BY <2>1, <2>5, DestroyHas DEF Has
      <3>2. d = Become(c, "Stopped")
        OBVIOUS
      <3> HIDE DEF c, d
      <3>3. Has(d, <<>>, "Stopped", t, g.shown,
                g.statsTimer, g.owed.start, g.owed.stop)
        BY <2>7, <3>1, <3>2, BecomeFrom
      <3>4. Steady(<<>>, "Stopped", t)
        BY DEF Steady
      <3>5. /\ Opened(d) /\ Steady(d.srv, d.g.state, d.g.events)
            /\ Paid(d.g.state, d.g.events, d.g.owed.start - 1, d.g.owed.stop)
            /\ d.g.state = "Stopped"
        BY <2>6, <3>3, <3>4 DEF Has, Opened
      <3> QED
        BY <3>5, StartAnswered
    <2>9. Fine(on_service_startCompleted(w))
      <3> DEFINE c == async_call(x, "wait")
      <3>1. /\ Has(c, c.srv, x.g.state, x.g.events, x.g.shown,
                   x.g.statsTimer, x.g.owed.start, x.g.owed.stop)
            /\ Len(c.srv) = 1 /\ c.srv[1].alive = x.srv[1].alive
        BY <2>5, <2>7, CallHas
      <3>2. w = Become(c, "Working")
        OBVIOUS
      <3> HIDE DEF c, w
      <3>3. /\ Has(c, c.srv, "Starting", t, g.shown,
                   g.statsTimer, g.owed.start, g.owed.stop)
            /\ c.srv[1].alive = srv[1].alive
        BY <2>1, <3>1 DEF Has
      <3>4. Has(w, c.srv, "Working", t, g.shown,
                g.statsTimer, g.owed.start, g.owed.stop)
        BY <2>7, <3>2, <3>3, BecomeFrom
      <3>5. Steady(c.srv, "Working", t)
        BY <2>3, <2>4, <3>1, <3>3 DEF Steady
      <3>6. /\ Opened(w) /\ Steady(w.srv, w.g.state, w.g.events)
            /\ Paid(w.g.state, w.g.events, w.g.owed.start - 1, w.g.owed.stop)
            /\ w.g.statsTimer
        BY <2>3, <2>6, <3>4, <3>5 DEF Has, Opened
      <3> QED
        BY <3>6, StartAnswered
    <2> QED
      BY <1>1, <2>2, <2>8, <2>9, StepFine DEF x
  <1> QED
    BY <1>3, <1>4

\* The wait for the server ends.
LEMMA ServantWaitKeeps ==
  ASSUME QtInv, ServantWaitCompleted PROVE QtInv'
  <1> DEFINE x == Rest
  <1>1. /\ Taken("servant", "wait") # {}
        /\ Step(onServantWaitCompleted(x))
    BY Zenon DEF ServantWaitCompleted
  <1>2. Fine(x)
    BY <1>1, RestFine
  <1> HIDE DEF x
  <1>3. \/ onServantWaitCompleted(x) = on_service_workCompleted(x)
        \/ onServantWaitCompleted(x) = x
    BY Zenon DEF onServantWaitCompleted
  <1>4. Fine(on_service_workCompleted(x))
    BY <1>2, WorkAnswered DEF Fine
  <1> QED
    BY <1>1, <1>2, <1>3, <1>4, StepFine

\* An event says that the work was given up.
LEMMA ForwardWorkKeeps ==
  ASSUME QtInv, ForwardWorkCompleted PROVE QtInv'
  <1> DEFINE x == Rest
  <1>1. /\ Taken("forward", "work") # {}
        /\ Step(on_service_workCompleted(x))
    BY Zenon DEF ForwardWorkCompleted
  <1>2. Fine(x)
    BY <1>1, RestFine
  <1> HIDE DEF x
  <1>3. Fine(on_service_workCompleted(x))
    BY <1>2, WorkAnswered DEF Fine
  <1> QED
    BY <1>1, <1>3, StepFine

\* The server answers a stop.
LEMMA ServantStopKeeps ==
  ASSUME QtInv, ServantStopCompleted PROVE QtInv'
  <1> DEFINE x == Rest
             t == x.g.events
  <1>1. PICK error \in Taken("servant", "stop") :
          Step(onServantStopCompleted(x, error))
    BY Zenon DEF ServantStopCompleted
  <1>2. Taken("servant", "stop") # {}
    OBVIOUS
  <1>3. CASE g.state # "Stopping"
    <2>1. Fine(x)
      BY <1>2, <1>3, RestFine
    <2>2. x.g.state # "Stopping"
      BY <1>2, <1>3, RestHas DEF Has
    <2>3. onServantStopCompleted(x, error) = x
      BY <2>2, Zenon DEF onServantStopCompleted
    <2> QED
      BY <1>1, <2>1, <2>3, StepFine
  <1>4. CASE g.state = "Stopping"
    <2>1. /\ Has(x, srv, "Stopping", t, g.shown,
                 g.statsTimer, g.owed.start, g.owed.stop)
          /\ Extra(g.events, t, "servant", "stop")
          /\ t \in Seq(Signals) /\ g.events \in Seq(Signals)
          /\ Fine(Now) /\ Now.g = g /\ Now.srv = srv
      BY <1>2, <1>4, RestHas
    <2> DEFINE c == destroyServant(x)
               d == Become(c, "Stopped")
    <2>2. onServantStopCompleted(x, error) = on_service_stopCompleted(d)
      <3>1. x.g.state = "Stopping"
        BY <2>1 DEF Has
      <3> QED
        BY <3>1, Zenon DEF onServantStopCompleted
    <2> HIDE DEF x, t
    <2>3. /\ Paid("Stopping", g.events, g.owed.start, g.owed.stop)
          /\ Len(srv) = 1
          /\ g.owed.start \in Int /\ g.owed.stop \in Int
      BY <1>4, <2>1 DEF Fine, InStep, Steady, Opened, Uses, Windows
    <2>4. /\ Num(t, "forward", "start") = Num(g.events, "forward", "start")
          /\ Num(t, "forward", "stop") = Num(g.events, "forward", "stop")
          /\ Num(t, "forward", "start") \in Nat /\ Num(t, "forward", "stop") \in Nat
      BY <2>1, NumsNat DEF Extra, One
    <2>5. Opened(x) /\ Len(x.srv) = 1
      BY <2>1, <2>3 DEF Has, Opened
    <2>6. Paid("Stopped", t, g.owed.start, g.owed.stop - 1)
      BY <2>3, <2>4 DEF Paid, One
    <2>7. "Stopped" \in ServiceState
      BY DEF ServiceState
    <2>8. Has(c, <<>>, "Stopping", t, g.shown,
              g.statsTimer, g.owed.start, g.owed.stop)
      BY <2>1, <2>5, DestroyHas DEF Has
    <2> HIDE DEF c
    <2>9. Has(d, <<>>, "Stopped", t, g.shown,
              g.statsTimer, g.owed.start, g.owed.stop)
      BY <2>7, <2>8, BecomeFrom
    <2> HIDE DEF d
    <2>10. Steady(<<>>, "Stopped", t)
      BY DEF Steady
    <2>11. /\ Opened(d) /\ Steady(d.srv, d.g.state, d.g.events)
           /\ Paid(d.g.state, d.g.events, d.g.owed.start, d.g.owed.stop - 1)
           /\ d.g.state = "Stopped"
      BY <2>6, <2>9, <2>10 DEF Has, Opened
    <2>12. Fine(on_service_stopCompleted(d))
      BY <2>11, StopIsAnswered
    <2> QED
      BY <1>1, <2>2, <2>12, StepFine DEF x
  <1> QED
    BY <1>3, <1>4

\* A thread of the server, or of an earlier one, has died.
LEMMA ServantExceptionKeeps ==
  ASSUME QtInv, ServantWorkThreadExceptionHappened PROVE QtInv'
  <1> DEFINE x == Rest
             t == x.g.events
  <1>1. /\ Taken("servant", "exception") # {}
        /\ Step(onServantWorkThreadExceptionHappened(x))
    BY Zenon DEF ServantWorkThreadExceptionHappened
  <1>2. CASE g.state = "Stopped"
    <2>1. Fine(x)
      BY <1>1, <1>2, RestFine
    <2>2. x.g.state = "Stopped"
      BY <1>1, <1>2, RestHas DEF Has
    <2>3. onServantWorkThreadExceptionHappened(x) = x
      BY <2>2, Zenon DEF onServantWorkThreadExceptionHappened
    <2> QED
      BY <1>1, <2>1, <2>3, StepFine
  <1>3. CASE g.state # "Stopped"
    <2>1. /\ Has(x, srv, g.state, t, g.shown,
                 g.statsTimer, g.owed.start, g.owed.stop)
          /\ Extra(g.events, t, "servant", "exception")
          /\ t \in Seq(Signals) /\ g.events \in Seq(Signals)
          /\ Fine(Now) /\ Now.g = g /\ Now.srv = srv
      BY <1>1, RestHas
    <2> DEFINE s == terminate(x)
    <2>2. onServantWorkThreadExceptionHappened(x) = Refresh(s)
      <3>1. x.g.state # "Stopped"
        BY <1>3, <2>1 DEF Has
      <3> QED
        BY <3>1, Zenon DEF onServantWorkThreadExceptionHappened,
                           on_service_exceptionHappened
    <2> HIDE DEF x, t
    <2>3. /\ Paid(g.state, g.events, g.owed.start, g.owed.stop)
          /\ Len(srv) = 1
      BY <1>3, <2>1 DEF Fine, InStep, Steady
    <2>4. /\ Num(t, "forward", "start") = Num(g.events, "forward", "start")
          /\ Num(t, "forward", "stop") = Num(g.events, "forward", "stop")
      BY <2>1, NumsNat DEF Extra, One
    <2>5. Paid(g.state, t, g.owed.start, g.owed.stop)
      BY <2>3, <2>4 DEF Paid
    <2>6. /\ Opened(x) /\ Len(x.srv) = 1 /\ x.g.state # "Stopped"
          /\ Paid(x.g.state, x.g.events, x.g.owed.start, x.g.owed.stop)
      BY <1>3, <2>1, <2>3, <2>5 DEF Has, Opened
    <2>7. InStep(s) /\ s.g.state = "Stopped"
      BY <2>6, TerminateInStep
    <2> HIDE DEF s
    <2>8. Fine(Refresh(s))
      BY <2>7, RefreshFine
    <2> QED
      BY <1>1, <2>2, <2>8, StepFine DEF x
  <1> QED
    BY <1>2, <1>3

\* An event answers a start that was given up or refused.
LEMMA ForwardStartKeeps ==
  ASSUME QtInv, ForwardStartCompleted PROVE QtInv'
  <1> DEFINE x == Rest
             t == x.g.events
  <1>1. /\ Taken("forward", "start") # {}
        /\ Step(on_service_startCompleted(x))
    BY Zenon DEF ForwardStartCompleted
  <1>2. /\ Has(x, srv, g.state, t, g.shown,
               g.statsTimer, g.owed.start, g.owed.stop)
        /\ Extra(g.events, t, "forward", "start")
        /\ t \in Seq(Signals) /\ g.events \in Seq(Signals)
        /\ Fine(Now) /\ Now.g = g /\ Now.srv = srv
    BY <1>1, RestHas
  <1> HIDE DEF x, t
  <1>3. /\ Paid(g.state, g.events, g.owed.start, g.owed.stop)
        /\ Steady(srv, g.state, g.events)
        /\ g.state # "Stopped" => g.statsTimer
    BY <1>2 DEF Fine, InStep
  <1>4. /\ Num(g.events, "forward", "start") = Num(t, "forward", "start") + 1
        /\ Num(g.events, "forward", "stop") = Num(t, "forward", "stop")
        /\ Num(g.events, "servant", "start") = Num(t, "servant", "start")
        /\ Num(g.events, "servant", "stop") = Num(t, "servant", "stop")
        /\ Num(g.events, "servant", "exception") =
             Num(t, "servant", "exception")
        /\ Num(t, "forward", "start") \in Nat
    BY <1>2, NumsNat DEF Extra, One
  <1>5. Paid(g.state, t, g.owed.start - 1, g.owed.stop)
    BY <1>3, <1>4 DEF Paid, One
  <1>6. Steady(srv, g.state, t)
    BY <1>3, <1>4 DEF Steady, Expected
  <1>7. /\ Opened(x) /\ Steady(x.srv, x.g.state, x.g.events)
        /\ Paid(x.g.state, x.g.events, x.g.owed.start - 1, x.g.owed.stop)
        /\ x.g.state # "Stopped" => x.g.statsTimer
    BY <1>2, <1>3, <1>5, <1>6 DEF Has, Opened
  <1>8. Fine(on_service_startCompleted(x))
    BY <1>7, StartAnswered
  <1> QED
    BY <1>1, <1>8, StepFine DEF x

\* An event answers a stop that was given up or refused.
LEMMA ForwardStopKeeps ==
  ASSUME QtInv, ForwardStopCompleted PROVE QtInv'
  <1> DEFINE x == Rest
             t == x.g.events
  <1>1. /\ Taken("forward", "stop") # {}
        /\ Step(on_service_stopCompleted(x))
    BY Zenon DEF ForwardStopCompleted
  <1>2. /\ Has(x, srv, g.state, t, g.shown,
               g.statsTimer, g.owed.start, g.owed.stop)
        /\ Extra(g.events, t, "forward", "stop")
        /\ t \in Seq(Signals) /\ g.events \in Seq(Signals)
        /\ Fine(Now) /\ Now.g = g /\ Now.srv = srv
    BY <1>1, RestHas
  <1> HIDE DEF x, t
  <1>3. /\ Paid(g.state, g.events, g.owed.start, g.owed.stop)
        /\ Steady(srv, g.state, g.events)
        /\ g.state # "Stopped" => g.statsTimer
    BY <1>2 DEF Fine, InStep
  <1>4. /\ Num(g.events, "forward", "start") = Num(t, "forward", "start")
        /\ Num(g.events, "forward", "stop") = Num(t, "forward", "stop") + 1
        /\ Num(g.events, "servant", "start") = Num(t, "servant", "start")
        /\ Num(g.events, "servant", "stop") = Num(t, "servant", "stop")
        /\ Num(g.events, "servant", "exception") =
             Num(t, "servant", "exception")
        /\ Num(t, "forward", "stop") \in Nat
    BY <1>2, NumsNat DEF Extra, One
  <1>5. Paid(g.state, t, g.owed.start, g.owed.stop - 1)
    BY <1>3, <1>4 DEF Paid, One
  <1>6. Steady(srv, g.state, t)
    BY <1>3, <1>4 DEF Steady, Expected
  <1>7. /\ Opened(x) /\ Steady(x.srv, x.g.state, x.g.events)
        /\ Paid(x.g.state, x.g.events, x.g.owed.start, x.g.owed.stop - 1)
        /\ x.g.state # "Stopped" => x.g.statsTimer
    BY <1>2, <1>3, <1>5, <1>6 DEF Has, Opened
  <1>8. Fine(on_service_stopCompleted(x))
    BY <1>7, StopIsAnswered
  <1> QED
    BY <1>1, <1>8, StepFine DEF x

-----------------------------------------------------------------------------
(***************************************************************************)
(* Every action keeps the invariant: the server.                            *)
(***************************************************************************)
\* A server runs for an open window that is not stopped.
LEMMA RunningSeen ==
  ASSUME QtInv, Running
  PROVE  /\ Fine(Now) /\ g \in Windows /\ g.closed = FALSE
         /\ g.state # "Stopped" /\ Len(srv) = 1
         /\ srv \in Seq(Servers)
         /\ srv[1] \in Servers /\ srv[1].alive
         /\ g.events \in Seq(Signals)
         /\ Steady(srv, g.state, g.events)
         /\ Paid(g.state, g.events, g.owed.start, g.owed.stop)
         /\ g.shown = g.state
         /\ g.statsTimer <=> g.state # "Stopped"
  <1>1. srv # <<>> /\ srv[1].alive
    BY DEF Running
  <1>2. Fine(Now)
    BY <1>1 DEF QtInv
  <1>3. /\ g \in Windows /\ g.closed = FALSE /\ srv \in Seq(Servers)
        /\ Steady(srv, g.state, g.events)
        /\ Paid(g.state, g.events, g.owed.start, g.owed.stop)
        /\ g.shown = g.state
        /\ g.statsTimer <=> g.state # "Stopped"
    BY <1>2, NowIs DEF Fine, InStep, Opened, Uses
  <1>4. g.state # "Stopped" /\ Len(srv) = 1
    BY <1>1, <1>3 DEF Steady
  <1>5. srv[1] \in Servers
    <2>1. srv \in Seq(Servers) /\ Len(srv) = 1
      BY <1>3, <1>4
    <2> QED
      BY <2>1
  <1>6. g.events \in Seq(Signals)
    BY <1>3 DEF Windows
  <1> QED
    BY <1>1, <1>2, <1>3, <1>4, <1>5, <1>6

\* The window gets events of the server, and its callers none.
LEMMA ServerFine ==
  ASSUME QtInv, Running, NEW v \in Servers, NEW q \in Seq(Signals),
         g' = [g EXCEPT !.events = q], srv' = <<v>>,
         Num(q, "forward", "start") = Num(g.events, "forward", "start"),
         Num(q, "forward", "stop") = Num(g.events, "forward", "stop"),
         Steady(<<v>>, g.state, q)
  PROVE  QtInv'
  <1> DEFINE w == <<v>>
             y == [g |-> [g EXCEPT !.events = q], srv |-> w]
  <1>1. w \in Seq(Servers)
    OBVIOUS
  <1>2. Steady(w, g.state, q) /\ srv' = w
    OBVIOUS
  <1> HIDE DEF w
  <1>3. Has(y, w, g.state, q, g.shown, g.statsTimer,
            g.owed.start, g.owed.stop)
    BY <1>1, RunningSeen DEF Has, Uses, Windows
  <1>4. Step(y)
    BY <1>2 DEF Step
  <1> HIDE DEF y
  <1>5. Paid(g.state, q, g.owed.start, g.owed.stop)
    BY RunningSeen DEF Paid
  <1>6. Fine(y)
    BY <1>2, <1>3, <1>5, RunningSeen DEF Has, Fine, InStep, Opened
  <1> QED
    BY <1>4, <1>6, StepFine

\* The window has no new event.
LEMMA QuietFine ==
  ASSUME QtInv, Running, NEW v \in Servers, v.alive,
         g' = g, srv' = <<v>>,
         \A call \in {"start", "stop"} : Busy(srv[1], call) => Busy(v, call)
  PROVE  QtInv'
  <1> DEFINE q == g.events
             w == <<v>>
  <1>1. /\ g \in Windows /\ q \in Seq(Signals)
        /\ Steady(srv, g.state, q)
    BY RunningSeen
  <1>2. g' = [g EXCEPT !.events = q]
    BY <1>1 DEF Windows
  <1>3. Len(w) = 1 /\ w[1] = v
    OBVIOUS
  <1> HIDE DEF w, q
  <1>4. /\ Expected(srv, q, "start") => Expected(w, q, "start")
        /\ Expected(srv, q, "stop") => Expected(w, q, "stop")
    BY <1>3 DEF Expected
  <1>5. Steady(w, g.state, q)
    BY <1>1, <1>3, <1>4, RunningSeen DEF Steady
  <1> QED
    BY <1>1, <1>2, <1>5, ServerFine DEF q, w

\* A call that is not the first of a queue stays in it.
LEMMA QueueTail ==
  ASSUME NEW q \in Seq(Api!Calls), q # <<>>, NEW call \in ToSet(q), call # Head(q)
  PROVE  call \in ToSet(Tail(q))
  <1> DEFINE r == Tail(q)
  <1>1. /\ Len(r) = Len(q) - 1 /\ Head(q) = q[1] /\ Len(q) \in Nat
        /\ \A k \in 1 .. Len(r) : r[k] = q[k + 1]
        /\ DOMAIN r = 1 .. Len(r) /\ DOMAIN q = 1 .. Len(q)
    OBVIOUS
  <1> HIDE DEF r
  <1>2. PICK k \in DOMAIN q : q[k] = call
    BY DEF ToSet
  <1>3. k - 1 \in 1 .. Len(r) /\ (k - 1) + 1 = k
    BY <1>1, <1>2
  <1>4. r[k - 1] = call
    BY <1>1, <1>2, <1>3
  <1>5. call \in ToSet(r)
    BY <1>1, <1>3, <1>4 DEF ToSet
  <1> QED
    BY <1>5 DEF r

\* The server takes a call.
LEMMA ServerCallKeeps ==
  ASSUME QtInv, ServerCall PROVE QtInv'
  <1> DEFINE b == srv[1]
             q == b.queue
             call == Head(q)
  <1>1. PICK api \in Called(call, b.api) :
          srv' = <<[b EXCEPT !.queue = Tail(@), !.api = api]>>
    BY Zenon DEF ServerCall
  <1>2. Running /\ q # <<>> /\ g' = g
    BY DEF ServerCall
  <1>3. /\ b \in Servers /\ b.alive /\ q \in Seq(Api!Calls) /\ b.api \in Api!ApiStates
    <2>1. b \in Servers /\ b.alive
      BY <1>2, RunningSeen
    <2> HIDE DEF b
    <2> QED
      BY <2>1 DEF Servers
  <1>4. call \in Api!Calls /\ Tail(q) \in Seq(Api!Calls)
    BY <1>2, <1>3
  <1>5. /\ Remembers(b.api, api)
        /\ call = "start" => api.posted["start"] # <<>>
        /\ call = "stop" => Holds(api)
    <2> HIDE DEF b, q, call
    <2>1. call \in {"start", "wait", "stop"}
      BY <1>4 DEF Api!Calls
    <2>2. CASE call = "start"
      <3>1. api \in Api!Started(b.api)
        BY <2>2 DEF Called
      <3> QED
        BY <1>3, <2>2, <3>1, StartedRemembers
    <2>3. CASE call = "wait"
      <3>1. api \in Api!Waited(b.api)
        BY <2>3 DEF Called
      <3> QED
        BY <1>3, <2>3, <3>1, WaitedRemembers
    <2>4. CASE call = "stop"
      <3>1. api \in Api!Stopped(b.api)
        BY <2>4 DEF Called
      <3> QED
        BY <1>3, <2>4, <3>1, StoppedRemembers
    <2> QED
      BY <2>1, <2>2, <2>3, <2>4
  <1> DEFINE t == Tail(q)
             v == [b EXCEPT !.queue = t, !.api = api]
  <1>6. srv' = <<v>>
    BY <1>1, <1>3 DEF Servers
  <1>7. \A c \in ToSet(q) : c = call \/ c \in ToSet(t)
    BY <1>2, <1>3, QueueTail
  <1> HIDE DEF t, b, q, call
  <1>8. v \in Servers /\ v.alive = b.alive /\ v.queue = t /\ v.api = api
    BY <1>3, <1>4, <1>5 DEF Servers, Remembers, t
  <1> HIDE DEF v
  <1>9. Busy(b, "start") => Busy(v, "start")
    <2>1. Busy(b, "start") <=> "start" \in ToSet(q) \/ b.api.posted["start"] # <<>>
      BY DEF Busy, q
    <2> QED
      BY <1>5, <1>7, <1>8, <2>1 DEF Busy, Remembers
  <1>10. Busy(b, "stop") => Busy(v, "stop")
    <2>1. Busy(b, "stop") <=> "stop" \in ToSet(q) \/ Holds(b.api)
      BY DEF Busy, q, Holds
    <2>2. "stop" \in ToSet(t) \/ Holds(v.api) => Busy(v, "stop")
      BY <1>8 DEF Busy, Holds
    <2> QED
      BY <1>5, <1>7, <1>8, <2>1, <2>2 DEF Remembers
  <1>11. \A c \in {"start", "stop"} : Busy(srv[1], c) => Busy(v, c)
    BY <1>9, <1>10 DEF b
  <1> QED
    BY <1>2, <1>3, <1>6, <1>8, <1>11, QuietFine

\* The server ends by itself, or goes on to end.
LEMMA ServerEndKeeps ==
  ASSUME QtInv, ServerEnd PROVE QtInv'
  <1> DEFINE b == srv[1]
  <1>1. PICK api \in Api!Ended(b.api) : srv' = <<[b EXCEPT !.api = api]>>
    BY Zenon DEF ServerEnd
  <1>2. Running /\ g' = g
    BY DEF ServerEnd
  <1>3. b \in Servers /\ b.alive
    BY <1>2, RunningSeen
  <1> DEFINE v == [b EXCEPT !.api = api]
  <1>4. srv' = <<v>>
    BY <1>1
  <1> HIDE DEF b
  <1>5. b.api \in Api!ApiStates
    BY <1>3 DEF Servers
  <1>6. api \in Api!Ended(b.api)
    BY <1>1
  <1>7. Remembers(b.api, api)
    BY <1>5, <1>6, EndedRemembers
  <1>8. v \in Servers /\ v.alive = b.alive /\ v.queue = b.queue /\ v.api = api
    BY <1>3, <1>7 DEF Servers, Remembers
  <1> HIDE DEF v
  <1>9. (Busy(b, "start") => Busy(v, "start")) /\ (Busy(b, "stop") => Busy(v, "stop"))
    BY <1>7, <1>8 DEF Busy, Remembers, Holds
  <1>10. \A c \in {"start", "stop"} : Busy(srv[1], c) => Busy(v, c)
    BY <1>9 DEF b
  <1> QED
    BY <1>2, <1>3, <1>4, <1>8, <1>10, QuietFine

\* A handler of the server posts its event.
LEMMA EmitKeeps ==
  ASSUME QtInv, Emit PROVE QtInv'
  <1> DEFINE b == srv[1]
  <1>1. PICK call \in Api!Calls :
          /\ b.api.posted[call] # <<>>
          /\ g' = [g EXCEPT !.events = Append(@,
               Event("servant", call, Head(b.api.posted[call])))]
          /\ srv' = <<[b EXCEPT !.api.posted[call] = Tail(@)]>>
    BY Zenon DEF Emit
  <1>2. Running
    BY DEF Emit
  <1>3. call \in Api!Calls
    BY <1>1
  <1>4. /\ b \in Servers /\ b.alive /\ g \in Windows
        /\ g.events \in Seq(Signals)
        /\ Steady(srv, g.state, g.events)
    BY <1>2, RunningSeen
  <1> DEFINE e == Event("servant", call, Head(b.api.posted[call]))
             q == Append(g.events, e)
             p == [b.api.posted EXCEPT ![call] = Tail(@)]
             u == [b.api EXCEPT !.posted = p]
             v == [b EXCEPT !.api = u]
             w == <<v>>
  <1>5. g' = [g EXCEPT !.events = q] /\ srv' = w
    BY <1>1, <1>4 DEF Windows, Servers, Api!ApiStates
  <1> HIDE DEF b
  <1>6. /\ b.api \in Api!ApiStates /\ b.api.posted \in [Api!Calls -> Seq(Api!Errors)]
        /\ b.api.posted[call] \in Seq(Api!Errors)
    BY <1>3, <1>4 DEF Servers, Api!ApiStates
  <1>7. Head(b.api.posted[call]) \in Api!Errors
    BY <1>1, <1>6
  <1>8. e \in Signals /\ e.from = "servant" /\ e.op = call
    BY <1>3, <1>7 DEF Event, Signals, Api!Calls
  <1> HIDE DEF e
  <1>9. q \in Seq(Signals) /\ Extra(q, g.events, "servant", call)
    BY <1>4, <1>8, ExtraAppend
  <1>10. /\ p \in [Api!Calls -> Seq(Api!Errors)]
         /\ \A c \in Api!Calls : c # call => p[c] = b.api.posted[c]
    <2>1. Tail(b.api.posted[call]) \in Seq(Api!Errors)
      BY <1>1, <1>6
    <2> QED
      BY <1>3, <1>6, <2>1
  <1> HIDE DEF q, p
  <1>11. u \in Api!ApiStates /\ u.posted = p /\ u.stop_handler = b.api.stop_handler
    BY <1>6, <1>10 DEF Api!ApiStates
  <1> HIDE DEF u
  <1>12. v \in Servers /\ v.alive = b.alive /\ v.queue = b.queue /\ v.api = u
    BY <1>4, <1>11 DEF Servers
  <1> HIDE DEF v
  <1>13. Len(w) = 1 /\ w[1] = v
    OBVIOUS
  <1> HIDE DEF w
  <1>14. /\ Num(q, "forward", "start") = Num(g.events, "forward", "start")
         /\ Num(q, "forward", "stop") = Num(g.events, "forward", "stop")
         /\ Num(q, "servant", "exception") =
              Num(g.events, "servant", "exception")
         /\ Num(q, "servant", "start") =
              Num(g.events, "servant", "start") + One(call = "start")
         /\ Num(q, "servant", "stop") =
              Num(g.events, "servant", "stop") + One(call = "stop")
         /\ Num(g.events, "servant", "start") \in Nat
         /\ Num(g.events, "servant", "stop") \in Nat
    BY <1>3, <1>4, <1>9, NumsNat DEF Extra, One, Api!Calls
  <1>15. ASSUME NEW c \in {"start", "stop"}, Expected(srv, g.events, c)
         PROVE  Expected(w, q, c)
    <2>1. CASE c = call
      BY <1>14, <2>1 DEF Expected, One
    <2>2. CASE c # call
      <3>1. Num(q, "servant", c) = Num(g.events, "servant", c)
        BY <1>14, <2>2 DEF One
      <3>2. Busy(b, c) => Busy(v, c)
        BY <1>10, <1>11, <1>12, <2>2 DEF Busy, Api!Calls
      <3> QED
        BY <1>13, <1>14, <1>15, <3>1, <3>2 DEF Expected, b
    <2> QED
      BY <2>1, <2>2
  <1>16. Steady(w, g.state, q)
    BY <1>2, <1>4, <1>12, <1>13, <1>15, RunningSeen DEF Steady
  <1> QED
    BY <1>2, <1>5, <1>9, <1>12, <1>14, <1>16, ServerFine DEF w

\* A thread of the server dies.
LEMMA ExceptionKeeps ==
  ASSUME QtInv, WorkThreadException PROVE QtInv'
  <1> DEFINE b == srv[1]
             e == Event("servant", "exception", "ok")
             q == Append(g.events, e)
  <1>1. /\ Running /\ g' = [g EXCEPT !.events = Append(@, e)]
    BY Zenon DEF WorkThreadException
  <1>2. PICK alive \in BOOLEAN : srv' = <<[b EXCEPT !.alive = alive]>>
    BY Zenon DEF WorkThreadException
  <1>3. /\ b \in Servers /\ g \in Windows /\ g.events \in Seq(Signals)
        /\ Steady(srv, g.state, g.events)
        /\ g.state # "Stopped"
    BY <1>1, RunningSeen
  <1>4. g' = [g EXCEPT !.events = q]
    BY <1>1, <1>3 DEF Windows
  <1>5. e \in Signals /\ e.from = "servant" /\ e.op = "exception"
    BY DEF Event, Signals, Api!Errors
  <1> HIDE DEF e
  <1>6. q \in Seq(Signals) /\ Extra(q, g.events, "servant", "exception")
    BY <1>3, <1>5, ExtraAppend
  <1> HIDE DEF q
  <1>7. /\ Num(q, "forward", "start") = Num(g.events, "forward", "start")
        /\ Num(q, "forward", "stop") = Num(g.events, "forward", "stop")
        /\ Num(q, "servant", "exception") > 0
    BY <1>3, <1>6, NumsNat DEF Extra, One
  <1> DEFINE v == [b EXCEPT !.alive = alive]
             w == <<v>>
  <1>8. v \in Servers
    BY <1>2, <1>3 DEF Servers
  <1>9. srv' = w
    BY <1>2
  <1> HIDE DEF v
  <1>10. Len(w) = 1
    OBVIOUS
  <1> HIDE DEF w
  <1>11. Steady(w, g.state, q)
    BY <1>3, <1>7, <1>10 DEF Steady, Expected
  <1> QED
    BY <1>1, <1>4, <1>6, <1>7, <1>8, <1>9, <1>11, ServerFine DEF w

-----------------------------------------------------------------------------
\* The window opens with nothing to do.
LEMMA QtInit == ASSUME Init PROVE QtInv
  <1>1. g = MainForm /\ srv = <<>>
    BY DEF Init
  <1>2. /\ g \in Windows /\ g.closed = FALSE /\ g.state = "Stopped"
        /\ g.shown = "Stopped" /\ g.statsTimer = FALSE
        /\ g.events = <<>> /\ g.owed.start = 0 /\ g.owed.stop = 0
    BY <1>1 DEF MainForm, Windows, ServiceState
  <1>3. ASSUME NEW from, NEW op PROVE Num(<<>>, from, op) = 0
    <2>1. Occurs(<<>>, from, op) = {}
      BY DEF Occurs
    <2> QED
      BY <2>1, FS_EmptySet DEF Num
  <1>4. Paid("Stopped", <<>>, 0, 0)
    BY <1>3 DEF Paid, One
  <1>5. Steady(<<>>, "Stopped", <<>>)
    BY DEF Steady
  <1>6. Now \in Uses
    BY <1>1, <1>2 DEF Now, Uses
  <1>7. Fine(Now)
    BY <1>1, <1>2, <1>4, <1>5, <1>6, NowIs DEF Fine, InStep, Opened
  <1> QED
    BY <1>2, <1>7 DEF QtInv

\* Every step keeps the invariant.
LEMMA QtNext == ASSUME QtInv, [Next]_(vars) PROVE QtInv'
  <1>1. CASE Next
    BY <1>1, StartButton, StopButton, TerminateButton, CloseKeeps,
       ServantStartKeeps, ServantWaitKeeps, ServantStopKeeps,
       ServantExceptionKeeps, ForwardStartKeeps, ForwardStopKeeps,
       ForwardWorkKeeps, ServerCallKeeps, ServerEndKeeps, EmitKeeps,
       ExceptionKeeps
    DEF Next, GuiStep, ServerStep
  <1>2. CASE UNCHANGED vars
    BY <1>2 DEF QtInv, vars, Now, Fine, InStep
  <1> QED
    BY <1>1, <1>2

\* The invariant implies that the service is sound.
LEMMA ServiceSeen == ASSUME QtInv PROVE ServiceSound
  <1>1. CASE g.closed
    BY <1>1 DEF QtInv, ServiceSound, TypeOK
  <1>2. CASE ~g.closed
    <2>1. /\ Fine(Now) /\ g \in Windows /\ srv \in Seq(Servers)
          /\ Steady(srv, g.state, g.events)
          /\ Paid(g.state, g.events, g.owed.start, g.owed.stop)
          /\ g.shown = g.state
          /\ g.statsTimer <=> g.state # "Stopped"
      BY <1>2, NowIs DEF QtInv, Fine, InStep, Opened, Uses
    <2>2. \A from, op : CountOf(from, op) = Num(g.events, from, op)
      BY DEF CountOf, Num, Occurs
    <2>3. TypeOK
      <3>1. g.state \in ServiceState /\ g.shown \in ServiceState
        BY <2>1 DEF Windows
      <3>2. srv = <<>> \/ Len(srv) = 1
        BY <2>1 DEF Steady
      <3>3. Len(srv) <= 1
        <4> DEFINE n == Len(srv)
        <4>1. Len(<<>>) = 0
          OBVIOUS
        <4>2. n = 0 \/ n = 1
          BY <3>2, <4>1
        <4> HIDE DEF n
        <4>3. n <= 1
          BY <4>2
        <4> QED
          BY <4>3 DEF n
      <3> QED
        BY <3>1, <3>3 DEF TypeOK
    <2>4. srv = <<>> <=> g.state = "Stopped"
      BY <2>1 DEF Steady
    <2>5. ASSUME NEW call, g.state # "Stopped",
                 Expected(srv, g.events, call)
          PROVE  OnItsWay(call)
      <3>1. srv # <<>>
        BY <2>4, <2>5
      <3>2. CASE srv[1].alive
        BY <2>2, <2>5, <3>1, <3>2 DEF Expected, Busy, OnItsWay, Running
      <3>3. CASE ~srv[1].alive
        BY <2>1, <2>2, <2>5, <3>3 DEF Steady, OnItsWay
      <3> QED
        BY <3>2, <3>3
    <2>6. /\ g.state = "Starting" => OnItsWay("start")
          /\ g.state = "Stopping" => OnItsWay("stop")
      BY <2>1, <2>5 DEF Steady
    <2> QED
      BY <2>1, <2>2, <2>3, <2>4, <2>6 DEF ServiceSound, Paid, One
  <1> QED
    BY <1>1, <1>2

(***************************************************************************)
(* The invariant of the Service and its window holds for any number of      *)
(* servers and of dying threads, however the events of earlier servers, the *)
(* answers of the present one and the clicks of the user interleave.        *)
(***************************************************************************)
THEOREM ServiceInvariance == Spec => []QtInv
  BY QtInit, QtNext, PTL DEF Spec

(***************************************************************************)
(* service.cpp and mainform.cpp: a server exists unless the Service is      *)
(* stopped, the form shows the state as it is, and each start and stop is   *)
(* answered once, by the server or by an event.                             *)
(***************************************************************************)
THEOREM ServiceIsSound == Spec => [](ServiceSound)
  BY ServiceInvariance, ServiceSeen, PTL

=============================================================================

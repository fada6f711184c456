----------------------- MODULE CyclicReadSessionProofs -----------------------
(***************************************************************************)
(* Proofs about module CyclicReadSession, for every size of the ring, room  *)
(* of the callers and number of frames and calls: no handler is lost, the   *)
(* frames come in order, none is filled again while it is read, and a read  *)
(* error is seen once.                                                      *)
(***************************************************************************)
EXTENDS CyclicReadSession, FiniteSetTheorems, SequenceTheorems, TLAPS

(***************************************************************************)
(* The types of the session and of the calls.                               *)
(***************************************************************************)
Storages == {{}} \cup {{n} : n \in Nat}

Handlers ==
  [op : Ops, error : Errors, frames : Seq(Objects), numbers : Seq(Nat)]

Requests == [op : Ops, size : Nat]

Sessions ==
  [extern_state : {"ready", "work", "stop", "stopped"}, frame_buffer : Seq(Objects),
   read_error : Errors, stop_error : Errors, port_read_in_progress : BOOLEAN,
   port_write_in_progress : BOOLEAN, read_handler : Storages,
   stop_handler : {{}, {1}}, port : {"none", "head", "tail"}, writing : BOOLEAN,
   open : BOOLEAN, posted : Seq(Handlers), content : [Objects -> Nat],
   arrived : Nat, given : Nat, dropped : BOOLEAN]

(***************************************************************************)
(* The inductive invariant.                                                 *)
(***************************************************************************)
\* What is in progress, and when a handler may wait.
Flags(x) ==
  /\ x.port_read_in_progress = (x.port # "none")
  /\ x.port_write_in_progress = x.writing
  /\ x.read_handler # {} =>
       /\ x.extern_state = "work" /\ x.port_read_in_progress
       /\ x.frame_buffer = <<>> /\ x.read_error = "ok"
  /\ x.extern_state = "stopped" => may_complete_stop(x)
  /\ x.read_error # "ok" => x.port = "none"
  /\ x.extern_state = "ready" => x.port = "none" /\ x.read_error = "ok"
  /\ x.stop_handler # {} => x.extern_state = "stop"

Control(x) ==
  /\ Flags(x)
  /\ x.stop_handler # {} => ~may_complete_stop(x)

\* The frames of h are the ones that were handed out.
Held(x, h) ==
  /\ Len(h.numbers) = Len(h.frames)
  /\ \A k \in 1 .. Len(h.frames) :
       x.content[h.frames[k]] = h.numbers[k] /\ h.numbers[k] \in 1 .. x.given

\* The ring holds the newest frames, all newer than those handed out, and a
\* frame is in one object.
Frames(x) ==
  /\ Len(x.frame_buffer) <= RingSize
  /\ x.arrived <= MaxFrames
  /\ x.given <= x.arrived - Len(x.frame_buffer)
  /\ \A k \in 1 .. Len(x.frame_buffer) :
       x.content[x.frame_buffer[k]] = x.arrived - Len(x.frame_buffer) + k
  /\ \A o \in Objects : x.content[o] <= x.arrived
  /\ \A o, p \in Objects : x.content[o] = x.content[p] /\ x.content[o] > 0 => o = p
  /\ \A j \in 1 .. Len(x.posted) : Held(x, x.posted[j])

\* main loses no frame but by the overflow of the ring.
Balance(x) ==
  caller = "main" /\ ~x.dropped => x.arrived - Len(x.frame_buffer) = x.given

Sound(x) == x \in Sessions /\ Control(x) /\ Frames(x) /\ Balance(x)

\* The handlers of op the session has.
Waiting(x, op) ==
  \/ op = "read" /\ x.read_handler # {}
  \/ op = "stop" /\ x.stop_handler # {}
  \/ op = "write" /\ x.writing

One(b) == IF b THEN 1 ELSE 0

Have(x, op) == CountOf(x.posted, op) + One(Waiting(x, op))

RInv ==
  /\ caller \in {"main", "any"}
  /\ queue \in Seq(Requests)
  /\ owed \in [Ops -> Int]
  /\ Sound(s)
  /\ \A op \in Ops : owed[op] = CountOf(queue, op) + Have(s, op)

-----------------------------------------------------------------------------
(***************************************************************************)
(* Counting.                                                                *)
(***************************************************************************)
Places(q, op) == {k \in 1 .. Len(q) : q[k].op = op}

\* The places of op in a sequence are finitely many.
LEMMA PlacesFinite ==
  ASSUME NEW S, NEW q \in Seq(S), NEW op
  PROVE  /\ IsFiniteSet(Places(q, op)) /\ CountOf(q, op) = Cardinality(Places(q, op))
         /\ CountOf(q, op) \in Nat
  <1>1. DOMAIN q = 1 .. Len(q) /\ Len(q) \in Nat
    OBVIOUS
  <1>2. CountOf(q, op) = Cardinality(Places(q, op))
    BY <1>1 DEF CountOf, Places
  <1>3. IsFiniteSet(1 .. Len(q))
    BY <1>1, FS_Interval
  <1>4. Places(q, op) \in SUBSET (1 .. Len(q))
    BY DEF Places
  <1>5. IsFiniteSet(Places(q, op))
    BY <1>3, <1>4, FS_Subset
  <1> QED
    BY <1>2, <1>5, FS_CardinalityType

\* What is appended is counted.
LEMMA CountAppend ==
  ASSUME NEW S, NEW q \in Seq(S), NEW e \in S, NEW op
  PROVE  CountOf(Append(q, e), op) = CountOf(q, op) + One(e.op = op)
  <1> DEFINE r == Append(q, e)
             n == Len(q) + 1
  <1>1. /\ r \in Seq(S) /\ Len(r) = n /\ r[n] = e /\ n \in Nat
        /\ \A k \in 1 .. Len(q) : r[k] = q[k]
    OBVIOUS
  <1>2. CountOf(q, op) = Cardinality(Places(q, op)) /\ IsFiniteSet(Places(q, op))
        /\ CountOf(q, op) \in Nat
    BY PlacesFinite
  <1>3. CountOf(r, op) = Cardinality(Places(r, op))
    BY <1>1, PlacesFinite
  <1>4. n \notin Places(q, op)
    BY <1>1 DEF Places
  <1> HIDE DEF r
  <1>5. CASE e.op = op
    <2>1. Places(r, op) = Places(q, op) \cup {n}
      BY <1>1, <1>5 DEF Places
    <2>2. Cardinality(Places(r, op)) = Cardinality(Places(q, op)) + 1
      BY <1>2, <1>4, <2>1, FS_AddElement
    <2> QED
      BY <1>2, <1>3, <1>5, <2>2 DEF One, r
  <1>6. CASE e.op # op
    <2>1. Places(r, op) = Places(q, op)
      BY <1>1, <1>6 DEF Places
    <2> QED
      BY <1>2, <1>3, <1>6, <2>1 DEF One, r
  <1> QED
    BY <1>5, <1>6

\* What is removed is counted no more.
LEMMA CountRemove ==
  ASSUME NEW S, NEW q \in Seq(S), NEW r \in Seq(S), NEW k \in 1 .. Len(q), NEW op,
         Len(r) = Len(q) - 1,
         \A j \in 1 .. Len(r) : r[j] = q[IF j < k THEN j ELSE j + 1]
  PROVE  CountOf(r, op) = CountOf(q, op) - One(q[k].op = op)
  <1> DEFINE P == Places(r, op)
             Q == Places(q, op) \ {k}
             f == [j \in P |-> IF j < k THEN j ELSE j + 1]
  <1>1. /\ CountOf(q, op) = Cardinality(Places(q, op)) /\ IsFiniteSet(Places(q, op))
        /\ CountOf(r, op) = Cardinality(P) /\ IsFiniteSet(P)
        /\ CountOf(q, op) \in Nat
    BY PlacesFinite
  <1>2. Len(q) \in Nat /\ Len(r) \in Nat
    OBVIOUS
  <1>3. f \in [P -> Q]
    BY <1>2 DEF Places
  <1>4. \A i, j \in P : f[i] = f[j] => i = j
    BY <1>2 DEF Places
  <1>5. ASSUME NEW p \in Q PROVE \E j \in P : f[j] = p
    <2>1. p \in 1 .. Len(q) /\ q[p].op = op /\ p # k
      BY DEF Places
    <2>2. CASE p < k
      <3>1. p \in P /\ f[p] = p
        BY <1>2, <2>1, <2>2 DEF Places
      <3> QED
        BY <3>1
    <2>3. CASE ~(p < k)
      <3>1. p - 1 \in P /\ f[p - 1] = p
        BY SMTT(30), <1>2, <2>1, <2>3 DEF Places
      <3> QED
        BY <3>1
    <2> QED
      BY <2>2, <2>3
  <1> HIDE DEF f, P, Q
  <1>6. f \in Bijection(P, Q)
    BY <1>3, <1>4, <1>5 DEF Bijection, Injection, Surjection, IsInjective
  <1>7. Cardinality(Q) = Cardinality(P)
    BY <1>1, <1>6, FS_Bijection DEF ExistsBijection
  <1>8. Cardinality(Q) = IF k \in Places(q, op) THEN Cardinality(Places(q, op)) - 1
                         ELSE Cardinality(Places(q, op))
    BY <1>1, FS_RemoveElement DEF Q
  <1>9. k \in Places(q, op) <=> q[k].op = op
    BY DEF Places
  <1> QED
    BY <1>1, <1>7, <1>8, <1>9 DEF One

-----------------------------------------------------------------------------
(***************************************************************************)
(* Parts of the session that an operation leaves alone.                     *)
(***************************************************************************)
Ring(y, x) ==
  /\ y.frame_buffer = x.frame_buffer /\ y.arrived = x.arrived /\ y.given = x.given
  /\ y.content = x.content /\ y.dropped = x.dropped

Ports(y, x) ==
  /\ y.port_read_in_progress = x.port_read_in_progress /\ y.port = x.port
  /\ y.port_write_in_progress = x.port_write_in_progress /\ y.writing = x.writing

Alike(y, x) ==
  /\ Ring(y, x) /\ Ports(y, x)
  /\ y.extern_state = x.extern_state /\ y.read_error = x.read_error
  /\ y.stop_error = x.stop_error /\ y.read_handler = x.read_handler
  /\ y.stop_handler = x.stop_handler

\* What the session is like but for its control.
Stock(x) == x \in Sessions /\ Frames(x) /\ Balance(x)

Gains(y, x, op) == \A o \in Ops : Have(y, o) = Have(x, o) + One(o = op)
Keeps(y, x)     == \A o \in Ops : Have(y, o) = Have(x, o)

\* The frames stay what they are.
LEMMA SameFrames ==
  ASSUME NEW x, NEW y, Stock(x), y \in Sessions, Ring(y, x), y.posted = x.posted
  PROVE  Stock(y)
  BY DEF Stock, Ring, Frames, Held, Balance

\* The handlers of the session are numbers.
LEMMA HaveNat ==
  ASSUME NEW x \in Sessions, NEW op
  PROVE  CountOf(x.posted, op) \in Nat /\ Have(x, op) \in Nat
  <1>1. x.posted \in Seq(Handlers)
    BY DEF Sessions
  <1>2. CountOf(x.posted, op) \in Nat
    BY <1>1, PlacesFinite
  <1> QED
    BY <1>2 DEF Have, One

\* The control does not look at what is posted.
LEMMA SameControl ==
  ASSUME NEW x, NEW y, Alike(y, x)
  PROVE  (Flags(x) => Flags(y)) /\ (Control(x) => Control(y))
  BY DEF Alike, Ring, Ports, Flags, Control, may_complete_stop

-----------------------------------------------------------------------------
(***************************************************************************)
(* The post of a handler.                                                   *)
(***************************************************************************)
Handler(x, op, error, frames) ==
  [op |-> op, error |-> error, frames |-> frames,
   numbers |-> [k \in DOMAIN frames |-> x.content[frames[k]]]]

\* The handler has a result.
LEMMA HandlerType ==
  ASSUME NEW x \in Sessions, NEW op \in Ops, NEW error \in Errors,
         NEW frames \in Seq(Objects)
  PROVE  LET h == Handler(x, op, error, frames)
         IN  /\ h \in Handlers /\ h.op = op /\ h.error = error /\ h.frames = frames
             /\ Len(h.numbers) = Len(frames)
             /\ \A k \in 1 .. Len(frames) : h.numbers[k] = x.content[frames[k]]
  <1> DEFINE numbers == [k \in DOMAIN frames |-> x.content[frames[k]]]
             n == Len(frames)
  <1>1. n \in Nat /\ DOMAIN frames = 1 .. n /\ \A k \in 1 .. n : frames[k] \in Objects
    OBVIOUS
  <1>2. x.content \in [Objects -> Nat]
    BY DEF Sessions
  <1>3. numbers \in [1 .. n -> Nat]
    BY <1>1, <1>2
  <1>4. numbers \in Seq(Nat) /\ Len(numbers) = n
    BY <1>1, <1>3
  <1>5. \A k \in 1 .. n : numbers[k] = x.content[frames[k]]
    BY <1>1
  <1> HIDE DEF numbers
  <1> QED
    BY <1>4, <1>5 DEF Handler, Handlers, numbers

\* Post appends the handler and leaves the rest alone.
LEMMA PostStep ==
  ASSUME NEW x \in Sessions, NEW op \in Ops, NEW error \in Errors,
         NEW frames \in Seq(Objects)
  PROVE  LET y == Post(x, op, error, frames)
         IN  /\ y \in Sessions /\ Alike(y, x) /\ y.open = x.open
             /\ y.posted = Append(x.posted, Handler(x, op, error, frames))
             /\ Gains(y, x, op)
  <1> DEFINE h == Handler(x, op, error, frames)
             q == Append(x.posted, h)
             y == Post(x, op, error, frames)
  <1>1. y = [x EXCEPT !.posted = q]
    BY DEF Post, Handler
  <1>2. h \in Handlers /\ h.op = op
    BY HandlerType
  <1>3. x.posted \in Seq(Handlers)
    BY DEF Sessions
  <1> HIDE DEF h
  <1>4. q \in Seq(Handlers)
    BY <1>2, <1>3
  <1>5. \A o \in Ops : CountOf(q, o) = CountOf(x.posted, o) + One(o = op)
    <2> TAKE o \in Ops
    <2>1. CountOf(q, o) = CountOf(x.posted, o) + One(h.op = o)
      BY <1>2, <1>3, CountAppend
    <2> QED
      BY <1>2, <2>1 DEF One
  <1> HIDE DEF q, y
  <1>6. y \in Sessions /\ Alike(y, x) /\ y.open = x.open /\ y.posted = q
    BY <1>1, <1>4 DEF Sessions, Alike, Ring, Ports
  <1>7. ASSUME NEW o \in Ops PROVE Have(y, o) = Have(x, o) + One(o = op)
    <2> DEFINE w == One(Waiting(x, o))
               e == One(o = op)
    <2>1. Waiting(y, o) <=> Waiting(x, o)
      BY <1>6 DEF Waiting, Alike, Ports
    <2>2. CountOf(y.posted, o) = CountOf(x.posted, o) + e
      BY <1>5, <1>6
    <2>3. CountOf(x.posted, o) \in Nat
      BY HaveNat
    <2>4. Have(x, o) = CountOf(x.posted, o) + w /\ Have(y, o) = CountOf(y.posted, o) + w
      BY <2>1, Zenon DEF Have, One
    <2>5. w \in Nat /\ e \in Nat
      BY DEF One
    <2> HIDE DEF w, e
    <2>6. Have(y, o) = Have(x, o) + e
      BY <2>2, <2>3, <2>4, <2>5
    <2> QED
      BY <2>6 DEF e
  <1> QED
    BY <1>6, <1>7 DEF y, q, h, Gains

\* A handler that gets no frames changes nothing else.
LEMMA PostPlain ==
  ASSUME NEW x, Stock(x), NEW op \in Ops, NEW error \in Errors
  PROVE  LET y == Post(x, op, error, <<>>)
         IN  Stock(y) /\ Alike(y, x) /\ Gains(y, x, op) /\ y.open = x.open
  <1> DEFINE h == Handler(x, op, error, <<>>)
             y == Post(x, op, error, <<>>)
  <1>1. x \in Sessions /\ <<>> \in Seq(Objects) /\ x.posted \in Seq(Handlers)
    BY DEF Stock, Sessions
  <1>2. /\ y \in Sessions /\ Alike(y, x) /\ y.posted = Append(x.posted, h)
        /\ Gains(y, x, op) /\ y.open = x.open
    BY <1>1, PostStep
  <1>3. h \in Handlers /\ Len(h.numbers) = 0 /\ Len(h.frames) = 0
    <2> DEFINE none == <<>>
               g == Handler(x, op, error, none)
    <2>1. none \in Seq(Objects) /\ Len(none) = 0 /\ h = g
      OBVIOUS
    <2> HIDE DEF none, h
    <2>2. g \in Handlers
      BY <1>1, <2>1, HandlerType
    <2>3. g.frames = none /\ g.numbers = [k \in DOMAIN none |-> x.content[none[k]]]
      BY DEF Handler
    <2>4. g.numbers \in Seq(Nat) /\ DOMAIN g.numbers = DOMAIN none
      BY <2>2, <2>3 DEF Handlers
    <2> HIDE DEF g
    <2> QED
      BY <2>1, <2>2, <2>3, <2>4
  <1> HIDE DEF h, y
  <1>4. ASSUME NEW j \in 1 .. Len(y.posted) PROVE Held(y, y.posted[j])
    <2>1. CASE j = Len(x.posted) + 1
      <3>1. y.posted[j] = h
        BY <1>1, <1>2, <1>3, <2>1
      <3> QED
        BY <1>3, <3>1 DEF Held
    <2>2. CASE j # Len(x.posted) + 1
      <3>1. j \in 1 .. Len(x.posted) /\ y.posted[j] = x.posted[j]
        BY <1>1, <1>2, <1>3, <2>2
      <3>2. Held(x, x.posted[j])
        BY <3>1 DEF Stock, Frames
      <3> QED
        BY <1>2, <3>1, <3>2 DEF Held, Alike, Ring
    <2> QED
      BY <2>1, <2>2
  <1>5. Frames(y) /\ Balance(y)
    BY <1>2, <1>4 DEF Stock, Frames, Balance, Alike, Ring
  <1> QED
    BY <1>2, <1>5 DEF Stock, y

-----------------------------------------------------------------------------
(***************************************************************************)
(* The calls and the handlers, as steps from x to y.                        *)
(***************************************************************************)
\* What ErrorSeenOnce says of the step.
ErrorStep(y, x) ==
  /\ x.read_error # "ok" => y.arrived = x.arrived
  /\ (x.read_error # "ok" /\ y.read_error = "ok" /\ y.extern_state = "work") =>
       Last(y.posted).error = x.read_error /\ x.frame_buffer = <<>>
  /\ (x.read_error = "ok" /\ y.read_error # "ok") => y.posted = x.posted

\* The same handlers.
LEMMA KeepsSame ==
  ASSUME NEW x, NEW y, y.posted = x.posted, y.read_handler = x.read_handler,
         y.stop_handler = x.stop_handler, y.writing = x.writing
  PROVE  Keeps(y, x)
  <1> SUFFICES ASSUME NEW o \in Ops PROVE Have(y, o) = Have(x, o)
    BY DEF Keeps
  <1>1. Waiting(y, o) <=> Waiting(x, o)
    BY DEF Waiting
  <1> QED
    BY <1>1, Zenon DEF Have, One

\* A handler passed on.
LEMMA GainsTrans ==
  ASSUME NEW x, NEW y, NEW z, NEW op, Keeps(y, x), Gains(z, y, op)
  PROVE  Gains(z, x, op)
  BY Zenon DEF Keeps, Gains

\* A handler leaves its storage, or the write, and is posted.
LEMMA Moved ==
  ASSUME NEW x, NEW y, NEW z, NEW op \in Ops, x \in Sessions, y \in Sessions,
         y.posted = x.posted, Gains(z, y, op), Waiting(x, op), ~Waiting(y, op),
         \A o \in Ops : o # op => (Waiting(y, o) <=> Waiting(x, o))
  PROVE  Keeps(z, x)
  <1> SUFFICES ASSUME NEW o \in Ops PROVE Have(z, o) = Have(x, o)
    BY DEF Keeps
  <1> DEFINE n == CountOf(x.posted, o)
  <1>1. n \in Nat
    BY HaveNat
  <1>2. CASE o = op
    <2>1. Have(x, o) = n + 1
      BY <1>2, Zenon DEF Have, One
    <2>2. Have(y, o) = n + 0
      BY <1>2, Zenon DEF Have, One
    <2>3. Have(z, o) = Have(y, o) + 1
      BY <1>2, Zenon DEF Gains, One
    <2> QED
      BY <1>1, <2>1, <2>2, <2>3
  <1>3. CASE o # op
    <2>1. Have(y, o) = Have(x, o)
      BY <1>3, Zenon DEF Have, One
    <2>2. Have(z, o) = Have(y, o) + 0
      BY <1>3, Zenon DEF Gains, One
    <2>3. Have(x, o) \in Nat
      BY HaveNat
    <2> QED
      BY <2>1, <2>2, <2>3
  <1> QED
    BY <1>2, <1>3

\* A handler is put into a storage, or into a write.
LEMMA Stored ==
  ASSUME NEW x, NEW y, NEW op \in Ops, x \in Sessions,
         y.posted = x.posted, ~Waiting(x, op), Waiting(y, op),
         \A o \in Ops : o # op => (Waiting(y, o) <=> Waiting(x, o))
  PROVE  Gains(y, x, op)
  <1> SUFFICES ASSUME NEW o \in Ops PROVE Have(y, o) = Have(x, o) + One(o = op)
    BY DEF Gains
  <1> DEFINE n == CountOf(x.posted, o)
  <1>1. n \in Nat
    BY HaveNat
  <1>2. CASE o = op
    <2>1. Have(x, o) = n + 0
      BY <1>2, Zenon DEF Have, One
    <2>2. Have(y, o) = n + 1
      BY <1>2, Zenon DEF Have, One
    <2>3. One(o = op) = 1
      BY <1>2, Zenon DEF One
    <2> QED
      BY <1>1, <2>1, <2>2, <2>3
  <1>3. CASE o # op
    <2>1. Have(y, o) = Have(x, o)
      BY <1>3, Zenon DEF Have, One
    <2>2. One(o = op) = 0
      BY <1>3, Zenon DEF One
    <2>3. Have(x, o) \in Nat
      BY HaveNat
    <2> QED
      BY <2>1, <2>2, <2>3
  <1> QED
    BY <1>2, <1>3

\* The handler is called with an error at once.
LEMMA Refused ==
  ASSUME NEW x, Sound(x), NEW op \in Ops, NEW error \in Errors
  PROVE  LET y == Post(x, op, error, <<>>)
         IN  Sound(y) /\ Gains(y, x, op) /\ ErrorStep(y, x)
  <1> DEFINE y == Post(x, op, error, <<>>)
  <1>1. Stock(x) /\ Control(x)
    BY DEF Sound, Stock
  <1>2. Stock(y) /\ Alike(y, x) /\ Gains(y, x, op)
    BY <1>1, PostPlain
  <1> HIDE DEF y
  <1>3. Control(y)
    BY <1>1, <1>2, SameControl
  <1>4. ErrorStep(y, x)
    BY <1>2 DEF ErrorStep, Alike, Ring
  <1> QED
    BY <1>2, <1>3, <1>4 DEF Sound, Stock, y

\* async_start: the port is read from now on.
LEMMA StartStep ==
  ASSUME NEW x, Sound(x)
  PROVE  LET y == start_extern_start(x)
         IN  Sound(y) /\ Gains(y, x, "start") /\ ErrorStep(y, x)
  <1> DEFINE w == [x EXCEPT !.extern_state = "work"]
             r == read_until_head(w)
             z == Post(r, "start", "ok", <<>>)
             y == start_extern_start(x)
  <1>1. "start" \in Ops /\ "ok" \in Errors /\ "invalid_state" \in Errors
    BY DEF Ops, Errors
  <1>2. x \in Sessions /\ Control(x) /\ Stock(x)
    BY DEF Sound, Stock
  <1>3. CASE x.extern_state # "ready"
    <2>1. y = Post(x, "start", "invalid_state", <<>>)
      BY <1>3, Zenon DEF start_extern_start
    <2> HIDE DEF y
    <2> QED
      BY <1>1, <2>1, Refused DEF y
  <1>4. CASE x.extern_state = "ready"
    <2>1. /\ w \in Sessions /\ Ring(w, x) /\ Ports(w, x) /\ w.posted = x.posted
          /\ w.extern_state = "work" /\ w.read_error = x.read_error
          /\ w.read_handler = x.read_handler /\ w.stop_handler = x.stop_handler
      BY <1>2 DEF Sessions, Ring, Ports
    <2>2. ~w.port_read_in_progress
      BY <1>2, <1>4, <2>1 DEF Control, Flags, Ports
    <2>3. y = z
      BY <1>4, <2>2, Zenon DEF start_extern_start
    <2> HIDE DEF w, y
    <2>4. /\ r \in Sessions /\ Ring(r, w) /\ r.posted = w.posted
          /\ r.extern_state = "work" /\ r.read_error = w.read_error
          /\ r.read_handler = w.read_handler /\ r.stop_handler = w.stop_handler
          /\ r.port = "head" /\ r.port_read_in_progress = TRUE
          /\ r.writing = w.writing
          /\ r.port_write_in_progress = w.port_write_in_progress
      BY <2>1 DEF Sessions, Ring, read_until_head
    <2> HIDE DEF r
    <2>5. Stock(r) /\ Keeps(r, x)
      <3>1. Ring(r, x) /\ r.posted = x.posted
        BY <2>1, <2>4 DEF Ring
      <3>2. Stock(r)
        BY <1>2, <2>4, <3>1, SameFrames
      <3> QED
        BY <2>1, <2>4, <3>2, KeepsSame DEF Ports
    <2>6. Control(r)
      BY <1>2, <1>4, <2>1, <2>4 DEF Control, Flags, Ports
    <2>7. Stock(z) /\ Alike(z, r) /\ Gains(z, r, "start")
      BY <1>1, <2>5, PostPlain
    <2> HIDE DEF z
    <2>8. Control(z)
      BY <2>6, <2>7, SameControl
    <2>9. Gains(z, x, "start")
      BY <2>5, <2>7, GainsTrans
    <2>10. ErrorStep(z, x)
      BY <1>2, <1>4, <2>1, <2>4, <2>7 DEF ErrorStep, Control, Flags, Alike
    <2> QED
      BY <2>3, <2>7, <2>8, <2>9, <2>10 DEF Sound, Stock, y
  <1> QED
    BY <1>3, <1>4

\* async_stop: a read that waits is aborted, and the stop waits for the port.
LEMMA StopStep ==
  ASSUME NEW x, Sound(x), NEW e \in {"ok", "error"}
  PROVE  LET y == start_extern_stop(x, e)
         IN  Sound(y) /\ Gains(y, x, "stop") /\ ErrorStep(y, x)
  <1> DEFINE v == [x EXCEPT !.extern_state = "stop", !.read_handler = {},
                            !.open = FALSE, !.stop_error = e]
             z == IF x.read_handler = {} THEN v ELSE Post(v, "read", "aborted", <<>>)
             d == complete_stop(z)
             y == start_extern_stop(x, e)
  <1>1. /\ "stop" \in Ops /\ "read" \in Ops /\ "invalid_state" \in Errors
        /\ "aborted" \in Errors /\ e \in Errors
    BY DEF Ops, Errors
  <1>2. x \in Sessions /\ Control(x) /\ Stock(x)
    BY DEF Sound, Stock
  <1>3. CASE x.extern_state \in {"stop", "stopped"}
    <2>1. y = Post(x, "stop", "invalid_state", <<>>)
      BY <1>3, Zenon DEF start_extern_stop
    <2> HIDE DEF y
    <2> QED
      BY <1>1, <2>1, Refused DEF y
  <1>4. CASE x.extern_state \notin {"stop", "stopped"}
    <2>1. \/ may_complete_stop(z) /\ y = Post(d, "stop", z.stop_error, <<>>)
          \/ ~may_complete_stop(z) /\ y = [z EXCEPT !.stop_handler = {1}]
      BY <1>4, Zenon DEF start_extern_stop
    <2> HIDE DEF y
    <2>2. /\ v \in Sessions /\ Ring(v, x) /\ Ports(v, x) /\ v.posted = x.posted
          /\ v.extern_state = "stop" /\ v.read_error = x.read_error
          /\ v.read_handler = {} /\ v.stop_handler = x.stop_handler
          /\ v.stop_error = e
      BY <1>1, <1>2 DEF Sessions, Ring, Ports, Storages
    <2>3. \/ x.read_handler = {} /\ z = v
          \/ x.read_handler # {} /\ z = Post(v, "read", "aborted", <<>>)
      BY Zenon
    <2> HIDE DEF v, z
    <2>4. Stock(v)
      BY <1>2, <2>2, SameFrames
    <2>5. Stock(z) /\ Keeps(z, x) /\ Alike(z, v)
      <3>1. CASE x.read_handler = {} /\ z = v
        <4>1. Keeps(v, x)
          BY <2>2, <3>1, KeepsSame DEF Ports
        <4> QED
          BY <2>4, <3>1, <4>1 DEF Alike, Ring, Ports
      <3>2. CASE x.read_handler # {} /\ z = Post(v, "read", "aborted", <<>>)
        <4>1. Stock(z) /\ Alike(z, v) /\ Gains(z, v, "read")
          BY <1>1, <2>4, <3>2, PostPlain
        <4>2. /\ Waiting(x, "read") /\ ~Waiting(v, "read")
              /\ \A o \in Ops : o # "read" => (Waiting(v, o) <=> Waiting(x, o))
          BY <2>2, <3>2 DEF Waiting, Ports
        <4>3. Keeps(z, x)
          BY <1>1, <1>2, <2>2, <4>1, <4>2, Moved
        <4> QED
          BY <4>1, <4>3
      <3> QED
        BY <2>3, <3>1, <3>2
    <2>6. z \in Sessions /\ z.stop_error \in Errors
      BY <2>5 DEF Stock, Sessions
    <2>7. Flags(z) /\ z.stop_handler = {}
      <3>1. x.stop_handler = {}
        BY <1>2, <1>4 DEF Control, Flags
      <3> QED
        BY <1>2, <2>2, <2>5, <3>1 DEF Control, Flags, Alike, Ring, Ports
    <2>8. CASE may_complete_stop(z) /\ y = Post(d, "stop", z.stop_error, <<>>)
      <3>1. /\ d \in Sessions /\ Ring(d, z) /\ Ports(d, z) /\ d.posted = z.posted
            /\ d.extern_state = "stopped" /\ d.read_error = z.read_error
            /\ d.read_handler = z.read_handler /\ d.stop_handler = z.stop_handler
        BY <2>6 DEF complete_stop, Sessions, Ring, Ports
      <3> HIDE DEF d
      <3>2. Stock(d) /\ Keeps(d, z)
        <4>1. Stock(d)
          BY <2>5, <3>1, SameFrames
        <4> QED
          BY <3>1, <4>1, KeepsSame DEF Ports
      <3>3. Control(d)
        BY <2>2, <2>5, <2>7, <2>8, <3>1 DEF Control, Flags, Alike, Ring, Ports, may_complete_stop
      <3>4. Stock(y) /\ Alike(y, d) /\ Gains(y, d, "stop")
        BY <1>1, <2>6, <2>8, <3>2, PostPlain
      <3>5. Control(y)
        BY <3>3, <3>4, SameControl
      <3>6. Gains(y, x, "stop")
        <4>1. Gains(y, z, "stop")
          BY <3>2, <3>4, GainsTrans
        <4> QED
          BY <2>5, <4>1, GainsTrans
      <3>7. ErrorStep(y, x)
        BY <2>2, <2>5, <3>1, <3>4 DEF ErrorStep, Alike, Ring
      <3> QED
        BY <3>4, <3>5, <3>6, <3>7 DEF Sound, Stock, y
    <2>9. CASE ~may_complete_stop(z) /\ y = [z EXCEPT !.stop_handler = {1}]
      <3>1. /\ y \in Sessions /\ Ring(y, z) /\ Ports(y, z) /\ y.posted = z.posted
            /\ y.extern_state = z.extern_state /\ y.read_error = z.read_error
            /\ y.read_handler = z.read_handler /\ y.stop_handler = {1}
        BY <2>6, <2>9 DEF Sessions, Ring, Ports
      <3>2. Stock(y)
        BY <2>5, <3>1, SameFrames
      <3>3. Control(y)
        BY <2>2, <2>5, <2>7, <2>9, <3>1 DEF Control, Flags, Alike, Ring, Ports, may_complete_stop
      <3>4. Gains(y, z, "stop")
        <4>1. /\ ~Waiting(z, "stop") /\ Waiting(y, "stop")
              /\ \A o \in Ops : o # "stop" => (Waiting(y, o) <=> Waiting(z, o))
          BY <2>7, <3>1 DEF Waiting, Ports
        <4> QED
          BY <1>1, <2>6, <3>1, <4>1, Stored
      <3>5. Gains(y, x, "stop")
        BY <2>5, <3>4, GainsTrans
      <3>6. ErrorStep(y, x)
        BY <2>2, <2>5, <3>1 DEF ErrorStep, Alike, Ring
      <3> QED
        BY <3>2, <3>3, <3>5, <3>6 DEF Sound, Stock, y
    <2> QED
      BY <2>1, <2>8, <2>9
  <1> QED
    BY <1>3, <1>4

\* async_write_some: one write at a time.
LEMMA WriteStep ==
  ASSUME NEW x, Sound(x)
  PROVE  LET y == start_extern_write_some(x)
         IN  Sound(y) /\ Gains(y, x, "write") /\ ErrorStep(y, x)
  <1> DEFINE v == [x EXCEPT !.writing = TRUE, !.port_write_in_progress = TRUE]
             y == start_extern_write_some(x)
  <1>1. "write" \in Ops /\ "invalid_state" \in Errors
    BY DEF Ops, Errors
  <1>2. x \in Sessions /\ Control(x) /\ Stock(x)
    BY DEF Sound, Stock
  <1>3. CASE x.extern_state # "work" \/ x.port_write_in_progress
    <2>1. y = Post(x, "write", "invalid_state", <<>>)
      BY <1>3, Zenon DEF start_extern_write_some
    <2> HIDE DEF y
    <2> QED
      BY <1>1, <2>1, Refused DEF y
  <1>4. CASE x.extern_state = "work" /\ ~x.port_write_in_progress
    <2>1. y = v
      BY <1>4, Zenon DEF start_extern_write_some
    <2>2. /\ v \in Sessions /\ Ring(v, x) /\ v.posted = x.posted
          /\ v.extern_state = x.extern_state /\ v.read_error = x.read_error
          /\ v.read_handler = x.read_handler /\ v.stop_handler = x.stop_handler
          /\ v.writing = TRUE /\ v.port_write_in_progress = TRUE /\ v.port = x.port
          /\ v.port_read_in_progress = x.port_read_in_progress
      BY <1>2 DEF Sessions, Ring
    <2> HIDE DEF v, y
    <2>3. Stock(v)
      BY <1>2, <2>2, SameFrames
    <2>4. Control(v)
      BY <1>2, <1>4, <2>2 DEF Control, Flags, Ring
    <2>5. Gains(v, x, "write")
      <3>1. /\ ~Waiting(x, "write") /\ Waiting(v, "write")
            /\ \A o \in Ops : o # "write" => (Waiting(v, o) <=> Waiting(x, o))
        BY <1>2, <1>4, <2>2 DEF Waiting, Control, Flags
      <3> QED
        BY <1>1, <1>2, <2>2, <3>1, Stored
    <2>6. ErrorStep(v, x)
      BY <2>2 DEF ErrorStep, Ring
    <2> QED
      BY <2>1, <2>3, <2>4, <2>5, <2>6 DEF Sound, Stock, y
  <1> QED
    BY <1>3, <1>4

\* The number of frames that are copied.
LEMMA MinOf ==
  ASSUME NEW a \in Nat, NEW b \in Nat
  PROVE  LET n == Min({a, b}) IN n \in Nat /\ n <= a /\ n <= b
  <1> DEFINE S == {a, b}
             n == Min(S)
  <1>1. \E y \in S : \A z \in S : z >= y
    <2>1. CASE a <= b
      BY <2>1
    <2>2. CASE ~(a <= b)
      BY <2>2
    <2> QED
      BY <2>1, <2>2
  <1>2. n \in S /\ \A z \in S : z >= n
    <2> HIDE DEF S
    <2> QED
      BY <1>1 DEF Min
  <1>3. n \in {a, b} /\ a >= n /\ b >= n
    BY <1>2
  <1> HIDE DEF n
  <1>4. n \in Nat /\ n <= a /\ n <= b
    BY <1>3
  <1> QED
    BY <1>4 DEF n

\* The first n elements of a sequence and the others.
LEMMA Cut ==
  ASSUME NEW S, NEW q \in Seq(S), NEW n \in Nat, n <= Len(q)
  PROVE  /\ SubSeq(q, 1, n) \in Seq(S) /\ Len(SubSeq(q, 1, n)) = n
         /\ \A k \in 1 .. n : SubSeq(q, 1, n)[k] = q[k]
         /\ SubSeq(q, n + 1, Len(q)) \in Seq(S)
         /\ Len(SubSeq(q, n + 1, Len(q))) = Len(q) - n
         /\ \A k \in 1 .. Len(q) - n : SubSeq(q, n + 1, Len(q))[k] = q[n + k]
  <1>1. Len(q) \in Nat /\ \A k \in 1 .. Len(q) : q[k] \in S
    OBVIOUS
  <1> DEFINE p == SubSeq(q, 1, n)
             r == SubSeq(q, n + 1, Len(q))
  <1>2. p \in Seq(S) /\ Len(p) = n /\ \A k \in 1 .. n : p[k] = q[k]
    BY <1>1
  <1>3. /\ r \in Seq(S) /\ Len(r) = Len(q) - n
        /\ \A k \in 1 .. Len(q) - n : r[k] = q[n + k]
    BY <1>1
  <1> QED
    BY <1>2, <1>3

\* The control of the session but for its ring.
Steady(y, x) ==
  /\ Ports(y, x) /\ y.extern_state = x.extern_state /\ y.read_error = x.read_error
  /\ y.stop_handler = x.stop_handler /\ y.arrived = x.arrived

\* copy_buffer: the oldest frames go to the reader, the others stay.
LEMMA CopyStep ==
  ASSUME NEW x, Stock(x), NEW size \in Nat
  PROVE  LET y == copy_buffer(x, size)
         IN  /\ Stock(y) /\ Steady(y, x) /\ y.read_handler = {}
             /\ x.read_handler # {} => Keeps(y, x)
             /\ x.read_handler = {} => Gains(y, x, "read")
  <1> DEFINE ring == x.frame_buffer
             len == Len(ring)
             n == Min({size, len})
             first == SubSeq(ring, 1, n)
             rest == SubSeq(ring, n + 1, len)
             given == IF n = 0 THEN x.given ELSE x.content[ring[n]]
             z == [x EXCEPT !.frame_buffer = rest, !.given = given, !.read_handler = {}]
             y == copy_buffer(x, size)
             h == Handler(z, "read", "ok", first)
  <1>1. /\ x \in Sessions /\ ring \in Seq(Objects) /\ len \in Nat
        /\ x.posted \in Seq(Handlers) /\ x.content \in [Objects -> Nat]
        /\ x.arrived \in Nat /\ x.given \in Nat
    BY DEF Stock, Sessions
  <1>2. n \in Nat /\ n <= len
    BY <1>1, MinOf
  <1>3. y = Post(z, "read", "ok", first)
    BY DEF copy_buffer
  <1> HIDE DEF n, y
  <1>4. /\ first \in Seq(Objects) /\ Len(first) = n
        /\ \A k \in 1 .. n : first[k] = ring[k]
        /\ rest \in Seq(Objects) /\ Len(rest) = len - n
        /\ \A k \in 1 .. len - n : rest[k] = ring[n + k]
    BY <1>1, <1>2, Cut
  <1>5. /\ x.given <= x.arrived - len
        /\ \A k \in 1 .. len : x.content[ring[k]] = x.arrived - len + k
        /\ len <= RingSize /\ x.arrived <= MaxFrames
    BY DEF Stock, Frames
  <1>6. /\ given \in Nat /\ x.given <= given /\ given <= x.arrived - (len - n)
        /\ n > 0 => given = x.arrived - len + n
        /\ n = 0 => given = x.given
    <2>1. CASE n = 0
      BY <1>1, <1>5, <2>1
    <2>2. CASE n # 0
      <3>1. n \in 1 .. len
        BY <1>1, <1>2, <2>2
      <3>2. given = x.arrived - len + n
        BY <1>5, <2>2, <3>1
      <3> HIDE DEF given
      <3> QED
        BY SMTT(30), <1>1, <1>2, <1>5, <2>2, <3>2
    <2> QED
      BY <2>1, <2>2
  <1> HIDE DEF first, rest, given
  <1>7. /\ z \in Sessions /\ z.frame_buffer = rest /\ z.given = given
        /\ z.read_handler = {} /\ z.content = x.content /\ z.dropped = x.dropped
        /\ z.posted = x.posted /\ Steady(z, x)
    BY <1>1, <1>4, <1>6 DEF Sessions, Storages, Steady, Ports
  <1>8. h \in Handlers /\ h.frames = first /\ Len(h.numbers) = n
        /\ \A k \in 1 .. n : h.numbers[k] = x.content[ring[k]]
    <2>0. "read" \in Ops /\ "ok" \in Errors
      BY DEF Ops, Errors
    <2>1. h \in Handlers
      BY <1>4, <1>7, <2>0, HandlerType
    <2>2. h.frames = first /\ h.numbers = [k \in DOMAIN first |-> z.content[first[k]]]
      BY DEF Handler
    <2> HIDE DEF h, z
    <2>3. DOMAIN first = 1 .. n
      BY <1>4
    <2>4. ASSUME NEW k \in 1 .. n PROVE h.numbers[k] = x.content[ring[k]]
      <3>1. h.numbers[k] = z.content[first[k]]
        BY <2>2, <2>3
      <3>2. first[k] = ring[k] /\ z.content = x.content
        BY <1>4, <1>7
      <3> QED
        BY <3>1, <3>2
    <2>5. h.numbers \in Seq(Nat) /\ DOMAIN h.numbers = 1 .. n
      BY <2>1, <2>2, <2>3 DEF Handlers
    <2>6. Len(h.numbers) = n
      BY <1>2, <2>5
    <2> QED
      BY <2>1, <2>2, <2>4, <2>6
  <1>9. /\ y \in Sessions /\ Alike(y, z) /\ y.posted = Append(x.posted, h)
        /\ Gains(y, z, "read")
    <2>0. "read" \in Ops /\ "ok" \in Errors
      BY DEF Ops, Errors
    <2> HIDE DEF z
    <2> QED
      BY <1>3, <1>4, <1>7, <2>0, PostStep
  <1> HIDE DEF h, z
  <1>10. /\ y.frame_buffer = rest /\ y.given = given /\ y.read_handler = {}
         /\ y.content = x.content /\ y.dropped = x.dropped /\ y.arrived = x.arrived
         /\ Steady(y, x)
    BY <1>7, <1>9 DEF Alike, Ring, Ports, Steady
  <1>11. ASSUME NEW j \in 1 .. Len(y.posted) PROVE Held(y, y.posted[j])
    <2>1. CASE j = Len(x.posted) + 1
      <3>1. y.posted[j] = h
        BY <1>1, <1>8, <1>9, <2>1
      <3>2. ASSUME NEW k \in 1 .. n
            PROVE  /\ y.content[first[k]] = h.numbers[k]
                   /\ h.numbers[k] \in 1 .. given
        <4>1. k \in 1 .. len /\ n > 0
          BY <1>1, <1>2
        <4>2. h.numbers[k] = x.arrived - len + k /\ first[k] = ring[k]
          BY <1>4, <1>5, <1>8, <4>1
        <4>3. x.content[ring[k]] = x.arrived - len + k
          BY <1>5, <4>1
        <4>4. given = x.arrived - len + n
          BY <1>6, <4>1
        <4>5. x.arrived - len + k \in 1 .. given
          BY SMTT(30), <1>1, <1>2, <1>5, <1>6, <4>4
        <4> QED
          BY <1>10, <4>2, <4>3, <4>5
      <3> QED
        BY <1>4, <1>8, <1>10, <3>1, <3>2 DEF Held
    <2>2. CASE j # Len(x.posted) + 1
      <3>1. j \in 1 .. Len(x.posted) /\ y.posted[j] = x.posted[j]
        BY <1>1, <1>8, <1>9, <2>2
      <3>2. Held(x, x.posted[j])
        BY <3>1 DEF Stock, Frames
      <3>3. \A k \in 1 .. x.given : k \in 1 .. given
        BY <1>1, <1>6
      <3> QED
        BY <1>10, <3>1, <3>2, <3>3 DEF Held
    <2> QED
      BY <2>1, <2>2
  <1>12. Frames(y)
    <2>1. Len(rest) <= RingSize /\ given <= x.arrived - Len(rest)
      <3>1. RingSize \in Nat
        BY RingAssumption
      <3> QED
        BY <1>1, <1>2, <1>4, <1>5, <1>6, <3>1
    <2>2. ASSUME NEW k \in 1 .. Len(rest)
          PROVE  y.content[rest[k]] = x.arrived - Len(rest) + k
      <3>1. n + k \in 1 .. len /\ rest[k] = ring[n + k]
        BY <1>1, <1>2, <1>4
      <3>2. x.content[ring[n + k]] = x.arrived - len + (n + k)
        BY <1>5, <3>1
      <3>3. x.arrived - len + (n + k) = x.arrived - Len(rest) + k
        BY <1>1, <1>2, <1>4
      <3> QED
        BY <1>10, <3>1, <3>2, <3>3
    <2> QED
      BY <1>5, <1>10, <1>11, <2>1, <2>2 DEF Stock, Frames
  <1>13. Balance(y)
    <2> SUFFICES ASSUME caller = "main", ~y.dropped
                 PROVE  y.arrived - Len(y.frame_buffer) = y.given
      BY DEF Balance
    <2>1. x.arrived - len = x.given
      BY <1>10 DEF Stock, Balance
    <2>2. given = x.arrived - (len - n)
      <3>1. CASE n = 0
        BY <1>1, <1>6, <2>1, <3>1
      <3>2. CASE n > 0
        BY <1>1, <1>2, <1>6, <3>2
      <3> QED
        BY <1>2, <3>1, <3>2
    <2> QED
      BY <1>4, <1>10, <2>2
  <1>14. x.read_handler # {} => Keeps(y, x)
    <2> SUFFICES ASSUME x.read_handler # {} PROVE Keeps(y, x)
      OBVIOUS
    <2>1. /\ Waiting(x, "read") /\ ~Waiting(z, "read")
          /\ \A o \in Ops : o # "read" => (Waiting(z, o) <=> Waiting(x, o))
      BY <1>7 DEF Waiting, Steady, Ports
    <2>2. "read" \in Ops
      BY DEF Ops
    <2> QED
      BY <1>1, <1>7, <1>9, <2>1, <2>2, Moved
  <1>15. x.read_handler = {} => Gains(y, x, "read")
    <2> SUFFICES ASSUME x.read_handler = {} PROVE Gains(y, x, "read")
      OBVIOUS
    <2>1. Keeps(z, x)
      BY <1>7, KeepsSame DEF Steady, Ports
    <2> QED
      BY <1>9, <2>1, GainsTrans
  <1> QED
    BY <1>9, <1>10, <1>12, <1>13, <1>14, <1>15 DEF Stock, y

\* The last handler of those posted.
LEMMA LastOf ==
  ASSUME NEW S, NEW q \in Seq(S), NEW e \in S
  PROVE  Last(Append(q, e)) = e
  BY DEF Last

\* async_read_some: frames first, then the error, else the read waits.
LEMMA ReadStep ==
  ASSUME NEW x, Sound(x), NEW size \in Nat
  PROVE  LET y == start_extern_read_some(x, size)
         IN  Sound(y) /\ Gains(y, x, "read") /\ ErrorStep(y, x)
  <1> DEFINE v == [x EXCEPT !.read_handler = {size}]
             u == [x EXCEPT !.read_error = "ok"]
             y == start_extern_read_some(x, size)
  <1>1. "read" \in Ops /\ "invalid_state" \in Errors /\ "ok" \in Errors
    BY DEF Ops, Errors
  <1>2. x \in Sessions /\ Control(x) /\ Stock(x)
    BY DEF Sound, Stock
  <1>3. \/ y = Post(x, "read", "invalid_state", <<>>)
        \/ /\ x.extern_state = "work" /\ x.read_handler = {}
           /\ \/ x.frame_buffer # <<>> /\ y = copy_buffer(x, size)
              \/ /\ x.frame_buffer = <<>> /\ x.read_error # "ok"
                 /\ y = Post(u, "read", x.read_error, <<>>)
              \/ /\ x.frame_buffer = <<>> /\ x.read_error = "ok"
                 /\ y = IF v.port_read_in_progress THEN v ELSE read_until_head(v)
    BY Zenon DEF start_extern_read_some
  <1> HIDE DEF y
  <1>4. CASE y = Post(x, "read", "invalid_state", <<>>)
    BY <1>1, <1>4, Refused DEF y
  <1>5. CASE /\ x.extern_state = "work" /\ x.read_handler = {}
             /\ x.frame_buffer # <<>> /\ y = copy_buffer(x, size)
    <2>1. /\ Stock(y) /\ Steady(y, x) /\ y.read_handler = {}
          /\ Gains(y, x, "read")
      BY <1>2, <1>5, CopyStep
    <2>2. Control(y)
      BY <1>2, <2>1 DEF Control, Flags, Steady, Ports, may_complete_stop
    <2>3. ErrorStep(y, x)
      BY <2>1 DEF ErrorStep, Steady
    <2> QED
      BY <2>1, <2>2, <2>3 DEF Sound, Stock, y
  <1>6. CASE /\ x.extern_state = "work" /\ x.read_handler = {}
             /\ x.frame_buffer = <<>> /\ x.read_error # "ok"
             /\ y = Post(u, "read", x.read_error, <<>>)
    <2>1. /\ u \in Sessions /\ Ring(u, x) /\ Ports(u, x) /\ u.posted = x.posted
          /\ u.extern_state = x.extern_state /\ u.read_error = "ok"
          /\ u.read_handler = x.read_handler /\ u.stop_handler = x.stop_handler
          /\ x.read_error \in Errors /\ x.posted \in Seq(Handlers)
      BY <1>1, <1>2 DEF Sessions, Ring, Ports
    <2> HIDE DEF u
    <2>2. Stock(u) /\ Keeps(u, x)
      <3>1. Stock(u)
        BY <1>2, <2>1, SameFrames
      <3> QED
        BY <2>1, <3>1, KeepsSame DEF Ports
    <2>3. Control(u)
      BY <1>2, <1>6, <2>1 DEF Control, Flags, Ports, Ring, may_complete_stop
    <2>4. Stock(y) /\ Alike(y, u) /\ Gains(y, u, "read")
      BY <1>1, <1>6, <2>1, <2>2, PostPlain
    <2>5. Control(y) /\ Gains(y, x, "read")
      BY <2>2, <2>3, <2>4, SameControl, GainsTrans
    <2>6. Last(y.posted).error = x.read_error
      <3> DEFINE h == Handler(u, "read", x.read_error, <<>>)
      <3>1. h \in Handlers /\ y.posted = Append(x.posted, h)
        <4>1. <<>> \in Seq(Objects)
          OBVIOUS
        <4>2. h \in Handlers
          BY <1>1, <2>1, <4>1, HandlerType
        <4>3. y.posted = Append(u.posted, h)
          BY <1>1, <1>6, <2>1, <4>1, PostStep
        <4> QED
          BY <2>1, <4>2, <4>3
      <3>2. h.error = x.read_error
        BY DEF Handler
      <3> HIDE DEF h
      <3>3. Last(y.posted) = h
        BY <2>1, <3>1, LastOf
      <3> QED
        BY <3>2, <3>3
    <2>7. ErrorStep(y, x)
      BY <1>6, <2>1, <2>4, <2>6 DEF ErrorStep, Alike, Ring
    <2> QED
      BY <2>4, <2>5, <2>7 DEF Sound, Stock, y
  <1>7. CASE /\ x.extern_state = "work" /\ x.read_handler = {}
             /\ x.frame_buffer = <<>> /\ x.read_error = "ok"
             /\ y = IF v.port_read_in_progress THEN v ELSE read_until_head(v)
    <2>1. {size} \in Storages /\ {size} # {}
      BY DEF Storages
    <2>2. /\ v \in Sessions /\ Ring(v, x) /\ Ports(v, x) /\ v.posted = x.posted
          /\ v.extern_state = x.extern_state /\ v.read_error = x.read_error
          /\ v.read_handler # {} /\ v.stop_handler = x.stop_handler
      BY <1>2, <2>1 DEF Sessions, Ring, Ports
    <2>3. \/ v.port_read_in_progress /\ y = v
          \/ ~v.port_read_in_progress /\ y = read_until_head(v)
      BY <1>7, Zenon
    <2> HIDE DEF v
    <2>4. /\ y \in Sessions /\ Ring(y, v) /\ y.posted = v.posted
          /\ y.extern_state = v.extern_state /\ y.read_error = v.read_error
          /\ y.read_handler = v.read_handler /\ y.stop_handler = v.stop_handler
          /\ y.port # "none" /\ y.port_read_in_progress = TRUE
          /\ y.writing = v.writing
          /\ y.port_write_in_progress = v.port_write_in_progress
      <3>1. CASE v.port_read_in_progress /\ y = v
        <4>1. v.port # "none" /\ v.port_read_in_progress = TRUE
          BY <1>2, <2>2, <3>1 DEF Control, Flags, Ports
        <4> QED
          BY <2>2, <3>1, <4>1 DEF Ring
      <3>2. CASE y = read_until_head(v)
        BY <2>2, <3>2 DEF read_until_head, Sessions, Ring
      <3> QED
        BY <2>3, <3>1, <3>2
    <2>5. Ring(y, x) /\ y.posted = x.posted
      BY <2>2, <2>4 DEF Ring
    <2>6. Stock(y)
      BY <1>2, <2>4, <2>5, SameFrames
    <2>7. Control(y)
      <3>1. /\ y.extern_state = "work" /\ y.read_error = "ok" /\ y.frame_buffer = <<>>
            /\ y.port_write_in_progress = y.writing /\ y.stop_handler = {}
        BY <1>2, <1>7, <2>2, <2>4, <2>5 DEF Control, Flags, Ports, Ring
      <3> QED
        BY <2>4, <3>1 DEF Control, Flags
    <2>8. Gains(y, x, "read")
      <3>1. /\ ~Waiting(x, "read") /\ Waiting(y, "read")
            /\ \A o \in Ops : o # "read" => (Waiting(y, o) <=> Waiting(x, o))
        BY <1>7, <2>2, <2>4 DEF Waiting, Ports
      <3> QED
        BY <1>1, <1>2, <2>5, <3>1, Stored
    <2>9. ErrorStep(y, x)
      BY <2>2, <2>4, <2>5 DEF ErrorStep, Ring
    <2> QED
      BY <2>6, <2>7, <2>8, <2>9 DEF Sound, Stock, y
  <1> QED
    BY <1>3, <1>4, <1>5, <1>6, <1>7

-----------------------------------------------------------------------------
(***************************************************************************)
(* The handlers of the port.                                                *)
(***************************************************************************)
\* A stop that waits for the port is completed when nothing is in progress.
LEMMA StopOrStayStep ==
  ASSUME NEW x, Stock(x), Flags(x)
  PROVE  LET y == StopOrStay(x)
         IN  /\ Sound(y) /\ Keeps(y, x)
             /\ y.read_error = x.read_error /\ y.arrived = x.arrived
  <1> DEFINE d == complete_stop(x)
             e == [d EXCEPT !.stop_handler = {}]
             z == Post(e, "stop", d.stop_error, <<>>)
             y == StopOrStay(x)
  <1>1. x \in Sessions
    BY DEF Stock
  <1>2. CASE ~(x.extern_state = "stop" /\ may_complete_stop(x))
    <2>1. y = x
      BY <1>2, Zenon DEF StopOrStay
    <2> HIDE DEF y
    <2>2. Control(x)
      BY <1>2 DEF Control, Flags
    <2> QED
      BY <2>1, <2>2 DEF Sound, Stock, Keeps, y
  <1>3. CASE x.extern_state = "stop" /\ may_complete_stop(x)
    <2>1. y = IF d.stop_handler = {} THEN d ELSE z
      BY <1>3, Zenon DEF StopOrStay, post_extern_stop_handler
    <2>2. /\ d \in Sessions /\ Ring(d, x) /\ Ports(d, x) /\ d.posted = x.posted
          /\ d.extern_state = "stopped" /\ d.read_error = x.read_error
          /\ d.read_handler = x.read_handler /\ d.stop_handler = x.stop_handler
      BY <1>1 DEF complete_stop, Sessions, Ring, Ports
    <2>3. (d.stop_handler = {} /\ y = d) \/ (d.stop_handler # {} /\ y = z)
      BY <2>1, Zenon
    <2> HIDE DEF d, y
    <2>4. Stock(d) /\ Keeps(d, x)
      <3>1. Stock(d)
        BY <2>2, SameFrames
      <3> QED
        BY <2>2, <3>1, KeepsSame DEF Ports
    <2>5. x.read_handler = {}
      BY <1>3 DEF Flags
    <2>6. CASE d.stop_handler = {} /\ y = d
      <3>1. Control(d)
        BY <1>3, <2>2, <2>5, <2>6 DEF Control, Flags, Ports, Ring, may_complete_stop
      <3> QED
        BY <2>2, <2>4, <2>6, <3>1 DEF Sound, Stock, Ring, y
    <2>7. CASE d.stop_handler # {} /\ y = z
      <3>1. /\ e \in Sessions /\ Ring(e, d) /\ Ports(e, d) /\ e.posted = d.posted
            /\ e.extern_state = d.extern_state /\ e.read_error = d.read_error
            /\ e.read_handler = d.read_handler /\ e.stop_handler = {}
            /\ d.stop_error \in Errors
        BY <2>2 DEF Sessions, Ring, Ports
      <3> HIDE DEF e
      <3>2. Stock(e)
        BY <2>4, <3>1, SameFrames
      <3>3. Control(e)
        BY <1>3, <2>2, <2>5, <3>1 DEF Control, Flags, Ports, Ring, may_complete_stop
      <3>4. "stop" \in Ops
        BY DEF Ops
      <3>5. Stock(z) /\ Alike(z, e) /\ Gains(z, e, "stop")
        BY <3>1, <3>2, <3>4, PostPlain
      <3> HIDE DEF z
      <3>6. Control(z)
        BY <3>3, <3>5, SameControl
      <3>7. /\ Waiting(x, "stop") /\ ~Waiting(e, "stop")
            /\ \A o \in Ops : o # "stop" => (Waiting(e, o) <=> Waiting(x, o))
        BY <2>2, <2>7, <3>1 DEF Waiting, Ports
      <3>8. Keeps(z, x)
        BY <1>1, <2>2, <3>1, <3>4, <3>5, <3>7, Moved
      <3>9. z.read_error = x.read_error /\ z.arrived = x.arrived
        BY <2>2, <3>1, <3>5 DEF Alike, Ring
      <3> QED
        BY <2>7, <3>5, <3>6, <3>8, <3>9 DEF Sound, Stock, y
    <2> QED
      BY <2>3, <2>6, <2>7
  <1> QED
    BY <1>2, <1>3

\* The read of the port has ended.
ReadEnded(v, x) ==
  /\ Stock(v) /\ Keeps(v, x) /\ Ring(v, x) /\ v.posted = x.posted
  /\ v.port = "none" /\ v.port_read_in_progress = FALSE
  /\ v.port_write_in_progress = v.writing /\ v.writing = x.writing
  /\ v.extern_state = x.extern_state /\ v.extern_state \in {"work", "stop"}
  /\ v.read_error = "ok" /\ x.read_error = "ok"
  /\ v.read_handler = x.read_handler /\ v.stop_handler = x.stop_handler
  /\ v.read_handler # {} => v.extern_state = "work" /\ v.frame_buffer = <<>>
  /\ v.stop_handler # {} => v.extern_state = "stop"

\* What a handler of a read finds.
LEMMA ReadEnds ==
  ASSUME NEW x, Sound(x), x.port # "none"
  PROVE  ReadEnded([x EXCEPT !.port = "none", !.port_read_in_progress = FALSE], x)
  <1> DEFINE v == [x EXCEPT !.port = "none", !.port_read_in_progress = FALSE]
  <1>1. x \in Sessions /\ Stock(x) /\ Control(x)
    BY DEF Sound, Stock
  <1>2. /\ v \in Sessions /\ Ring(v, x) /\ v.posted = x.posted
        /\ v.extern_state = x.extern_state /\ v.read_error = x.read_error
        /\ v.read_handler = x.read_handler /\ v.stop_handler = x.stop_handler
        /\ v.port = "none" /\ v.port_read_in_progress = FALSE
        /\ v.writing = x.writing
        /\ v.port_write_in_progress = x.port_write_in_progress
    BY <1>1 DEF Sessions, Ring
  <1> HIDE DEF v
  <1>3. Stock(v) /\ Keeps(v, x)
    <2>1. Stock(v)
      BY <1>1, <1>2, SameFrames
    <2> QED
      BY <1>2, <2>1, KeepsSame
  <1>4. /\ x.extern_state \in {"work", "stop"} /\ x.read_error = "ok"
        /\ x.port_write_in_progress = x.writing
        /\ x.read_handler # {} => x.extern_state = "work" /\ x.frame_buffer = <<>>
        /\ x.stop_handler # {} => x.extern_state = "stop"
    BY <1>1 DEF Control, Flags, may_complete_stop, Sessions
  <1> QED
    BY <1>2, <1>3, <1>4 DEF ReadEnded, Ring, v

\* During a stop the end of the read may be what the stop waits for.
LEMMA EndAtStop ==
  ASSUME NEW x, NEW v, ReadEnded(v, x), v.extern_state = "stop"
  PROVE  LET y == StopOrStay(v) IN Sound(y) /\ Keeps(y, x) /\ ErrorStep(y, x)
  <1> DEFINE y == StopOrStay(v)
  <1>1. Stock(v) /\ Flags(v)
    BY DEF ReadEnded, Flags
  <1>2. /\ Sound(y) /\ Keeps(y, v)
        /\ y.read_error = v.read_error /\ y.arrived = v.arrived
    BY <1>1, StopOrStayStep
  <1> HIDE DEF y
  <1>3. Keeps(y, x)
    BY <1>2, Zenon DEF Keeps, ReadEnded
  <1>4. ErrorStep(y, x)
    BY <1>2 DEF ErrorStep, ReadEnded
  <1> QED
    BY <1>2, <1>3, <1>4 DEF y

\* A read of the port fails: the reader that waits is told, or the next one.
LEMMA FailStep ==
  ASSUME NEW x, NEW v, ReadEnded(v, x), x \in Sessions, v.extern_state = "work",
         NEW error \in Errors, error # "ok"
  PROVE  LET y == ReadFailed(v, error) IN Sound(y) /\ Keeps(y, x) /\ ErrorStep(y, x)
  <1> DEFINE e == [v EXCEPT !.read_handler = {}]
             z == Post(e, "read", error, <<>>)
             u == [v EXCEPT !.read_error = error]
             y == ReadFailed(v, error)
  <1>1. v \in Sessions /\ Stock(v)
    BY DEF ReadEnded, Stock
  <1>2. \/ v.read_handler # {} /\ y = z
        \/ v.read_handler = {} /\ y = u
    BY Zenon DEF ReadFailed
  <1> HIDE DEF y
  <1>3. CASE v.read_handler # {} /\ y = z
    <2>1. /\ e \in Sessions /\ Ring(e, v) /\ Ports(e, v) /\ e.posted = v.posted
          /\ e.extern_state = v.extern_state /\ e.read_error = v.read_error
          /\ e.read_handler = {} /\ e.stop_handler = v.stop_handler
      BY <1>1 DEF Sessions, Ring, Ports, Storages
    <2> HIDE DEF e
    <2>2. Stock(e)
      BY <1>1, <2>1, SameFrames
    <2>3. Control(e)
      BY <2>1 DEF Control, Flags, ReadEnded, Ports
    <2>4. "read" \in Ops
      BY DEF Ops
    <2>5. Stock(z) /\ Alike(z, e) /\ Gains(z, e, "read")
      BY <2>2, <2>4, PostPlain
    <2> HIDE DEF z
    <2>6. Control(z)
      BY <2>3, <2>5, SameControl
    <2>7. /\ Waiting(v, "read") /\ ~Waiting(e, "read")
          /\ \A o \in Ops : o # "read" => (Waiting(e, o) <=> Waiting(v, o))
      BY <1>3, <2>1 DEF Waiting, Ports
    <2>8. Keeps(z, v)
      BY <1>1, <2>1, <2>4, <2>5, <2>7, Moved
    <2>9. Keeps(z, x)
      BY <2>8, Zenon DEF Keeps, ReadEnded
    <2>10. ErrorStep(z, x)
      BY <2>1, <2>5 DEF ErrorStep, Alike, ReadEnded
    <2> QED
      BY <1>3, <2>5, <2>6, <2>9, <2>10 DEF Sound, Stock, y
  <1>4. CASE v.read_handler = {} /\ y = u
    <2>1. /\ u \in Sessions /\ Ring(u, v) /\ Ports(u, v) /\ u.posted = v.posted
          /\ u.extern_state = v.extern_state /\ u.read_error = error
          /\ u.read_handler = v.read_handler /\ u.stop_handler = v.stop_handler
      BY <1>1 DEF Sessions, Ring, Ports
    <2> HIDE DEF u
    <2>2. Stock(u) /\ Keeps(u, v)
      <3>1. Stock(u)
        BY <1>1, <2>1, SameFrames
      <3> QED
        BY <2>1, <3>1, KeepsSame DEF Ports
    <2>3. Control(u)
      BY <1>4, <2>1 DEF Control, Flags, ReadEnded, Ports
    <2>4. Keeps(u, x)
      BY <2>2, Zenon DEF Keeps, ReadEnded
    <2>5. ErrorStep(u, x)
      BY <2>1 DEF ErrorStep, ReadEnded
    <2> QED
      BY <1>4, <2>2, <2>3, <2>4, <2>5 DEF Sound, Stock, y
  <1> QED
    BY <1>2, <1>3, <1>4

\* The next read of the port begins.
LEMMA ReadAgain ==
  ASSUME NEW x, NEW v, ReadEnded(v, x), v.extern_state = "work",
         NEW y \in {read_until_head(v), read_until_tail(v)}
  PROVE  /\ Stock(y) /\ Keeps(y, x) /\ Ring(y, x) /\ y.posted = x.posted
         /\ Control(y)
         /\ y.read_error = "ok" /\ y.extern_state = "work"
         /\ y.read_handler = v.read_handler /\ y.stop_handler = {}
  <1>1. v \in Sessions /\ Stock(v)
    BY DEF ReadEnded, Stock
  <1>2. /\ y \in Sessions /\ Ring(y, v) /\ y.posted = v.posted
        /\ y.extern_state = v.extern_state /\ y.read_error = v.read_error
        /\ y.read_handler = v.read_handler /\ y.stop_handler = v.stop_handler
        /\ y.port # "none" /\ y.port_read_in_progress = TRUE
        /\ y.writing = v.writing
        /\ y.port_write_in_progress = v.port_write_in_progress
    <2>1. CASE y = read_until_head(v)
      BY <1>1, <2>1 DEF read_until_head, Sessions, Ring
    <2>2. CASE y = read_until_tail(v)
      BY <1>1, <2>2 DEF read_until_tail, Sessions, Ring
    <2> QED
      BY <2>1, <2>2
  <1>3. Ring(y, x) /\ y.posted = x.posted
    BY <1>2 DEF ReadEnded, Ring
  <1>4. Stock(y)
    BY <1>1, <1>2, SameFrames
  <1>5. Keeps(y, x)
    <2>1. Keeps(y, v)
      BY <1>2, KeepsSame
    <2> QED
      BY <2>1, Zenon DEF Keeps, ReadEnded
  <1>6. /\ y.extern_state = "work" /\ y.read_error = "ok" /\ y.stop_handler = {}
        /\ y.port_write_in_progress = y.writing
        /\ y.read_handler # {} => y.frame_buffer = <<>>
    BY <1>2 DEF ReadEnded, Ring
  <1>7. Control(y)
    BY <1>2, <1>6 DEF Control, Flags
  <1> QED
    BY <1>2, <1>3, <1>4, <1>5, <1>6, <1>7

\* handle_read_head.
LEMMA HeadStep ==
  ASSUME NEW x, Sound(x), x.port # "none", NEW error \in Errors
  PROVE  LET y == handle_read_head(x, error)
         IN  Sound(y) /\ Keeps(y, x) /\ ErrorStep(y, x)
  <1> DEFINE v == [x EXCEPT !.port = "none", !.port_read_in_progress = FALSE]
             y == handle_read_head(x, error)
  <1>1. ReadEnded(v, x) /\ x \in Sessions
    BY ReadEnds DEF Sound
  <1>2. \/ v.extern_state = "stop" /\ y = StopOrStay(v)
        \/ v.extern_state # "stop" /\ error # "ok" /\ y = ReadFailed(v, error)
        \/ v.extern_state # "stop" /\ error = "ok" /\ y = read_until_tail(v)
    BY Zenon DEF handle_read_head
  <1> HIDE DEF v, y
  <1>3. CASE v.extern_state = "stop" /\ y = StopOrStay(v)
    BY <1>1, <1>3, EndAtStop DEF y
  <1>4. v.extern_state # "stop" => v.extern_state = "work"
    BY <1>1 DEF ReadEnded
  <1>5. CASE v.extern_state # "stop" /\ error # "ok" /\ y = ReadFailed(v, error)
    BY <1>1, <1>4, <1>5, FailStep DEF y
  <1>6. CASE v.extern_state # "stop" /\ error = "ok" /\ y = read_until_tail(v)
    <2>1. /\ Stock(y) /\ Keeps(y, x) /\ Control(y) /\ y.posted = x.posted
          /\ y.read_error = "ok" /\ x.read_error = "ok"
      BY <1>1, <1>4, <1>6, ReadAgain DEF ReadEnded
    <2> QED
      BY <2>1 DEF Sound, Stock, ErrorStep, y
  <1> QED
    BY <1>2, <1>3, <1>5, <1>6

\* The objects that somebody refers to.
Used(x) ==
  ToSet(x.frame_buffer) \cup UNION {ToSet(x.posted[k].frames) : k \in DOMAIN x.posted}

\* The numbers from 1 to n.
LEMMA Interval ==
  ASSUME NEW n \in Nat
  PROVE  IsFiniteSet(1 .. n) /\ Cardinality(1 .. n) = n
  <1>1. /\ IsFiniteSet(1 .. n)
        /\ Cardinality(1 .. n) = IF 1 > n THEN 0 ELSE n - 1 + 1
    BY FS_Interval
  <1> QED
    BY <1>1

\* There is always an object nobody refers to: those in use hold frames, each
\* another one, and one more frame may come.
LEMMA FreeObject ==
  ASSUME NEW x, Stock(x)
  PROVE  NewObject(x) \in Objects /\ NewObject(x) \notin Used(x)
  <1> DEFINE T == {o \in Objects : x.content[o] > 0}
             f == [o \in T |-> x.content[o]]
  <1>1. /\ x \in Sessions /\ x.content \in [Objects -> Nat] /\ x.arrived \in Nat
        /\ x.posted \in Seq(Handlers) /\ x.frame_buffer \in Seq(Objects)
        /\ x.given \in Nat
    BY DEF Stock, Sessions
  <1>2. ASSUME NEW o \in Used(x) PROVE o \in T
    <2>1. CASE o \in ToSet(x.frame_buffer)
      <3>1. PICK k \in 1 .. Len(x.frame_buffer) : o = x.frame_buffer[k]
        BY <1>1, <2>1 DEF ToSet
      <3>2. x.content[o] = x.arrived - Len(x.frame_buffer) + k
        BY <3>1 DEF Stock, Frames
      <3>3. x.given <= x.arrived - Len(x.frame_buffer)
        BY DEF Stock, Frames
      <3>4. o \in Objects /\ Len(x.frame_buffer) \in Nat
        BY <1>1, <3>1
      <3>5. x.content[o] > 0
        BY <1>1, <3>2, <3>3, <3>4
      <3> QED
        BY <3>4, <3>5
    <2>2. CASE o \notin ToSet(x.frame_buffer)
      <3>1. PICK j \in DOMAIN x.posted : o \in ToSet(x.posted[j].frames)
        BY <2>2 DEF Used
      <3> DEFINE h == x.posted[j]
      <3>2. j \in 1 .. Len(x.posted) /\ h \in Handlers
        BY <1>1, <3>1
      <3>3. Held(x, h)
        BY <3>2 DEF Stock, Frames
      <3>4. h.frames \in Seq(Objects)
        BY <3>2 DEF Handlers
      <3>5. o \in ToSet(h.frames)
        BY <3>1
      <3> HIDE DEF h
      <3>6. PICK k \in 1 .. Len(h.frames) : o = h.frames[k]
        BY <3>4, <3>5 DEF ToSet
      <3>7. o \in Objects /\ x.content[o] = h.numbers[k] /\ h.numbers[k] \in 1 .. x.given
        BY <3>3, <3>4, <3>6 DEF Held
      <3>8. x.content[o] > 0
        BY <1>1, <3>7
      <3> QED
        BY <3>7, <3>8
    <2> QED
      BY <2>1, <2>2
  <1>3. f \in Injection(T, 1 .. x.arrived)
    <2>1. ASSUME NEW o \in T PROVE x.content[o] \in 1 .. x.arrived
      <3>1. o \in Objects /\ x.content[o] \in Nat /\ x.content[o] > 0
        BY <1>1
      <3>2. x.content[o] <= x.arrived
        BY <3>1 DEF Stock, Frames
      <3> QED
        BY <1>1, <3>1, <3>2
    <2>2. f \in [T -> 1 .. x.arrived]
      BY <2>1
    <2>3. \A o, p \in T : f[o] = f[p] => o = p
      BY DEF Stock, Frames
    <2> HIDE DEF f, T
    <2> QED
      BY <2>2, <2>3 DEF Injection, IsInjective
  <1>4. IsFiniteSet(T) /\ Cardinality(T) <= x.arrived
    <2>1. IsFiniteSet(1 .. x.arrived) /\ Cardinality(1 .. x.arrived) = x.arrived
      BY <1>1, Interval
    <2> HIDE DEF f, T
    <2> QED
      BY <1>3, <2>1, FS_Injection
  <1>5. Cardinality(Objects) = RingSize + MaxFrames + 1
    <2> DEFINE last == RingSize + MaxFrames + 1
    <2>1. last \in Nat /\ last > 0
      BY RingAssumption
    <2>2. Objects = 1 .. last
      BY DEF Objects
    <2> HIDE DEF last
    <2>4. Cardinality(Objects) = last
      BY <2>1, <2>2, Interval
    <2> QED
      BY <2>4 DEF last
  <1>6. T # Objects
    <2>1. x.arrived <= MaxFrames
      BY DEF Stock, Frames
    <2>2. Cardinality(T) \in Nat
      BY <1>4, FS_CardinalityType
    <2> HIDE DEF T
    <2> QED
      BY <1>1, <1>4, <1>5, <2>1, <2>2, RingAssumption
  <1>7. \E o \in Objects \ Used(x) : TRUE
    BY <1>2, <1>6
  <1>8. NewObject(x) = CHOOSE o \in Objects \ Used(x) : TRUE
    BY DEF NewObject, Used
  <1>9. NewObject(x) \in Objects \ Used(x)
    BY <1>7, <1>8, Zenon
  <1> QED
    BY <1>9

\* What a full ring gives up, or nothing: the frames that stay, and the object
\* for the new one.
LEMMA RoomForFrame ==
  ASSUME NEW x, Stock(x)
  PROVE  LET ring == x.frame_buffer
             base == IF Full(x) THEN Tail(ring) ELSE ring
             o == IF Full(x) THEN Head(ring) ELSE NewObject(x)
         IN  /\ base \in Seq(Objects) /\ o \in Objects
             /\ Len(base) + 1 <= RingSize /\ Len(base) <= Len(ring)
             /\ ~Full(x) => Len(base) = Len(ring)
             /\ \A k \in 1 .. Len(base) :
                  base[k] # o /\ x.content[base[k]] = x.arrived - Len(base) + k
             /\ \A j \in 1 .. Len(x.posted) : \A k \in 1 .. Len(x.posted[j].frames) :
                  x.posted[j].frames[k] # o
  <1> DEFINE ring == x.frame_buffer
             n == Len(ring)
             base == IF Full(x) THEN Tail(ring) ELSE ring
             o == IF Full(x) THEN Head(ring) ELSE NewObject(x)
  <1>1. /\ x \in Sessions /\ x.content \in [Objects -> Nat] /\ x.arrived \in Nat
        /\ x.posted \in Seq(Handlers) /\ ring \in Seq(Objects)
        /\ x.given \in Nat /\ n \in Nat /\ RingSize \in Nat /\ RingSize > 0
    BY RingAssumption DEF Stock, Sessions
  <1>2. /\ n <= RingSize /\ x.given <= x.arrived - n
        /\ \A k \in 1 .. n : x.content[ring[k]] = x.arrived - n + k
        /\ \A j \in 1 .. Len(x.posted) : Held(x, x.posted[j])
    BY DEF Stock, Frames
  <1>3. CASE Full(x)
    <2>1. n = RingSize
      BY <1>3 DEF Full
    <2>2. base = Tail(ring) /\ o = Head(ring)
      BY <1>3
    <2> HIDE DEF base, o
    <2>3. /\ base \in Seq(Objects) /\ Len(base) = n - 1 /\ o = ring[1] /\ o \in Objects
          /\ \A k \in 1 .. Len(base) : base[k] = ring[k + 1]
      BY <1>1, <2>1, <2>2
    <2>4. x.content[o] = x.arrived - n + 1
      BY <1>1, <1>2, <2>1, <2>3
    <2>5. ASSUME NEW k \in 1 .. Len(base)
          PROVE  base[k] # o /\ x.content[base[k]] = x.arrived - Len(base) + k
      <3>1. k + 1 \in 1 .. n
        BY <1>1, <2>3
      <3>2. x.content[base[k]] = x.arrived - n + (k + 1)
        BY <1>2, <2>3, <3>1
      <3>3. x.content[base[k]] = x.arrived - Len(base) + k
        <4> DEFINE l == Len(base)
        <4>1. l = n - 1 /\ k \in Int
          BY <2>3
        <4> HIDE DEF l, n
        <4>2. x.arrived - n + (k + 1) = x.arrived - l + k
          BY <1>1, <4>1
        <4> QED
          BY <3>2, <4>2 DEF l
      <3> DEFINE b == x.content[base[k]]
                 c == x.content[o]
      <3>4. b = x.arrived - n + (k + 1) /\ c = x.arrived - n + 1 /\ k \in Nat /\ k > 0
        BY <2>3, <2>4, <3>2
      <3> HIDE DEF b, c, n
      <3>5. b # c
        BY <1>1, <3>4
      <3> QED
        BY <3>3, <3>5 DEF b, c
    <2>6. ASSUME NEW j \in 1 .. Len(x.posted), NEW k \in 1 .. Len(x.posted[j].frames)
          PROVE  x.posted[j].frames[k] # o
      <3> DEFINE h == x.posted[j]
      <3>1. x.content[h.frames[k]] = h.numbers[k] /\ h.numbers[k] \in 1 .. x.given
        BY <1>2 DEF Held
      <3> DEFINE m == h.numbers[k]
                 c == x.content[o]
      <3>a. /\ m \in 1 .. x.given /\ c = x.arrived - n + 1
            /\ x.given <= x.arrived - n
        BY <1>2, <2>4, <3>1
      <3>b. x.content[h.frames[k]] = m
        BY <3>1
      <3> HIDE DEF h, m, c, n
      <3>c. m # c
        BY <1>1, <3>a
      <3>2. x.content[h.frames[k]] # x.content[o]
        BY <3>b, <3>c DEF c
      <3> QED
        BY <3>2 DEF h
    <2>7. Len(base) + 1 <= RingSize /\ Len(base) <= n
      BY <1>1, <2>1, <2>3
    <2> QED
      BY <1>3, <2>3, <2>5, <2>6, <2>7 DEF base, o
  <1>4. CASE ~Full(x)
    <2>1. n # RingSize
      BY <1>4 DEF Full
    <2>2. base = ring /\ o = NewObject(x)
      BY <1>4
    <2>3. o \in Objects /\ o \notin Used(x)
      BY <2>2, FreeObject
    <2> HIDE DEF base, o
    <2>4. ASSUME NEW k \in 1 .. Len(base)
          PROVE  base[k] # o /\ x.content[base[k]] = x.arrived - Len(base) + k
      <3>1. base[k] \in Used(x)
        BY <1>1, <2>2 DEF Used, ToSet
      <3> QED
        BY <1>2, <2>2, <2>3, <3>1
    <2>5. ASSUME NEW j \in 1 .. Len(x.posted), NEW k \in 1 .. Len(x.posted[j].frames)
          PROVE  x.posted[j].frames[k] # o
      <3>1. x.posted[j] \in Handlers /\ j \in DOMAIN x.posted
        BY <1>1
      <3>2. x.posted[j].frames \in Seq(Objects)
        BY <3>1 DEF Handlers
      <3>3. x.posted[j].frames[k] \in ToSet(x.posted[j].frames)
        BY <3>2 DEF ToSet
      <3>4. x.posted[j].frames[k] \in Used(x)
        BY <3>1, <3>3 DEF Used
      <3> QED
        BY <2>3, <3>4
    <2>6. Len(base) + 1 <= RingSize /\ Len(base) = n
      BY <1>1, <1>2, <2>1, <2>2
    <2> QED
      BY <1>1, <1>4, <2>2, <2>3, <2>4, <2>5, <2>6 DEF base, o
  <1> QED
    BY <1>3, <1>4

\* A frame is put into the ring.
LEMMA SaveFrameStep ==
  ASSUME NEW x, Stock(x), x.arrived < MaxFrames
  PROVE  LET y == SaveFrame(x)
         IN  /\ Stock(y) /\ Ports(y, x) /\ y.posted = x.posted
             /\ y.extern_state = x.extern_state /\ y.read_error = x.read_error
             /\ y.read_handler = x.read_handler /\ y.stop_handler = x.stop_handler
  <1> DEFINE ring == x.frame_buffer
             base == IF Full(x) THEN Tail(ring) ELSE ring
             o == IF Full(x) THEN Head(ring) ELSE NewObject(x)
             L == Len(base)
             A == x.arrived
             y == SaveFrame(x)
  <1>1. /\ x \in Sessions /\ x.content \in [Objects -> Nat] /\ A \in Nat
        /\ x.posted \in Seq(Handlers) /\ ring \in Seq(Objects)
        /\ x.given \in Nat /\ Len(ring) \in Nat /\ x.dropped \in BOOLEAN
        /\ MaxFrames \in Nat /\ RingSize \in Nat
    BY RingAssumption DEF Stock, Sessions
  <1>2. /\ base \in Seq(Objects) /\ o \in Objects
        /\ L + 1 <= RingSize /\ L <= Len(ring) /\ L \in Nat
        /\ ~Full(x) => L = Len(ring)
        /\ \A k \in 1 .. L : base[k] # o /\ x.content[base[k]] = A - L + k
        /\ \A j \in 1 .. Len(x.posted) : \A k \in 1 .. Len(x.posted[j].frames) :
             x.posted[j].frames[k] # o
    <2>1. /\ base \in Seq(Objects) /\ o \in Objects
          /\ L + 1 <= RingSize /\ L <= Len(ring)
          /\ ~Full(x) => L = Len(ring)
          /\ \A k \in 1 .. L : base[k] # o /\ x.content[base[k]] = A - L + k
          /\ \A j \in 1 .. Len(x.posted) : \A k \in 1 .. Len(x.posted[j].frames) :
               x.posted[j].frames[k] # o
      BY RoomForFrame
    <2> HIDE DEF base
    <2> QED
      BY <2>1
  <1>3. y = [x EXCEPT !.arrived = A + 1, !.content[o] = A + 1,
                      !.dropped = x.dropped \/ Full(x),
                      !.frame_buffer = Append(base, o)]
    BY <1>1 DEF SaveFrame, Sessions
  <1> DEFINE c == [x.content EXCEPT ![o] = A + 1]
             r == Append(base, o)
             d == (x.dropped \/ Full(x))
  <1>4. /\ c \in [Objects -> Nat] /\ c[o] = A + 1
        /\ \A p \in Objects : p # o => c[p] = x.content[p]
    BY <1>1, <1>2
  <1>5. /\ r \in Seq(Objects) /\ Len(r) = L + 1 /\ r[L + 1] = o
        /\ \A k \in 1 .. L : r[k] = base[k]
    <2> HIDE DEF base, o
    <2> QED
      BY <1>2
  <1>6. d \in BOOLEAN
    BY <1>1, Zenon DEF Full
  <1>7. y = [x EXCEPT !.arrived = A + 1, !.content = c, !.dropped = d,
                      !.frame_buffer = r]
    BY <1>1, <1>3 DEF Sessions
  <1> HIDE DEF o, base, c, r, d, y, L
  <1>8. /\ y \in Sessions /\ y.arrived = A + 1 /\ y.content = c /\ y.dropped = d
        /\ y.frame_buffer = r /\ y.given = x.given
        /\ Ports(y, x) /\ y.posted = x.posted
        /\ y.extern_state = x.extern_state /\ y.read_error = x.read_error
        /\ y.read_handler = x.read_handler /\ y.stop_handler = x.stop_handler
    <2> DEFINE b == A + 1
    <2>1. b \in Nat /\ y = [x EXCEPT !.arrived = b, !.content = c, !.dropped = d,
                                     !.frame_buffer = r]
      BY <1>1, <1>7
    <2>2. c \in [Objects -> Nat] /\ r \in Seq(Objects) /\ d \in BOOLEAN /\ x \in Sessions
      BY <1>1, <1>4, <1>5, <1>6
    <2> HIDE DEF b
    <2>3. y \in Sessions
      BY <2>1, <2>2 DEF Sessions
    <2>4. /\ y.arrived = b /\ y.content = c /\ y.dropped = d /\ y.frame_buffer = r
      BY <2>1, <2>2 DEF Sessions
    <2>5. /\ y.given = x.given
          /\ Ports(y, x) /\ y.posted = x.posted
          /\ y.extern_state = x.extern_state /\ y.read_error = x.read_error
          /\ y.read_handler = x.read_handler /\ y.stop_handler = x.stop_handler
      BY <2>1, <2>2 DEF Sessions, Ports
    <2> QED
      BY <2>3, <2>4, <2>5 DEF b
  <1>9. /\ A <= MaxFrames /\ x.given <= A - Len(ring)
        /\ \A p \in Objects : x.content[p] <= A
        /\ \A p, q \in Objects : x.content[p] = x.content[q] /\ x.content[p] > 0 => p = q
        /\ \A j \in 1 .. Len(x.posted) : Held(x, x.posted[j])
    BY DEF Stock, Frames
  <1>10. Frames(y)
    <2>1. Len(y.frame_buffer) <= RingSize /\ y.arrived <= MaxFrames
      BY <1>1, <1>2, <1>5, <1>8
    <2>2. y.given <= y.arrived - Len(y.frame_buffer)
      BY <1>1, <1>2, <1>5, <1>8, <1>9
    <2>3. ASSUME NEW k \in 1 .. Len(y.frame_buffer)
          PROVE  y.content[y.frame_buffer[k]] = y.arrived - Len(y.frame_buffer) + k
      <3>1. k \in 1 .. L + 1 /\ k \in Int
        BY <1>2, <1>5, <1>8
      <3>2. (A + 1) - (L + 1) + k = A - L + k
        <4> HIDE DEF A
        <4> QED
          BY <1>1, <1>2, <3>1
      <3>3. CASE k = L + 1
        <4>1. c[r[k]] = A + 1
          BY <1>4, <1>5, <3>3
        <4>2. A - L + k = A + 1
          BY <1>1, <1>2, <3>3
        <4> QED
          BY <1>5, <1>8, <3>2, <4>1, <4>2
      <3>4. CASE k # L + 1
        <4>1. k \in 1 .. L
          BY <1>2, <3>1, <3>4
        <4>2. r[k] = base[k] /\ base[k] # o /\ base[k] \in Objects
          BY <1>2, <1>5, <4>1 DEF L
        <4>3. c[r[k]] = A - L + k
          BY <1>2, <1>4, <4>1, <4>2
        <4> QED
          BY <1>5, <1>8, <3>2, <4>3
      <3> QED
        BY <3>3, <3>4
    <2>4. ASSUME NEW p \in Objects PROVE y.content[p] <= y.arrived
      <3>1. x.content[p] \in Nat /\ x.content[p] <= A
        BY <1>1, <1>9
      <3>2. c[p] = A + 1 \/ c[p] = x.content[p]
        BY <1>4
      <3> QED
        BY <1>1, <1>8, <3>1, <3>2
    <2>5. ASSUME NEW p \in Objects, NEW q \in Objects, y.content[p] = y.content[q],
                 y.content[p] > 0
          PROVE  p = q
      <3>1. x.content[p] # A + 1 /\ x.content[q] # A + 1
        BY <1>1, <1>9
      <3> QED
        BY <1>4, <1>8, <1>9, <2>5, <3>1
    <2>6. ASSUME NEW j \in 1 .. Len(y.posted) PROVE Held(y, y.posted[j])
      <3> DEFINE h == x.posted[j]
      <3>1. h \in Handlers /\ Held(x, h) /\ y.posted[j] = h
        BY <1>1, <1>8, <1>9
      <3>2. \A k \in 1 .. Len(h.frames) : h.frames[k] # o
        BY <1>2, <1>8
      <3> HIDE DEF h
      <3>3. h.frames \in Seq(Objects)
        BY <3>1 DEF Handlers
      <3>4. \A k \in 1 .. Len(h.frames) : y.content[h.frames[k]] = x.content[h.frames[k]]
        BY <1>4, <1>8, <3>2, <3>3
      <3> QED
        BY <1>8, <3>1, <3>4 DEF Held
    <2> QED
      BY <2>1, <2>2, <2>3, <2>4, <2>5, <2>6 DEF Frames
  <1>11. Balance(y)
    <2>1. SUFFICES ASSUME caller = "main", ~y.dropped
                   PROVE  y.arrived - Len(y.frame_buffer) = y.given
      BY DEF Balance
    <2>2. ~x.dropped /\ ~Full(x)
      BY <1>8, <2>1 DEF d
    <2>3. A - Len(ring) = x.given /\ L = Len(ring)
      BY <1>2, <2>1, <2>2 DEF Stock, Balance
    <2>4. (A + 1) - (L + 1) = A - L
      <3> HIDE DEF A
      <3> QED
        BY <1>1, <1>2
    <2> QED
      BY <1>5, <1>8, <2>3, <2>4
  <1> QED
    BY <1>8, <1>10, <1>11 DEF Stock, y

\* handle_read_tail: a frame has come.
LEMMA TailStep ==
  ASSUME NEW x, Sound(x), x.port # "none", NEW error \in Errors,
         error = "ok" => x.arrived < MaxFrames
  PROVE  LET y == handle_read_tail(x, error)
         IN  Sound(y) /\ Keeps(y, x) /\ ErrorStep(y, x)
  <1> DEFINE v == [x EXCEPT !.port = "none", !.port_read_in_progress = FALSE]
             u == read_until_head(v)
             z == SaveFrame(u)
             size == CHOOSE n \in z.read_handler : TRUE
             y == handle_read_tail(x, error)
  <1>1. ReadEnded(v, x) /\ x \in Sessions
    BY ReadEnds DEF Sound
  <1>2. \/ v.extern_state = "stop" /\ y = StopOrStay(v)
        \/ v.extern_state # "stop" /\ error # "ok" /\ y = ReadFailed(v, error)
        \/ v.extern_state # "stop" /\ error = "ok" /\ z.read_handler = {} /\ y = z
        \/ v.extern_state # "stop" /\ error = "ok" /\ z.read_handler # {}
           /\ y = copy_buffer(z, size)
    BY Zenon DEF handle_read_tail
  <1> HIDE DEF v, y
  <1>3. CASE v.extern_state = "stop" /\ y = StopOrStay(v)
    BY <1>1, <1>3, EndAtStop DEF y
  <1>4. v.extern_state # "stop" => v.extern_state = "work"
    BY <1>1 DEF ReadEnded
  <1>5. CASE v.extern_state # "stop" /\ error # "ok" /\ y = ReadFailed(v, error)
    BY <1>1, <1>4, <1>5, FailStep DEF y
  <1>6. CASE v.extern_state # "stop" /\ error = "ok"
    <2>1. /\ Stock(u) /\ Keeps(u, x) /\ Ring(u, x) /\ Control(u)
          /\ u.read_error = "ok" /\ u.extern_state = "work" /\ x.read_error = "ok"
          /\ u.stop_handler = {}
      BY <1>1, <1>4, <1>6, ReadAgain DEF ReadEnded
    <2>2. u.arrived < MaxFrames
      BY <1>6, <2>1 DEF Ring
    <2> HIDE DEF u
    <2>3. /\ Stock(z) /\ Ports(z, u) /\ z.posted = u.posted
          /\ z.extern_state = u.extern_state /\ z.read_error = u.read_error
          /\ z.read_handler = u.read_handler /\ z.stop_handler = u.stop_handler
      BY <2>1, <2>2, SaveFrameStep
    <2> HIDE DEF z
    <2>4. Keeps(z, x)
      <3>1. Keeps(z, u)
        BY <2>3, KeepsSame DEF Ports
      <3> QED
        BY <2>1, <3>1, Zenon DEF Keeps
    <2>5. CASE z.read_handler = {} /\ y = z
      <3>1. Control(z)
        BY <2>1, <2>3, <2>5 DEF Control, Flags, Ports, may_complete_stop
      <3> QED
        BY <2>1, <2>3, <2>4, <2>5, <3>1 DEF Sound, Stock, ErrorStep, y
    <2>6. CASE z.read_handler # {} /\ y = copy_buffer(z, size)
      <3>1. size \in Nat
        <4>1. z.read_handler \in Storages
          BY <2>3 DEF Stock, Sessions
        <4>2. PICK n \in Nat : z.read_handler = {n}
          BY <2>6, <4>1 DEF Storages
        <4>3. size \in z.read_handler
          BY <4>2
        <4> QED
          BY <4>2, <4>3
      <3> HIDE DEF size
      <3>2. /\ Stock(y) /\ Steady(y, z) /\ y.read_handler = {} /\ Keeps(y, z)
        BY <2>3, <2>6, <3>1, CopyStep
      <3>3. Keeps(y, x)
        BY <2>4, <3>2, Zenon DEF Keeps
      <3>4. Control(y)
        BY <2>1, <2>3, <3>2 DEF Control, Flags, Ports, Steady, may_complete_stop
      <3>5. ErrorStep(y, x)
        BY <2>1, <2>3, <3>2 DEF ErrorStep, Steady
      <3> QED
        BY <3>2, <3>3, <3>4, <3>5 DEF Sound, Stock, y
    <2> QED
      BY <1>2, <1>6, <2>5, <2>6
  <1> QED
    BY <1>2, <1>3, <1>5, <1>6

\* handle_write: the handler of the write is posted.
LEMMA WriteEndStep ==
  ASSUME NEW x, Sound(x), x.writing, NEW error \in Errors
  PROVE  LET y == handle_write(x, error)
         IN  Sound(y) /\ Keeps(y, x) /\ ErrorStep(y, x)
  <1> DEFINE v == [x EXCEPT !.writing = FALSE, !.port_write_in_progress = FALSE]
             z == Post(v, "write", error, <<>>)
             y == StopOrStay(z)
  <1>1. x \in Sessions /\ Stock(x) /\ Control(x) /\ "write" \in Ops
    BY DEF Sound, Stock, Ops
  <1>2. handle_write(x, error) = y
    BY DEF handle_write
  <1>3. /\ v \in Sessions /\ Ring(v, x) /\ v.posted = x.posted
        /\ v.extern_state = x.extern_state /\ v.read_error = x.read_error
        /\ v.read_handler = x.read_handler /\ v.stop_handler = x.stop_handler
        /\ v.port = x.port /\ v.port_read_in_progress = x.port_read_in_progress
        /\ v.writing = FALSE /\ v.port_write_in_progress = FALSE
    BY <1>1 DEF Sessions, Ring
  <1> HIDE DEF v
  <1>4. Stock(v)
    BY <1>1, <1>3, SameFrames
  <1>5. Flags(v)
    <2>1. v.frame_buffer = x.frame_buffer
      BY <1>3 DEF Ring
    <2>2. x.extern_state # "stopped"
      BY <1>1 DEF Control, Flags, may_complete_stop
    <2> QED
      BY <1>1, <1>3, <2>1, <2>2 DEF Control, Flags, may_complete_stop
  <1>6. Stock(z) /\ Alike(z, v) /\ Gains(z, v, "write")
    BY <1>1, <1>4, PostPlain
  <1> HIDE DEF z
  <1>7. Flags(z)
    BY <1>5, <1>6, SameControl
  <1>8. Keeps(z, x)
    <2>1. /\ Waiting(x, "write") /\ ~Waiting(v, "write")
          /\ \A o \in Ops : o # "write" => (Waiting(v, o) <=> Waiting(x, o))
      BY <1>3 DEF Waiting
    <2> QED
      BY <1>1, <1>3, <1>6, <2>1, Moved
  <1>9. /\ Sound(y) /\ Keeps(y, z)
        /\ y.read_error = z.read_error /\ y.arrived = z.arrived
    BY <1>6, <1>7, StopOrStayStep
  <1> HIDE DEF y
  <1>10. Keeps(y, x)
    BY <1>8, <1>9, Zenon DEF Keeps
  <1>11. ErrorStep(y, x)
    BY <1>3, <1>6, <1>9 DEF ErrorStep, Alike, Ring
  <1> QED
    BY <1>2, <1>9, <1>10, <1>11

-----------------------------------------------------------------------------
(***************************************************************************)
(* The steps.                                                               *)
(***************************************************************************)
\* A session that nothing refers to is made ready again.
LEMMA ResestStep ==
  ASSUME NEW x, Sound(x), caller = "any",
         x.posted = <<>>, x.port = "none", ~x.writing
  PROVE  LET y == [resest(x) EXCEPT !.open = TRUE]
         IN  Sound(y) /\ Keeps(y, x) /\ ErrorStep(y, x)
  <1> DEFINE y == [resest(x) EXCEPT !.open = TRUE]
  <1>1. x \in Sessions /\ Control(x) /\ Frames(x)
    BY DEF Sound
  <1>2. /\ y \in Sessions /\ y.extern_state = "ready" /\ y.frame_buffer = <<>>
        /\ y.read_error = "ok" /\ y.posted = x.posted
        /\ y.read_handler = x.read_handler /\ y.stop_handler = x.stop_handler
        /\ Ports(y, x) /\ y.content = x.content /\ y.arrived = x.arrived
        /\ y.given = x.given
    <2> DEFINE e == <<>>
    <2>1. e \in Seq(Objects) /\ "ok" \in Errors
      BY DEF Errors
    <2>2. y = [x EXCEPT !.open = TRUE, !.frame_buffer = e, !.read_error = "ok",
                        !.extern_state = "ready"]
      BY <1>1 DEF resest, Sessions
    <2> HIDE DEF e, y
    <2>3. y \in Sessions
      BY <1>1, <2>1, <2>2 DEF Sessions
    <2>4. /\ y.extern_state = "ready" /\ y.frame_buffer = e /\ y.read_error = "ok"
      BY <1>1, <2>1, <2>2 DEF Sessions
    <2>5. /\ y.posted = x.posted
          /\ y.read_handler = x.read_handler /\ y.stop_handler = x.stop_handler
          /\ Ports(y, x) /\ y.content = x.content /\ y.arrived = x.arrived
          /\ y.given = x.given
      BY <1>1, <2>1, <2>2 DEF Sessions, Ports
    <2> QED
      BY <2>3, <2>4, <2>5 DEF e
  <1> HIDE DEF y
  <1>3. Control(y)
    BY <1>1, <1>2 DEF Control, Flags, Ports, may_complete_stop
  <1>4. Frames(y)
    <2>1. /\ x.arrived \in Nat /\ x.given \in Nat /\ Len(x.frame_buffer) \in Nat
          /\ RingSize \in Nat
      BY <1>1, RingAssumption DEF Sessions
    <2>2. x.given <= x.arrived - Len(x.frame_buffer)
      BY <1>1 DEF Frames
    <2>3. y.given <= y.arrived - Len(y.frame_buffer) /\ Len(y.frame_buffer) = 0
      BY <1>2, <2>1, <2>2
    <2>4. \A j \in 1 .. Len(y.posted) : Held(y, y.posted[j])
      BY <1>2
    <2> QED
      BY <1>1, <1>2, <2>1, <2>3, <2>4 DEF Frames
  <1>5. Balance(y)
    BY DEF Balance
  <1>6. Keeps(y, x)
    BY <1>2, KeepsSame DEF Ports
  <1>7. ErrorStep(y, x)
    BY <1>2 DEF ErrorStep
  <1> QED
    BY <1>2, <1>3, <1>4, <1>5, <1>6, <1>7 DEF Sound, y

\* The session does something with the handlers it has.
LEMMA KeepStep ==
  ASSUME RInv, Sound(s'), Keeps(s', s), UNCHANGED <<caller, queue, owed>>
  PROVE  RInv'
  <1>1. Sound(s)'
    BY DEF Sound, Balance
  <1>2. ASSUME NEW op \in Ops
        PROVE  owed'[op] = CountOf(queue', op) + Have(s', op)
    BY DEF RInv, Keeps
  <1> QED
    BY <1>1, <1>2 DEF RInv

\* A call comes to the strand.
LEMMA CallStep ==
  ASSUME RInv, NEW op \in Ops, NEW size \in Nat, Call(op, size)
  PROVE  RInv' /\ s' = s
  <1> DEFINE e == [op |-> op, size |-> size]
  <1>1. e \in Requests /\ e.op = op
    BY DEF Requests
  <1>2. /\ queue' = Append(queue, e) /\ owed' = [owed EXCEPT ![op] = @ + 1]
        /\ caller' = caller /\ s' = s
    BY DEF Call
  <1> HIDE DEF e
  <1>3. queue \in Seq(Requests) /\ owed \in [Ops -> Int]
    BY DEF RInv
  <1>4. queue' \in Seq(Requests) /\ owed' \in [Ops -> Int]
    BY <1>1, <1>2, <1>3
  <1>5. Sound(s)'
    BY <1>2 DEF RInv, Sound, Balance
  <1>6. ASSUME NEW o \in Ops
        PROVE  owed'[o] = CountOf(queue', o) + Have(s', o)
    <2> DEFINE a == CountOf(queue, o)
               b == Have(s, o)
    <2>1. CountOf(queue', o) = a + One(e.op = o) /\ a \in Nat
      BY <1>1, <1>2, <1>3, CountAppend, PlacesFinite
    <2>2. b \in Nat /\ owed[o] = a + b
      BY HaveNat DEF RInv, Sound
    <2> HIDE DEF a, b
    <2>3. CASE o = op
      <3>1. owed'[o] = owed[o] + 1
        BY <1>2, <1>3, <2>3
      <3>2. One(e.op = o) = 1
        BY <1>1, <2>3 DEF One
      <3> QED
        BY <1>2, <2>1, <2>2, <3>1, <3>2 DEF b
    <2>4. CASE o # op
      <3>1. owed'[o] = owed[o]
        BY <1>2, <1>3, <2>4
      <3>2. One(e.op = o) = 0
        BY <1>1, <2>4 DEF One
      <3> QED
        BY <1>2, <2>1, <2>2, <3>1, <3>2 DEF b
    <2> QED
      BY <2>3, <2>4
  <1> QED
    BY <1>2, <1>4, <1>5, <1>6 DEF RInv

\* The call at the head of the strand's queue runs.
LEMMA PerformStep ==
  ASSUME RInv, NEW op \in Ops, NEW y, Perform(op, y),
         Sound(y), Gains(y, s, op), ErrorStep(y, s)
  PROVE  RInv' /\ ErrorStep(s', s)
  <1>1. /\ queue # <<>> /\ Head(queue).op = op /\ queue' = Tail(queue) /\ s' = y
        /\ caller' = caller /\ owed' = owed
    BY DEF Perform
  <1>2. queue \in Seq(Requests)
    BY DEF RInv
  <1>3. /\ queue' \in Seq(Requests) /\ Len(queue') = Len(queue) - 1
        /\ \A j \in 1 .. Len(queue') : queue'[j] = queue[j + 1]
        /\ 1 \in 1 .. Len(queue) /\ queue[1].op = op
    BY <1>1, <1>2
  <1>4. Sound(s)'
    BY <1>1 DEF Sound, Balance
  <1>5. ASSUME NEW o \in Ops
        PROVE  owed'[o] = CountOf(queue', o) + Have(s', o)
    <2> DEFINE a == CountOf(queue, o)
               b == Have(s, o)
               c == One(op = o)
    <2>1. CountOf(queue', o) = a - c
      <3> DEFINE r == queue'
      <3>1. \A j \in 1 .. Len(r) : r[j] = queue[IF j < 1 THEN j ELSE j + 1]
        BY <1>3
      <3>2. r \in Seq(Requests) /\ Len(r) = Len(queue) - 1
        BY <1>3
      <3> HIDE DEF r
      <3>3. CountOf(r, o) = CountOf(queue, o) - One(queue[1].op = o)
        <4>1. \A k \in 1 .. Len(queue) :
                (\A j \in 1 .. Len(r) : r[j] = queue[IF j < k THEN j ELSE j + 1]) =>
                  CountOf(r, o) = CountOf(queue, o) - One(queue[k].op = o)
          BY SMTT(30), <1>2, <3>2, CountRemove
        <4> QED
          BY <1>3, <3>1, <4>1
      <3> QED
        BY <1>3, <3>3 DEF r
    <2>2. a \in Nat /\ b \in Nat /\ owed[o] = a + b
      BY <1>2, PlacesFinite, HaveNat DEF RInv, Sound
    <2>3. Have(s', o) = b + One(o = op)
      BY <1>1 DEF Gains
    <2>4. One(o = op) = c /\ c \in Nat
      BY DEF One
    <2> HIDE DEF a, b, c
    <2> QED
      BY <1>1, <2>1, <2>2, <2>3, <2>4
  <1> QED
    BY <1>1, <1>3, <1>4, <1>5 DEF RInv

\* One is taken out of a sequence.
LEMMA Removed ==
  ASSUME NEW S, NEW q \in Seq(S), NEW k \in 1 .. Len(q)
  PROVE  LET r == RemoveAt(q, k)
         IN  /\ r \in Seq(S) /\ Len(r) = Len(q) - 1
             /\ \A j \in 1 .. Len(r) : r[j] = q[IF j < k THEN j ELSE j + 1]
  <1> DEFINE a == SubSeq(q, 1, k - 1)
             b == SubSeq(q, k + 1, Len(q))
             n == Len(q)
             r == a \o b
  <1>1. n \in Nat /\ k \in Nat /\ k >= 1 /\ k <= n
    OBVIOUS
  <1>2. /\ a \in Seq(S) /\ Len(a) = k - 1
        /\ \A j \in 1 .. k - 1 : a[j] = q[j]
    <2> DEFINE m == k - 1
    <2>1. m \in Nat /\ m <= Len(q)
      BY <1>1
    <2> HIDE DEF m
    <2>2. /\ SubSeq(q, 1, m) \in Seq(S) /\ Len(SubSeq(q, 1, m)) = m
          /\ \A j \in 1 .. m : SubSeq(q, 1, m)[j] = q[j]
      BY <2>1, Cut
    <2> QED
      BY <2>2 DEF m
  <1>3. /\ b \in Seq(S) /\ Len(b) = n - k
        /\ \A j \in 1 .. n - k : b[j] = q[k + j]
    BY <1>1, Cut
  <1> HIDE DEF a, b, n
  <1>4. /\ r \in Seq(S) /\ Len(r) = Len(a) + Len(b)
        /\ \A j \in 1 .. Len(a) + Len(b) :
             r[j] = IF j <= Len(a) THEN a[j] ELSE b[j - Len(a)]
    BY <1>2, <1>3, ConcatProperties
  <1>5. Len(r) = n - 1
    BY <1>1, <1>2, <1>3, <1>4
  <1>6. ASSUME NEW j \in 1 .. Len(r) PROVE r[j] = q[IF j < k THEN j ELSE j + 1]
    <2> HIDE DEF r
    <2>1. j \in Nat /\ j >= 1 /\ j <= n - 1
      BY <1>1, <1>5
    <2>2. r[j] = IF j <= k - 1 THEN a[j] ELSE b[j - (k - 1)]
      BY <1>1, <1>2, <1>3, <1>4, <2>1
    <2>3. CASE j < k
      BY <1>1, <1>2, <2>1, <2>2, <2>3
    <2>4. CASE ~(j < k)
      <3>1. j - (k - 1) \in 1 .. n - k /\ k + (j - (k - 1)) = j + 1 /\ ~(j <= k - 1)
        BY <1>1, <2>1, <2>4
      <3> QED
        BY <1>3, <2>2, <2>4, <3>1
    <2> QED
      BY <2>3, <2>4
  <1>7. RemoveAt(q, k) = r
    BY DEF RemoveAt, a, b
  <1> QED
    BY <1>4, <1>5, <1>6, <1>7 DEF n

\* It is no longer counted.
LEMMA CountRemoveAt ==
  ASSUME NEW S, NEW q \in Seq(S), NEW k \in 1 .. Len(q), NEW op
  PROVE  CountOf(RemoveAt(q, k), op) = CountOf(q, op) - One(q[k].op = op)
  <1> DEFINE r == RemoveAt(q, k)
  <1>1. r \in Seq(S) /\ Len(r) = Len(q) - 1
    BY Removed
  <1>2. \A j \in 1 .. Len(r) : r[j] = q[IF j < k THEN j ELSE j + 1]
    BY Removed
  <1> HIDE DEF r
  <1>3. CountOf(r, op) = CountOf(q, op) - One(q[k].op = op)
    BY <1>1, <1>2, CountRemove
  <1> QED
    BY <1>3 DEF r

\* What main's handlers post to the strand: nothing, or one call.
LEMMA Continued ==
  ASSUME NEW q \in Seq(Requests), NEW h
  PROVE  LET c == Continue(h)
             r == q \o [j \in DOMAIN c |-> [op |-> c[j], size |-> RingSize]]
         IN  \/ c = <<>> /\ r = q
             \/ \E op \in Ops : c = <<op>> /\ r = Append(q, [op |-> op, size |-> RingSize])
  <1> DEFINE c == Continue(h)
             f == [j \in DOMAIN c |-> [op |-> c[j], size |-> RingSize]]
             r == q \o f
  <1>1. c = <<>> \/ c = <<"read">> \/ c = <<"stop">>
    BY DEF Continue
  <1> HIDE DEF c
  <1>2. CASE c = <<>>
    <2>1. f = <<>>
      BY <1>2
    <2> QED
      BY <1>2, <2>1, ConcatEmptySeq DEF c
  <1>3. ASSUME NEW op \in Ops, c = <<op>>
        PROVE  r = Append(q, [op |-> op, size |-> RingSize])
    <2> DEFINE e == [op |-> op, size |-> RingSize]
    <2>1. e \in Requests
      BY RingAssumption DEF Requests
    <2>2. f = <<e>>
      <3>1. DOMAIN c = {1} /\ c[1] = op
        BY <1>3
      <3>2. f = [j \in {1} |-> [op |-> op, size |-> RingSize]]
        BY <3>1
      <3> QED
        BY <3>2
    <2> HIDE DEF e, f
    <2>3. r = q \o <<e>>
      BY <2>2
    <2> QED
      BY <2>1, <2>3, AppendIsConcat DEF e
  <1>4. "read" \in Ops /\ "stop" \in Ops
    BY DEF Ops
  <1> QED
    BY <1>1, <1>2, <1>3, <1>4 DEF c

\* A posted handler is called.
LEMMA HandlerStep ==
  ASSUME RInv, CallHandler
  PROVE  RInv' /\ ErrorStep(s', s)
  <1>1. PICK k \in DOMAIN s.posted :
          /\ s' = [s EXCEPT !.posted = RemoveAt(@, k)]
          /\ queue' = queue \o [j \in DOMAIN Continue(s.posted[k]) |->
                                  [op |-> Continue(s.posted[k])[j], size |-> RingSize]]
          /\ owed' = [op \in Ops |-> owed[op] - (IF op = s.posted[k].op THEN 1 ELSE 0)
                                     + (IF <<op>> = Continue(s.posted[k]) THEN 1 ELSE 0)]
          /\ caller' = caller
    BY DEF CallHandler
  <1> DEFINE h == s.posted[k]
             p == RemoveAt(s.posted, k)
             c == Continue(h)
  <1>2. /\ s \in Sessions /\ s.posted \in Seq(Handlers) /\ queue \in Seq(Requests)
        /\ Control(s) /\ Frames(s) /\ Balance(s) /\ owed \in [Ops -> Int]
    BY DEF RInv, Sound, Sessions
  <1>3. k \in 1 .. Len(s.posted)
    BY <1>2
  <1>4. /\ p \in Seq(Handlers) /\ Len(p) = Len(s.posted) - 1
        /\ \A j \in 1 .. Len(p) : p[j] = s.posted[IF j < k THEN j ELSE j + 1]
    BY <1>2, <1>3, Removed
  <1>5. s' = [s EXCEPT !.posted = p]
    BY <1>1
  <1>6. h \in Handlers /\ h.op \in Ops
    <2>1. h \in Handlers
      BY <1>2, <1>3
    <2> HIDE DEF h
    <2> QED
      BY <2>1 DEF Handlers
  <1>7. /\ owed' = [op \in Ops |-> owed[op] - One(op = h.op) + One(<<op>> = c)]
    BY <1>1 DEF One
  <1>8. \/ c = <<>> /\ queue' = queue
        \/ \E op \in Ops : /\ c = <<op>>
                           /\ queue' = Append(queue, [op |-> op, size |-> RingSize])
    BY <1>1, <1>2, Continued
  <1> HIDE DEF c, h, p
  <1>9. /\ s' \in Sessions /\ Alike(s', s) /\ s'.posted = p
    BY <1>2, <1>4, <1>5 DEF Sessions, Alike, Ring, Ports
  <1>10. Sound(s')
    <2>1. Control(s')
      BY <1>2, <1>9, SameControl
    <2>2. Balance(s')
      BY <1>2, <1>9 DEF Balance, Alike, Ring
    <2>3. ASSUME NEW j \in 1 .. Len(p) PROVE Held(s', p[j])
      <3>1. (IF j < k THEN j ELSE j + 1) \in 1 .. Len(s.posted)
        BY <1>2, <1>3, <1>4
      <3>2. Held(s, p[j])
        BY <1>2, <1>4, <3>1 DEF Frames
      <3> QED
        BY <1>9, <3>2 DEF Held, Alike, Ring
    <2>4. Frames(s')
      BY <1>2, <1>9, <2>3 DEF Frames, Alike, Ring
    <2> QED
      BY <1>9, <2>1, <2>2, <2>4 DEF Sound
  <1>11. ErrorStep(s', s)
    BY <1>9 DEF ErrorStep, Alike, Ring
  <1>12. Sound(s)'
    BY <1>1, <1>10 DEF Sound, Balance
  <1>13. ASSUME NEW o \in Ops
         PROVE  Have(s', o) = Have(s, o) - One(o = h.op)
    <2> DEFINE a == CountOf(s.posted, o)
               w == One(Waiting(s, o))
               d == One(o = h.op)
    <2>1. CountOf(p, o) = a - d
      <3>1. CountOf(p, o) = CountOf(s.posted, o) - One(s.posted[k].op = o)
        BY <1>2, <1>3, CountRemoveAt DEF p
      <3> QED
        BY <3>1 DEF h, One
    <2>2. a \in Nat /\ w \in Nat /\ d \in Nat
      BY <1>2, PlacesFinite DEF One
    <2>3. One(Waiting(s', o)) = w
      <3>1. Waiting(s', o) <=> Waiting(s, o)
        BY <1>9 DEF Waiting, Alike, Ports
      <3> QED
        BY <3>1 DEF One
    <2>4. Have(s', o) = CountOf(p, o) + w /\ Have(s, o) = a + w
      BY <1>9, <2>3 DEF Have
    <2> HIDE DEF a, w, d
    <2> QED
      BY <2>1, <2>2, <2>4 DEF d
  <1>14. ASSUME NEW o \in Ops
         PROVE  CountOf(queue', o) = CountOf(queue, o) + One(<<o>> = c)
    <2>1. CASE c = <<>> /\ queue' = queue
      <3>1. One(<<o>> = c) = 0
        BY <2>1 DEF One
      <3>2. CountOf(queue, o) \in Nat
        BY <1>2, PlacesFinite
      <3> QED
        BY <2>1, <3>1, <3>2
    <2>2. ASSUME NEW op \in Ops, c = <<op>>,
                 queue' = Append(queue, [op |-> op, size |-> RingSize])
          PROVE  CountOf(queue', o) = CountOf(queue, o) + One(<<o>> = c)
      <3> DEFINE e == [op |-> op, size |-> RingSize]
      <3>1. e \in Requests /\ e.op = op
        BY RingAssumption DEF Requests
      <3>2. queue' = Append(queue, e)
        BY <2>2
      <3> HIDE DEF e
      <3>3. CountOf(queue', o) = CountOf(queue, o) + One(e.op = o)
        BY <1>2, <3>1, <3>2, CountAppend
      <3>4. (e.op = o) <=> (<<o>> = c)
        BY <2>2, <3>1
      <3> QED
        BY <3>3, <3>4 DEF One
    <2> QED
      BY <1>8, <2>1, <2>2
  <1>15. ASSUME NEW o \in Ops
         PROVE  owed'[o] = CountOf(queue', o) + Have(s', o) /\ owed'[o] \in Int
    <2> DEFINE a == CountOf(queue, o)
               b == Have(s, o)
               d == One(o = h.op)
               g == One(<<o>> = c)
    <2>1. owed'[o] = owed[o] - d + g
      BY <1>7
    <2>2. a \in Nat /\ b \in Nat /\ d \in Nat /\ g \in Nat /\ owed[o] = a + b
      BY <1>2, PlacesFinite, HaveNat DEF RInv, One
    <2>3. CountOf(queue', o) = a + g /\ Have(s', o) = b - d
      BY <1>13, <1>14
    <2> HIDE DEF a, b, d, g
    <2> QED
      BY <2>1, <2>2, <2>3
  <1>16. queue' \in Seq(Requests)
    <2>1. \A op \in Ops : [op |-> op, size |-> RingSize] \in Requests
      BY RingAssumption DEF Requests
    <2>2. \A e \in Requests : Append(queue, e) \in Seq(Requests)
      BY <1>2
    <2> QED
      BY <1>2, <1>8, <2>1, <2>2, Zenon
  <1>17. owed' \in [Ops -> Int]
    BY <1>7, <1>15
  <1> QED
    BY <1>1, <1>11, <1>12, <1>15, <1>16, <1>17 DEF RInv

\* A new session, which main has asked to start.
LEMMA InitStep ==
  ASSUME Init
  PROVE  RInv
  <1>1. /\ s = cyclic_read_session /\ caller \in {"main", "any"}
        /\ owed = [op \in Ops |-> IF caller = "main" /\ op = "start" THEN 1 ELSE 0]
    BY DEF Init
  <1> DEFINE c == [o \in Objects |-> 0]
             e == <<>>
  <1>2. c \in [Objects -> Nat] /\ e \in Seq(Objects) /\ e \in Seq(Handlers)
    OBVIOUS
  <1>3. s = [extern_state |-> "ready", frame_buffer |-> e, read_error |-> "ok",
             stop_error |-> "ok", port_read_in_progress |-> FALSE,
             port_write_in_progress |-> FALSE, read_handler |-> {}, stop_handler |-> {},
             port |-> "none", writing |-> FALSE, open |-> TRUE, posted |-> e,
             content |-> c, arrived |-> 0, given |-> 0, dropped |-> FALSE]
    BY <1>1 DEF cyclic_read_session
  <1>4. Len(e) = 0
    OBVIOUS
  <1> HIDE DEF c, e
  <1>5. s \in Sessions
    BY <1>2, <1>3 DEF Sessions, Errors, Storages
  <1>6. Control(s)
    BY <1>3 DEF Control, Flags, may_complete_stop
  <1>7. Frames(s)
    <2>1. /\ s.frame_buffer = e /\ s.posted = e /\ s.arrived = 0 /\ s.given = 0
          /\ \A o \in Objects : s.content[o] = 0
      BY <1>3 DEF c
    <2> QED
      BY <1>4, <2>1, RingAssumption DEF Frames
  <1>8. Balance(s)
    <2>1. s.arrived = 0 /\ s.given = 0 /\ Len(s.frame_buffer) = 0
      BY <1>3, <1>4
    <2> QED
      BY <2>1 DEF Balance
  <1>9. ASSUME NEW op \in Ops PROVE Have(s, op) = 0
    <2>1. ~Waiting(s, op)
      BY <1>3 DEF Waiting
    <2>2. CountOf(s.posted, op) = 0
      <3>1. Places(e, op) = {}
        BY <1>2, <1>4 DEF Places
      <3>2. CountOf(e, op) = Cardinality({})
        BY <1>2, <3>1, PlacesFinite
      <3> QED
        BY <1>3, <3>2, FS_EmptySet
    <2> QED
      BY <2>1, <2>2 DEF Have, One
  <1>10. \A op \in Ops : CountOf(<<>>, op) = 0
    <2> SUFFICES ASSUME NEW op \in Ops PROVE CountOf(<<>>, op) = 0
      OBVIOUS
    <2>1. Places(<<>>, op) = {} /\ <<>> \in Seq(Requests)
      BY DEF Places
    <2>2. CountOf(<<>>, op) = Cardinality({})
      BY <2>1, PlacesFinite
    <2> QED
      BY <2>2, FS_EmptySet
  <1>11. /\ queue \in Seq(Requests)
         /\ \A op \in Ops : owed[op] = CountOf(queue, op)
    <2> DEFINE r == [op |-> "start", size |-> 0]
    <2>1. r \in Requests /\ r.op = "start"
      BY DEF Requests, Ops
    <2> HIDE DEF r
    <2>2. CASE caller = "main"
      <3>1. queue = <<r>>
        BY <2>2 DEF Init, r
      <3>2. queue = Append(<<>>, r) /\ <<>> \in Seq(Requests)
        BY <3>1
      <3>3. ASSUME NEW op \in Ops PROVE owed[op] = CountOf(queue, op)
        <4>1. CountOf(queue, op) = CountOf(<<>>, op) + One(r.op = op)
          <5>1. \A q \in Seq(Requests) :
                  CountOf(Append(q, r), op) = CountOf(q, op) + One(r.op = op)
            BY <2>1, CountAppend
          <5> QED
            BY <3>2, <5>1
        <4>2. CountOf(queue, op) = One(r.op = op)
          <5>1. One(r.op = op) \in Nat
            BY DEF One
          <5> QED
            BY <1>10, <4>1, <5>1
        <4>3. owed[op] = One(op = "start")
          BY <1>1, <2>2 DEF One
        <4> QED
          BY <2>1, <4>2, <4>3 DEF One
      <3> QED
        BY <2>1, <3>2, <3>3
    <2>3. CASE caller # "main"
      <3>1. queue = <<>>
        BY <2>3 DEF Init
      <3> QED
        BY <1>1, <1>10, <2>3, <3>1
    <2> QED
      BY <2>2, <2>3
  <1>12. /\ owed \in [Ops -> Int]
         /\ \A op \in Ops : owed[op] = CountOf(queue, op) + Have(s, op)
    BY <1>1, <1>9, <1>11
  <1> QED
    BY <1>1, <1>5, <1>6, <1>7, <1>8, <1>11, <1>12 DEF RInv, Sound

\* A step that leaves the session as it is shows no error.
LEMMA SameError ==
  ASSUME s' = s
  PROVE  ErrorStep(s', s)
  BY DEF ErrorStep

\* Every step keeps the invariant, and shows a read error once.
LEMMA StepKeeps ==
  ASSUME RInv, Next
  PROVE  RInv' /\ ErrorStep(s', s)
  <1>1. /\ "start" \in Ops /\ "stop" \in Ops /\ "read" \in Ops /\ "write" \in Ops
        /\ 0 \in Nat /\ Sizes \subseteq Nat
    BY RingAssumption DEF Ops
  <1>2. Sound(s) /\ queue \in Seq(Requests)
    BY DEF RInv
  <1>3. PortResults \subseteq Errors
    BY DEF PortResults, Errors
  <1>4. CASE AsyncStart
    BY <1>1, <1>4, CallStep, SameError DEF AsyncStart
  <1>5. CASE AsyncStop
    BY <1>1, <1>5, CallStep, SameError DEF AsyncStop
  <1>6. CASE AsyncReadSome
    BY <1>1, <1>6, CallStep, SameError DEF AsyncReadSome
  <1>7. CASE AsyncWriteSome
    BY <1>1, <1>7, CallStep, SameError DEF AsyncWriteSome
  <1>8. CASE handle_console_close
    BY <1>1, <1>8, CallStep, SameError DEF handle_console_close
  <1>9. CASE Resest
    <2>1. /\ caller = "any" /\ s.posted = <<>> /\ s.port = "none" /\ ~s.writing
          /\ s' = [resest(s) EXCEPT !.open = TRUE]
          /\ UNCHANGED <<caller, queue, owed>>
      BY <1>9 DEF Resest, Quiet
    <2>2. Sound(s') /\ Keeps(s', s) /\ ErrorStep(s', s)
      BY <1>2, <2>1, ResestStep
    <2> QED
      BY <2>1, <2>2, KeepStep
  <1>10. CASE StartExternStart
    <2> DEFINE y == start_extern_start(s)
    <2>1. Sound(y) /\ Gains(y, s, "start") /\ ErrorStep(y, s)
      BY <1>2, StartStep
    <2>2. Perform("start", y)
      BY <1>10 DEF StartExternStart
    <2> HIDE DEF y
    <2> QED
      BY <1>1, <2>1, <2>2, PerformStep
  <1>11. CASE StartExternStop
    <2>1. PICK e \in {"ok", "error"} : Perform("stop", start_extern_stop(s, e))
      BY <1>11 DEF StartExternStop
    <2> DEFINE y == start_extern_stop(s, e)
    <2>2. Sound(y) /\ Gains(y, s, "stop") /\ ErrorStep(y, s)
      BY <1>2, StopStep
    <2>3. Perform("stop", y)
      BY <2>1
    <2> HIDE DEF y
    <2> QED
      BY <1>1, <2>2, <2>3, PerformStep
  <1>12. CASE StartExternReadSome
    <2> DEFINE size == Head(queue).size
               y == start_extern_read_some(s, size)
    <2>1. Perform("read", y)
      BY <1>12 DEF StartExternReadSome
    <2>2. size \in Nat
      <3>1. queue # <<>>
        BY <2>1 DEF Perform
      <3>2. Head(queue) \in Requests
        BY <1>2, <3>1
      <3> QED
        BY <3>2 DEF Requests
    <2> HIDE DEF size
    <2>3. Sound(y) /\ Gains(y, s, "read") /\ ErrorStep(y, s)
      BY <1>2, <2>2, ReadStep
    <2> HIDE DEF y
    <2> QED
      BY <1>1, <2>1, <2>3, PerformStep
  <1>13. CASE StartExternWriteSome
    <2> DEFINE y == start_extern_write_some(s)
    <2>1. Sound(y) /\ Gains(y, s, "write") /\ ErrorStep(y, s)
      BY <1>2, WriteStep
    <2>2. Perform("write", y)
      BY <1>13 DEF StartExternWriteSome
    <2> HIDE DEF y
    <2> QED
      BY <1>1, <2>1, <2>2, PerformStep
  <1>14. CASE HandleReadHead
    <2>1. PICK error \in PortResults : s' = handle_read_head(s, error)
      BY <1>14 DEF HandleReadHead
    <2>2. s.port # "none" /\ UNCHANGED <<caller, queue, owed>>
      BY <1>14 DEF HandleReadHead
    <2>3. Sound(s') /\ Keeps(s', s) /\ ErrorStep(s', s)
      BY <1>2, <1>3, <2>1, <2>2, HeadStep
    <2> QED
      BY <2>2, <2>3, KeepStep
  <1>15. CASE HandleReadTail
    <2>1. PICK error \in PortResults : /\ error = "ok" => s.arrived < MaxFrames
                                       /\ s' = handle_read_tail(s, error)
      BY <1>15 DEF HandleReadTail
    <2>2. s.port # "none" /\ UNCHANGED <<caller, queue, owed>>
      BY <1>15 DEF HandleReadTail
    <2>3. Sound(s') /\ Keeps(s', s) /\ ErrorStep(s', s)
      BY <1>2, <1>3, <2>1, <2>2, TailStep
    <2> QED
      BY <2>2, <2>3, KeepStep
  <1>16. CASE HandleWrite
    <2>1. PICK error \in PortResults : s' = handle_write(s, error)
      BY <1>16 DEF HandleWrite
    <2>2. s.writing /\ UNCHANGED <<caller, queue, owed>>
      BY <1>16 DEF HandleWrite
    <2>3. Sound(s') /\ Keeps(s', s) /\ ErrorStep(s', s)
      BY <1>2, <1>3, <2>1, <2>2, WriteEndStep
    <2> QED
      BY <2>2, <2>3, KeepStep
  <1>17. CASE CallHandler
    BY <1>17, HandlerStep
  <1> QED
    BY <1>4, <1>5, <1>6, <1>7, <1>8, <1>9, <1>10, <1>11, <1>12, <1>13, <1>14, <1>15,
       <1>16, <1>17 DEF Next

(***************************************************************************)
(* RInv holds in every reachable state, whatever the sizes, for main and    *)
(* for any other caller of the session.                                     *)
(***************************************************************************)
THEOREM SessionInvariance == Spec => []RInv
  <1>1. Init => RInv
    BY InitStep
  <1>2. RInv /\ [Next]_vars => RInv'
    <2> SUFFICES ASSUME RInv, [Next]_vars PROVE RInv'
      OBVIOUS
    <2>1. CASE Next
      BY <2>1, StepKeeps
    <2>2. CASE UNCHANGED vars
      <3>1. s' = s /\ caller' = caller /\ queue' = queue /\ owed' = owed
        BY <2>2 DEF vars
      <3>2. Sound(s') /\ Keeps(s', s)
        BY <3>1 DEF RInv, Keeps
      <3> QED
        BY <3>1, <3>2, KeepStep
    <2> QED
      BY <2>1, <2>2
  <1> QED
    BY <1>1, <1>2, PTL DEF Spec

(***************************************************************************)
(* Every handler given to cyclic_read_session is in exactly one place until *)
(* it is called, and while a read or a stop waits in its storage something  *)
(* is in progress at the port that will post it.                            *)
(***************************************************************************)
THEOREM EveryHandlerServed == Spec => []HandlersServed
  <1>1. RInv => HandlersServed
    <2> SUFFICES ASSUME RInv PROVE HandlersServed
      OBVIOUS
    <2>1. s \in Sessions /\ Control(s) /\ Frames(s)
      BY DEF RInv, Sound
    <2>2. TypeOK
      <3>1. /\ s.extern_state \in {"ready", "work", "stop", "stopped"}
            /\ {s.read_error, s.stop_error} \subseteq Errors
            /\ s.frame_buffer \in Seq(Objects)
        BY <2>1 DEF Sessions
      <3>2. ToSet(s.frame_buffer) \subseteq Objects
        BY <3>1 DEF ToSet
      <3> QED
        BY <2>1, <3>1, <3>2 DEF TypeOK, Control, Flags, Frames
    <2>3. /\ s.read_handler # {} =>
               s.extern_state = "work" /\ s.port_read_in_progress
               /\ s.frame_buffer = <<>> /\ s.read_error = "ok"
          /\ s.stop_handler # {} => s.extern_state = "stop" /\ ~may_complete_stop(s)
          /\ s.extern_state = "stopped" => may_complete_stop(s)
      BY <2>1 DEF Control, Flags
    <2>4. Cardinality(s.read_handler) = One(s.read_handler # {})
      <3>1. s.read_handler = {} \/ \E n \in Nat : s.read_handler = {n}
        BY <2>1 DEF Sessions, Storages
      <3> QED
        BY <3>1, FS_EmptySet, FS_Singleton DEF One
    <2>5. Cardinality(s.stop_handler) = One(s.stop_handler # {})
      <3>1. s.stop_handler = {} \/ s.stop_handler = {1}
        BY <2>1 DEF Sessions
      <3> QED
        BY <3>1, FS_EmptySet, FS_Singleton DEF One
    <2>6. ASSUME NEW op \in Ops
          PROVE  owed[op] = CountOf(queue, op) + CountOf(s.posted, op)
                            + (CASE op = "read" -> Cardinality(s.read_handler)
                                 [] op = "stop" -> Cardinality(s.stop_handler)
                                 [] op = "write" /\ s.writing -> 1
                                 [] OTHER -> 0)
      <3> DEFINE a == CountOf(queue, op)
                 b == CountOf(s.posted, op)
                 w == One(Waiting(s, op))
                 v == CASE op = "read" -> Cardinality(s.read_handler)
                        [] op = "stop" -> Cardinality(s.stop_handler)
                        [] op = "write" /\ s.writing -> 1
                        [] OTHER -> 0
      <3>1. owed[op] = a + (b + w)
        BY DEF RInv, Have
      <3>2. a \in Nat /\ b \in Nat /\ w \in Nat
        BY <2>1, HaveNat, PlacesFinite DEF RInv, One
      <3>3. v = w
        <4>1. CASE op = "read"
          BY <2>4, <4>1 DEF Waiting, One
        <4>2. CASE op = "stop"
          BY <2>5, <4>2 DEF Waiting, One
        <4>3. CASE op = "write"
          BY <4>3 DEF Waiting, One
        <4>4. CASE op = "start"
          BY <4>4 DEF Waiting, One
        <4> QED
          BY <4>1, <4>2, <4>3, <4>4 DEF Ops
      <3> HIDE DEF a, b, w, v
      <3>4. owed[op] = a + b + v
        BY <3>1, <3>2, <3>3
      <3> QED
        BY <3>4 DEF a, b, v
    <2> QED
      BY <2>2, <2>3, <2>6 DEF HandlersServed
  <1> QED
    BY <1>1, SessionInvariance, PTL

(***************************************************************************)
(* The ring keeps the newest frames in their order, main misses none unless *)
(* the ring was full, and SaveFrame never fills an object that a handler    *)
(* not yet called was given.                                                *)
(***************************************************************************)
THEOREM FramesInOrder == Spec => []FramesSound
  <1>1. RInv => FramesSound
    <2> SUFFICES ASSUME RInv PROVE FramesSound
      OBVIOUS
    <2>1. s \in Sessions /\ Frames(s) /\ Balance(s)
      BY DEF RInv, Sound
    <2> DEFINE n == Len(s.frame_buffer)
    <2>2. /\ \A k \in 1 .. n : s.content[s.frame_buffer[k]] = s.arrived - n + k
          /\ s.given <= s.arrived - n
          /\ \A j \in 1 .. Len(s.posted) : Held(s, s.posted[j])
      BY <2>1 DEF Frames
    <2>3. n > 0 => s.arrived - n >= s.given
      <3>1. s.arrived \in Nat /\ s.given \in Nat /\ n \in Nat
        BY <2>1 DEF Sessions
      <3> HIDE DEF n
      <3> QED
        BY <2>2, <3>1
    <2>4. (s.extern_state = "work" /\ ~s.dropped /\ caller = "main") =>
            s.arrived - n = s.given
      BY <2>1 DEF Balance
    <2>5. ASSUME NEW j \in DOMAIN s.posted, NEW k \in DOMAIN s.posted[j].frames
          PROVE  s.content[s.posted[j].frames[k]] = s.posted[j].numbers[k]
      <3> DEFINE h == s.posted[j]
      <3>1. h \in Handlers /\ Held(s, h)
        BY <2>1, <2>2 DEF Sessions
      <3>2. k \in DOMAIN h.frames
        OBVIOUS
      <3> HIDE DEF h
      <3>3. k \in 1 .. Len(h.frames)
        BY <3>1, <3>2 DEF Handlers
      <3>4. s.content[h.frames[k]] = h.numbers[k]
        BY <3>1, <3>3 DEF Held
      <3> QED
        BY <3>4 DEF h
    <2> QED
      BY <2>2, <2>3, <2>4, <2>5 DEF FramesSound
  <1> QED
    BY <1>1, SessionInvariance, PTL

(***************************************************************************)
(* A read error is seen by one reader, after the frames that came before    *)
(* it, and no frame is cut while it is kept.                                *)
(***************************************************************************)
THEOREM ReadErrorSeenOnce == Spec => ErrorSeenOnce
  <1>1. RInv /\ [Next]_vars =>
          [ /\ s.read_error # "ok" => s'.arrived = s.arrived
            /\ (s.read_error # "ok" /\ s'.read_error = "ok" /\ s'.extern_state = "work") =>
                 /\ Last(s'.posted).error = s.read_error
                 /\ s.frame_buffer = <<>>
            /\ (s.read_error = "ok" /\ s'.read_error # "ok") =>
                 s'.posted = s.posted ]_vars
    <2> SUFFICES ASSUME RInv, Next PROVE ErrorStep(s', s)
      BY DEF ErrorStep
    <2> QED
      BY StepKeeps
  <1> QED
    BY <1>1, SessionInvariance, PTL DEF Spec, ErrorSeenOnce
=============================================================================

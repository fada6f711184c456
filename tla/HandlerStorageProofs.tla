------------------------ MODULE HandlerStorageProofs ------------------------
(***************************************************************************)
(* Proofs about the handler storages and their service, for every finite     *)
(* number of storages and any number of handlers, whatever cycles they form: *)
(* no handler is lost, posted twice or destroyed twice, and the shutdown     *)
(* leaves nothing behind.                                                    *)
(*                                                                           *)
(* The difficulty is the state in the middle of nested destructors.  There   *)
(* a storage that nobody refers to exists until its own destructor, which is *)
(* on the stack, has run; the invariant says that this is the only such      *)
(* storage, and that nothing on the stack is there twice.  A call the user   *)
(* makes from within a handler's destructor finds that state too, and must   *)
(* not reach a storage whose destructor is on the stack.                     *)
(***************************************************************************)
EXTENDS HandlerStorage, FiniteSetTheorems, SequenceTheorems, WellFoundedInduction, TLAPS

-----------------------------------------------------------------------------
(***************************************************************************)
(* Sequences without repetition.                                             *)
(***************************************************************************)

\* Nothing is twice in q.
Distinct(q) == \A i, j \in 1 .. Len(q) : q[i] = q[j] => i = j

\* The elements of a sequence, by its indices.
LEMMA Elements ==
  ASSUME NEW S, NEW q \in Seq(S)
  PROVE  /\ ToSet(q) = {q[i] : i \in 1 .. Len(q)}
         /\ ToSet(q) \subseteq S
  BY DEF ToSet

\* The empty sequence.
LEMMA EmptyFacts ==
  /\ ToSet(<<>>) = {} /\ Distinct(<<>>) /\ Len(<<>>) = 0
  BY DEF ToSet, Distinct

\* A sequence of one.
LEMMA OneFacts ==
  ASSUME NEW S, NEW e \in S
  PROVE  /\ <<e>> \in Seq(S) /\ ToSet(<<e>>) = {e} /\ Distinct(<<e>>)
  BY DEF ToSet, Distinct

\* Appending something new.
LEMMA AppendDistinct ==
  ASSUME NEW S, NEW q \in Seq(S), NEW e \in S, Distinct(q), e \notin ToSet(q)
  PROVE  /\ Append(q, e) \in Seq(S)
         /\ ToSet(Append(q, e)) = ToSet(q) \cup {e}
         /\ Distinct(Append(q, e))
  <1> DEFINE t == Append(q, e)
  <1>1. t \in Seq(S) /\ Len(t) = Len(q) + 1
    OBVIOUS
  <1>2. \A i \in 1 .. Len(t) : t[i] = IF i = Len(q) + 1 THEN e ELSE q[i]
    OBVIOUS
  <1>3. ToSet(q) = {q[i] : i \in 1 .. Len(q)}
    BY Elements
  <1> HIDE DEF t
  <1>4. ToSet(t) = {t[i] : i \in 1 .. Len(t)}
    BY <1>1, Elements
  <1>5. ToSet(t) = ToSet(q) \cup {e}
    BY <1>1, <1>2, <1>3, <1>4
  <1>6. Distinct(t)
    BY <1>1, <1>2, <1>3 DEF Distinct
  <1> QED
    BY <1>1, <1>5, <1>6 DEF t

\* The first element taken off.
LEMMA TailDistinct ==
  ASSUME NEW S, NEW q \in Seq(S), q # <<>>, Distinct(q)
  PROVE  /\ Tail(q) \in Seq(S) /\ Head(q) \in S /\ Head(q) \in ToSet(q)
         /\ ToSet(Tail(q)) = ToSet(q) \ {Head(q)}
         /\ Distinct(Tail(q))
  <1> DEFINE t == Tail(q)
  <1>1. /\ t \in Seq(S) /\ Len(t) = Len(q) - 1 /\ Len(q) \in Nat \ {0}
        /\ Head(q) = q[1]
    OBVIOUS
  <1>2. \A i \in 1 .. Len(t) : t[i] = q[i + 1]
    OBVIOUS
  <1>3. ToSet(q) = {q[i] : i \in 1 .. Len(q)}
    BY Elements
  <1> HIDE DEF t
  <1>4. ToSet(t) = {t[i] : i \in 1 .. Len(t)}
    BY <1>1, Elements
  <1>5. ToSet(t) \subseteq ToSet(q) \ {q[1]}
    BY <1>1, <1>2, <1>3, <1>4 DEF Distinct
  <1>6. ASSUME NEW e \in ToSet(q) \ {q[1]} PROVE e \in ToSet(t)
    <2>1. PICK i \in 1 .. Len(q) : e = q[i]
      BY <1>3, <1>6
    <2>2. i - 1 \in 1 .. Len(t) /\ t[i - 1] = e
      BY <1>1, <1>2, <1>6, <2>1
    <2> QED
      BY <1>4, <2>2
  <1>7. Distinct(t)
    BY <1>1, <1>2 DEF Distinct
  <1> QED
    BY <1>1, <1>3, <1>5, <1>6, <1>7 DEF t

\* One sequence before another.
LEMMA ConcatDistinct ==
  ASSUME NEW S, NEW p \in Seq(S), NEW q \in Seq(S), Distinct(p), Distinct(q),
         ToSet(p) \cap ToSet(q) = {}
  PROVE  /\ p \o q \in Seq(S)
         /\ ToSet(p \o q) = ToSet(p) \cup ToSet(q)
         /\ Distinct(p \o q)
  <1> DEFINE t == p \o q
  <1>1. t \in Seq(S) /\ Len(t) = Len(p) + Len(q) /\ Len(p) \in Nat /\ Len(q) \in Nat
    OBVIOUS
  <1>2. \A i \in 1 .. Len(t) : t[i] = IF i <= Len(p) THEN p[i] ELSE q[i - Len(p)]
    OBVIOUS
  <1>3. /\ ToSet(p) = {p[i] : i \in 1 .. Len(p)}
        /\ ToSet(q) = {q[i] : i \in 1 .. Len(q)}
    BY Elements
  <1> HIDE DEF t
  <1>4. ToSet(t) = {t[i] : i \in 1 .. Len(t)}
    BY <1>1, Elements
  <1>5. ToSet(t) \subseteq ToSet(p) \cup ToSet(q)
    BY <1>1, <1>2, <1>3, <1>4
  <1>6. \A i \in 1 .. Len(p) : i \in 1 .. Len(t) /\ t[i] = p[i]
    BY <1>1, <1>2
  <1>7. ASSUME NEW i \in 1 .. Len(q)
        PROVE  i + Len(p) \in 1 .. Len(t) /\ t[i + Len(p)] = q[i]
    <2>1. /\ i + Len(p) \in 1 .. Len(t) /\ ~(i + Len(p) <= Len(p))
          /\ (i + Len(p)) - Len(p) = i
      BY <1>1
    <2> QED
      BY <1>2, <2>1
  <1>8. ToSet(p) \cup ToSet(q) \subseteq ToSet(t)
    BY <1>3, <1>4, <1>6, <1>7
  <1>9. ASSUME NEW i \in 1 .. Len(t), NEW j \in 1 .. Len(t), t[i] = t[j]
        PROVE  i = j
    <2>1. CASE i <= Len(p) /\ j <= Len(p)
      BY <1>1, <1>2, <1>9, <2>1 DEF Distinct
    <2>2. CASE i > Len(p) /\ j > Len(p)
      <3>1. /\ i - Len(p) \in 1 .. Len(q) /\ j - Len(p) \in 1 .. Len(q)
            /\ q[i - Len(p)] = q[j - Len(p)]
        BY <1>1, <1>2, <1>9, <2>2
      <3>2. i - Len(p) = j - Len(p)
        BY <3>1 DEF Distinct
      <3> QED
        BY <1>1, <3>2
    <2>3. CASE i <= Len(p) /\ j > Len(p)
      <3>1. t[i] \in ToSet(p) /\ t[j] \in ToSet(q)
        BY <1>1, <1>2, <1>3, <2>3
      <3> QED
        BY <1>9, <3>1
    <2>4. CASE i > Len(p) /\ j <= Len(p)
      <3>1. t[j] \in ToSet(p) /\ t[i] \in ToSet(q)
        BY <1>1, <1>2, <1>3, <2>4
      <3> QED
        BY <1>9, <3>1
    <2> QED
      BY <1>1, <2>1, <2>2, <2>3, <2>4
  <1> QED
    BY <1>1, <1>5, <1>8, <1>9 DEF t, Distinct

\* The i-th element taken out.
LEMMA RemoveDistinct ==
  ASSUME NEW S, NEW q \in Seq(S), NEW i \in 1 .. Len(q), Distinct(q)
  PROVE  /\ RemoveAt(q, i) \in Seq(S)
         /\ ToSet(RemoveAt(q, i)) = ToSet(q) \ {q[i]}
         /\ Distinct(RemoveAt(q, i))
  <1> DEFINE t == RemoveAt(q, i)
  <1>1. Len(q) \in Nat /\ i \in Nat /\ 1 <= i /\ i <= Len(q)
    OBVIOUS
  <1>2. /\ t \in Seq(S) /\ Len(t) = Len(q) - 1
        /\ \A k \in 1 .. Len(t) : t[k] = IF k < i THEN q[k] ELSE q[k + 1]
    <2> DEFINE a == SubSeq(q, 1, i - 1)
               b == SubSeq(q, i + 1, Len(q))
    <2>1. /\ a \in Seq(S) /\ Len(a) = i - 1
          /\ \A k \in 1 .. i - 1 : a[k] = q[k]
      BY <1>1
    <2>2. /\ b \in Seq(S) /\ Len(b) = Len(q) - i
          /\ \A k \in 1 .. Len(q) - i : b[k] = q[k + i]
      BY <1>1
    <2>3. t = a \o b
      BY DEF RemoveAt
    <2> HIDE DEF a, b
    <2>7. a \o b \in Seq(S) /\ Len(a \o b) = Len(a) + Len(b)
      BY <2>1, <2>2, ConcatProperties
    <2>4. a \o b \in Seq(S) /\ Len(a \o b) = Len(q) - 1
      BY <1>1, <2>1, <2>2, <2>7
    <2>6. \A k \in 1 .. Len(a \o b) :
            (a \o b)[k] = IF k <= Len(a) THEN a[k] ELSE b[k - Len(a)]
      BY <2>1, <2>2
    <2>5. ASSUME NEW k \in 1 .. Len(q) - 1
          PROVE  t[k] = IF k < i THEN q[k] ELSE q[k + 1]
      <3>1. CASE k < i
        BY <1>1, <2>1, <2>3, <2>4, <2>6, <3>1
      <3>2. CASE ~(k < i)
        <4>1. k - (i - 1) \in 1 .. Len(q) - i /\ (k - (i - 1)) + i = k + 1
          BY <1>1, <3>2
        <4> QED
          BY <1>1, <2>1, <2>2, <2>3, <2>4, <2>6, <3>2, <4>1
      <3> QED
        BY <3>1, <3>2
    <2> QED
      BY <2>3, <2>4, <2>5
  <1>3. ToSet(q) = {q[k] : k \in 1 .. Len(q)}
    BY Elements
  <1> HIDE DEF t
  <1>4. ToSet(t) = {t[k] : k \in 1 .. Len(t)}
    BY <1>2, Elements
  <1>5. ToSet(t) \subseteq ToSet(q) \ {q[i]}
    BY <1>1, <1>2, <1>3, <1>4 DEF Distinct
  <1>6. ASSUME NEW e \in ToSet(q) \ {q[i]} PROVE e \in ToSet(t)
    <2>1. PICK k \in 1 .. Len(q) : e = q[k]
      BY <1>3, <1>6
    <2>2. CASE k < i
      <3>1. k \in 1 .. Len(t) /\ t[k] = e
        BY <1>1, <1>2, <2>1, <2>2
      <3> QED
        BY <1>4, <3>1
    <2>3. CASE k > i
      <3>1. k - 1 \in 1 .. Len(t) /\ t[k - 1] = e
        BY <1>1, <1>2, <2>1, <2>3
      <3> QED
        BY <1>4, <3>1
    <2> QED
      BY <1>1, <1>6, <2>1, <2>2, <2>3
  <1>7. Distinct(t)
    <2> SUFFICES ASSUME NEW k \in 1 .. Len(t), NEW m \in 1 .. Len(t), t[k] = t[m]
                 PROVE  k = m
      BY DEF Distinct
    <2> DEFINE u(x) == IF x < i THEN x ELSE x + 1
    <2>1. u(k) \in 1 .. Len(q) /\ u(m) \in 1 .. Len(q) /\ q[u(k)] = q[u(m)]
      BY <1>1, <1>2
    <2>2. u(k) = u(m)
      BY <2>1 DEF Distinct
    <2> QED
      BY <1>1, <2>2
  <1> QED
    BY <1>2, <1>5, <1>6, <1>7 DEF t

\* As long as its set is large.
LEMMA DistinctLength ==
  ASSUME NEW S, NEW q \in Seq(S), Distinct(q)
  PROVE  Cardinality(ToSet(q)) = Len(q)
  <1>1. ToSet(q) = {q[i] : i \in 1 .. Len(q)}
    BY Elements
  <1>2. q \in Bijection(1 .. Len(q), ToSet(q))
    BY <1>1 DEF Distinct, Bijection, Injection, Surjection, IsInjective
  <1>3. ExistsBijection(1 .. Len(q), ToSet(q))
    BY <1>2 DEF ExistsBijection
  <1> QED
    BY <1>3, FS_CountingElements

-----------------------------------------------------------------------------
(***************************************************************************)
(* Frames of the stack.                                                      *)
(***************************************************************************)

\* Which call a frame is, and of what.
LEMMA FrameFacts ==
  /\ \A h \in Handlers : Destroy(h) \in Frames /\ Destroy(h).call = "destroy"
                         /\ Destroy(h).handler = h
  /\ \A s \in Storages : Destruct(s) \in Frames /\ Destruct(s).call = "destruct"
                         /\ Destruct(s).storage = s
  /\ \A h, g \in Handlers : Destroy(h) = Destroy(g) => h = g
  /\ \A s, t \in Storages : Destruct(s) = Destruct(t) => s = t
  /\ \A h \in Handlers, s \in Storages : Destroy(h) # Destruct(s)
  /\ \A f \in Frames : f.call = "destroy" =>
       f.handler \in Handlers /\ f = Destroy(f.handler)
  /\ \A f \in Frames : f.call = "destruct" =>
       f.storage \in Storages /\ f = Destruct(f.storage)
  /\ \A f \in Frames : f.call \in {"destroy", "destruct"}
  <1>1. \A h \in Handlers : Destroy(h) \in Frames /\ Destroy(h).call = "destroy"
                            /\ Destroy(h).handler = h
    BY DEF Frames, Destroy
  <1>2. \A s \in Storages : Destruct(s) \in Frames /\ Destruct(s).call = "destruct"
                            /\ Destruct(s).storage = s
    BY DEF Frames, Destruct
  <1>3. \A h, g \in Handlers : Destroy(h) = Destroy(g) => h = g
    BY <1>1
  <1>4. \A s, t \in Storages : Destruct(s) = Destruct(t) => s = t
    BY <1>2
  <1>5. \A h \in Handlers, s \in Storages : Destroy(h) # Destruct(s)
    BY <1>1, <1>2
  <1>6. ASSUME NEW f \in Frames
        PROVE  \/ \E h \in Handlers : f = Destroy(h)
               \/ \E s \in Storages : f = Destruct(s)
    BY DEF Frames
  <1> QED
    BY <1>1, <1>2, <1>3, <1>4, <1>5, <1>6

\* The calls that end a handler.
LEMMA EndFacts ==
  ASSUME NEW h \in Pointers
  PROVE  /\ End(h) \in Seq(Frames) /\ Distinct(End(h))
         /\ ToSet(End(h)) = IF h = Null THEN {} ELSE {Destroy(h)}
         /\ h # Null => h \in Handlers
  <1>1. CASE h = Null
    <2>1. End(h) = <<>> /\ <<>> \in Seq(Frames)
      BY <1>1 DEF End
    <2> QED
      BY <1>1, <2>1, EmptyFacts
  <1>2. CASE h # Null
    <2>1. End(h) = <<Destroy(h)>> /\ h \in Handlers
      BY <1>2 DEF End, Pointers
    <2>2. Destroy(h) \in Frames
      BY <2>1, FrameFacts
    <2> QED
      BY <1>2, <2>1, <2>2, OneFacts
  <1> QED
    BY <1>1, <1>2

\* A finite set in some order.
LEMMA SetToSeqFacts ==
  ASSUME NEW S, IsFiniteSet(S)
  PROVE  LET q == SetToSeq(S)
         IN  /\ Cardinality(S) \in Nat
             /\ \A i \in 1 .. Cardinality(S) : q[i] \in S
             /\ \A i, j \in 1 .. Cardinality(S) : q[i] = q[j] => i = j
             /\ \A e \in S : \E i \in 1 .. Cardinality(S) : q[i] = e
  <1> DEFINE n == Cardinality(S)
             q == SetToSeq(S)
  <1>1. n \in Nat /\ IsFiniteSet(1 .. n) /\ Cardinality(1 .. n) = n
    BY FS_CardinalityType, FS_Interval
  <1>2. PICK k \in Nat : ExistsBijection(1 .. k, S)
    BY FS_NatBijection
  <1>3. k = n
    BY <1>2, FS_CountingElements
  <1>4. \E f \in [1 .. n -> S] : IsInjective(f)
    BY <1>2, <1>3 DEF ExistsBijection, Bijection, Injection
  <1>5. q \in [1 .. n -> S] /\ IsInjective(q)
    BY <1>4 DEF SetToSeq
  <1> HIDE DEF n, q
  <1>6. q \in Injection(1 .. n, S)
    BY <1>5 DEF Injection
  <1>7. q \in Surjection(1 .. n, S)
    BY <1>1, <1>6, FS_Injection DEF n
  <1>8. \A e \in S : \E i \in 1 .. n : q[i] = e
    BY <1>7 DEF Surjection
  <1>9. \A i, j \in 1 .. n : q[i] = q[j] => i = j
    BY <1>5 DEF IsInjective
  <1> QED
    BY <1>1, <1>5, <1>8, <1>9 DEF n, q

\* The destructors of a set of storages.
LEMMA DestructsFacts ==
  ASSUME NEW S \in SUBSET Storages
  PROVE  /\ Destructs(S) \in Seq(Frames) /\ Distinct(Destructs(S))
         /\ ToSet(Destructs(S)) = {Destruct(s) : s \in S}
  <1> DEFINE n == Cardinality(S)
             q == SetToSeq(S)
             d == Destructs(S)
  <1>1. IsFiniteSet(S)
    BY StorageAssumption, FS_Subset
  <1>2. /\ n \in Nat
        /\ \A i \in 1 .. n : q[i] \in S
        /\ \A i, j \in 1 .. n : q[i] = q[j] => i = j
        /\ \A e \in S : \E i \in 1 .. n : q[i] = e
    BY <1>1, SetToSeqFacts
  <1>3. d = [i \in 1 .. n |-> Destruct(q[i])]
    BY DEF Destructs
  <1> HIDE DEF n, q, d
  <1>4. \A i \in 1 .. n : Destruct(q[i]) \in Frames
    BY <1>2, FrameFacts
  <1>5. d \in Seq(Frames) /\ Len(d) = n /\ \A i \in 1 .. n : d[i] = Destruct(q[i])
    BY <1>2, <1>3, <1>4
  <1>6. ToSet(d) = {d[i] : i \in 1 .. n}
    BY <1>5, Elements
  <1>7. ToSet(d) = {Destruct(s) : s \in S}
    BY <1>2, <1>5, <1>6
  <1>8. Distinct(d)
    BY <1>2, <1>5, FrameFacts DEF Distinct
  <1> QED
    BY <1>5, <1>7, <1>8 DEF d

-----------------------------------------------------------------------------
(***************************************************************************)
(* The invariant.                                                            *)
(***************************************************************************)

\* The storages and the handlers whose end is on the stack.
Dying == {s \in Storages : Destruct(s) \in ToSet(stack)}
Ending == {h \in Handlers : Destroy(h) \in ToSet(stack)}

\* A handler is in one storage, in the queue, on the stack or gone.
OnePlace ==
  /\ \A s, t \in Storages : handler[s] # Null /\ handler[s] = handler[t] => s = t
  /\ \A s \in Storages : handler[s] # Null =>
       /\ s \in live
       /\ handler[s] \notin posted /\ handler[s] \notin Ending
       /\ ended[handler[s]] = 0
  /\ \A h \in posted : h \notin Ending /\ ended[h] = 0
  /\ \A h \in Ending : ended[h] = 0
  /\ \A h \in Handlers : ended[h] \in {0, 1}

\* Only a handler that is somewhere refers to storages, and those exist.
Owners ==
  \A h \in Handlers : owns[h] # {} =>
    /\ owns[h] \subseteq live /\ ended[h] = 0
    /\ h \in posted \/ h \in Ending \/ \E s \in Storages : handler[s] = h

\* A storage exists as long as it is referred to, and until its destructor ran.
References ==
  /\ Dying \subseteq live
  /\ \A s \in Dying : s \notin held /\ \A h \in Handlers : s \notin owns[h]
  /\ \A s \in live : s \in held \/ s \in Dying \/ \E h \in Handlers : s \in owns[h]

\* The service knows every storage until it shuts down, and then no handler.
Known ==
  /\ Distinct(impl_list)
  /\ ~shutdown => ToSet(impl_list) = live
  /\ shutdown => impl_list = <<>> /\ \A s \in Storages : handler[s] = Null

StorageInv ==
  TypeOK /\ Distinct(stack) /\ OnePlace /\ Owners /\ References /\ Known

\* Between two calls of the user nothing is being destroyed.
LEMMA IdleFacts ==
  ASSUME Idle PROVE Dying = {} /\ Ending = {}
  BY EmptyFacts DEF Idle, Dying, Ending

\* Nothing exists at first.
LEMMA InitInv == Init => StorageInv
  <1> SUFFICES ASSUME Init PROVE StorageInv
    OBVIOUS
  <1>1. Dying = {} /\ Ending = {}
    BY IdleFacts DEF Init, Idle
  <1>2. /\ <<>> \in Seq(Frames) /\ <<>> \in Seq(Storages)
        /\ ToSet(<<>>) = {} /\ Distinct(<<>>)
    BY EmptyFacts
  <1>3. TypeOK
    BY <1>2 DEF Init, TypeOK, Pointers
  <1>4. OnePlace /\ Owners /\ References
    BY <1>1 DEF Init, OnePlace, Owners, References
  <1>5. Known /\ Distinct(stack)
    BY <1>2 DEF Init, Known
  <1> QED
    BY <1>3, <1>4, <1>5 DEF StorageInv

\* A call that leaves the stack alone leaves both sets alone.
LEMMA SameStack ==
  ASSUME stack' = stack PROVE Dying' = Dying /\ Ending' = Ending
  BY DEF Dying, Ending

\* What the user can reach, also from within a destructor, is not being
\* destroyed.
LEMMA UsableFacts ==
  ASSUME StorageInv, NEW s \in Usable
  PROVE  s \in Storages /\ s \in live /\ s \notin Dying
  <1> USE DEF StorageInv
  <1>1. live \subseteq Storages /\ held \subseteq live
    BY DEF TypeOK
  <1>2. CASE s \in held
    BY <1>1, <1>2 DEF References
  <1>3. CASE s \notin held
    <2>1. Inside /\ s \in owns[Head(stack).handler]
      BY <1>3 DEF Usable
    <2>2. Head(stack) \in Frames
      BY <2>1, TailDistinct DEF Inside, Idle, TypeOK
    <2>3. Head(stack).handler \in Handlers
      BY <2>1, <2>2, FrameFacts DEF Inside
    <2>4. s \in live
      BY <2>1, <2>3 DEF Owners
    <2> QED
      BY <1>1, <2>1, <2>3, <2>4 DEF References
  <1> QED
    BY <1>2, <1>3

\* So with what anybody refers to.
LEMMA ReferredFacts ==
  ASSUME StorageInv, NEW s \in Referred
  PROVE  s \in Storages /\ s \in live /\ s \notin Dying
  <1> USE DEF StorageInv
  <1>1. live \subseteq Storages /\ held \subseteq live
    BY DEF TypeOK
  <1>2. s \in held \/ \E h \in Handlers : s \in owns[h]
    BY DEF Referred
  <1>3. s \in live
    BY <1>1, <1>2 DEF Owners
  <1> QED
    BY <1>1, <1>2, <1>3 DEF References

\* A new storage is known to the service, unless it has shut down.
LEMMA ConstructInv ==
  ASSUME StorageInv, NEW s \in Storages, construct(s) PROVE StorageInv'
  <1> USE DEF StorageInv, construct
  <1>1. Dying' = Dying /\ Ending' = Ending
    BY SameStack
  <1>2. /\ impl_list' \in Seq(Storages) /\ Distinct(impl_list')
        /\ ~shutdown => ToSet(impl_list') = live'
    <2>1. CASE shutdown
      BY <2>1 DEF Known, TypeOK
    <2>2. CASE ~shutdown
      <3>1. impl_list \in Seq(Storages) /\ Distinct(impl_list) /\ s \notin ToSet(impl_list)
        BY <2>2 DEF Known, TypeOK
      <3>2. impl_list' = Append(impl_list, s)
        BY <2>2
      <3> QED
        BY <2>2, <3>1, <3>2, AppendDistinct DEF Known
    <2> QED
      BY <2>1, <2>2
  <1>3. TypeOK'
    BY <1>2 DEF TypeOK
  <1>4. Known'
    BY <1>2 DEF Known
  <1>5. OnePlace'
    BY <1>1 DEF OnePlace, TypeOK
  <1>6. Owners'
    BY <1>1 DEF Owners
  <1>7. References'
    BY <1>1 DEF References, TypeOK
  <1> QED
    BY <1>3, <1>4, <1>5, <1>6, <1>7

\* The handler changes its storage; its former one stays without.
LEMMA MoveConstructInv ==
  ASSUME StorageInv, NEW s \in Storages, NEW other \in Storages,
         move_construct(s, other)
  PROVE  StorageInv'
  <1> USE DEF StorageInv, move_construct
  <1>1. Dying' = Dying /\ Ending' = Ending
    BY SameStack
  <1>2. /\ impl_list' \in Seq(Storages) /\ Distinct(impl_list')
        /\ ~shutdown => ToSet(impl_list') = live'
    <2>1. CASE shutdown
      BY <2>1 DEF Known, TypeOK
    <2>2. CASE ~shutdown
      <3>1. impl_list \in Seq(Storages) /\ Distinct(impl_list) /\ s \notin ToSet(impl_list)
        BY <2>2 DEF Known, TypeOK
      <3>2. impl_list' = Append(impl_list, s)
        BY <2>2
      <3> QED
        BY <2>2, <3>1, <3>2, AppendDistinct DEF Known
    <2> QED
      BY <2>1, <2>2
  <1>3. /\ handler' \in [Storages -> Pointers]
        /\ shutdown => handler' = handler
        /\ ~shutdown => \A t \in Storages :
             handler'[t] = IF t = other THEN Null
                           ELSE IF t = s THEN handler[other] ELSE handler[t]
    BY DEF TypeOK, Pointers
  <1>4. s # other /\ other \in live
    BY UsableFacts
  <1>5. TypeOK'
    BY <1>2, <1>3 DEF TypeOK
  <1>6. Known'
    BY <1>2, <1>3 DEF Known
  <1>7. OnePlace'
    <2>1. /\ live' = live \cup {s} /\ UNCHANGED <<posted, ended>>
          /\ handler[s] = Null
      BY DEF OnePlace
    <2>2. CASE shutdown
      BY <1>1, <1>3, <2>1, <2>2 DEF OnePlace
    <2>3. CASE ~shutdown
      <3>1. \A t \in Storages : handler'[t] # Null =>
              /\ t # other
              /\ t = s => handler'[t] = handler[other]
              /\ t # s => handler'[t] = handler[t]
        BY <1>3, <2>3
      <3>2. \A t, u \in Storages :
              handler'[t] # Null /\ handler'[t] = handler'[u] => t = u
        BY <1>4, <3>1 DEF OnePlace
      <3>3. ASSUME NEW t \in Storages, handler'[t] # Null
            PROVE  /\ t \in live'
                   /\ handler'[t] \notin posted /\ handler'[t] \notin Ending
                   /\ ended[handler'[t]] = 0
        BY <2>1, <3>1, <3>3 DEF OnePlace
      <3> QED
        BY <1>1, <2>1, <3>2, <3>3 DEF OnePlace
    <2> QED
      BY <2>2, <2>3
  <1>8. Owners'
    <2> SUFFICES ASSUME NEW h \in Handlers, owns[h] # {}
                 PROVE  /\ owns[h] \subseteq live' /\ ended[h] = 0
                        /\ \/ h \in posted \/ h \in Ending
                           \/ \E t \in Storages : handler'[t] = h
      BY <1>1 DEF Owners
    <2>1. /\ owns[h] \subseteq live' /\ ended[h] = 0
          /\ h \in posted \/ h \in Ending \/ \E t \in Storages : handler[t] = h
      BY <1>1 DEF Owners
    <2>2. ASSUME NEW t \in Storages, handler[t] = h
          PROVE  \E u \in Storages : handler'[u] = h
      <3>1. h # Null
        BY StorageAssumption
      <3>2. t \in live
        BY <2>2, <3>1 DEF OnePlace
      <3> QED
        BY <1>3, <1>4, <2>2, <3>2
    <2> QED
      BY <2>1, <2>2
  <1>9. References'
    BY <1>1 DEF References, TypeOK
  <1> QED
    BY <1>5, <1>6, <1>7, <1>8, <1>9

\* What the stack is when a call has begun to end the handler p.
LEMMA EndStack ==
  ASSUME StorageInv, NEW p \in Pointers, p # Null => p \notin Ending,
         stack' = End(p) \o stack
  PROVE  /\ stack' \in Seq(Frames) /\ Distinct(stack') /\ Dying' = Dying
         /\ Ending' = Ending \cup (IF p = Null THEN {} ELSE {p})
         /\ p # Null => p \in Handlers
  <1>1. /\ End(p) \in Seq(Frames) /\ Distinct(End(p))
        /\ ToSet(End(p)) = IF p = Null THEN {} ELSE {Destroy(p)}
        /\ p # Null => p \in Handlers
    BY EndFacts
  <1>2. stack \in Seq(Frames) /\ Distinct(stack)
    BY DEF StorageInv, TypeOK
  <1>3. ToSet(End(p)) \cap ToSet(stack) = {}
    BY <1>1 DEF Ending
  <1>4. /\ stack' \in Seq(Frames) /\ Distinct(stack')
        /\ ToSet(stack') = ToSet(End(p)) \cup ToSet(stack)
    <2>1. /\ End(p) \o stack \in Seq(Frames) /\ Distinct(End(p) \o stack)
          /\ ToSet(End(p) \o stack) = ToSet(End(p)) \cup ToSet(stack)
      BY <1>1, <1>2, <1>3, ConcatDistinct
    <2> QED
      BY <2>1
  <1>5. Dying' = Dying
    <2>1. /\ Dying' = {t \in Storages : Destruct(t) \in ToSet(stack')}
          /\ Dying = {t \in Storages : Destruct(t) \in ToSet(stack)}
      BY DEF Dying
    <2>2. \A t \in Storages : Destruct(t) \notin ToSet(End(p))
      BY <1>1, FrameFacts
    <2> QED
      BY <1>4, <2>1, <2>2
  <1>6. Ending' = Ending \cup (IF p = Null THEN {} ELSE {p})
    <2>1. /\ Ending' = {h \in Handlers : Destroy(h) \in ToSet(stack')}
          /\ Ending = {h \in Handlers : Destroy(h) \in ToSet(stack)}
      BY DEF Ending
    <2>2. \A h \in Handlers : Destroy(h) \in ToSet(End(p)) <=> h = p
      BY <1>1, FrameFacts, StorageAssumption
    <2>3. \A h \in Handlers : h \in Ending' <=> h \in Ending \/ h = p
      BY <1>4, <2>1, <2>2
    <2> QED
      BY <1>1, <2>1, <2>3, StorageAssumption
  <1> QED
    BY <1>1, <1>4, <1>5, <1>6

\* A new handler takes the place of the old one, or is dropped after the
\* shutdown; the storages it refers to are not being destroyed.
LEMMA StoreInv ==
  ASSUME StorageInv, NEW s \in Storages, NEW h \in Handlers,
         NEW S \in SUBSET Referred, store(s, h, S)
  PROVE  StorageInv'
  <1> USE DEF StorageInv, store
  <1>1. S \subseteq Storages /\ S \subseteq live /\ S \cap Dying = {}
    BY ReferredFacts
  <1>2. /\ h # Null /\ ended[h] = 0 /\ h \notin posted /\ h \notin Ending
        /\ \A t \in Storages : handler[t] # h
    BY StorageAssumption DEF Unused, Ending
  <1>3. owns[h] = {}
    BY <1>2 DEF Owners
  <1> DEFINE p == IF shutdown THEN h ELSE handler[s]
  <1>4. /\ p \in Pointers /\ stack' = End(p) \o stack
        /\ p # Null => p \notin Ending /\ p \notin posted /\ ended[p] = 0
    BY <1>2 DEF TypeOK, Pointers, OnePlace
  <1>5. /\ stack' \in Seq(Frames) /\ Distinct(stack') /\ Dying' = Dying
        /\ Ending' = Ending \cup (IF p = Null THEN {} ELSE {p})
        /\ p # Null => p \in Handlers
    <2> HIDE DEF p
    <2> QED
      BY <1>4, EndStack
  <1>6. /\ handler' \in [Storages -> Pointers]
        /\ shutdown => handler' = handler
        /\ ~shutdown => \A t \in Storages :
             handler'[t] = IF t = s THEN h ELSE handler[t]
    BY DEF TypeOK, Pointers
  <1>7. /\ owns' \in [Handlers -> SUBSET Storages]
        /\ \A k \in Handlers : owns'[k] = IF k = h THEN S ELSE owns[k]
    BY <1>1 DEF TypeOK
  <1>8. TypeOK'
    BY <1>5, <1>6, <1>7 DEF TypeOK
  <1>9. Known'
    BY <1>6 DEF Known
  <1>10. OnePlace'
    <2>1. s \in live /\ UNCHANGED <<live, posted, ended>>
      BY UsableFacts
    <2>2. posted \subseteq Handlers
      BY DEF TypeOK
    <2>3. \A t \in Storages : handler'[t] # Null =>
            handler'[t] = IF t = s THEN h ELSE handler[t]
      BY <1>6 DEF Known
    <2>4. \A t \in Storages : handler'[t] # Null => handler'[t] # p
      BY <1>2, <1>6 DEF OnePlace, Known
    <2> HIDE DEF p
    <2> QED
      BY <1>2, <1>4, <1>5, <2>1, <2>2, <2>3, <2>4 DEF OnePlace
  <1>11. Owners'
    <2> SUFFICES ASSUME NEW k \in Handlers, owns'[k] # {}
                 PROVE  /\ owns'[k] \subseteq live /\ ended[k] = 0
                        /\ \/ k \in posted \/ k \in Ending'
                           \/ \E t \in Storages : handler'[t] = k
      BY DEF Owners
    <2>1. CASE k = h
      BY <1>1, <1>2, <1>4, <1>5, <1>6, <1>7, <2>1
    <2>2. CASE k # h
      <3>1. /\ owns[k] \subseteq live /\ ended[k] = 0 /\ owns'[k] = owns[k]
            /\ k \in posted \/ k \in Ending \/ \E t \in Storages : handler[t] = k
        BY <1>7, <2>2 DEF Owners
      <3>2. ASSUME NEW t \in Storages, handler[t] = k
            PROVE  k \in Ending' \/ \E u \in Storages : handler'[u] = k
        <4>1. CASE ~shutdown /\ t = s
          BY <1>4, <1>5, <3>2, <4>1, StorageAssumption
        <4>2. CASE shutdown \/ t # s
          BY <1>6, <3>2, <4>2
        <4> QED
          BY <4>1, <4>2
      <3> QED
        BY <1>5, <3>1, <3>2
    <2> QED
      BY <2>1, <2>2
  <1>12. References'
    <2>1. ASSUME NEW t \in live
          PROVE  t \in held \/ t \in Dying \/ \E k \in Handlers : t \in owns'[k]
      BY <1>3, <1>7 DEF References
    <2>2. ASSUME NEW t \in Dying
          PROVE  t \notin held /\ \A k \in Handlers : t \notin owns'[k]
      BY <1>1, <1>7 DEF References
    <2> QED
      BY <1>5, <2>1, <2>2 DEF References
  <1> QED
    BY <1>5, <1>8, <1>9, <1>10, <1>11, <1>12

\* The handler of the storage is about to be destroyed.
LEMMA ClearInv ==
  ASSUME StorageInv, NEW s \in Storages, clear(s) PROVE StorageInv'
  <1> USE DEF StorageInv, clear
  <1> DEFINE p == handler[s]
  <1>1. p # Null => p \notin Ending /\ p \notin posted /\ ended[p] = 0
    BY DEF OnePlace
  <1>2. p \in Pointers /\ stack' = End(p) \o stack
    BY DEF TypeOK
  <1>3. /\ stack' \in Seq(Frames) /\ Distinct(stack') /\ Dying' = Dying
        /\ Ending' = Ending \cup (IF p = Null THEN {} ELSE {p})
        /\ p # Null => p \in Handlers
    <2> HIDE DEF p
    <2> QED
      BY <1>1, <1>2, EndStack
  <1>4. /\ handler' \in [Storages -> Pointers]
        /\ \A t \in Storages : handler'[t] = IF t = s THEN Null ELSE handler[t]
    BY DEF TypeOK, Pointers
  <1>5. TypeOK'
    BY <1>3, <1>4 DEF TypeOK
  <1>6. Known'
    BY <1>4 DEF Known
  <1>7. OnePlace'
    BY <1>1, <1>3, <1>4 DEF OnePlace, TypeOK
  <1>8. Owners'
    BY <1>3, <1>4, StorageAssumption DEF Owners
  <1>9. References'
    BY <1>3 DEF References
  <1> QED
    BY <1>3, <1>5, <1>6, <1>7, <1>8, <1>9

\* The handler moves to the queue of the io_service.
LEMMA PostInv ==
  ASSUME StorageInv, NEW s \in Storages, post(s) PROVE StorageInv'
  <1> USE DEF StorageInv, post, do_post
  <1> DEFINE p == handler[s]
  <1>1. Dying' = Dying /\ Ending' = Ending
    BY SameStack
  <1>2. p \in Handlers
    BY DEF TypeOK, Pointers
  <1>3. /\ handler' \in [Storages -> Pointers]
        /\ \A t \in Storages : handler'[t] = IF t = s THEN Null ELSE handler[t]
    BY DEF TypeOK, Pointers
  <1>4. TypeOK'
    BY <1>2, <1>3 DEF TypeOK
  <1>5. Known'
    BY <1>3 DEF Known
  <1>6. OnePlace'
    BY <1>1, <1>2, <1>3 DEF OnePlace, TypeOK
  <1>7. Owners'
    BY <1>1, <1>2, <1>3 DEF Owners
  <1>8. References'
    BY <1>1 DEF References
  <1> QED
    BY <1>4, <1>5, <1>6, <1>7, <1>8

\* What a handler refers to exists.
LEMMA ObtainInv ==
  ASSUME StorageInv, NEW h \in Handlers, NEW s \in Storages, Obtain(h, s)
  PROVE  StorageInv'
  <1> USE DEF StorageInv, Obtain
  <1>1. Dying' = Dying /\ Ending' = Ending
    BY SameStack
  <1>2. s \in live /\ s \notin Dying
    BY DEF Owners, References
  <1>3. TypeOK'
    BY <1>2 DEF TypeOK
  <1>4. OnePlace' /\ Owners' /\ Known'
    BY <1>1 DEF OnePlace, Owners, Known
  <1>5. References'
    BY <1>1, <1>2 DEF References
  <1> QED
    BY <1>3, <1>4, <1>5

\* A handler that was run is about to be destroyed.
LEMMA FinishInv ==
  ASSUME StorageInv, NEW h \in Handlers, Finish(h) PROVE StorageInv'
  <1> USE DEF StorageInv, Finish
  <1>1. Dying = {} /\ Ending = {} /\ h # Null /\ h \in Pointers
    BY IdleFacts, StorageAssumption DEF Pointers
  <1>2. /\ stack' \in Seq(Frames) /\ Distinct(stack')
        /\ Dying' = {} /\ Ending' = {h}
    <2>1. Destroy(h) \in Frames
      BY FrameFacts
    <2>2. stack' = End(h) \o stack
      BY <1>1, <2>1 DEF End, Idle
    <2> QED
      BY <1>1, <2>2, EndStack
  <1>3. TypeOK'
    BY <1>2 DEF TypeOK
  <1>4. Known'
    BY DEF Known
  <1>5. OnePlace'
    BY <1>1, <1>2 DEF OnePlace, TypeOK
  <1>6. Owners'
    BY <1>1, <1>2 DEF Owners
  <1>7. References'
    BY <1>1, <1>2 DEF References
  <1> QED
    BY <1>2, <1>3, <1>4, <1>5, <1>6, <1>7

\* What the stack is when the destructors of U have been put on q.
LEMMA DestructsStack ==
  ASSUME NEW U \in SUBSET Storages, NEW q \in Seq(Frames), Distinct(q),
         \A s \in U : Destruct(s) \notin ToSet(q),
         stack' = Destructs(U) \o q
  PROVE  /\ stack' \in Seq(Frames) /\ Distinct(stack')
         /\ Dying' = U \cup {s \in Storages : Destruct(s) \in ToSet(q)}
         /\ Ending' = {h \in Handlers : Destroy(h) \in ToSet(q)}
  <1> DEFINE d == Destructs(U)
  <1>1. /\ d \in Seq(Frames) /\ Distinct(d)
        /\ ToSet(d) = {Destruct(s) : s \in U}
    BY DestructsFacts
  <1> HIDE DEF d
  <1>2. ToSet(d) \cap ToSet(q) = {}
    BY <1>1
  <1>3. /\ d \o q \in Seq(Frames) /\ Distinct(d \o q)
        /\ ToSet(d \o q) = ToSet(d) \cup ToSet(q)
    BY <1>1, <1>2, ConcatDistinct
  <1>4. stack' = d \o q
    BY DEF d
  <1>5. Dying' = {s \in Storages : Destruct(s) \in ToSet(stack')}
    BY DEF Dying
  <1>6. Ending' = {h \in Handlers : Destroy(h) \in ToSet(stack')}
    BY DEF Ending
  <1>7. Dying' = U \cup {s \in Storages : Destruct(s) \in ToSet(q)}
    BY <1>1, <1>3, <1>4, <1>5, FrameFacts
  <1>8. Ending' = {h \in Handlers : Destroy(h) \in ToSet(q)}
    BY <1>1, <1>3, <1>4, <1>6, FrameFacts
  <1> QED
    BY <1>3, <1>4, <1>7, <1>8

\* A storage that only the user referred to is about to be destroyed.
LEMMA DropInv ==
  ASSUME StorageInv, NEW s \in Storages, Drop(s) PROVE StorageInv'
  <1> USE DEF StorageInv, Drop
  <1> DEFINE U == Unowned({s}, held', owns)
  <1>1. s \notin Dying /\ s \in live /\ stack \in Seq(Frames)
    BY DEF References, TypeOK
  <1>2. U \in SUBSET Storages /\ U = {t \in {s} : \A h \in Handlers : t \notin owns[h]}
    BY DEF Unowned
  <1>3. \A t \in U : Destruct(t) \notin ToSet(stack)
    BY <1>1, <1>2 DEF Dying
  <1>4. stack' = Destructs(U) \o stack
    OBVIOUS
  <1> HIDE DEF U
  <1>6. /\ stack' \in Seq(Frames) /\ Distinct(stack')
        /\ Dying' = U \cup Dying /\ Ending' = Ending
    <2>1. /\ stack' \in Seq(Frames) /\ Distinct(stack')
          /\ Dying' = U \cup {t \in Storages : Destruct(t) \in ToSet(stack)}
          /\ Ending' = {h \in Handlers : Destroy(h) \in ToSet(stack)}
      BY <1>1, <1>2, <1>3, <1>4, DestructsStack
    <2> QED
      BY <2>1 DEF Dying, Ending
  <1>7. TypeOK'
    BY <1>6 DEF TypeOK
  <1>8. Known'
    BY DEF Known
  <1>9. OnePlace' /\ Owners'
    BY <1>6 DEF OnePlace, Owners
  <1>10. References'
    BY <1>1, <1>2, <1>6 DEF References, TypeOK
  <1> QED
    BY <1>6, <1>7, <1>8, <1>9, <1>10

\* A handler lets go of its storages; those nobody else refers to are about to
\* be destroyed, and none of them was before.
LEMMA RunDestroyInv ==
  ASSUME StorageInv, RunDestroy PROVE StorageInv'
  <1> USE DEF StorageInv, RunDestroy, Inside, do_destroy
  <1> DEFINE f == Head(stack)
             h == f.handler
             q == Tail(stack)
             U == Unowned(owns[h], held, owns')
  <1>1. /\ q \in Seq(Frames) /\ f \in Frames /\ f \in ToSet(stack)
        /\ ToSet(q) = ToSet(stack) \ {f} /\ Distinct(q)
    BY TailDistinct DEF Idle, TypeOK
  <1>2. h \in Handlers /\ f = Destroy(h)
    BY <1>1, FrameFacts
  <1>3. h \in Ending
    BY <1>1, <1>2 DEF Ending
  <1>4. /\ owns' \in [Handlers -> SUBSET Storages]
        /\ \A k \in Handlers : owns'[k] = IF k = h THEN {} ELSE owns[k]
    BY <1>2 DEF TypeOK
  <1>5. /\ U \in SUBSET Storages
        /\ U = {t \in owns[h] : t \notin held /\ \A k \in Handlers : t \notin owns'[k]}
    BY <1>2 DEF Unowned, TypeOK
  <1>6. \A s \in U : s \notin Dying
    BY <1>2, <1>5 DEF References
  <1>7. \A s \in U : Destruct(s) \notin ToSet(q)
    BY <1>1, <1>5, <1>6 DEF Dying
  <1>8. stack' = Destructs(U) \o q
    OBVIOUS
  <1>9. /\ ended' \in [Handlers -> Nat]
        /\ \A k \in Handlers : ended'[k] = IF k = h THEN ended[h] + 1 ELSE ended[k]
    BY <1>2 DEF TypeOK
  <1>10. /\ stack' \in Seq(Frames) /\ Distinct(stack')
         /\ Dying' = U \cup {s \in Storages : Destruct(s) \in ToSet(q)}
         /\ Ending' = {k \in Handlers : Destroy(k) \in ToSet(q)}
    <2> HIDE DEF U, q
    <2> QED
      BY <1>1, <1>5, <1>7, <1>8, DestructsStack
  <1> HIDE DEF f, h, q, U
  <1>11. Dying' = U \cup Dying
    <2>1. Dying = {s \in Storages : Destruct(s) \in ToSet(stack)}
      BY DEF Dying
    <2>2. \A s \in Storages : Destruct(s) # f
      BY <1>2, FrameFacts
    <2> QED
      BY <1>1, <1>10, <2>1, <2>2
  <1>12. Ending' = Ending \ {h}
    <2>1. Ending = {k \in Handlers : Destroy(k) \in ToSet(stack)}
      BY DEF Ending
    <2>2. \A k \in Handlers : Destroy(k) = f <=> k = h
      BY <1>2, FrameFacts
    <2> QED
      BY <1>1, <1>10, <2>1, <2>2
  <1>13. TypeOK'
    BY <1>4, <1>9, <1>10 DEF TypeOK
  <1>14. Known'
    BY DEF Known
  <1>15. OnePlace'
    <2>1. ended[h] = 0 /\ h \notin posted /\ \A s \in Storages : handler[s] # h
      BY <1>2, <1>3, StorageAssumption DEF OnePlace
    <2>2. \A s \in Storages : handler[s] \in Pointers
      BY DEF TypeOK
    <2>3. \A s \in Storages : handler[s] # Null => handler[s] \in Handlers
      BY <2>2 DEF Pointers
    <2>4. posted \subseteq Handlers
      BY DEF TypeOK
    <2> QED
      BY <1>2, <1>9, <1>12, <2>1, <2>3, <2>4 DEF OnePlace
  <1>16. Owners'
    BY <1>2, <1>4, <1>9, <1>12 DEF Owners
  <1>17. References'
    <2>1. U \subseteq live
      BY <1>2, <1>5 DEF Owners
    <2>2. \A s \in Dying' : s \notin held /\ \A k \in Handlers : s \notin owns'[k]
      BY <1>4, <1>5, <1>11 DEF References
    <2>3. \A s \in live : s \in held \/ s \in Dying' \/ \E k \in Handlers : s \in owns'[k]
      <3> SUFFICES ASSUME NEW s \in live, s \notin held,
                          \A k \in Handlers : s \notin owns'[k]
                   PROVE  s \in Dying'
        OBVIOUS
      <3>1. s \in Dying \/ s \in owns[h]
        BY <1>2, <1>4 DEF References
      <3> QED
        BY <1>5, <1>11, <3>1
    <2> QED
      BY <1>11, <2>1, <2>2, <2>3 DEF References
  <1> QED
    BY <1>10, <1>13, <1>14, <1>15, <1>16, <1>17

\* A storage that is destroyed takes its handler with it; nobody refers to it.
LEMMA DestroyInv ==
  ASSUME StorageInv, destroy PROVE StorageInv'
  <1> USE DEF StorageInv, destroy
  <1> DEFINE f == Head(stack)
             s == f.storage
             q == Tail(stack)
             p == IF shutdown THEN Null ELSE handler[s]
  <1>1. /\ q \in Seq(Frames) /\ f \in Frames /\ f \in ToSet(stack)
        /\ ToSet(q) = ToSet(stack) \ {f} /\ Distinct(q)
    BY TailDistinct DEF Idle, TypeOK
  <1>2. s \in Storages /\ f = Destruct(s)
    BY <1>1, FrameFacts
  <1>3. s \in Dying
    BY <1>1, <1>2 DEF Dying
  <1>4. s \in live /\ s \notin held /\ \A h \in Handlers : s \notin owns[h]
    BY <1>3 DEF References
  <1>5. p \in Pointers /\ (shutdown => handler[s] = Null)
    BY <1>2 DEF TypeOK, Pointers, Known
  <1>6. stack' = End(p) \o q
    <2>1. CASE shutdown
      <3>1. End(p) = <<>> /\ stack' = q
        BY <2>1 DEF End
      <3>2. <<>> \o q = q
        BY <1>1
      <3> QED
        BY <3>1, <3>2
    <2>2. CASE ~shutdown
      BY <2>2
    <2> QED
      BY <2>1, <2>2
  <1>7. /\ handler' \in [Storages -> Pointers]
        /\ \A t \in Storages : handler'[t] = IF t = s THEN Null ELSE handler[t]
    <2>1. CASE shutdown
      BY <1>5, <2>1 DEF TypeOK
    <2>2. CASE ~shutdown
      BY <1>2, <2>2 DEF TypeOK, Pointers
    <2> QED
      BY <2>1, <2>2
  <1>8. /\ impl_list' \in Seq(Storages) /\ Distinct(impl_list')
        /\ ~shutdown => ToSet(impl_list') = live'
        /\ shutdown => impl_list' = <<>>
    <2>1. CASE shutdown
      BY <2>1 DEF TypeOK, Known
    <2>2. CASE ~shutdown
      <3>1. PICK i \in 1 .. Len(impl_list) :
              impl_list[i] = s /\ impl_list' = RemoveAt(impl_list, i)
        BY <2>2
      <3>2. impl_list \in Seq(Storages) /\ Distinct(impl_list) /\ ToSet(impl_list) = live
        BY <2>2 DEF TypeOK, Known
      <3>3. /\ impl_list' \in Seq(Storages) /\ Distinct(impl_list')
            /\ ToSet(impl_list') = ToSet(impl_list) \ {s}
        <4> HIDE DEF s
        <4> QED
          BY <3>1, <3>2, RemoveDistinct
      <3> QED
        BY <2>2, <3>2, <3>3
    <2> QED
      BY <2>1, <2>2
  <1>9. /\ live' = live \ {s} /\ shutdown' = shutdown
        /\ UNCHANGED <<held, owns, posted, ended>>
    OBVIOUS
  <1>10. p # Null => p \in Handlers /\ p = handler[s]
    BY <1>5 DEF Pointers
  <1>11. p # Null => p \notin Ending /\ p \notin posted /\ ended[p] = 0
    BY <1>2, <1>10 DEF OnePlace
  <1>12. /\ End(p) \in Seq(Frames) /\ Distinct(End(p))
         /\ ToSet(End(p)) = IF p = Null THEN {} ELSE {Destroy(p)}
    BY <1>5, EndFacts
  <1>13. ToSet(End(p)) \cap ToSet(q) = {}
    BY <1>1, <1>10, <1>11, <1>12 DEF Ending
  <1> HIDE DEF f, s, q, p
  <1>14. /\ stack' \in Seq(Frames) /\ Distinct(stack')
         /\ ToSet(stack') = ToSet(End(p)) \cup ToSet(q)
    BY <1>1, <1>6, <1>12, <1>13, ConcatDistinct
  <1>15. Dying' = Dying \ {s}
    <2>1. Dying' = {t \in Storages : Destruct(t) \in ToSet(stack')}
      BY DEF Dying
    <2>2. Dying = {t \in Storages : Destruct(t) \in ToSet(stack)}
      BY DEF Dying
    <2>3. \A t \in Storages : Destruct(t) \notin ToSet(End(p))
      BY <1>10, <1>12, FrameFacts
    <2>4. \A t \in Storages : Destruct(t) = f <=> t = s
      BY <1>2, FrameFacts
    <2> QED
      BY <1>1, <1>14, <2>1, <2>2, <2>3, <2>4
  <1>16. Ending' = Ending \cup (IF p = Null THEN {} ELSE {p})
    <2>1. Ending' = {h \in Handlers : Destroy(h) \in ToSet(stack')}
      BY DEF Ending
    <2>2. Ending = {h \in Handlers : Destroy(h) \in ToSet(stack)}
      BY DEF Ending
    <2>3. \A h \in Handlers : Destroy(h) # f
      BY <1>2, FrameFacts
    <2>4. \A h \in Handlers : Destroy(h) \in ToSet(End(p)) <=> h = p
      BY <1>10, <1>12, FrameFacts, StorageAssumption
    <2>5. \A h \in Handlers : h \in Ending' <=> h \in Ending \/ h = p
      BY <1>1, <1>14, <2>1, <2>2, <2>3, <2>4
    <2> QED
      BY <1>10, <2>1, <2>2, <2>5, StorageAssumption
  <1>17. TypeOK'
    BY <1>4, <1>7, <1>8, <1>9, <1>14 DEF TypeOK
  <1>18. Known'
    BY <1>7, <1>8, <1>9 DEF Known
  <1>19. OnePlace'
    <2>1. \A t \in Storages : handler'[t] # Null => t # s /\ handler'[t] = handler[t]
      BY <1>7
    <2>2. \A t \in Storages : t # s /\ handler[t] # Null => handler[t] # p
      BY <1>2, <1>10 DEF OnePlace
    <2> QED
      BY <1>9, <1>11, <1>16, <2>1, <2>2 DEF OnePlace
  <1>20. Owners'
    <2> SUFFICES ASSUME NEW h \in Handlers, owns[h] # {}
                 PROVE  /\ owns[h] \subseteq live \ {s} /\ ended[h] = 0
                        /\ \/ h \in posted \/ h \in Ending'
                           \/ \E t \in Storages : handler'[t] = h
      BY <1>9 DEF Owners
    <2>1. /\ owns[h] \subseteq live /\ ended[h] = 0
          /\ h \in posted \/ h \in Ending \/ \E t \in Storages : handler[t] = h
      BY DEF Owners
    <2>2. ASSUME NEW t \in Storages, handler[t] = h
          PROVE  h \in Ending' \/ \E u \in Storages : handler'[u] = h
      <3>1. CASE t # s
        BY <1>7, <2>2, <3>1
      <3>2. CASE t = s
        <4>1. h # Null
          BY StorageAssumption
        <4>2. p = h
          BY <1>5, <2>2, <3>2, <4>1 DEF p
        <4> QED
          BY <1>16, <4>1, <4>2
      <3> QED
        BY <3>1, <3>2
    <2> QED
      BY <1>4, <1>16, <2>1, <2>2
  <1>21. References'
    BY <1>9, <1>15 DEF References
  <1> QED
    BY <1>14, <1>17, <1>18, <1>19, <1>20, <1>21

\* The natural numbers are well-ordered.
LEMMA LeastIndex ==
  ASSUME NEW T \in SUBSET Nat, T # {}
  PROVE  \E x \in T : \A y \in T : x <= y
  <1> DEFINE R == OpToRel(<, Nat)
  <1>1. IsWellFoundedOn(R, Nat)
    BY NatLessThanWellFounded, Zenon
  <1>2. \A p \in Nat, q \in Nat : p < q => <<p, q>> \in R
    BY DEF OpToRel
  <1> HIDE DEF R
  <1>3. PICK x \in T : \A y \in T : ~(<<y, x>> \in R)
    BY <1>1, WFMin, Zenon
  <1>4. ASSUME NEW y \in T PROVE x <= y
    <2>1. ~(y < x)
      BY <1>2, <1>3
    <2> QED
      BY <2>1
  <1> QED
    BY <1>4

\* The loop of shutdown_service over n storages: a[i] is what it takes from the
\* i-th, and g[i] what it has after i of them.
Loop(g, a, n) ==
  g = [i \in 0 .. n |-> IF i = 0 THEN <<>> ELSE a[i] \o g[i - 1]]

\* The loop has a result, whatever its length.
LEMMA LoopExists ==
  ASSUME NEW a, NEW n \in Nat PROVE \E g : Loop(g, a, n)
  <1> DEFINE T == {k \in Nat : ~\E g : Loop(g, a, k)}
  <1> SUFFICES ASSUME T # {} PROVE FALSE
    OBVIOUS
  <1>1. PICK k \in T : \A y \in T : k <= y
    BY LeastIndex
  <1>2. CASE k = 0
    <2> DEFINE g == [i \in 0 .. 0 |-> <<>>]
    <2>1. Loop(g, a, 0)
      BY DEF Loop
    <2> QED
      BY <1>1, <1>2, <2>1
  <1>3. CASE k # 0
    <2>1. k - 1 \in Nat /\ k - 1 \notin T
      BY <1>1, <1>3
    <2>2. PICK g : Loop(g, a, k - 1)
      BY <2>1
    <2> DEFINE e == [i \in 0 .. k |-> IF i = k THEN a[k] \o g[k - 1] ELSE g[i]]
    <2>3. \A i \in 0 .. k - 1 : g[i] = IF i = 0 THEN <<>> ELSE a[i] \o g[i - 1]
      BY <2>2 DEF Loop
    <2>4. \A i \in 0 .. k : e[i] = IF i = 0 THEN <<>> ELSE a[i] \o e[i - 1]
      BY <1>1, <1>3, <2>3
    <2>5. Loop(e, a, k)
      BY <2>4 DEF Loop
    <2> QED
      BY <1>1, <2>5
  <1> QED
    BY <1>2, <1>3

\* The handlers in the first k storages of list, in frames.
TakenFrom(hd, list, k) ==
  {Destroy(hd[list[i]]) : i \in {j \in 1 .. k : hd[list[j]] # Null}}

Collects(r, hd, list, k) ==
  r \in Seq(Frames) /\ Distinct(r) /\ ToSet(r) = TakenFrom(hd, list, k)

\* After n storages the loop has the handlers of those, each once.
LEMMA LoopTakes ==
  ASSUME NEW list \in Seq(Storages), Distinct(list),
         NEW hd \in [Storages -> Pointers],
         \A s, t \in Storages : hd[s] # Null /\ hd[s] = hd[t] => s = t,
         NEW a, \A i \in 1 .. Len(list) : a[i] = End(hd[list[i]]),
         NEW g, Loop(g, a, Len(list)),
         NEW n \in 0 .. Len(list)
  PROVE  Collects(g[n], hd, list, n)
  <1> DEFINE T == {k \in Nat : k <= Len(list) /\ ~Collects(g[k], hd, list, k)}
  <1>5. n \in Nat /\ n <= Len(list)
    OBVIOUS
  <1> SUFFICES ASSUME T # {} PROVE FALSE
    BY <1>5, Zenon
  <1>1. PICK k \in Nat : /\ k <= Len(list) /\ ~Collects(g[k], hd, list, k)
                         /\ \A y \in Nat : y < k => Collects(g[y], hd, list, y)
    <2>1. PICK k \in T : \A y \in T : k <= y
      BY LeastIndex
    <2> QED
      BY <2>1
  <1> HIDE DEF T
  <1>2. \A i \in 0 .. Len(list) :
          g[i] = IF i = 0 THEN <<>> ELSE a[i] \o g[i - 1]
    BY DEF Loop
  <1>3. CASE k = 0
    <2>1. g[0] = <<>>
      BY <1>1, <1>2, <1>3
    <2>2. TakenFrom(hd, list, 0) = {}
      BY DEF TakenFrom
    <2>3. Collects(g[0], hd, list, 0)
      <3>1. <<>> \in Seq(Frames) /\ Distinct(<<>>) /\ ToSet(<<>>) = {}
        BY EmptyFacts
      <3> QED
        BY <2>1, <2>2, <3>1, Zenon DEF Collects
    <2> QED
      BY <1>1, <1>3, <2>3
  <1>4. CASE k # 0
    <2> DEFINE s == list[k]
               p == hd[s]
    <2>1. k \in 1 .. Len(list) /\ k - 1 \in 0 .. Len(list) /\ s \in Storages
      BY <1>1, <1>4
    <2>2. Collects(g[k - 1], hd, list, k - 1)
      BY <1>1, <2>1
    <2>3. p \in Pointers /\ g[k] = End(p) \o g[k - 1]
      <3>1. k \in 0 .. Len(list)
        BY <2>1
      <3>2. g[k] = a[k] \o g[k - 1] /\ a[k] = End(p)
        BY <1>2, <1>4, <2>1, <3>1, Zenon
      <3> QED
        BY <2>1, <3>2
    <2>4. /\ End(p) \in Seq(Frames) /\ Distinct(End(p))
          /\ ToSet(End(p)) = IF p = Null THEN {} ELSE {Destroy(p)}
          /\ p # Null => p \in Handlers
      BY <2>3, EndFacts
    <2>5. \A j \in 1 .. k - 1 : list[j] \in Storages /\ list[j] # s
      BY <2>1 DEF Distinct
    <2>6. \A j \in 1 .. k - 1 : hd[list[j]] # Null =>
            hd[list[j]] \in Handlers /\ hd[list[j]] # p
      BY <2>1, <2>5 DEF Pointers
    <2> HIDE DEF p
    <2>7. p # Null => Destroy(p) \notin TakenFrom(hd, list, k - 1)
      BY <2>4, <2>6, FrameFacts DEF TakenFrom
    <2>8. ToSet(End(p)) \cap ToSet(g[k - 1]) = {}
      BY <2>2, <2>4, <2>7 DEF Collects
    <2>9. /\ g[k] \in Seq(Frames) /\ Distinct(g[k])
          /\ ToSet(g[k]) = ToSet(End(p)) \cup TakenFrom(hd, list, k - 1)
      BY <2>2, <2>3, <2>4, <2>8, ConcatDistinct DEF Collects
    <2>10. \A i \in 1 .. k : i \in 1 .. k - 1 \/ i = k
      BY <2>1
    <2>11. \A i \in 1 .. k - 1 : i \in 1 .. k
      BY <2>1
    <2>12. TakenFrom(hd, list, k) = ToSet(End(p)) \cup TakenFrom(hd, list, k - 1)
      <3>1. CASE p = Null
        BY <2>1, <2>4, <2>10, <2>11, <3>1 DEF TakenFrom, p
      <3>2. CASE p # Null
        BY <2>1, <2>4, <2>10, <2>11, <3>2 DEF TakenFrom, p
      <3> QED
        BY <3>1, <3>2
    <2> QED
      BY <1>1, <2>9, <2>12 DEF Collects
  <1> QED
    BY <1>3, <1>4

\* The shutdown takes the handlers of all storages, since it knows all.
LEMMA ShutdownInv ==
  ASSUME StorageInv, shutdown_service PROVE StorageInv'
  <1> USE DEF StorageInv
  <1> DEFINE n == Len(impl_list)
             a == [i \in 1 .. n |-> End(handler[impl_list[i]])]
             g == CHOOSE x : x = [i \in 0 .. n |->
                    IF i = 0 THEN <<>> ELSE End(handler[impl_list[i]]) \o x[i - 1]]
  <1>1. /\ Idle /\ ~shutdown /\ shutdown' = TRUE /\ impl_list' = <<>>
        /\ handler' = [s \in Storages |->
                         IF s \in ToSet(impl_list) THEN Null ELSE handler[s]]
        /\ UNCHANGED <<live, held, owns, posted, ended>>
    BY DEF shutdown_service
  <1>2. stack' = g[n]
    BY DEF shutdown_service
  <1>3. impl_list \in Seq(Storages) /\ Distinct(impl_list) /\ ToSet(impl_list) = live
    BY <1>1 DEF TypeOK, Known
  <1>4. n \in Nat /\ \A i \in 1 .. n : impl_list[i] \in Storages
    BY <1>3
  <1>5. PICK x : Loop(x, a, n)
    <2> HIDE DEF a, n
    <2> QED
      BY <1>4, LoopExists
  <1>6. x = [i \in 0 .. n |->
               IF i = 0 THEN <<>> ELSE End(handler[impl_list[i]]) \o x[i - 1]]
    <2>1. \A i \in 0 .. n : i # 0 => a[i] = End(handler[impl_list[i]])
      BY <1>4
    <2> HIDE DEF a
    <2> QED
      BY <1>5, <2>1 DEF Loop
  <1>7. g = [i \in 0 .. n |->
               IF i = 0 THEN <<>> ELSE End(handler[impl_list[i]]) \o g[i - 1]]
    BY <1>6
  <1>8. Loop(g, a, n)
    <2>1. \A i \in 0 .. n : i # 0 => a[i] = End(handler[impl_list[i]])
      BY <1>4
    <2> HIDE DEF a, g
    <2> QED
      BY <1>7, <2>1 DEF Loop
  <1>9. \A i \in 1 .. n : a[i] = End(handler[impl_list[i]])
    OBVIOUS
  <1> HIDE DEF a, g
  <1>10. /\ stack' \in Seq(Frames) /\ Distinct(stack')
         /\ ToSet(stack') = TakenFrom(handler, impl_list, n)
    <2>1. /\ handler \in [Storages -> Pointers]
          /\ \A s, t \in Storages : handler[s] # Null /\ handler[s] = handler[t] => s = t
      BY DEF TypeOK, OnePlace
    <2>2. n \in 0 .. Len(impl_list)
      BY <1>4
    <2> QED
      BY <1>2, <1>3, <1>8, <1>9, <2>1, <2>2, LoopTakes DEF Collects
  <1>11. \A s \in live : \E i \in 1 .. n : impl_list[i] = s
    BY <1>3, Elements
  <1>12. \A i \in 1 .. n : impl_list[i] \in live
    BY <1>3, Elements
  <1> HIDE DEF n
  <1>13. \A s \in Storages : handler[s] # Null => handler[s] \in Handlers /\ s \in live
    BY DEF TypeOK, Pointers, OnePlace
  <1>14. Dying = {} /\ Ending = {}
    BY <1>1, IdleFacts
  <1>15. Dying' = {}
    <2>1. Dying' = {s \in Storages : Destruct(s) \in ToSet(stack')}
      BY DEF Dying
    <2> QED
      BY <1>4, <1>10, <1>13, <2>1, FrameFacts DEF TakenFrom
  <1>16. \A h \in Handlers : h \in Ending' <=> \E s \in Storages : handler[s] = h
    <2>1. Ending' = {h \in Handlers : Destroy(h) \in ToSet(stack')}
      BY DEF Ending
    <2>2. ASSUME NEW h \in Handlers, h \in Ending'
          PROVE  \E s \in Storages : handler[s] = h
      <3>1. PICK i \in 1 .. n : handler[impl_list[i]] # Null
                                /\ Destroy(h) = Destroy(handler[impl_list[i]])
        BY <1>10, <2>1, <2>2 DEF TakenFrom
      <3> QED
        BY <1>4, <1>13, <3>1, FrameFacts
    <2>3. ASSUME NEW h \in Handlers, NEW s \in Storages, handler[s] = h
          PROVE  h \in Ending'
      <3>1. h # Null /\ s \in live
        BY <1>13, <2>3, StorageAssumption
      <3>2. PICK i \in 1 .. n : impl_list[i] = s
        BY <1>11, <3>1
      <3>3. Destroy(h) \in TakenFrom(handler, impl_list, n)
        BY <2>3, <3>1, <3>2 DEF TakenFrom
      <3> QED
        BY <1>10, <2>1, <3>3
    <2> QED
      BY <2>2, <2>3
  <1>17. handler' \in [Storages -> Pointers] /\ \A s \in Storages : handler'[s] = Null
    BY <1>1, <1>3, <1>13 DEF Pointers
  <1>18. TypeOK'
    BY <1>1, <1>10, <1>17 DEF TypeOK
  <1>19. Known'
    BY <1>1, <1>17, EmptyFacts DEF Known
  <1>20. OnePlace'
    <2>1. Ending' \subseteq Handlers
      BY DEF Ending
    <2>2. posted \subseteq Handlers
      BY DEF TypeOK
    <2>3. \A h \in Ending' : ended[h] = 0 /\ h \notin posted
      BY <1>16, <2>1, StorageAssumption DEF OnePlace
    <2> QED
      BY <1>1, <1>17, <2>2, <2>3 DEF OnePlace
  <1>21. Owners'
    BY <1>1, <1>14, <1>16 DEF Owners
  <1>22. References'
    BY <1>1, <1>14, <1>15 DEF References
  <1> QED
    BY <1>10, <1>18, <1>19, <1>20, <1>21, <1>22

-----------------------------------------------------------------------------
(***************************************************************************)
(* The theorems.                                                             *)
(***************************************************************************)
\* Every step keeps the invariant.
LEMMA NextInv == StorageInv /\ [Next]_vars => StorageInv'
  <1> SUFFICES ASSUME StorageInv, [Next]_vars PROVE StorageInv'
    OBVIOUS
  <1>1. CASE UNCHANGED vars
    <2>1. Dying' = Dying /\ Ending' = Ending
      BY <1>1, SameStack DEF vars
    <2> QED
      BY <1>1, <2>1 DEF vars, StorageInv, TypeOK, OnePlace, Owners, References, Known
  <1>2. ASSUME NEW s \in Storages, construct(s) \/ clear(s) \/ post(s) \/ Drop(s)
        PROVE  StorageInv'
    BY <1>2, ConstructInv, ClearInv, PostInv, DropInv
  <1>3. ASSUME NEW s \in Storages, NEW other \in Storages, move_construct(s, other)
        PROVE  StorageInv'
    BY <1>3, MoveConstructInv
  <1>4. ASSUME NEW s \in Storages, NEW h \in Handlers, NEW S \in SUBSET Referred,
               store(s, h, S)
        PROVE  StorageInv'
    BY <1>4, StoreInv
  <1>5. ASSUME NEW h \in Handlers, Finish(h) \/ \E s \in Storages : Obtain(h, s)
        PROVE  StorageInv'
    BY <1>5, FinishInv, ObtainInv
  <1>6. CASE shutdown_service
    BY <1>6, ShutdownInv
  <1>7. CASE RunDestroy
    BY <1>7, RunDestroyInv
  <1>8. CASE destroy
    BY <1>8, DestroyInv
  <1> QED
    BY <1>1, <1>2, <1>3, <1>4, <1>5, <1>6, <1>7, <1>8 DEF Next

(***************************************************************************)
(* The invariant holds in every reachable state, for every finite set of    *)
(* storages and every set of handlers.                                      *)
(***************************************************************************)
THEOREM StorageInvariance == Spec => []StorageInv
  BY InitInv, NextInv, PTL DEF Spec

\* How often a handler is on a stack that has nothing twice.
LEMMA DoomedOnce ==
  ASSUME StorageInv, NEW h \in Handlers
  PROVE  Doomed(h) = IF h \in Ending THEN 1 ELSE 0
  <1> DEFINE D == {i \in DOMAIN stack : stack[i] = Destroy(h)}
  <1>1. stack \in Seq(Frames) /\ Distinct(stack) /\ DOMAIN stack = 1 .. Len(stack)
    BY DEF StorageInv, TypeOK
  <1>2. h \in Ending <=> \E i \in DOMAIN stack : stack[i] = Destroy(h)
    BY <1>1, Elements DEF Ending
  <1>3. CASE h \in Ending
    <2>1. PICK i \in DOMAIN stack : stack[i] = Destroy(h)
      BY <1>2, <1>3
    <2>2. D = {i}
      BY <1>1, <2>1 DEF Distinct
    <2> QED
      BY <1>3, <2>2, FS_Singleton DEF Doomed
  <1>4. CASE h \notin Ending
    <2>1. D = {}
      BY <1>2, <1>4
    <2> QED
      BY <1>4, <2>1, FS_EmptySet DEF Doomed
  <1> QED
    BY <1>3, <1>4

\* In how many storages a handler is.
LEMMA StoredOnce ==
  ASSUME StorageInv, NEW h \in Handlers
  PROVE  Cardinality({s \in Storages : handler[s] = h})
           = IF \E s \in Storages : handler[s] = h THEN 1 ELSE 0
  <1> DEFINE D == {s \in Storages : handler[s] = h}
  <1>1. CASE \E s \in Storages : handler[s] = h
    <2>1. PICK s \in Storages : handler[s] = h
      BY <1>1
    <2>2. D = {s}
      BY <2>1, StorageAssumption DEF StorageInv, OnePlace
    <2> QED
      BY <1>1, <2>2, FS_Singleton
  <1>2. CASE ~\E s \in Storages : handler[s] = h
    <2>1. D = {}
      BY <1>2
    <2> QED
      BY <1>2, <2>1, FS_EmptySet
  <1> QED
    BY <1>1, <1>2

\* From places without repetition to the numbers of HandlerAccounted.
LEMMA InvImpliesAccounted == StorageInv => HandlerAccounted
  <1> SUFFICES ASSUME StorageInv PROVE HandlerAccounted
    OBVIOUS
  <1> USE DEF StorageInv
  <1>1. ASSUME NEW h \in Handlers
        PROVE  Cardinality({s \in Storages : handler[s] = h}) + Flag(h \in posted)
                 + Doomed(h) + ended[h] <= 1
    <2> DEFINE c == Cardinality({s \in Storages : handler[s] = h})
               p == Flag(h \in posted)
               d == Doomed(h)
    <2>1. c = IF \E s \in Storages : handler[s] = h THEN 1 ELSE 0
      BY StoredOnce
    <2>2. d = IF h \in Ending THEN 1 ELSE 0
      BY DoomedOnce
    <2>3. p = IF h \in posted THEN 1 ELSE 0
      BY DEF Flag
    <2>4. h # Null /\ ended[h] \in {0, 1}
      BY StorageAssumption DEF OnePlace
    <2> HIDE DEF c, p, d
    <2>5. CASE \E s \in Storages : handler[s] = h
      <3>1. h \notin posted /\ h \notin Ending /\ ended[h] = 0
        BY <2>4, <2>5 DEF OnePlace
      <3> QED
        BY <2>1, <2>2, <2>3, <3>1 DEF c, p, d
    <2>6. CASE ~\E s \in Storages : handler[s] = h
      <3>1. CASE h \in posted
        <4>1. h \notin Ending /\ ended[h] = 0
          BY <3>1 DEF OnePlace
        <4> QED
          BY <2>1, <2>2, <2>3, <2>6, <4>1 DEF c, p, d
      <3>2. CASE h \notin posted
        <4>1. h \in Ending => ended[h] = 0
          BY DEF OnePlace
        <4> QED
          BY <2>1, <2>2, <2>3, <2>4, <2>6, <3>2, <4>1 DEF c, p, d
      <3> QED
        BY <3>1, <3>2
    <2> QED
      BY <2>5, <2>6
  <1>2. ASSUME NEW h \in Handlers, owns[h] # {}
        PROVE  /\ owns[h] \subseteq live /\ ended[h] = 0
               /\ h \in posted \/ Doomed(h) = 1 \/ \E s \in live : handler[s] = h
    <2>1. h \in Ending => Doomed(h) = 1
      BY DoomedOnce
    <2>2. \A s \in Storages : handler[s] = h => s \in live
      BY StorageAssumption DEF OnePlace
    <2> QED
      BY <1>2, <2>1, <2>2 DEF Owners
  <1>3. \A s \in Storages \ live : handler[s] = Null
    BY DEF OnePlace
  <1>4. ASSUME NEW i \in DOMAIN stack, NEW j \in DOMAIN stack,
               stack[i].call = "destruct", stack[i] = stack[j]
        PROVE  i = j /\ stack[i].storage \in live
    <2>1. stack \in Seq(Frames) /\ DOMAIN stack = 1 .. Len(stack)
      BY DEF TypeOK
    <2>2. i = j
      BY <1>4, <2>1 DEF Distinct
    <2>3. stack[i] \in Frames /\ stack[i] \in ToSet(stack)
      BY <2>1, Elements
    <2>4. stack[i].storage \in Dying
      BY <1>4, <2>3, FrameFacts DEF Dying
    <2> QED
      BY <2>2, <2>4 DEF References
  <1> QED
    BY <1>1, <1>2, <1>3, <1>4 DEF HandlerAccounted

(***************************************************************************)
(* However destructors nest, every handler is in one storage, in the queue   *)
(* of the io_service, about to be destroyed or destroyed, and never twice;   *)
(* no storage is destroyed twice or under a handler that refers to it.       *)
(***************************************************************************)
THEOREM HandlersAccounted == Spec => []HandlerAccounted
  BY StorageInvariance, InvImpliesAccounted, PTL

\* With nothing on the stack, what is alive is what is referred to.
LEMMA InvImpliesCleanUp == StorageInv => CleanUp
  <1> SUFFICES ASSUME StorageInv PROVE CleanUp
    OBVIOUS
  <1> USE DEF StorageInv
  <1>1. ASSUME ~shutdown
        PROVE  ToSet(impl_list) = live /\ Len(impl_list) = Cardinality(live)
    BY <1>1, DistinctLength DEF Known, TypeOK
  <1>2. shutdown => impl_list = <<>> /\ \A s \in Storages : handler[s] = Null
    BY DEF Known
  <1>3. ASSUME shutdown, Idle
        PROVE  live = held \cup UNION {owns[h] : h \in posted}
    <2>1. Dying = {} /\ Ending = {}
      BY <1>3, IdleFacts
    <2>2. \A h \in Handlers : owns[h] # {} => h \in posted
      BY <1>2, <1>3, <2>1, StorageAssumption DEF Owners
    <2>3. posted \subseteq Handlers /\ held \subseteq live
      BY DEF TypeOK
    <2>4. \A s \in live : s \in held \/ \E h \in posted : s \in owns[h]
      BY <2>1, <2>2 DEF References
    <2>5. \A h \in posted : owns[h] \subseteq live
      BY <2>3 DEF Owners
    <2> QED
      BY <2>3, <2>4, <2>5
  <1> QED
    BY <1>1, <1>2, <1>3 DEF CleanUp

(***************************************************************************)
(* The service knows every storage until its shutdown; after it no storage   *)
(* holds a handler and none lives that neither the user nor a posted handler *)
(* refers to, whatever cycles the handlers had formed.                       *)
(***************************************************************************)
THEOREM CleanUpComplete == Spec => []CleanUp
  BY StorageInvariance, InvImpliesCleanUp, PTL

=============================================================================

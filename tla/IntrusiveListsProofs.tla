------------------------ MODULE IntrusiveListsProofs ------------------------
(***************************************************************************)
(* Proofs about the three list classes, for every number of lists and       *)
(* values: the links are those of the sequences, a list keeps exactly its    *)
(* values alive, and letting one go never destroys two.                      *)
(*                                                                           *)
(* What LinksMatch leaves unsaid, and the proof rests on, is that no value   *)
(* is in two places: the hooks are shared, so an operation that links or     *)
(* unlinks a value must be seen to leave the strands of the others alone.    *)
(*                                                                           *)
(* Second part: the services that keep their waiters and subscribers in      *)
(* such lists, ConsoleSignal.                                                *)
(***************************************************************************)
EXTENDS IntrusiveLists, ConsoleSignal, FiniteSetTheorems, SequenceTheorems,
        WellFoundedInduction, TLAPS

-----------------------------------------------------------------------------
(***************************************************************************)
(* Strands: what the links of one list are.                                 *)
(***************************************************************************)

\* The i-th value of the sequence s, null beyond its ends.
Nth(s, i) == IF i \in 1 .. Len(s) THEN s[i] ELSE Null

\* No value is twice in s.
Injective(s) == \A i, j \in 1 .. Len(s) : s[i] = s[j] => i = j

\* From f on, nx leads through s and pv leads back; with first = FALSE the way
\* back ends at the first value, whatever its pv is.
Strand(s, f, nx, pv, first) ==
  /\ f = Nth(s, 1)
  /\ \A i \in 1 .. Len(s) :
       /\ nx[s[i]] = Nth(s, i + 1)
       /\ i > 1 \/ first => pv[s[i]] = Nth(s, i - 1)

Hooks == [Values -> Pointers]

\* A strand is the concern of the hooks of its values only.
LEMMA StrandKept ==
  ASSUME NEW s, NEW f, NEW nx, NEW pv, NEW ny, NEW py, NEW first,
         Strand(s, f, nx, pv, first),
         \A i \in 1 .. Len(s) : ny[s[i]] = nx[s[i]] /\ py[s[i]] = pv[s[i]]
  PROVE  Strand(s, f, ny, py, first)
  BY DEF Strand

\* The sequence t is s with v before it.
Pushed(t, v, s) ==
  /\ t \in Seq(Values) /\ Len(t) = Len(s) + 1 /\ t[1] = v
  /\ \A i \in 1 .. Len(s) : t[i + 1] = s[i]

\* The sequence t is s without its p-th value.
Without(t, s, p) ==
  /\ t \in Seq(Values) /\ Len(t) = Len(s) - 1
  /\ \A i \in 1 .. Len(t) : t[i] = IF i < p THEN s[i] ELSE s[i + 1]

\* The sequence t is s followed by r.
Joined(t, s, r) ==
  /\ t \in Seq(Values) /\ Len(t) = Len(s) + Len(r)
  /\ \A i \in 1 .. Len(t) : t[i] = IF i <= Len(s) THEN s[i] ELSE r[i - Len(s)]

\* Concatenation joins.
LEMMA ConcatJoins ==
  ASSUME NEW s \in Seq(Values), NEW r \in Seq(Values)
  PROVE  Joined(s \o r, s, r)
  BY DEF Joined

\* A single value before a sequence.
LEMMA PushFrontPushes ==
  ASSUME NEW s \in Seq(Values), NEW v \in Values
  PROVE  Pushed(<<v>> \o s, v, s)
  BY DEF Pushed

\* A single value after a sequence.
LEMMA PushBackJoins ==
  ASSUME NEW s \in Seq(Values), NEW v \in Values
  PROVE  Joined(Append(s, v), s, <<v>>)
  BY DEF Joined

\* The first value taken off.
LEMMA TailIsWithout ==
  ASSUME NEW s \in Seq(Values), Len(s) > 0
  PROVE  Without(Tail(s), s, 1)
  BY DEF Without

\* The last value taken off.
LEMMA FrontIsWithout ==
  ASSUME NEW s \in Seq(Values), Len(s) > 0
  PROVE  Without(Front(s), s, Len(s))
  <1> DEFINE t == SubSeq(s, 1, Len(s) - 1)
  <1>1. /\ t \in Seq(Values) /\ Len(t) = Len(s) - 1
        /\ \A i \in 1 .. Len(s) - 1 : t[i] = s[i]
    <2> DEFINE n == Len(s) - 1
    <2>1. n \in Nat /\ Len(s) = n + 1 /\ \A i \in 1 .. n : s[i] \in Values
      OBVIOUS
    <2>2. t = SubSeq(s, 1, n)
      OBVIOUS
    <2> HIDE DEF n, t
    <2>3. /\ SubSeq(s, 1, n) \in Seq(Values)
          /\ Len(SubSeq(s, 1, n)) = IF 1 <= n THEN n - 1 + 1 ELSE 0
          /\ \A i \in 1 .. n - 1 + 1 : SubSeq(s, 1, n)[i] = s[1 + i - 1]
      BY <2>1, SubSeqProperties
    <2> QED
      BY <2>1, <2>2, <2>3
  <1>2. Front(s) = t
    BY DEF Front
  <1> HIDE DEF t
  <1> QED
    BY <1>1, <1>2 DEF Without

\* A value taken out.
LEMMA RemoveAtIsWithout ==
  ASSUME NEW s \in Seq(Values), NEW p \in 1 .. Len(s)
  PROVE  Without(RemoveAt(s, p), s, p)
  <1> DEFINE a == SubSeq(s, 1, p - 1)
             b == SubSeq(s, p + 1, Len(s))
  <1>1. a \in Seq(Values) /\ Len(a) = p - 1 /\ \A i \in 1 .. p - 1 : a[i] = s[i]
    BY SubSeqProperties
  <1>2. /\ b \in Seq(Values) /\ Len(b) = Len(s) - p
        /\ \A i \in 1 .. Len(s) - p : b[i] = s[p + i]
    BY SubSeqProperties
  <1>3. RemoveAt(s, p) = a \o b
    BY DEF RemoveAt
  <1> HIDE DEF a, b
  <1>4. Joined(a \o b, a, b)
    BY <1>1, <1>2, ConcatJoins
  <1>5. Len(a \o b) = Len(s) - 1 /\ a \o b \in Seq(Values)
    BY <1>1, <1>2, <1>4 DEF Joined
  <1>6. ASSUME NEW i \in 1 .. Len(s) - 1
        PROVE  (a \o b)[i] = IF i < p THEN s[i] ELSE s[i + 1]
    <2>1. (a \o b)[i] = IF i <= Len(a) THEN a[i] ELSE b[i - Len(a)]
      BY <1>4, <1>5 DEF Joined
    <2>2. CASE i < p
      BY <2>1, <2>2, <1>1
    <2>3. CASE ~(i < p)
      <3>1. i - Len(a) \in 1 .. Len(s) - p /\ p + (i - Len(a)) = i + 1
        BY <1>1, <2>3
      <3>2. (a \o b)[i] = b[i - Len(a)]
        BY <2>1, <2>3, <1>1
      <3> QED
        BY <3>1, <3>2, <1>2, <2>3
    <2> QED
      BY <2>2, <2>3
  <1> QED
    BY <1>3, <1>5, <1>6 DEF Without

\* The hooks ny and py are nx and pv with v pushed before f.
Hooked(ny, py, nx, pv, v, f) ==
  /\ ny \in Hooks /\ py \in Hooks
  /\ \A w \in Values : ny[w] = IF w = v THEN f ELSE nx[w]
  /\ \A w \in Values : py[w] = IF w = f THEN v ELSE pv[w]

\* The hooks ny and py are nx and pv with v taken out.
Unhooked(ny, py, nx, pv, v) ==
  /\ ny \in Hooks /\ py \in Hooks
  /\ \A w \in Values :
       ny[w] = IF w = v THEN Null ELSE IF w = pv[v] THEN nx[v] ELSE nx[w]
  /\ \A w \in Values :
       py[w] = IF w = v THEN Null ELSE IF w = nx[v] THEN pv[v] ELSE pv[w]

\* The hooks ny and py are nx and pv with b and f made neighbours.
Tied(ny, py, nx, pv, b, f) ==
  /\ ny \in Hooks /\ py \in Hooks
  /\ \A w \in Values : ny[w] = IF w = b THEN f ELSE nx[w]
  /\ \A w \in Values : py[w] = IF w = f THEN b ELSE pv[w]

\* The assignments of push_front.
LEMMA PushHooks ==
  ASSUME NEW nx \in Hooks, NEW pv \in Hooks, NEW v \in Values, NEW f \in Pointers
  PROVE  Hooked([nx EXCEPT ![v] = f], Assign(pv, f, v), nx, pv, v, f)
  BY ListAssumption DEF Hooked, Hooks, Pointers, Assign

\* The assignments of erase.
LEMMA EraseHooks ==
  ASSUME NEW nx \in Hooks, NEW pv \in Hooks, NEW v \in Values
  PROVE  Unhooked([Assign(nx, pv[v], nx[v]) EXCEPT ![v] = Null],
                  [Assign(pv, nx[v], pv[v]) EXCEPT ![v] = Null], nx, pv, v)
  <1>1. pv[v] \in Pointers /\ nx[v] \in Pointers
    BY DEF Hooks
  <1>2. /\ Assign(nx, pv[v], nx[v]) \in Hooks
        /\ \A w \in Values : Assign(nx, pv[v], nx[v])[w]
                             = IF w = pv[v] THEN nx[v] ELSE nx[w]
    BY <1>1, ListAssumption DEF Hooks, Pointers, Assign
  <1>3. /\ Assign(pv, nx[v], pv[v]) \in Hooks
        /\ \A w \in Values : Assign(pv, nx[v], pv[v])[w]
                             = IF w = nx[v] THEN pv[v] ELSE pv[w]
    BY <1>1, ListAssumption DEF Hooks, Pointers, Assign
  <1> QED
    BY <1>1, <1>2, <1>3 DEF Unhooked, Hooks, Pointers

\* A pushed value begins the strand.
LEMMA StrandPush ==
  ASSUME NEW s \in Seq(Values), NEW t, NEW v \in Values, Pushed(t, v, s),
         Injective(s), \A i \in 1 .. Len(s) : s[i] # v,
         NEW f, NEW nx, NEW pv, NEW ny, NEW py, Hooked(ny, py, nx, pv, v, f),
         Strand(s, f, nx, pv, TRUE), pv[v] = Null
  PROVE  Strand(t, v, ny, py, TRUE)
  <1>1. f = Nth(s, 1)
    BY DEF Strand
  <1>2. v # f
    BY <1>1, ListAssumption DEF Nth
  <1>3. ASSUME NEW i \in 1 .. Len(t)
        PROVE  ny[t[i]] = Nth(t, i + 1) /\ py[t[i]] = Nth(t, i - 1)
    <2>1. CASE i = 1
      <3>1. ny[v] = f /\ py[v] = Null
        BY <1>2 DEF Hooked
      <3>2. Nth(t, 2) = f
        BY <1>1 DEF Nth, Pushed
      <3> QED
        BY <2>1, <3>1, <3>2 DEF Pushed, Nth
    <2>2. CASE i > 1
      <3> DEFINE j == i - 1
      <3>1. j \in 1 .. Len(s) /\ t[i] = s[j] /\ s[j] \in Values /\ s[j] # v
        BY <2>2 DEF Pushed
      <3>2. nx[s[j]] = Nth(s, j + 1) /\ pv[s[j]] = Nth(s, j - 1)
        BY <3>1 DEF Strand
      <3>3. ny[t[i]] = Nth(s, j + 1)
        BY <3>1, <3>2 DEF Hooked
      <3>4. Nth(s, j + 1) = Nth(t, i + 1)
        BY <3>1, <2>2 DEF Nth, Pushed
      <3>5. CASE j = 1
        <4>1. s[j] = f /\ py[t[i]] = v
          BY <1>1, <3>1, <3>5 DEF Nth, Hooked
        <4> QED
          BY <3>3, <3>4, <3>5, <4>1 DEF Nth, Pushed
      <3>6. CASE j > 1
        <4>1. s[j] # f
          BY <1>1, <3>1, <3>6, ListAssumption DEF Nth, Injective
        <4>2. py[t[i]] = Nth(s, j - 1)
          BY <3>1, <3>2, <4>1 DEF Hooked
        <4>3. Nth(s, j - 1) = Nth(t, i - 1)
          BY <3>1, <3>6, <2>2 DEF Nth, Pushed
        <4> QED
          BY <3>3, <3>4, <4>2, <4>3
      <3> QED
        BY <3>1, <3>5, <3>6
    <2> QED
      BY <2>1, <2>2 DEF Pushed
  <1>4. v = Nth(t, 1)
    BY DEF Nth, Pushed
  <1> QED
    BY <1>3, <1>4 DEF Strand

\* A value taken out: its neighbours become neighbours.
LEMMA StrandErase ==
  ASSUME NEW s \in Seq(Values), NEW p \in 1 .. Len(s), NEW t, Without(t, s, p),
         Injective(s), NEW f, NEW nx, NEW pv, NEW ny, NEW py,
         Unhooked(ny, py, nx, pv, s[p]), Strand(s, f, nx, pv, TRUE)
  PROVE  Strand(t, IF s[p] = f THEN nx[s[p]] ELSE f, ny, py, TRUE)
  <1> DEFINE v == s[p]
  <1>1. v \in Values /\ nx[v] = Nth(s, p + 1) /\ pv[v] = Nth(s, p - 1)
    BY DEF Strand
  <1>2. ASSUME NEW j \in 1 .. Len(s), j # p
        PROVE  /\ s[j] \in Values
               /\ ny[s[j]] = IF j = p - 1 THEN Nth(s, p + 1) ELSE Nth(s, j + 1)
               /\ py[s[j]] = IF j = p + 1 THEN Nth(s, p - 1) ELSE Nth(s, j - 1)
    <2>1. s[j] \in Values /\ s[j] # v
      BY <1>2 DEF Injective
    <2>2. nx[s[j]] = Nth(s, j + 1) /\ pv[s[j]] = Nth(s, j - 1)
      BY DEF Strand
    <2>3. s[j] = pv[v] <=> j = p - 1
      BY <1>1, <2>1, ListAssumption DEF Nth, Injective
    <2>4. s[j] = nx[v] <=> j = p + 1
      BY <1>1, <2>1, ListAssumption DEF Nth, Injective
    <2>5. ny[s[j]] = IF s[j] = pv[v] THEN nx[v] ELSE nx[s[j]]
      BY <2>1 DEF Unhooked
    <2>6. py[s[j]] = IF s[j] = nx[v] THEN pv[v] ELSE pv[s[j]]
      BY <2>1 DEF Unhooked
    <2> QED
      BY <1>1, <2>1, <2>2, <2>3, <2>4, <2>5, <2>6
  <1>3. ASSUME NEW i \in 1 .. Len(t)
        PROVE  ny[t[i]] = Nth(t, i + 1) /\ py[t[i]] = Nth(t, i - 1)
    <2>1. CASE i < p
      <3>1. i \in 1 .. Len(s) /\ t[i] = s[i]
        BY <2>1 DEF Without
      <3>2. ny[t[i]] = IF i = p - 1 THEN Nth(s, p + 1) ELSE Nth(s, i + 1)
        BY <1>2, <2>1, <3>1
      <3>3. Nth(t, i + 1) = IF i = p - 1 THEN Nth(s, p + 1) ELSE Nth(s, i + 1)
        BY SMTT(30), <2>1, <3>1 DEF Nth, Without
      <3>4. py[t[i]] = Nth(s, i - 1)
        BY <1>2, <2>1, <3>1
      <3>5. Nth(t, i - 1) = Nth(s, i - 1)
        BY <2>1, <3>1 DEF Nth, Without
      <3> QED
        BY <3>2, <3>3, <3>4, <3>5
    <2>2. CASE i >= p
      <3> DEFINE j == i + 1
      <3>1. j \in 1 .. Len(s) /\ t[i] = s[j] /\ j # p /\ j # p - 1
        BY <2>2 DEF Without
      <3>2. ny[t[i]] = Nth(s, j + 1)
        BY <1>2, <2>2, <3>1
      <3>3. Nth(t, i + 1) = Nth(s, j + 1)
        BY <2>2, <3>1 DEF Nth, Without
      <3>4. py[t[i]] = IF j = p + 1 THEN Nth(s, p - 1) ELSE Nth(s, j - 1)
        BY <1>2, <2>2, <3>1
      <3>5. Nth(t, i - 1) = IF j = p + 1 THEN Nth(s, p - 1) ELSE Nth(s, j - 1)
        BY SMTT(30), <2>2, <3>1 DEF Nth, Without
      <3> QED
        BY <3>2, <3>3, <3>4, <3>5
    <2> QED
      BY <2>1, <2>2 DEF Without
  <1>4. (IF s[p] = f THEN nx[s[p]] ELSE f) = Nth(t, 1)
    <2>1. f = s[1]
      BY DEF Strand, Nth
    <2>2. CASE p = 1
      BY <1>1, <2>1, <2>2 DEF Nth, Without
    <2>3. CASE p # 1
      <3>1. s[p] # f
        BY <2>1, <2>3 DEF Injective
      <3>2. 1 \in 1 .. Len(t) /\ t[1] = s[1]
        BY <2>3 DEF Without
      <3> QED
        BY <2>1, <3>1, <3>2 DEF Nth
    <2> QED
      BY <2>2, <2>3
  <1> QED
    BY <1>3, <1>4 DEF Strand

\* A round of clear(): the first value is taken off, and the way back of the next
\* one is left as it is.
LEMMA StrandRound ==
  ASSUME NEW s \in Seq(Values), Len(s) > 0, NEW t, Without(t, s, 1),
         Injective(s), NEW f, NEW nx \in Hooks, NEW pv \in Hooks,
         Strand(s, f, nx, pv, FALSE)
  PROVE  Strand(t, nx[f], [nx EXCEPT ![f] = Null], [pv EXCEPT ![f] = Null], FALSE)
  <1>1. f = s[1] /\ f \in Values
    BY DEF Strand, Nth
  <1>2. ASSUME NEW i \in 1 .. Len(t)
        PROVE  /\ [nx EXCEPT ![f] = Null][t[i]] = Nth(t, i + 1)
               /\ i > 1 => [pv EXCEPT ![f] = Null][t[i]] = Nth(t, i - 1)
    <2> DEFINE j == i + 1
    <2>1. j \in 1 .. Len(s) /\ t[i] = s[j] /\ s[j] \in Values /\ j > 1
      BY DEF Without
    <2>2. s[j] # f
      BY <1>1, <2>1 DEF Injective
    <2>3. nx[s[j]] = Nth(s, j + 1) /\ pv[s[j]] = Nth(s, j - 1)
      BY <2>1 DEF Strand
    <2>4. Nth(s, j + 1) = Nth(t, i + 1)
      BY <2>1 DEF Nth, Without
    <2>5. i > 1 => Nth(s, j - 1) = Nth(t, i - 1)
      BY <2>1 DEF Nth, Without
    <2> QED
      BY <2>1, <2>2, <2>3, <2>4, <2>5 DEF Hooks
  <1>3. nx[f] = Nth(t, 1)
    <2>1. nx[f] = Nth(s, 2)
      BY <1>1 DEF Strand
    <2>2. Nth(s, 2) = Nth(t, 1)
      BY DEF Nth, Without
    <2> QED
      BY <2>1, <2>2
  <1> QED
    BY <1>2, <1>3 DEF Strand

\* Two strands become one when the last value of the first and the first of the
\* second are made neighbours.
LEMMA StrandJoin ==
  ASSUME NEW s \in Seq(Values), NEW r \in Seq(Values), Len(s) > 0, Len(r) > 0,
         NEW t, Joined(t, s, r), Injective(s), Injective(r),
         \A i \in 1 .. Len(s), j \in 1 .. Len(r) : s[i] # r[j],
         NEW f, NEW g, NEW nx, NEW pv, NEW ny, NEW py,
         Tied(ny, py, nx, pv, s[Len(s)], g),
         Strand(s, f, nx, pv, TRUE), Strand(r, g, nx, pv, TRUE)
  PROVE  Strand(t, f, ny, py, TRUE)
  <1>1. g = r[1] /\ g \in Values /\ f = s[1]
    BY DEF Strand, Nth
  <1>2. ASSUME NEW i \in 1 .. Len(t)
        PROVE  ny[t[i]] = Nth(t, i + 1) /\ py[t[i]] = Nth(t, i - 1)
    <2>1. CASE i <= Len(s)
      <3>1. i \in 1 .. Len(s) /\ t[i] = s[i] /\ s[i] \in Values /\ s[i] # g
        BY <1>1, <2>1 DEF Joined
      <3>2. nx[s[i]] = Nth(s, i + 1) /\ pv[s[i]] = Nth(s, i - 1)
        BY <3>1 DEF Strand
      <3>3. s[i] = s[Len(s)] <=> i = Len(s)
        BY <3>1 DEF Injective
      <3>4. ny[t[i]] = IF i = Len(s) THEN g ELSE Nth(s, i + 1)
        BY <3>1, <3>2, <3>3 DEF Tied
      <3>5. Nth(t, i + 1) = IF i = Len(s) THEN g ELSE Nth(s, i + 1)
        BY <1>1, <3>1 DEF Nth, Joined
      <3>6. py[t[i]] = Nth(s, i - 1)
        BY <3>1, <3>2 DEF Tied
      <3>7. Nth(s, i - 1) = Nth(t, i - 1)
        BY <3>1 DEF Nth, Joined
      <3> QED
        BY <3>4, <3>5, <3>6, <3>7
    <2>2. CASE i > Len(s)
      <3> DEFINE j == i - Len(s)
      <3>1. j \in 1 .. Len(r) /\ t[i] = r[j] /\ r[j] \in Values /\ r[j] # s[Len(s)]
        <4>1. j \in 1 .. Len(r) /\ t[i] = r[j]
          BY <2>2 DEF Joined
        <4>2. Len(s) \in 1 .. Len(s)
          OBVIOUS
        <4> QED
          BY <4>1, <4>2
      <3>2. nx[r[j]] = Nth(r, j + 1) /\ pv[r[j]] = Nth(r, j - 1)
        BY <3>1 DEF Strand
      <3>3. r[j] = g <=> j = 1
        BY <1>1, <3>1 DEF Injective
      <3>4. ny[t[i]] = Nth(r, j + 1)
        BY <3>1, <3>2 DEF Tied
      <3>5. Nth(t, i + 1) = Nth(r, j + 1)
        BY <2>2, <3>1 DEF Nth, Joined
      <3>6. py[t[i]] = IF j = 1 THEN s[Len(s)] ELSE Nth(r, j - 1)
        BY <3>1, <3>2, <3>3 DEF Tied
      <3>7. Nth(t, i - 1) = IF j = 1 THEN s[Len(s)] ELSE Nth(r, j - 1)
        BY <2>2, <3>1 DEF Nth, Joined
      <3> QED
        BY <3>4, <3>5, <3>6, <3>7
    <2> QED
      BY <2>1, <2>2 DEF Joined
  <1>3. f = Nth(t, 1)
    BY <1>1 DEF Nth, Joined
  <1> QED
    BY <1>2, <1>3 DEF Strand

-----------------------------------------------------------------------------
(***************************************************************************)
(* Tables: the values of all lists.                                         *)
(***************************************************************************)
Tables == [Lists -> Seq(Values)]

Member(it, v) == \E l \in Lists : \E i \in 1 .. Len(it[l]) : it[l][i] = v

\* No value is in two places.
Apart(it) ==
  \A l, k \in Lists : \A i \in 1 .. Len(it[l]), j \in 1 .. Len(it[k]) :
    it[l][i] = it[k][j] => l = k /\ i = j

\* In a table with one sequence replaced.
LEMMA Replaced ==
  ASSUME NEW it \in Tables, NEW l \in Lists, NEW t \in Seq(Values)
  PROVE  /\ [it EXCEPT ![l] = t] \in Tables /\ [it EXCEPT ![l] = t][l] = t
         /\ \A k \in Lists : k # l => [it EXCEPT ![l] = t][k] = it[k]
  BY DEF Tables

\* A sequence of a table in which no value is in two places is injective.
LEMMA ApartInjective ==
  ASSUME NEW it \in Tables, Apart(it), NEW l \in Lists
  PROVE  it[l] \in Seq(Values) /\ Injective(it[l])
  BY DEF Apart, Injective, Tables

\* A value that was nowhere is pushed.
LEMMA ApartPush ==
  ASSUME NEW it \in Tables, Apart(it), NEW l \in Lists, NEW v \in Values,
         ~Member(it, v), NEW t, Pushed(t, v, it[l])
  PROVE  /\ Apart([it EXCEPT ![l] = t])
         /\ \A w : Member([it EXCEPT ![l] = t], w) <=> w = v \/ Member(it, w)
  <1> DEFINE u == [it EXCEPT ![l] = t]
  <1>1. /\ u \in Tables /\ u[l] = t
        /\ \A k \in Lists : k # l => u[k] = it[k]
    BY Replaced DEF Pushed
  <1>2. \A k \in Lists : it[k] \in Seq(Values) /\ \A j \in 1 .. Len(it[k]) : it[k][j] # v
    BY DEF Member, Tables
  <1>3. \A i \in 1 .. Len(t) : \/ i = 1 /\ t[i] = v
                               \/ i - 1 \in 1 .. Len(it[l]) /\ t[i] = it[l][i - 1]
    <2> SUFFICES ASSUME NEW i \in 1 .. Len(t), i # 1
                 PROVE  i - 1 \in 1 .. Len(it[l]) /\ t[i] = it[l][i - 1]
      BY DEF Pushed
    <2>1. it[l] \in Seq(Values) /\ Len(t) = Len(it[l]) + 1
      BY <1>2 DEF Pushed
    <2>2. i - 1 \in 1 .. Len(it[l]) /\ i = (i - 1) + 1
      BY <2>1
    <2> QED
      BY <2>2 DEF Pushed
  <1> HIDE DEF u
  <1>4. ASSUME NEW k \in Lists, k # l, NEW i \in 1 .. Len(t), NEW j \in 1 .. Len(u[k])
        PROVE  t[i] # u[k][j]
    <2>1. u[k] = it[k] /\ j \in 1 .. Len(it[k])
      BY <1>1, <1>4
    <2>2. CASE t[i] = v
      BY <1>2, <2>1, <2>2
    <2>3. CASE t[i] # v
      <3> DEFINE m == i - 1
      <3>1. m \in 1 .. Len(it[l]) /\ t[i] = it[l][m]
        BY <1>3, <2>3
      <3> HIDE DEF m
      <3> QED
        BY <1>4, <2>1, <3>1 DEF Apart
    <2> QED
      BY <2>2, <2>3
  <1>5. ASSUME NEW i \in 1 .. Len(t), NEW j \in 1 .. Len(t), t[i] = t[j]
        PROVE  i = j
    <2> DEFINE Old(n) == n - 1 \in 1 .. Len(it[l]) /\ t[n] = it[l][n - 1]
    <2>0. /\ \A n \in 1 .. Len(t) : (n = 1 /\ t[n] = v) \/ Old(n)
          /\ \A n \in 1 .. Len(t) : Old(n) => n # 1 /\ t[n] # v
      <3>1. \A n \in 1 .. Len(t) : Old(n) => t[n] # v
        BY <1>2
      <3>2. \A n \in 1 .. Len(t) : Old(n) => n # 1
        OBVIOUS
      <3> QED
        BY <1>3, <3>1, <3>2
    <2> HIDE DEF Old
    <2>1. i = 1 <=> t[i] = v
      BY <2>0
    <2>2. j = 1 <=> t[j] = v
      BY <2>0
    <2>3. CASE t[i] # v
      <3> DEFINE m == i - 1
                 n == j - 1
      <3>1. /\ m \in 1 .. Len(it[l]) /\ n \in 1 .. Len(it[l])
            /\ it[l][m] = it[l][n] /\ i = m + 1 /\ j = n + 1
        BY <1>3, <1>5, <2>1, <2>2, <2>3
      <3> HIDE DEF m, n
      <3>2. m = n
        BY <3>1 DEF Apart
      <3> QED
        BY <3>1, <3>2
    <2> QED
      BY <1>5, <2>1, <2>2, <2>3
  <1>6. Apart(u)
    BY <1>1, <1>4, <1>5 DEF Apart
  <1>7. ASSUME NEW w, Member(u, w) PROVE w = v \/ Member(it, w)
    BY <1>1, <1>3, <1>7 DEF Member
  <1>8. Member(u, v)
    BY <1>1 DEF Member, Pushed
  <1>9. ASSUME NEW w, Member(it, w) PROVE Member(u, w)
    <2>1. PICK k \in Lists : \E i \in 1 .. Len(it[k]) : it[k][i] = w
      BY <1>9 DEF Member
    <2>2. PICK i \in 1 .. Len(it[k]) : it[k][i] = w
      BY <2>1
    <2>3. CASE k = l
      <3>1. i + 1 \in 1 .. Len(t) /\ t[i + 1] = w
        BY <1>2, <2>2, <2>3 DEF Pushed
      <3> QED
        BY <1>1, <3>1 DEF Member
    <2>4. CASE k # l
      BY <1>1, <2>2, <2>4 DEF Member
    <2> QED
      BY <2>3, <2>4
  <1>10. \A w : Member(u, w) <=> w = v \/ Member(it, w)
    BY <1>7, <1>8, <1>9
  <1> QED
    BY <1>6, <1>10 DEF u

\* A value is taken out.
LEMMA ApartWithout ==
  ASSUME NEW it \in Tables, Apart(it), NEW l \in Lists,
         NEW p \in 1 .. Len(it[l]), NEW t, Without(t, it[l], p)
  PROVE  /\ Apart([it EXCEPT ![l] = t])
         /\ \A w : Member([it EXCEPT ![l] = t], w)
                   <=> w # it[l][p] /\ Member(it, w)
  <1> DEFINE u == [it EXCEPT ![l] = t]
             from(i) == IF i < p THEN i ELSE i + 1
  <1>1. /\ u \in Tables /\ u[l] = t
        /\ \A k \in Lists : k # l => u[k] = it[k]
    BY Replaced DEF Without
  <1>2. \A k \in Lists : it[k] \in Seq(Values)
    BY DEF Tables
  <1>3. \A i \in 1 .. Len(t) :
          from(i) \in 1 .. Len(it[l]) /\ from(i) # p /\ t[i] = it[l][from(i)]
    BY <1>2 DEF Without
  <1>4. \A i, j \in 1 .. Len(t) : from(i) = from(j) => i = j
    BY <1>2 DEF Without
  <1> HIDE DEF u, from
  <1>5. ASSUME NEW k \in Lists, k # l, NEW i \in 1 .. Len(t), NEW j \in 1 .. Len(u[k])
        PROVE  t[i] # u[k][j]
    BY <1>1, <1>3, <1>5 DEF Apart
  <1>6. ASSUME NEW i \in 1 .. Len(t), NEW j \in 1 .. Len(t), t[i] = t[j]
        PROVE  i = j
    BY <1>3, <1>4, <1>6 DEF Apart
  <1>7. Apart(u)
    BY <1>1, <1>5, <1>6 DEF Apart
  <1>8. ASSUME NEW w, Member(u, w) PROVE w # it[l][p] /\ Member(it, w)
    <2>1. PICK k \in Lists : \E i \in 1 .. Len(u[k]) : u[k][i] = w
      BY <1>8 DEF Member
    <2>2. PICK i \in 1 .. Len(u[k]) : u[k][i] = w
      BY <2>1
    <2>3. CASE k = l
      BY <1>1, <1>3, <2>2, <2>3 DEF Member, Apart
    <2>4. CASE k # l
      BY <1>1, <2>2, <2>4 DEF Member, Apart
    <2> QED
      BY <2>3, <2>4
  <1>9. ASSUME NEW w, Member(it, w), w # it[l][p] PROVE Member(u, w)
    <2>1. PICK k \in Lists : \E i \in 1 .. Len(it[k]) : it[k][i] = w
      BY <1>9 DEF Member
    <2>2. PICK i \in 1 .. Len(it[k]) : it[k][i] = w
      BY <2>1
    <2>3. CASE k = l /\ i < p
      <3>1. i \in 1 .. Len(t) /\ t[i] = w
        BY <1>2, <2>2, <2>3 DEF Without
      <3> QED
        BY <1>1, <3>1 DEF Member
    <2>4. CASE k = l /\ i > p
      <3>1. i - 1 \in 1 .. Len(t) /\ t[i - 1] = w
        BY <1>2, <2>2, <2>4 DEF Without
      <3> QED
        BY <1>1, <3>1 DEF Member
    <2>5. CASE k # l
      BY <1>1, <2>2, <2>5 DEF Member
    <2>6. k = l => i # p
      BY <1>9, <2>2
    <2> QED
      BY <1>2, <2>3, <2>4, <2>5, <2>6
  <1>10. \A w : Member(u, w) <=> w # it[l][p] /\ Member(it, w)
    BY <1>8, <1>9
  <1> QED
    BY <1>7, <1>10 DEF u

-----------------------------------------------------------------------------
(***************************************************************************)
(* All lists and all hooks.                                                 *)
(***************************************************************************)
Fronts == [Lists -> Pointers]

\* The hooks of the values of all lists but l are kept.
Elsewhere(it, l, nx, pv, ny, py) ==
  \A k \in Lists : k # l => \A i \in 1 .. Len(it[k]) :
    ny[it[k][i]] = nx[it[k][i]] /\ py[it[k][i]] = pv[it[k][i]]

\* The values dropped are nowhere, and the others that are nowhere are unlinked.
Blank(it, out, nx, pv) ==
  /\ \A v \in out : ~Member(it, v)
  /\ \A v \in Values :
       v \notin out /\ ~Member(it, v) => nx[v] = Null /\ pv[v] = Null

\* The strands of all lists are their sequences, and a value that is in none and
\* was not dropped (out) has an empty hook.  cl is the list that is being cleared.
Woven(it, out, fr, nx, pv, cl) ==
  /\ it \in Tables /\ fr \in Fronts /\ nx \in Hooks /\ pv \in Hooks
  /\ Apart(it)
  /\ \A l \in Lists : Strand(it[l], fr[l], nx, pv, cl # l)
  /\ Blank(it, out, nx, pv)

\* Without a list being cleared all strands lead back to null.
LEMMA WovenStrand ==
  ASSUME NEW it, NEW out, NEW fr, NEW nx, NEW pv,
         Woven(it, out, fr, nx, pv, Null), NEW l \in Lists
  PROVE  Strand(it[l], fr[l], nx, pv, TRUE)
  BY ListAssumption DEF Woven, Strand

\* One sequence and its front are replaced, and the hooks of the others kept.
LEMMA WovenReplaced ==
  ASSUME NEW it, NEW out, NEW fr, NEW nx, NEW pv, NEW cl,
         Woven(it, out, fr, nx, pv, cl),
         NEW l \in Lists, NEW t \in Seq(Values), NEW f \in Pointers,
         NEW ny \in Hooks, NEW py \in Hooks,
         Apart([it EXCEPT ![l] = t]), Strand(t, f, ny, py, cl # l),
         Elsewhere(it, l, nx, pv, ny, py), Blank([it EXCEPT ![l] = t], out, ny, py)
  PROVE  Woven([it EXCEPT ![l] = t], out, [fr EXCEPT ![l] = f], ny, py, cl)
  <1> DEFINE u == [it EXCEPT ![l] = t]
             g == [fr EXCEPT ![l] = f]
  <1>1. it \in Tables /\ fr \in Fronts
    BY DEF Woven
  <1>2. /\ u \in Tables /\ u[l] = t
        /\ \A k \in Lists : k # l => u[k] = it[k]
    BY <1>1, Replaced
  <1>3. /\ g \in Fronts /\ g[l] = f
        /\ \A k \in Lists : k # l => g[k] = fr[k]
    BY <1>1 DEF Fronts
  <1> HIDE DEF u, g
  <1>4. ASSUME NEW k \in Lists PROVE Strand(u[k], g[k], ny, py, cl # k)
    <2>1. CASE k = l
      BY <1>2, <1>3, <2>1
    <2>2. CASE k # l
      <3>1. Strand(it[k], fr[k], nx, pv, cl # k)
        BY DEF Woven
      <3>2. Strand(it[k], fr[k], ny, py, cl # k)
        BY <2>2, <3>1, StrandKept DEF Elsewhere
      <3> QED
        BY <1>2, <1>3, <2>2, <3>2
    <2> QED
      BY <2>1, <2>2
  <1>5. Apart(u) /\ Blank(u, out, ny, py)
    BY Zenon DEF u
  <1>6. Woven(u, out, g, ny, py, cl)
    BY <1>2, <1>3, <1>4, <1>5 DEF Woven
  <1> QED
    BY <1>6 DEF u, g

\* push_front of a value that is nowhere.
LEMMA WovenPush ==
  ASSUME NEW it, NEW out, NEW fr, NEW nx, NEW pv,
         Woven(it, out, fr, nx, pv, Null),
         NEW l \in Lists, NEW v \in Values, v \notin out, ~Member(it, v),
         NEW t, Pushed(t, v, it[l]),
         NEW ny, NEW py, Hooked(ny, py, nx, pv, v, fr[l])
  PROVE  Woven([it EXCEPT ![l] = t], out, [fr EXCEPT ![l] = v], ny, py, Null)
  <1>1. /\ it \in Tables /\ Apart(it) /\ t \in Seq(Values) /\ v \in Pointers
        /\ ny \in Hooks /\ py \in Hooks
    BY DEF Woven, Pushed, Pointers, Hooked
  <1>2. it[l] \in Seq(Values) /\ Injective(it[l])
    BY <1>1, ApartInjective
  <1>3. Strand(it[l], fr[l], nx, pv, TRUE)
    BY WovenStrand
  <1>4. pv[v] = Null /\ nx[v] = Null
    BY DEF Woven, Blank
  <1>5. \A k \in Lists : \A i \in 1 .. Len(it[k]) : it[k][i] # v /\ it[k][i] \in Values
    BY <1>1 DEF Member, Tables
  <1>6. Strand(t, v, ny, py, TRUE)
    BY <1>2, <1>3, <1>4, <1>5, StrandPush
  <1>7. /\ Apart([it EXCEPT ![l] = t])
        /\ \A w : Member([it EXCEPT ![l] = t], w) <=> w = v \/ Member(it, w)
    BY <1>1, ApartPush
  <1>8. fr[l] = Null \/ \E i \in 1 .. Len(it[l]) : fr[l] = it[l][i]
    BY <1>3 DEF Strand, Nth
  <1>9. ASSUME NEW k \in Lists, k # l, NEW i \in 1 .. Len(it[k])
        PROVE  ny[it[k][i]] = nx[it[k][i]] /\ py[it[k][i]] = pv[it[k][i]]
    <2>1. it[k][i] # fr[l]
      BY <1>1, <1>5, <1>8, <1>9, ListAssumption DEF Apart
    <2> QED
      BY <1>5, <2>1 DEF Hooked
  <1>10. ASSUME NEW w \in Values, w \notin out, w # v, ~Member(it, w)
         PROVE  ny[w] = Null /\ py[w] = Null
    <2>1. w # fr[l]
      BY <1>8, <1>10, ListAssumption DEF Member
    <2> QED
      BY <1>10, <2>1 DEF Hooked, Woven, Blank
  <1>11. Blank([it EXCEPT ![l] = t], out, ny, py)
    BY <1>7, <1>10 DEF Woven, Blank
  <1>12. Strand(t, v, ny, py, Null # l)
    BY <1>6, ListAssumption DEF Strand
  <1>13. Elsewhere(it, l, nx, pv, ny, py)
    BY <1>9 DEF Elsewhere
  <1> QED
    BY <1>1, <1>7, <1>11, <1>12, <1>13, WovenReplaced

\* A value is taken out of its list.
LEMMA WovenErase ==
  ASSUME NEW it, NEW out, NEW fr, NEW nx, NEW pv,
         Woven(it, out, fr, nx, pv, Null),
         NEW l \in Lists, NEW p \in 1 .. Len(it[l]), NEW v, v = it[l][p],
         NEW t, Without(t, it[l], p),
         NEW ny, NEW py, Unhooked(ny, py, nx, pv, v)
  PROVE  Woven([it EXCEPT ![l] = t], out,
               [fr EXCEPT ![l] = IF v = fr[l] THEN nx[v] ELSE fr[l]], ny, py, Null)
  <1>1. /\ it \in Tables /\ Apart(it) /\ t \in Seq(Values)
        /\ ny \in Hooks /\ py \in Hooks
    BY DEF Woven, Without, Unhooked
  <1>2. it[l] \in Seq(Values) /\ Injective(it[l])
    BY <1>1, ApartInjective
  <1>3. Strand(it[l], fr[l], nx, pv, TRUE)
    BY WovenStrand
  <1>4. Strand(t, IF v = fr[l] THEN nx[v] ELSE fr[l], ny, py, TRUE)
    BY <1>2, <1>3, StrandErase
  <1>5. /\ Apart([it EXCEPT ![l] = t])
        /\ \A w : Member([it EXCEPT ![l] = t], w) <=> w # v /\ Member(it, w)
    BY <1>1, ApartWithout
  <1>6. /\ v \in Values /\ nx[v] = Nth(it[l], p + 1) /\ pv[v] = Nth(it[l], p - 1)
    BY <1>2, <1>3 DEF Strand
  <1>7. ASSUME NEW w \in Values, ~\E i \in 1 .. Len(it[l]) : it[l][i] = w
        PROVE  ny[w] = nx[w] /\ py[w] = pv[w]
    <2>1. w # v /\ w # nx[v] /\ w # pv[v]
      BY <1>6, <1>7, ListAssumption DEF Nth
    <2> QED
      BY <2>1 DEF Unhooked
  <1>8. ASSUME NEW k \in Lists, k # l, NEW i \in 1 .. Len(it[k])
        PROVE  ny[it[k][i]] = nx[it[k][i]] /\ py[it[k][i]] = pv[it[k][i]]
    <2>1. it[k][i] \in Values /\ ~\E j \in 1 .. Len(it[l]) : it[l][j] = it[k][i]
      BY <1>1, <1>8 DEF Apart, Tables
    <2> QED
      BY <1>7, <2>1
  <1>9. ASSUME NEW w \in Values, w \notin out, ~Member([it EXCEPT ![l] = t], w)
        PROVE  ny[w] = Null /\ py[w] = Null
    <2>1. CASE w = v
      BY <2>1 DEF Unhooked
    <2>2. CASE w # v
      <3>1. ~Member(it, w)
        BY <1>5, <1>9, <2>2
      <3>2. ny[w] = nx[w] /\ py[w] = pv[w]
        BY <1>7, <3>1 DEF Member
      <3> QED
        BY <1>9, <3>1, <3>2 DEF Woven, Blank
    <2> QED
      BY <2>1, <2>2
  <1>10. Blank([it EXCEPT ![l] = t], out, ny, py)
    BY <1>5, <1>9 DEF Woven, Blank
  <1>11. Strand(t, IF v = fr[l] THEN nx[v] ELSE fr[l], ny, py, Null # l)
    BY <1>4, ListAssumption DEF Strand
  <1>12. (IF v = fr[l] THEN nx[v] ELSE fr[l]) \in Pointers
    BY <1>6 DEF Woven, Fronts, Hooks
  <1>13. Elsewhere(it, l, nx, pv, ny, py)
    BY <1>8 DEF Elsewhere
  <1> QED
    BY <1>1, <1>5, <1>10, <1>11, <1>12, <1>13, WovenReplaced

\* A round of clear().
LEMMA WovenRound ==
  ASSUME NEW it, NEW out, NEW fr, NEW nx, NEW pv, NEW l \in Lists,
         Woven(it, out, fr, nx, pv, l), Len(it[l]) > 0,
         NEW t, Without(t, it[l], 1)
  PROVE  Woven([it EXCEPT ![l] = t], out, [fr EXCEPT ![l] = nx[fr[l]]],
               [nx EXCEPT ![fr[l]] = Null], [pv EXCEPT ![fr[l]] = Null], l)
  <1> DEFINE f == fr[l]
             ny == [nx EXCEPT ![f] = Null]
             py == [pv EXCEPT ![f] = Null]
  <1>1. /\ it \in Tables /\ Apart(it) /\ t \in Seq(Values)
        /\ nx \in Hooks /\ pv \in Hooks
    BY DEF Woven, Without
  <1>2. it[l] \in Seq(Values) /\ Injective(it[l])
    BY <1>1, ApartInjective
  <1>3. Strand(it[l], f, nx, pv, FALSE)
    BY DEF Woven, Strand
  <1>4. Strand(t, nx[f], ny, py, FALSE)
    BY <1>1, <1>2, <1>3, StrandRound
  <1>5. f = it[l][1] /\ f \in Values /\ nx[f] \in Pointers /\ 1 \in 1 .. Len(it[l])
    BY <1>1, <1>2, <1>3 DEF Strand, Nth, Hooks
  <1>6. /\ Apart([it EXCEPT ![l] = t])
        /\ \A w : Member([it EXCEPT ![l] = t], w) <=> w # f /\ Member(it, w)
    BY <1>1, <1>5, ApartWithout
  <1>7. /\ ny \in Hooks /\ py \in Hooks /\ ny[f] = Null /\ py[f] = Null
        /\ \A w \in Values : w # f => ny[w] = nx[w] /\ py[w] = pv[w]
    BY <1>1, <1>5 DEF Hooks, Pointers
  <1> HIDE DEF f, ny, py
  <1>8. ASSUME NEW k \in Lists, k # l, NEW i \in 1 .. Len(it[k])
        PROVE  ny[it[k][i]] = nx[it[k][i]] /\ py[it[k][i]] = pv[it[k][i]]
    <2>1. it[k][i] \in Values /\ it[k][i] # f
      BY <1>1, <1>5, <1>8 DEF Apart, Tables
    <2> QED
      BY <1>7, <2>1
  <1>9. Elsewhere(it, l, nx, pv, ny, py)
    BY <1>8 DEF Elsewhere
  <1>10. Blank([it EXCEPT ![l] = t], out, ny, py)
    BY <1>6, <1>7 DEF Woven, Blank
  <1>11. Strand(t, nx[f], ny, py, l # l)
    BY <1>4
  <1>12. Woven([it EXCEPT ![l] = t], out, [fr EXCEPT ![l] = nx[f]], ny, py, l)
    BY <1>1, <1>5, <1>6, <1>7, <1>9, <1>10, <1>11, WovenReplaced
  <1> QED
    BY <1>12 DEF f, ny, py

-----------------------------------------------------------------------------
(***************************************************************************)
(* Release of references in lists of shared_ptr.                            *)
(***************************************************************************)

\* The natural numbers are well-ordered.
LEMMA LeastIndex ==
  ASSUME NEW T \in SUBSET Nat, T # {}
  PROVE  \E x \in T : \A y \in T : x <= y
  <1> DEFINE R == OpToRel(<, Nat)
  <1>1. IsWellFoundedOn(R, Nat)
    BY NatLessThanWellFounded, Zenon
  <1>2. \A p \in Nat, q \in Nat : p < q => <<p, q>> \in R
    BY DEF OpToRel
  <1> HIDE DEF R
  <1>3. PICK x \in T : \A y \in T : ~(<<y, x>> \in R)
    BY <1>1, WFMin, Zenon
  <1>4. ASSUME NEW y \in T PROVE x <= y
    <2>1. ~(y < x)
      BY <1>2, <1>3
    <2> QED
      BY <2>1
  <1> QED
    BY <1>4

\* A set of values none of which is referred to from outside contains no value of
\* a list: the first value of the list that was in it would be referred to by the
\* list or by the value before it.
LEMMA ListOwns ==
  ASSUME NEW s \in Seq(Values), NEW f, NEW nx, NEW pv, NEW first,
         Strand(s, f, nx, pv, first), NEW X,
         f \notin X,
         \A i \in 1 .. Len(s) : s[i] \notin X => nx[s[i]] \notin X
  PROVE  \A i \in 1 .. Len(s) : s[i] \notin X
  <1> DEFINE T == {i \in 1 .. Len(s) : s[i] \in X}
  <1> SUFFICES ASSUME T # {} PROVE FALSE
    OBVIOUS
  <1>1. T \in SUBSET Nat
    OBVIOUS
  <1>2. PICK m \in T : \A i \in T : m <= i
    BY <1>1, LeastIndex
  <1>3. m \in 1 .. Len(s) /\ s[m] \in X
    OBVIOUS
  <1>4. m # 1
    BY <1>3 DEF Strand, Nth
  <1>5. m - 1 \in 1 .. Len(s) /\ m - 1 \notin T
    BY <1>2, <1>3, <1>4
  <1>6. nx[s[m - 1]] = s[m]
    BY <1>3, <1>5 DEF Strand, Nth
  <1> QED
    BY <1>3, <1>5, <1>6

\* What is destroyed is what is neither held nor in a list.
LEMMA DestroyedExact ==
  ASSUME NEW it, NEW fr, NEW nx, NEW pv, NEW cl, Woven(it, {}, fr, nx, pv, cl),
         NEW hd, alive \in SUBSET Values, \A v : Member(it, v) => v \in alive
  PROVE  Destroyed(fr, nx, hd) = {v \in alive : v \notin hd /\ ~Member(it, v)}
  <1> DEFINE D == {v \in alive : v \notin hd /\ ~Member(it, v)}
             Loose(X) == \A v \in X : ~Owned(v, fr, nx, hd, alive \ X)
  <1>1. ASSUME NEW X \in SUBSET alive, Loose(X), NEW v \in X
        PROVE  v \in D
    <2>1. v \notin hd /\ v \in alive
      BY <1>1 DEF Owned
    <2>2. ASSUME NEW l \in Lists PROVE \A i \in 1 .. Len(it[l]) : it[l][i] \notin X
      <3>1. it[l] \in Seq(Values) /\ Strand(it[l], fr[l], nx, pv, cl # l)
        BY DEF Woven, Tables
      <3>2. fr[l] \notin X
        BY <1>1 DEF Owned
      <3>3. \A i \in 1 .. Len(it[l]) : it[l][i] \notin X => nx[it[l][i]] \notin X
        <4>1. \A i \in 1 .. Len(it[l]) : it[l][i] \in alive
          BY DEF Member
        <4> QED
          BY <1>1, <4>1 DEF Owned
      <3> QED
        BY <3>1, <3>2, <3>3, ListOwns
    <2>3. ~Member(it, v)
      BY <2>2 DEF Member
    <2> QED
      BY <2>1, <2>3
  <1>2. ASSUME NEW v \in D PROVE ~Owned(v, fr, nx, hd, alive \ D)
    <2>1. v \in Values /\ v # Null /\ v \notin hd /\ ~Member(it, v)
      BY ListAssumption
    <2>2. ASSUME NEW l \in Lists PROVE fr[l] # v
      <3>1. fr[l] = Nth(it[l], 1)
        BY DEF Woven, Strand
      <3> QED
        BY <2>1, <3>1 DEF Nth, Member
    <2>3. ASSUME NEW w \in alive PROVE nx[w] # v
      <3>1. CASE Member(it, w)
        <4>1. PICK l \in Lists : \E i \in 1 .. Len(it[l]) : it[l][i] = w
          BY <3>1 DEF Member
        <4>2. PICK i \in 1 .. Len(it[l]) : it[l][i] = w
          BY <4>1
        <4>3. nx[w] = Nth(it[l], i + 1)
          BY <4>2 DEF Woven, Strand
        <4> QED
          BY <2>1, <4>3 DEF Nth, Member
      <3>2. CASE ~Member(it, w)
        BY <2>1, <3>2 DEF Woven, Blank
      <3> QED
        BY <3>1, <3>2
    <2> QED
      BY <2>1, <2>2, <2>3 DEF Owned
  <1>3. D \in SUBSET alive /\ Loose(D)
    BY <1>2
  <1>4. Destroyed(fr, nx, hd) = UNION {X \in SUBSET alive : Loose(X)}
    BY Zenon DEF Destroyed
  <1> HIDE DEF D, Loose
  <1>5. UNION {X \in SUBSET alive : Loose(X)} = D
    BY <1>1, <1>3
  <1> QED
    BY <1>4, <1>5 DEF D

\* The values that exist are those the user holds or a list has.
Exact(it, al, hd) == al = hd \cup {v \in Values : Member(it, v)}

\* After a release the links are as before and no value exists without a reason.
LEMMA ReleaseExact ==
  ASSUME NEW it, NEW fr, NEW nx, NEW pv, NEW cl, Woven(it, {}, fr, nx, pv, cl),
         NEW hd, hd \in SUBSET alive, alive \in SUBSET Values,
         \A v : Member(it, v) => v \in alive,
         Release(fr, nx, pv, hd)
  PROVE  /\ Woven(it, {}, front', next', prev', cl)
         /\ held' = hd /\ alive' \in SUBSET Values /\ Exact(it, alive', held')
         /\ alive \ alive' = {v \in alive : v \notin hd /\ ~Member(it, v)}
  <1> DEFINE gone == {v \in alive : v \notin hd /\ ~Member(it, v)}
  <1>1. Destroyed(fr, nx, hd) = gone
    BY DestroyedExact
  <1>2. /\ alive' = alive \ gone /\ front' = fr /\ held' = hd
        /\ next' = [v \in Values |-> IF v \in gone THEN Null ELSE nx[v]]
        /\ prev' = [v \in Values |->
                      IF v \in gone \/ pv[v] \in gone THEN Null ELSE pv[v]]
    BY <1>1, Zenon DEF Release
  <1>3. /\ alive' \in SUBSET Values /\ Exact(it, alive', held')
        /\ alive \ alive' = gone
    BY <1>2 DEF Exact
  <1>4. \A v \in gone : ~Member(it, v)
    OBVIOUS
  <1> HIDE DEF gone
  <1>5. /\ it \in Tables /\ fr \in Fronts /\ nx \in Hooks /\ pv \in Hooks
        /\ Apart(it) /\ Blank(it, {}, nx, pv)
    BY DEF Woven
  <1>6. next' \in Hooks /\ prev' \in Hooks
    BY <1>2, <1>5 DEF Hooks, Pointers
  <1>7. ASSUME NEW l \in Lists PROVE Strand(it[l], fr[l], next', prev', cl # l)
    <2>1. Strand(it[l], fr[l], nx, pv, cl # l)
      BY DEF Woven
    <2>2. ASSUME NEW i \in 1 .. Len(it[l])
          PROVE  /\ next'[it[l][i]] = nx[it[l][i]]
                 /\ i > 1 \/ cl # l => prev'[it[l][i]] = pv[it[l][i]]
      <3>1. it[l][i] \in Values /\ it[l][i] \notin gone /\ Null \notin gone
        BY <1>4, <1>5, ListAssumption DEF Tables, Member, gone
      <3>2. i > 1 \/ cl # l => pv[it[l][i]] = Nth(it[l], i - 1)
        BY <2>1 DEF Strand
      <3>3. Nth(it[l], i - 1) \notin gone
        BY <1>4, <3>1 DEF Nth, Member
      <3> QED
        BY <1>2, <3>1, <3>2, <3>3
    <2> QED
      BY <2>1, <2>2 DEF Strand
  <1>8. Blank(it, {}, next', prev')
    BY <1>2, <1>5 DEF Blank
  <1>9. Woven(it, {}, front', next', prev', cl)
    BY <1>2, <1>5, <1>6, <1>7, <1>8 DEF Woven
  <1> QED
    BY <1>2, <1>3, <1>9 DEF gone

-----------------------------------------------------------------------------
(***************************************************************************)
(* Lists of shared_ptr.                                                     *)
(***************************************************************************)
Sizes == \A l \in Lists : clearing # l => size[l] = Len(items[l])

\* The inductive invariant.
SpInv ==
  /\ Woven(items, {}, front, next, prev, clearing)
  /\ size \in [Lists -> Nat] /\ Sizes
  /\ clearing \in Lists \cup {Null}
  /\ held \in SUBSET alive /\ alive \in SUBSET Values
  /\ Exact(items, alive, held)

\* The two ways to say that a value is in a list.
LEMMA LinkedIsMember ==
  ASSUME NEW v, items \in Tables
  PROVE  Linked(v) <=> Member(items, v)
  <1>1. \A l \in Lists : DOMAIN items[l] = 1 .. Len(items[l])
    BY DEF Tables
  <1> QED
    BY <1>1 DEF Linked, In, ToSet, Member

\* The invariant says what the runs check.
LEMMA SpInvSound ==
  ASSUME SpInv
  PROVE  LinksMatch /\ LifetimeExact
  <1>1. items \in Tables /\ front \in Fronts /\ next \in Hooks /\ prev \in Hooks
    BY DEF SpInv, Woven
  <1>2. \A v : Linked(v) <=> Member(items, v)
    BY <1>1, LinkedIsMember
  <1>3. TypeOK
    BY <1>1 DEF SpInv, TypeOK, Tables, Fronts, Hooks
  <1>4. \A l \in Lists : \A i : At(l, i) = Nth(items[l], i)
    BY DEF At, Nth
  <1>5. ASSUME NEW l \in Lists
        PROVE  /\ front[l] = At(l, 1)
               /\ clearing # l => size[l] = Len(items[l])
               /\ \A i \in 1 .. Len(items[l]) :
                    /\ next[At(l, i)] = At(l, i + 1)
                    /\ i > 1 \/ clearing # l => prev[At(l, i)] = At(l, i - 1)
    <2>1. Strand(items[l], front[l], next, prev, clearing # l)
      BY DEF SpInv, Woven
    <2>2. \A i \in 1 .. Len(items[l]) : At(l, i) = items[l][i]
      BY DEF At
    <2>3. /\ front[l] = Nth(items[l], 1)
          /\ \A i \in 1 .. Len(items[l]) :
               /\ next[items[l][i]] = Nth(items[l], i + 1)
               /\ i > 1 \/ clearing # l => prev[items[l][i]] = Nth(items[l], i - 1)
      BY <2>1, Zenon DEF Strand
    <2>4. clearing # l => size[l] = Len(items[l])
      BY DEF SpInv, Sizes
    <2>5. ASSUME NEW i \in 1 .. Len(items[l])
          PROVE  /\ next[At(l, i)] = At(l, i + 1)
                 /\ i > 1 \/ clearing # l => prev[At(l, i)] = At(l, i - 1)
      <3>1. /\ At(l, i) = items[l][i] /\ At(l, i + 1) = Nth(items[l], i + 1)
            /\ At(l, i - 1) = Nth(items[l], i - 1)
        BY <1>4, <2>2, Zenon
      <3> QED
        BY <2>3, <3>1, Zenon
    <2>6. front[l] = At(l, 1)
      BY <1>4, <2>3, Zenon
    <2> QED
      BY <2>4, <2>5, <2>6, Zenon
  <1>6. \A v \in Values : ~Linked(v) => next[v] = Null /\ prev[v] = Null
    BY <1>2 DEF SpInv, Woven, Blank
  <1>7. LifetimeExact
    BY <1>2 DEF SpInv, Exact, LifetimeExact
  <1> QED
    BY <1>3, <1>5, <1>6, <1>7 DEF LinksMatch

\* At most one value is destroyed.
OneGone == \E v : alive \ alive' \subseteq {v}

\* Initially all is empty.
LEMMA SpInitInv == Init => SpInv
  <1> SUFFICES ASSUME Init PROVE SpInv
    OBVIOUS
  <1>1. \A l \in Lists : items[l] = <<>> /\ Len(items[l]) = 0
    BY DEF Init
  <1>2. items \in Tables /\ front \in Fronts /\ next \in Hooks /\ prev \in Hooks
    BY DEF Init, Tables, Fronts, Hooks, Pointers
  <1>3. Apart(items) /\ \A v : ~Member(items, v)
    BY <1>1 DEF Apart, Member
  <1>4. \A l \in Lists : Strand(items[l], front[l], next, prev, clearing # l)
    BY <1>1 DEF Strand, Nth, Init
  <1>5. Blank(items, {}, next, prev)
    BY DEF Blank, Init
  <1>6. Exact(items, alive, held)
    BY <1>3 DEF Exact, Init
  <1> QED
    BY <1>1, <1>2, <1>3, <1>4, <1>5, <1>6 DEF SpInv, Woven, Sizes, Init

\* What every operation of the user relies on.
LEMMA SpFacts ==
  ASSUME SpInv
  PROVE  /\ items \in Tables /\ front \in Fronts /\ next \in Hooks /\ prev \in Hooks
         /\ \A v : Linked(v) <=> Member(items, v)
         /\ \A v : Member(items, v) => v \in alive
  <1>1. items \in Tables /\ front \in Fronts /\ next \in Hooks /\ prev \in Hooks
    BY DEF SpInv, Woven
  <1>2. \A v : Linked(v) <=> Member(items, v)
    BY <1>1, LinkedIsMember
  <1>3. \A v : Member(items, v) => v \in Values
    BY <1>1 DEF Member, Tables
  <1> QED
    BY <1>1, <1>2, <1>3 DEF SpInv, Exact

\* The user makes a value: its hook is empty, as that of one in no list.
LEMMA MakeInv ==
  ASSUME SpInv, NEW v \in Values, Make(v) PROVE SpInv' /\ OneGone
  <1>1. Woven(items, {}, front, next, prev, clearing)'
    BY DEF SpInv, Make
  <1>2. Exact(items, alive, held)'
    BY DEF SpInv, Make, Exact
  <1> QED
    BY <1>1, <1>2 DEF SpInv, Make, Sizes, OneGone

\* The user obtains a pointer to a value of a list.
LEMMA HoldInv ==
  ASSUME SpInv, NEW v \in Values, Hold(v) PROVE SpInv' /\ OneGone
  <1>1. Woven(items, {}, front, next, prev, clearing)'
    BY DEF SpInv, Hold
  <1>2. Member(items, v) /\ v \in alive
    BY SpFacts DEF Hold
  <1>3. Exact(items, alive, held)'
    BY <1>2 DEF SpInv, Hold, Exact
  <1> QED
    BY <1>1, <1>2, <1>3 DEF SpInv, Hold, Sizes, OneGone

\* The user gives up a pointer: the value goes if it is in no list.
LEMMA DropInv ==
  ASSUME SpInv, NEW v \in Values, Drop(v) PROVE SpInv' /\ OneGone
  <1> DEFINE hd == held \ {v}
  <1>1. /\ Woven(items, {}, front, next, prev, clearing)
        /\ hd \in SUBSET alive /\ alive \in SUBSET Values
        /\ \A w : Member(items, w) => w \in alive
    BY SpFacts DEF SpInv
  <1>2. /\ Release(front, next, prev, hd)
        /\ size' = size /\ clearing' = clearing /\ items' = items
    BY DEF Drop
  <1> HIDE DEF hd
  <1>3. /\ Woven(items, {}, front', next', prev', clearing)
        /\ held' = hd /\ alive' \in SUBSET Values /\ Exact(items, alive', held')
        /\ alive \ alive' = {w \in alive : w \notin hd /\ ~Member(items, w)}
    BY <1>1, <1>2, ReleaseExact
  <1>4. SpInv'
    BY <1>2, <1>3 DEF SpInv, Sizes, Exact
  <1>5. alive \ alive' \subseteq {v}
    BY <1>3 DEF hd, SpInv, Exact
  <1> QED
    BY <1>4, <1>5 DEF OneGone

\* push_front of a value in no list.
LEMMA PushFrontInv ==
  ASSUME SpInv, NEW l \in Lists, NEW v \in Values, push_front(l, v)
  PROVE  SpInv' /\ OneGone
  <1> DEFINE t == <<v>> \o items[l]
  <1>1. /\ items \in Tables /\ front \in Fronts /\ next \in Hooks /\ prev \in Hooks
        /\ items[l] \in Seq(Values) /\ front[l] \in Pointers
    BY SpFacts DEF Tables, Fronts
  <1>2. /\ clearing = Null /\ v \in held /\ ~Member(items, v)
        /\ next' = [next EXCEPT ![v] = front[l]]
        /\ prev' = Assign(prev, front[l], v)
        /\ front' = [front EXCEPT ![l] = v]
        /\ size' = [size EXCEPT ![l] = @ + 1]
        /\ items' = [items EXCEPT ![l] = t]
        /\ alive' = alive /\ held' = held /\ clearing' = clearing
    BY SpFacts DEF push_front
  <1>3. Pushed(t, v, items[l])
    BY <1>1, PushFrontPushes
  <1>4. Hooked(next', prev', next, prev, v, front[l])
    BY <1>1, <1>2, PushHooks
  <1>5. Woven(items, {}, front, next, prev, Null) /\ Apart(items)
    BY <1>2 DEF SpInv, Woven
  <1> HIDE DEF t
  <1>6. Woven([items EXCEPT ![l] = t], {}, [front EXCEPT ![l] = v], next', prev', Null)
    BY <1>2, <1>3, <1>4, <1>5, WovenPush
  <1>7. \A w : Member([items EXCEPT ![l] = t], w) <=> w = v \/ Member(items, w)
    BY <1>1, <1>2, <1>3, <1>5, ApartPush
  <1>8. Exact([items EXCEPT ![l] = t], alive, held)
    BY <1>2, <1>7 DEF SpInv, Exact
  <1>9. size' \in [Lists -> Nat] /\ Sizes'
    BY <1>1, <1>2, <1>3 DEF SpInv, Sizes, Tables, Pushed
  <1> QED
    BY <1>2, <1>6, <1>8, <1>9 DEF SpInv, OneGone

\* erase of a value of the list, to which the user has a pointer: nothing goes.
LEMMA EraseInv ==
  ASSUME SpInv, NEW l \in Lists, NEW v \in Values, erase(l, v)
  PROVE  SpInv' /\ OneGone
  <1> DEFINE fr == [front EXCEPT ![l] = IF v = front[l] THEN next[v] ELSE front[l]]
             nx == [Assign(next, prev[v], next[v]) EXCEPT ![v] = Null]
             pv == [Assign(prev, next[v], prev[v]) EXCEPT ![v] = Null]
  <1>1. /\ items \in Tables /\ next \in Hooks /\ prev \in Hooks
        /\ items[l] \in Seq(Values)
    BY SpFacts DEF Tables
  <1>2. /\ clearing = Null /\ v \in held /\ Release(fr, nx, pv, held)
        /\ size' = [size EXCEPT ![l] = @ - 1] /\ clearing' = clearing
    BY DEF erase
  <1>3. PICK p \in 1 .. Len(items[l]) :
          items[l][p] = v /\ items' = [items EXCEPT ![l] = RemoveAt(@, p)]
    BY DEF erase
  <1> DEFINE t == RemoveAt(items[l], p)
             it == [items EXCEPT ![l] = t]
  <1>4. items' = it /\ Without(t, items[l], p)
    BY <1>1, <1>3, RemoveAtIsWithout
  <1>5. Unhooked(nx, pv, next, prev, v)
    BY <1>1, EraseHooks
  <1>6. Woven(items, {}, front, next, prev, Null) /\ Apart(items)
    BY <1>2 DEF SpInv, Woven
  <1> HIDE DEF fr, nx, pv, t
  <1>7. Woven(it, {}, fr, nx, pv, Null)
    <2>1. v = items[l][p] /\ Without(t, items[l], p)
      BY <1>3, <1>4
    <2>2. Woven([items EXCEPT ![l] = t], {},
                [front EXCEPT ![l] = IF v = front[l] THEN next[v] ELSE front[l]],
                nx, pv, Null)
      BY <1>5, <1>6, <2>1, WovenErase
    <2> QED
      BY <2>2, Zenon DEF fr
  <1>8. \A w : Member(it, w) <=> w # v /\ Member(items, w)
    BY <1>1, <1>3, <1>4, <1>6, ApartWithout
  <1>9. size' \in [Lists -> Nat] /\ Sizes'
    <2>1. size[l] = Len(items[l]) /\ Len(items[l]) > 0 /\ size \in [Lists -> Nat]
      BY <1>1, <1>2, <1>3, ListAssumption DEF SpInv, Sizes
    <2>2. it[l] = t /\ Len(t) = Len(items[l]) - 1
          /\ \A k \in Lists : k # l => it[k] = items[k]
      BY <1>1, <1>4 DEF Without, Tables
    <2> QED
      BY <1>1, <1>2, <1>4, <2>1, <2>2 DEF SpInv, Sizes
  <1> HIDE DEF it
  <1>10. /\ held \in SUBSET alive /\ alive \in SUBSET Values
         /\ \A w : Member(it, w) => w \in alive
    BY <1>8, SpFacts DEF SpInv
  <1>11. /\ Woven(it, {}, front', next', prev', Null)
         /\ held' = held /\ alive' \in SUBSET Values /\ Exact(it, alive', held')
         /\ alive \ alive' = {w \in alive : w \notin held /\ ~Member(it, w)}
    BY <1>2, <1>7, <1>10, ReleaseExact
  <1>12. SpInv'
    BY <1>2, <1>4, <1>9, <1>11 DEF SpInv, Exact
  <1>13. alive \ alive' \subseteq {v}
    BY <1>8, <1>11 DEF SpInv, Exact
  <1> QED
    BY <1>12, <1>13 DEF OneGone

\* clear() begins.
LEMMA ClearInv ==
  ASSUME SpInv, NEW l \in Lists, Clear(l) PROVE SpInv' /\ OneGone
  <1>1. /\ clearing = Null /\ clearing' = l /\ alive' = alive
        /\ front' = front /\ size' = size /\ next' = next /\ prev' = prev
        /\ held' = held /\ items' = items
    BY DEF Clear
  <1>2. Woven(items, {}, front, next, prev, l)
    BY <1>1, ListAssumption DEF SpInv, Woven, Strand
  <1> QED
    BY <1>1, <1>2, ListAssumption DEF SpInv, Sizes, OneGone

\* A round of clear() lets the first value go.
LEMMA ClearRoundInv ==
  ASSUME SpInv, NEW l \in Lists, ClearRound(l) PROVE SpInv' /\ OneGone
  <1> DEFINE f == front[l]
             fr == [front EXCEPT ![l] = next[f]]
             nx == [next EXCEPT ![f] = Null]
             pv == [prev EXCEPT ![f] = Null]
             t == Tail(items[l])
             it == [items EXCEPT ![l] = t]
  <1>1. items \in Tables /\ items[l] \in Seq(Values)
    BY SpFacts DEF Tables
  <1>2. /\ clearing = l /\ f # Null /\ Release(fr, nx, pv, held)
        /\ items' = it /\ size' = size /\ clearing' = clearing
    BY DEF ClearRound
  <1>3. Woven(items, {}, front, next, prev, l) /\ Apart(items)
    BY <1>2 DEF SpInv, Woven
  <1>4. Len(items[l]) > 0 /\ f = items[l][1]
    BY <1>1, <1>2, <1>3 DEF Woven, Strand, Nth
  <1>5. Without(t, items[l], 1)
    BY <1>1, <1>4, TailIsWithout
  <1> HIDE DEF t
  <1>6. Woven(it, {}, fr, nx, pv, l)
    BY <1>3, <1>4, <1>5, WovenRound
  <1>7. \A w : Member(it, w) <=> w # f /\ Member(items, w)
    <2>1. 1 \in 1 .. Len(items[l])
      BY <1>1, <1>4
    <2> QED
      BY <1>1, <1>3, <1>4, <1>5, <2>1, ApartWithout
  <1>8. Sizes'
    <2>1. \A k \in Lists : k # l => it[k] = items[k]
      BY <1>1, <1>5 DEF Without, Tables
    <2> QED
      BY <1>2, <2>1 DEF SpInv, Sizes
  <1> HIDE DEF f, fr, nx, pv, it
  <1>9. /\ held \in SUBSET alive /\ alive \in SUBSET Values
        /\ \A w : Member(it, w) => w \in alive
    BY <1>7, SpFacts DEF SpInv
  <1>10. /\ Woven(it, {}, front', next', prev', l)
         /\ held' = held /\ alive' \in SUBSET Values /\ Exact(it, alive', held')
         /\ alive \ alive' = {w \in alive : w \notin held /\ ~Member(it, w)}
    BY <1>2, <1>6, <1>9, ReleaseExact
  <1>11. SpInv'
    BY <1>2, <1>8, <1>10 DEF SpInv, Exact
  <1>12. alive \ alive' \subseteq {f}
    BY <1>7, <1>10 DEF SpInv, Exact
  <1> QED
    BY <1>11, <1>12 DEF OneGone

\* clear() ends with an empty list.
LEMMA ClearEndInv ==
  ASSUME SpInv, NEW l \in Lists, ClearEnd(l) PROVE SpInv' /\ OneGone
  <1>1. /\ clearing = l /\ front[l] = Null
        /\ size' = [size EXCEPT ![l] = 0] /\ clearing' = Null
        /\ front' = front /\ next' = next /\ prev' = prev
        /\ alive' = alive /\ held' = held /\ items' = items
    BY DEF ClearEnd
  <1>2. items[l] \in Seq(Values) /\ Len(items[l]) = 0
    <2>1. items[l] \in Seq(Values) /\ front[l] = Nth(items[l], 1)
      BY SpFacts DEF Tables, SpInv, Woven, Strand
    <2> QED
      BY <1>1, <2>1, ListAssumption DEF Nth
  <1>3. Woven(items, {}, front, next, prev, Null)
    BY <1>1, <1>2, ListAssumption DEF SpInv, Woven, Strand
  <1>4. size' \in [Lists -> Nat] /\ Sizes'
    BY <1>1, <1>2 DEF SpInv, Sizes
  <1> QED
    BY <1>1, <1>3, <1>4 DEF SpInv, OneGone

\* Every step of lists of shared_ptr keeps the invariant and destroys at most one
\* value.
LEMMA SpStep ==
  ASSUME SpInv, Next PROVE SpInv' /\ OneGone
  BY MakeInv, HoldInv, DropInv, PushFrontInv, EraseInv, ClearInv, ClearRoundInv,
     ClearEndInv DEF Next

-----------------------------------------------------------------------------
(***************************************************************************)
(* Plain lists, which keep their last values as well.                       *)
(***************************************************************************)
Ended(it, bk) == bk \in Fronts /\ \A l \in Lists : bk[l] = Nth(it[l], Len(it[l]))

\* The values of the list g, if it is one.
Of(it, g) == {v \in Values : g \in Lists /\ \E i \in 1 .. Len(it[g]) : it[g][i] = v}

\* The lists change hands as wholes: after that a list has what src names, or is
\* empty, and what g had nobody has.
Moved(u, gr, br, it, fr, bk, src, g) ==
  /\ u \in Tables /\ gr \in Fronts /\ br \in Fronts
  /\ src \in [Lists -> Lists \cup {Null}]
  /\ \A l, k \in Lists : src[l] = src[k] /\ src[l] # Null => l = k
  /\ \A l \in Lists :
       IF src[l] = Null THEN u[l] = <<>> /\ gr[l] = Null /\ br[l] = Null
       ELSE u[l] = it[src[l]] /\ gr[l] = fr[src[l]] /\ br[l] = bk[src[l]]
  /\ \A k \in Lists : k = g <=> \A l \in Lists : src[l] # k

\* Whole lists change hands: no hook needs to change.
LEMMA WovenMoved ==
  ASSUME NEW it, NEW out, NEW fr, NEW nx, NEW pv, NEW bk,
         Woven(it, out, fr, nx, pv, Null), Ended(it, bk),
         NEW u, NEW gr, NEW br, NEW src, NEW g, Moved(u, gr, br, it, fr, bk, src, g)
  PROVE  Woven(u, out \cup Of(it, g), gr, nx, pv, Null) /\ Ended(u, br)
  <1>1. it \in Tables /\ nx \in Hooks /\ pv \in Hooks /\ Apart(it)
    BY DEF Woven
  <1>2. u \in Tables /\ gr \in Fronts /\ br \in Fronts
    BY DEF Moved
  <1>3. ASSUME NEW l \in Lists, NEW i \in 1 .. Len(u[l])
        PROVE  src[l] # Null /\ src[l] \in Lists /\ u[l] = it[src[l]]
    <2>1. src[l] # Null
      BY <1>3 DEF Moved
    <2> QED
      BY <2>1 DEF Moved
  <1>4. ASSUME NEW l \in Lists, NEW k \in Lists,
               NEW i \in 1 .. Len(u[l]), NEW j \in 1 .. Len(u[k]), u[l][i] = u[k][j]
        PROVE  l = k /\ i = j
    <2>1. src[l] \in Lists /\ src[k] \in Lists /\ src[l] # Null
          /\ u[l] = it[src[l]] /\ u[k] = it[src[k]]
      BY <1>3
    <2>2. src[l] = src[k] /\ i = j
      BY <1>1, <1>4, <2>1 DEF Apart
    <2> QED
      BY <2>1, <2>2 DEF Moved
  <1>5. Apart(u)
    BY <1>4 DEF Apart
  <1>6. ASSUME NEW l \in Lists
        PROVE  /\ Strand(u[l], gr[l], nx, pv, Null # l)
               /\ br[l] = Nth(u[l], Len(u[l]))
    <2>1. CASE src[l] = Null
      <3>1. u[l] = <<>> /\ gr[l] = Null /\ br[l] = Null
        BY <2>1 DEF Moved
      <3> QED
        BY <3>1 DEF Strand, Nth
    <2>2. CASE src[l] # Null
      <3>1. /\ src[l] \in Lists /\ u[l] = it[src[l]]
            /\ gr[l] = fr[src[l]] /\ br[l] = bk[src[l]]
        BY <2>2 DEF Moved
      <3>2. Strand(it[src[l]], fr[src[l]], nx, pv, TRUE)
        BY <3>1, WovenStrand
      <3>3. bk[src[l]] = Nth(it[src[l]], Len(it[src[l]]))
        BY <3>1 DEF Ended
      <3> QED
        BY <3>1, <3>2, <3>3 DEF Strand
    <2> QED
      BY <2>1, <2>2
  <1>7. ASSUME NEW v, Member(u, v)
        PROVE  Member(it, v) /\ v \notin Of(it, g)
    <2>1. PICK l \in Lists : \E i \in 1 .. Len(u[l]) : u[l][i] = v
      BY <1>7 DEF Member
    <2>2. PICK i \in 1 .. Len(u[l]) : u[l][i] = v
      BY <2>1
    <2>3. src[l] \in Lists /\ i \in 1 .. Len(it[src[l]]) /\ it[src[l]][i] = v
      BY <1>3, <2>2
    <2>4. src[l] # g
      BY <2>3 DEF Moved
    <2> QED
      BY <1>1, <2>3, <2>4 DEF Member, Of, Apart
  <1>8. ASSUME NEW v \in Values, Member(it, v), v \notin Of(it, g)
        PROVE  Member(u, v)
    <2>1. PICK k \in Lists : \E i \in 1 .. Len(it[k]) : it[k][i] = v
      BY <1>8 DEF Member
    <2>2. k # g
      BY <1>8, <2>1 DEF Of
    <2>3. PICK l \in Lists : src[l] = k
      BY <2>2 DEF Moved
    <2>4. k # Null
      BY ListAssumption
    <2>5. u[l] = it[k]
      BY <2>3, <2>4 DEF Moved
    <2> QED
      BY <2>1, <2>5 DEF Member
  <1>9. Blank(it, out, nx, pv)
    BY DEF Woven
  <1>10. ASSUME NEW v \in out \cup Of(it, g) PROVE ~Member(u, v)
    BY <1>7, <1>9 DEF Blank
  <1>11. ASSUME NEW v \in Values, v \notin out \cup Of(it, g), ~Member(u, v)
         PROVE  nx[v] = Null /\ pv[v] = Null
    BY <1>8, <1>9, <1>11 DEF Blank
  <1>12. Blank(u, out \cup Of(it, g), nx, pv)
    BY <1>10, <1>11 DEF Blank
  <1> QED
    BY <1>1, <1>2, <1>5, <1>6, <1>12 DEF Woven, Ended

\* The last value of a list, a value pushed.
LEMMA EndedPush ==
  ASSUME NEW it \in Tables, NEW bk, Ended(it, bk), NEW l \in Lists, NEW v \in Values,
         NEW t, Pushed(t, v, it[l])
  PROVE  Ended([it EXCEPT ![l] = t],
               [bk EXCEPT ![l] = IF bk[l] = Null THEN v ELSE bk[l]])
  <1>1. bk \in Fronts /\ bk[l] \in Pointers /\ it[l] \in Seq(Values)
    BY DEF Ended, Fronts, Tables
  <1>2. (IF bk[l] = Null THEN v ELSE bk[l]) = Nth(t, Len(t))
    <2>1. bk[l] = Nth(it[l], Len(it[l]))
      BY DEF Ended
    <2>2. CASE Len(it[l]) = 0
      BY <1>1, <2>1, <2>2 DEF Nth, Pushed
    <2>3. CASE Len(it[l]) > 0
      <3>1. bk[l] = it[l][Len(it[l])] /\ bk[l] # Null
        BY <1>1, <2>1, <2>3, ListAssumption DEF Nth
      <3>2. t[Len(t)] = it[l][Len(it[l])]
        BY <1>1, <2>3 DEF Pushed
      <3> QED
        BY <1>1, <3>1, <3>2 DEF Nth, Pushed
    <2> QED
      BY <1>1, <2>2, <2>3
  <1> QED
    BY <1>1, <1>2 DEF Ended, Fronts, Pointers, Tables

\* The last value of a list, a value taken out.
LEMMA EndedWithout ==
  ASSUME NEW it \in Tables, Apart(it), NEW bk, Ended(it, bk), NEW l \in Lists,
         NEW p \in 1 .. Len(it[l]), NEW t, Without(t, it[l], p)
  PROVE  Ended([it EXCEPT ![l] = t],
               [bk EXCEPT ![l] = IF it[l][p] = bk[l] THEN Nth(it[l], p - 1) ELSE bk[l]])
  <1>1. bk \in Fronts /\ bk[l] \in Pointers /\ it[l] \in Seq(Values)
    BY DEF Ended, Fronts, Tables
  <1>2. (IF it[l][p] = bk[l] THEN Nth(it[l], p - 1) ELSE bk[l]) = Nth(t, Len(t))
    <2>1. bk[l] = it[l][Len(it[l])]
      BY <1>1 DEF Ended, Nth
    <2>2. it[l][p] = bk[l] <=> p = Len(it[l])
      BY <1>1, <2>1 DEF Apart
    <2>3. CASE p = Len(it[l])
      BY <1>1, <2>2, <2>3 DEF Nth, Without
    <2>4. CASE p < Len(it[l])
      BY <1>1, <2>1, <2>2, <2>4 DEF Nth, Without
    <2> QED
      BY <1>1, <2>3, <2>4
  <1>3. Nth(it[l], p - 1) \in Pointers
    BY <1>1 DEF Nth, Pointers
  <1> QED
    BY <1>1, <1>2, <1>3 DEF Ended, Fronts, Tables

\* A value that was nowhere is pushed behind the others.
LEMMA ApartAppend ==
  ASSUME NEW it \in Tables, Apart(it), NEW l \in Lists, NEW v \in Values,
         ~Member(it, v), NEW t, Joined(t, it[l], <<v>>)
  PROVE  /\ Apart([it EXCEPT ![l] = t])
         /\ \A w : Member([it EXCEPT ![l] = t], w) <=> w = v \/ Member(it, w)
  <1> DEFINE u == [it EXCEPT ![l] = t]
             n == Len(it[l])
  <1>1. /\ u \in Tables /\ u[l] = t
        /\ \A k \in Lists : k # l => u[k] = it[k]
    BY Replaced DEF Joined
  <1>2. \A k \in Lists : it[k] \in Seq(Values) /\ \A j \in 1 .. Len(it[k]) : it[k][j] # v
    BY DEF Member, Tables
  <1>3. /\ n \in Nat /\ Len(t) = n + 1 /\ t[n + 1] = v
        /\ \A i \in 1 .. n : t[i] = it[l][i]
    BY <1>2 DEF Joined
  <1>4. \A i \in 1 .. Len(t) : i = n + 1 \/ i \in 1 .. n
    BY <1>3
  <1> HIDE DEF u
  <1>5. ASSUME NEW k \in Lists, k # l, NEW i \in 1 .. Len(t), NEW j \in 1 .. Len(u[k])
        PROVE  t[i] # u[k][j]
    BY <1>1, <1>2, <1>3, <1>4, <1>5 DEF Apart
  <1>6. ASSUME NEW i \in 1 .. Len(t), NEW j \in 1 .. Len(t), t[i] = t[j]
        PROVE  i = j
    BY <1>2, <1>3, <1>4, <1>6 DEF Apart
  <1>7. Apart(u)
    BY <1>1, <1>5, <1>6 DEF Apart
  <1>8. ASSUME NEW w, Member(u, w) PROVE w = v \/ Member(it, w)
    BY <1>1, <1>3, <1>4, <1>8 DEF Member
  <1>9. Member(u, v)
    BY <1>1, <1>3 DEF Member
  <1>10. ASSUME NEW w, Member(it, w) PROVE Member(u, w)
    BY <1>1, <1>3, <1>10 DEF Member
  <1>11. \A w : Member(u, w) <=> w = v \/ Member(it, w)
    BY <1>8, <1>9, <1>10
  <1> QED
    BY <1>7, <1>11 DEF u

\* push_back of a value that is nowhere.
LEMMA WovenAppend ==
  ASSUME NEW it, NEW out, NEW fr, NEW nx, NEW pv, NEW bk,
         Woven(it, out, fr, nx, pv, Null), Ended(it, bk),
         NEW l \in Lists, NEW v \in Values, v \notin out, ~Member(it, v),
         NEW t, Joined(t, it[l], <<v>>),
         NEW ny, NEW py, Tied(ny, py, nx, pv, bk[l], v)
  PROVE  /\ Woven([it EXCEPT ![l] = t], out,
                  [fr EXCEPT ![l] = IF fr[l] = Null THEN v ELSE fr[l]], ny, py, Null)
         /\ Ended([it EXCEPT ![l] = t], [bk EXCEPT ![l] = v])
  <1> DEFINE f == IF fr[l] = Null THEN v ELSE fr[l]
             s == it[l]
  <1>1. /\ it \in Tables /\ Apart(it) /\ t \in Seq(Values) /\ fr[l] \in Pointers
        /\ ny \in Hooks /\ py \in Hooks /\ bk \in Fronts
    BY DEF Woven, Joined, Pointers, Tied, Fronts, Ended
  <1>2. s \in Seq(Values) /\ Injective(s)
    BY <1>1, ApartInjective
  <1>3. Strand(s, fr[l], nx, pv, TRUE)
    BY WovenStrand
  <1>4. pv[v] = Null /\ nx[v] = Null
    BY DEF Woven, Blank
  <1>5. \A k \in Lists : \A i \in 1 .. Len(it[k]) : it[k][i] # v /\ it[k][i] \in Values
    BY <1>1 DEF Member, Tables
  <1>6. bk[l] = Nth(s, Len(s))
    BY DEF Ended
  <1> HIDE DEF f
  <1>7. f \in Pointers /\ Strand(t, f, ny, py, TRUE)
    <2>1. CASE Len(s) = 0
      <3>1. fr[l] = Null /\ bk[l] = Null /\ f = v
        BY <1>3, <1>6, <2>1 DEF Strand, Nth, f
      <3>2. Len(t) = 1 /\ t[1] = v
        BY <1>2, <2>1 DEF Joined
      <3>3. ny[v] = Null /\ py[v] = Null
        BY <1>4, <3>1, ListAssumption DEF Tied
      <3> QED
        BY <3>1, <3>2, <3>3 DEF Strand, Nth, Pointers
    <2>2. CASE Len(s) > 0
      <3>1. fr[l] = s[1] /\ bk[l] = s[Len(s)] /\ f = fr[l]
        BY <1>2, <1>3, <1>6, <2>2, ListAssumption DEF Strand, Nth, f
      <3> DEFINE r == <<v>>
      <3>2. r \in Seq(Values) /\ Len(r) = 1 /\ r[1] = v /\ Injective(r)
            /\ Len(r) > 0
        BY DEF Injective
      <3>3. Strand(r, v, nx, pv, TRUE)
        BY <1>4, <3>2 DEF Strand, Nth
      <3>4. \A i \in 1 .. Len(s), j \in 1 .. Len(r) : s[i] # r[j]
        BY <1>5, <3>2
      <3>5. Joined(t, s, r) /\ Tied(ny, py, nx, pv, s[Len(s)], v)
        BY <3>1
      <3> HIDE DEF r, s
      <3>6. Strand(t, fr[l], ny, py, TRUE)
        BY <1>2, <1>3, <2>2, <3>2, <3>3, <3>4, <3>5, StrandJoin, ZenonT(40)
      <3> QED
        BY <1>1, <3>1, <3>6
    <2>3. Len(s) = 0 \/ Len(s) > 0
      BY <1>2
    <2> QED
      BY <2>1, <2>2, <2>3, Zenon
  <1>8. /\ Apart([it EXCEPT ![l] = t])
        /\ \A w : Member([it EXCEPT ![l] = t], w) <=> w = v \/ Member(it, w)
    BY <1>1, ApartAppend
  <1>9. bk[l] = Null \/ \E i \in 1 .. Len(it[l]) : bk[l] = it[l][i]
    BY <1>6 DEF Nth
  <1>10. ASSUME NEW k \in Lists, k # l, NEW i \in 1 .. Len(it[k])
         PROVE  ny[it[k][i]] = nx[it[k][i]] /\ py[it[k][i]] = pv[it[k][i]]
    <2>1. it[k][i] # bk[l]
      BY <1>1, <1>5, <1>9, <1>10, ListAssumption DEF Apart
    <2> QED
      BY <1>5, <2>1 DEF Tied
  <1>11. Elsewhere(it, l, nx, pv, ny, py)
    BY <1>10 DEF Elsewhere
  <1>12. ASSUME NEW w \in Values, w \notin out, w # v, ~Member(it, w)
         PROVE  ny[w] = Null /\ py[w] = Null
    <2>1. w # bk[l]
      BY <1>9, <1>12, ListAssumption DEF Member
    <2> QED
      BY <1>12, <2>1 DEF Tied, Woven, Blank
  <1>13. Blank([it EXCEPT ![l] = t], out, ny, py)
    BY <1>8, <1>12 DEF Woven, Blank
  <1>14. Strand(t, f, ny, py, Null # l)
    BY <1>7, ListAssumption DEF Strand
  <1>15. Ended([it EXCEPT ![l] = t], [bk EXCEPT ![l] = v])
    <2>1. Nth(t, Len(t)) = v
      BY <1>2 DEF Nth, Joined
    <2> QED
      BY <1>1, <2>1 DEF Ended, Fronts, Pointers, Tables
  <1>16. Woven([it EXCEPT ![l] = t], out, [fr EXCEPT ![l] = f], ny, py, Null)
    BY <1>1, <1>7, <1>8, <1>11, <1>13, <1>14, WovenReplaced
  <1> QED
    BY <1>15, <1>16 DEF f

\* The list l gets the values of a and then those of b, one of which is l itself,
\* and k, the other one, is left empty.
Spliced(u, gr, br, it, fr, bk, a, b, l, k) ==
  /\ u \in Tables /\ gr \in Fronts /\ br \in Fronts
  /\ l # k /\ ((a = l /\ b = k) \/ (a = k /\ b = l)) /\ Len(it[a]) > 0 /\ Len(it[b]) > 0
  /\ Joined(u[l], it[a], it[b]) /\ gr[l] = fr[a] /\ br[l] = bk[b]
  /\ u[k] = <<>> /\ gr[k] = Null /\ br[k] = Null
  /\ \A m \in Lists : m # l /\ m # k => u[m] = it[m] /\ gr[m] = fr[m] /\ br[m] = bk[m]

\* The values of a table with two lists spliced are those of the table before.
LEMMA ApartSplice ==
  ASSUME NEW it \in Tables, Apart(it), NEW fr, NEW bk, NEW u, NEW gr, NEW br,
         NEW a \in Lists, NEW b \in Lists, NEW l \in Lists, NEW k \in Lists,
         Spliced(u, gr, br, it, fr, bk, a, b, l, k)
  PROVE  Apart(u) /\ \A w : Member(u, w) <=> Member(it, w)
  <1> DEFINE n == Len(it[a])
             o == Len(it[b])
             t == u[l]
             of(i) == IF i <= n THEN a ELSE b
             at(i) == IF i <= n THEN i ELSE i - n
  <1>0. Joined(t, it[a], it[b]) /\ a # b /\ ((a = l /\ b = k) \/ (a = k /\ b = l))
    BY DEF Spliced
  <1>1. /\ it[a] \in Seq(Values) /\ it[b] \in Seq(Values) /\ n \in Nat
        /\ o \in Nat /\ Len(t) = n + o
        /\ \A i \in 1 .. Len(t) : t[i] = IF i <= n THEN it[a][i] ELSE it[b][i - n]
    BY <1>0 DEF Tables, Joined
  <1>2. /\ Len(u[k]) = 0
        /\ \A m \in Lists : m # l /\ m # k => u[m] = it[m] /\ m # a /\ m # b
    BY <1>0 DEF Spliced
  <1> HIDE DEF t, n, o
  <1>3. ASSUME NEW i \in 1 .. Len(t)
        PROVE  /\ of(i) \in {a, b} /\ of(i) \in Lists
               /\ at(i) \in 1 .. Len(it[of(i)]) /\ t[i] = it[of(i)][at(i)]
    <2>1. CASE i <= n
      <3>1. of(i) = a /\ at(i) = i /\ i \in 1 .. n /\ t[i] = it[a][i]
        BY <1>1, <2>1
      <3> QED
        BY <3>1, Zenon DEF n
    <2>2. CASE i > n
      <3>1. of(i) = b /\ at(i) = i - n /\ i - n \in 1 .. o /\ t[i] = it[b][i - n]
        BY <1>1, <2>2
      <3> QED
        BY <3>1, Zenon DEF o
    <2> QED
      BY <1>1, <2>1, <2>2
  <1>4. \A i, j \in 1 .. Len(t) : of(i) = of(j) /\ at(i) = at(j) => i = j
    BY <1>0, <1>1
  <1>5. \A i \in 1 .. n : i \in 1 .. Len(t) /\ t[i] = it[a][i]
    BY <1>1
  <1>6. ASSUME NEW i \in 1 .. o
        PROVE  n + i \in 1 .. Len(t) /\ t[n + i] = it[b][i]
    <2>1. n + i \in 1 .. Len(t) /\ ~(n + i <= n) /\ (n + i) - n = i
      BY <1>1
    <2> QED
      BY <1>1, <2>1
  <1> HIDE DEF of, at
  <1>7. ASSUME NEW m \in Lists, m # l, NEW i \in 1 .. Len(t), NEW j \in 1 .. Len(u[m])
        PROVE  t[i] # u[m][j]
    <2>1. m # k /\ u[m] = it[m] /\ m # a /\ m # b
      BY <1>2, <1>7
    <2> QED
      BY SMTT(30), <1>3, <1>7, <2>1 DEF Apart
  <1>8. ASSUME NEW i \in 1 .. Len(t), NEW j \in 1 .. Len(t), t[i] = t[j]
        PROVE  i = j
    BY <1>3, <1>4, <1>8 DEF Apart
  <1>9. ASSUME NEW m \in Lists, m # l, NEW h \in Lists, h # l,
               NEW i \in 1 .. Len(u[m]), NEW j \in 1 .. Len(u[h]), u[m][i] = u[h][j]
        PROVE  m = h /\ i = j
    <2>1. m # k /\ h # k
      BY <1>2, <1>9
    <2> QED
      BY <1>2, <1>9, <2>1 DEF Apart
  <1>10. Apart(u)
    BY <1>7, <1>8, <1>9 DEF Apart, t
  <1>11. ASSUME NEW w, Member(u, w) PROVE Member(it, w)
    <2>1. PICK m \in Lists : \E i \in 1 .. Len(u[m]) : u[m][i] = w
      BY <1>11 DEF Member
    <2>2. CASE m = l
      BY <1>3, <2>1, <2>2 DEF Member, t
    <2>3. CASE m # l
      <3>1. m # k
        BY <1>2, <2>1
      <3> QED
        BY <1>2, <2>1, <2>3, <3>1 DEF Member
    <2> QED
      BY <2>2, <2>3
  <1>12. ASSUME NEW w, Member(it, w) PROVE Member(u, w)
    <2>1. PICK m \in Lists : \E i \in 1 .. Len(it[m]) : it[m][i] = w
      BY <1>12 DEF Member
    <2>2. CASE m = a
      BY <1>5, <2>1, <2>2 DEF Member, t, n
    <2>3. CASE m = b
      BY <1>6, <2>1, <2>3 DEF Member, t, o
    <2>4. CASE m # a /\ m # b
      <3>1. m # l /\ m # k
        BY <1>0, <2>4
      <3> QED
        BY <1>2, <2>1, <3>1 DEF Member
    <2> QED
      BY <2>2, <2>3, <2>4
  <1> QED
    BY <1>10, <1>11, <1>12

\* insert_front and insert_back: two strands become one.
LEMMA WovenSplice ==
  ASSUME NEW it, NEW out, NEW fr, NEW nx, NEW pv, NEW bk,
         Woven(it, out, fr, nx, pv, Null), Ended(it, bk),
         NEW a \in Lists, NEW b \in Lists, NEW l \in Lists, NEW k \in Lists,
         NEW u, NEW gr, NEW br, Spliced(u, gr, br, it, fr, bk, a, b, l, k),
         NEW ny, NEW py, Tied(ny, py, nx, pv, bk[a], fr[b])
  PROVE  Woven(u, out, gr, ny, py, Null) /\ Ended(u, br)
  <1> DEFINE s == it[a]
             r == it[b]
             t == u[l]
  <1>1. /\ it \in Tables /\ Apart(it) /\ Blank(it, out, nx, pv)
        /\ ny \in Hooks /\ py \in Hooks
    BY DEF Woven, Tied
  <1>2. /\ u \in Tables /\ gr \in Fronts /\ br \in Fronts /\ l # k /\ a # b
        /\ ((a = l /\ b = k) \/ (a = k /\ b = l)) /\ Len(s) > 0 /\ Len(r) > 0
        /\ Joined(t, s, r) /\ gr[l] = fr[a] /\ br[l] = bk[b]
    BY DEF Spliced
  <1>3. s \in Seq(Values) /\ Injective(s) /\ r \in Seq(Values) /\ Injective(r)
    BY <1>1, ApartInjective
  <1>4. Strand(s, fr[a], nx, pv, TRUE) /\ Strand(r, fr[b], nx, pv, TRUE)
    BY WovenStrand
  <1>5. \A i \in 1 .. Len(s), j \in 1 .. Len(r) : s[i] # r[j]
    BY <1>1, <1>2 DEF Apart
  <1>6. /\ bk[a] = s[Len(s)] /\ Len(s) \in 1 .. Len(s)
        /\ fr[b] = r[1] /\ 1 \in 1 .. Len(r)
        /\ bk[b] = r[Len(r)] /\ Len(r) \in Nat /\ Len(s) \in Nat
    BY <1>2, <1>3, <1>4 DEF Ended, Strand, Nth
  <1>7. Apart(u) /\ \A w : Member(u, w) <=> Member(it, w)
    BY <1>1, ApartSplice
  <1>8. ASSUME NEW m \in Lists, m # a, m # b, NEW i \in 1 .. Len(it[m])
        PROVE  ny[it[m][i]] = nx[it[m][i]] /\ py[it[m][i]] = pv[it[m][i]]
    <2>1. it[m][i] \in Values /\ it[m][i] # bk[a] /\ it[m][i] # fr[b]
      BY <1>1, <1>6, <1>8 DEF Apart, Tables
    <2> QED
      BY <2>1 DEF Tied
  <1>9. Blank(u, out, ny, py)
    <2>1. Member(it, bk[a]) /\ Member(it, fr[b])
      BY <1>6 DEF Member
    <2>2. ASSUME NEW w \in Values, ~Member(it, w)
          PROVE  ny[w] = nx[w] /\ py[w] = pv[w]
      BY <2>1, <2>2 DEF Tied
    <2> QED
      BY <1>1, <1>7, <2>2 DEF Blank
  <1> HIDE DEF s, r, t
  <1>10. Nth(t, Len(t)) = bk[b]
    <2>1. /\ Len(t) \in 1 .. Len(t) /\ ~(Len(t) <= Len(s))
          /\ Len(t) - Len(s) = Len(r)
      BY <1>2, <1>6 DEF Joined
    <2>2. t[Len(t)] = r[Len(r)]
      BY <1>2, <2>1 DEF Joined
    <2> QED
      BY <1>6, <2>1, <2>2 DEF Nth
  <1>11. Tied(ny, py, nx, pv, s[Len(s)], fr[b])
    BY <1>6
  <1>12. Strand(t, fr[a], ny, py, TRUE)
    BY <1>2, <1>3, <1>4, <1>5, <1>11, StrandJoin
  <1>13. ASSUME NEW m \in Lists
         PROVE  Strand(u[m], gr[m], ny, py, TRUE) /\ br[m] = Nth(u[m], Len(u[m]))
    <2>1. CASE m = l
      BY <1>2, <1>10, <1>12, <2>1 DEF t
    <2>2. CASE m = k
      <3>1. u[m] = <<>> /\ gr[m] = Null /\ br[m] = Null
        BY <2>2 DEF Spliced
      <3> QED
        BY <3>1 DEF Strand, Nth
    <2>3. CASE m # l /\ m # k
      <3>1. u[m] = it[m] /\ gr[m] = fr[m] /\ br[m] = bk[m]
        BY <2>3 DEF Spliced
      <3>2. Strand(it[m], fr[m], nx, pv, TRUE)
        BY WovenStrand
      <3>3. \A i \in 1 .. Len(it[m]) :
              ny[it[m][i]] = nx[it[m][i]] /\ py[it[m][i]] = pv[it[m][i]]
        BY <1>2, <1>8, <2>3
      <3>4. Strand(it[m], fr[m], ny, py, TRUE)
        BY <3>2, <3>3, StrandKept
      <3>5. bk[m] = Nth(it[m], Len(it[m]))
        BY DEF Ended
      <3> QED
        BY <3>1, <3>4, <3>5
    <2> QED
      BY <2>1, <2>2, <2>3
  <1>14. \A m \in Lists : Strand(u[m], gr[m], ny, py, Null # m)
    BY <1>13 DEF Strand
  <1> QED
    BY <1>1, <1>2, <1>7, <1>9, <1>13, <1>14 DEF Woven, Ended

\* A dropped value is destroyed and another made in its place.
LEMMA WovenRenew ==
  ASSUME NEW it, NEW out, NEW fr, NEW nx, NEW pv,
         Woven(it, out, fr, nx, pv, Null), NEW v \in Values, v \in out
  PROVE  Woven(it, out \ {v}, fr, [nx EXCEPT ![v] = Null], [pv EXCEPT ![v] = Null], Null)
  <1> DEFINE ny == [nx EXCEPT ![v] = Null]
             py == [pv EXCEPT ![v] = Null]
  <1>1. /\ it \in Tables /\ fr \in Fronts /\ nx \in Hooks /\ pv \in Hooks
        /\ Apart(it) /\ Blank(it, out, nx, pv) /\ ~Member(it, v)
    BY DEF Woven, Blank
  <1>2. /\ ny \in Hooks /\ py \in Hooks /\ ny[v] = Null /\ py[v] = Null
        /\ \A w \in Values : w # v => ny[w] = nx[w] /\ py[w] = pv[w]
    BY <1>1 DEF Hooks, Pointers
  <1> HIDE DEF ny, py
  <1>3. ASSUME NEW l \in Lists PROVE Strand(it[l], fr[l], ny, py, Null # l)
    <2>1. Strand(it[l], fr[l], nx, pv, Null # l)
      BY DEF Woven
    <2>2. \A i \in 1 .. Len(it[l]) : it[l][i] \in Values /\ it[l][i] # v
      BY <1>1 DEF Member, Tables
    <2>3. \A i \in 1 .. Len(it[l]) :
            ny[it[l][i]] = nx[it[l][i]] /\ py[it[l][i]] = pv[it[l][i]]
      BY <1>2, <2>2
    <2> QED
      BY <2>1, <2>3, StrandKept
  <1>4. Blank(it, out \ {v}, ny, py)
    BY <1>1, <1>2 DEF Blank
  <1>5. Woven(it, out \ {v}, fr, ny, py, Null)
    BY <1>1, <1>2, <1>3, <1>4 DEF Woven
  <1> QED
    BY <1>5 DEF ny, py

-----------------------------------------------------------------------------
(***************************************************************************)
(* The operations of the plain lists.                                       *)
(***************************************************************************)
PlainInv ==
  /\ Woven(pitems, pdropped, pfront, pnext, pprev, Null)
  /\ Ended(pitems, pback)
  /\ pdropped \in SUBSET Values

\* What every operation relies on.
LEMMA PlainFacts ==
  ASSUME PlainInv
  PROVE  /\ pitems \in Tables /\ Apart(pitems) /\ pfront \in Fronts /\ pback \in Fronts
         /\ pnext \in Hooks /\ pprev \in Hooks
         /\ \A v : Plain!Forward!Free(v) <=> v \notin pdropped /\ ~Member(pitems, v)
         /\ \A l \in Lists : /\ pitems[l] \in Seq(Values)
                             /\ Strand(pitems[l], pfront[l], pnext, pprev, TRUE)
                             /\ pback[l] = Nth(pitems[l], Len(pitems[l]))
         /\ \A l \in Lists : pfront[l] = Null <=> Len(pitems[l]) = 0
         /\ \A l \in Lists : pback[l] = Null <=> Len(pitems[l]) = 0
  <1>1. /\ pitems \in Tables /\ Apart(pitems) /\ pfront \in Fronts /\ pback \in Fronts
        /\ pnext \in Hooks /\ pprev \in Hooks
    BY DEF PlainInv, Woven, Ended
  <1>2. \A l \in Lists : /\ pitems[l] \in Seq(Values)
                         /\ DOMAIN pitems[l] = 1 .. Len(pitems[l])
    BY <1>1 DEF Tables
  <1>3. \A v : Plain!Forward!Free(v) <=> v \notin pdropped /\ ~Member(pitems, v)
    <2>1. \A v : \A l \in Lists :
            v \in Plain!Forward!ToSet(pitems[l])
            <=> \E i \in 1 .. Len(pitems[l]) : pitems[l][i] = v
      BY <1>2 DEF Plain!Forward!ToSet
    <2> QED
      BY <2>1, Zenon DEF Plain!Forward!Free, Member
  <1>4. ASSUME NEW l \in Lists
        PROVE  /\ Strand(pitems[l], pfront[l], pnext, pprev, TRUE)
               /\ pback[l] = Nth(pitems[l], Len(pitems[l]))
    BY WovenStrand DEF PlainInv, Ended
  <1>5. ASSUME NEW l \in Lists
        PROVE  /\ pfront[l] = Null <=> Len(pitems[l]) = 0
               /\ pback[l] = Null <=> Len(pitems[l]) = 0
    <2>1. Len(pitems[l]) \in Nat /\ \A i \in 1 .. Len(pitems[l]) : pitems[l][i] # Null
      BY <1>2, ListAssumption
    <2> QED
      BY <1>4, <2>1 DEF Strand, Nth
  <1> QED
    BY <1>1, <1>2, <1>3, <1>4, <1>5

\* The invariant says what the runs check.
LEMMA PlainInvSound ==
  ASSUME PlainInv
  PROVE  Plain!LinksMatch
  <1>1. Plain!TypeOK
    BY PlainFacts DEF Plain!TypeOK, PlainInv, Tables, Fronts, Hooks, Pointers,
                      Plain!Pointers
  <1>2. \A l \in Lists : \A i : Plain!Forward!At(l, i) = Nth(pitems[l], i)
    BY DEF Plain!Forward!At, Nth
  <1>3. ASSUME NEW l \in Lists
        PROVE  /\ pfront[l] = Nth(pitems[l], 1)
               /\ pback[l] = Nth(pitems[l], Len(pitems[l]))
               /\ \A i \in 1 .. Len(pitems[l]) :
                    /\ pnext[Nth(pitems[l], i)] = Nth(pitems[l], i + 1)
                    /\ pprev[Nth(pitems[l], i)] = Nth(pitems[l], i - 1)
    <2>1. /\ Strand(pitems[l], pfront[l], pnext, pprev, TRUE)
          /\ pback[l] = Nth(pitems[l], Len(pitems[l]))
      BY PlainFacts
    <2>2. \A i \in 1 .. Len(pitems[l]) : Nth(pitems[l], i) = pitems[l][i]
      BY DEF Nth
    <2> QED
      BY <2>1, <2>2 DEF Strand
  <1>4. ASSUME NEW v \in Values, Plain!Forward!Free(v)
        PROVE  pnext[v] = Null /\ pprev[v] = Null
    <2>1. v \notin pdropped /\ ~Member(pitems, v)
      BY <1>4, PlainFacts
    <2> QED
      BY <2>1 DEF PlainInv, Woven, Blank
  <1>5. Plain!Forward!NextMatches
    BY <1>2, <1>3, <1>4 DEF Plain!Forward!NextMatches
  <1>6. \A l \in Lists : \A i \in 1 .. Len(pitems[l]) :
          pprev[Plain!Forward!At(l, i)] = Plain!Forward!At(l, i - 1)
    BY <1>2, <1>3
  <1> QED
    BY <1>1, <1>4, <1>5, <1>6 DEF Plain!LinksMatch

\* Initially all is empty.
LEMMA PlainInitInv == Plain!Init => PlainInv
  <1> SUFFICES ASSUME Plain!Init PROVE PlainInv
    OBVIOUS
  <1>0. /\ pfront = [l \in Lists |-> Null] /\ pback = [l \in Lists |-> Null]
        /\ pnext = [v \in Values |-> Null] /\ pprev = [v \in Values |-> Null]
        /\ pdropped = {} /\ pitems = [l \in Lists |-> <<>>]
    BY DEF Plain!Init, Plain!Forward!Init
  <1>1. \A l \in Lists : pitems[l] = <<>> /\ Len(pitems[l]) = 0
    BY <1>0
  <1>2. /\ pitems \in Tables /\ pfront \in Fronts /\ pback \in Fronts
        /\ pnext \in Hooks /\ pprev \in Hooks
    BY <1>0 DEF Tables, Fronts, Hooks, Pointers
  <1>3. Apart(pitems)
    BY <1>1 DEF Apart
  <1>4. \A l \in Lists : Strand(pitems[l], pfront[l], pnext, pprev, Null # l)
    BY <1>0, <1>1 DEF Strand, Nth
  <1>5. Blank(pitems, pdropped, pnext, pprev)
    BY <1>0 DEF Blank
  <1>6. Ended(pitems, pback)
    BY <1>0, <1>1, <1>2 DEF Ended, Nth
  <1> QED
    BY <1>0, <1>2, <1>3, <1>4, <1>5, <1>6 DEF PlainInv, Woven

\* push_front.
LEMMA PlainPushFront ==
  ASSUME PlainInv, NEW l \in Lists, NEW v \in Values, Plain!push_front(l, v)
  PROVE  PlainInv'
  <1> DEFINE t == <<v>> \o pitems[l]
  <1>1. /\ Plain!Forward!Free(v)
        /\ pnext' = [pnext EXCEPT ![v] = pfront[l]]
        /\ pfront' = [pfront EXCEPT ![l] = v]
        /\ pback' = [pback EXCEPT ![l] = IF pback[l] = Null THEN v ELSE pback[l]]
        /\ pitems' = [pitems EXCEPT ![l] = t]
        /\ pdropped' = pdropped
        /\ pprev' = Assign(pprev, pfront[l], v)
    BY DEF Plain!push_front, Plain!Forward!push_front, Plain!Assign, Assign
  <1>2. v \notin pdropped /\ ~Member(pitems, v)
    BY <1>1, PlainFacts
  <1>3. /\ pitems \in Tables /\ pitems[l] \in Seq(Values) /\ pfront[l] \in Pointers
        /\ pnext \in Hooks /\ pprev \in Hooks
    BY PlainFacts DEF Fronts
  <1>4. Pushed(t, v, pitems[l])
    BY <1>3, PushFrontPushes
  <1>5. Hooked(pnext', pprev', pnext, pprev, v, pfront[l])
    BY <1>1, <1>3, PushHooks
  <1> HIDE DEF t
  <1>6. Woven([pitems EXCEPT ![l] = t], pdropped, [pfront EXCEPT ![l] = v],
              pnext', pprev', Null)
    BY <1>2, <1>4, <1>5, WovenPush DEF PlainInv
  <1>7. Ended([pitems EXCEPT ![l] = t],
              [pback EXCEPT ![l] = IF pback[l] = Null THEN v ELSE pback[l]])
    BY <1>3, <1>4, EndedPush DEF PlainInv
  <1> QED
    BY <1>1, <1>6, <1>7 DEF PlainInv

\* push_back.
LEMMA PlainPushBack ==
  ASSUME PlainInv, NEW l \in Lists, NEW v \in Values, Plain!push_back(l, v)
  PROVE  PlainInv'
  <1> DEFINE t == Append(pitems[l], v)
  <1>1. /\ Plain!Forward!Free(v)
        /\ pnext' = IF pback[l] = Null THEN pnext ELSE [pnext EXCEPT ![pback[l]] = v]
        /\ pback' = [pback EXCEPT ![l] = v]
        /\ pfront' = [pfront EXCEPT ![l] = IF pfront[l] = Null THEN v ELSE pfront[l]]
        /\ pitems' = [pitems EXCEPT ![l] = t]
        /\ pdropped' = pdropped
        /\ pprev' = [pprev EXCEPT ![v] = pback[l]]
    BY DEF Plain!push_back, Plain!Forward!push_back
  <1>2. v \notin pdropped /\ ~Member(pitems, v)
    BY <1>1, PlainFacts
  <1>3. /\ pitems \in Tables /\ pitems[l] \in Seq(Values) /\ pback[l] \in Pointers
        /\ pnext \in Hooks /\ pprev \in Hooks
    BY PlainFacts DEF Fronts
  <1>4. Joined(t, pitems[l], <<v>>)
    BY <1>3, PushBackJoins
  <1>5. Tied(pnext', pprev', pnext, pprev, pback[l], v)
    BY <1>1, <1>3, ListAssumption DEF Tied, Hooks, Pointers
  <1> HIDE DEF t
  <1>6. /\ Woven([pitems EXCEPT ![l] = t], pdropped,
                 [pfront EXCEPT ![l] = IF pfront[l] = Null THEN v ELSE pfront[l]],
                 pnext', pprev', Null)
        /\ Ended([pitems EXCEPT ![l] = t], [pback EXCEPT ![l] = v])
    BY <1>2, <1>4, <1>5, WovenAppend DEF PlainInv
  <1> QED
    BY <1>1, <1>6 DEF PlainInv

\* What taking a value out of a list comes to, whichever operation does it.
LEMMA PlainTake ==
  ASSUME PlainInv, NEW l \in Lists, NEW p \in 1 .. Len(pitems[l]),
         NEW v, v = pitems[l][p], NEW t, Without(t, pitems[l], p),
         Unhooked(pnext', pprev', pnext, pprev, v),
         pfront' = [pfront EXCEPT ![l] = IF v = pfront[l] THEN pnext[v] ELSE pfront[l]],
         pback' = [pback EXCEPT ![l] = IF v = pback[l] THEN pprev[v] ELSE pback[l]],
         pitems' = [pitems EXCEPT ![l] = t], pdropped' = pdropped
  PROVE  PlainInv'
  <1>1. /\ pitems \in Tables /\ Apart(pitems)
        /\ Strand(pitems[l], pfront[l], pnext, pprev, TRUE)
    BY PlainFacts
  <1>2. pprev[v] = Nth(pitems[l], p - 1)
    BY <1>1 DEF Strand
  <1>3. Woven([pitems EXCEPT ![l] = t], pdropped,
              [pfront EXCEPT ![l] = IF v = pfront[l] THEN pnext[v] ELSE pfront[l]],
              pnext', pprev', Null)
    BY WovenErase DEF PlainInv
  <1>4. Ended([pitems EXCEPT ![l] = t],
              [pback EXCEPT ![l] = IF pitems[l][p] = pback[l]
                                   THEN Nth(pitems[l], p - 1) ELSE pback[l]])
    BY <1>1, EndedWithout DEF PlainInv
  <1>5. pback' = [pback EXCEPT ![l] = IF pitems[l][p] = pback[l]
                                      THEN Nth(pitems[l], p - 1) ELSE pback[l]]
    BY <1>2, Zenon
  <1>6. Ended(pitems', pback')
    BY <1>4, <1>5
  <1> QED
    BY <1>3, <1>6 DEF PlainInv

\* erase.
LEMMA PlainErase ==
  ASSUME PlainInv, NEW l \in Lists, NEW v \in Values, Plain!erase(l, v)
  PROVE  PlainInv'
  <1>1. /\ pfront' = [pfront EXCEPT ![l] = IF v = pfront[l] THEN pnext[v] ELSE pfront[l]]
        /\ pback' = [pback EXCEPT ![l] = IF v = pback[l] THEN pprev[v] ELSE pback[l]]
        /\ pnext' = [Assign(pnext, pprev[v], pnext[v]) EXCEPT ![v] = Null]
        /\ pprev' = [Assign(pprev, pnext[v], pprev[v]) EXCEPT ![v] = Null]
        /\ pdropped' = pdropped
    BY DEF Plain!erase, Plain!Assign, Assign
  <1>2. PICK p \in 1 .. Len(pitems[l]) :
          pitems[l][p] = v /\ pitems' = [pitems EXCEPT ![l] = RemoveAt(@, p)]
    BY Zenon DEF Plain!erase, Plain!RemoveAt, RemoveAt
  <1> DEFINE t == RemoveAt(pitems[l], p)
  <1>3. pitems[l] \in Seq(Values) /\ pnext \in Hooks /\ pprev \in Hooks
    BY PlainFacts
  <1>4. Without(t, pitems[l], p)
    BY <1>3, RemoveAtIsWithout
  <1>5. Unhooked(pnext', pprev', pnext, pprev, v)
    BY <1>1, <1>3, EraseHooks
  <1>6. v = pitems[l][p] /\ pitems' = [pitems EXCEPT ![l] = t]
    BY <1>2
  <1> HIDE DEF t
  <1> QED
    BY <1>1, <1>4, <1>5, <1>6, PlainTake

\* pop_front.
LEMMA PlainPopFront ==
  ASSUME PlainInv, NEW l \in Lists, Plain!pop_front(l)
  PROVE  PlainInv'
  <1> DEFINE t == Tail(pitems[l])
             v == pfront[l]
  <1>1. /\ v # Null
        /\ pfront' = [pfront EXCEPT ![l] = pnext[v]]
        /\ pback' = [pback EXCEPT ![l] = IF pnext[v] = Null THEN Null ELSE pback[l]]
        /\ pnext' = [pnext EXCEPT ![v] = Null]
        /\ pitems' = [pitems EXCEPT ![l] = t]
        /\ pdropped' = pdropped
        /\ pprev' = [Assign(pprev, pnext[v], Null) EXCEPT ![v] = Null]
    BY DEF Plain!pop_front, Plain!Forward!pop_front, Plain!Forward!empty,
           Plain!Assign, Assign
  <1>2. /\ pitems[l] \in Seq(Values) /\ Len(pitems[l]) > 0
        /\ Strand(pitems[l], v, pnext, pprev, TRUE)
        /\ pback[l] = Nth(pitems[l], Len(pitems[l]))
        /\ pnext \in Hooks /\ pprev \in Hooks /\ Apart(pitems)
    <2>1. Len(pitems[l]) # 0 /\ pitems[l] \in Seq(Values)
      BY <1>1, PlainFacts
    <2>2. Len(pitems[l]) > 0
      BY <2>1
    <2>3. /\ Strand(pitems[l], pfront[l], pnext, pprev, TRUE)
          /\ pback[l] = Nth(pitems[l], Len(pitems[l]))
          /\ pnext \in Hooks /\ pprev \in Hooks /\ Apart(pitems)
      BY PlainFacts
    <2> QED
      BY <2>1, <2>2, <2>3
  <1>3. v = pitems[l][1] /\ v \in Values /\ 1 \in 1 .. Len(pitems[l])
    BY <1>2 DEF Strand, Nth
  <1>4. pnext[v] = Nth(pitems[l], 2) /\ pprev[v] = Null /\ pnext[v] \in Pointers
    BY <1>2, <1>3 DEF Strand, Nth, Hooks
  <1>5. Without(t, pitems[l], 1)
    BY <1>2, TailIsWithout
  <1> HIDE DEF t, v
  <1>6. Unhooked(pnext', pprev', pnext, pprev, v)
    <2>1. [Assign(pnext, pprev[v], pnext[v]) EXCEPT ![v] = Null] = pnext'
      BY <1>1, <1>4 DEF Assign
    <2>2. [Assign(pprev, pnext[v], pprev[v]) EXCEPT ![v] = Null] = pprev'
      BY <1>1, <1>4
    <2> QED
      BY <1>2, <1>3, <2>1, <2>2, EraseHooks
  <1>7. pfront' = [pfront EXCEPT ![l] = IF v = pfront[l] THEN pnext[v] ELSE pfront[l]]
    BY <1>1 DEF v
  <1>8. pnext[v] = Null <=> v = pback[l]
    <2> DEFINE n == Len(pitems[l])
    <2>0. n \in Nat /\ n > 0 /\ \A i \in 1 .. n : pitems[l][i] # Null
      BY <1>2, ListAssumption
    <2>1. pnext[v] = Null <=> n = 1
      <3>1. pnext[v] = IF 2 \in 1 .. n THEN pitems[l][2] ELSE Null
        BY <1>4 DEF Nth
      <3> HIDE DEF n
      <3> QED
        BY <2>0, <3>1
    <2>2. v = pback[l] <=> n = 1
      <3>1. pback[l] = pitems[l][n] /\ n \in 1 .. Len(pitems[l])
        BY <1>2, <2>0 DEF Nth
      <3> HIDE DEF n
      <3> QED
        BY <1>2, <1>3, <3>1 DEF Apart
    <2> HIDE DEF n
    <2> QED
      BY <2>1, <2>2
  <1>9. pback' = [pback EXCEPT ![l] = IF v = pback[l] THEN pprev[v] ELSE pback[l]]
    BY <1>1, <1>4, <1>8
  <1> QED
    BY <1>1, <1>3, <1>5, <1>6, <1>7, <1>9, PlainTake

\* pop_back.
LEMMA PlainPopBack ==
  ASSUME PlainInv, NEW l \in Lists, Plain!pop_back(l)
  PROVE  PlainInv'
  <1> DEFINE t == Front(pitems[l])
             v == pback[l]
             p == Len(pitems[l])
  <1>1. /\ v # Null
        /\ pback' = [pback EXCEPT ![l] = pprev[v]]
        /\ pfront' = [pfront EXCEPT ![l] = IF pprev[v] = Null THEN Null ELSE pfront[l]]
        /\ pnext' = [Assign(pnext, pprev[v], Null) EXCEPT ![v] = Null]
        /\ pprev' = [pprev EXCEPT ![v] = Null]
        /\ pitems' = [pitems EXCEPT ![l] = t]
        /\ pdropped' = pdropped
    BY Zenon DEF Plain!pop_back, Plain!Assign, Assign, Plain!Front, Front
  <1>2. /\ pitems[l] \in Seq(Values) /\ p > 0 /\ p \in 1 .. Len(pitems[l])
        /\ Strand(pitems[l], pfront[l], pnext, pprev, TRUE)
        /\ v = Nth(pitems[l], p)
        /\ pnext \in Hooks /\ pprev \in Hooks /\ Apart(pitems)
    <2>1. p # 0 /\ pitems[l] \in Seq(Values)
      BY <1>1, PlainFacts
    <2>2. p > 0 /\ p \in 1 .. Len(pitems[l])
      BY <2>1
    <2>3. /\ Strand(pitems[l], pfront[l], pnext, pprev, TRUE)
          /\ v = Nth(pitems[l], p)
          /\ pnext \in Hooks /\ pprev \in Hooks /\ Apart(pitems)
      BY PlainFacts
    <2> QED
      BY <2>1, <2>2, <2>3
  <1>3. v = pitems[l][p] /\ v \in Values
    BY <1>2 DEF Nth
  <1>4. /\ pnext[v] = Null /\ pprev[v] = Nth(pitems[l], p - 1)
        /\ pfront[l] = pitems[l][1]
    BY <1>2, <1>3 DEF Strand, Nth
  <1>5. Without(t, pitems[l], p)
    BY <1>2, FrontIsWithout
  <1>6. pprev[v] = Null <=> v = pfront[l]
    <2>0. p \in Nat /\ p > 0 /\ \A i \in 1 .. p : pitems[l][i] # Null
      BY <1>2, ListAssumption
    <2>1. pprev[v] = Null <=> p = 1
      <3>1. pprev[v] = IF p - 1 \in 1 .. p THEN pitems[l][p - 1] ELSE Null
        BY <1>4 DEF Nth
      <3> HIDE DEF p
      <3> QED
        BY <2>0, <3>1
    <2>2. v = pfront[l] <=> p = 1
      <3>1. 1 \in 1 .. Len(pitems[l])
        BY <1>2
      <3> HIDE DEF p
      <3> QED
        BY <1>2, <1>3, <1>4, <3>1 DEF Apart
    <2> QED
      BY <2>1, <2>2
  <1> HIDE DEF t, v, p
  <1>7. Unhooked(pnext', pprev', pnext, pprev, v)
    <2>1. [Assign(pnext, pprev[v], pnext[v]) EXCEPT ![v] = Null] = pnext'
      BY <1>1, <1>4
    <2>2. [Assign(pprev, pnext[v], pprev[v]) EXCEPT ![v] = Null] = pprev'
      BY <1>1, <1>4 DEF Assign
    <2> QED
      BY <1>2, <1>3, <2>1, <2>2, EraseHooks
  <1>8. pfront' = [pfront EXCEPT ![l] = IF v = pfront[l] THEN pnext[v] ELSE pfront[l]]
    BY <1>1, <1>4, <1>6
  <1>9. pback' = [pback EXCEPT ![l] = IF v = pback[l] THEN pprev[v] ELSE pback[l]]
    BY <1>1 DEF v
  <1> QED
    BY <1>1, <1>2, <1>3, <1>5, <1>7, <1>8, <1>9, PlainTake

\* What handing over whole lists comes to, whichever operation does it.
LEMMA PlainHandOver ==
  ASSUME PlainInv, NEW src, NEW g,
         Moved(pitems', pfront', pback', pitems, pfront, pback, src, g),
         pdropped' = pdropped \cup Of(pitems, g), pnext' = pnext, pprev' = pprev
  PROVE  PlainInv'
  <1>1. /\ Woven(pitems', pdropped \cup Of(pitems, g), pfront', pnext, pprev, Null)
        /\ Ended(pitems', pback')
    BY WovenMoved DEF PlainInv
  <1>2. pdropped' \in SUBSET Values
    BY DEF PlainInv, Of
  <1> QED
    BY <1>1, <1>2 DEF PlainInv

\* The values of a list, as a set.
LEMMA OfIsToSet ==
  ASSUME PlainInv, NEW l \in Lists
  PROVE  Plain!Forward!ToSet(pitems[l]) = Of(pitems, l)
  <1>1. pitems[l] \in Seq(Values)
    BY PlainFacts
  <1> QED
    BY <1>1 DEF Plain!Forward!ToSet, Of

\* clear: the values are dropped.
LEMMA PlainClear ==
  ASSUME PlainInv, NEW l \in Lists, Plain!clear(l)
  PROVE  PlainInv'
  <1> DEFINE src == [m \in Lists |-> IF m = l THEN Null ELSE m]
  <1>1. /\ pfront' = [pfront EXCEPT ![l] = Null]
        /\ pback' = [pback EXCEPT ![l] = Null]
        /\ pitems' = [pitems EXCEPT ![l] = <<>>]
        /\ pdropped' = pdropped \cup Of(pitems, l)
        /\ pnext' = pnext /\ pprev' = pprev
    BY OfIsToSet DEF Plain!clear, Plain!Forward!clear
  <1>2. pitems \in Tables /\ pfront \in Fronts /\ pback \in Fronts
    BY PlainFacts
  <1>3. /\ src \in [Lists -> Lists \cup {Null}] /\ src[l] = Null
        /\ \A m \in Lists : m # l => src[m] = m /\ src[m] # Null
    BY ListAssumption
  <1>4. pitems' \in Tables /\ pfront' \in Fronts /\ pback' \in Fronts
    BY <1>1, <1>2 DEF Tables, Fronts, Pointers
  <1>5. /\ pitems'[l] = <<>> /\ pfront'[l] = Null /\ pback'[l] = Null
        /\ \A m \in Lists : m # l =>
             pitems'[m] = pitems[m] /\ pfront'[m] = pfront[m] /\ pback'[m] = pback[m]
    BY <1>1, <1>2 DEF Tables, Fronts
  <1> HIDE DEF src
  <1>6. Moved(pitems', pfront', pback', pitems, pfront, pback, src, l)
    BY <1>3, <1>4, <1>5, ListAssumption DEF Moved
  <1> QED
    BY <1>1, <1>6, PlainHandOver

\* Two sequences of a table, or two ends of lists, replaced.
LEMMA TwoReplaced ==
  ASSUME NEW l \in Lists, NEW k \in Lists
  PROVE  /\ \A it \in Tables : \A s, t \in Seq(Values) :
              [it EXCEPT ![l] = s, ![k] = t] \in Tables
         /\ \A fr \in Fronts : \A f, g \in Pointers :
              [fr EXCEPT ![l] = f, ![k] = g] \in Fronts /\ [fr EXCEPT ![k] = g] \in Fronts
         /\ <<>> \in Seq(Values) /\ Null \in Pointers
         /\ \A it \in Tables : it[l] \in Seq(Values) /\ it[k] \in Seq(Values)
         /\ \A fr \in Fronts : fr[l] \in Pointers /\ fr[k] \in Pointers
  <1>1. \A it \in Tables : \A s, t \in Seq(Values) :
          [it EXCEPT ![l] = s, ![k] = t] \in Tables
    BY DEF Tables
  <1>2. \A fr \in Fronts : \A f, g \in Pointers :
          [fr EXCEPT ![l] = f, ![k] = g] \in Fronts /\ [fr EXCEPT ![k] = g] \in Fronts
    BY DEF Fronts
  <1>3. <<>> \in Seq(Values) /\ Null \in Pointers
    BY DEF Pointers
  <1>4. /\ \A it \in Tables : it[l] \in Seq(Values) /\ it[k] \in Seq(Values)
        /\ \A fr \in Fronts : fr[l] \in Pointers /\ fr[k] \in Pointers
    BY DEF Tables, Fronts
  <1> QED
    BY <1>1, <1>2, <1>3, <1>4

\* The three members of two lists are exchanged.
Exchanged(l, k) ==
  /\ pfront' = [pfront EXCEPT ![l] = pfront[k], ![k] = pfront[l]]
  /\ pback' = [pback EXCEPT ![l] = pback[k], ![k] = pback[l]]
  /\ pitems' = [pitems EXCEPT ![l] = pitems[k], ![k] = pitems[l]]

\* swap, also with itself.
LEMMA PlainSwap ==
  ASSUME PlainInv, NEW l \in Lists, NEW k \in Lists, Plain!swap(l, k)
  PROVE  PlainInv'
  <1> DEFINE src == [m \in Lists |-> IF m = l THEN k ELSE IF m = k THEN l ELSE m]
  <1>1. /\ Exchanged(l, k) /\ pdropped' = pdropped /\ pnext' = pnext /\ pprev' = pprev
    BY DEF Plain!swap, Plain!Forward!swap, Exchanged
  <1>2. pitems \in Tables /\ pfront \in Fronts /\ pback \in Fronts
    BY PlainFacts
  <1>3. /\ src \in [Lists -> Lists] /\ src[l] = k /\ src[k] = l
        /\ \A m \in Lists : m # l /\ m # k => src[m] = m
    OBVIOUS
  <1>4. pitems' \in Tables /\ pfront' \in Fronts /\ pback' \in Fronts
    BY <1>1, <1>2 DEF Tables, Fronts, Exchanged
  <1>5. /\ pitems'[l] = pitems[k] /\ pfront'[l] = pfront[k] /\ pback'[l] = pback[k]
        /\ pitems'[k] = pitems[l] /\ pfront'[k] = pfront[l] /\ pback'[k] = pback[l]
        /\ \A m \in Lists : m # l /\ m # k =>
             pitems'[m] = pitems[m] /\ pfront'[m] = pfront[m] /\ pback'[m] = pback[m]
    BY <1>1, <1>2 DEF Tables, Fronts, Exchanged
  <1> HIDE DEF src
  <1>6. \A m \in Lists : src[m] \in Lists /\ src[m] # Null
    BY <1>3, ListAssumption
  <1>7. \A m \in Lists : /\ pitems'[m] = pitems[src[m]] /\ pfront'[m] = pfront[src[m]]
                         /\ pback'[m] = pback[src[m]]
    BY <1>3, <1>5
  <1>8. \A m, h \in Lists : src[m] = src[h] => m = h
    BY <1>3
  <1>9. \A h \in Lists : \E m \in Lists : src[m] = h
    BY <1>3
  <1>10. src \in [Lists -> Lists \cup {Null}]
    BY <1>3
  <1>11. Moved(pitems', pfront', pback', pitems, pfront, pback, src, Null)
    BY <1>4, <1>6, <1>7, <1>8, <1>9, <1>10, ListAssumption DEF Moved
  <1>12. Of(pitems, Null) = {}
    BY ListAssumption DEF Of
  <1>13. pdropped' = pdropped \cup Of(pitems, Null)
    BY <1>1, <1>12
  <1> QED
    BY <1>1, <1>11, <1>13, PlainHandOver

\* The list l has what k had, and k nothing.
TakenOver(l, k) ==
  /\ pfront' = [pfront EXCEPT ![l] = pfront[k], ![k] = Null]
  /\ pback' = [pback EXCEPT ![l] = pback[k], ![k] = Null]
  /\ pitems' = [pitems EXCEPT ![l] = pitems[k], ![k] = <<>>]

\* One list is taken over by another, whose values are dropped.
LEMMA PlainTakeOver ==
  ASSUME PlainInv, NEW l \in Lists, NEW k \in Lists, l # k, TakenOver(l, k),
         pdropped' = pdropped \cup Of(pitems, l), pnext' = pnext, pprev' = pprev
  PROVE  PlainInv'
  <1> DEFINE src == [m \in Lists |-> IF m = l THEN k ELSE IF m = k THEN Null ELSE m]
  <1>2. pitems \in Tables /\ pfront \in Fronts /\ pback \in Fronts
    BY PlainFacts
  <1>3. /\ src \in [Lists -> Lists \cup {Null}] /\ src[l] = k /\ src[k] = Null
        /\ \A m \in Lists : m # l /\ m # k => src[m] = m
    OBVIOUS
  <1>4. pitems' \in Tables /\ pfront' \in Fronts /\ pback' \in Fronts
    <2>1. /\ pitems[k] \in Seq(Values) /\ <<>> \in Seq(Values)
          /\ pfront[k] \in Pointers /\ pback[k] \in Pointers /\ Null \in Pointers
      BY <1>2, TwoReplaced
    <2>2. [pitems EXCEPT ![l] = pitems[k], ![k] = <<>>] \in Tables
      BY <1>2, <2>1, TwoReplaced
    <2>3. [pfront EXCEPT ![l] = pfront[k], ![k] = Null] \in Fronts
      BY <1>2, <2>1, TwoReplaced
    <2>4. [pback EXCEPT ![l] = pback[k], ![k] = Null] \in Fronts
      BY <1>2, <2>1, TwoReplaced
    <2> QED
      BY <2>2, <2>3, <2>4 DEF TakenOver
  <1>5. /\ pitems'[l] = pitems[k] /\ pfront'[l] = pfront[k] /\ pback'[l] = pback[k]
        /\ pitems'[k] = <<>> /\ pfront'[k] = Null /\ pback'[k] = Null
        /\ \A m \in Lists : m # l /\ m # k =>
             pitems'[m] = pitems[m] /\ pfront'[m] = pfront[m] /\ pback'[m] = pback[m]
    BY <1>2 DEF Tables, Fronts, TakenOver
  <1> HIDE DEF src
  <1>6. ASSUME NEW m \in Lists
        PROVE  IF src[m] = Null
               THEN pitems'[m] = <<>> /\ pfront'[m] = Null /\ pback'[m] = Null
               ELSE /\ pitems'[m] = pitems[src[m]] /\ pfront'[m] = pfront[src[m]]
                    /\ pback'[m] = pback[src[m]]
    <2>1. CASE m = l
      BY <1>3, <1>5, <2>1, ListAssumption
    <2>2. CASE m = k
      BY <1>3, <1>5, <2>2
    <2>3. CASE m # l /\ m # k
      <3>1. src[m] = m /\ m # Null
        BY <1>3, <2>3, ListAssumption
      <3> QED
        BY <1>5, <2>3, <3>1
    <2> QED
      BY <2>1, <2>2, <2>3
  <1>7. \A m, h \in Lists : src[m] = src[h] /\ src[m] # Null => m = h
    BY <1>3
  <1>8. \A h \in Lists : h = l <=> \A m \in Lists : src[m] # h
    BY <1>3, ListAssumption
  <1>9. Moved(pitems', pfront', pback', pitems, pfront, pback, src, l)
    BY <1>3, <1>4, <1>6, <1>7, <1>8 DEF Moved
  <1> QED
    BY <1>9, PlainHandOver

\* The assignment of a list.
LEMMA PlainMove ==
  ASSUME PlainInv, NEW l \in Lists, NEW k \in Lists, Plain!Move(l, k)
  PROVE  PlainInv'
  <1>1. /\ l # k /\ TakenOver(l, k) /\ pnext' = pnext /\ pprev' = pprev
        /\ pdropped' = pdropped \cup Of(pitems, l)
    BY OfIsToSet DEF Plain!Move, Plain!Forward!Move, TakenOver
  <1> QED
    BY <1>1, PlainTakeOver

\* Nothing to insert, or nothing there to insert into.
LEMMA PlainInsertTrivially ==
  ASSUME PlainInv, NEW l \in Lists, NEW k \in Lists, Plain!InsertTrivially(l, k)
  PROVE  PlainInv'
  <1>1. l # k /\ pnext' = pnext /\ pprev' = pprev /\ pdropped' = pdropped
    BY DEF Plain!InsertTrivially, Plain!Forward!InsertTrivially
  <1>2. CASE pfront[k] = Null
    <2>1. pfront' = pfront /\ pback' = pback /\ pitems' = pitems
      BY <1>2 DEF Plain!InsertTrivially, Plain!Forward!InsertTrivially,
                  Plain!Forward!empty
    <2> QED
      BY <1>1, <2>1 DEF PlainInv
  <1>3. CASE pfront[k] # Null
    <2>1. TakenOver(l, k) /\ pfront[l] = Null
      BY <1>3 DEF Plain!InsertTrivially, Plain!Forward!InsertTrivially,
                  Plain!Forward!empty, TakenOver
    <2>2. Len(pitems[l]) = 0
      BY <2>1, PlainFacts
    <2>3. Of(pitems, l) = {}
      BY <2>2 DEF Of
    <2>4. pdropped' = pdropped \cup Of(pitems, l)
      BY <1>1, <2>3
    <2> QED
      BY <1>1, <2>1, <2>4, PlainTakeOver
  <1> QED
    BY <1>2, <1>3

\* insert_front: the values of k come first.
LEMMA PlainInsertFront ==
  ASSUME PlainInv, NEW l \in Lists, NEW k \in Lists, Plain!insert_front(l, k)
  PROVE  PlainInv'
  <1> DEFINE t == pitems[k] \o pitems[l]
  <1>1. /\ l # k /\ pfront[l] # Null /\ pfront[k] # Null
        /\ pnext' = [pnext EXCEPT ![pback[k]] = pfront[l]]
        /\ pprev' = [pprev EXCEPT ![pfront[l]] = pback[k]]
        /\ pfront' = [pfront EXCEPT ![l] = pfront[k], ![k] = Null]
        /\ pback' = [pback EXCEPT ![k] = Null]
        /\ pitems' = [pitems EXCEPT ![l] = t, ![k] = <<>>]
        /\ pdropped' = pdropped
    BY DEF Plain!insert_front, Plain!Forward!insert_front, Plain!Forward!empty
  <1>2. /\ pitems \in Tables /\ pfront \in Fronts /\ pback \in Fronts
        /\ pnext \in Hooks /\ pprev \in Hooks
        /\ pitems[l] \in Seq(Values) /\ pitems[k] \in Seq(Values)
        /\ Len(pitems[l]) # 0 /\ Len(pitems[k]) # 0 /\ pback[k] # Null
    BY <1>1, PlainFacts
  <1>3. Joined(t, pitems[k], pitems[l]) /\ t \in Seq(Values)
    BY <1>2, ConcatJoins
  <1>4. Len(pitems[l]) > 0 /\ Len(pitems[k]) > 0
    BY <1>2
  <1>5. Tied(pnext', pprev', pnext, pprev, pback[k], pfront[l])
    BY <1>1, <1>2 DEF Tied, Hooks, Fronts, Pointers
  <1> HIDE DEF t
  <1>6. pitems' \in Tables /\ pfront' \in Fronts /\ pback' \in Fronts
    <2>1. /\ <<>> \in Seq(Values) /\ pfront[k] \in Pointers /\ Null \in Pointers
      BY <1>2, TwoReplaced
    <2>2. [pitems EXCEPT ![l] = t, ![k] = <<>>] \in Tables
      BY <1>2, <1>3, <2>1, TwoReplaced
    <2>3. [pfront EXCEPT ![l] = pfront[k], ![k] = Null] \in Fronts
      BY <1>2, <2>1, TwoReplaced
    <2>4. [pback EXCEPT ![k] = Null] \in Fronts
      BY <1>2, <2>1, TwoReplaced
    <2> QED
      BY <1>1, <2>2, <2>3, <2>4
  <1>7. /\ pitems'[l] = t /\ pfront'[l] = pfront[k] /\ pback'[l] = pback[l]
        /\ pitems'[k] = <<>> /\ pfront'[k] = Null /\ pback'[k] = Null
        /\ \A m \in Lists : m # l /\ m # k =>
             pitems'[m] = pitems[m] /\ pfront'[m] = pfront[m] /\ pback'[m] = pback[m]
    BY <1>1, <1>2 DEF Tables, Fronts
  <1>8. Spliced(pitems', pfront', pback', pitems, pfront, pback, k, l, l, k)
    <2>1. l # k /\ Joined(pitems'[l], pitems[k], pitems[l])
      BY <1>1, <1>3, <1>7
    <2> QED
      BY <1>4, <1>6, <1>7, <2>1, Zenon DEF Spliced
  <1>9. /\ Woven(pitems', pdropped, pfront', pnext', pprev', Null)
        /\ Ended(pitems', pback')
    BY <1>5, <1>8, WovenSplice DEF PlainInv
  <1> QED
    BY <1>1, <1>9 DEF PlainInv

\* insert_back: the values of k come last.
LEMMA PlainInsertBack ==
  ASSUME PlainInv, NEW l \in Lists, NEW k \in Lists, Plain!insert_back(l, k)
  PROVE  PlainInv'
  <1> DEFINE t == pitems[l] \o pitems[k]
  <1>1. /\ l # k /\ pfront[l] # Null /\ pfront[k] # Null
        /\ pnext' = [pnext EXCEPT ![pback[l]] = pfront[k]]
        /\ pprev' = [pprev EXCEPT ![pfront[k]] = pback[l]]
        /\ pback' = [pback EXCEPT ![l] = pback[k], ![k] = Null]
        /\ pfront' = [pfront EXCEPT ![k] = Null]
        /\ pitems' = [pitems EXCEPT ![l] = t, ![k] = <<>>]
        /\ pdropped' = pdropped
    BY DEF Plain!insert_back, Plain!Forward!insert_back, Plain!Forward!empty
  <1>2. /\ pitems \in Tables /\ pfront \in Fronts /\ pback \in Fronts
        /\ pnext \in Hooks /\ pprev \in Hooks
        /\ pitems[l] \in Seq(Values) /\ pitems[k] \in Seq(Values)
        /\ Len(pitems[l]) # 0 /\ Len(pitems[k]) # 0 /\ pback[l] # Null
    BY <1>1, PlainFacts
  <1>3. Joined(t, pitems[l], pitems[k]) /\ t \in Seq(Values)
    BY <1>2, ConcatJoins
  <1>4. Len(pitems[l]) > 0 /\ Len(pitems[k]) > 0
    BY <1>2
  <1>5. Tied(pnext', pprev', pnext, pprev, pback[l], pfront[k])
    BY <1>1, <1>2 DEF Tied, Hooks, Fronts, Pointers
  <1> HIDE DEF t
  <1>6. pitems' \in Tables /\ pfront' \in Fronts /\ pback' \in Fronts
    <2>1. /\ <<>> \in Seq(Values) /\ pback[k] \in Pointers /\ Null \in Pointers
      BY <1>2, TwoReplaced
    <2>2. [pitems EXCEPT ![l] = t, ![k] = <<>>] \in Tables
      BY <1>2, <1>3, <2>1, TwoReplaced
    <2>3. [pback EXCEPT ![l] = pback[k], ![k] = Null] \in Fronts
      BY <1>2, <2>1, TwoReplaced
    <2>4. [pfront EXCEPT ![k] = Null] \in Fronts
      BY <1>2, <2>1, TwoReplaced
    <2> QED
      BY <1>1, <2>2, <2>3, <2>4
  <1>7. /\ pitems'[l] = t /\ pfront'[l] = pfront[l] /\ pback'[l] = pback[k]
        /\ pitems'[k] = <<>> /\ pfront'[k] = Null /\ pback'[k] = Null
        /\ \A m \in Lists : m # l /\ m # k =>
             pitems'[m] = pitems[m] /\ pfront'[m] = pfront[m] /\ pback'[m] = pback[m]
    BY <1>1, <1>2 DEF Tables, Fronts
  <1>8. Spliced(pitems', pfront', pback', pitems, pfront, pback, l, k, l, k)
    <2>1. l # k /\ Joined(pitems'[l], pitems[l], pitems[k])
      BY <1>1, <1>3, <1>7
    <2> QED
      BY <1>4, <1>6, <1>7, <2>1, Zenon DEF Spliced
  <1>9. /\ Woven(pitems', pdropped, pfront', pnext', pprev', Null)
        /\ Ended(pitems', pback')
    BY <1>5, <1>8, WovenSplice DEF PlainInv
  <1> QED
    BY <1>1, <1>9 DEF PlainInv

\* A dropped value is destroyed and another made in its place.
LEMMA PlainRenew ==
  ASSUME PlainInv, NEW v \in Values, Plain!Renew(v)
  PROVE  PlainInv'
  <1>1. /\ v \in pdropped /\ pdropped' = pdropped \ {v}
        /\ pnext' = [pnext EXCEPT ![v] = Null] /\ pprev' = [pprev EXCEPT ![v] = Null]
        /\ pfront' = pfront /\ pback' = pback /\ pitems' = pitems
    BY DEF Plain!Renew, Plain!Forward!Renew
  <1>2. Woven(pitems, pdropped \ {v}, pfront, [pnext EXCEPT ![v] = Null],
              [pprev EXCEPT ![v] = Null], Null)
    BY <1>1, WovenRenew DEF PlainInv
  <1> QED
    BY <1>1, <1>2 DEF PlainInv

\* Every step of the plain lists keeps the invariant.
LEMMA PlainStep ==
  ASSUME PlainInv, Plain!Next
  PROVE  PlainInv'
  BY PlainPushFront, PlainPushBack, PlainErase, PlainPopFront, PlainPopBack,
     PlainClear, PlainSwap, PlainMove, PlainInsertTrivially, PlainInsertFront,
     PlainInsertBack, PlainRenew DEF Plain!Next

-----------------------------------------------------------------------------
(***************************************************************************)
(* Both kinds of lists.                                                     *)
(***************************************************************************)
ListsInv == SpInv /\ PlainInv

\* Every step keeps the invariant and destroys at most one value.
LEMMA ListsStep ==
  ASSUME ListsInv, [ListsNext]_<<owning, vars, pvars>>
  PROVE  ListsInv' /\ OneGone
  <1>1. ASSUME UNCHANGED vars PROVE SpInv' /\ OneGone
    BY <1>1 DEF ListsInv, SpInv, Sizes, vars, OneGone
  <1>2. ASSUME UNCHANGED pvars PROVE PlainInv'
    BY <1>2 DEF ListsInv, PlainInv, pvars
  <1>3. CASE owning /\ Next /\ UNCHANGED <<owning, pvars>>
    BY <1>2, <1>3, SpStep DEF ListsInv
  <1>4. CASE ~owning /\ Plain!Next /\ UNCHANGED <<owning, vars>>
    BY <1>1, <1>4, PlainStep DEF ListsInv
  <1>5. CASE UNCHANGED <<owning, vars, pvars>>
    BY <1>1, <1>2, <1>5 DEF ListsInv
  <1> QED
    BY <1>3, <1>4, <1>5 DEF ListsNext

\* The invariant holds in every execution.
THEOREM ListsInvariance == ListsSpec => []ListsInv
  <1>1. ListsInit => ListsInv
    BY SpInitInv, PlainInitInv DEF ListsInit, ListsInv
  <1>2. ListsInv /\ [ListsNext]_<<owning, vars, pvars>> => ListsInv'
    BY ListsStep
  <1> QED
    BY <1>1, <1>2, PTL DEF ListsSpec

\* The links of every list are those of a sequence, in both directions, whatever
\* was done to the other lists that share the hooks.
THEOREM LinksAlwaysMatch == ListsSpec => []AllLinksMatch
  <1>1. ListsInv => AllLinksMatch
    BY SpInvSound, PlainInvSound DEF ListsInv, AllLinksMatch
  <1> QED
    BY <1>1, ListsInvariance, PTL

\* A list of shared_ptr keeps its values alive and keeps no other.
THEOREM LifetimeIsExact == ListsSpec => []LifetimeExact
  <1>1. ListsInv => LifetimeExact
    BY SpInvSound DEF ListsInv
  <1> QED
    BY <1>1, ListsInvariance, PTL

\* The comment of clear(): the destructors of values are never called recursively.
THEOREM DestructionIsNeverRecursive == ListsSpec => NoRecursiveDestruction
  <1>1. ListsInv /\ [ListsNext]_<<owning, vars, pvars>>
        => [Cardinality(alive \ alive') <= 1]_vars
    <2> SUFFICES ASSUME ListsInv, [ListsNext]_<<owning, vars, pvars>>
                 PROVE  Cardinality(alive \ alive') <= 1
      OBVIOUS
    <2>1. PICK v : alive \ alive' \subseteq {v}
      BY ListsStep DEF OneGone
    <2>2. IsFiniteSet({v}) /\ Cardinality({v}) = 1
      BY FS_Singleton
    <2>3. Cardinality(alive \ alive') <= Cardinality({v})
      BY <2>1, <2>2, FS_Subset
    <2> QED
      BY <2>2, <2>3
  <1> QED
    BY <1>1, ListsInvariance, PTL DEF ListsSpec, NoRecursiveDestruction

-----------------------------------------------------------------------------
(***************************************************************************)
(* Users of the lists: a console_signal_service keeps its implementations   *)
(* and their handlers in intrusive lists, and the system_service keeps its   *)
(* subscribers in one.                                                       *)
(*                                                                           *)
(* What the services promise of their handlers rests on Kept, that each      *)
(* accepted handler is in one place.  That no signal goes to a service that  *)
(* is gone rests on ThreadsKept, on whom a thread of the system and the      *)
(* owner of a service refer to while the singleton is let go and made anew.  *)
(***************************************************************************)

\* What a handler may be called with.
Results == Signals \cup {"aborted"}

Binders == [list : SUBSET Handlers, signal : Signals]

Posts == [handler : Handlers, result : Results]

SvcStates ==
  [impls : SUBSET Impls, impl_list : SUBSET Impls,
   waiting : [Impls -> SUBSET Handlers], queued : [Signals -> 0 .. MaxQueued],
   shutdown : BOOLEAN, binders : Seq(Binders), posted : SUBSET Posts,
   accepted : SUBSET Handlers]

\* The handlers of a that are not in H are in one place each: they wait (w), are
\* in a binder (b) or are posted (p); those of H are nowhere.
Float(w, b, p, a, H) ==
  /\ \A i, j \in Impls : \A h \in Handlers : h \in w[i] /\ h \in w[j] => i = j
  /\ \A k, l \in DOMAIN b : \A h \in Handlers :
       h \in b[k].list /\ h \in b[l].list => k = l
  /\ \A q, r \in p : q.handler = r.handler => q = r
  /\ \A i \in Impls : \A h \in w[i] :
       /\ h \in a \ H
       /\ \A k \in DOMAIN b : h \notin b[k].list
       /\ \A q \in p : q.handler # h
  /\ \A k \in DOMAIN b : \A h \in b[k].list :
       /\ h \in a \ H
       /\ \A q \in p : q.handler # h
  /\ \A q \in p : q.handler \in a \ H
  /\ \A h \in a \ H :
       \/ \E i \in Impls : h \in w[i]
       \/ \E k \in DOMAIN b : h \in b[k].list
       \/ \E q \in p : q.handler = h

\* A handler waits in an implementation of the list, which is emptied once.
Listed(x) ==
  /\ \A i \in Impls \ x.impl_list : x.waiting[i] = {}
  /\ x.impl_list = IF x.shutdown THEN {} ELSE x.impls

\* While a signal is queued nobody waits.
Quiet(w, n) == (\E g \in Signals : n[g] > 0) => \A i \in Impls : w[i] = {}

\* What a service keeps true.
Kept(x) ==
  /\ x \in SvcStates
  /\ Float(x.waiting, x.binders, x.posted, x.accepted, {})
  /\ Listed(x)
  /\ Quiet(x.waiting, x.queued)

\* Where a service is constructed.
Opened == {"open", "shut"}

\* Every service keeps it; one that is not constructed has no handlers.
ServicesKept ==
  /\ DOMAIN svc = Services
  /\ \A s \in Services :
       /\ Kept(svc[s])
       /\ pc[s] = "shut" => svc[s].shutdown
       /\ pc[s] \notin Opened => svc[s].accepted = {}

-----------------------------------------------------------------------------
InstStates ==
  [refs : SUBSET Threads, registered : BOOLEAN, subscribers : Seq(Services),
   subscribers_mutex : SUBSET CtrlThreads]

\* Where a thread gives up its reference and, with the last, the instance.
Leaving == {"release", "unregister", "count_down"}

ServicePlaces == {"none", "get", "latch", "add"} \cup Opened \cup Leaving

CtrlPlaces == {"idle", "enter", "lock", "deliver", "done"} \cup Leaving

ThreadsTyped ==
  /\ pc \in [Threads -> ServicePlaces \cup CtrlPlaces]
  /\ \A s \in Services : pc[s] \in ServicePlaces
  /\ \A t \in CtrlThreads : pc[t] \in CtrlPlaces
  /\ inst \in [Instances -> InstStates]
  /\ weak_value \in 0 .. 2
  /\ ctrl \in [CtrlThreads -> [signal : Signals \cup {"none"}, rest : Seq(Services)]]
  /\ latch \in 0 .. 1

\* value_mutex is held by the one thread that waits for the latch.
MutexHeld ==
  /\ value_mutex = {s \in Services : pc[s] = "latch"}
  /\ \A s, t \in value_mutex : s = t

\* The latch is up while an instance is registered or has still to count it
\* down, which is one at a time.
OneLatch ==
  /\ \A i, j \in Instances : inst[i].registered /\ inst[j].registered => i = j
  /\ \A t, u \in Threads : pc[t] = "count_down" /\ pc[u] = "count_down" => t = u
  /\ latch = 0 <=> /\ \A i \in Instances : ~inst[i].registered
                   /\ \A t \in Threads : pc[t] # "count_down"
  /\ \A i \in Instances : inst[i].registered =>
       \A t \in Threads : pc[t] # "count_down"

\* An instance that is registered no more is gone; the one thread that unregisters
\* one had its last reference.
Destroying ==
  /\ \A i \in Instances : ~inst[i].registered => inst[i] = system_service
  /\ \A t, u \in Threads : pc[t] = "unregister" /\ pc[u] = "unregister" => t = u
  /\ \A t \in Threads : pc[t] = "unregister" =>
       \E i \in Instances : inst[i].registered /\ inst[i].refs = {}

\* Where a thread has a reference to an instance.
Referring == {"add", "release", "lock", "deliver"} \cup Opened

\* All references are to the instance of weak_value.
Referred ==
  /\ \A i \in Instances : \A t \in inst[i].refs :
       i = weak_value /\ inst[i].registered /\ pc[t] \in Referring
  /\ \A t \in Threads : pc[t] \in Referring =>
       weak_value \in Instances /\ t \in inst[weak_value].refs

\* The subscribers are the constructed services, each once.
Subscribed ==
  /\ \A i \in Instances : IsInjective(inst[i].subscribers)
  /\ \A i \in Instances : \A s \in ToSet(inst[i].subscribers) : pc[s] \in Opened
  /\ \A s \in Services :
       pc[s] \in Opened => s \in ToSet(inst[weak_value].subscribers)

\* A thread delivers with subscribers_mutex_ held, and only to subscribers.
Delivering ==
  \A t \in CtrlThreads :
    /\ pc[t] \in {"enter", "lock", "deliver"} => ctrl[t].signal \in Signals
    /\ pc[t] = "deliver" =>
         /\ inst[weak_value].subscribers_mutex = {t}
         /\ ToSet(ctrl[t].rest) \subseteq ToSet(inst[weak_value].subscribers)
    /\ pc[t] # "deliver" => ctrl[t].rest = <<>>

ThreadsKept ==
  /\ ThreadsTyped /\ MutexHeld /\ OneLatch /\ Destroying /\ Referred
  /\ Subscribed /\ Delivering

ConsoleInv == ServicesKept /\ ThreadsKept

-----------------------------------------------------------------------------
\* The handlers of H with the result r.
Posted(H, r) == {[handler |-> h, result |-> r] : h \in H}

\* Places of the handlers of a service: the handlers of H are posted.
LEMMA FloatPost ==
  ASSUME NEW w, NEW b, NEW p, NEW a, NEW H, NEW r,
         Float(w, b, p, a, H), H \subseteq a
  PROVE  Float(w, b, p \cup Posted(H, r), a, {})
  <1> DEFINE P == p \cup Posted(H, r)
  <1>1. \A q \in P : q \in p \/ (q.handler \in H /\ q = [handler |-> q.handler, result |-> r])
    BY DEF Posted
  <1>2. (\A h \in H : \E q \in P : q.handler = h) /\ p \subseteq P
    <2>1. ASSUME NEW h \in H PROVE \E q \in P : q.handler = h
      <3>1. [handler |-> h, result |-> r] \in P
        BY DEF Posted
      <3> QED
        BY <3>1
    <2> QED
      BY <2>1
  <1> HIDE DEF P
  <1>3. \A q, t \in P : q.handler = t.handler => q = t
    BY <1>1 DEF Float
  <1>4. /\ \A q \in P : q.handler \in a
        /\ \A i \in Impls : \A h \in w[i] : \A q \in P : q.handler # h
        /\ \A k \in DOMAIN b : \A h \in b[k].list : \A q \in P : q.handler # h
    BY <1>1 DEF Float
  <1>5. ASSUME NEW h \in a
        PROVE  \/ \E i \in Impls : h \in w[i]
               \/ \E k \in DOMAIN b : h \in b[k].list
               \/ \E q \in P : q.handler = h
    <2>1. CASE h \in H
      BY <1>2, <2>1
    <2>2. CASE h \notin H
      BY <1>2, <2>2 DEF Float
    <2> QED
      BY <2>1, <2>2
  <1>6. Float(w, b, P, a, {})
    BY <1>3, <1>4, <1>5 DEF Float
  <1> QED
    BY <1>6 DEF P

\* The handlers of H are destroyed.
LEMMA FloatDrop ==
  ASSUME NEW w, NEW b, NEW p, NEW a, NEW H,
         Float(w, b, p, a, H)
  PROVE  Float(w, b, p, a \ H, {})
  BY DEF Float

\* v is w with h among those of implementation i.
Joins(w, v, i, h) ==
  \A j \in Impls : v[j] = IF j = i THEN w[j] \cup {h} ELSE w[j]

\* A handler waits for implementation i.
LEMMA FloatWait ==
  ASSUME NEW w, NEW v, NEW b, NEW p, NEW a, NEW h, NEW i \in Impls,
         Float(w, b, p, a, {h}), h \in a, Joins(w, v, i, h)
  PROVE  Float(v, b, p, a, {})
  <1>1. \A j \in Impls : \A g : g \in v[j] <=> g \in w[j] \/ (j = i /\ g = h)
    BY DEF Joins
  <1>2. /\ \A j \in Impls : h \notin w[j]
        /\ \A k \in DOMAIN b : h \notin b[k].list
        /\ \A q \in p : q.handler # h
    BY DEF Float
  <1>3. \A j, k \in Impls : \A g \in Handlers : g \in v[j] /\ g \in v[k] => j = k
    BY <1>1, <1>2 DEF Float
  <1>4. \A j \in Impls : \A g \in v[j] :
          /\ g \in a
          /\ \A k \in DOMAIN b : g \notin b[k].list
          /\ \A q \in p : q.handler # g
    BY <1>1, <1>2 DEF Float
  <1>5. \A g \in a :
          \/ \E j \in Impls : g \in v[j]
          \/ \E k \in DOMAIN b : g \in b[k].list
          \/ \E q \in p : q.handler = g
    BY <1>1 DEF Float
  <1> QED
    BY <1>3, <1>4, <1>5 DEF Float

\* The handlers of implementation i do not wait any more.
LEMMA FloatTake ==
  ASSUME NEW w, NEW v, NEW b, NEW p, NEW a, NEW i \in Impls,
         w[i] \subseteq Handlers,
         Float(w, b, p, a, {}),
         \A j \in Impls : v[j] = IF j = i THEN {} ELSE w[j]
  PROVE  Float(v, b, p, a, w[i])
  BY DEF Float

\* No handler waits any more.
LEMMA FloatTakeAll ==
  ASSUME NEW w, NEW v, NEW b, NEW p, NEW a, NEW H,
         Float(w, b, p, a, {}),
         H = UNION {w[i] : i \in Impls},
         \A j \in Impls : v[j] = {}
  PROVE  Float(v, b, p, a, H)
  BY DEF Float

\* A handler is accepted.
LEMMA FloatAccept ==
  ASSUME NEW w, NEW b, NEW p, NEW a, NEW h,
         Float(w, b, p, a, {}), h \notin a
  PROVE  Float(w, b, p, a \cup {h}, {h})
  BY DEF Float

\* A posted handler is taken to be called.
LEMMA FloatUnpost ==
  ASSUME NEW w, NEW b, NEW p, NEW a, NEW q \in p,
         Float(w, b, p, a, {})
  PROVE  Float(w, b, p \ {q}, a, {q.handler})
  BY DEF Float

\* The handlers of H are bound to a signal.
LEMMA FloatBind ==
  ASSUME NEW w, NEW b \in Seq(Binders), NEW p, NEW a, NEW H \in SUBSET Handlers, NEW g,
         Float(w, b, p, a, H), H \subseteq a
  PROVE  Float(w, Append(b, [list |-> H, signal |-> g]), p, a, {})
  <1> DEFINE n == Len(b)
             c == Append(b, [list |-> H, signal |-> g])
  <1>1. /\ n \in Nat /\ DOMAIN b = 1 .. n /\ DOMAIN c = 1 .. n + 1
        /\ \A k \in 1 .. n : c[k] = b[k]
        /\ c[n + 1].list = H
    OBVIOUS
  <1>2. \A k \in 1 .. n + 1 : k \in 1 .. n \/ k = n + 1
    BY <1>1
  <1> HIDE DEF n, c
  <1>3. \A k \in DOMAIN c : (k \in DOMAIN b /\ c[k] = b[k]) \/ (k = n + 1 /\ c[k].list = H)
    BY <1>1, <1>2
  <1>4. n + 1 \in DOMAIN c /\ c[n + 1].list = H /\ \A k \in DOMAIN b : k \in DOMAIN c /\ c[k] = b[k]
    BY <1>1
  <1>5. Float(w, c, p, a, {})
    BY <1>3, <1>4 DEF Float
  <1> QED
    BY <1>5 DEF c

\* The first binder is called.
LEMMA FloatUnbind ==
  ASSUME NEW w, NEW b \in Seq(Binders), NEW p, NEW a, b # <<>>,
         Float(w, b, p, a, {})
  PROVE  Float(w, Tail(b), p, a, Head(b).list)
  <1> DEFINE n == Len(b)
             c == Tail(b)
  <1>1. /\ n \in Nat \ {0} /\ DOMAIN b = 1 .. n /\ DOMAIN c = 1 .. n - 1
        /\ \A k \in 1 .. n - 1 : c[k] = b[k + 1]
        /\ Head(b) = b[1] /\ b[1] \in Binders
    OBVIOUS
  <1>2. \A k \in DOMAIN c : /\ k \in Int /\ k + 1 # 1 /\ k + 1 \in DOMAIN b
                            /\ c[k] = b[k + 1]
    BY <1>1
  <1>3. \A k \in DOMAIN b : k = 1 \/ (k - 1 \in DOMAIN c /\ c[k - 1] = b[k])
    BY <1>1
  <1>4. 1 \in DOMAIN b /\ b[1].list \subseteq Handlers
    BY <1>1 DEF Binders
  <1>6. \A k \in DOMAIN b : b[k].list \subseteq Handlers
    <2>1. \A k \in DOMAIN b : b[k] \in Binders
      BY <1>1
    <2> QED
      BY <2>1 DEF Binders
  <1> HIDE DEF n, c
  <1>5. Float(w, c, p, a, b[1].list)
    <2>1. ASSUME NEW k \in DOMAIN c, NEW l \in DOMAIN c, NEW h \in Handlers,
                 h \in c[k].list, h \in c[l].list
          PROVE  k = l
      <3>1. k + 1 = l + 1
        BY <1>2, <2>1 DEF Float
      <3> QED
        BY <1>2, <3>1
    <2>2. \A k \in DOMAIN c : \A h \in c[k].list :
            h \in a \ b[1].list /\ \A q \in p : q.handler # h
      <3>1. \A k \in DOMAIN c : \A h \in c[k].list : h \in Handlers
        BY <1>2, <1>6
      <3> QED
        BY <1>2, <1>4, <3>1 DEF Float
    <2>3. \A i \in Impls : \A h \in w[i] :
            /\ h \in a \ b[1].list
            /\ \A k \in DOMAIN c : h \notin c[k].list
            /\ \A q \in p : q.handler # h
      BY <1>2, <1>4 DEF Float
    <2>4. \A q \in p : q.handler \in a \ b[1].list
      BY <1>4 DEF Float
    <2>5. ASSUME NEW h \in a \ b[1].list
          PROVE  \/ \E i \in Impls : h \in w[i]
                 \/ \E k \in DOMAIN c : h \in c[k].list
                 \/ \E q \in p : q.handler = h
      <3>1. CASE \E k \in DOMAIN b : h \in b[k].list
        BY <1>3, <3>1
      <3>2. CASE ~\E k \in DOMAIN b : h \in b[k].list
        BY <3>2 DEF Float
      <3> QED
        BY <3>1, <3>2
    <2>6. /\ \A i, j \in Impls : \A h \in Handlers : h \in w[i] /\ h \in w[j] => i = j
          /\ \A q, r \in p : q.handler = r.handler => q = r
      BY DEF Float
    <2> QED
      BY <2>1, <2>2, <2>3, <2>4, <2>5, <2>6 DEF Float
  <1> QED
    BY <1>1, <1>5 DEF c

-----------------------------------------------------------------------------
\* The members of a service.
Has(y, impls, list, w, n, d, b, p, a) ==
  /\ y \in SvcStates
  /\ y.impls = impls /\ y.impl_list = list /\ y.waiting = w /\ y.queued = n
  /\ y.shutdown = d /\ y.binders = b /\ y.posted = p /\ y.accepted = a

\* A service has its own members.
LEMMA SvcHas ==
  ASSUME NEW x \in SvcStates
  PROVE  Has(x, x.impls, x.impl_list, x.waiting, x.queued, x.shutdown, x.binders,
             x.posted, x.accepted)
  BY DEF Has

\* The members of a kept service have their types.
Typed(x) ==
  /\ x \in SvcStates
  /\ x.impls \in SUBSET Impls /\ x.impl_list \in SUBSET Impls
  /\ x.waiting \in [Impls -> SUBSET Handlers]
  /\ x.queued \in [Signals -> 0 .. MaxQueued]
  /\ x.shutdown \in BOOLEAN /\ x.binders \in Seq(Binders)
  /\ x.posted \in SUBSET Posts /\ x.accepted \in SUBSET Handlers

\* The members of a kept service are.
LEMMA KeptTypes == ASSUME NEW x, Kept(x) PROVE Typed(x)
  BY DEF Kept, SvcStates, Typed

\* What is posted.
LEMMA PostHas ==
  ASSUME NEW x \in SvcStates, NEW H \in SUBSET Handlers, NEW r \in Results
  PROVE  Has(PostHandlers(x, H, r), x.impls, x.impl_list, x.waiting, x.queued,
             x.shutdown, x.binders,
             x.posted \cup Posted(H, r), x.accepted)
  <1> DEFINE P == x.posted \cup Posted(H, r)
  <1>1. P \in SUBSET Posts
    BY DEF SvcStates, Posts, Posted
  <1>2. PostHandlers(x, H, r) = [x EXCEPT !.posted = P]
    BY DEF PostHandlers, Posted
  <1> HIDE DEF P
  <1>3. Has([x EXCEPT !.posted = P], x.impls, x.impl_list, x.waiting, x.queued,
             x.shutdown, x.binders, P, x.accepted)
    BY <1>1 DEF Has, SvcStates
  <1> QED
    BY <1>2, <1>3 DEF P

\* What is destroyed.
LEMMA DestroyHas ==
  ASSUME NEW x \in SvcStates, NEW H
  PROVE  Has(DestroyHandlers(x, H), x.impls, x.impl_list, x.waiting, x.queued,
             x.shutdown, x.binders, x.posted, x.accepted \ H)
  BY DEF Has, SvcStates, DestroyHandlers

\* A service is kept when its members are.
LEMMA HasKept ==
  ASSUME NEW y, NEW impls, NEW list, NEW w, NEW n, NEW d, NEW b, NEW p, NEW a,
         Has(y, impls, list, w, n, d, b, p, a),
         Float(w, b, p, a, {}),
         \A i \in Impls \ list : w[i] = {},
         list = IF d THEN {} ELSE impls,
         Quiet(w, n)
  PROVE  Kept(y) /\ y.shutdown = d
  BY DEF Has, Kept, Listed

\* An implementation is made.
LEMMA ConstructKept ==
  ASSUME NEW x, Kept(x), NEW i \in Impls
  PROVE  Kept(construct(x, i)) /\ construct(x, i).shutdown = x.shutdown
  <1>0. Typed(x)
    BY KeptTypes
  <1> DEFINE L == IF x.shutdown THEN x.impl_list ELSE x.impl_list \cup {i}
  <1>1. Has(construct(x, i), x.impls \cup {i}, L, x.waiting, x.queued,
            x.shutdown, x.binders, x.posted, x.accepted)
    BY <1>0 DEF Has, SvcStates, construct, Typed
  <1>2. L = IF x.shutdown THEN {} ELSE x.impls \cup {i}
    BY DEF Kept, Listed
  <1>3. \A j \in Impls \ L : x.waiting[j] = {}
    BY DEF Kept, Listed
  <1>4. Float(x.waiting, x.binders, x.posted, x.accepted, {}) /\ Quiet(x.waiting, x.queued)
    BY DEF Kept
  <1> HIDE DEF L
  <1> QED
    BY <1>1, <1>2, <1>3, <1>4, HasKept

\* The handlers of an implementation get an error.
LEMMA AbortKept ==
  ASSUME NEW x, Kept(x), ~x.shutdown, NEW i \in x.impls,
         NEW y \in SvcStates, NEW impls, NEW list,
         Has(y, impls, list, [x.waiting EXCEPT ![i] = {}], x.queued, x.shutdown,
             x.binders, x.posted, x.accepted),
         impls = list, \A j \in x.impls \ list : j = i
  PROVE  /\ Kept(PostHandlers(y, x.waiting[i], "aborted"))
         /\ PostHandlers(y, x.waiting[i], "aborted").shutdown = x.shutdown
  <1>0. Typed(x)
    BY KeptTypes
  <1> DEFINE v == [x.waiting EXCEPT ![i] = {}]
             P == x.posted \cup Posted(x.waiting[i], "aborted")
  <1>1. i \in Impls /\ x.waiting[i] \in SUBSET Handlers /\ "aborted" \in Results
    BY <1>0 DEF Results, Typed
  <1>2. \A j \in Impls : v[j] = IF j = i THEN {} ELSE x.waiting[j]
    BY <1>0, <1>1 DEF Typed
  <1>3. Has(PostHandlers(y, x.waiting[i], "aborted"), impls, list, v, x.queued, x.shutdown,
            x.binders, P, x.accepted)
    BY <1>1, PostHas DEF Has
  <1>4. Float(v, x.binders, x.posted, x.accepted, x.waiting[i])
    <2> HIDE DEF v
    <2>1. Float(x.waiting, x.binders, x.posted, x.accepted, {})
      BY DEF Kept
    <2> QED
      BY <1>1, <1>2, <2>1, FloatTake
  <1>5. x.waiting[i] \subseteq x.accepted
    BY <1>1 DEF Kept, Float
  <1>6. Float(v, x.binders, P, x.accepted, {})
    <2> HIDE DEF v
    <2> QED
      BY <1>4, <1>5, FloatPost
  <1>7. \A j \in Impls \ list : v[j] = {}
    BY <1>2 DEF Kept, Listed
  <1>8. Quiet(v, x.queued)
    BY <1>2 DEF Kept, Quiet
  <1> HIDE DEF v, P
  <1> QED
    BY <1>3, <1>6, <1>7, <1>8, HasKept

\* An implementation is destroyed.
LEMMA DestroyKept ==
  ASSUME NEW x, Kept(x), NEW i \in x.impls
  PROVE  Kept(destroy(x, i)) /\ destroy(x, i).shutdown = x.shutdown
  <1>0. Typed(x)
    BY KeptTypes
  <1>1. CASE x.shutdown
    <2>1. Has(destroy(x, i), x.impls \ {i}, x.impl_list, x.waiting, x.queued,
              x.shutdown, x.binders, x.posted, x.accepted)
      <3>1. destroy(x, i) = [x EXCEPT !.impls = @ \ {i}]
        BY <1>1 DEF destroy
      <3> QED
        BY <1>0, <3>1 DEF Has, SvcStates, Typed
    <2> QED
      <3>1. /\ x.impl_list = {} /\ \A j \in Impls \ x.impl_list : x.waiting[j] = {}
            /\ Float(x.waiting, x.binders, x.posted, x.accepted, {})
            /\ Quiet(x.waiting, x.queued)
        BY <1>1 DEF Kept, Listed
      <3>2. x.impl_list = IF x.shutdown THEN {} ELSE x.impls \ {i}
        BY <1>1, <3>1
      <3> QED
        BY <2>1, <3>1, <3>2, HasKept
  <1>2. CASE ~x.shutdown
    <2> DEFINE z == [x EXCEPT !.impls = @ \ {i}]
               y == [z EXCEPT !.waiting[i] = {}, !.impl_list = @ \ {i}]
    <2>1. destroy(x, i) = PostHandlers(y, x.waiting[i], "aborted")
      BY <1>2 DEF destroy
    <2>2. Has(y, x.impls \ {i}, x.impl_list \ {i}, [x.waiting EXCEPT ![i] = {}],
              x.queued, x.shutdown, x.binders, x.posted, x.accepted)
      BY <1>0 DEF Has, SvcStates, Typed
    <2>3. /\ x.impls \ {i} = x.impl_list \ {i}
          /\ \A j \in x.impls \ (x.impl_list \ {i}) : j = i
      BY <1>2 DEF Kept, Listed
    <2>4. y \in SvcStates
      BY <2>2 DEF Has
    <2> HIDE DEF y
    <2> QED
      BY <1>2, <2>1, <2>2, <2>3, <2>4, AbortKept
  <1> QED
    BY <1>1, <1>2 DEF SvcStates

\* The waits of an implementation are cancelled.
LEMMA CancelKept ==
  ASSUME NEW x, Kept(x), NEW i \in x.impls
  PROVE  Kept(cancel(x, i)) /\ cancel(x, i).shutdown = x.shutdown
  <1>0. Typed(x)
    BY KeptTypes
  <1>1. CASE x.shutdown
    BY <1>1 DEF cancel
  <1>2. CASE ~x.shutdown
    <2> DEFINE y == [x EXCEPT !.waiting[i] = {}]
    <2>1. cancel(x, i) = PostHandlers(y, x.waiting[i], "aborted")
      BY <1>2 DEF cancel
    <2>2. Has(y, x.impls, x.impl_list, [x.waiting EXCEPT ![i] = {}],
              x.queued, x.shutdown, x.binders, x.posted, x.accepted)
      BY <1>0 DEF Has, SvcStates, Typed
    <2>3. x.impls = x.impl_list
      BY <1>2 DEF Kept, Listed
    <2> HIDE DEF y
    <2> QED
      BY <1>2, <2>1, <2>2, <2>3, AbortKept DEF Has
  <1> QED
    BY <1>1, <1>2


\* A wait is accepted, with mutex_ held.
LEMMA AcceptHas ==
  ASSUME NEW x, Kept(x), NEW h \in Handlers \ x.accepted
  PROVE  LET y == [x EXCEPT !.accepted = @ \cup {h}]
         IN  /\ Has(y, x.impls, x.impl_list, x.waiting, x.queued, x.shutdown,
                    x.binders, x.posted, x.accepted \cup {h})
             /\ Float(x.waiting, x.binders, x.posted, x.accepted \cup {h}, {h})
  <1>1. Typed(x)
    BY KeptTypes
  <1>2. Float(x.waiting, x.binders, x.posted, x.accepted, {})
    BY DEF Kept
  <1>3. Float(x.waiting, x.binders, x.posted, x.accepted \cup {h}, {h})
    BY <1>2, FloatAccept
  <1> QED
    BY <1>1, <1>3 DEF Has, SvcStates, Typed

\* y is x with the handlers of H accepted, and nowhere yet.
Ready(x, y, n, a, H) ==
  /\ Kept(x)
  /\ H \in SUBSET Handlers /\ H \in SUBSET a
  /\ Float(x.waiting, x.binders, x.posted, a, H)
  /\ Has(y, x.impls, x.impl_list, x.waiting, n, x.shutdown, x.binders, x.posted, a)
  /\ Quiet(x.waiting, n)

\* A handler that need not wait.
LEMMA WaitPosts ==
  ASSUME NEW x, NEW y, NEW n, NEW r \in Results, NEW a, NEW H, Ready(x, y, n, a, H)
  PROVE  /\ Kept(PostHandlers(y, H, r))
         /\ PostHandlers(y, H, r).shutdown = x.shutdown
  <1>2. Float(x.waiting, x.binders, x.posted \cup Posted(H, r), a, {})
    <2>1. H \subseteq a
      BY DEF Ready
    <2> QED
      BY <2>1, FloatPost DEF Ready
  <1>3. y \in SvcStates
    BY DEF Has, Ready
  <1>4. Has(PostHandlers(y, H, r), y.impls, y.impl_list, y.waiting, y.queued,
            y.shutdown, y.binders, y.posted \cup Posted(H, r), y.accepted)
    BY <1>3, PostHas DEF Ready
  <1>5. Has(PostHandlers(y, H, r), x.impls, x.impl_list, x.waiting, n,
            x.shutdown, x.binders, x.posted \cup Posted(H, r), a)
    BY <1>4 DEF Has, Ready
  <1>6. /\ \A i \in Impls \ x.impl_list : x.waiting[i] = {}
        /\ x.impl_list = IF x.shutdown THEN {} ELSE x.impls
    BY DEF Kept, Listed, Ready
  <1> QED
    BY <1>2, <1>5, <1>6, HasKept DEF Ready

\* A queued signal is taken.
LEMMA TakeKept ==
  ASSUME NEW x, Kept(x), NEW h \in Handlers \ x.accepted, NEW g \in Signals,
         x.queued[g] > 0,
         NEW y, y = [x EXCEPT !.accepted = @ \cup {h}]
  PROVE  Kept(Take(y, h, g)) /\ Take(y, h, g).shutdown = x.shutdown
  <1> DEFINE n == [x.queued EXCEPT ![g] = @ - 1]
             H == {h}
             z == [y EXCEPT !.queued[g] = @ - 1]
  <1>1. Typed(x)
    BY KeptTypes
  <1>2. Has(y, x.impls, x.impl_list, x.waiting, x.queued, x.shutdown,
                    x.binders, x.posted, x.accepted \cup {h})
    BY AcceptHas
  <1>3. n \in [Signals -> 0 .. MaxQueued]
    <2>1. x.queued[g] - 1 \in 0 .. MaxQueued
      BY <1>1, ConsoleAssumption DEF Typed
    <2> QED
      BY <1>1, <2>1 DEF Typed
  <1>4. z = [y EXCEPT !.queued = n]
    BY <1>2 DEF Has, SvcStates
  <1> HIDE DEF n
  <1>5. Has(z, x.impls, x.impl_list, x.waiting, n, x.shutdown,
            x.binders, x.posted, x.accepted \cup {h})
    BY <1>2, <1>3, <1>4 DEF Has, SvcStates
  <1>6. Quiet(x.waiting, n)
    BY DEF Kept, Quiet
  <1>7. Take(y, h, g) = PostHandlers(z, H, g) /\ g \in Results
    BY DEF Take, Results
  <1> DEFINE a == x.accepted \cup {h}
  <1>8. Ready(x, z, n, a, H)
    <2> HIDE DEF z
    <2> QED
      BY <1>5, <1>6, AcceptHas DEF Ready
  <1> HIDE DEF z, a, H
  <1>9. /\ Kept(PostHandlers(z, H, g))
        /\ PostHandlers(z, H, g).shutdown = x.shutdown
    BY <1>7, <1>8, WaitPosts
  <1> QED
    BY <1>7, <1>9

\* A handler waits, or takes a signal.
LEMMA WaitKept ==
  ASSUME NEW x, Kept(x), NEW i \in x.impls, NEW h \in Handlers \ x.accepted
  PROVE  Kept(async_wait(x, i, h)) /\ async_wait(x, i, h).shutdown = x.shutdown
  <1> DEFINE H == {h}
             y == [x EXCEPT !.accepted = @ \cup {h}]
  <1>1. Typed(x)
    BY KeptTypes
  <1>2. Has(y, x.impls, x.impl_list, x.waiting, x.queued, x.shutdown,
                    x.binders, x.posted, x.accepted \cup {h})
    BY AcceptHas
  <1>3. CASE x.shutdown
    <2>1. async_wait(x, i, h) = PostHandlers(y, H, "aborted")
      BY <1>3 DEF async_wait
    <2>2. Quiet(x.waiting, x.queued) /\ "aborted" \in Results
      BY DEF Kept, Results
    <2> DEFINE a == x.accepted \cup {h}
    <2>3. Ready(x, y, x.queued, a, H)
      BY <1>2, <2>2, AcceptHas DEF Ready
    <2> HIDE DEF y, a, H
    <2>4. /\ Kept(PostHandlers(y, H, "aborted"))
          /\ PostHandlers(y, H, "aborted").shutdown = x.shutdown
      BY <2>2, <2>3, WaitPosts
    <2> QED
      BY <2>1, <2>4
  <1>4. ASSUME ~x.shutdown, NEW g \in Signals, x.queued[g] > 0,
               async_wait(x, i, h) = Take(y, h, g)
        PROVE  Kept(async_wait(x, i, h)) /\ async_wait(x, i, h).shutdown = x.shutdown
    BY <1>4, TakeKept
  <1>5. CASE ~x.shutdown /\ ~\E g \in Signals : x.queued[g] > 0
    <2> DEFINE v == [x.waiting EXCEPT ![i] = @ \cup {h}]
               z == [y EXCEPT !.waiting[i] = @ \cup {h}]
    <2>1. async_wait(x, i, h) = z
      BY <1>5 DEF async_wait, Signals
    <2>2. i \in Impls /\ i \in x.impl_list /\ x.impl_list = x.impls
      BY <1>1, <1>5 DEF Typed, Kept, Listed
    <2>3. v \in [Impls -> SUBSET Handlers]
      BY <1>1, <2>2 DEF Typed
    <2>4. \A j \in Impls : v[j] = IF j = i THEN x.waiting[j] \cup {h} ELSE x.waiting[j]
      BY <1>1, <2>2 DEF Typed
    <2>5. z = [y EXCEPT !.waiting = v]
      BY <1>2 DEF Has, SvcStates
    <2> HIDE DEF v
    <2>6. Has(z, x.impls, x.impl_list, v, x.queued, x.shutdown,
              x.binders, x.posted, x.accepted \cup {h})
      <3> HIDE DEF y
      <3> QED
        BY <1>2, <2>3, <2>5 DEF Has, SvcStates
    <2>7. Float(x.waiting, x.binders, x.posted, x.accepted \cup {h}, {h})
      BY AcceptHas
    <2>8. Float(v, x.binders, x.posted, x.accepted \cup {h}, {})
      <3>1. Joins(x.waiting, v, i, h) /\ h \in x.accepted \cup {h}
        BY <2>4 DEF Joins
      <3> QED
        BY <2>2, <2>7, <3>1, FloatWait
    <2>9. Quiet(v, x.queued)
      BY <1>5 DEF Quiet
    <2>10. \A j \in Impls \ x.impl_list : v[j] = {}
      BY <2>2, <2>4 DEF Kept, Listed
    <2>11. x.impl_list = IF x.shutdown THEN {} ELSE x.impls
      BY <1>5, <2>2
    <2> HIDE DEF z
    <2> QED
      BY <2>1, <2>6, <2>8, <2>9, <2>10, <2>11, HasKept
  <1>6. CASE ~x.shutdown /\ \E g \in Signals : x.queued[g] > 0
    <2>1. CASE x.queued["SIGINT"] > 0
      BY <1>4, <1>6, <2>1 DEF async_wait, Signals
    <2>2. CASE ~(x.queued["SIGINT"] > 0)
      BY <1>4, <1>6, <2>2 DEF async_wait, Signals
    <2> QED
      BY <2>1, <2>2
  <1> QED
    BY <1>3, <1>5, <1>6


-----------------------------------------------------------------------------
\* All that wait, which are those of the list.
LEMMA AllWaiting ==
  ASSUME NEW x, Kept(x)
  PROVE  /\ Waiting(x) = UNION {x.waiting[i] : i \in Impls}
         /\ Waiting(x) \in SUBSET Handlers
         /\ Waiting(x) = {} => \A i \in Impls : x.waiting[i] = {}
         /\ Waiting(x) \in SUBSET x.accepted
  <1>1. Typed(x)
    BY KeptTypes
  <1>2. Waiting(x) = UNION {x.waiting[i] : i \in Impls}
    <2>1. ASSUME NEW h, \E i \in x.impl_list : h \in x.waiting[i]
          PROVE  \E i \in Impls : h \in x.waiting[i]
      BY <1>1, <2>1 DEF Typed
    <2>2. ASSUME NEW h, NEW i \in Impls, h \in x.waiting[i]
          PROVE  i \in x.impl_list
      BY <2>2 DEF Kept, Listed
    <2> QED
      BY <2>1, <2>2 DEF Waiting
  <1>3. \A i \in Impls : x.waiting[i] \subseteq x.accepted /\ x.waiting[i] \subseteq Handlers
    BY <1>1 DEF Typed, Kept, Float
  <1> QED
    BY <1>2, <1>3

\* None wait when those of the list are taken.
LEMMA NoneWait ==
  ASSUME NEW x, Kept(x), NEW v,
         v = [i \in Impls |-> IF i \in x.impl_list THEN {} ELSE x.waiting[i]]
  PROVE  /\ v \in [Impls -> SUBSET Handlers] /\ \A i \in Impls : v[i] = {}
         /\ Float(v, x.binders, x.posted, x.accepted, Waiting(x))
  <1>1. \A i \in Impls : v[i] = {}
    BY DEF Kept, Listed
  <1>2. Float(x.waiting, x.binders, x.posted, x.accepted, {})
    BY DEF Kept
  <1>3. Waiting(x) = UNION {x.waiting[i] : i \in Impls}
    BY AllWaiting
  <1>4. Float(v, x.binders, x.posted, x.accepted, Waiting(x))
    BY <1>1, <1>2, <1>3, FloatTakeAll
  <1> QED
    BY <1>1, <1>4

\* The io_service shuts the service down.
LEMMA ShutdownKept ==
  ASSUME NEW x, Kept(x)
  PROVE  Kept(shutdown_service(x)) /\ shutdown_service(x).shutdown
  <1> DEFINE v == [i \in Impls |-> IF i \in x.impl_list THEN {} ELSE x.waiting[i]]
             y == DestroyHandlers(x, Waiting(x))
  <1>1. Typed(x)
    BY KeptTypes
  <1>2. /\ v \in [Impls -> SUBSET Handlers] /\ \A i \in Impls : v[i] = {}
        /\ Float(v, x.binders, x.posted, x.accepted, Waiting(x))
    BY NoneWait
  <1>3. Has(y, x.impls, x.impl_list, x.waiting, x.queued,
             x.shutdown, x.binders, x.posted, x.accepted \ Waiting(x))
    BY <1>1, DestroyHas DEF Typed
  <1>4. shutdown_service(x) =
          [y EXCEPT !.shutdown = TRUE, !.waiting = v, !.impl_list = {}]
    BY <1>3 DEF shutdown_service, Has, SvcStates
  <1>5. Float(v, x.binders, x.posted, x.accepted \ Waiting(x), {})
    <2> HIDE DEF v
    <2> QED
      BY <1>2, FloatDrop
  <1> HIDE DEF v, y
  <1>6. Has(shutdown_service(x), x.impls, {}, v, x.queued, TRUE, x.binders, x.posted,
            x.accepted \ Waiting(x))
    BY <1>2, <1>3, <1>4 DEF Has, SvcStates
  <1>7. Quiet(v, x.queued) /\ (\A i \in Impls \ {} : v[i] = {})
        /\ {} = IF TRUE THEN {} ELSE x.impls
    BY <1>2 DEF Quiet
  <1> QED
    BY <1>5, <1>6, <1>7 DEF Has, Kept, Listed

\* A signal is delivered.
LEMMA DeliverKept ==
  ASSUME NEW x, Kept(x), NEW g \in Signals
  PROVE  Kept(deliver_signal(x, g)) /\ deliver_signal(x, g).shutdown = x.shutdown
  <1>1. Typed(x)
    BY KeptTypes
  <1>2. CASE x.impl_list = {} \/ x.shutdown
    BY <1>2 DEF deliver_signal
  <1>3. CASE ~(x.impl_list = {} \/ x.shutdown) /\ Waiting(x) # {}
    <2> DEFINE v == [i \in Impls |-> IF i \in x.impl_list THEN {} ELSE x.waiting[i]]
               c == Append(x.binders, [list |-> Waiting(x), signal |-> g])
    <2>1. /\ v \in [Impls -> SUBSET Handlers] /\ \A i \in Impls : v[i] = {}
          /\ Float(v, x.binders, x.posted, x.accepted, Waiting(x))
      BY NoneWait
    <2>2. deliver_signal(x, g) = [x EXCEPT !.binders = c, !.waiting = v]
      BY <1>1, <1>3 DEF deliver_signal, Typed, SvcStates
    <2>3. Waiting(x) \in SUBSET Handlers /\ Waiting(x) \in SUBSET x.accepted
      BY AllWaiting
    <2>4. c \in Seq(Binders)
      <3>1. [list |-> Waiting(x), signal |-> g] \in Binders
        BY <2>3 DEF Binders
      <3> QED
        BY <1>1, <3>1 DEF Typed
    <2> HIDE DEF v
    <2>5. Float(v, c, x.posted, x.accepted, {})
      BY <1>1, <2>1, <2>3, FloatBind DEF Typed
    <2> HIDE DEF c
    <2>6. Has(deliver_signal(x, g), x.impls, x.impl_list, v, x.queued, x.shutdown, c,
              x.posted, x.accepted)
      BY <1>1, <2>1, <2>2, <2>4 DEF Has, SvcStates, Typed
    <2>7. Quiet(v, x.queued) /\ (\A i \in Impls \ x.impl_list : v[i] = {})
          /\ x.impl_list = IF x.shutdown THEN {} ELSE x.impls
      BY <2>1 DEF Quiet, Kept, Listed
    <2> QED
      BY <2>5, <2>6, <2>7, HasKept
  <1>4. CASE ~(x.impl_list = {} \/ x.shutdown) /\ Waiting(x) = {}
    <2> DEFINE k == IF x.queued[g] = MaxQueued THEN x.queued[g] ELSE x.queued[g] + 1
               n == [x.queued EXCEPT ![g] = k]
    <2>1. deliver_signal(x, g) = [x EXCEPT !.queued = n]
      BY <1>1, <1>4 DEF deliver_signal, Typed, SvcStates
    <2>2. n \in [Signals -> 0 .. MaxQueued]
      <3>1. x.queued[g] \in 0 .. MaxQueued
        BY <1>1 DEF Typed
      <3>2. k \in 0 .. MaxQueued
        BY <3>1, ConsoleAssumption
      <3> HIDE DEF k
      <3> QED
        BY <1>1, <3>2 DEF Typed
    <2> HIDE DEF n
    <2>3. Has(deliver_signal(x, g), x.impls, x.impl_list, x.waiting, n, x.shutdown,
              x.binders, x.posted, x.accepted)
      BY <1>1, <2>1, <2>2 DEF Has, SvcStates, Typed
    <2>4. Quiet(x.waiting, n)
      BY <1>4, AllWaiting DEF Quiet
    <2>5. /\ \A i \in Impls \ x.impl_list : x.waiting[i] = {}
          /\ x.impl_list = IF x.shutdown THEN {} ELSE x.impls
          /\ Float(x.waiting, x.binders, x.posted, x.accepted, {})
      BY DEF Kept, Listed
    <2> QED
      BY <2>3, <2>4, <2>5, HasKept
  <1> QED
    BY <1>2, <1>3, <1>4

\* A binder is called.
LEMMA BinderKept ==
  ASSUME NEW x, Kept(x), x.binders # <<>>
  PROVE  /\ Kept(handler_list_binder(x))
         /\ handler_list_binder(x).shutdown = x.shutdown
  <1> DEFINE y == [x EXCEPT !.binders = Tail(@)]
             H == Head(x.binders).list
             r == Head(x.binders).signal
  <1>1. Typed(x)
    BY KeptTypes
  <1>2. Head(x.binders) \in Binders /\ Tail(x.binders) \in Seq(Binders)
    BY <1>1 DEF Typed
  <1>3. H \in SUBSET Handlers /\ r \in Results
    BY <1>2 DEF Binders, Results
  <1>4. /\ Has(y, x.impls, x.impl_list, x.waiting, x.queued, x.shutdown, Tail(x.binders),
                x.posted, x.accepted)
        /\ y \in SvcStates
    BY <1>1, <1>2 DEF Has, SvcStates, Typed
  <1>5. handler_list_binder(x) = PostHandlers(y, H, r)
    BY DEF handler_list_binder
  <1>6. Float(x.waiting, x.binders, x.posted, x.accepted, {})
    BY DEF Kept
  <1>7. Float(x.waiting, Tail(x.binders), x.posted, x.accepted, H)
    BY <1>1, <1>6, FloatUnbind DEF Typed
  <1>8. H \subseteq x.accepted
    <2>1. 1 \in DOMAIN x.binders /\ Head(x.binders) = x.binders[1]
      BY <1>1 DEF Typed
    <2> QED
      BY <1>6, <2>1 DEF Float
  <1> HIDE DEF y, H, r
  <1>9. Float(x.waiting, Tail(x.binders), x.posted \cup Posted(H, r), x.accepted, {})
    BY <1>7, <1>8, FloatPost
  <1>10. Has(PostHandlers(y, H, r), y.impls, y.impl_list, y.waiting, y.queued,
             y.shutdown, y.binders, y.posted \cup Posted(H, r), y.accepted)
    BY <1>3, <1>4, PostHas
  <1>11. Has(PostHandlers(y, H, r), x.impls, x.impl_list, x.waiting, x.queued,
             x.shutdown, Tail(x.binders), x.posted \cup Posted(H, r), x.accepted)
    BY <1>4, <1>10 DEF Has
  <1>12. /\ \A i \in Impls \ x.impl_list : x.waiting[i] = {}
         /\ x.impl_list = IF x.shutdown THEN {} ELSE x.impls
         /\ Quiet(x.waiting, x.queued)
    BY DEF Kept, Listed
  <1> QED
    BY <1>5, <1>9, <1>11, <1>12, HasKept

\* A handler is called.
LEMMA CallKept ==
  ASSUME NEW x, Kept(x), NEW p \in x.posted, NEW y,
         y = [x EXCEPT !.posted = @ \ {p}, !.accepted = @ \ {p.handler}]
  PROVE  Kept(y) /\ y.shutdown = x.shutdown
  <1>1. Typed(x)
    BY KeptTypes
  <1>2. Float(x.waiting, x.binders, x.posted, x.accepted, {})
    BY DEF Kept
  <1>3. Float(x.waiting, x.binders, x.posted \ {p}, x.accepted, {p.handler})
    BY <1>2, FloatUnpost
  <1>4. Float(x.waiting, x.binders, x.posted \ {p}, x.accepted \ {p.handler}, {})
    BY <1>3, FloatDrop
  <1>5. Has(y, x.impls, x.impl_list, x.waiting, x.queued, x.shutdown, x.binders,
            x.posted \ {p}, x.accepted \ {p.handler})
    BY <1>1 DEF Has, SvcStates, Typed
  <1>6. /\ \A i \in Impls \ x.impl_list : x.waiting[i] = {}
        /\ x.impl_list = IF x.shutdown THEN {} ELSE x.impls
        /\ Quiet(x.waiting, x.queued)
    BY DEF Kept, Listed
  <1> QED
    BY <1>4, <1>5, <1>6, HasKept

\* A new service has nothing.
LEMMA FreshKept ==
  /\ Kept(console_signal_service) /\ console_signal_service.accepted = {}
  /\ ~console_signal_service.shutdown
  <1> DEFINE x == console_signal_service
  <1>1. Has(x, {}, {}, [i \in Impls |-> {}], [g \in Signals |-> 0], FALSE, <<>>, {}, {})
    BY ConsoleAssumption DEF Has, SvcStates, console_signal_service
  <1>2. Float([i \in Impls |-> {}], <<>>, {}, {}, {})
    BY DEF Float
  <1>3. Quiet([i \in Impls |-> {}], [g \in Signals |-> 0])
    BY DEF Quiet
  <1> QED
    BY <1>1, <1>2, <1>3 DEF Has, Kept, Listed

\* With the service its handlers are destroyed, whether bound or posted.
LEMMA NoneLeft ==
  ASSUME NEW x, Kept(x), x.shutdown
  PROVE  handler_list_owner(DestroyHandlers(x, {p.handler : p \in x.posted})).accepted = {}
  <1> DEFINE H == {p.handler : p \in x.posted}
             y == DestroyHandlers(x, H)
             B == UNION {b.list : b \in ToSet(x.binders)}
             z == [y EXCEPT !.binders = <<>>]
  <1>1. Typed(x)
    BY KeptTypes
  <1>2. Has(y, x.impls, x.impl_list, x.waiting, x.queued,
             x.shutdown, x.binders, x.posted, x.accepted \ H)
    <2>1. x \in SvcStates
      BY <1>1 DEF Typed
    <2> HIDE DEF H
    <2> QED
      BY <2>1, DestroyHas
  <1>3. z \in SvcStates /\ z.accepted = x.accepted \ H
    <2> HIDE DEF y
    <2>1. y \in SvcStates /\ y.accepted = x.accepted \ H
      BY <1>2 DEF Has
    <2>2. <<>> \in Seq(Binders)
      OBVIOUS
    <2> HIDE DEF H
    <2> QED
      BY <2>1, <2>2 DEF SvcStates
  <1>4. handler_list_owner(y) = DestroyHandlers(z, B)
    <2>1. y.binders = x.binders
      BY <1>2 DEF Has
    <2> HIDE DEF y
    <2> QED
      BY <2>1 DEF handler_list_owner
  <1>5. DestroyHandlers(z, B).accepted = z.accepted \ B
    <2> HIDE DEF z, B
    <2> QED
      BY <1>3, DestroyHas DEF Has
  <1>6. \A h \in x.accepted : h \in H \/ h \in B
    <2>1. \A i \in Impls : x.waiting[i] = {}
      BY DEF Kept, Listed
    <2>2. \A h \in x.accepted : (\E k \in DOMAIN x.binders : h \in x.binders[k].list)
                                \/ \E q \in x.posted : q.handler = h
      BY <2>1 DEF Kept, Float
    <2>3. ToSet(x.binders) = {x.binders[k] : k \in DOMAIN x.binders}
      BY DEF ToSet
    <2>4. \A k \in DOMAIN x.binders : x.binders[k] \in ToSet(x.binders)
      BY <2>3
    <2>5. ASSUME NEW h \in x.accepted, NEW k \in DOMAIN x.binders, h \in x.binders[k].list
          PROVE  h \in B
      <3>1. x.binders[k].list \in {b.list : b \in ToSet(x.binders)}
        BY <2>4
      <3> QED
        BY <2>5, <3>1
    <2>6. \A q \in x.posted : q.handler \in H
      OBVIOUS
    <2> HIDE DEF H, B
    <2> QED
      BY <2>2, <2>5, <2>6
  <1>7. (x.accepted \ H) \ B = {}
    <2> HIDE DEF H, B
    <2> QED
      BY <1>6
  <1> QED
    BY <1>3, <1>4, <1>5, <1>7


\* A handler has the places its service keeps it in.
LEMMA PlacesSeen ==
  ASSUME NEW x, Kept(x), NEW h \in Handlers
  PROVE  Cardinality(Places(x, h)) = IF h \in x.accepted THEN 1 ELSE 0
  <1> DEFINE W == {j \in x.impl_list : h \in x.waiting[j]}
             B == {j \in DOMAIN x.binders : h \in x.binders[j].list}
             P == {q \in x.posted : q.handler = h}
             all == {<<"waiting", i>> : i \in W} \cup {<<"binder", k>> : k \in B}
                    \cup {<<"posted", p>> : p \in P}
  <1>1. Places(x, h) = all
    BY DEF Places
  <1>2. Typed(x)
    BY KeptTypes
  <1>3. /\ \A i \in Impls : h \in x.waiting[i] => i \in W
        /\ \A k \in DOMAIN x.binders : h \in x.binders[k].list => k \in B
        /\ \A q \in x.posted : q.handler = h => q \in P
        /\ \A i \in W : i \in Impls /\ h \in x.waiting[i]
        /\ \A k \in B : k \in DOMAIN x.binders /\ h \in x.binders[k].list
        /\ \A q \in P : q \in x.posted /\ q.handler = h
    BY <1>2 DEF Typed, Kept, Listed
  <1>4. Float(x.waiting, x.binders, x.posted, x.accepted, {})
    BY DEF Kept
  <1> HIDE DEF W, B, P
  <1>5. CASE h \notin x.accepted
    <2>1. W = {} /\ B = {} /\ P = {}
      BY <1>3, <1>4, <1>5 DEF Float
    <2>2. all = {}
      BY <2>1
    <2> QED
      BY <1>1, <1>5, <2>2, FS_EmptySet
  <1>6. CASE h \in x.accepted
    <2>1. ASSUME NEW e, all = {e} PROVE Cardinality(Places(x, h)) = 1
      BY <1>1, <2>1, FS_Singleton
    <2>2. ASSUME NEW i \in W PROVE Cardinality(Places(x, h)) = 1
      <3>1. W = {i} /\ B = {} /\ P = {}
        BY <1>3, <1>4 DEF Float
      <3>2. all = {<<"waiting", i>>}
        BY <3>1
      <3> QED
        BY <2>1, <3>2
    <2>3. ASSUME NEW k \in B PROVE Cardinality(Places(x, h)) = 1
      <3>1. W = {} /\ B = {k} /\ P = {}
        BY <1>3, <1>4 DEF Float
      <3>2. all = {<<"binder", k>>}
        BY <3>1
      <3> QED
        BY <2>1, <3>2
    <2>4. ASSUME NEW q \in P PROVE Cardinality(Places(x, h)) = 1
      <3>1. W = {} /\ B = {} /\ P = {q}
        BY <1>3, <1>4 DEF Float
      <3>2. all = {<<"posted", q>>}
        BY <3>1
      <3> QED
        BY <2>1, <3>2
    <2>5. (\E i \in W : TRUE) \/ (\E k \in B : TRUE) \/ \E q \in P : TRUE
      BY <1>3, <1>4, <1>6 DEF Float
    <2> HIDE DEF all
    <2> QED
      BY <1>6, <2>2, <2>3, <2>4, <2>5
  <1> QED
    BY <1>5, <1>6

\* A service that is kept has each handler once.
LEMMA ServicesSeen ==
  ASSUME ServicesKept PROVE HandlersOnce /\
    \A s \in Services : \A g \in Signals : svc[s].queued[g] \in 0 .. MaxQueued
  <1>1. ASSUME NEW s \in Services
        PROVE  /\ \A h \in Handlers : Cardinality(Places(svc[s], h)) =
                                         (IF h \in svc[s].accepted THEN 1 ELSE 0)
               /\ pc[s] \notin Opened => svc[s].accepted = {}
               /\ (\E g \in Signals : svc[s].queued[g] > 0) => Waiting(svc[s]) = {}
               /\ \A g \in Signals : svc[s].queued[g] \in 0 .. MaxQueued
    <2>1. Kept(svc[s]) /\ (pc[s] \notin Opened => svc[s].accepted = {})
      BY DEF ServicesKept
    <2>2. Typed(svc[s]) /\ Waiting(svc[s]) = UNION {svc[s].waiting[i] : i \in Impls}
      BY <2>1, KeptTypes, AllWaiting
    <2>3. (\E g \in Signals : svc[s].queued[g] > 0) => Waiting(svc[s]) = {}
      BY <2>1, <2>2 DEF Kept, Quiet
    <2>4. \A h \in Handlers : Cardinality(Places(svc[s], h)) =
                                 (IF h \in svc[s].accepted THEN 1 ELSE 0)
      BY <2>1, PlacesSeen
    <2> QED
      BY <2>1, <2>2, <2>3, <2>4 DEF Typed
  <1> QED
    BY <1>1 DEF HandlersOnce, Opened


-----------------------------------------------------------------------------
\* Thread t goes to label.
Goes(t, label) == \A u \in Threads : pc'[u] = IF u = t THEN label ELSE pc[u]

\* A thread that goes on is where it goes to, and the others where they were.
LEMMA GoesOn ==
  ASSUME ThreadsTyped, NEW t \in Threads, NEW label, Goto(t, label),
         t \in Services => label \in ServicePlaces,
         t \in CtrlThreads => label \in CtrlPlaces
  PROVE  /\ Goes(t, label)
         /\ pc' \in [Threads -> ServicePlaces \cup CtrlPlaces]
         /\ \A s \in Services : pc'[s] \in ServicePlaces
         /\ \A u \in CtrlThreads : pc'[u] \in CtrlPlaces
  BY DEF ThreadsTyped, Goto, Goes, Threads

\* The threads are services and threads of the system.
LEMMA ThreadKinds ==
  /\ Services \subseteq Threads /\ CtrlThreads \subseteq Threads
  /\ \A t \in Threads : t \in Services \/ t \in CtrlThreads
  /\ \A t \in Services : t \notin CtrlThreads
  BY ConsoleAssumption DEF Threads, CtrlThreads

\* The instance a thread refers to is the one of weak_value, which is registered.
LEMMA RefersTo ==
  ASSUME ThreadsKept, NEW t \in Threads, pc[t] \in Referring
  PROVE  /\ weak_value \in Instances /\ InstanceOf(t) = weak_value
         /\ t \in inst[weak_value].refs /\ inst[weak_value].registered
         /\ inst[weak_value] \in InstStates
  <1>1. /\ weak_value \in Instances /\ t \in inst[weak_value].refs
        /\ \A i \in Instances : t \in inst[i].refs => i = weak_value
        /\ inst[weak_value].registered
    BY DEF ThreadsKept, Referred
  <1>2. InstanceOf(t) = weak_value
    BY <1>1 DEF InstanceOf
  <1> QED
    BY <1>1, <1>2 DEF ThreadsKept, ThreadsTyped

\* The references and subscribers of an instance.
LEMMA InstancesTyped ==
  ASSUME ThreadsKept
  PROVE  \A i \in Instances : /\ inst[i] \in InstStates
                               /\ inst[i].refs \subseteq Threads
                               /\ inst[i].subscribers \in Seq(Services)
                               /\ ToSet(inst[i].subscribers) \subseteq Services
  BY DEF ThreadsKept, ThreadsTyped, InstStates, ToSet

\* Labels of the threads where nothing is held.
Aside == {"none", "get", "idle", "enter", "done"}

\* A thread that holds nothing goes on.
LEMMA AsideStep ==
  ASSUME ThreadsKept, NEW t \in Threads, NEW label \in Aside,
         pc[t] \in Aside, Goto(t, label),
         t \in Services => label \in ServicePlaces,
         t \in CtrlThreads => label \in CtrlPlaces,
         UNCHANGED <<value_mutex, weak_value, latch, inst>>,
         ctrl' \in [CtrlThreads -> [signal : Signals \cup {"none"}, rest : Seq(Services)]],
         \A u \in CtrlThreads : ctrl'[u].rest = ctrl[u].rest,
         \A u \in CtrlThreads : u # t => ctrl'[u].signal = ctrl[u].signal,
         label = "enter" => ctrl'[t].signal \in Signals
  PROVE  ThreadsKept'
  <1> USE ThreadKinds
  <1>1. /\ Goes(t, label)
        /\ pc' \in [Threads -> ServicePlaces \cup CtrlPlaces]
        /\ \A s \in Services : pc'[s] \in ServicePlaces
        /\ \A u \in CtrlThreads : pc'[u] \in CtrlPlaces
    BY GoesOn DEF ThreadsKept
  <1>2. ThreadsTyped'
    BY <1>1 DEF ThreadsKept, ThreadsTyped
  <1>3. MutexHeld'
    BY <1>1 DEF ThreadsKept, MutexHeld, Goes, Aside
  <1>4. OneLatch'
    BY <1>1 DEF ThreadsKept, OneLatch, Goes, Aside
  <1>5. Destroying'
    BY <1>1 DEF ThreadsKept, Destroying, Goes, Aside
  <1>6. Referred'
    BY <1>1, InstancesTyped DEF ThreadsKept, Referred, Goes, Aside, Referring, Opened
  <1>7. Subscribed'
    BY <1>1, InstancesTyped DEF ThreadsKept, Subscribed, Goes, Aside, Opened
  <1>8. Delivering'
    BY <1>1 DEF ThreadsKept, Delivering, Goes, Aside
  <1> QED
    BY <1>2, <1>3, <1>4, <1>5, <1>6, <1>7, <1>8 DEF ThreadsKept


\* A thread that held nothing refers to the instance it has locked.
LEMMA LockStep ==
  ASSUME ThreadsKept, NEW t \in Threads, NEW label \in {"add", "lock"},
         pc[t] \in {"get", "enter"}, Goto(t, label),
         t \in Services => label \in ServicePlaces,
         t \in CtrlThreads => pc[t] = "enter" /\ label \in CtrlPlaces,
         Locked # {}, get_nullable_instance(t),
         UNCHANGED <<value_mutex, weak_value, latch, ctrl>>
  PROVE  ThreadsKept'
  <1> USE ThreadKinds
  <1>1. /\ Goes(t, label)
        /\ pc' \in [Threads -> ServicePlaces \cup CtrlPlaces]
        /\ \A s \in Services : pc'[s] \in ServicePlaces
        /\ \A u \in CtrlThreads : pc'[u] \in CtrlPlaces
    BY GoesOn DEF ThreadsKept
  <1> DEFINE w == weak_value
  <1>2. /\ w \in Instances /\ inst[w].refs # {} /\ Locked = {w}
        /\ inst[w].registered
    BY DEF Locked, ThreadsKept, Referred
  <1>3. /\ inst' \in [Instances -> InstStates]
        /\ \A i \in Instances :
             /\ inst'[i].refs = IF i = w THEN inst[i].refs \cup {t} ELSE inst[i].refs
             /\ inst'[i].registered = inst[i].registered
             /\ inst'[i].subscribers = inst[i].subscribers
             /\ inst'[i].subscribers_mutex = inst[i].subscribers_mutex
             /\ i # w => inst'[i] = inst[i]
    BY <1>2, InstancesTyped DEF get_nullable_instance, InstStates
  <1>4. ThreadsTyped'
    BY <1>1, <1>3 DEF ThreadsKept, ThreadsTyped
  <1>5. MutexHeld'
    BY <1>1 DEF ThreadsKept, MutexHeld, Goes
  <1>6. OneLatch'
    <2>1. /\ \A u \in Threads : pc'[u] = "count_down" <=> pc[u] = "count_down"
          /\ \A i \in Instances : inst'[i].registered <=> inst[i].registered
      BY <1>1, <1>3 DEF Goes
    <2> QED
      BY <2>1 DEF ThreadsKept, OneLatch
  <1>7. Destroying'
    <2>1. \A u \in Threads : pc[u] # "unregister"
      BY <1>2 DEF ThreadsKept, Destroying, OneLatch
    <2> QED
      BY <1>1, <1>2, <1>3, <2>1 DEF ThreadsKept, Destroying, Goes
  <1>8. Referred'
    <2>1. \A u \in Threads : pc'[u] \in Referring <=> u = t \/ pc[u] \in Referring
      BY <1>1 DEF Goes, Referring
    <2>2. ASSUME NEW i \in Instances, NEW u \in inst'[i].refs
          PROVE  i = w /\ inst'[i].registered /\ pc'[u] \in Referring
      BY <1>2, <1>3, <2>1, InstancesTyped DEF ThreadsKept, Referred
    <2>3. ASSUME NEW u \in Threads, pc'[u] \in Referring
          PROVE  w \in Instances /\ u \in inst'[w].refs
      BY <1>2, <1>3, <2>1, <2>3 DEF ThreadsKept, Referred
    <2> QED
      BY <2>2, <2>3 DEF Referred
  <1>9. Subscribed'
    <2>1. \A u \in Services : pc'[u] \in Opened <=> pc[u] \in Opened
      BY <1>1 DEF Goes, Opened
    <2>2. \A i \in Instances : ToSet(inst'[i].subscribers) = ToSet(inst[i].subscribers)
      BY <1>3
    <2>3. \A i \in Instances : \A u \in ToSet(inst'[i].subscribers) : pc'[u] \in Opened
      BY <2>1, <2>2, InstancesTyped DEF ThreadsKept, Subscribed
    <2>4. \A u \in Services : pc'[u] \in Opened => u \in ToSet(inst'[w].subscribers)
      BY <1>2, <2>1, <2>2 DEF ThreadsKept, Subscribed
    <2>5. \A i \in Instances : IsInjective(inst'[i].subscribers)
      BY <1>3 DEF ThreadsKept, Subscribed
    <2> QED
      BY <2>3, <2>4, <2>5 DEF Subscribed
  <1>10. Delivering'
    <2> SUFFICES ASSUME NEW u \in CtrlThreads
                 PROVE  /\ pc'[u] \in {"enter", "lock", "deliver"} => ctrl[u].signal \in Signals
                        /\ pc'[u] = "deliver" =>
                             /\ inst'[w].subscribers_mutex = {u}
                             /\ ToSet(ctrl[u].rest) \subseteq ToSet(inst'[w].subscribers)
                        /\ pc'[u] # "deliver" => ctrl[u].rest = <<>>
      BY DEF Delivering
    <2>1. /\ pc'[u] = "deliver" <=> pc[u] = "deliver"
          /\ pc'[u] \in {"enter", "lock", "deliver"} => pc[u] \in {"enter", "lock", "deliver"}
      BY <1>1 DEF Goes
    <2>2. /\ inst'[w].subscribers_mutex = inst[w].subscribers_mutex
          /\ inst'[w].subscribers = inst[w].subscribers
      BY <1>2, <1>3
    <2>3. /\ pc[u] \in {"enter", "lock", "deliver"} => ctrl[u].signal \in Signals
          /\ pc[u] = "deliver" =>
               /\ inst[w].subscribers_mutex = {u}
               /\ ToSet(ctrl[u].rest) \subseteq ToSet(inst[w].subscribers)
          /\ pc[u] # "deliver" => ctrl[u].rest = <<>>
      BY DEF ThreadsKept, Delivering
    <2> QED
      BY <2>1, <2>2, <2>3
  <1> QED
    BY <1>4, <1>5, <1>6, <1>7, <1>8, <1>9, <1>10 DEF ThreadsKept

\* get_instance finds no instance and keeps the mutex until it has made one.
LEMMA HoldStep ==
  ASSUME ThreadsKept, NEW s \in Services, pc[s] = "get", value_mutex = {},
         value_mutex' = {s}, Goto(s, "latch"),
         UNCHANGED <<weak_value, latch, inst, ctrl>>
  PROVE  ThreadsKept'
  <1> USE ThreadKinds
  <1>1. /\ Goes(s, "latch")
        /\ pc' \in [Threads -> ServicePlaces \cup CtrlPlaces]
        /\ \A u \in Services : pc'[u] \in ServicePlaces
        /\ \A u \in CtrlThreads : pc'[u] \in CtrlPlaces
    BY GoesOn DEF ThreadsKept, ServicePlaces
  <1>2. ThreadsTyped'
    BY <1>1 DEF ThreadsKept, ThreadsTyped
  <1>3. MutexHeld'
    BY <1>1 DEF ThreadsKept, MutexHeld, Goes
  <1>4. OneLatch'
    BY <1>1 DEF ThreadsKept, OneLatch, Goes
  <1>5. Destroying'
    BY <1>1 DEF ThreadsKept, Destroying, Goes
  <1>6. Referred'
    BY <1>1, InstancesTyped DEF ThreadsKept, Referred, Goes, Referring, Opened
  <1>7. Subscribed'
    BY <1>1, InstancesTyped DEF ThreadsKept, Subscribed, Goes, Opened
  <1>8. Delivering'
    BY <1>1 DEF ThreadsKept, Delivering, Goes
  <1> QED
    BY <1>2, <1>3, <1>4, <1>5, <1>6, <1>7, <1>8 DEF ThreadsKept

\* The constructor of an instance throws.
LEMMA ThrowStep ==
  ASSUME ThreadsKept, NEW s \in Services, pc[s] = "latch",
         value_mutex' = {}, Goto(s, "none"),
         UNCHANGED <<weak_value, latch, inst, ctrl>>
  PROVE  ThreadsKept'
  <1> USE ThreadKinds
  <1>1. /\ Goes(s, "none")
        /\ pc' \in [Threads -> ServicePlaces \cup CtrlPlaces]
        /\ \A u \in Services : pc'[u] \in ServicePlaces
        /\ \A u \in CtrlThreads : pc'[u] \in CtrlPlaces
    BY GoesOn DEF ThreadsKept, ServicePlaces
  <1>2. ThreadsTyped'
    BY <1>1 DEF ThreadsKept, ThreadsTyped
  <1>3. MutexHeld'
    BY <1>1 DEF ThreadsKept, MutexHeld, Goes
  <1>4. OneLatch'
    BY <1>1 DEF ThreadsKept, OneLatch, Goes
  <1>5. Destroying'
    BY <1>1 DEF ThreadsKept, Destroying, Goes
  <1>6. Referred'
    BY <1>1, InstancesTyped DEF ThreadsKept, Referred, Goes, Referring, Opened
  <1>7. Subscribed'
    BY <1>1, InstancesTyped DEF ThreadsKept, Subscribed, Goes, Opened
  <1>8. Delivering'
    BY <1>1 DEF ThreadsKept, Delivering, Goes
  <1> QED
    BY <1>2, <1>3, <1>4, <1>5, <1>6, <1>7, <1>8 DEF ThreadsKept

\* With the latch down there is no instance; one is made and registered.
LEMMA MakeStep ==
  ASSUME ThreadsKept, NEW s \in Services, pc[s] = "latch", LatchOpen,
         value_mutex' = {}, instance_guard, MakeInstance(s), weak_value' = NewInstance,
         Goto(s, "add"), UNCHANGED ctrl
  PROVE  ThreadsKept'
  <1> USE ThreadKinds
  <1>1. /\ Goes(s, "add")
        /\ pc' \in [Threads -> ServicePlaces \cup CtrlPlaces]
        /\ \A u \in Services : pc'[u] \in ServicePlaces
        /\ \A u \in CtrlThreads : pc'[u] \in CtrlPlaces
    BY GoesOn DEF ThreadsKept, ServicePlaces
  <1> DEFINE n == NewInstance
  <1>2. /\ \A i \in Instances : ~inst[i].registered /\ inst[i] = system_service
        /\ \A u \in Threads : pc[u] # "count_down" /\ pc[u] # "unregister"
        /\ \A u \in Threads : pc[u] \notin Referring
        /\ latch = 0
    BY DEF ThreadsKept, OneLatch, Destroying, Referred, LatchOpen
  <1>3. /\ system_service.refs = {} /\ system_service.subscribers = <<>>
        /\ system_service \in InstStates /\ ToSet(system_service.subscribers) = {}
    BY DEF system_service, InstStates, ToSet
  <1>4. n \in Instances
    <2>1. 1 \in Instances
      BY DEF Instances
    <2>2. inst[1].refs = {} /\ ~inst[1].registered
      BY <1>2, <1>3, <2>1
    <2> QED
      BY <2>1, <2>2 DEF NewInstance
  <1> HIDE DEF n
  <1>5. /\ inst' \in [Instances -> InstStates]
        /\ inst'[n].refs = {s} /\ inst'[n].registered
        /\ inst'[n].subscribers = <<>>
        /\ \A i \in Instances : i # n => inst'[i] = system_service
    <2>1. inst' = [inst EXCEPT ![n].refs = {s}, ![n].registered = TRUE]
      BY DEF MakeInstance, n
    <2> QED
      BY <1>2, <1>3, <1>4, <2>1 DEF ThreadsKept, ThreadsTyped, InstStates
  <1>6. weak_value' = n /\ latch' = 1
    BY <1>2 DEF n, instance_guard
  <1>7. ~system_service.registered /\ ToSet(<<>>) = {}
    BY DEF system_service, ToSet
  <1>8. ThreadsTyped'
    BY <1>1, <1>4, <1>5, <1>6 DEF ThreadsKept, ThreadsTyped, Instances
  <1>9. MutexHeld'
    BY <1>1 DEF ThreadsKept, MutexHeld, Goes
  <1>10. OneLatch'
    BY <1>1, <1>2, <1>4, <1>5, <1>6, <1>7 DEF OneLatch, Goes
  <1>11. Destroying'
    BY <1>1, <1>2, <1>5, <1>7 DEF Destroying, Goes
  <1>12. Referred'
    BY <1>1, <1>2, <1>3, <1>4, <1>5, <1>6 DEF Referred, Goes, Referring, Opened
  <1>13. Subscribed'
    <2>1. \A i \in Instances : inst'[i].subscribers = <<>>
      BY <1>3, <1>5
    <2>2. \A u \in Services : pc'[u] \notin Opened
      BY <1>1, <1>2 DEF Goes, Referring, Opened
    <2> QED
      BY <1>7, <2>1, <2>2 DEF Subscribed, IsInjective
  <1>14. Delivering'
    <2>1. \A u \in CtrlThreads : pc'[u] = pc[u] /\ pc[u] # "deliver"
      BY <1>1, <1>2 DEF Goes, Referring
    <2> QED
      BY <2>1 DEF ThreadsKept, Delivering
  <1> QED
    BY <1>8, <1>9, <1>10, <1>11, <1>12, <1>13, <1>14 DEF ThreadsKept


\* A subscriber that was not in the list is at its end.
LEMMA AppendOnce ==
  ASSUME NEW S, NEW q \in Seq(S), NEW e \in S, IsInjective(q), e \notin ToSet(q)
  PROVE  /\ Append(q, e) \in Seq(S) /\ IsInjective(Append(q, e))
         /\ ToSet(Append(q, e)) = ToSet(q) \cup {e}
  <1> DEFINE n == Len(q)
             p == Append(q, e)
  <1>1. /\ n \in Nat /\ DOMAIN q = 1 .. n /\ DOMAIN p = 1 .. n + 1
        /\ \A k \in 1 .. n : p[k] = q[k]
        /\ p[n + 1] = e /\ p \in Seq(S)
    OBVIOUS
  <1>2. \A k \in DOMAIN p : (k \in DOMAIN q /\ p[k] = q[k]) \/ (k = n + 1 /\ p[k] = e)
    BY <1>1
  <1>3. /\ n + 1 \in DOMAIN p /\ p[n + 1] = e
        /\ \A k \in DOMAIN q : k \in DOMAIN p /\ p[k] = q[k]
    BY <1>1
  <1>4. \A k \in DOMAIN q : q[k] # e
    BY DEF ToSet
  <1> HIDE DEF p, n
  <1>5. IsInjective(p)
    BY <1>2, <1>4 DEF IsInjective
  <1>6. ToSet(p) = ToSet(q) \cup {e}
    BY <1>2, <1>3 DEF ToSet
  <1> QED
    BY <1>1, <1>5, <1>6 DEF p

\* erase takes the one subscriber out.
LEMMA EraseOnce ==
  ASSUME NEW S, NEW q \in Seq(S), NEW e, IsInjective(q), e \in ToSet(q)
  PROVE  /\ erase_subscriber(q, e) \in Seq(S) /\ IsInjective(erase_subscriber(q, e))
         /\ ToSet(erase_subscriber(q, e)) = ToSet(q) \ {e}
  <1> DEFINE m == CHOOSE k \in DOMAIN q : q[k] = e
             n == Len(q)
             a == SubSeq(q, 1, m - 1)
             b == SubSeq(q, m + 1, n)
             p == a \o b
  <1>1. m \in DOMAIN q /\ q[m] = e
    BY DEF ToSet
  <1>0. erase_subscriber(q, e) = RemoveAt(q, m)
    BY DEF erase_subscriber
  <1> HIDE DEF m
  <1>2. erase_subscriber(q, e) = p
    BY <1>0 DEF RemoveAt
  <1>3. /\ n \in Nat /\ DOMAIN q = 1 .. n /\ m \in 1 .. n
        /\ \A k \in 1 .. n : q[k] \in S
    <2>1. n \in Nat /\ DOMAIN q = 1 .. n /\ \A k \in 1 .. n : q[k] \in S
      OBVIOUS
    <2> QED
      BY <1>1, <2>1
  <1>4. /\ a \in Seq(S) /\ Len(a) = m - 1 /\ \A k \in 1 .. m - 1 : a[k] = q[k]
    BY <1>3, SubSeqProperties
  <1>5. /\ b \in Seq(S) /\ Len(b) = n - m /\ \A k \in 1 .. n - m : b[k] = q[m + k]
    <2> DEFINE c == m + 1
    <2> HIDE DEF n
    <2>1. /\ c \in Int /\ n \in Int /\ \A k \in c .. n : q[k] \in S
          /\ (IF c <= n THEN n - c + 1 ELSE 0) = n - m /\ n - c + 1 = n - m
          /\ \A k \in 1 .. n - m : c + k - 1 = m + k
      BY <1>3
    <2>2. b = SubSeq(q, c, n)
      OBVIOUS
    <2> HIDE DEF c, b
    <2>3. /\ b \in Seq(S) /\ Len(b) = IF c <= n THEN n - c + 1 ELSE 0
          /\ \A k \in 1 .. n - c + 1 : b[k] = q[c + k - 1]
      BY <2>1, <2>2, SubSeqProperties
    <2> QED
      BY <2>1, <2>3
  <1> HIDE DEF a, b, n
  <1>6. /\ p \in Seq(S) /\ Len(p) = n - 1 /\ DOMAIN p = 1 .. n - 1
        /\ \A k \in 1 .. m - 1 : p[k] = a[k]
        /\ \A k \in m .. n - 1 : p[k] = b[k - (m - 1)]
    <2>1. /\ p \in Seq(S) /\ Len(p) = Len(a) + Len(b)
          /\ \A k \in 1 .. Len(a) + Len(b) : p[k] = IF k <= Len(a) THEN a[k] ELSE b[k - Len(a)]
      BY <1>4, <1>5, ConcatProperties
    <2>2. Len(p) = n - 1 /\ DOMAIN p = 1 .. n - 1 /\ Len(a) + Len(b) = n - 1
      BY <1>3, <1>4, <1>5, <2>1
    <2>3. ASSUME NEW k \in 1 .. m - 1 PROVE p[k] = a[k]
      BY <1>3, <1>4, <2>1, <2>2
    <2>4. ASSUME NEW k \in m .. n - 1 PROVE p[k] = b[k - (m - 1)]
      <3>1. k \in 1 .. n - 1 /\ ~(k <= m - 1)
        BY <1>3
      <3> HIDE DEF p
      <3> QED
        BY <1>4, <2>1, <2>2, <3>1
    <2> QED
      BY <2>1, <2>2, <2>3, <2>4
  <1>7. /\ \A k \in 1 .. m - 1 : p[k] = q[k]
        /\ \A k \in m .. n - 1 : p[k] = q[k + 1]
    <2>1. \A k \in m .. n - 1 : k - (m - 1) \in 1 .. n - m /\ m + (k - (m - 1)) = k + 1
      BY <1>3
    <2> QED
      BY <1>3, <1>4, <1>5, <1>6, <2>1
  <1> HIDE DEF p
  <1>8. \A k \in DOMAIN p : \E l \in DOMAIN q :
          /\ l # m /\ p[k] = q[l]
          /\ (k < m /\ l = k) \/ (k >= m /\ l = k + 1)
    <2>1. ASSUME NEW k \in 1 .. n - 1, k < m
          PROVE  k \in 1 .. n /\ k # m /\ p[k] = q[k]
      BY <1>3, <1>7, <2>1
    <2>2. ASSUME NEW k \in 1 .. n - 1, ~(k < m)
          PROVE  k + 1 \in 1 .. n /\ k + 1 # m /\ p[k] = q[k + 1] /\ k >= m
      BY <1>3, <1>7, <2>2
    <2> QED
      BY <1>3, <1>6, <2>1, <2>2
  <1>9. \A l \in DOMAIN q : l # m => \E k \in DOMAIN p : p[k] = q[l]
    <2>1. ASSUME NEW l \in 1 .. n, l < m PROVE l \in 1 .. n - 1 /\ p[l] = q[l]
      BY <1>3, <1>7, <2>1
    <2>2. ASSUME NEW l \in 1 .. n, l > m
          PROVE  l - 1 \in 1 .. n - 1 /\ p[l - 1] = q[l]
      <3>1. l - 1 \in m .. n - 1 /\ l - 1 \in 1 .. n - 1 /\ (l - 1) + 1 = l
        BY <1>3, <2>2
      <3> QED
        BY <1>7, <3>1
    <2>3. \A l \in 1 .. n : l # m => l < m \/ l > m
      BY <1>3
    <2> QED
      BY <1>3, <1>6, <2>1, <2>2, <2>3
  <1>10. IsInjective(p)
    <2> SUFFICES ASSUME NEW k \in DOMAIN p, NEW l \in DOMAIN p, p[k] = p[l]
                 PROVE  k = l
      BY DEF IsInjective
    <2>1. PICK i \in DOMAIN q : p[k] = q[i] /\ ((k < m /\ i = k) \/ (k >= m /\ i = k + 1))
      BY <1>8
    <2>2. PICK j \in DOMAIN q : p[l] = q[j] /\ ((l < m /\ j = l) \/ (l >= m /\ j = l + 1))
      BY <1>8
    <2>3. i = j
      BY <2>1, <2>2 DEF IsInjective
    <2>4. k \in Int /\ l \in Int /\ m \in Int
      BY <1>3, <1>6
    <2> QED
      BY <2>1, <2>2, <2>3, <2>4
  <1>11. ToSet(p) = ToSet(q) \ {e}
    <2>1. \A l \in DOMAIN q : l # m => q[l] # e
      BY <1>1 DEF IsInjective
    <2>2. \A k \in DOMAIN p : p[k] \in ToSet(q) \ {e}
      BY <1>8, <2>1 DEF ToSet
    <2>3. \A c \in ToSet(q) \ {e} : \E k \in DOMAIN p : p[k] = c
      BY <1>1, <1>9 DEF ToSet
    <2> QED
      BY <2>2, <2>3 DEF ToSet
  <1> QED
    BY <1>2, <1>6, <1>10, <1>11


-----------------------------------------------------------------------------
\* While subscribers_mutex_ is free nobody delivers.
LEMMA NobodyDelivers ==
  ASSUME ThreadsKept, weak_value \in Instances, inst[weak_value].subscribers_mutex = {}
  PROVE  \A u \in CtrlThreads : pc[u] # "deliver"
  BY DEF ThreadsKept, Delivering

\* Instance i has its references, registration, subscribers and mutex.
InstHas(i, refs, q, mutex) ==
  /\ inst' \in [Instances -> InstStates]
  /\ inst'[i].refs = refs /\ (inst'[i].registered <=> inst[i].registered)
  /\ inst'[i].subscribers = q /\ inst'[i].subscribers_mutex = mutex
  /\ \A j \in Instances : j # i => inst'[j] = inst[j]

\* A step of a thread between two places where it refers to the instance.
LEMMA ReferStep ==
  ASSUME ThreadsKept, NEW t \in Threads, NEW label \in Referring,
         pc[t] \in Referring, Goto(t, label),
         t \in Services => label \in ServicePlaces,
         t \in CtrlThreads => label \in CtrlPlaces,
         NEW q, NEW mutex, InstHas(weak_value, inst[weak_value].refs, q, mutex),
         UNCHANGED <<value_mutex, weak_value, latch>>
  PROVE  /\ Goes(t, label)
         /\ MutexHeld' /\ OneLatch' /\ Destroying' /\ Referred'
         /\ pc' \in [Threads -> ServicePlaces \cup CtrlPlaces]
         /\ \A s \in Services : pc'[s] \in ServicePlaces
         /\ \A u \in CtrlThreads : pc'[u] \in CtrlPlaces
         /\ weak_value \in Instances
  <1> USE ThreadKinds
  <1>1. /\ Goes(t, label)
        /\ pc' \in [Threads -> ServicePlaces \cup CtrlPlaces]
        /\ \A s \in Services : pc'[s] \in ServicePlaces
        /\ \A u \in CtrlThreads : pc'[u] \in CtrlPlaces
    BY GoesOn DEF ThreadsKept
  <1> DEFINE w == weak_value
  <1>2. /\ w \in Instances /\ t \in inst[w].refs /\ inst[w].registered
    BY RefersTo
  <1>3. \A u \in Threads : pc'[u] = "count_down" <=> pc[u] = "count_down"
    BY <1>1 DEF Goes, Referring, Opened
  <1>4. \A u \in Threads : pc'[u] = "unregister" <=> pc[u] = "unregister"
    BY <1>1 DEF Goes, Referring, Opened
  <1>5. \A u \in Threads : pc'[u] = "latch" <=> pc[u] = "latch"
    BY <1>1 DEF Goes, Referring, Opened
  <1>6. \A u \in Threads : pc'[u] \in Referring <=> pc[u] \in Referring
    BY <1>1 DEF Goes
  <1>7. \A i \in Instances : inst'[i].registered <=> inst[i].registered
    BY <1>2 DEF InstHas
  <1>8. \A i \in Instances : inst'[i].refs = inst[i].refs
    BY <1>2 DEF InstHas
  <1>9. \A i \in Instances : ~inst[i].registered => inst'[i] = inst[i]
    BY <1>2 DEF InstHas
  <1>10. MutexHeld'
    BY <1>5 DEF ThreadsKept, MutexHeld
  <1>11. OneLatch'
    BY <1>3, <1>7 DEF ThreadsKept, OneLatch
  <1>12. Destroying'
    BY <1>4, <1>7, <1>8, <1>9 DEF ThreadsKept, Destroying
  <1>13. Referred'
    <2>1. \A i \in Instances : inst[i].refs \subseteq Threads
      BY InstancesTyped
    <2> QED
      BY <1>6, <1>7, <1>8, <2>1 DEF ThreadsKept, Referred
  <1> QED
    BY <1>1, <1>2, <1>10, <1>11, <1>12, <1>13

\* The service subscribes.
LEMMA AddStep ==
  ASSUME ThreadsKept, NEW s \in Services, add_subscriber(s)
  PROVE  ThreadsKept'
  <1> USE ThreadKinds
  <1> DEFINE w == weak_value
             q == inst[w].subscribers
  <1>1. /\ w \in Instances /\ InstanceOf(s) = w /\ s \in inst[w].refs
        /\ inst[w].registered /\ inst[w] \in InstStates
    BY RefersTo DEF add_subscriber, Referring
  <1>2. /\ pc[s] = "add" /\ inst[w].subscribers_mutex = {}
        /\ inst' = [inst EXCEPT ![w].subscribers = Append(q, s)] /\ Goto(s, "open")
        /\ UNCHANGED <<value_mutex, weak_value, latch, ctrl>>
    BY <1>1 DEF add_subscriber
  <1>3. q \in Seq(Services) /\ IsInjective(q) /\ s \notin ToSet(q)
    BY <1>1, <1>2 DEF InstStates, ThreadsKept, Subscribed, Opened
  <1>4. /\ Append(q, s) \in Seq(Services) /\ IsInjective(Append(q, s))
        /\ ToSet(Append(q, s)) = ToSet(q) \cup {s}
    BY <1>3, AppendOnce
  <1>5. InstHas(w, inst[w].refs, Append(q, s), inst[w].subscribers_mutex)
    BY <1>1, <1>2, <1>4, InstancesTyped DEF InstHas, ThreadsKept, ThreadsTyped, InstStates
  <1>6. /\ Goes(s, "open")
        /\ MutexHeld' /\ OneLatch' /\ Destroying' /\ Referred'
        /\ pc' \in [Threads -> ServicePlaces \cup CtrlPlaces]
        /\ \A u \in Services : pc'[u] \in ServicePlaces
        /\ \A u \in CtrlThreads : pc'[u] \in CtrlPlaces
    BY <1>2, <1>5, ReferStep DEF Referring, Opened, ServicePlaces
  <1>7. ThreadsTyped'
    BY <1>2, <1>5, <1>6 DEF ThreadsKept, ThreadsTyped, InstHas
  <1>8. Subscribed'
    <2>1. \A u \in Services : pc'[u] \in Opened <=> u = s \/ pc[u] \in Opened
      BY <1>6 DEF Goes, Opened
    <2>2. \A i \in Instances : IsInjective(inst'[i].subscribers)
      BY <1>4, <1>5 DEF InstHas, ThreadsKept, Subscribed
    <2>3. ASSUME NEW i \in Instances, NEW u \in ToSet(inst'[i].subscribers)
          PROVE  pc'[u] \in Opened
      <3>1. CASE i = w
        BY <1>4, <1>5, <2>1, <2>3, <3>1, InstancesTyped DEF InstHas, ThreadsKept, Subscribed
      <3>2. CASE i # w
        BY <1>5, <2>1, <2>3, <3>2, InstancesTyped DEF InstHas, ThreadsKept, Subscribed
      <3> QED
        BY <3>1, <3>2
    <2>4. ASSUME NEW u \in Services, pc'[u] \in Opened
          PROVE  u \in ToSet(inst'[w].subscribers)
      BY <1>4, <1>5, <2>1, <2>4 DEF InstHas, ThreadsKept, Subscribed
    <2> QED
      BY <1>2, <2>2, <2>3, <2>4 DEF Subscribed
  <1>9. Delivering'
    <2>1. \A u \in CtrlThreads : pc'[u] = pc[u] /\ pc[u] # "deliver"
      BY <1>1, <1>2, <1>6, NobodyDelivers DEF Goes
    <2> QED
      BY <1>2, <2>1 DEF ThreadsKept, Delivering
  <1> QED
    BY <1>6, <1>7, <1>8, <1>9 DEF ThreadsKept

\* The service shuts down, and stays subscribed.
LEMMA ShutStep ==
  ASSUME ThreadsKept, NEW s \in Services, Shutdown(s)
  PROVE  ThreadsKept'
  <1> USE ThreadKinds
  <1> DEFINE w == weak_value
  <1>1. w \in Instances /\ inst[w] \in InstStates
    BY RefersTo DEF Shutdown, Referring, Opened
  <1>2. /\ pc[s] = "open" /\ Goto(s, "shut")
        /\ UNCHANGED <<value_mutex, weak_value, latch, inst, ctrl>>
    BY DEF Shutdown
  <1>3. InstHas(w, inst[w].refs, inst[w].subscribers, inst[w].subscribers_mutex)
    BY <1>2 DEF InstHas, ThreadsKept, ThreadsTyped
  <1>4. /\ Goes(s, "shut")
        /\ MutexHeld' /\ OneLatch' /\ Destroying' /\ Referred'
        /\ pc' \in [Threads -> ServicePlaces \cup CtrlPlaces]
        /\ \A u \in Services : pc'[u] \in ServicePlaces
        /\ \A u \in CtrlThreads : pc'[u] \in CtrlPlaces
    BY <1>2, <1>3, ReferStep DEF Referring, Opened, ServicePlaces
  <1>5. ThreadsTyped'
    BY <1>2, <1>4 DEF ThreadsKept, ThreadsTyped
  <1>6. Subscribed'
    <2>1. \A u \in Services : pc'[u] \in Opened <=> pc[u] \in Opened
      BY <1>2, <1>4 DEF Goes, Opened
    <2> QED
      BY <1>2, <2>1, InstancesTyped DEF ThreadsKept, Subscribed
  <1>7. Delivering'
    <2>1. \A u \in CtrlThreads : pc'[u] = pc[u]
      BY <1>4 DEF Goes
    <2> QED
      BY <1>2, <2>1 DEF ThreadsKept, Delivering
  <1> QED
    BY <1>4, <1>5, <1>6, <1>7 DEF ThreadsKept

\* The service is not subscribed any more.
LEMMA RemoveStep ==
  ASSUME ThreadsKept, NEW s \in Services, DestroyService(s)
  PROVE  ThreadsKept'
  <1> USE ThreadKinds
  <1> DEFINE w == weak_value
             q == inst[w].subscribers
  <1>1. /\ w \in Instances /\ InstanceOf(s) = w /\ s \in inst[w].refs
        /\ inst[w].registered /\ inst[w] \in InstStates
    BY RefersTo DEF DestroyService, remove_subscriber, Referring, Opened
  <1>2. /\ pc[s] = "shut" /\ inst[w].subscribers_mutex = {}
        /\ inst' = [inst EXCEPT ![w].subscribers = erase_subscriber(q, s)] /\ Goto(s, "release")
        /\ UNCHANGED <<value_mutex, weak_value, latch, ctrl>>
    BY <1>1 DEF DestroyService, remove_subscriber
  <1>3. q \in Seq(Services) /\ IsInjective(q) /\ s \in ToSet(q)
    BY <1>1, <1>2 DEF InstStates, ThreadsKept, Subscribed, Opened
  <1>4. /\ erase_subscriber(q, s) \in Seq(Services) /\ IsInjective(erase_subscriber(q, s))
        /\ ToSet(erase_subscriber(q, s)) = ToSet(q) \ {s}
    BY <1>3, EraseOnce
  <1>5. InstHas(w, inst[w].refs, erase_subscriber(q, s), inst[w].subscribers_mutex)
    BY <1>1, <1>2, <1>4, InstancesTyped DEF InstHas, ThreadsKept, ThreadsTyped, InstStates
  <1>6. /\ Goes(s, "release")
        /\ MutexHeld' /\ OneLatch' /\ Destroying' /\ Referred'
        /\ pc' \in [Threads -> ServicePlaces \cup CtrlPlaces]
        /\ \A u \in Services : pc'[u] \in ServicePlaces
        /\ \A u \in CtrlThreads : pc'[u] \in CtrlPlaces
    BY <1>2, <1>5, ReferStep DEF Referring, Opened, ServicePlaces, Leaving
  <1>7. ThreadsTyped'
    BY <1>2, <1>5, <1>6 DEF ThreadsKept, ThreadsTyped, InstHas
  <1>8. Subscribed'
    <2>1. \A u \in Services : pc'[u] \in Opened <=> u # s /\ pc[u] \in Opened
      BY <1>6 DEF Goes, Opened
    <2>2. \A i \in Instances : IsInjective(inst'[i].subscribers)
      BY <1>4, <1>5 DEF InstHas, ThreadsKept, Subscribed
    <2>3. ASSUME NEW i \in Instances, NEW u \in ToSet(inst'[i].subscribers)
          PROVE  pc'[u] \in Opened
      <3>1. CASE i = w
        BY <1>4, <1>5, <2>1, <2>3, <3>1, InstancesTyped DEF InstHas, ThreadsKept, Subscribed
      <3>2. CASE i # w
        <4>1. ~inst[i].registered
          BY <1>1, <3>2 DEF ThreadsKept, OneLatch
        <4>2. inst'[i].subscribers = <<>>
          BY <1>5, <3>2, <4>1 DEF InstHas, ThreadsKept, Destroying, system_service
        <4>3. ToSet(<<>>) = {}
          BY DEF ToSet
        <4> QED
          BY <2>3, <4>2, <4>3
      <3> QED
        BY <3>1, <3>2
    <2>4. ASSUME NEW u \in Services, pc'[u] \in Opened
          PROVE  u \in ToSet(inst'[w].subscribers)
      BY <1>4, <1>5, <2>1, <2>4 DEF InstHas, ThreadsKept, Subscribed
    <2> QED
      BY <1>2, <2>2, <2>3, <2>4 DEF Subscribed
  <1>9. Delivering'
    <2>1. \A u \in CtrlThreads : pc'[u] = pc[u] /\ pc[u] # "deliver"
      BY <1>1, <1>2, <1>6, NobodyDelivers DEF Goes
    <2> QED
      BY <1>2, <2>1 DEF ThreadsKept, Delivering
  <1> QED
    BY <1>6, <1>7, <1>8, <1>9 DEF ThreadsKept


\* A reference is given up; with the last one the instance is to be destroyed.
LEMMA UnrefStep ==
  ASSUME ThreadsKept, NEW t \in Threads, Unreference(t)
  PROVE  ThreadsKept'
  <1> USE ThreadKinds
  <1> DEFINE w == weak_value
             label == IF inst[w].refs = {t} THEN "unregister" ELSE Ends(t)
  <1>1. /\ w \in Instances /\ InstanceOf(t) = w /\ t \in inst[w].refs
        /\ inst[w].registered /\ inst[w] \in InstStates
    BY RefersTo DEF Unreference, Referring
  <1>2. /\ pc[t] = "release"
        /\ inst' = [inst EXCEPT ![w].refs = inst[w].refs \ {t}] /\ Goto(t, label)
        /\ UNCHANGED <<value_mutex, weak_value, latch, ctrl>>
    BY <1>1 DEF Unreference
  <1>3. /\ label \in {"unregister", "none", "done"}
        /\ t \in Services => label \in ServicePlaces
        /\ t \in CtrlThreads => label \in CtrlPlaces
        /\ label = "unregister" <=> inst[w].refs = {t}
    BY DEF Ends, ServicePlaces, CtrlPlaces, Leaving
  <1> HIDE DEF label
  <1>4. /\ Goes(t, label)
        /\ pc' \in [Threads -> ServicePlaces \cup CtrlPlaces]
        /\ \A u \in Services : pc'[u] \in ServicePlaces
        /\ \A u \in CtrlThreads : pc'[u] \in CtrlPlaces
    BY <1>2, <1>3, GoesOn DEF ThreadsKept
  <1>5. InstHas(w, inst[w].refs \ {t}, inst[w].subscribers, inst[w].subscribers_mutex)
    BY <1>1, <1>2, InstancesTyped DEF InstHas, ThreadsKept, ThreadsTyped, InstStates
  <1>6. \A i \in Instances : inst'[i].registered <=> inst[i].registered
    BY <1>5 DEF InstHas
  <1>7. \A i \in Instances : i # w => inst'[i] = inst[i]
    BY <1>5 DEF InstHas
  <1>8. /\ inst'[w].refs = inst[w].refs \ {t}
        /\ \A i \in Instances : inst'[i].subscribers = inst[i].subscribers
        /\ inst'[w].subscribers_mutex = inst[w].subscribers_mutex
    BY <1>5 DEF InstHas
  <1>9. ThreadsTyped'
    BY <1>2, <1>4, <1>5 DEF ThreadsKept, ThreadsTyped, InstHas
  <1>10. MutexHeld'
    <2>1. \A u \in Services : pc'[u] = "latch" <=> pc[u] = "latch"
      BY <1>2, <1>3, <1>4 DEF Goes
    <2> QED
      BY <1>2, <2>1 DEF ThreadsKept, MutexHeld
  <1>11. OneLatch'
    <2>1. \A u \in Threads : pc'[u] = "count_down" <=> pc[u] = "count_down"
      BY <1>2, <1>3, <1>4 DEF Goes
    <2> QED
      BY <1>2, <1>6, <2>1 DEF ThreadsKept, OneLatch
  <1>12. Destroying'
    <2>1. \A u \in Threads : pc[u] # "unregister"
      BY <1>1 DEF ThreadsKept, Destroying, OneLatch
    <2>2. \A u \in Threads : pc'[u] = "unregister" => u = t /\ inst[w].refs = {t}
      BY <1>3, <1>4, <2>1 DEF Goes
    <2>3. \A u \in Threads : pc'[u] = "unregister" => inst'[w].refs = {}
      BY <1>8, <2>2
    <2>4. \A i \in Instances : ~inst'[i].registered => inst'[i] = system_service
      BY <1>1, <1>6, <1>7 DEF ThreadsKept, Destroying
    <2> QED
      BY <1>1, <1>6, <2>2, <2>3, <2>4 DEF Destroying
  <1>13. Referred'
    <2>1. \A u \in Threads : pc'[u] \in Referring <=> u # t /\ pc[u] \in Referring
      BY <1>3, <1>4 DEF Goes, Referring, Opened
    <2>2. ASSUME NEW i \in Instances, NEW u \in inst'[i].refs
          PROVE  i = w /\ inst'[i].registered /\ pc'[u] \in Referring
      <3>1. u \in inst[i].refs /\ (i = w => u # t)
        BY <1>7, <1>8, <2>2
      <3>2. i = w /\ inst[i].registered /\ pc[u] \in Referring /\ u \in Threads
        BY <3>1, InstancesTyped DEF ThreadsKept, Referred
      <3> QED
        BY <1>6, <2>1, <3>1, <3>2
    <2>3. ASSUME NEW u \in Threads, pc'[u] \in Referring
          PROVE  w \in Instances /\ u \in inst'[w].refs
      BY <1>1, <1>8, <2>1, <2>3 DEF ThreadsKept, Referred
    <2> QED
      BY <1>2, <2>2, <2>3 DEF Referred
  <1>14. Subscribed'
    <2>1. \A u \in Services : pc'[u] \in Opened <=> pc[u] \in Opened
      BY <1>2, <1>3, <1>4 DEF Goes, Opened
    <2>2. \A i \in Instances : ToSet(inst'[i].subscribers) = ToSet(inst[i].subscribers)
      BY <1>8
    <2>3. \A i \in Instances : \A u \in ToSet(inst'[i].subscribers) : pc'[u] \in Opened
      BY <2>1, <2>2, InstancesTyped DEF ThreadsKept, Subscribed
    <2>4. \A u \in Services : pc'[u] \in Opened => u \in ToSet(inst'[w].subscribers)
      BY <1>1, <2>1, <2>2 DEF ThreadsKept, Subscribed
    <2>5. \A i \in Instances : IsInjective(inst'[i].subscribers)
      BY <1>8 DEF ThreadsKept, Subscribed
    <2> QED
      BY <1>2, <2>3, <2>4, <2>5 DEF Subscribed
  <1>15. Delivering'
    <2>1. \A u \in CtrlThreads : (u = t /\ pc[u] = "release" /\ pc'[u] \in {"unregister", "none", "done"})
                                 \/ pc'[u] = pc[u]
      BY <1>2, <1>3, <1>4 DEF Goes
    <2>2. inst'[w].subscribers = inst[w].subscribers
      BY <1>1, <1>8
    <2> QED
      BY <1>2, <1>8, <2>1, <2>2 DEF ThreadsKept, Delivering
  <1> QED
    BY <1>9, <1>10, <1>11, <1>12, <1>13, <1>14, <1>15 DEF ThreadsKept

\* The instance is registered no more.
LEMMA UnregisterStep ==
  ASSUME ThreadsKept, NEW t \in Threads, Unregister(t)
  PROVE  ThreadsKept'
  <1> USE ThreadKinds
  <1>1. PICK i \in Instances :
          /\ inst[i].registered /\ inst[i].refs = {}
          /\ inst' = [inst EXCEPT ![i] = system_service]
    BY DEF Unregister
  <1>2. /\ pc[t] = "unregister" /\ Goto(t, "count_down")
        /\ UNCHANGED <<value_mutex, weak_value, latch, ctrl>>
    BY DEF Unregister
  <1>3. /\ Goes(t, "count_down")
        /\ pc' \in [Threads -> ServicePlaces \cup CtrlPlaces]
        /\ \A u \in Services : pc'[u] \in ServicePlaces
        /\ \A u \in CtrlThreads : pc'[u] \in CtrlPlaces
    BY <1>2, GoesOn DEF ThreadsKept, ServicePlaces, CtrlPlaces, Leaving
  <1>4. /\ system_service.refs = {} /\ system_service.subscribers = <<>>
        /\ ~system_service.registered
        /\ system_service \in InstStates /\ ToSet(<<>>) = {}
    BY DEF system_service, InstStates, ToSet
  <1>5. \A j \in Instances : inst'[j] = system_service
    <2>1. \A j \in Instances : j # i => inst[j] = system_service
      BY <1>1 DEF ThreadsKept, OneLatch, Destroying
    <2> QED
      BY <1>1, <2>1 DEF ThreadsKept, ThreadsTyped
  <1>6. \A u \in Threads : pc[u] \notin Referring
    BY <1>1 DEF ThreadsKept, Referred, OneLatch
  <1>7. ThreadsTyped'
    <2>1. inst' \in [Instances -> InstStates]
      BY <1>1, <1>4 DEF ThreadsKept, ThreadsTyped
    <2> QED
      BY <1>2, <1>3, <2>1 DEF ThreadsKept, ThreadsTyped
  <1>8. MutexHeld'
    <2>1. \A u \in Services : pc'[u] = "latch" <=> pc[u] = "latch"
      BY <1>2, <1>3 DEF Goes
    <2> QED
      BY <1>2, <2>1 DEF ThreadsKept, MutexHeld
  <1>9. OneLatch'
    <2>1. \A u \in Threads : pc[u] # "count_down"
      BY <1>1 DEF ThreadsKept, OneLatch
    <2>2. \A u \in Threads : pc'[u] = "count_down" <=> u = t
      BY <1>3, <2>1 DEF Goes
    <2>3. \A j \in Instances : ~inst'[j].registered
      BY <1>4, <1>5
    <2>4. latch' # 0
      BY <1>1, <1>2 DEF ThreadsKept, OneLatch
    <2> QED
      BY <2>2, <2>3, <2>4 DEF OneLatch
  <1>10. Destroying'
    <2>1. \A u \in Threads : pc[u] = "unregister" => u = t
      BY <1>2 DEF ThreadsKept, Destroying
    <2>2. \A u \in Threads : pc'[u] # "unregister"
      BY <1>3, <2>1 DEF Goes
    <2> QED
      BY <1>5, <2>2 DEF Destroying
  <1>11. \A u \in Threads : pc'[u] \notin Referring
    BY <1>3, <1>6 DEF Goes, Referring, Opened
  <1>12. Referred'
    BY <1>4, <1>5, <1>11 DEF Referred
  <1>13. Subscribed'
    <2>1. \A j \in Instances : inst'[j].subscribers = <<>>
      BY <1>4, <1>5
    <2>2. IsInjective(<<>>)
      BY DEF IsInjective
    <2>3. \A u \in Services : pc'[u] \notin Opened
      BY <1>11 DEF Referring
    <2> QED
      BY <1>4, <2>1, <2>2, <2>3 DEF Subscribed
  <1>14. Delivering'
    <2>1. \A u \in CtrlThreads :
            pc'[u] \in {"enter", "lock", "deliver"} => pc[u] \in {"enter", "lock", "deliver"}
      BY <1>3 DEF Goes
    <2>2. \A u \in CtrlThreads : pc[u] # "deliver" /\ pc'[u] # "deliver"
      BY <1>6, <1>11 DEF Referring
    <2>3. \A u \in CtrlThreads : ctrl'[u] = ctrl[u]
      BY <1>2
    <2> QED
      BY <2>1, <2>2, <2>3 DEF ThreadsKept, Delivering
  <1> QED
    BY <1>7, <1>8, <1>9, <1>10, <1>12, <1>13, <1>14 DEF ThreadsKept

\* The latch is counted down; the next instance may be made.
LEMMA CountStep ==
  ASSUME ThreadsKept, NEW t \in Threads, count_down(t)
  PROVE  ThreadsKept'
  <1> USE ThreadKinds
  <1>1. /\ pc[t] = "count_down" /\ Goto(t, Ends(t)) /\ latch' = latch - 1
        /\ UNCHANGED <<value_mutex, weak_value, inst, ctrl>>
    BY DEF count_down
  <1>2. /\ Ends(t) \in {"none", "done"}
        /\ t \in Services => Ends(t) \in ServicePlaces
        /\ t \in CtrlThreads => Ends(t) \in CtrlPlaces
    BY DEF Ends, ServicePlaces, CtrlPlaces
  <1>3. /\ Goes(t, Ends(t))
        /\ pc' \in [Threads -> ServicePlaces \cup CtrlPlaces]
        /\ \A u \in Services : pc'[u] \in ServicePlaces
        /\ \A u \in CtrlThreads : pc'[u] \in CtrlPlaces
    BY <1>1, <1>2, GoesOn DEF ThreadsKept
  <1>4. latch' = 0 /\ \A i \in Instances : ~inst[i].registered
    BY <1>1 DEF ThreadsKept, ThreadsTyped, OneLatch
  <1>5. ThreadsTyped'
    BY <1>1, <1>3, <1>4 DEF ThreadsKept, ThreadsTyped
  <1>6. MutexHeld'
    <2>1. \A u \in Services : pc'[u] = "latch" <=> pc[u] = "latch"
      BY <1>1, <1>2, <1>3 DEF Goes
    <2> QED
      BY <1>1, <2>1 DEF ThreadsKept, MutexHeld
  <1>7. OneLatch'
    <2>1. \A u \in Threads : pc[u] = "count_down" => u = t
      BY <1>1 DEF ThreadsKept, OneLatch
    <2>2. \A u \in Threads : pc'[u] # "count_down"
      BY <1>2, <1>3, <2>1 DEF Goes
    <2> QED
      BY <1>1, <1>4, <2>2 DEF OneLatch
  <1>8. Destroying'
    <2>1. \A u \in Threads : pc'[u] = "unregister" => pc[u] = "unregister"
      BY <1>2, <1>3 DEF Goes
    <2> QED
      BY <1>1, <2>1 DEF ThreadsKept, Destroying
  <1>9. Referred'
    <2>1. \A u \in Threads : pc'[u] \in Referring <=> pc[u] \in Referring
      BY <1>1, <1>2, <1>3 DEF Goes, Referring, Opened
    <2> QED
      BY <1>1, <2>1, InstancesTyped DEF ThreadsKept, Referred
  <1>10. Subscribed'
    <2>1. \A u \in Services : pc'[u] \in Opened <=> pc[u] \in Opened
      BY <1>1, <1>2, <1>3 DEF Goes, Opened
    <2> QED
      BY <1>1, <2>1, InstancesTyped DEF ThreadsKept, Subscribed
  <1>11. Delivering'
    BY <1>1, <1>2, <1>3 DEF ThreadsKept, Delivering, Goes
  <1> QED
    BY <1>5, <1>6, <1>7, <1>8, <1>9, <1>10, <1>11 DEF ThreadsKept


\* A thread of the system holds subscribers_mutex_ and has the list before it.
LEMMA LockSubscribersStep ==
  ASSUME ThreadsKept, NEW t \in CtrlThreads, LockSubscribers(t)
  PROVE  ThreadsKept'
  <1> USE ThreadKinds
  <1> DEFINE w == weak_value
             q == inst[w].subscribers
  <1>1. /\ w \in Instances /\ InstanceOf(t) = w /\ t \in inst[w].refs
        /\ inst[w].registered /\ inst[w] \in InstStates
    BY RefersTo DEF LockSubscribers, Referring
  <1>2. /\ pc[t] = "lock" /\ inst[w].subscribers_mutex = {}
        /\ inst' = [inst EXCEPT ![w].subscribers_mutex = {t}] /\ Goto(t, "deliver")
        /\ ctrl' = [ctrl EXCEPT ![t].rest = q]
        /\ UNCHANGED <<value_mutex, weak_value, latch>>
    BY <1>1 DEF LockSubscribers
  <1>3. InstHas(w, inst[w].refs, q, {t})
    <2> DEFINE M == {t}
    <2>1. M \in SUBSET CtrlThreads /\ inst' = [inst EXCEPT ![w].subscribers_mutex = M]
      BY <1>2
    <2> HIDE DEF M
    <2>2. InstHas(w, inst[w].refs, q, M)
      BY <1>1, <2>1, InstancesTyped DEF InstHas, ThreadsKept, ThreadsTyped, InstStates
    <2> QED
      BY <2>2 DEF M
  <1>4. /\ Goes(t, "deliver")
        /\ MutexHeld' /\ OneLatch' /\ Destroying' /\ Referred'
        /\ pc' \in [Threads -> ServicePlaces \cup CtrlPlaces]
        /\ \A u \in Services : pc'[u] \in ServicePlaces
        /\ \A u \in CtrlThreads : pc'[u] \in CtrlPlaces
    BY <1>2, <1>3, ReferStep DEF Referring, Opened, CtrlPlaces
  <1>5. /\ ctrl' \in [CtrlThreads -> [signal : Signals \cup {"none"}, rest : Seq(Services)]]
        /\ \A u \in CtrlThreads : u # t => ctrl'[u] = ctrl[u]
        /\ ctrl'[t].rest = q /\ ctrl'[t].signal = ctrl[t].signal
    <2>1. q \in Seq(Services)
      BY <1>1 DEF InstStates
    <2> HIDE DEF q
    <2> QED
      BY <1>2, <2>1 DEF ThreadsKept, ThreadsTyped
  <1>6. ThreadsTyped'
    BY <1>2, <1>3, <1>4, <1>5 DEF ThreadsKept, ThreadsTyped, InstHas
  <1>7. \A i \in Instances : inst'[i].subscribers = inst[i].subscribers
    BY <1>3 DEF InstHas
  <1>8. Subscribed'
    <2>1. \A u \in Services : pc'[u] \in Opened <=> pc[u] \in Opened
      BY <1>2, <1>4 DEF Goes, Opened
    <2>2. \A i \in Instances : ToSet(inst'[i].subscribers) = ToSet(inst[i].subscribers)
      BY <1>7
    <2>3. \A i \in Instances : \A u \in ToSet(inst'[i].subscribers) : pc'[u] \in Opened
      BY <2>1, <2>2, InstancesTyped DEF ThreadsKept, Subscribed
    <2>4. \A u \in Services : pc'[u] \in Opened => u \in ToSet(inst'[w].subscribers)
      BY <1>1, <2>1, <2>2 DEF ThreadsKept, Subscribed
    <2>5. \A i \in Instances : IsInjective(inst'[i].subscribers)
      BY <1>7 DEF ThreadsKept, Subscribed
    <2> QED
      BY <1>2, <2>3, <2>4, <2>5 DEF Subscribed
  <1>9. Delivering'
    <2>1. \A u \in CtrlThreads : pc[u] # "deliver"
      BY <1>1, <1>2, NobodyDelivers
    <2>2. /\ ctrl[t].signal \in Signals
          /\ inst'[w].subscribers_mutex = {t}
          /\ ToSet(ctrl'[t].rest) \subseteq ToSet(inst'[w].subscribers)
      BY <1>1, <1>2, <1>3, <1>5, <1>7 DEF InstHas, ThreadsKept, Delivering
    <2>3. ASSUME NEW u \in CtrlThreads, u # t
          PROVE  pc'[u] = pc[u] /\ pc'[u] # "deliver" /\ ctrl'[u] = ctrl[u]
      BY <1>4, <1>5, <2>1, <2>3 DEF Goes
    <2>4. pc'[t] = "deliver"
      BY <1>4 DEF Goes
    <2> QED
      BY <1>2, <1>5, <2>2, <2>3, <2>4 DEF ThreadsKept, Delivering
  <1> QED
    BY <1>4, <1>6, <1>8, <1>9 DEF ThreadsKept

\* One more of the services in the list has had the signal.
LEMMA DeliverStep ==
  ASSUME ThreadsKept, NEW t \in CtrlThreads, Deliver(t)
  PROVE  ThreadsKept'
  <1>1. /\ pc[t] = "deliver" /\ ctrl[t].rest # <<>>
        /\ ctrl' = [ctrl EXCEPT ![t].rest = Tail(ctrl[t].rest)]
        /\ UNCHANGED <<value_mutex, weak_value, latch, inst, pc>>
    BY DEF Deliver
  <1> DEFINE r == ctrl[t].rest
  <1>2. r \in Seq(Services)
    BY DEF ThreadsKept, ThreadsTyped
  <1>3. Tail(r) \in Seq(Services) /\ ToSet(Tail(r)) \subseteq ToSet(r)
    <2>1. Tail(r) \in Seq(Services)
      BY <1>1, <1>2
    <2>2. ASSUME NEW k \in DOMAIN Tail(r)
          PROVE  \E l \in DOMAIN r : Tail(r)[k] = r[l]
      <3>1. k + 1 \in DOMAIN r /\ Tail(r)[k] = r[k + 1]
        BY <1>1, <1>2
      <3> QED
        BY <3>1
    <2> QED
      BY <2>1, <2>2 DEF ToSet
  <1> HIDE DEF r
  <1>4. /\ ctrl' \in [CtrlThreads -> [signal : Signals \cup {"none"}, rest : Seq(Services)]]
        /\ \A u \in CtrlThreads : u # t => ctrl'[u] = ctrl[u]
        /\ ctrl'[t].rest = Tail(r) /\ ctrl'[t].signal = ctrl[t].signal
    BY <1>1, <1>3 DEF ThreadsKept, ThreadsTyped, r
  <1>5. ThreadsTyped'
    BY <1>1, <1>4 DEF ThreadsKept, ThreadsTyped
  <1>6. MutexHeld' /\ OneLatch' /\ Destroying' /\ Referred' /\ Subscribed'
    BY <1>1 DEF ThreadsKept, MutexHeld, OneLatch, Destroying, Referred, Subscribed
  <1>7. Delivering'
    <2>1. ToSet(ctrl'[t].rest) \subseteq ToSet(inst[weak_value].subscribers)
      BY <1>1, <1>3, <1>4 DEF ThreadsKept, Delivering, r
    <2> QED
      BY <1>1, <1>4, <2>1 DEF ThreadsKept, Delivering
  <1> QED
    BY <1>5, <1>6, <1>7 DEF ThreadsKept

\* The thread of the system releases subscribers_mutex_.
LEMMA UnlockStep ==
  ASSUME ThreadsKept, NEW t \in CtrlThreads, UnlockSubscribers(t)
  PROVE  ThreadsKept'
  <1> USE ThreadKinds
  <1> DEFINE w == weak_value
             q == inst[w].subscribers
  <1>1. /\ w \in Instances /\ InstanceOf(t) = w /\ t \in inst[w].refs
        /\ inst[w].registered /\ inst[w] \in InstStates
    BY RefersTo DEF UnlockSubscribers, Referring
  <1>2. /\ pc[t] = "deliver" /\ ctrl[t].rest = <<>>
        /\ inst' = [inst EXCEPT ![w].subscribers_mutex = {}] /\ Goto(t, "release")
        /\ ctrl' = [ctrl EXCEPT ![t].signal = "none"]
        /\ UNCHANGED <<value_mutex, weak_value, latch>>
    BY <1>1 DEF UnlockSubscribers
  <1>3. InstHas(w, inst[w].refs, q, {})
    BY <1>1, <1>2, InstancesTyped DEF InstHas, ThreadsKept, ThreadsTyped, InstStates
  <1>4. /\ Goes(t, "release")
        /\ MutexHeld' /\ OneLatch' /\ Destroying' /\ Referred'
        /\ pc' \in [Threads -> ServicePlaces \cup CtrlPlaces]
        /\ \A u \in Services : pc'[u] \in ServicePlaces
        /\ \A u \in CtrlThreads : pc'[u] \in CtrlPlaces
    BY <1>2, <1>3, ReferStep DEF Referring, Opened, CtrlPlaces, Leaving
  <1>5. /\ ctrl' \in [CtrlThreads -> [signal : Signals \cup {"none"}, rest : Seq(Services)]]
        /\ \A u \in CtrlThreads : u # t => ctrl'[u] = ctrl[u]
        /\ ctrl'[t].rest = <<>>
    BY <1>1, <1>2 DEF ThreadsKept, ThreadsTyped
  <1>6. ThreadsTyped'
    BY <1>2, <1>3, <1>4, <1>5 DEF ThreadsKept, ThreadsTyped, InstHas
  <1>7. \A i \in Instances : inst'[i].subscribers = inst[i].subscribers
    BY <1>3 DEF InstHas
  <1>8. Subscribed'
    <2>1. \A u \in Services : pc'[u] \in Opened <=> pc[u] \in Opened
      BY <1>2, <1>4 DEF Goes, Opened
    <2>2. \A i \in Instances : ToSet(inst'[i].subscribers) = ToSet(inst[i].subscribers)
      BY <1>7
    <2>3. \A i \in Instances : \A u \in ToSet(inst'[i].subscribers) : pc'[u] \in Opened
      BY <2>1, <2>2, InstancesTyped DEF ThreadsKept, Subscribed
    <2>4. \A u \in Services : pc'[u] \in Opened => u \in ToSet(inst'[w].subscribers)
      BY <1>1, <2>1, <2>2 DEF ThreadsKept, Subscribed
    <2>5. \A i \in Instances : IsInjective(inst'[i].subscribers)
      BY <1>7 DEF ThreadsKept, Subscribed
    <2> QED
      BY <1>2, <2>3, <2>4, <2>5 DEF Subscribed
  <1>9. Delivering'
    <2>1. \A u \in CtrlThreads : u # t => pc[u] # "deliver"
      BY <1>2 DEF ThreadsKept, Delivering
    <2>2. ASSUME NEW u \in CtrlThreads, u # t
          PROVE  pc'[u] = pc[u] /\ pc'[u] # "deliver" /\ ctrl'[u] = ctrl[u]
      BY <1>4, <1>5, <2>1, <2>2 DEF Goes
    <2>3. pc'[t] = "release"
      BY <1>4 DEF Goes
    <2> QED
      BY <1>5, <2>2, <2>3 DEF ThreadsKept, Delivering
  <1> QED
    BY <1>4, <1>6, <1>8, <1>9 DEF ThreadsKept


-----------------------------------------------------------------------------
\* The services are left alone, and no service goes on that is constructed.
LEMMA SvcIdle ==
  ASSUME ServicesKept, UNCHANGED svc,
         \A s \in Services : pc'[s] = pc[s] \/ (pc[s] \notin Opened /\ pc'[s] # "shut")
  PROVE  ServicesKept'
  <1>1. ASSUME NEW s \in Services
        PROVE  /\ Kept(svc[s]) /\ (pc'[s] = "shut" => svc[s].shutdown)
               /\ pc'[s] \notin Opened => svc[s].accepted = {}
    BY DEF ServicesKept
  <1> QED
    BY <1>1 DEF ServicesKept

\* A constructed service does something.
LEMMA SvcUse ==
  ASSUME ServicesKept, NEW s \in Services, pc[s] \in Opened, NEW y,
         Kept(y) /\ y.shutdown = svc[s].shutdown,
         svc' = [svc EXCEPT ![s] = y], UNCHANGED pc
  PROVE  ServicesKept'
  <1>1. DOMAIN svc' = Services /\ \A u \in Services : svc'[u] = IF u = s THEN y ELSE svc[u]
    BY DEF ServicesKept
  <1>2. ASSUME NEW u \in Services
        PROVE  /\ Kept(svc'[u]) /\ (pc[u] = "shut" => svc'[u].shutdown)
               /\ pc[u] \notin Opened => svc'[u].accepted = {}
    <2>1. Kept(svc[u]) /\ (pc[u] = "shut" => svc[u].shutdown)
          /\ (pc[u] \notin Opened => svc[u].accepted = {})
      BY DEF ServicesKept
    <2>2. CASE u = s
      BY <1>1, <2>1, <2>2
    <2>3. CASE u # s
      BY <1>1, <2>1, <2>3
    <2> QED
      BY <2>2, <2>3
  <1> QED
    BY <1>1, <1>2 DEF ServicesKept

\* Nothing changes but services.
LEMMA ThreadsSame ==
  ASSUME ThreadsKept, UNCHANGED <<value_mutex, weak_value, latch, inst, pc, ctrl>>
  PROVE  ThreadsKept'
  BY DEF ThreadsKept, ThreadsTyped, MutexHeld, OneLatch, Destroying, Referred,
         Subscribed, Delivering

\* The program makes no services yet.
LEMMA ConsoleInitInv == ConsoleInit => ConsoleInv
  <1> SUFFICES ASSUME ConsoleInit PROVE ConsoleInv
    OBVIOUS
  <1> USE ThreadKinds
  <1>1. ServicesKept
    <2>1. \A s \in Services : svc[s] = console_signal_service /\ pc[s] = "none"
      BY DEF ConsoleInit
    <2>2. DOMAIN svc = Services
      BY DEF ConsoleInit
    <2> QED
      BY <2>1, <2>2, FreshKept DEF ServicesKept
  <1>2. /\ system_service.refs = {} /\ system_service.subscribers = <<>>
        /\ ~system_service.registered
        /\ system_service \in InstStates /\ ToSet(<<>>) = {} /\ IsInjective(<<>>)
    BY DEF system_service, InstStates, ToSet, IsInjective
  <1>3. /\ \A i \in Instances : inst[i] = system_service
        /\ \A s \in Services : pc[s] = "none"
        /\ \A t \in CtrlThreads : pc[t] = "idle"
        /\ \A t \in CtrlThreads : ctrl[t].rest = <<>>
        /\ latch = 0 /\ weak_value = 0 /\ value_mutex = {}
    BY DEF ConsoleInit
  <1>4. ThreadsTyped
    <2>1. pc \in [Threads -> ServicePlaces \cup CtrlPlaces]
      BY DEF ConsoleInit, ServicePlaces, CtrlPlaces
    <2>2. inst \in [Instances -> InstStates]
      BY <1>2 DEF ConsoleInit
    <2>3. ctrl \in [CtrlThreads -> [signal : Signals \cup {"none"}, rest : Seq(Services)]]
      BY DEF ConsoleInit
    <2> QED
      BY <1>3, <2>1, <2>2, <2>3 DEF ThreadsTyped, ServicePlaces, CtrlPlaces
  <1>5. \A t \in Threads : pc[t] = "none" \/ pc[t] = "idle"
    BY <1>3
  <1>6. MutexHeld
    BY <1>3 DEF MutexHeld
  <1>7. OneLatch /\ Destroying
    BY <1>2, <1>3, <1>5 DEF OneLatch, Destroying
  <1>8. Referred
    BY <1>2, <1>3, <1>5 DEF Referred, Referring, Opened
  <1>9. Subscribed
    BY <1>2, <1>3 DEF Subscribed, Opened
  <1>10. Delivering
    BY <1>3 DEF Delivering
  <1> QED
    BY <1>1, <1>4, <1>6, <1>7, <1>8, <1>9, <1>10 DEF ConsoleInv, ThreadsKept

\* A step of a service, up to where it is constructed and from where it is shut.
LEMMA ServiceStepInv ==
  ASSUME ConsoleInv, NEW s \in Services, ServiceStep(s)
  PROVE  ConsoleInv'
  <1> USE ThreadKinds
  <1>1. ServicesKept /\ ThreadsKept /\ s \in Threads /\ ThreadsTyped
    BY DEF ConsoleInv, ThreadsKept
  <1>2. ASSUME NEW label, Goto(s, label), label # "shut", pc[s] \notin Opened, UNCHANGED svc
        PROVE  ServicesKept'
    <2>1. \A u \in Services : pc'[u] = IF u = s THEN label ELSE pc[u]
      BY <1>1, <1>2 DEF Goto, ThreadsTyped
    <2> QED
      BY <1>1, <1>2, <2>1, SvcIdle
  <1>3. CASE get_instance(s)
    <2>1. CASE Locked # {}
      <3>1. /\ pc[s] = "get" /\ Goto(s, "add") /\ get_nullable_instance(s) /\ UNCHANGED svc
            /\ UNCHANGED <<value_mutex, weak_value, latch, ctrl>>
        BY <1>3, <2>1 DEF get_instance
      <3>2. ThreadsKept'
        BY <1>1, <2>1, <3>1, LockStep DEF ServicePlaces
      <3>3. ServicesKept'
        BY <1>2, <3>1 DEF Opened
      <3> QED
        BY <3>2, <3>3 DEF ConsoleInv
    <2>2. CASE Locked = {}
      <3>1. /\ pc[s] = "get" /\ value_mutex = {} /\ Goto(s, "latch") /\ value_mutex' = {s}
            /\ UNCHANGED <<weak_value, latch, inst, ctrl>> /\ UNCHANGED svc
        BY <1>3, <2>2 DEF get_instance
      <3>2. ThreadsKept'
        BY <1>1, <3>1, HoldStep
      <3>3. ServicesKept'
        BY <1>2, <3>1 DEF Opened
      <3> QED
        BY <3>2, <3>3 DEF ConsoleInv
    <2> QED
      BY <2>1, <2>2
  <1>4. CASE CreateInstance(s)
    <2>1. /\ pc[s] = "latch" /\ LatchOpen /\ value_mutex' = {} /\ UNCHANGED ctrl
          /\ UNCHANGED svc
      BY <1>4 DEF CreateInstance
    <2>2. CASE instance_guard /\ MakeInstance(s) /\ weak_value' = NewInstance /\ Goto(s, "add")
      <3>1. ThreadsKept'
        BY <1>1, <2>1, <2>2, MakeStep
      <3>2. ServicesKept'
        BY <1>2, <2>1, <2>2 DEF Opened
      <3> QED
        BY <3>1, <3>2 DEF ConsoleInv
    <2>3. CASE Goto(s, "none") /\ UNCHANGED <<latch, inst, weak_value>>
      <3>1. ThreadsKept'
        BY <1>1, <2>1, <2>3, ThrowStep
      <3>2. ServicesKept'
        BY <1>2, <2>1, <2>3 DEF Opened
      <3> QED
        BY <3>1, <3>2 DEF ConsoleInv
    <2> QED
      BY <1>4, <2>2, <2>3 DEF CreateInstance
  <1>5. CASE add_subscriber(s)
    <2>1. ThreadsKept'
      BY <1>1, <1>5, AddStep
    <2>2. ServicesKept'
      BY <1>2, <1>5 DEF add_subscriber, Opened
    <2> QED
      BY <2>1, <2>2 DEF ConsoleInv
  <1>6. CASE DestroyService(s)
    <2>1. ThreadsKept'
      BY <1>1, <1>6, RemoveStep
    <2> DEFINE y == [console_signal_service EXCEPT !.accepted =
                 handler_list_owner(DestroyHandlers(svc[s],
                   {p.handler : p \in svc[s].posted})).accepted]
    <2>2. pc[s] = "shut" /\ svc' = [svc EXCEPT ![s] = y] /\ Goto(s, "release")
      BY <1>6 DEF DestroyService, remove_subscriber
    <2>3. Kept(svc[s]) /\ svc[s].shutdown
      BY <1>1, <2>2 DEF ServicesKept
    <2>4. y = [console_signal_service EXCEPT !.accepted = {}]
      <3>1. handler_list_owner(DestroyHandlers(svc[s],
              {p.handler : p \in svc[s].posted})).accepted = {}
        BY <2>3, NoneLeft
      <3> QED
        BY <3>1
    <2> HIDE DEF y
    <2>5. y = console_signal_service
      BY <2>4 DEF console_signal_service
    <2>6. \A u \in Services : /\ svc'[u] = IF u = s THEN y ELSE svc[u]
                              /\ pc'[u] = IF u = s THEN "release" ELSE pc[u]
      BY <1>1, <2>2 DEF ServicesKept, Goto, ThreadsTyped
    <2>7. ASSUME NEW u \in Services
          PROVE  /\ Kept(svc'[u]) /\ (pc'[u] = "shut" => svc'[u].shutdown)
                 /\ pc'[u] \notin Opened => svc'[u].accepted = {}
      <3>1. CASE u = s
        BY <2>5, <2>6, <3>1, FreshKept
      <3>2. CASE u # s
        BY <1>1, <2>6, <3>2 DEF ServicesKept
      <3> QED
        BY <3>1, <3>2
    <2>8. DOMAIN svc' = Services
      BY <1>1, <2>2 DEF ServicesKept
    <2> QED
      BY <2>1, <2>7, <2>8 DEF ConsoleInv, ServicesKept
  <1>7. CASE Unreference(s)
    <2>1. ThreadsKept'
      BY <1>1, <1>7, UnrefStep
    <2> DEFINE label == IF inst[InstanceOf(s)].refs = {s} THEN "unregister" ELSE Ends(s)
    <2>2. pc[s] = "release" /\ Goto(s, label) /\ UNCHANGED svc
      BY <1>7 DEF Unreference
    <2>3. label # "shut"
      BY DEF Ends
    <2> HIDE DEF label
    <2>4. ServicesKept'
      BY <1>2, <2>2, <2>3 DEF Opened
    <2> QED
      BY <2>1, <2>4 DEF ConsoleInv
  <1>8. CASE Unregister(s)
    <2>1. ThreadsKept'
      BY <1>1, <1>8, UnregisterStep
    <2>2. ServicesKept'
      BY <1>2, <1>8 DEF Unregister, Opened
    <2> QED
      BY <2>1, <2>2 DEF ConsoleInv
  <1>9. CASE count_down(s)
    <2>1. ThreadsKept'
      BY <1>1, <1>9, CountStep
    <2>2. pc[s] = "count_down" /\ Goto(s, Ends(s)) /\ UNCHANGED svc /\ Ends(s) # "shut"
      BY <1>9 DEF count_down, Ends
    <2>3. ServicesKept'
      BY <1>2, <2>2 DEF Opened
    <2> QED
      BY <2>1, <2>3 DEF ConsoleInv
  <1> QED
    BY <1>3, <1>4, <1>5, <1>6, <1>7, <1>8, <1>9 DEF ServiceStep


\* A step of a thread of the system.
LEMMA CtrlStepInv ==
  ASSUME ConsoleInv, NEW t \in CtrlThreads, CtrlStep(t)
  PROVE  ConsoleInv'
  <1> USE ThreadKinds
  <1>1. ServicesKept /\ ThreadsKept /\ t \in Threads /\ ThreadsTyped /\ t \notin Services
    BY DEF ConsoleInv, ThreadsKept
  <1>2. ASSUME NEW label, Goto(t, label), UNCHANGED svc
        PROVE  ServicesKept'
    <2>1. \A u \in Services : pc'[u] = pc[u]
      BY <1>1, <1>2 DEF Goto, ThreadsTyped
    <2> QED
      BY <1>1, <1>2, <2>1, SvcIdle
  <1>3. CASE windows_ctrl_handler(t)
    <2>1. CASE Locked # {}
      <3>1. /\ pc[t] = "enter" /\ Goto(t, "lock") /\ get_nullable_instance(t) /\ UNCHANGED svc
            /\ UNCHANGED <<value_mutex, weak_value, latch, ctrl>>
        BY <1>3, <2>1 DEF windows_ctrl_handler
      <3>2. ThreadsKept'
        BY <1>1, <2>1, <3>1, LockStep DEF CtrlPlaces
      <3>3. ServicesKept'
        BY <1>2, <3>1
      <3> QED
        BY <3>2, <3>3 DEF ConsoleInv
    <2>2. CASE Locked = {}
      <3>1. /\ pc[t] = "enter" /\ Goto(t, "done") /\ UNCHANGED svc
            /\ UNCHANGED <<value_mutex, weak_value, latch>>
            /\ ctrl' = [ctrl EXCEPT ![t].signal = "none"]
            /\ inst' = [i \in Instances |-> inst[i]]
        BY <1>3, <2>2 DEF windows_ctrl_handler, get_nullable_instance
      <3>2. inst' = inst
        BY <1>1, <3>1 DEF ThreadsTyped
      <3>3. /\ ctrl' \in [CtrlThreads -> [signal : Signals \cup {"none"}, rest : Seq(Services)]]
            /\ \A u \in CtrlThreads : ctrl'[u].rest = ctrl[u].rest
            /\ \A u \in CtrlThreads : u # t => ctrl'[u].signal = ctrl[u].signal
        BY <1>1, <3>1 DEF ThreadsTyped
      <3>4. ThreadsKept'
        BY <1>1, <3>1, <3>2, <3>3, AsideStep DEF Aside, CtrlPlaces
      <3>5. ServicesKept'
        BY <1>2, <3>1
      <3> QED
        BY <3>4, <3>5 DEF ConsoleInv
    <2> QED
      BY <2>1, <2>2
  <1>4. CASE LockSubscribers(t)
    <2>1. ThreadsKept'
      BY <1>1, <1>4, LockSubscribersStep
    <2>2. ServicesKept'
      BY <1>2, <1>4 DEF LockSubscribers
    <2> QED
      BY <2>1, <2>2 DEF ConsoleInv
  <1>5. CASE Deliver(t)
    <2>1. ThreadsKept'
      BY <1>1, <1>5, DeliverStep
    <2> DEFINE s == Head(ctrl[t].rest)
               g == ctrl[t].signal
    <2>2. /\ pc[t] = "deliver" /\ ctrl[t].rest # <<>> /\ UNCHANGED pc
          /\ svc' = [svc EXCEPT ![s] = deliver_signal(svc[s], g)]
      BY <1>5 DEF Deliver
    <2>3. g \in Signals /\ weak_value \in Instances
          /\ ToSet(ctrl[t].rest) \subseteq ToSet(inst[weak_value].subscribers)
      BY <1>1, <2>2, RefersTo DEF ThreadsKept, Delivering, Referring
    <2>4. s \in ToSet(ctrl[t].rest)
      <3>1. ctrl[t].rest \in Seq(Services)
        BY <1>1 DEF ThreadsTyped
      <3>2. 1 \in DOMAIN ctrl[t].rest /\ s = ctrl[t].rest[1]
        BY <2>2, <3>1
      <3> QED
        BY <3>2 DEF ToSet
    <2> HIDE DEF s, g
    <2>5. s \in Services /\ pc[s] \in Opened
      BY <1>1, <2>3, <2>4, InstancesTyped DEF ThreadsKept, Subscribed
    <2>6. Kept(svc[s])
      BY <1>1, <2>5 DEF ServicesKept
    <2>7. Kept(deliver_signal(svc[s], g)) /\ deliver_signal(svc[s], g).shutdown = svc[s].shutdown
      BY <2>3, <2>6, DeliverKept
    <2>8. ServicesKept'
      BY <1>1, <2>2, <2>5, <2>7, SvcUse
    <2> QED
      BY <2>1, <2>8 DEF ConsoleInv
  <1>6. CASE UnlockSubscribers(t)
    <2>1. ThreadsKept'
      BY <1>1, <1>6, UnlockStep
    <2>2. ServicesKept'
      BY <1>2, <1>6 DEF UnlockSubscribers
    <2> QED
      BY <2>1, <2>2 DEF ConsoleInv
  <1>7. CASE Unreference(t)
    <2>1. ThreadsKept'
      BY <1>1, <1>7, UnrefStep
    <2>2. ServicesKept'
      BY <1>2, <1>7 DEF Unreference
    <2> QED
      BY <2>1, <2>2 DEF ConsoleInv
  <1>8. CASE Unregister(t)
    <2>1. ThreadsKept'
      BY <1>1, <1>8, UnregisterStep
    <2>2. ServicesKept'
      BY <1>2, <1>8 DEF Unregister
    <2> QED
      BY <2>1, <2>2 DEF ConsoleInv
  <1>9. CASE count_down(t)
    <2>1. ThreadsKept'
      BY <1>1, <1>9, CountStep
    <2>2. ServicesKept'
      BY <1>2, <1>9 DEF count_down
    <2> QED
      BY <2>1, <2>2 DEF ConsoleInv
  <1> QED
    BY <1>3, <1>4, <1>5, <1>6, <1>7, <1>8, <1>9 DEF CtrlStep

\* A service is used by the threads of its io_service.
LEMMA UseInv ==
  ASSUME ConsoleInv, NEW s \in Services, pc[s] \in Opened, NEW y, Use(s, y),
         Kept(y) /\ y.shutdown = svc[s].shutdown
  PROVE  ConsoleInv'
  <1>1. ServicesKept /\ ThreadsKept
    BY DEF ConsoleInv
  <1>2. ThreadsKept'
    BY <1>1, ThreadsSame DEF Use
  <1>3. ServicesKept'
    BY <1>1, SvcUse DEF Use
  <1> QED
    BY <1>2, <1>3 DEF ConsoleInv

\* Every step keeps the invariant.
LEMMA ConsoleNextInv == ConsoleInv /\ [ConsoleNext]_console_vars => ConsoleInv'
  <1> SUFFICES ASSUME ConsoleInv, [ConsoleNext]_console_vars PROVE ConsoleInv'
    OBVIOUS
  <1> USE ThreadKinds
  <1>1. ServicesKept /\ ThreadsKept /\ ThreadsTyped
    BY DEF ConsoleInv, ThreadsKept
  <1>2. CASE UNCHANGED console_vars
    <2>1. UNCHANGED <<value_mutex, weak_value, latch, inst, pc, ctrl>> /\ UNCHANGED svc
      BY <1>2 DEF console_vars
    <2>2. ThreadsKept'
      BY <1>1, <2>1, ThreadsSame
    <2>3. ServicesKept'
      BY <1>1, <2>1, SvcIdle
    <2> QED
      BY <2>2, <2>3 DEF ConsoleInv
  <1>3. ASSUME NEW s \in Services, Construct(s) PROVE ConsoleInv'
    <2>1. /\ pc[s] = "none" /\ Goto(s, "get") /\ UNCHANGED svc
          /\ UNCHANGED <<value_mutex, weak_value, latch, inst>> /\ UNCHANGED ctrl
      BY <1>3 DEF Construct
    <2>2. s \in Threads /\ s \notin CtrlThreads
      OBVIOUS
    <2>3. ThreadsKept'
      <3>1. ctrl' \in [CtrlThreads -> [signal : Signals \cup {"none"}, rest : Seq(Services)]]
        BY <1>1, <2>1 DEF ThreadsTyped
      <3> QED
        BY <1>1, <2>1, <2>2, <3>1, AsideStep DEF Aside, ServicePlaces
    <2>4. \A u \in Services : pc'[u] = IF u = s THEN "get" ELSE pc[u]
      BY <1>1, <2>1 DEF Goto, ThreadsTyped
    <2>5. ServicesKept'
      BY <1>1, <2>1, <2>4, SvcIdle DEF Opened
    <2> QED
      BY <2>3, <2>5 DEF ConsoleInv
  <1>4. ASSUME NEW s \in Services, Operate(s) PROVE ConsoleInv'
    <2>1. pc[s] \in Opened /\ Kept(svc[s])
      BY <1>1, <1>4 DEF Operate, Opened, ServicesKept
    <2>2. svc[s].impls \subseteq Impls
      BY <2>1, KeptTypes DEF Typed
    <2>3. ASSUME NEW i \in Impls \ svc[s].impls, Use(s, construct(svc[s], i))
          PROVE  ConsoleInv'
      <3>1. Kept(construct(svc[s], i)) /\ construct(svc[s], i).shutdown = svc[s].shutdown
        BY <2>1, ConstructKept
      <3> QED
        BY <2>1, <2>3, <3>1, UseInv
    <2>4. ASSUME NEW i \in svc[s].impls, Use(s, destroy(svc[s], i))
          PROVE  ConsoleInv'
      <3>1. Kept(destroy(svc[s], i)) /\ destroy(svc[s], i).shutdown = svc[s].shutdown
        BY <2>1, DestroyKept
      <3> QED
        BY <2>1, <2>4, <3>1, UseInv
    <2>5. ASSUME NEW i \in svc[s].impls, Use(s, cancel(svc[s], i))
          PROVE  ConsoleInv'
      <3>1. Kept(cancel(svc[s], i)) /\ cancel(svc[s], i).shutdown = svc[s].shutdown
        BY <2>1, CancelKept
      <3> QED
        BY <2>1, <2>5, <3>1, UseInv
    <2>6. ASSUME NEW i \in svc[s].impls, NEW h \in Handlers \ InUse,
                 Use(s, async_wait(svc[s], i, h))
          PROVE  ConsoleInv'
      <3>1. h \in Handlers \ svc[s].accepted
        BY DEF InUse
      <3>2. Kept(async_wait(svc[s], i, h)) /\ async_wait(svc[s], i, h).shutdown = svc[s].shutdown
        BY <2>1, <3>1, WaitKept
      <3> QED
        BY <2>1, <2>6, <3>2, UseInv
    <2> QED
      BY <1>4, <2>3, <2>4, <2>5, <2>6 DEF Operate
  <1>5. ASSUME NEW s \in Services, Shutdown(s) PROVE ConsoleInv'
    <2>1. ThreadsKept'
      BY <1>1, <1>5, ShutStep
    <2> DEFINE y == shutdown_service(svc[s])
    <2>2. pc[s] = "open" /\ svc' = [svc EXCEPT ![s] = y] /\ Goto(s, "shut")
      BY <1>5 DEF Shutdown
    <2>3. Kept(svc[s])
      BY <1>1 DEF ServicesKept
    <2>4. Kept(y) /\ y.shutdown
      BY <2>3, ShutdownKept
    <2> HIDE DEF y
    <2>5. \A u \in Services : /\ svc'[u] = IF u = s THEN y ELSE svc[u]
                              /\ pc'[u] = IF u = s THEN "shut" ELSE pc[u]
      BY <1>1, <2>2 DEF ServicesKept, Goto, ThreadsTyped
    <2>6. ASSUME NEW u \in Services
          PROVE  /\ Kept(svc'[u]) /\ (pc'[u] = "shut" => svc'[u].shutdown)
                 /\ pc'[u] \notin Opened => svc'[u].accepted = {}
      <3>1. CASE u = s
        BY <2>4, <2>5, <3>1 DEF Opened
      <3>2. CASE u # s
        BY <1>1, <2>5, <3>2 DEF ServicesKept
      <3> QED
        BY <3>1, <3>2
    <2>7. DOMAIN svc' = Services
      BY <1>1, <2>2 DEF ServicesKept
    <2> QED
      BY <2>1, <2>6, <2>7 DEF ConsoleInv, ServicesKept
  <1>6. ASSUME NEW s \in Services, RunBinder(s) PROVE ConsoleInv'
    <2>1. /\ pc[s] \in Opened /\ Kept(svc[s]) /\ svc[s].binders # <<>>
          /\ Use(s, handler_list_binder(svc[s]))
      BY <1>1, <1>6 DEF RunBinder, Opened, ServicesKept
    <2>2. /\ Kept(handler_list_binder(svc[s]))
          /\ handler_list_binder(svc[s]).shutdown = svc[s].shutdown
      BY <2>1, BinderKept
    <2> QED
      BY <2>1, <2>2, UseInv
  <1>7. ASSUME NEW s \in Services, RunHandler(s) PROVE ConsoleInv'
    <2>1. pc[s] \in Opened /\ Kept(svc[s])
      BY <1>1, <1>7 DEF RunHandler, Opened, ServicesKept
    <2>2. PICK p \in svc[s].posted :
            Use(s, [svc[s] EXCEPT !.posted = @ \ {p}, !.accepted = @ \ {p.handler}])
      BY <1>7 DEF RunHandler
    <2> DEFINE y == [svc[s] EXCEPT !.posted = @ \ {p}, !.accepted = @ \ {p.handler}]
    <2>3. Kept(y) /\ y.shutdown = svc[s].shutdown
      BY <2>1, CallKept
    <2> HIDE DEF y
    <2>4. Use(s, y)
      BY <2>2 DEF y
    <2> QED
      BY <2>1, <2>3, <2>4, UseInv
  <1>8. ASSUME NEW t \in CtrlThreads, Signal(t) PROVE ConsoleInv'
    <2>1. /\ pc[t] = "idle" /\ Goto(t, "enter") /\ UNCHANGED svc
          /\ UNCHANGED <<value_mutex, weak_value, latch, inst>>
      BY <1>8 DEF Signal
    <2>2. PICK g \in Signals : ctrl' = [ctrl EXCEPT ![t].signal = g]
      BY <1>8 DEF Signal
    <2>3. /\ ctrl' \in [CtrlThreads -> [signal : Signals \cup {"none"}, rest : Seq(Services)]]
          /\ \A u \in CtrlThreads : ctrl'[u].rest = ctrl[u].rest
          /\ \A u \in CtrlThreads : u # t => ctrl'[u].signal = ctrl[u].signal
          /\ ctrl'[t].signal \in Signals
      BY <1>1, <2>2 DEF ThreadsTyped
    <2>4. t \in Threads /\ t \notin Services
      OBVIOUS
    <2>5. ThreadsKept'
      BY <1>1, <2>1, <2>3, <2>4, AsideStep DEF Aside, CtrlPlaces
    <2>6. \A u \in Services : pc'[u] = pc[u]
      BY <1>1, <2>1, <2>4 DEF Goto, ThreadsTyped
    <2>7. ServicesKept'
      BY <1>1, <2>1, <2>6, SvcIdle
    <2> QED
      BY <2>5, <2>7 DEF ConsoleInv
  <1>9. ASSUME NEW s \in Services, ServiceStep(s) PROVE ConsoleInv'
    BY <1>9, ServiceStepInv
  <1>10. ASSUME NEW t \in CtrlThreads, CtrlStep(t) PROVE ConsoleInv'
    BY <1>10, CtrlStepInv
  <1> QED
    BY <1>2, <1>3, <1>4, <1>5, <1>6, <1>7, <1>8, <1>9, <1>10 DEF ConsoleNext

\* The invariant implies that the services and their signals are sound.
LEMMA ConsoleSeen == ASSUME ConsoleInv PROVE ConsoleSound
  <1> USE ThreadKinds
  <1>1. ServicesKept /\ ThreadsKept
    BY DEF ConsoleInv
  <1>2. /\ HandlersOnce
        /\ \A s \in Services : \A g \in Signals : svc[s].queued[g] \in 0 .. MaxQueued
    BY <1>1, ServicesSeen
  <1>3. ASSUME NEW S, \A a, b \in S : a = b PROVE Cardinality(S) <= 1
    <2>1. CASE S = {}
      <3>1. Cardinality(S) = 0
        BY <2>1, FS_EmptySet
      <3> QED
        BY <3>1
    <2>2. CASE S # {}
      <3>1. PICK a : S = {a}
        BY <1>3, <2>2
      <3>2. Cardinality(S) = 1
        BY <3>1, FS_Singleton
      <3> QED
        BY <3>2
    <2> QED
      BY <2>1, <2>2
  <1>4. ConsoleTypeOK
    <2>1. latch \in 0 .. 1 /\ weak_value \in 0 .. 2 /\ \A s, t \in value_mutex : s = t
      BY <1>1 DEF ThreadsKept, ThreadsTyped, MutexHeld
    <2>2. Cardinality(value_mutex) <= 1
      BY <1>3, <2>1
    <2> QED
      BY <1>2, <2>1, <2>2 DEF ConsoleTypeOK
  <1>5. OneInstance
    <2>1. Cardinality({i \in Instances : inst[i].registered}) <= 1
      <3> DEFINE R == {i \in Instances : inst[i].registered}
      <3>1. \A a, b \in R : a = b
        BY <1>1 DEF ThreadsKept, OneLatch
      <3> HIDE DEF R
      <3>2. Cardinality(R) <= 1
        BY <1>3, <3>1
      <3> QED
        BY <3>2 DEF R
    <2>2. ASSUME NEW s \in Services, pc[s] \in Opened
          PROVE  /\ weak_value \in Instances
                 /\ s \in inst[weak_value].refs /\ inst[weak_value].registered
                 /\ s \in ToSet(inst[weak_value].subscribers)
      <3>1. pc[s] \in Referring /\ s \in Threads
        BY <2>2 DEF Referring
      <3> QED
        BY <1>1, <2>2, <3>1, RefersTo DEF ThreadsKept, Subscribed
    <2>3. \A i \in Instances : \A s \in ToSet(inst[i].subscribers) : pc[s] \in Opened
      BY <1>1 DEF ThreadsKept, Subscribed
    <2>4. ASSUME NEW t \in CtrlThreads, NEW s \in ToSet(ctrl[t].rest)
          PROVE  pc[s] \in Opened
      <3>1. CASE pc[t] = "deliver"
        <4>1. weak_value \in Instances
          BY <1>1, <3>1, RefersTo DEF Referring
        <4> QED
          BY <1>1, <2>3, <2>4, <3>1, <4>1 DEF ThreadsKept, Delivering
      <3>2. CASE pc[t] # "deliver"
        <4>1. ctrl[t].rest = <<>> /\ ToSet(<<>>) = {}
          BY <1>1, <3>2 DEF ThreadsKept, Delivering, ToSet
        <4> QED
          BY <2>4, <4>1
      <3> QED
        BY <3>1, <3>2
    <2> QED
      BY <2>1, <2>2, <2>3, <2>4 DEF OneInstance, Opened
  <1> QED
    BY <1>2, <1>4, <1>5 DEF ConsoleSound

(***************************************************************************)
(* The invariant of the services and of the singleton they share: every     *)
(* handler is where its service keeps it, and a thread that refers to an    *)
(* instance refers to the one of weak_value, which is the one registered.   *)
(***************************************************************************)
THEOREM ConsoleInvariance == ConsoleSpec => []ConsoleInv
  BY ConsoleInitInv, ConsoleNextInv, PTL DEF ConsoleSpec

(***************************************************************************)
(* For any services, implementations and handlers and any number of signals:*)
(* every handler is called or destroyed once, a signal goes to the services *)
(* that exist and no others, and there is one instance at a time.           *)
(***************************************************************************)
THEOREM ConsoleIsSound == ConsoleSpec => []ConsoleSound
  BY ConsoleInvariance, ConsoleSeen, PTL
=============================================================================

-------------------------- MODULE SpIntrusiveList --------------------------
(***************************************************************************)
(* ma::sp_intrusive_list (libs/ma_sp_intrusive_list): doubly linked lists    *)
(* of shared_ptr whose links are in the values: next_ owns the next value,   *)
(* prev_ is a weak_ptr.  The session manager and the session factories keep  *)
(* their sessions in two such lists that share the hooks: a value moves      *)
(* from one to the other and is destroyed when nobody refers to it.          *)
(*                                                                           *)
(* An operation is one action, but clear() is one action per round of its    *)
(* loop, because each round ends with the release of a value.  The user is   *)
(* the code that calls the list: it pushes values that are in no list,       *)
(* erases from the list a value is in, and holds a shared_ptr to the value   *)
(* meanwhile.  External: shared_ptr and weak_ptr.                            *)
(***************************************************************************)
EXTENDS Naturals, Sequences, FiniteSets, SequencesExt

CONSTANTS
  Lists,
  Values,
  Null     \* the null pointer

ASSUME ListAssumption == Null \notin Values /\ Null \notin Lists

VARIABLES
  front,     \* front[l]: front_
  size,      \* size[l]: size_
  next,      \* next[v]: next_ of the hook of v
  prev,      \* prev[v]: prev_ of the hook of v, null once its value is gone
  alive,     \* the values that exist
  held,      \* the values the user has a shared_ptr to
  clearing,  \* the list whose clear() is running, or Null
  items      \* history: items[l], the values of l in order

vars == <<front, size, next, prev, alive, held, clearing, items>>

Pointers == Values \cup {Null}

\* Assignment to a member of the value p points to, if it points to one.
Assign(f, p, x) == IF p = Null THEN f ELSE [f EXCEPT ![p] = x]

In(l, v) == v \in ToSet(items[l])

Linked(v) == \E l \in Lists : In(l, v)

-----------------------------------------------------------------------------
(***************************************************************************)
(* Release of references.  With the members fr and nx and the user's        *)
(* references hd, the values in no reference from the rest are destroyed:   *)
(* their hooks, and the weak pointers to them, read as null from then on.   *)
(***************************************************************************)
Owned(v, fr, nx, hd, from) ==
  v \in hd \/ (\E l \in Lists : fr[l] = v) \/ (\E w \in from : nx[w] = v)

Destroyed(fr, nx, hd) ==
  UNION {X \in SUBSET alive : \A v \in X : ~Owned(v, fr, nx, hd, alive \ X)}

Release(fr, nx, pv, hd) ==
  LET gone == Destroyed(fr, nx, hd)
  IN  /\ alive' = alive \ gone
      /\ front' = fr
      /\ held' = hd
      /\ next' = [v \in Values |-> IF v \in gone THEN Null ELSE nx[v]]
      /\ prev' = [v \in Values |->
                    IF v \in gone \/ pv[v] \in gone THEN Null ELSE pv[v]]

-----------------------------------------------------------------------------
Init ==
  /\ front = [l \in Lists |-> Null]
  /\ size = [l \in Lists |-> 0]
  /\ next = [v \in Values |-> Null]
  /\ prev = [v \in Values |-> Null]
  /\ alive = {} /\ held = {}
  /\ clearing = Null
  /\ items = [l \in Lists |-> <<>>]

\* The user makes a value, whose hook is empty.
Make(v) ==
  /\ clearing = Null /\ v \notin alive
  /\ alive' = alive \cup {v}
  /\ held' = held \cup {v}
  /\ UNCHANGED <<front, size, next, prev, clearing, items>>

\* The user obtains a shared_ptr to a value of a list ...
Hold(v) ==
  /\ clearing = Null /\ Linked(v)
  /\ held' = held \cup {v}
  /\ UNCHANGED <<front, size, next, prev, alive, clearing, items>>

\* ... or gives one up.
Drop(v) ==
  /\ clearing = Null /\ v \in held
  /\ Release(front, next, prev, held \ {v})
  /\ UNCHANGED <<size, clearing, items>>

\* Mutant of push_front: the former front does not learn of its new neighbour.
push_front_one_way(l, v) ==
  /\ clearing = Null /\ v \in held /\ ~Linked(v)
  /\ next' = [next EXCEPT ![v] = front[l]]
  /\ front' = [front EXCEPT ![l] = v]
  /\ size' = [size EXCEPT ![l] = @ + 1]
  /\ items' = [items EXCEPT ![l] = <<v>> \o @]
  /\ UNCHANGED <<prev, alive, held, clearing>>

push_front(l, v) ==
  /\ clearing = Null /\ v \in held /\ ~Linked(v)
  /\ next' = [next EXCEPT ![v] = front[l]]
  /\ prev' = Assign(prev, front[l], v)
  /\ front' = [front EXCEPT ![l] = v]
  /\ size' = [size EXCEPT ![l] = @ + 1]
  /\ items' = [items EXCEPT ![l] = <<v>> \o @]
  /\ UNCHANGED <<alive, held, clearing>>

\* Mutant of erase: the erased value keeps its reference to the next one.
erase_next_kept(l, v) ==
  /\ clearing = Null /\ v \in held /\ In(l, v)
  /\ Release([front EXCEPT ![l] = IF v = @ THEN next[v] ELSE @],
             Assign(next, prev[v], next[v]),
             [Assign(prev, next[v], prev[v]) EXCEPT ![v] = Null],
             held)
  /\ size' = [size EXCEPT ![l] = @ - 1]
  /\ \E i \in 1 .. Len(items[l]) :
       items[l][i] = v /\ items' = [items EXCEPT ![l] = RemoveAt(@, i)]
  /\ UNCHANGED clearing

erase(l, v) ==
  /\ clearing = Null /\ v \in held /\ In(l, v)
  /\ Release([front EXCEPT ![l] = IF v = @ THEN next[v] ELSE @],
             [Assign(next, prev[v], next[v]) EXCEPT ![v] = Null],
             [Assign(prev, next[v], prev[v]) EXCEPT ![v] = Null],
             held)
  /\ size' = [size EXCEPT ![l] = @ - 1]
  /\ \E i \in 1 .. Len(items[l]) :
       items[l][i] = v /\ items' = [items EXCEPT ![l] = RemoveAt(@, i)]
  /\ UNCHANGED clearing

\* clear(), also called by the destructor, begins ...
Clear(l) ==
  /\ clearing = Null
  /\ clearing' = l
  /\ UNCHANGED <<front, size, next, prev, alive, held, items>>

\* Mutant of ClearRound: the list lets its first value go and the rest with it.
ClearRoundAll(l) ==
  /\ clearing = l /\ front[l] # Null
  /\ Release([front EXCEPT ![l] = Null], next, prev, held)
  /\ items' = [items EXCEPT ![l] = <<>>]
  /\ UNCHANGED <<size, clearing>>

\* ... in each round it unlinks the first value and lets it go ...
ClearRound(l) ==
  /\ clearing = l /\ front[l] # Null
  /\ Release([front EXCEPT ![l] = next[front[l]]],
             [next EXCEPT ![front[l]] = Null],
             [prev EXCEPT ![front[l]] = Null],
             held)
  /\ items' = [items EXCEPT ![l] = Tail(@)]
  /\ UNCHANGED <<size, clearing>>

\* ... and with none left it is done.
ClearEnd(l) ==
  /\ clearing = l /\ front[l] = Null
  /\ size' = [size EXCEPT ![l] = 0]
  /\ clearing' = Null
  /\ UNCHANGED <<front, next, prev, alive, held, items>>

Next ==
  \/ \E v \in Values : Make(v) \/ Hold(v) \/ Drop(v)
  \/ \E l \in Lists, v \in Values : push_front(l, v) \/ erase(l, v)
  \/ \E l \in Lists : Clear(l) \/ ClearRound(l) \/ ClearEnd(l)

Spec == Init /\ [][Next]_vars

-----------------------------------------------------------------------------
TypeOK ==
  /\ front \in [Lists -> Pointers]
  /\ size \in [Lists -> Nat]
  /\ next \in [Values -> Pointers]
  /\ prev \in [Values -> Pointers]
  /\ held \in SUBSET alive
  /\ alive \in SUBSET Values
  /\ clearing \in Lists \cup {Null}
  /\ items \in [Lists -> Seq(Values)]

\* The i-th value of a list, null beyond its ends.
At(l, i) == IF i \in 1 .. Len(items[l]) THEN items[l][i] ELSE Null

(***************************************************************************)
(* The links are those of the sequences, in both directions, whichever     *)
(* list a value was in before: front_, next_ and prev_ lead through the    *)
(* values in order, size_ is their number, and a value in no list has an    *)
(* empty hook, which push_front asserts.                                   *)
(***************************************************************************)
LinksMatch ==
  /\ TypeOK
  /\ \A l \in Lists :
       /\ front[l] = At(l, 1)
       /\ clearing # l => size[l] = Len(items[l])
       /\ \A i \in 1 .. Len(items[l]) :
            /\ next[At(l, i)] = At(l, i + 1)
            /\ i > 1 \/ clearing # l => prev[At(l, i)] = At(l, i - 1)
  /\ \A v \in Values : ~Linked(v) => next[v] = Null /\ prev[v] = Null

(***************************************************************************)
(* A list keeps its values alive and keeps no other: a value exists         *)
(* exactly while the user has a pointer to it or it is in a list.           *)
(***************************************************************************)
LifetimeExact == alive = held \cup {v \in Values : Linked(v)}

(***************************************************************************)
(* The comment of clear(): no recursive calls of the values' destructors.   *)
(* Whatever lets a value go, at most one is destroyed at a time.            *)
(***************************************************************************)
NoRecursiveDestruction == [][Cardinality(alive \ alive') <= 1]_vars

=============================================================================

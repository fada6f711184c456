--------------------------- MODULE IntrusiveList ---------------------------
(***************************************************************************)
(* ma::detail::intrusive_list (libs/ma_intrusive_list): doubly linked lists *)
(* of values that hold the links.  The lists own nothing; they share the     *)
(* hooks, and values and whole lists move from one to another.               *)
(*                                                                           *)
(* The class does to front_, back_ and next_ what intrusive_forward_list     *)
(* does, keeps prev_ besides, and has erase and pop_back, which need it.  So *)
(* a behaviour without these two is, but for prev_, one of the singly linked *)
(* list, and what holds here of front_, back_ and next_ holds there.         *)
(***************************************************************************)
EXTENDS Naturals, Sequences, SequencesExt

CONSTANTS
  Lists,
  Values,
  Null     \* the null pointer

VARIABLES
  front, back, next, dropped, items,  \* as in IntrusiveForwardList
  prev                                \* prev[v]: prev_ of the hook of v

vars == <<front, back, next, dropped, items, prev>>

Forward == INSTANCE IntrusiveForwardList

Pointers == Values \cup {Null}

\* Assignment to a member of the value p points to, if it points to one.
Assign(f, p, x) == IF p = Null THEN f ELSE [f EXCEPT ![p] = x]

-----------------------------------------------------------------------------
Init == Forward!Init /\ prev = [v \in Values |-> Null]

push_front(l, v) == Forward!push_front(l, v) /\ prev' = Assign(prev, front[l], v)

push_back(l, v) ==
  Forward!push_back(l, v) /\ prev' = [prev EXCEPT ![v] = back[l]]

pop_front(l) ==
  /\ Forward!pop_front(l)
  /\ prev' = [Assign(prev, next[front[l]], Null) EXCEPT ![front[l]] = Null]

pop_back(l) ==
  LET v == back[l]
  IN  /\ v # Null
      /\ back' = [back EXCEPT ![l] = prev[v]]
      /\ front' = [front EXCEPT ![l] = IF prev[v] = Null THEN Null ELSE @]
      /\ next' = [Assign(next, prev[v], Null) EXCEPT ![v] = Null]
      /\ prev' = [prev EXCEPT ![v] = Null]
      /\ items' = [items EXCEPT ![l] = Front(@)]
      /\ UNCHANGED dropped

\* erase of a value that is in the list.
erase(l, v) ==
  /\ v \in ToSet(items[l])
  /\ front' = [front EXCEPT ![l] = IF v = @ THEN next[v] ELSE @]
  /\ back' = [back EXCEPT ![l] = IF v = @ THEN prev[v] ELSE @]
  /\ next' = [Assign(next, prev[v], next[v]) EXCEPT ![v] = Null]
  /\ prev' = [Assign(prev, next[v], prev[v]) EXCEPT ![v] = Null]
  /\ \E i \in 1 .. Len(items[l]) :
       items[l][i] = v /\ items' = [items EXCEPT ![l] = RemoveAt(@, i)]
  /\ UNCHANGED dropped

clear(l) == Forward!clear(l) /\ UNCHANGED prev

swap(l, k) == Forward!swap(l, k) /\ UNCHANGED prev

\* The assignment of list k to l, which leaves k empty.
Move(l, k) == Forward!Move(l, k) /\ UNCHANGED prev

\* insert_front and insert_back of an empty list, and into one.
InsertTrivially(l, k) == Forward!InsertTrivially(l, k) /\ UNCHANGED prev

insert_front(l, k) ==
  Forward!insert_front(l, k) /\ prev' = [prev EXCEPT ![front[l]] = back[k]]

insert_back(l, k) ==
  Forward!insert_back(l, k) /\ prev' = [prev EXCEPT ![front[k]] = back[l]]

\* The user destroys a dropped value and makes another in its place.
Renew(v) == Forward!Renew(v) /\ prev' = [prev EXCEPT ![v] = Null]

Next ==
  \/ \E l \in Lists, v \in Values :
       push_front(l, v) \/ push_back(l, v) \/ erase(l, v)
  \/ \E l \in Lists : pop_front(l) \/ pop_back(l) \/ clear(l)
  \/ \E l, k \in Lists :
       \/ swap(l, k) \/ Move(l, k)
       \/ InsertTrivially(l, k) \/ insert_front(l, k) \/ insert_back(l, k)
  \/ \E v \in Values : Renew(v)

Spec == Init /\ [][Next]_vars

-----------------------------------------------------------------------------
TypeOK ==
  /\ front \in [Lists -> Pointers] /\ back \in [Lists -> Pointers]
  /\ next \in [Values -> Pointers] /\ prev \in [Values -> Pointers]
  /\ dropped \in SUBSET Values
  /\ items \in [Lists -> Seq(Values)]

(***************************************************************************)
(* The links are those of the sequences, in both directions, whatever was   *)
(* done to the other lists: front_ and back_ are the ends, next_ and prev_   *)
(* lead through the values in order, and a value that may be pushed has an   *)
(* empty hook, which push_front and push_back assert.                        *)
(***************************************************************************)
LinksMatch ==
  /\ TypeOK
  /\ Forward!NextMatches
  /\ \A l \in Lists : \A i \in 1 .. Len(items[l]) :
       prev[Forward!At(l, i)] = Forward!At(l, i - 1)
  /\ \A v \in Values : Forward!Free(v) => prev[v] = Null

=============================================================================

------------------------ MODULE IntrusiveForwardList ------------------------
(***************************************************************************)
(* ma::detail::intrusive_forward_list (libs/ma_intrusive_list): singly       *)
(* linked lists of values that hold the link.  The services for stored       *)
(* handlers and for console signals collect in them the handlers to be       *)
(* called or destroyed once their lock is released.                          *)
(*                                                                           *)
(* The hook does not tell whether its value is the last of a list or in      *)
(* none, so the assertion of push cannot see a value pushed twice; the user  *)
(* pushes values that are in no list, pops from lists that are not empty and *)
(* does not insert a list into itself.  clear() and the assignment from      *)
(* another list drop values without unlinking them: the user destroys those. *)
(***************************************************************************)
EXTENDS Naturals, Sequences, SequencesExt

CONSTANTS
  Lists,
  Values,
  Null     \* the null pointer

VARIABLES
  front,    \* front[l]: front_
  back,     \* back[l]: back_
  next,     \* next[v]: next_ of the hook of v
  dropped,  \* the values in no list whose hooks were left as they were
  items     \* history: items[l], the values of l in order

vars == <<front, back, next, dropped, items>>

Pointers == Values \cup {Null}

Free(v) == v \notin dropped /\ \A l \in Lists : v \notin ToSet(items[l])

empty(l) == front[l] = Null

Init ==
  /\ front = [l \in Lists |-> Null] /\ back = [l \in Lists |-> Null]
  /\ next = [v \in Values |-> Null]
  /\ dropped = {}
  /\ items = [l \in Lists |-> <<>>]

push_front(l, v) ==
  /\ Free(v)
  /\ next' = [next EXCEPT ![v] = front[l]]
  /\ front' = [front EXCEPT ![l] = v]
  /\ back' = [back EXCEPT ![l] = IF @ = Null THEN v ELSE @]
  /\ items' = [items EXCEPT ![l] = <<v>> \o @]
  /\ UNCHANGED dropped

push_back(l, v) ==
  /\ Free(v)
  /\ next' = IF back[l] = Null THEN next ELSE [next EXCEPT ![back[l]] = v]
  /\ back' = [back EXCEPT ![l] = v]
  /\ front' = [front EXCEPT ![l] = IF @ = Null THEN v ELSE @]
  /\ items' = [items EXCEPT ![l] = Append(@, v)]
  /\ UNCHANGED dropped

\* Mutant of pop_front: the end of a list that is emptied is kept.
pop_front_back_kept(l) ==
  /\ ~empty(l)
  /\ front' = [front EXCEPT ![l] = next[@]]
  /\ next' = [next EXCEPT ![front[l]] = Null]
  /\ items' = [items EXCEPT ![l] = Tail(@)]
  /\ UNCHANGED <<back, dropped>>

pop_front(l) ==
  /\ ~empty(l)
  /\ front' = [front EXCEPT ![l] = next[@]]
  /\ back' = [back EXCEPT ![l] = IF next[front[l]] = Null THEN Null ELSE @]
  /\ next' = [next EXCEPT ![front[l]] = Null]
  /\ items' = [items EXCEPT ![l] = Tail(@)]
  /\ UNCHANGED dropped

clear(l) ==
  /\ front' = [front EXCEPT ![l] = Null]
  /\ back' = [back EXCEPT ![l] = Null]
  /\ dropped' = dropped \cup ToSet(items[l])
  /\ items' = [items EXCEPT ![l] = <<>>]
  /\ UNCHANGED next

swap(l, k) ==
  /\ front' = [front EXCEPT ![l] = front[k], ![k] = front[l]]
  /\ back' = [back EXCEPT ![l] = back[k], ![k] = back[l]]
  /\ items' = [items EXCEPT ![l] = items[k], ![k] = items[l]]
  /\ UNCHANGED <<next, dropped>>

\* The assignment of list k to l, which leaves k empty.
Move(l, k) ==
  /\ l # k
  /\ front' = [front EXCEPT ![l] = front[k], ![k] = Null]
  /\ back' = [back EXCEPT ![l] = back[k], ![k] = Null]
  /\ dropped' = dropped \cup ToSet(items[l])
  /\ items' = [items EXCEPT ![l] = items[k], ![k] = <<>>]
  /\ UNCHANGED next

\* insert_front and insert_back of an empty list, and into one.
InsertTrivially(l, k) ==
  /\ l # k /\ (empty(l) \/ empty(k))
  /\ IF empty(k) THEN UNCHANGED <<front, back, items>>
     ELSE /\ front' = [front EXCEPT ![l] = front[k], ![k] = Null]
          /\ back' = [back EXCEPT ![l] = back[k], ![k] = Null]
          /\ items' = [items EXCEPT ![l] = items[k], ![k] = <<>>]
  /\ UNCHANGED <<next, dropped>>

insert_front(l, k) ==
  /\ l # k /\ ~empty(l) /\ ~empty(k)
  /\ next' = [next EXCEPT ![back[k]] = front[l]]
  /\ front' = [front EXCEPT ![l] = front[k], ![k] = Null]
  /\ back' = [back EXCEPT ![k] = Null]
  /\ items' = [items EXCEPT ![l] = items[k] \o @, ![k] = <<>>]
  /\ UNCHANGED dropped

insert_back(l, k) ==
  /\ l # k /\ ~empty(l) /\ ~empty(k)
  /\ next' = [next EXCEPT ![back[l]] = front[k]]
  /\ back' = [back EXCEPT ![l] = back[k], ![k] = Null]
  /\ front' = [front EXCEPT ![k] = Null]
  /\ items' = [items EXCEPT ![l] = @ \o items[k], ![k] = <<>>]
  /\ UNCHANGED dropped

\* The user destroys a dropped value and makes another in its place.
Renew(v) ==
  /\ v \in dropped
  /\ next' = [next EXCEPT ![v] = Null]
  /\ dropped' = dropped \ {v}
  /\ UNCHANGED <<front, back, items>>

-----------------------------------------------------------------------------
\* The i-th value of a list, null beyond its ends.
At(l, i) == IF i \in 1 .. Len(items[l]) THEN items[l][i] ELSE Null

(***************************************************************************)
(* The links are those of the sequences: front_ and back_ are the ends,      *)
(* next_ leads through the values in order and ends there, and a value that  *)
(* may be pushed has an empty hook, which push_front and push_back assert.   *)
(***************************************************************************)
NextMatches ==
  /\ \A l \in Lists :
       /\ front[l] = At(l, 1)
       /\ back[l] = At(l, Len(items[l]))
       /\ \A i \in 1 .. Len(items[l]) : next[At(l, i)] = At(l, i + 1)
  /\ \A v \in Values : Free(v) => next[v] = Null

=============================================================================

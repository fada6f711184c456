---------------------------- MODULE LimitedInt ----------------------------
(***************************************************************************)
(* ma::limited_int (libs/ma_limited_int): an unsigned counter that stops at *)
(* its greatest value and remembers that it should have gone on.  The       *)
(* statistics of the server and of the performance client are kept in them  *)
(* and added to each other.                                                 *)
(***************************************************************************)
EXTENDS Naturals

CONSTANT Greatest  \* std::numeric_limits<Integer>::max()

ASSUME LimitedAssumption == Greatest \in Nat

Limited == [value : 0 .. Greatest, overflowed : BOOLEAN]

limited_int(n) == [value |-> n, overflowed |-> FALSE]

Overflow == [value |-> Greatest, overflowed |-> TRUE]

increment(x) ==
  IF x.overflowed THEN x
  ELSE IF x.value = Greatest THEN [x EXCEPT !.overflowed = TRUE]
  ELSE [x EXCEPT !.value = @ + 1]

add_value(x, n) ==
  IF x.overflowed THEN x
  ELSE IF Greatest - x.value < n THEN Overflow
  ELSE [x EXCEPT !.value = @ + n]

\* Mutant of add: it takes the other's value and leaves its flag alone.
add_value_only(x, y) ==
  IF x.overflowed THEN x
  ELSE IF Greatest - x.value < y.value THEN Overflow
  ELSE [x EXCEPT !.value = @ + y.value]

add(x, y) ==
  IF x.overflowed THEN x
  ELSE IF y.overflowed THEN Overflow
  ELSE IF Greatest - x.value < y.value THEN Overflow
  ELSE [x EXCEPT !.value = @ + y.value]

-----------------------------------------------------------------------------
(***************************************************************************)
(* A counter tells the truth about the count n: it holds n as long as that  *)
(* can be held and the greatest value from then on, and the flag tells the  *)
(* two apart - also when the count is exactly the greatest value, and when  *)
(* counters that have overflowed are added to others.                       *)
(***************************************************************************)
Exact(x, n) ==
  /\ x.overflowed <=> n > Greatest
  /\ x.value = IF n > Greatest THEN Greatest ELSE n

=============================================================================

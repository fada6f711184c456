--------------------------- MODULE IntrusiveLists ---------------------------
(***************************************************************************)
(* The three list classes checked side by side: a behaviour is one of lists  *)
(* of shared_ptr (SpIntrusiveList) or one of plain lists (IntrusiveList and,  *)
(* inside it, IntrusiveForwardList).                                          *)
(***************************************************************************)
EXTENDS SpIntrusiveList

VARIABLES
  owning,                                     \* which kind the behaviour is of
  pfront, pback, pnext, pdropped, pitems, pprev  \* the plain lists

pvars == <<pfront, pback, pnext, pdropped, pitems, pprev>>

Plain == INSTANCE IntrusiveList WITH
           front <- pfront, back <- pback, next <- pnext, dropped <- pdropped,
           items <- pitems, prev <- pprev

ListsInit == owning \in BOOLEAN /\ Init /\ Plain!Init

ListsNext ==
  \/ owning /\ Next /\ UNCHANGED <<owning, pvars>>
  \/ ~owning /\ Plain!Next /\ UNCHANGED <<owning, vars>>

ListsSpec == ListsInit /\ [][ListsNext]_<<owning, vars, pvars>>

-----------------------------------------------------------------------------
(***************************************************************************)
(* The links of every list are those of a sequence, in both directions,      *)
(* whichever list a value was in before and whatever was done to the other   *)
(* lists: front_, back_, next_ and prev_ lead through the values in order,   *)
(* size_ is their number, and a value that may be pushed has an empty hook,  *)
(* which push_front and push_back assert.                                    *)
(***************************************************************************)
AllLinksMatch == LinksMatch /\ Plain!LinksMatch

=============================================================================

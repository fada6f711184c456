-------------------------- MODULE SessionFactory --------------------------
(***************************************************************************)
(* ma::echo::server::pooled_session_factory (examples/ma_echo_server_core): *)
(* one pool per io_service, each of which counts the sessions it has given  *)
(* out and keeps a few that were returned.  A new session is taken from the *)
(* pool with the fewest sessions in use.  simple_session_factory is the     *)
(* case of one pool, without its counter.                                   *)
(*                                                                          *)
(* Its user is the session_manager, in one strand: it returns each session  *)
(* it was given once.                                                       *)
(***************************************************************************)
EXTENDS Naturals, Sequences, FiniteSets

CONSTANTS
  Sessions,     \* the session objects memory suffices for
  Pools,        \* number of io_services
  MaxRecycled   \* session_manager_config::recycled_session_count

ASSUME FactoryAssumption ==
  /\ IsFiniteSet(Sessions)
  /\ Pools \in Nat \ {0}
  /\ MaxRecycled \in Nat

VARIABLES
  pool,       \* pool[i]: the pool_item of io_service i
  back_link,  \* back_link[s]: the pool of session s, 0 if there is no s
  used        \* the sessions the user has

factory_vars == <<pool, back_link, used>>

Items == 1 .. Pools

pool_item == [size |-> 0, recycled |-> <<>>]

PoolItems == [size : Nat, recycled : Seq(Sessions)]

less_loaded_pool(i, j) == pool[i].size < pool[j].size

\* Mutant of min_element: sessions at rest count as well.
min_element_all(i) ==
  \A j \in Items :
    pool[i].size + Len(pool[i].recycled) <= pool[j].size + Len(pool[j].recycled)

\* std::min_element: the first of the pools that no other is less loaded than.
min_element(i) ==
  /\ \A j \in Items : ~less_loaded_pool(j, i)
  /\ \A j \in 1 .. i - 1 : less_loaded_pool(i, j)

-----------------------------------------------------------------------------
create_pool == [i \in Items |-> pool_item]

FactoryInit ==
  /\ pool = create_pool
  /\ back_link = [s \in Sessions |-> 0]
  /\ used = {}

\* Mutant of create_recycled: the session stays in the list.
create_recycled_kept(i) ==
  /\ pool[i].recycled # <<>>
  /\ pool' = [pool EXCEPT ![i].size = @ + 1]
  /\ used' = used \cup {Head(pool[i].recycled)}
  /\ UNCHANGED back_link

\* create() of the selected pool, which has a session at rest ...
create_recycled(i) ==
  /\ pool[i].recycled # <<>>
  /\ pool' = [pool EXCEPT ![i] = [size |-> @.size + 1, recycled |-> Tail(@.recycled)]]
  /\ used' = used \cup {Head(pool[i].recycled)}
  /\ UNCHANGED back_link

\* ... or makes one; with no memory for one more it reports an error and leaves
\* everything as it is.
create_new(i) ==
  /\ pool[i].recycled = <<>>
  /\ \E s \in Sessions :
       /\ back_link[s] = 0
       /\ back_link' = [back_link EXCEPT ![s] = i]
       /\ used' = used \cup {s}
  /\ pool' = [pool EXCEPT ![i] = [size |-> @.size + 1, recycled |-> <<>>]]

create ==
  \E i \in Items : min_element(i) /\ (create_recycled(i) \/ create_new(i))

keeps(i) == MaxRecycled > Len(pool[i].recycled)

\* Mutant of release: only a session that is destroyed is counted off.
release_destroyed(s) ==
  LET i == back_link[s]
  IN  /\ s \in used
      /\ used' = used \ {s}
      /\ pool' = IF keeps(i) THEN [pool EXCEPT ![i].recycled = <<s>> \o @]
                             ELSE [pool EXCEPT ![i].size = @ - 1]
      /\ back_link' = IF keeps(i) THEN back_link ELSE [back_link EXCEPT ![s] = 0]

release(s) ==
  LET i == back_link[s]
  IN  /\ s \in used
      /\ used' = used \ {s}
      /\ pool' = [pool EXCEPT ![i] =
                   [size |-> @.size - 1,
                    recycled |-> IF keeps(i) THEN <<s>> \o @.recycled ELSE @.recycled]]
      /\ back_link' = IF keeps(i) THEN back_link ELSE [back_link EXCEPT ![s] = 0]

FactoryNext ==
  \/ create
  \/ \E s \in Sessions : release(s)

FactorySpec == FactoryInit /\ [][FactoryNext]_factory_vars

-----------------------------------------------------------------------------
(***************************************************************************)
(* Type correctness of the pools; in particular size_ does not underflow.   *)
(***************************************************************************)
FactoryTypeOK ==
  /\ pool \in [Items -> PoolItems]
  /\ back_link \in [Sessions -> 0 .. Pools]
  /\ used \in SUBSET Sessions

Load(i) == Cardinality({s \in used : back_link[s] = i})

AtRest(i) == {pool[i].recycled[k] : k \in 1 .. Len(pool[i].recycled)}

(***************************************************************************)
(* Every session has one owner: its user, or the pool it was made for,      *)
(* which has it in its list once; a session in neither place is gone.  So   *)
(* no session is given to two connections, or run by another io_service     *)
(* than its own, and none is leaked.                                        *)
(***************************************************************************)
OneOwner ==
  /\ \A i \in Items :
       /\ \A k, l \in 1 .. Len(pool[i].recycled) :
            pool[i].recycled[k] = pool[i].recycled[l] => k = l
       /\ \A s \in AtRest(i) : s \notin used /\ back_link[s] = i
  /\ \A s \in Sessions :
       back_link[s] # 0 <=> s \in used \/ \E i \in Items : s \in AtRest(i)

(***************************************************************************)
(* A pool's size_ is the number of sessions of its io_service in use, and   *)
(* its list keeps to its limit.                                             *)
(***************************************************************************)
SizesExact ==
  /\ FactoryTypeOK
  /\ \A i \in Items :
       pool[i].size = Load(i) /\ Len(pool[i].recycled) <= MaxRecycled

(***************************************************************************)
(* The pools are sound: every session has one owner, and the sizes the      *)
(* choice of a pool rests on are exact.                                     *)
(***************************************************************************)
FactorySound == OneOwner /\ SizesExact

(***************************************************************************)
(* A session is created for the io_service that has the fewest in use.      *)
(***************************************************************************)
LeastLoaded ==
  [][ \A s \in used' \ used : \A i \in Items : Load(back_link'[s]) <= Load(i) ]_factory_vars

=============================================================================

--------------------------- MODULE HandlerStorage ---------------------------
(***************************************************************************)
(* ma::handler_storage and its service (libs/ma_handler_storage): a storage  *)
(* keeps one handler until it is posted to the io_service, replaced or       *)
(* cleared.  A handler may own storages, through the object it is bound to,  *)
(* also the very storage it is kept in; so the end of a handler may destroy  *)
(* storages, which destroy their handlers, from within the operation that    *)
(* began it.  What keeps itself alive that way is ended by the shutdown of   *)
(* the service, when the io_service is destroyed.                            *)
(*                                                                           *)
(* The nested calls of destructors are on a stack.  The user calls when it   *)
(* is empty and from within the destructor of a handler, which may store a   *)
(* new handler in the storage that is letting go of the old one.  Distinct   *)
(* storages may be used by several threads before the shutdown, which        *)
(* changes nothing: what they share, the list of storages, is locked.        *)
(* External: shared_ptr, the queue of the io_service, and the user, who      *)
(* posts only from storages with a handler.                                  *)
(***************************************************************************)
EXTENDS Naturals, Sequences, FiniteSets, SequencesExt, FiniteSetsExt

CONSTANTS
  Storages,
  Handlers,
  Null       \* the null pointer

ASSUME StorageAssumption == Null \notin Handlers /\ IsFiniteSet(Storages)

VARIABLES
  live,       \* the storages that exist
  held,       \* the storages the user refers to
  handler,    \* handler[s]: impl.handler_
  owns,       \* owns[h]: the storages handler h refers to
  impl_list,  \* impl_list_
  shutdown,   \* shutdown_
  posted,     \* the handlers in the queue of the io_service
  ended,      \* ended[h]: how often h was destroyed
  stack       \* the calls in progress, innermost first

vars == <<live, held, handler, owns, impl_list, shutdown, posted, ended, stack>>

Pointers == Handlers \cup {Null}

\* A call in progress: a handler's destroy() or a storage's destructor.
Destroy(h) == [call |-> "destroy", handler |-> h]
Destruct(s) == [call |-> "destruct", storage |-> s]

Frames == {Destroy(h) : h \in Handlers} \cup {Destruct(s) : s \in Storages}

\* The calls that end handler h, if there is one.
End(h) == IF h = Null THEN <<>> ELSE <<Destroy(h)>>

\* The destructors of the storages nobody refers to any more, one by one.
Unowned(S, hd, ow) ==
  {s \in S : s \notin hd /\ \A h \in Handlers : s \notin ow[h]}

Destructs(S) == [i \in 1 .. Cardinality(S) |-> Destruct(SetToSeq(S)[i])]

Idle == stack = <<>>

\* The destructor of a handler is the innermost call: code of the user runs.
Inside == ~Idle /\ Head(stack).call = "destroy"

\* The user may call, and by which references: its own, and from within a
\* destructor those of the handler that is destroyed.
Calling == Idle \/ Inside
Usable == held \cup (IF Inside THEN owns[Head(stack).handler] ELSE {})

\* The storages that somebody refers to.
Referred == held \cup UNION {owns[h] : h \in Handlers}

\* A handler the user has not handed over yet.
Unused(h) ==
  /\ ended[h] = 0 /\ h \notin posted /\ Destroy(h) \notin ToSet(stack)
  /\ \A s \in Storages : handler[s] # h

-----------------------------------------------------------------------------
Init ==
  /\ live = {} /\ held = {}
  /\ handler = [s \in Storages |-> Null]
  /\ owns = [h \in Handlers |-> {}]
  /\ impl_list = <<>> /\ shutdown = FALSE
  /\ posted = {}
  /\ ended = [h \in Handlers |-> 0]
  /\ stack = <<>>

construct(s) ==
  /\ Calling /\ s \notin live
  /\ live' = live \cup {s} /\ held' = held \cup {s}
  /\ impl_list' = IF shutdown THEN impl_list ELSE Append(impl_list, s)
  /\ UNCHANGED <<handler, owns, shutdown, posted, ended, stack>>

\* The move constructor; the storage moved from stays, without a handler.
move_construct(s, other) ==
  /\ Calling /\ s \notin live /\ other \in Usable
  /\ live' = live \cup {s} /\ held' = held \cup {s}
  /\ IF shutdown THEN UNCHANGED <<impl_list, handler>>
     ELSE /\ impl_list' = Append(impl_list, s)
          /\ handler' = [handler EXCEPT ![s] = handler[other], ![other] = Null]
  /\ UNCHANGED <<owns, shutdown, posted, ended, stack>>

\* Mutant of store: the old handler stays in place while it is destroyed.
store_late(s, h, S) ==
  /\ Calling /\ s \in Usable /\ Unused(h)
  /\ owns' = [owns EXCEPT ![h] = S]
  /\ handler' = IF shutdown \/ handler[s] # Null THEN handler
                ELSE [handler EXCEPT ![s] = h]
  /\ stack' = End(IF shutdown THEN h ELSE handler[s]) \o stack
  /\ UNCHANGED <<live, held, impl_list, shutdown, posted, ended>>

\* Mutant of store: no look at shutdown_.
store_unchecked(s, h, S) ==
  /\ Calling /\ s \in Usable /\ Unused(h)
  /\ owns' = [owns EXCEPT ![h] = S]
  /\ handler' = [handler EXCEPT ![s] = h]
  /\ stack' = End(handler[s]) \o stack
  /\ UNCHANGED <<live, held, impl_list, shutdown, posted, ended>>

\* store of a handler that refers to the storages S; after the shutdown the
\* handler is dropped.
store(s, h, S) ==
  /\ Calling /\ s \in Usable /\ Unused(h)
  /\ owns' = [owns EXCEPT ![h] = S]
  /\ handler' = IF shutdown THEN handler ELSE [handler EXCEPT ![s] = h]
  /\ stack' = End(IF shutdown THEN h ELSE handler[s]) \o stack
  /\ UNCHANGED <<live, held, impl_list, shutdown, posted, ended>>

clear(s) ==
  /\ Calling /\ s \in Usable
  /\ handler' = [handler EXCEPT ![s] = Null]
  /\ stack' = End(handler[s]) \o stack
  /\ UNCHANGED <<live, held, owns, impl_list, shutdown, posted, ended>>

\* The wrapper's post: the handler moves from the wrapper, which is freed, to
\* the queue of the io_service; nothing it refers to is let go.
do_post(h) == posted' = posted \cup {h}

\* Mutant of post: the handler is posted and stays.
post_kept(s) ==
  /\ Calling /\ s \in Usable /\ handler[s] # Null
  /\ do_post(handler[s])
  /\ UNCHANGED <<live, held, handler, owns, impl_list, shutdown, ended, stack>>

post(s) ==
  /\ Calling /\ s \in Usable /\ handler[s] # Null
  /\ do_post(handler[s])
  /\ handler' = [handler EXCEPT ![s] = Null]
  /\ UNCHANGED <<live, held, owns, impl_list, shutdown, ended, stack>>

\* The user gives up its reference to a storage ...
Drop(s) ==
  /\ Calling /\ s \in held
  /\ held' = held \ {s}
  /\ stack' = Destructs(Unowned({s}, held', owns)) \o stack
  /\ UNCHANGED <<live, handler, owns, impl_list, shutdown, posted, ended>>

\* ... or gets one from a handler that is run, or destroyed.
Obtain(h, s) ==
  /\ \/ Idle /\ h \in posted
     \/ Inside /\ h = Head(stack).handler
  /\ s \in owns[h]
  /\ held' = held \cup {s}
  /\ UNCHANGED <<live, handler, owns, impl_list, shutdown, posted, ended, stack>>

\* The io_service has run a handler, or destroys its queue.
Finish(h) ==
  /\ Idle /\ h \in posted
  /\ posted' = posted \ {h}
  /\ stack' = <<Destroy(h)>>
  /\ UNCHANGED <<live, held, handler, owns, impl_list, shutdown, ended>>

\* Mutant of shutdown_service: only the front of the list is looked at.
shutdown_service_front ==
  /\ Idle /\ ~shutdown
  /\ shutdown' = TRUE /\ impl_list' = <<>>
  /\ LET S == IF impl_list = <<>> THEN {} ELSE {Head(impl_list)}
     IN  /\ handler' = [s \in Storages |-> IF s \in S THEN Null ELSE handler[s]]
         /\ stack' = IF S = {} THEN <<>> ELSE End(handler[Head(impl_list)])
  /\ UNCHANGED <<live, held, owns, posted, ended>>

\* shutdown_service: the loop over impl_list_ takes all handlers from their
\* storages, each to the front of a list; then they are destroyed one by one.
shutdown_service ==
  /\ Idle /\ ~shutdown
  /\ shutdown' = TRUE /\ impl_list' = <<>>
  /\ handler' = [s \in Storages |->
                   IF s \in ToSet(impl_list) THEN Null ELSE handler[s]]
  /\ LET handlers[n \in 0 .. Len(impl_list)] ==
           IF n = 0 THEN <<>>
           ELSE End(handler[impl_list[n]]) \o handlers[n - 1]
     IN  stack' = handlers[Len(impl_list)]
  /\ UNCHANGED <<live, held, owns, posted, ended>>

-----------------------------------------------------------------------------
(***************************************************************************)
(* The nested calls.                                                        *)
(***************************************************************************)
\* destroy() of a handler: it lets go of its storages, and what nobody refers
\* to is destroyed before it returns.
do_destroy(h) ==
  /\ ended' = [ended EXCEPT ![h] = @ + 1]
  /\ owns' = [owns EXCEPT ![h] = {}]
  /\ stack' = Destructs(Unowned(owns[h], held, owns')) \o Tail(stack)

RunDestroy ==
  /\ Inside
  /\ do_destroy(Head(stack).handler)
  /\ UNCHANGED <<live, held, handler, impl_list, shutdown, posted>>

\* destroy of the service, called by the destructor of a storage.
destroy ==
  /\ ~Idle /\ Head(stack).call = "destruct"
  /\ LET s == Head(stack).storage
     IN  /\ live' = live \ {s}
         /\ IF shutdown THEN stack' = Tail(stack) /\ UNCHANGED <<impl_list, handler>>
            ELSE /\ \E i \in 1 .. Len(impl_list) :
                      impl_list[i] = s /\ impl_list' = RemoveAt(impl_list, i)
                 /\ handler' = [handler EXCEPT ![s] = Null]
                 /\ stack' = End(handler[s]) \o Tail(stack)
  /\ UNCHANGED <<held, owns, shutdown, posted, ended>>

Next ==
  \/ \E s \in Storages : construct(s) \/ clear(s) \/ post(s) \/ Drop(s)
  \/ \E s, other \in Storages : move_construct(s, other)
  \/ \E s \in Storages, h \in Handlers, S \in SUBSET Referred : store(s, h, S)
  \/ \E h \in Handlers : Finish(h) \/ \E s \in Storages : Obtain(h, s)
  \/ shutdown_service
  \/ RunDestroy
  \/ destroy

Spec == Init /\ [][Next]_vars

-----------------------------------------------------------------------------
TypeOK ==
  /\ live \in SUBSET Storages /\ held \in SUBSET live
  /\ handler \in [Storages -> Pointers]
  /\ owns \in [Handlers -> SUBSET Storages]
  /\ impl_list \in Seq(Storages)
  /\ shutdown \in BOOLEAN
  /\ posted \in SUBSET Handlers
  /\ ended \in [Handlers -> Nat]
  /\ stack \in Seq(Frames)

\* How often h is about to be destroyed.
Doomed(h) == Cardinality({i \in DOMAIN stack : stack[i] = Destroy(h)})

Flag(b) == IF b THEN 1 ELSE 0

(***************************************************************************)
(* No handler is lost, posted twice or destroyed twice, however destructors  *)
(* nest: each is in one storage, in the queue, about to be destroyed or      *)
(* destroyed, and in one of them only; a storage that is gone holds none,    *)
(* which its destructor asserts.  A storage is destroyed once, and what a    *)
(* handler refers to exists as long as the handler does.                     *)
(***************************************************************************)
HandlerAccounted ==
  /\ TypeOK
  /\ \A h \in Handlers :
       Cardinality({s \in Storages : handler[s] = h}) + Flag(h \in posted)
         + Doomed(h) + ended[h] <= 1
  /\ \A h \in Handlers : owns[h] # {} =>
       /\ owns[h] \subseteq live /\ ended[h] = 0
       /\ h \in posted \/ Doomed(h) = 1 \/ \E s \in live : handler[s] = h
  /\ \A s \in Storages \ live : handler[s] = Null
  /\ \A i, j \in DOMAIN stack :
       stack[i].call = "destruct" /\ stack[i] = stack[j] =>
         i = j /\ stack[i].storage \in live

(***************************************************************************)
(* The automatic clean up: before the shutdown the service knows every      *)
(* storage; when it has shut down, no handler is left in one, none can be   *)
(* stored again, and no storage lives but those that the user or a posted   *)
(* handler refers to - whatever cycles the handlers had formed.             *)
(***************************************************************************)
CleanUp ==
  /\ ~shutdown /\ Idle =>
       ToSet(impl_list) = live /\ Len(impl_list) = Cardinality(live)
  /\ shutdown => impl_list = <<>> /\ \A s \in Storages : handler[s] = Null
  /\ shutdown /\ Idle => live = held \cup UNION {owns[h] : h \in posted}

=============================================================================

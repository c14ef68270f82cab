---------------------------- MODULE ExecutorPool ----------------------------
(***************************************************************************)
(* The executor and tape pools of runtime/src/executor_pool.cpp: leases of *)
(* executor clones, and the autodiff tape a thread without a stack of its  *)
(* own borrows for the span of its leases.                                 *)
(*                                                                         *)
(* A model has several pools (log density, write-array), used by several   *)
(* threads, each of which may hold several leases at once, move them and   *)
(* destroy them in any order.  A block under the pool's mu_ is one step.   *)
(***************************************************************************)
EXTENDS Integers, FiniteSets

CONSTANTS Threads,
          Equipped,    \* threads that arrive with a stack of their own
          Pools,
          Executors,   \* clones that can be made: bounds the allocations
          Tapes,       \* tapes that can be made
          LeaseVars,   \* lease variables a thread has
          None, Own    \* a null pointer; a stack the pool did not make

ASSUME EquippedAssumption == Equipped \subseteq Threads
ASSUME NoneAssumption == None \notin Tapes \cup Executors \cup Pools
ASSUME OwnAssumption == Own \notin Tapes \cup {None}
ASSUME ThreadsFinite == IsFiniteSet(Threads) /\ IsFiniteSet(LeaseVars)

VARIABLES
  free,       \* free_ of each pool
  freeTapes,  \* free_tapes_ of each pool
  made,       \* executors that exist
  tapesMade,  \* tapes that exist
  leases,     \* Tape::leases
  dirty,      \* tapes with something recorded on them
  current,    \* Tape::current() of each thread
  stack,      \* ChainableStack::instance_ of each thread
  lease,      \* the lease variables of each thread
  pc,         \* where an acquire or a release on each thread is
  arg         \* its pool, executor and lease variable

tls == <<current, stack>>
vars == <<free, freeTapes, made, tapesMade, leases, dirty, tls, lease, pc, arg>>

Empty == [pool |-> None, ex |-> None, tape |-> None]
Husk(p) == [pool |-> p, ex |-> None, tape |-> None]
Idle == [pool |-> None, ex |-> None, var |-> None]
Places == Threads \X LeaseVars

TypeOK ==
  /\ free \in [Pools -> SUBSET Executors]
  /\ freeTapes \in [Pools -> SUBSET Tapes]
  /\ made \subseteq Executors /\ tapesMade \subseteq Tapes
  /\ leases \in [Tapes -> Nat] /\ dirty \subseteq Tapes
  /\ current \in [Threads -> Tapes \cup {None}]
  /\ stack \in [Threads -> Tapes \cup {None, Own}]
  /\ lease \in [Places -> [pool : Pools \cup {None}, ex : Executors \cup {None},
                           tape : Tapes \cup {None}]]
  /\ pc \in [Threads -> {"idle", "clone", "lease", "tape"}]
  /\ arg \in [Threads -> [pool : Pools \cup {None}, ex : Executors \cup {None},
                          var : LeaseVars \cup {None}]]

Init ==
  /\ free = [p \in Pools |-> {}] /\ freeTapes = [p \in Pools |-> {}]
  /\ made = {} /\ tapesMade = {}
  /\ leases = [x \in Tapes |-> 0] /\ dirty = {}
  /\ current = [t \in Threads |-> None]
  /\ stack = [t \in Threads |-> IF t \in Equipped THEN Own ELSE None]
  /\ lease = [l \in Places |-> Empty]
  /\ pc = [t \in Threads |-> "idle"]
  /\ arg = [t \in Threads |-> Idle]

-----------------------------------------------------------------------------
(* Fault variant: the executor stays in the free list while it is leased. *)
AcquireBeginKeeps(t, p, v) ==
  /\ pc[t] = "idle" /\ lease[<<t, v>>] = Empty
  /\ \/ \E e \in free[p] :
          /\ arg' = [arg EXCEPT ![t] = [pool |-> p, ex |-> e, var |-> v]]
          /\ pc' = [pc EXCEPT ![t] = "lease"]
     \/ /\ free[p] = {}
        /\ arg' = [arg EXCEPT ![t] = [pool |-> p, ex |-> None, var |-> v]]
        /\ pc' = [pc EXCEPT ![t] = "clone"]
  /\ UNCHANGED <<free, freeTapes, made, tapesMade, leases, dirty, tls, lease>>

(* acquire: take an executor off the free list under the lock.  The list is  *)
(* a stack; which of its interchangeable clones is taken is left open.       *)
AcquireBegin(t, p, v) ==
  /\ pc[t] = "idle" /\ lease[<<t, v>>] = Empty
  /\ \/ \E e \in free[p] :
          /\ free' = [free EXCEPT ![p] = @ \ {e}]
          /\ arg' = [arg EXCEPT ![t] = [pool |-> p, ex |-> e, var |-> v]]
          /\ pc' = [pc EXCEPT ![t] = "lease"]
     \/ /\ free[p] = {} /\ UNCHANGED free
        /\ arg' = [arg EXCEPT ![t] = [pool |-> p, ex |-> None, var |-> v]]
        /\ pc' = [pc EXCEPT ![t] = "clone"]
  /\ UNCHANGED <<freeTapes, made, tapesMade, leases, dirty, tls, lease>>

(* acquire: clone the prototype outside the lock, or fail to. *)
CloneProto(t) ==
  /\ pc[t] = "clone"
  /\ \/ \E e \in Executors \ made :
          /\ made' = made \cup {e}
          /\ arg' = [arg EXCEPT ![t].ex = e]
          /\ pc' = [pc EXCEPT ![t] = "lease"]
     \/ /\ arg' = [arg EXCEPT ![t] = Idle]
        /\ pc' = [pc EXCEPT ![t] = "idle"]
        /\ UNCHANGED made
  /\ UNCHANGED <<free, freeTapes, tapesMade, leases, dirty, tls, lease>>

Leased(t, x) ==
  /\ lease' = [lease EXCEPT ![<<t, arg[t].var>>] =
                 [pool |-> arg[t].pool, ex |-> arg[t].ex, tape |-> x]]
  /\ arg' = [arg EXCEPT ![t] = Idle]
  /\ pc' = [pc EXCEPT ![t] = "idle"]

(* Fault variant: a stack that is not the pool's own is not noticed. *)
NeedsTapeAlways(t) == current[t] = None

NeedsTape(t) == current[t] = None /\ stack[t] = None

(* Lease::Lease on a thread that has a tape or a stack of its own. *)
LeaseShares(t) ==
  /\ pc[t] = "lease" /\ ~NeedsTape(t)
  /\ leases' = IF current[t] = None THEN leases
               ELSE [leases EXCEPT ![current[t]] = @ + 1]
  /\ Leased(t, current[t])
  /\ UNCHANGED <<free, freeTapes, made, tapesMade, dirty, tls>>

(* Lease::Lease takes a pooled tape and installs it. *)
LeaseTakesTape(t) ==
  /\ pc[t] = "lease" /\ NeedsTape(t)
  /\ \E x \in freeTapes[arg[t].pool] :
       /\ freeTapes' = [freeTapes EXCEPT ![arg[t].pool] = @ \ {x}]
       /\ leases' = [leases EXCEPT ![x] = @ + 1]
       /\ current' = [current EXCEPT ![t] = x]
       /\ stack' = [stack EXCEPT ![t] = x]
       /\ Leased(t, x)
  /\ UNCHANGED <<free, made, tapesMade, dirty>>

(* Lease::Lease makes a tape; when that throws, its executor dies with it. *)
LeaseMakesTape(t) ==
  /\ pc[t] = "lease" /\ NeedsTape(t) /\ freeTapes[arg[t].pool] = {}
  /\ \/ \E x \in Tapes \ tapesMade :
          /\ tapesMade' = tapesMade \cup {x}
          /\ leases' = [leases EXCEPT ![x] = @ + 1]
          /\ current' = [current EXCEPT ![t] = x]
          /\ stack' = [stack EXCEPT ![t] = x]
          /\ Leased(t, x)
          /\ UNCHANGED made
     \/ /\ made' = made \ {arg[t].ex}
        /\ arg' = [arg EXCEPT ![t] = Idle]
        /\ pc' = [pc EXCEPT ![t] = "idle"]
        /\ UNCHANGED <<tapesMade, leases, tls, lease>>
  /\ UNCHANGED <<free, freeTapes, dirty>>

(* An evaluation under a lease records on the thread's stack. *)
Evaluate(t, v) ==
  /\ pc[t] = "idle" /\ lease[<<t, v>>].ex # None /\ stack[t] \in Tapes
  /\ dirty' = dirty \cup {stack[t]}
  /\ UNCHANGED <<free, freeTapes, made, tapesMade, leases, tls, lease, pc, arg>>

(* Fault variant: the moved-from lease keeps its tape. *)
MoveKeepsTape(t, v, u) ==
  /\ pc[t] = "idle" /\ lease[<<t, v>>].ex # None /\ lease[<<t, u>>] = Empty
  /\ lease' = [lease EXCEPT ![<<t, u>>] = lease[<<t, v>>], ![<<t, v>>].ex = None]
  /\ UNCHANGED <<free, freeTapes, made, tapesMade, leases, dirty, tls, pc, arg>>

(* Lease::Lease(Lease&&): a husk without executor or tape stays behind. *)
Move(t, v, u) ==
  /\ pc[t] = "idle" /\ lease[<<t, v>>].ex # None /\ lease[<<t, u>>] = Empty
  /\ lease' = [lease EXCEPT ![<<t, u>>] = lease[<<t, v>>],
                            ![<<t, v>>] = Husk(lease[<<t, v>>].pool)]
  /\ UNCHANGED <<free, freeTapes, made, tapesMade, leases, dirty, tls, pc, arg>>

(* Lease::~Lease: give the executor back under the lock. *)
ReleaseExecutor(t, v) ==
  /\ pc[t] = "idle" /\ lease[<<t, v>>] # Empty
  /\ free' = IF lease[<<t, v>>].ex = None THEN free
             ELSE [free EXCEPT ![lease[<<t, v>>].pool] = @ \cup {lease[<<t, v>>].ex}]
  /\ lease' = [lease EXCEPT ![<<t, v>>].ex = None]
  /\ arg' = [arg EXCEPT ![t].var = v]
  /\ pc' = [pc EXCEPT ![t] = "tape"]
  /\ UNCHANGED <<freeTapes, made, tapesMade, leases, dirty, tls>>

Released(t, v) ==
  /\ lease' = [lease EXCEPT ![<<t, v>>] = Empty]
  /\ arg' = [arg EXCEPT ![t] = Idle]
  /\ pc' = [pc EXCEPT ![t] = "idle"]

(* Lease::~Lease: the last lease on the thread uninstalls the tape, empties  *)
(* it (recover) and gives it to its own pool, whichever that is.            *)
ReleaseTape(t) ==
  LET v == arg[t].var
      x == lease[<<t, v>>].tape
  IN /\ pc[t] = "tape"
     /\ IF x = None THEN UNCHANGED <<freeTapes, leases, dirty, tls>>
        ELSE /\ leases' = [leases EXCEPT ![x] = @ - 1]
             /\ IF leases[x] # 1 THEN UNCHANGED <<freeTapes, dirty, tls>>
                ELSE /\ current' = [current EXCEPT ![t] = None]
                     /\ stack' = [stack EXCEPT ![t] = None]
                     /\ dirty' = dirty \ {x}
                     /\ freeTapes' = [freeTapes EXCEPT ![lease[<<t, v>>].pool] =
                                        @ \cup {x}]
     /\ Released(t, v)
     /\ UNCHANGED <<free, made, tapesMade>>

Next ==
  \E t \in Threads :
    \/ CloneProto(t) \/ LeaseShares(t) \/ LeaseTakesTape(t) \/ LeaseMakesTape(t)
    \/ ReleaseTape(t)
    \/ \E v \in LeaseVars :
         \/ \E p \in Pools : AcquireBegin(t, p, v)
         \/ \E u \in LeaseVars : Move(t, v, u)
         \/ Evaluate(t, v) \/ ReleaseExecutor(t, v)

Spec == Init /\ [][Next]_vars

-----------------------------------------------------------------------------
(* Where an executor is: in a free list, in a lease, or in an acquire. *)
Homes(e) == {<<"free", p>> : p \in {q \in Pools : e \in free[q]}}
            \cup {<<"lease", l>> : l \in {m \in Places : lease[m].ex = e}}
            \cup {<<"acquire", t>> : t \in {u \in Threads : arg[u].ex = e}}

(* "A clone is either in the free list or in exactly one lease": two threads *)
(* never evaluate on one executor, and none is lost.                        *)
OneHome == TypeOK /\ \A e \in made : Cardinality(Homes(e)) = 1

(* The leases that count on tape x. *)
Holders(x) == {l \in Places : lease[l].tape = x}

(* A tape serves one thread, for as long as some lease of that thread counts *)
(* on it, and is in a free list, emptied, exactly when it serves none.  A    *)
(* thread under a lease always has a stack, and once its last lease is gone  *)
(* it has exactly the stack it arrived with.                                *)
TapePrivate ==
  /\ \A x \in tapesMade :
       /\ leases[x] = Cardinality(Holders(x))
       /\ \A l \in Holders(x) : current[l[1]] = x /\ stack[l[1]] = x
       /\ (\E p \in Pools : x \in freeTapes[p]) <=> Holders(x) = {}
       /\ x \in dirty => Holders(x) # {}
  /\ \A t \in Threads :
       /\ (\E v \in LeaseVars : lease[<<t, v>>].ex # None) => stack[t] # None
       /\ (\A v \in LeaseVars : lease[<<t, v>>] = Empty) =>
             stack[t] = IF t \in Equipped THEN Own ELSE None
-----------------------------------------------------------------------------
(* The executors out, with their pools: in a lease, or in an acquire that    *)
(* has not built its lease yet.                                             *)
InLeases == {l \in Places : lease[l].ex # None}
InAcquires == {t \in Threads : arg[t].ex # None}
Lent == {<<l[1], lease[l].pool, lease[l].ex>> : l \in InLeases}
        \cup {<<t, arg[t].pool, arg[t].ex>> : t \in InAcquires}

Loans == INSTANCE ExecutorLoans WITH
  shelf <- free, lent <- Lent, tape <- current, marked <- dirty

(* The free lists, counts and thread-local pointers implement plain loans:   *)
(* exclusive executors that return to the pool they came from, whatever      *)
(* leases are moved or dropped in whatever order, and one tape for a thread  *)
(* from its first executor to its last.                                     *)
ImplementsLoans == Loans!Spec
=============================================================================

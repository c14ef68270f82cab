---------------------------- MODULE FunctionCache ----------------------------
(***************************************************************************)
(* The plan cache of a standalone Stan function: function_plan in          *)
(* runtime/src/function.cpp.  Threads share one stanli_function; the cache *)
(* is searched and filled under cache_mutex, plans are compiled outside.   *)
(*                                                                         *)
(* A key stands for a function definition with its argument shapes and     *)
(* integers; a plan is named by the key it was compiled for.               *)
(***************************************************************************)
EXTENDS Integers, Sequences

CONSTANTS Threads, Keys,
          KeySize, PlanSize,   \* storage of each key and of its plan
          Fingerprint,         \* key.fingerprint(), which may collide
          RefusalSize,         \* storage of a plan that is only a refusal
          Capacity, Budget,
          None, Refused,
          MaxCalls             \* calls each thread makes

ASSUME SizesAssumption ==
  /\ {KeySize, PlanSize} \subseteq [Keys -> Nat]
  /\ {RefusalSize, Capacity, Budget, MaxCalls} \subseteq Nat \ {0}
ASSUME NamesAssumption ==
  /\ {None, Refused} \cap Keys = {} /\ None # Refused
  /\ \A k \in Keys : Fingerprint[k] # None

VARIABLES
  cache,        \* sequence of [key, plan, storage], oldest first
  cacheStorage, saturated,
  pending,      \* pending_fingerprint
  pc, key, plan,\* of each thread: where function_plan is, its key, its plan
  got,          \* history: <<key, plan>> of its last answer
  calls,        \* calls made
  deferrals, recompiled   \* history: signatures put off, and compilations
                          \* begun, on a full or saturated cache

vars == <<cache, cacheStorage, saturated, pending, pc, key, plan, got, calls,
          deferrals, recompiled>>

Plans == Keys \cup {Refused}

TypeOK ==
  /\ cache \in Seq([key : Keys, plan : Plans, storage : Nat])
  /\ cacheStorage \in Nat /\ saturated \in BOOLEAN
  /\ pending \in {Fingerprint[k] : k \in Keys} \cup {None}
  /\ pc \in [Threads -> {"idle", "lookup", "compile", "insert"}]
  /\ key \in [Threads -> Keys \cup {None}]
  /\ plan \in [Threads -> Plans \cup {None}]
  /\ got \in [Threads -> (Keys \X Plans) \cup {None}]
  /\ calls \in [Threads -> 0 .. MaxCalls]
  /\ deferrals \in Nat /\ recompiled \in Nat

Init ==
  /\ cache = <<>> /\ cacheStorage = 0 /\ saturated = FALSE /\ pending = None
  /\ pc = [t \in Threads |-> "idle"]
  /\ key = [t \in Threads |-> None] /\ plan = [t \in Threads |-> None]
  /\ got = [t \in Threads |-> None] /\ calls = [t \in Threads |-> 0]
  /\ deferrals = 0 /\ recompiled = 0

Cached(k) == {i \in DOMAIN cache : cache[i].key = k}
PlanFor(k) == cache[CHOOSE i \in Cached(k) : TRUE].plan

(* function_plan returns p to thread t. *)
Return(t, p) ==
  /\ got' = [got EXCEPT ![t] = <<key[t], p>>]
  /\ key' = [key EXCEPT ![t] = None]
  /\ plan' = [plan EXCEPT ![t] = None]
  /\ pc' = [pc EXCEPT ![t] = "idle"]

-----------------------------------------------------------------------------
(* Building the key: one that is too large, or whose integers and reals      *)
(* disagree, is refused without a look at the cache.                        *)
Call(t, k) ==
  /\ pc[t] = "idle" /\ calls[t] < MaxCalls
  /\ calls' = [calls EXCEPT ![t] = @ + 1]
  /\ \/ /\ got' = [got EXCEPT ![t] = <<k, Refused>>]
        /\ UNCHANGED <<key, pc>>
     \/ /\ KeySize[k] <= Budget
        /\ key' = [key EXCEPT ![t] = k]
        /\ pc' = [pc EXCEPT ![t] = "lookup"]
        /\ UNCHANGED got
  /\ UNCHANGED <<cache, cacheStorage, saturated, pending, plan, deferrals,
                 recompiled>>

Hit(t) ==
  /\ pc[t] = "lookup" /\ Cached(key[t]) # {}
  /\ Return(t, PlanFor(key[t]))
  /\ UNCHANGED <<cache, cacheStorage, saturated, pending, calls, deferrals,
                 recompiled>>

Throttled == Len(cache) >= Capacity \/ saturated

(* A miss on a full or saturated cache: put off, for the interpreter, unless *)
(* the miss before it had the same fingerprint.                             *)
Defer(t) ==
  /\ pc[t] = "lookup" /\ Cached(key[t]) = {}
  /\ Throttled /\ pending # Fingerprint[key[t]]
  /\ pending' = Fingerprint[key[t]]
  /\ deferrals' = deferrals + 1
  /\ Return(t, Refused)
  /\ UNCHANGED <<cache, cacheStorage, saturated, calls, recompiled>>

(* Fault variant: the pending fingerprint survives its promotion. *)
MissKeepsPending(t) ==
  /\ pc[t] = "lookup" /\ Cached(key[t]) = {}
  /\ Throttled => pending = Fingerprint[key[t]]
  /\ recompiled' = recompiled + IF Throttled THEN 1 ELSE 0
  /\ pc' = [pc EXCEPT ![t] = "compile"]
  /\ UNCHANGED <<cache, cacheStorage, saturated, pending, key, plan, got, calls,
                 deferrals>>

(* A miss that goes on to compile. *)
Miss(t) ==
  /\ pc[t] = "lookup" /\ Cached(key[t]) = {}
  /\ Throttled => pending = Fingerprint[key[t]]
  /\ pending' = IF Throttled THEN None ELSE pending
  /\ recompiled' = recompiled + IF Throttled THEN 1 ELSE 0
  /\ pc' = [pc EXCEPT ![t] = "compile"]
  /\ UNCHANGED <<cache, cacheStorage, saturated, key, plan, got, calls,
                 deferrals>>

(* compile_function, outside the mutex: a plan, a refusal (of its own, or    *)
(* because the plan does not fit the budget), or bad_alloc.                 *)
Compile(t) ==
  /\ pc[t] = "compile"
  /\ \/ /\ PlanSize[key[t]] + KeySize[key[t]] <= Budget
        /\ plan' = [plan EXCEPT ![t] = key[t]]
        /\ pc' = [pc EXCEPT ![t] = "insert"]
        /\ UNCHANGED key
     \/ /\ plan' = [plan EXCEPT ![t] = Refused]
        /\ pc' = [pc EXCEPT ![t] = "insert"]
        /\ UNCHANGED key
     \/ /\ pc' = [pc EXCEPT ![t] = "idle"]
        /\ key' = [key EXCEPT ![t] = None]
        /\ UNCHANGED plan
  /\ UNCHANGED <<cache, cacheStorage, saturated, pending, got, calls, deferrals,
                 recompiled>>

(* Another thread was faster: its plan is the one to share. *)
InsertFound(t) ==
  /\ pc[t] = "insert" /\ Cached(key[t]) # {}
  /\ Return(t, PlanFor(key[t]))
  /\ UNCHANGED <<cache, cacheStorage, saturated, pending, calls, deferrals,
                 recompiled>>

Storage(s) ==
  LET sum[i \in 0 .. Len(s)] == IF i = 0 THEN 0 ELSE sum[i - 1] + s[i].storage
  IN sum[Len(s)]
Newest(n) == SubSeq(cache, n + 1, Len(cache))
Oldest(n) == SubSeq(cache, 1, n)

(* Fault variant: eviction stops one short of the capacity. *)
RoomLoose(n, s) == \/ n = Len(cache)
                   \/ /\ Len(cache) - n <= Capacity
                      /\ cacheStorage - Storage(Oldest(n)) + s <= Budget

(* The loop's exit condition with the n oldest plans evicted. *)
Room(n, s) == \/ n = Len(cache)
              \/ /\ Len(cache) - n < Capacity
                 /\ cacheStorage - Storage(Oldest(n)) + s <= Budget

Evicted(s) == CHOOSE n \in 0 .. Len(cache) :
                Room(n, s) /\ \A m \in 0 .. n - 1 : ~Room(m, s)

Size(t) == KeySize[key[t]]
           + IF plan[t] = Refused THEN RefusalSize ELSE PlanSize[plan[t]]

(* Fault variant: nobody looks again after compiling. *)
InsertBlindly(t) ==
  LET s == Size(t)
      n == Evicted(s)
  IN /\ pc[t] = "insert"
     /\ cache' = Append(Newest(n),
                        [key |-> key[t], plan |-> plan[t], storage |-> s])
     /\ cacheStorage' = cacheStorage - Storage(Oldest(n)) + s
     /\ saturated' = (saturated \/ n > 0)
     /\ Return(t, plan[t])
     /\ UNCHANGED <<pending, calls, deferrals, recompiled>>

(* Evicts the oldest plans until this one fits, and adds it. *)
Insert(t) ==
  LET s == Size(t)
      n == Evicted(s)
  IN /\ pc[t] = "insert" /\ Cached(key[t]) = {}
     /\ cache' = Append(Newest(n),
                        [key |-> key[t], plan |-> plan[t], storage |-> s])
     /\ cacheStorage' = cacheStorage - Storage(Oldest(n)) + s
     /\ saturated' = (saturated \/ n > 0)
     /\ Return(t, plan[t])
     /\ UNCHANGED <<pending, calls, deferrals, recompiled>>

Next == \E t \in Threads :
          \/ \E k \in Keys : Call(t, k)
          \/ Hit(t) \/ Defer(t) \/ Miss(t) \/ Compile(t)
          \/ InsertFound(t) \/ Insert(t)

Spec == Init /\ [][Next]_vars

-----------------------------------------------------------------------------
(* Threads that miss on one key together leave one plan for it, and the      *)
(* answer to a call is a plan for exactly its key or a refusal, whatever the *)
(* fingerprints.                                                            *)
OnePlanPerKey ==
  /\ \A i, j \in DOMAIN cache : cache[i].key = cache[j].key => i = j
  /\ \A i \in DOMAIN cache : cache[i].plan \in {cache[i].key, Refused}
  /\ \A t \in Threads : got[t] # None => got[t][2] \in {got[t][1], Refused}

(* cache_storage, a size_t the loop subtracts from, is the storage of what   *)
(* is cached; with the number of plans it stays within the bounds, but for a *)
(* lone refusal, which is kept whatever its key takes.                      *)
StorageBounded ==
  /\ TypeOK
  /\ cacheStorage = Storage(cache)
  /\ Len(cache) <= Capacity
  /\ cacheStorage > Budget => Len(cache) = 1 /\ cache[1].plan = Refused

(* "One-off signatures must not turn bounded storage into unbounded          *)
(* recompilation work": on a full cache every compilation was put off once,  *)
(* and no deferral pays for two.                                            *)
RecompilationPaid == recompiled <= deferrals
=============================================================================

------------------------- MODULE FunctionCacheProofs -------------------------
(***************************************************************************)
(* The plan cache keeps one plan per key, within its bounds, and compiles  *)
(* only what was paid for, for any threads, keys, sizes and fingerprints.  *)
(***************************************************************************)
EXTENDS FunctionCache, WellFoundedInduction, SequenceTheorems, TLAPS

(* An entry of the cache. *)
Entry == [key : Keys, plan : Plans, storage : Nat]

(* A non-empty set of naturals has a least element. *)
LEMMA LeastNat ==
  ASSUME NEW T, T \subseteq Nat, T # {}
  PROVE  \E m \in T : \A k \in T : m <= k
<1>1. PICK m \in T : \A k \in T : ~(<<k, m>> \in OpToRel(<, Nat))
  BY WFMin, NatLessThanWellFounded
<1>2. \A k \in T : ~(k < m)
  BY <1>1 DEF OpToRel
<1> QED
  BY <1>2

(* f adds up the first n entries of s, from 0 or from another start. *)
Steps(f, n, s) == \A i \in 1 .. n : f[i] = f[i - 1] + s[i].storage
Totals(f, n, s) == f \in [0 .. n -> Nat] /\ f[0] = 0 /\ Steps(f, n, s)

(* The weights of the entries are naturals. *)
LEMMA StorageNat ==
  ASSUME NEW s \in Seq(Entry)
  PROVE  Len(s) \in Nat /\ \A i \in 1 .. Len(s) : s[i].storage \in Nat
<1>1. Len(s) \in Nat
  BY LenProperties
<1>2. ASSUME NEW i \in 1 .. Len(s) PROVE s[i].storage \in Nat
  <2>1. s[i] \in Entry
    BY ElementOfSeq
  <2> QED
    BY <2>1 DEF Entry
<1> QED
  BY <1>1, <1>2

(* The running totals exist, by induction on how many entries they add up. *)
LEMMA TotalsExist ==
  ASSUME NEW s \in Seq(Entry), NEW n \in 0 .. Len(s)
  PROVE  \E f : Totals(f, n, s)
<1> DEFINE T == {m \in 0 .. Len(s) : ~ \E f : Totals(f, m, s)}
<1> SUFFICES ASSUME T # {} PROVE FALSE
  OBVIOUS
<1>0. Len(s) \in Nat /\ \A i \in 1 .. Len(s) : s[i].storage \in Nat
  BY StorageNat
<1>a. T \subseteq Nat
  BY <1>0
<1> HIDE DEF T
<1>1. PICK m \in T : \A k \in T : m <= k
  BY <1>a, LeastNat
<1>2. m \in 0 .. Len(s) /\ ~ \E f : Totals(f, m, s)
  BY <1>1 DEF T
<1>3. CASE m = 0
  <2>1. Totals([i \in 0 .. 0 |-> 0], 0, s)
    BY DEF Totals, Steps
  <2> QED
    BY <1>2, <1>3, <2>1
<1>4. CASE m # 0
  <2>1. m - 1 \in 0 .. Len(s) /\ m - 1 \notin T
    <3>1. m - 1 \in 0 .. Len(s) /\ ~(m <= m - 1)
      BY <1>0, <1>2, <1>4
    <3> QED
      BY <1>1, <3>1
  <2>2. PICK f : Totals(f, m - 1, s)
    BY <2>1 DEF T
  <2>3. PICK g : g = [i \in 0 .. m |-> IF i = m THEN f[m - 1] + s[m].storage ELSE f[i]]
    OBVIOUS
  <2>4. Totals(g, m, s)
    BY <1>0, <1>2, <1>4, <2>1, <2>2, <2>3 DEF Totals, Steps
  <2> QED
    BY <1>2, <2>4
<1> QED
  BY <1>3, <1>4

(* Two functions that start alike and take the same steps are equal. *)
LEMMA SameSteps ==
  ASSUME NEW n \in Nat, NEW f, NEW g, NEW s, f[0] = g[0],
         Steps(f, n, s), Steps(g, n, s)
  PROVE  \A i \in 0 .. n : f[i] = g[i]
<1> DEFINE T == {i \in 0 .. n : f[i] # g[i]}
<1> SUFFICES ASSUME T # {} PROVE FALSE
  OBVIOUS
<1>1. T \subseteq Nat
  OBVIOUS
<1> HIDE DEF T
<1>2. PICK m \in T : \A k \in T : m <= k
  BY <1>1, LeastNat
<1>3. m \in 0 .. n /\ f[m] # g[m]
  BY DEF T
<1>4. m # 0
  BY <1>3
<1>5. m \in 1 .. n /\ m - 1 \in 0 .. n /\ ~(m <= m - 1)
  BY <1>3, <1>4
<1>6. f[m - 1] = g[m - 1]
  BY <1>2, <1>5 DEF T
<1> QED
  BY <1>3, <1>5, <1>6 DEF Steps

(* Storage is the total of all entries. *)
LEMMA StorageTotal ==
  ASSUME NEW s \in Seq(Entry)
  PROVE  \E f : Totals(f, Len(s), s) /\ Storage(s) = f[Len(s)]
<1> DEFINE Sum(g) == [i \in 0 .. Len(s) |-> IF i = 0 THEN 0 ELSE g[i - 1] + s[i].storage]
           sum == CHOOSE g : g = Sum(g)
<1>0. Len(s) \in Nat
  BY LenProperties
<1>1. Storage(s) = sum[Len(s)]
  BY DEF Storage
<1>2. PICK f : Totals(f, Len(s), s)
  BY <1>0, TotalsExist
<1>3. f = Sum(f)
  BY <1>0, <1>2 DEF Totals, Steps
<1>4. sum = Sum(sum)
  BY <1>3
<1> HIDE DEF sum
<1>5. PICK g : g = sum
  OBVIOUS
<1>6. Storage(s) = g[Len(s)] /\ g = Sum(g)
  BY <1>1, <1>4, <1>5
<1>7. Totals(g, Len(s), s)
  <2>1. g[0] = 0 /\ Steps(g, Len(s), s)
    BY <1>0, <1>6 DEF Steps
  <2>a. f[0] = 0 /\ Steps(f, Len(s), s)
    BY <1>2 DEF Totals, Steps
  <2>b. g[0] = f[0]
    BY <2>1, <2>a
  <2>2. \A i \in 0 .. Len(s) : g[i] = f[i]
    BY <1>0, <2>1, <2>a, <2>b, SameSteps
  <2>3. g = f
    BY <1>2, <1>6, <2>2 DEF Totals, Steps
  <2> QED
    BY <1>2, <2>3
<1> QED
  BY <1>6, <1>7

(* old are the n oldest entries of s, and t is the rest of s with e added. *)
Evicts(s, n, e, old, t) ==
  /\ old \in Seq(Entry) /\ Len(old) = n /\ \A i \in 1 .. n : old[i] = s[i]
  /\ t \in Seq(Entry) /\ Len(t) = Len(s) - n + 1 /\ t[Len(s) - n + 1] = e
  /\ \A i \in 1 .. Len(s) - n : t[i] = s[n + i]

(* Evicting the n oldest entries and adding one changes the storage by just  *)
(* what they take and it takes.                                             *)
LEMMA EvictionTotal ==
  ASSUME NEW s \in Seq(Entry), NEW n \in 0 .. Len(s), NEW e \in Entry,
         NEW t, NEW old, Evicts(s, n, e, old, t)
  PROVE  /\ Storage(s) \in Nat /\ Storage(old) \in Nat
         /\ Storage(old) <= Storage(s)
         /\ Storage(t) = Storage(s) - Storage(old) + e.storage
<1>4. Len(s) \in Nat /\ n \in Nat /\ n <= Len(s)
  BY LenProperties
<1>5. old \in Seq(Entry) /\ Len(old) = n /\ \A i \in 1 .. n : old[i] = s[i]
  BY DEF Evicts
<1>7. /\ t \in Seq(Entry) /\ Len(t) = Len(s) - n + 1 /\ t[Len(s) - n + 1] = e
      /\ \A i \in 1 .. Len(s) - n : t[i] = s[n + i]
  BY DEF Evicts
<1>8. PICK f : Totals(f, Len(s), s) /\ Storage(s) = f[Len(s)]
  BY StorageTotal
<1>9. PICK g : Totals(g, n, old) /\ Storage(old) = g[n]
  BY <1>5, StorageTotal
<1>10. PICK h : Totals(h, Len(s) - n + 1, t) /\ Storage(t) = h[Len(s) - n + 1]
  BY <1>7, StorageTotal
<1>11. g[n] = f[n]
  <2>1. Steps(f, n, old)
    <3> SUFFICES ASSUME NEW i \in 1 .. n PROVE f[i] = f[i - 1] + old[i].storage
      BY DEF Steps
    <3>1. i \in 1 .. Len(s) /\ old[i] = s[i]
      BY <1>4, <1>5
    <3> QED
      BY <1>8, <3>1 DEF Totals, Steps
  <2>2. Steps(g, n, old)
    BY <1>9 DEF Totals, Steps
  <2>3. g[0] = f[0]
    BY <1>8, <1>9 DEF Totals, Steps
  <2>4. \A i \in 0 .. n : g[i] = f[i]
    BY <1>4, <2>1, <2>2, <2>3, SameSteps
  <2> QED
    BY <1>4, <2>4
<1>12. h[Len(s) - n] = f[Len(s)] - f[n] /\ f[n] <= f[Len(s)]
  <2>1. PICK k : k = [i \in 0 .. Len(s) - n |-> f[n + i] - f[n]]
    OBVIOUS
  <2>2. /\ k[0] = 0
        /\ Steps(k, Len(s) - n, t)
    <3>1. k[0] = 0
      <4>1. f[n] \in Nat /\ n + 0 = n /\ 0 \in 0 .. Len(s) - n
        BY <1>4, <1>8 DEF Totals
      <4> QED
        BY <2>1, <4>1
    <3>2. ASSUME NEW i \in 1 .. Len(s) - n PROVE k[i] = k[i - 1] + t[i].storage
      <4>1. /\ n + i \in 1 .. Len(s) /\ n + i - 1 \in 0 .. Len(s) /\ n \in 0 .. Len(s)
            /\ n + (i - 1) = n + i - 1 /\ i - 1 \in 0 .. Len(s) - n
            /\ i \in 0 .. Len(s) - n
        BY <1>4
      <4>2. f[n + i] = f[n + i - 1] + t[i].storage
        <5>1. f[n + i] = f[n + i - 1] + s[n + i].storage
          BY <1>8, <4>1 DEF Totals, Steps
        <5> QED
          BY <1>7, <5>1
      <4>3. k[i] = f[n + i] - f[n] /\ k[i - 1] = f[n + i - 1] - f[n]
        <5>1. k[i - 1] = f[n + (i - 1)] - f[n]
          BY <2>1, <4>1
        <5> QED
          BY <2>1, <4>1, <5>1
      <4>4. f[n + i] \in Nat /\ f[n + i - 1] \in Nat /\ f[n] \in Nat
        BY <1>8, <4>1 DEF Totals, Steps
      <4>5. t[i].storage \in Nat
        <5>1. t[i] = s[n + i] /\ s[n + i].storage \in Nat
          BY <1>7, <4>1, StorageNat
        <5> QED
          BY <5>1
      <4> QED
        BY <4>2, <4>3, <4>4, <4>5
    <3> QED
      BY <3>1, <3>2 DEF Steps
  <2>3. /\ h[0] = 0
        /\ Steps(h, Len(s) - n, t)
    BY <1>4, <1>10 DEF Totals, Steps
  <2>4. Len(s) - n \in Nat
    BY <1>4
  <2>5. \A i \in 0 .. Len(s) - n : k[i] = h[i]
    <3>1. k[0] = h[0]
      BY <2>2, <2>3
    <3> QED
      BY <2>2, <2>3, <2>4, <3>1, SameSteps
  <2>6. h[Len(s) - n] \in Nat /\ f[n] \in Nat /\ f[Len(s)] \in Nat
    <3>1. Len(s) - n \in 0 .. Len(s) - n + 1 /\ n \in 0 .. Len(s) /\ Len(s) \in 0 .. Len(s)
      BY <1>4
    <3> QED
      BY <1>8, <1>10, <3>1 DEF Totals, Steps
  <2> QED
    BY <1>4, <2>1, <2>4, <2>5, <2>6
<1>13. h[Len(s) - n + 1] = h[Len(s) - n] + e.storage
  BY <1>4, <1>7, <1>10 DEF Totals, Steps
<1>14. f[n] \in Nat /\ f[Len(s)] \in Nat
  BY <1>4, <1>8 DEF Totals, Steps
<1>15. /\ Storage(s) \in Nat /\ Storage(old) \in Nat /\ Storage(old) <= Storage(s)
       /\ Storage(t) = Storage(s) - Storage(old) + e.storage
  BY <1>8, <1>9, <1>10, <1>11, <1>12, <1>13, <1>14
<1> QED
  BY <1>15

-----------------------------------------------------------------------------
(* What thread t has in hand, and what it was last answered. *)
CallOK(t) ==
  /\ pc[t] # "idle" => key[t] \in Keys
  /\ pc[t] = "insert" =>
       /\ plan[t] \in {key[t], Refused}
       /\ plan[t] = key[t] => PlanSize[key[t]] + KeySize[key[t]] <= Budget
  /\ got[t] # None => got[t][2] \in {got[t][1], Refused}
CallInv == \A t \in Threads : CallOK(t)

(* The entries of the cache, whose keys were compared in full. *)
EntryInv ==
  /\ \A i, j \in DOMAIN cache : cache[i].key = cache[j].key => i = j
  /\ \A i \in DOMAIN cache : cache[i].plan \in {cache[i].key, Refused}

BoundInv ==
  /\ cacheStorage = Storage(cache)
  /\ Len(cache) <= Capacity
  /\ cacheStorage > Budget => Len(cache) = 1 /\ cache[1].plan = Refused

(* A pending fingerprint is a deferral that has not paid for a compilation. *)
PendingInv == recompiled + (IF pending = None THEN 0 ELSE 1) <= deferrals

(* The sequences that eviction and insertion take apart and leave. *)
LEMMA EvictedSequence ==
  ASSUME NEW s \in Seq(Entry), NEW n \in 0 .. Len(s), NEW e \in Entry
  PROVE  Evicts(s, n, e, SubSeq(s, 1, n), Append(SubSeq(s, n + 1, Len(s)), e))
<1>1. Len(s) \in Nat /\ n \in Nat /\ n <= Len(s) /\ \A i \in 1 .. Len(s) : s[i] \in Entry
  BY LenProperties, ElementOfSeq
<1>2. /\ SubSeq(s, 1, n) \in Seq(Entry) /\ Len(SubSeq(s, 1, n)) = n
      /\ \A i \in 1 .. n : SubSeq(s, 1, n)[i] = s[i]
  BY <1>1, SubSeqProperties
<1>3. PICK new : new = SubSeq(s, n + 1, Len(s))
  OBVIOUS
<1>4. /\ new \in Seq(Entry) /\ Len(new) = Len(s) - n
      /\ \A i \in 1 .. Len(s) - n : new[i] = s[n + i]
  BY <1>1, <1>3, SubSeqProperties
<1>5. /\ Append(new, e) \in Seq(Entry) /\ Len(Append(new, e)) = Len(s) - n + 1
      /\ Append(new, e)[Len(s) - n + 1] = e
      /\ \A i \in 1 .. Len(s) - n : Append(new, e)[i] = s[n + i]
  BY <1>4, AppendProperties
<1> QED
  BY <1>2, <1>3, <1>5 DEF Evicts

(* The inductive invariant. *)
IInv == TypeOK /\ CallInv /\ EntryInv /\ BoundInv /\ PendingInv

(* The cache starts empty. *)
LEMMA InitIInv == Init => IInv
<1> SUFFICES ASSUME Init PROVE IInv
  OBVIOUS
<1>1. cache \in Seq(Entry) /\ Len(cache) = 0 /\ DOMAIN cache = {}
  BY EmptySeq DEF Init
<1>2. TypeOK
  <2>1. MaxCalls \in Nat /\ 0 \in 0 .. MaxCalls
    BY SizesAssumption
  <2>2. calls \in [Threads -> 0 .. MaxCalls]
    BY <2>1 DEF Init
  <2> QED
    BY <1>1, <2>2 DEF Init, TypeOK, Entry
<1>3. CallInv
  BY DEF Init, CallInv, CallOK
<1>4. EntryInv
  BY <1>1 DEF EntryInv
<1>5. BoundInv
  <2>1. PICK f : Totals(f, Len(cache), cache) /\ Storage(cache) = f[Len(cache)]
    BY <1>1, StorageTotal
  <2>2. Storage(cache) = 0
    BY <1>1, <2>1 DEF Totals
  <2> QED
    BY <1>1, <2>2, SizesAssumption DEF Init, BoundInv
<1>6. PendingInv
  BY DEF Init, PendingInv
<1> QED
  BY <1>2, <1>3, <1>4, <1>5, <1>6 DEF IInv

(* The eviction loop stops, with room for s more or an empty cache. *)
LEMMA EvictedRoom ==
  ASSUME TypeOK, NEW s
  PROVE  Evicted(s) \in 0 .. Len(cache) /\ Room(Evicted(s), s)
<1> DEFINE T == {n \in 0 .. Len(cache) : Room(n, s)}
<1>1. Len(cache) \in Nat
  BY LenProperties DEF TypeOK
<1>2. Len(cache) \in T /\ T \subseteq Nat
  BY <1>1 DEF Room
<1> HIDE DEF T
<1>3. PICK n \in T : \A k \in T : n <= k
  BY <1>2, LeastNat
<1>4. n \in 0 .. Len(cache) /\ Room(n, s)
  BY <1>3 DEF T
<1>5. ASSUME NEW m \in 0 .. n - 1 PROVE ~Room(m, s)
  <2>1. m \in 0 .. Len(cache) /\ ~(n <= m)
    BY <1>1, <1>4
  <2> QED
    BY <1>3, <2>1 DEF T
<1> HIDE DEF Room
<1> QED
  BY <1>4, <1>5 DEF Evicted

(* A plan that is found was compiled for the key it is found by. *)
LEMMA FoundPlan ==
  ASSUME IInv, NEW k \in Keys, Cached(k) # {}
  PROVE  PlanFor(k) \in {k, Refused}
<1>1. PICK i : i = CHOOSE j \in Cached(k) : TRUE
  OBVIOUS
<1>2. i \in Cached(k)
  BY <1>1
<1>3. i \in DOMAIN cache /\ cache[i].key = k
  BY <1>2 DEF Cached
<1>4. PlanFor(k) = cache[i].plan
  BY <1>1 DEF PlanFor
<1> QED
  BY <1>3, <1>4 DEF IInv, EntryInv

(* Returning a plan for its key, or a refusal. *)
LEMMA ReturnOK ==
  ASSUME IInv, NEW t \in Threads, pc[t] # "idle", NEW p \in {key[t], Refused},
         Return(t, p), calls' = calls
  PROVE  /\ pc' \in [Threads -> {"idle", "lookup", "compile", "insert"}]
         /\ key' \in [Threads -> Keys \cup {None}]
         /\ plan' \in [Threads -> Plans \cup {None}]
         /\ got' \in [Threads -> (Keys \X Plans) \cup {None}]
         /\ CallInv'
<1>1. key[t] \in Keys
  BY DEF IInv, CallInv, CallOK
<1>2. PICK k \in Keys : k = key[t]
  BY <1>1
<1>3. <<k, p>> \in Keys \X Plans
  BY <1>2 DEF Plans
<1>4. /\ got' = [got EXCEPT ![t] = <<k, p>>]
      /\ key' = [key EXCEPT ![t] = None]
      /\ plan' = [plan EXCEPT ![t] = None]
      /\ pc' = [pc EXCEPT ![t] = "idle"]
  BY <1>2 DEF Return
<1>5. /\ pc' \in [Threads -> {"idle", "lookup", "compile", "insert"}]
      /\ key' \in [Threads -> Keys \cup {None}]
      /\ plan' \in [Threads -> Plans \cup {None}]
      /\ got' \in [Threads -> (Keys \X Plans) \cup {None}]
  BY <1>3, <1>4 DEF IInv, TypeOK
<1>6. /\ pc'[t] = "idle" /\ got'[t] = <<k, p>>
      /\ \A u \in Threads : u # t => /\ pc'[u] = pc[u] /\ key'[u] = key[u]
                                     /\ plan'[u] = plan[u] /\ got'[u] = got[u]
  BY <1>4 DEF IInv, TypeOK
<1>7. CallOK(t)'
  BY <1>2, <1>6 DEF CallOK
<1>8. ASSUME NEW u \in Threads, u # t PROVE CallOK(u)'
  BY <1>6, <1>8 DEF IInv, CallInv, CallOK
<1> QED
  BY <1>5, <1>7, <1>8 DEF CallInv

(* Every step keeps the invariant. *)
LEMMA NextIInv == IInv /\ [Next]_vars => IInv'
<1> SUFFICES ASSUME IInv, [Next]_vars PROVE IInv'
  OBVIOUS
<1>a. ASSUME UNCHANGED <<cache, cacheStorage>> PROVE EntryInv' /\ BoundInv'
  BY <1>a DEF IInv, EntryInv, BoundInv
<1>b. ASSUME UNCHANGED <<pending, deferrals, recompiled>> PROVE PendingInv'
  BY <1>b DEF IInv, PendingInv
<1>1. ASSUME NEW t \in Threads, NEW k \in Keys, Call(t, k) PROVE IInv'
  <2>1. UNCHANGED <<cache, cacheStorage, saturated, pending, plan, deferrals, recompiled>>
    BY <1>1 DEF Call
  <2>2. /\ calls' \in [Threads -> 0 .. MaxCalls]
        /\ key' \in [Threads -> Keys \cup {None}]
        /\ pc' \in [Threads -> {"idle", "lookup", "compile", "insert"}]
        /\ got' \in [Threads -> (Keys \X Plans) \cup {None}]
    <3>1. calls' \in [Threads -> 0 .. MaxCalls]
      <4>1. calls[t] + 1 \in 0 .. MaxCalls
        BY <1>1, SizesAssumption DEF Call, IInv, TypeOK
      <4> QED
        BY <1>1, <4>1 DEF Call, IInv, TypeOK
    <3>2. <<k, Refused>> \in Keys \X Plans
      BY DEF Plans
    <3>3. CASE got' = [got EXCEPT ![t] = <<k, Refused>>] /\ UNCHANGED <<key, pc>>
      BY <3>1, <3>2, <3>3 DEF IInv, TypeOK
    <3>4. CASE /\ key' = [key EXCEPT ![t] = k] /\ pc' = [pc EXCEPT ![t] = "lookup"]
               /\ UNCHANGED got
      BY <3>1, <3>4 DEF IInv, TypeOK
    <3> QED
      BY <1>1, <3>3, <3>4 DEF Call
  <2>3. TypeOK'
    BY <2>1, <2>2 DEF IInv, TypeOK
  <2>4. CallOK(t)'
    BY <1>1, <2>1 DEF Call, IInv, TypeOK, CallInv, CallOK
  <2>5. ASSUME NEW u \in Threads, u # t PROVE CallOK(u)'
    <3>1. pc'[u] = pc[u] /\ key'[u] = key[u] /\ got'[u] = got[u]
      BY <1>1, <2>5 DEF Call, IInv, TypeOK
    <3> QED
      BY <2>1, <3>1 DEF IInv, CallInv, CallOK
  <2>6. CallInv'
    BY <2>4, <2>5 DEF CallInv
  <2> QED
    BY <1>a, <1>b, <2>1, <2>3, <2>6 DEF IInv
<1>2. ASSUME NEW t \in Threads, Hit(t) \/ InsertFound(t) PROVE IInv'
  <2>1. /\ pc[t] # "idle" /\ Cached(key[t]) # {} /\ Return(t, PlanFor(key[t]))
        /\ UNCHANGED <<cache, cacheStorage, saturated, pending, calls, deferrals,
                       recompiled>>
    BY <1>2 DEF Hit, InsertFound
  <2>2. key[t] \in Keys
    BY <2>1 DEF IInv, CallInv, CallOK
  <2>3. PlanFor(key[t]) \in {key[t], Refused}
    BY <2>1, <2>2, FoundPlan
  <2>4. /\ pc' \in [Threads -> {"idle", "lookup", "compile", "insert"}]
        /\ key' \in [Threads -> Keys \cup {None}]
        /\ plan' \in [Threads -> Plans \cup {None}]
        /\ got' \in [Threads -> (Keys \X Plans) \cup {None}]
        /\ CallInv'
    BY <2>1, <2>3, ReturnOK
  <2>5. TypeOK'
    BY <2>1, <2>4 DEF IInv, TypeOK
  <2> QED
    BY <1>a, <1>b, <2>1, <2>4, <2>5 DEF IInv
<1>3. ASSUME NEW t \in Threads, Defer(t) PROVE IInv'
  <2>1. /\ pc[t] # "idle" /\ Return(t, Refused)
        /\ pending' = Fingerprint[key[t]] /\ deferrals' = deferrals + 1
        /\ UNCHANGED <<cache, cacheStorage, saturated, calls, recompiled>>
    BY <1>3 DEF Defer
  <2>2. key[t] \in Keys
    BY <2>1 DEF IInv, CallInv, CallOK
  <2>4. /\ pc' \in [Threads -> {"idle", "lookup", "compile", "insert"}]
        /\ key' \in [Threads -> Keys \cup {None}]
        /\ plan' \in [Threads -> Plans \cup {None}]
        /\ got' \in [Threads -> (Keys \X Plans) \cup {None}]
        /\ CallInv'
    BY <2>1, ReturnOK
  <2>5. TypeOK'
    BY <2>1, <2>2, <2>4 DEF IInv, TypeOK
  <2>6. PendingInv'
    BY <2>1 DEF IInv, TypeOK, PendingInv
  <2> QED
    BY <1>a, <2>1, <2>4, <2>5, <2>6 DEF IInv
<1>4. ASSUME NEW t \in Threads, Miss(t) PROVE IInv'
  <2>1. /\ pc[t] = "lookup" /\ pc' = [pc EXCEPT ![t] = "compile"]
        /\ UNCHANGED <<cache, cacheStorage, saturated, key, plan, got, calls, deferrals>>
    BY <1>4 DEF Miss
  <2>2. key[t] \in Keys
    BY <2>1 DEF IInv, CallInv, CallOK
  <2>3. PendingInv' /\ pending' \in {Fingerprint[k] : k \in Keys} \cup {None}
        /\ recompiled' \in Nat
    <3>1. CASE Throttled
      <4>1. /\ pending = Fingerprint[key[t]] /\ pending' = None
            /\ recompiled' = recompiled + 1
        BY <1>4, <3>1 DEF Miss
      <4>2. pending # None
        BY <2>2, <4>1, NamesAssumption
      <4> QED
        BY <2>1, <4>1, <4>2 DEF IInv, TypeOK, PendingInv
    <3>2. CASE ~Throttled
      <4>1. pending' = pending /\ recompiled' = recompiled
        BY <1>4, <3>2 DEF Miss, IInv, TypeOK
      <4> QED
        BY <2>1, <4>1 DEF IInv, TypeOK, PendingInv
    <3> QED
      BY <3>1, <3>2
  <2>4. TypeOK'
    BY <2>1, <2>3 DEF IInv, TypeOK
  <2>5. ASSUME NEW u \in Threads PROVE CallOK(u)'
    <3>1. pc'[u] = IF u = t THEN "compile" ELSE pc[u]
      BY <2>1 DEF IInv, TypeOK
    <3> QED
      BY <2>1, <2>2, <3>1 DEF IInv, CallInv, CallOK
  <2>6. CallInv'
    BY <2>5 DEF CallInv
  <2> QED
    BY <1>a, <2>1, <2>3, <2>4, <2>6 DEF IInv
<1>5. ASSUME NEW t \in Threads, Compile(t) PROVE IInv'
  <2>1. /\ pc[t] = "compile"
        /\ UNCHANGED <<cache, cacheStorage, saturated, pending, got, calls, deferrals,
                       recompiled>>
    BY <1>5 DEF Compile
  <2>2. key[t] \in Keys
    BY <2>1 DEF IInv, CallInv, CallOK
  <2>3. CASE /\ pc' = [pc EXCEPT ![t] = "idle"] /\ key' = [key EXCEPT ![t] = None]
             /\ UNCHANGED plan
    <3>1. TypeOK'
      BY <2>1, <2>3 DEF IInv, TypeOK
    <3>2. ASSUME NEW u \in Threads PROVE CallOK(u)'
      <4>1. /\ pc'[u] = IF u = t THEN "idle" ELSE pc[u]
            /\ u # t => key'[u] = key[u]
        BY <2>3 DEF IInv, TypeOK
      <4> QED
        BY <2>1, <2>3, <4>1 DEF IInv, CallInv, CallOK
    <3>3. CallInv'
      BY <3>2 DEF CallInv
    <3> QED
      BY <1>a, <1>b, <2>1, <3>1, <3>3 DEF IInv
  <2>4. ASSUME NEW p \in {key[t], Refused},
               p = key[t] => PlanSize[key[t]] + KeySize[key[t]] <= Budget,
               plan' = [plan EXCEPT ![t] = p], pc' = [pc EXCEPT ![t] = "insert"],
               UNCHANGED key
        PROVE  IInv'
    <3>0. p \in Plans
      BY <2>2 DEF Plans
    <3>1. TypeOK'
      BY <2>1, <2>4, <3>0 DEF IInv, TypeOK
    <3>2. ASSUME NEW u \in Threads PROVE CallOK(u)'
      <4>1. /\ pc'[u] = IF u = t THEN "insert" ELSE pc[u]
            /\ plan'[u] = IF u = t THEN p ELSE plan[u]
        BY <2>4 DEF IInv, TypeOK
      <4> QED
        BY <2>1, <2>2, <2>4, <4>1 DEF IInv, CallInv, CallOK
    <3>3. CallInv'
      BY <3>2 DEF CallInv
    <3> QED
      BY <1>a, <1>b, <2>1, <3>1, <3>3 DEF IInv
  <2>5. Refused # key[t]
    BY <2>2, NamesAssumption
  <2> QED
    BY <1>5, <2>3, <2>4, <2>5 DEF Compile
<1>6. ASSUME NEW t \in Threads, Insert(t) PROVE IInv'
  <2>1. PICK k \in Keys : k = key[t]
    BY <1>6 DEF Insert, IInv, CallInv, CallOK
  <2>2. PICK p \in {k, Refused} : p = plan[t]
    BY <1>6, <2>1 DEF Insert, IInv, CallInv, CallOK
  <2>3. PICK s : s = Size(t)
    OBVIOUS
  <2>4. s \in Nat /\ (p = k => s <= Budget)
    <3>1. KeySize[k] \in Nat /\ PlanSize[k] \in Nat /\ RefusalSize \in Nat
      BY SizesAssumption
    <3>2. s = KeySize[k] + IF p = Refused THEN RefusalSize ELSE PlanSize[p]
      BY <2>1, <2>2, <2>3 DEF Size
    <3>3. p = k => PlanSize[k] + KeySize[k] <= Budget /\ p # Refused
      BY <1>6, <2>1, <2>2, NamesAssumption DEF Insert, IInv, CallInv, CallOK
    <3> QED
      BY <2>2, <3>1, <3>2, <3>3, SizesAssumption
  <2>5. PICK n : n = Evicted(s)
    OBVIOUS
  <2>6. n \in 0 .. Len(cache) /\ Room(n, s)
    BY <2>5, EvictedRoom DEF IInv
  <2>7. PICK e : e = [key |-> k, plan |-> p, storage |-> s]
    OBVIOUS
  <2>8. e \in Entry /\ e.key = k /\ e.plan = p /\ e.storage = s
    BY <2>1, <2>2, <2>4, <2>7 DEF Entry, Plans
  <2>9. /\ pc[t] = "insert" /\ Cached(k) = {} /\ Return(t, p)
        /\ cache' = Append(SubSeq(cache, n + 1, Len(cache)), e)
        /\ cacheStorage' = cacheStorage - Storage(SubSeq(cache, 1, n)) + s
        /\ saturated' = (saturated \/ n > 0)
        /\ UNCHANGED <<pending, calls, deferrals, recompiled>>
    BY <1>6, <2>1, <2>2, <2>3, <2>5, <2>7 DEF Insert, Newest, Oldest
  <2>10. cache \in Seq(Entry)
    BY DEF IInv, TypeOK, Entry
  <2>a. PICK t1 : t1 = cache'
    OBVIOUS
  <2>b. PICK old : old = SubSeq(cache, 1, n)
    OBVIOUS
  <2>c. Evicts(cache, n, e, old, t1)
    BY <2>6, <2>8, <2>9, <2>10, <2>a, <2>b, EvictedSequence
  <2>d. /\ Storage(cache) \in Nat /\ Storage(old) \in Nat
        /\ Storage(old) <= Storage(cache)
        /\ Storage(t1) = Storage(cache) - Storage(old) + e.storage
    BY <2>6, <2>8, <2>10, <2>c, EvictionTotal
  <2>11. /\ t1 \in Seq(Entry) /\ Len(t1) = Len(cache) - n + 1
         /\ t1[Len(cache) - n + 1] = e
         /\ \A i \in 1 .. Len(cache) - n : t1[i] = cache[n + i]
         /\ Storage(cache) \in Nat /\ Storage(old) \in Nat
         /\ Storage(old) <= Storage(cache)
         /\ Storage(t1) = Storage(cache) - Storage(old) + s
    BY <2>8, <2>c, <2>d DEF Evicts
  <2>12. /\ pc' \in [Threads -> {"idle", "lookup", "compile", "insert"}]
         /\ key' \in [Threads -> Keys \cup {None}]
         /\ plan' \in [Threads -> Plans \cup {None}]
         /\ got' \in [Threads -> (Keys \X Plans) \cup {None}]
         /\ CallInv'
    BY <2>1, <2>2, <2>9, ReturnOK
  <2>13. cacheStorage' = Storage(t1) /\ cacheStorage' \in Nat
    BY <2>4, <2>9, <2>11, <2>b DEF IInv, BoundInv
  <2>14. TypeOK'
    <3>1. saturated' \in BOOLEAN
      BY <2>9
    <3> QED
      BY <2>9, <2>11, <2>12, <2>13, <2>a, <3>1 DEF IInv, TypeOK, Entry
  <2>15. Len(cache) \in Nat /\ n \in Nat /\ n <= Len(cache)
    BY <2>6, <2>10, LenProperties
  <2>16. /\ DOMAIN cache = 1 .. Len(cache)
         /\ DOMAIN t1 = 1 .. Len(cache) - n + 1
    BY <2>10, <2>11, LenProperties
  <2>17. \A i \in 1 .. Len(cache) - n : n + i \in DOMAIN cache
    BY <2>15, <2>16
  <2>18. \A i \in DOMAIN cache : cache[i].key # k
    BY <2>9 DEF Cached
  <2>19. EntryInv'
    <3>1. ASSUME NEW i \in DOMAIN t1 PROVE t1[i].plan \in {t1[i].key, Refused}
      <4>1. CASE i = Len(cache) - n + 1
        BY <2>2, <2>8, <2>11, <4>1
      <4>2. CASE i # Len(cache) - n + 1
        <5>1. i \in 1 .. Len(cache) - n
          BY <2>15, <2>16, <4>2
        <5> QED
          BY <2>11, <2>17, <5>1 DEF IInv, EntryInv
      <4> QED
        BY <4>1, <4>2
    <3>2. ASSUME NEW i \in DOMAIN t1, NEW j \in DOMAIN t1,
                 t1[i].key = t1[j].key
          PROVE  i = j
      <4>1. \A m \in DOMAIN t1 : m = Len(cache) - n + 1 \/ m \in 1 .. Len(cache) - n
        BY <2>15, <2>16
      <4>2. \A m \in 1 .. Len(cache) - n : t1[m].key # k
        BY <2>11, <2>17, <2>18
      <4>3. t1[Len(cache) - n + 1].key = k
        BY <2>8, <2>11
      <4>4. CASE i \in 1 .. Len(cache) - n /\ j \in 1 .. Len(cache) - n
        <5>1. cache[n + i].key = cache[n + j].key
          BY <2>11, <3>2, <4>4
        <5>2. n + i = n + j
          BY <2>17, <4>4, <5>1 DEF IInv, EntryInv
        <5> QED
          BY <2>15, <4>4, <5>2
      <4> QED
        BY <3>2, <4>1, <4>2, <4>3, <4>4
    <3> QED
      BY <2>a, <3>1, <3>2 DEF EntryInv
  <2>20. BoundInv'
    <3>1. Capacity \in Nat /\ Capacity >= 1
      BY SizesAssumption
    <3>2. CASE n = Len(cache)
      <4>1. Len(t1) = 1 /\ t1[1] = e
        BY <2>11, <2>15, <3>2
      <4>2. Storage(t1) = s
        <5>1. old = cache
          BY <2>10, <2>b, <3>2, SubSeqFull
        <5> QED
          BY <2>4, <2>11, <5>1
      <4>3. cacheStorage' > Budget => p = Refused
        BY <2>2, <2>4, <2>13, <4>2, SizesAssumption
      <4> QED
        BY <2>8, <2>13, <2>a, <3>1, <4>1, <4>3 DEF BoundInv
    <3>3. CASE n # Len(cache)
      <4>1. /\ Len(cache) - n < Capacity
            /\ cacheStorage - Storage(old) + s <= Budget
        BY <2>6, <2>b, <3>3 DEF Room, Oldest
      <4>2. Len(t1) <= Capacity
        BY <2>11, <2>15, <3>1, <4>1
      <4>3. ~(cacheStorage' > Budget)
        BY <2>9, <2>13, <2>b, <4>1, SizesAssumption
      <4> QED
        BY <2>13, <2>a, <4>2, <4>3 DEF BoundInv
    <3> QED
      BY <3>2, <3>3
  <2> QED
    BY <1>b, <2>9, <2>12, <2>14, <2>19, <2>20 DEF IInv
<1>7. CASE UNCHANGED vars
  <2>1. TypeOK' /\ CallInv'
    BY <1>7 DEF vars, IInv, TypeOK, CallInv, CallOK
  <2> QED
    BY <1>a, <1>b, <1>7, <2>1 DEF vars, IInv
<1> QED
  BY <1>1, <1>2, <1>3, <1>4, <1>5, <1>6, <1>7 DEF Next

(* Spec keeps the inductive invariant. *)
THEOREM Invariance == Spec => []IInv
  BY InitIInv, NextIInv, PTL DEF Spec

(* Threads that race to compile one key leave one plan for it, and no call   *)
(* is answered with the plan of another key.                                *)
THEOREM OnePlanForEachKey == Spec => []OnePlanPerKey
<1>1. IInv => OnePlanPerKey
  BY DEF IInv, EntryInv, CallInv, CallOK, OnePlanPerKey
<1> QED
  BY <1>1, Invariance, PTL

(* cache_storage is exactly what the cached plans take, never wraps around,  *)
(* and stays within the budget but for a lone refusal.                      *)
THEOREM StorageStaysBounded == Spec => []StorageBounded
<1>1. IInv => StorageBounded
  BY DEF IInv, BoundInv, StorageBounded
<1> QED
  BY <1>1, Invariance, PTL

(* Every compilation on a full cache was put off once, and no deferral pays  *)
(* for two.                                                                 *)
THEOREM RecompilationIsPaid == Spec => []RecompilationPaid
<1>1. IInv => RecompilationPaid
  BY DEF IInv, TypeOK, PendingInv, RecompilationPaid
<1> QED
  BY <1>1, Invariance, PTL
=============================================================================

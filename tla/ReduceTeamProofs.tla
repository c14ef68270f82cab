-------------------------- MODULE ReduceTeamProofs --------------------------
(***************************************************************************)
(* The safety of the reduce_sum worker team, for any number of workers,    *)
(* callers, jobs and runs; and of the evaluations that run on a team, for  *)
(* any number of children, any team and any parameter points.              *)
(***************************************************************************)
EXTENDS ReduceTeam, ReduceEval, FiniteSetTheorems, TLAPS

(* The wait in worker() ends in one of three ways. *)
LEMMA WaitForWorkType ==
  ASSUME NEW w, NEW s
  PROVE  WaitForWork(w, s) \in {"exited", "claim", "asleep"}
  BY DEF WaitForWork

(* notify_all moves threads between positions of their own kind. *)
LEMMA WakenType ==
  ASSUME TypeOK, NEW S \in SUBSET Threads
  PROVE  /\ Waken(pc, S) \in [Threads -> WorkerPC \cup CallerPC]
         /\ \A w \in Workers : Waken(pc, S)[w] \in WorkerPC
         /\ \A c \in Callers : Waken(pc, S)[c] \in CallerPC
  BY DEF TypeOK, Waken, WorkerPC, CallerPC, Threads

(* A worker is active from the moment a generation it has not seen is       *)
(* published until it has counted itself out of remaining_.                 *)
Active(w) == seen[w] # generation \/ pc[w] \in {"claim", "work", "finish"}
ActiveWorkers == {w \in Workers : Active(w)}

(* ready_ counts the workers past their start-up. *)
StartedWorkers == {w \in Workers : pc[w] \notin {"unborn", "starting"}}

RunningPC == {"notify", "claim", "work", "await", "asleep", "woken"}
Running == \E c \in Callers : pc[c] \in RunningPC

(* Where the owner is decides what the team may be doing. *)
OwnerInv ==
  /\ \A w \in Workers : (w \in spawned) <=> (pc[w] # "unborn")
  /\ \A c \in Callers : pc[c] # "idle" => owner = "up" /\ busy
  /\ \A c, d \in Callers : pc[c] # "idle" /\ pc[d] # "idle" => c = d
  /\ stopping => owner \in {"stopNotify", "join", "gone"}
  /\ owner \in {"await", "asleep", "woken", "up"} => spawned = Workers
  /\ ~stopping /\ ~startupError => \A w \in Workers : pc[w] # "exited"
  /\ owner = "up" => ~startupError /\ \A w \in Workers : pc[w] # "starting"
  /\ owner \in {"spawn", "await", "asleep", "woken"} => generation = 0
  /\ owner = "gone" => \A w \in spawned : pc[w] = "exited"

ReadyInv == ready = Cardinality(StartedWorkers)

(* The generation protocol: outside the stretch of run() from the publish to *)
(* the end of its wait, no worker is active.                                 *)
GenerationInv ==
  /\ \A w \in Workers : pc[w] \in {"unborn", "starting"}
                           => seen[w] = 0 /\ generation = 0
  /\ \A w \in Workers : pc[w] \in {"claim", "work", "finish"}
                           => seen[w] = generation
  /\ ~Running => \A w \in Workers : ~Active(w)

RemainingInv == remaining = Cardinality(ActiveWorkers)

(* The claim cursor. *)
CursorInv ==
  /\ errors = threw
  /\ \A t \in Threads : pc[t] = "work" => job[t] < next
  /\ JobsDisjoint
  /\ ran \subseteq 0 .. jobs - 1
  /\ Running => \A i \in ran : i < next
  /\ (\E c \in Callers : pc[c] = "publish") => ran = {}
  /\ (Running \/ \E c \in Callers : pc[c] = "collect") =>
        \A i \in 0 .. jobs - 1 : i < next =>
           i \in ran \/ \E t \in Threads : pc[t] = "work" /\ job[t] = i
  /\ (\E c \in Callers : pc[c] \in {"await", "asleep", "woken", "collect"})
        => next >= jobs

(* The inductive invariant. *)
IInv == /\ TypeOK /\ OwnerInv /\ ReadyInv
        /\ GenerationInv /\ RemainingInv /\ CursorInv

USE WorkersFinite, ThreadsDisjoint, CountsNat, MaxRunsNat

(* Every step keeps the types; only --remaining_ needs the count. *)
LEMMA TypeStep ==
  ASSUME TypeOK, RemainingInv, [Next]_vars
  PROVE  TypeOK'
<1> USE DEF TypeOK, locals, history, WorkerPC, CallerPC, OwnerPC, Threads
<1>a. Cardinality(spawned) \in Nat
  BY FS_CardinalityType, FS_Subset
<1>b. ASSUME NEW w \in Workers, pc[w] = "finish" PROVE remaining - 1 \in Nat
  <2>1. w \in ActiveWorkers /\ ActiveWorkers \subseteq Workers
    BY <1>b DEF ActiveWorkers, Active
  <2>2. IsFiniteSet(ActiveWorkers)
    BY <2>1, FS_Subset
  <2>3. Cardinality(ActiveWorkers) # 0
    BY <2>1, <2>2, FS_EmptySet
  <2> QED
    BY <2>2, <2>3, FS_CardinalityType DEF RemainingInv
<1>c. /\ Ok \in [kind : {"none", "ok", "refused", "error"}, at : Nat]
      /\ Refused \in [kind : {"none", "ok", "refused", "error"}, at : Nat]
      /\ \A i \in Nat : Error(i) \in [kind : {"none", "ok", "refused", "error"},
                                      at : Nat]
  BY DEF Ok, Refused, Error
<1>1. ASSUME NEW w \in Workers, Spawn(w) PROVE TypeOK'
  BY <1>1 DEF Spawn
<1>2. ASSUME SpawnFails PROVE TypeOK'
  BY <1>2 DEF SpawnFails
<1>3. ASSUME AllSpawned PROVE TypeOK'
  BY <1>3 DEF AllSpawned
<1>4. ASSUME AwaitReady PROVE TypeOK'
  BY <1>4 DEF AwaitReady
<1>5. ASSUME NEW w \in Workers, WorkerStarts(w) PROVE TypeOK'
  BY <1>5, WakenType, WaitForWorkType DEF WorkerStarts, DoneNotifiedOwner,
     SeenAfterWait
<1>6. ASSUME NEW w \in Workers, WorkerStartFails(w) PROVE TypeOK'
  BY <1>6, WakenType DEF WorkerStartFails, DoneNotifiedOwner
<1>7. ASSUME NEW c \in Callers, RunEnter(c) PROVE TypeOK'
  <2>1. CASE busy
    <3>1. result' = [result EXCEPT ![c] = Refused] /\ pc' = pc /\ busy' = busy
      BY <1>7, <2>1 DEF RunEnter
    <3>2. result' \in [Callers -> [kind : {"none", "ok", "refused", "error"},
                                  at : Nat]]
      BY <3>1, <1>c
    <3> QED
      BY <1>7, <3>1, <3>2 DEF RunEnter
  <2>2. CASE ~busy
    BY <1>7, <2>2 DEF RunEnter
  <2> QED
    BY <2>1, <2>2
<1>8. ASSUME NEW c \in Callers, NEW n \in Counts, RunSetup(c, n) PROVE TypeOK'
  BY <1>8 DEF RunSetup
<1>9. ASSUME NEW c \in Callers, RunPublish(c) PROVE TypeOK'
  BY <1>9, <1>a DEF RunPublish
<1>10. ASSUME NEW c \in Callers, RunNotify(c) PROVE TypeOK'
  BY <1>10, WakenType DEF RunNotify
<1>11. ASSUME NEW t \in Threads, Claim(t) PROVE TypeOK'
  BY <1>11 DEF Claim
<1>12. ASSUME NEW t \in Threads, NEW ok \in BOOLEAN, RunJob(t, ok) PROVE TypeOK'
  BY <1>12 DEF RunJob
<1>13. ASSUME NEW w \in Workers, WorkerFinishes(w) PROVE TypeOK'
  <2>1. /\ pc' \in [Threads -> WorkerPC \cup CallerPC]
        /\ \A v \in Workers : pc'[v] \in WorkerPC
        /\ \A c \in Callers : pc'[c] \in CallerPC
    BY <1>13, WakenType, WaitForWorkType DEF WorkerFinishes
  <2>2. seen' \in [Workers -> Nat] /\ remaining' \in Nat
    BY <1>13, <1>b DEF WorkerFinishes, SeenAfterWait
  <2> QED
    BY <1>13, <2>1, <2>2 DEF WorkerFinishes, DoneNotifiedOwner
<1>14. ASSUME NEW w \in Workers, WorkerWakes(w) PROVE TypeOK'
  BY <1>14, WaitForWorkType DEF WorkerWakes, SeenAfterWait
<1>15. ASSUME NEW c \in Callers, RunAwait(c) PROVE TypeOK'
  <2>1. /\ pc' \in [Threads -> WorkerPC \cup CallerPC]
        /\ \A w \in Workers : pc'[w] = pc[w]
        /\ \A d \in Callers : pc'[d] \in CallerPC
    BY <1>15 DEF RunAwait
  <2> QED
    BY <1>15, <2>1 DEF RunAwait
<1>16. ASSUME NEW c \in Callers, RunCollect(c) PROVE TypeOK'
  <2>1. PICK r \in [kind : {"none", "ok", "refused", "error"}, at : Nat] :
           result' = [result EXCEPT ![c] = r]
    BY <1>16, <1>c DEF RunCollect
  <2>2. /\ pc' \in [Threads -> WorkerPC \cup CallerPC]
        /\ \A w \in Workers : pc'[w] = pc[w]
        /\ \A d \in Callers : pc'[d] \in CallerPC
    BY <1>16 DEF RunCollect
  <2> QED
    BY <1>16, <2>1, <2>2 DEF RunCollect
<1>17. ASSUME Destroy PROVE TypeOK'
  BY <1>17 DEF Destroy
<1>18. ASSUME StopSet PROVE TypeOK'
  BY <1>18 DEF StopSet
<1>19. ASSUME StopNotify PROVE TypeOK'
  BY <1>19, WakenType DEF StopNotify
<1>20. ASSUME Join PROVE TypeOK'
  BY <1>20 DEF Join
<1>21. ASSUME SpuriousWake PROVE TypeOK'
  BY <1>21 DEF SpuriousWake
<1>22. CASE UNCHANGED vars
  BY <1>22 DEF vars
<1> QED
  BY <1>1, <1>2, <1>3, <1>4, <1>5, <1>6, <1>7, <1>8, <1>9, <1>10, <1>11,
     <1>12, <1>13, <1>14, <1>15, <1>16, <1>17, <1>18, <1>19, <1>20, <1>21,
     <1>22 DEF Next, OwnerStep, WorkerStep, CallerStep, Consume


(* ready_ keeps counting the workers past their start-up. *)
LEMMA ReadyStep ==
  ASSUME TypeOK, OwnerInv, ReadyInv, [Next]_vars
  PROVE  ReadyInv'
<1> USE DEF TypeOK, locals, history, WorkerPC, CallerPC, OwnerPC, Threads,
     StartedWorkers, ReadyInv
<1>1. ASSUME NEW w \in Workers, Spawn(w) PROVE ReadyInv'
  BY <1>1 DEF Spawn, OwnerInv
<1>2. ASSUME SpawnFails PROVE ReadyInv'
  BY <1>2 DEF SpawnFails
<1>3. ASSUME AllSpawned PROVE ReadyInv'
  BY <1>3 DEF AllSpawned
<1>4. ASSUME AwaitReady PROVE ReadyInv'
  BY <1>4 DEF AwaitReady
<1>5. ASSUME NEW w \in Workers, WorkerStarts(w) PROVE ReadyInv'
  <2>1. StartedWorkers' = StartedWorkers \cup {w} /\ w \notin StartedWorkers
    BY <1>5 DEF WorkerStarts, Waken, WaitForWork
  <2>2. IsFiniteSet(StartedWorkers)
    BY FS_Subset
  <2> HIDE DEF StartedWorkers
  <2>3. Cardinality(StartedWorkers') = Cardinality(StartedWorkers) + 1
    BY <2>1, <2>2, FS_AddElement
  <2> QED
    BY <1>5, <2>3 DEF WorkerStarts
<1>6. ASSUME NEW w \in Workers, WorkerStartFails(w) PROVE ReadyInv'
  <2>1. StartedWorkers' = StartedWorkers \cup {w} /\ w \notin StartedWorkers
    BY <1>6 DEF WorkerStartFails, Waken
  <2>2. IsFiniteSet(StartedWorkers)
    BY FS_Subset
  <2> HIDE DEF StartedWorkers
  <2>3. Cardinality(StartedWorkers') = Cardinality(StartedWorkers) + 1
    BY <2>1, <2>2, FS_AddElement
  <2> QED
    BY <1>6, <2>3 DEF WorkerStartFails
<1>7. ASSUME NEW c \in Callers, RunEnter(c) PROVE ReadyInv'
  BY <1>7 DEF RunEnter
<1>8. ASSUME NEW c \in Callers, NEW n \in Counts, RunSetup(c, n) PROVE ReadyInv'
  BY <1>8 DEF RunSetup
<1>9. ASSUME NEW c \in Callers, RunPublish(c) PROVE ReadyInv'
  BY <1>9 DEF RunPublish
<1>10. ASSUME NEW c \in Callers, RunNotify(c) PROVE ReadyInv'
  BY <1>10 DEF RunNotify, Waken
<1>11. ASSUME NEW t \in Threads, Claim(t) PROVE ReadyInv'
  BY <1>11 DEF Claim
<1>12. ASSUME NEW t \in Threads, NEW ok \in BOOLEAN, RunJob(t, ok) PROVE ReadyInv'
  BY <1>12 DEF RunJob
<1>13. ASSUME NEW w \in Workers, WorkerFinishes(w) PROVE ReadyInv'
  BY <1>13 DEF WorkerFinishes, Waken, DoneNotifiedOwner, WaitForWork,
       SeenAfterWait
<1>14. ASSUME NEW w \in Workers, WorkerWakes(w) PROVE ReadyInv'
  BY <1>14 DEF WorkerWakes, WaitForWork, SeenAfterWait
<1>15. ASSUME NEW c \in Callers, RunAwait(c) PROVE ReadyInv'
  BY <1>15 DEF RunAwait
<1>16. ASSUME NEW c \in Callers, RunCollect(c) PROVE ReadyInv'
  BY <1>16 DEF RunCollect
<1>17. ASSUME Destroy PROVE ReadyInv'
  BY <1>17 DEF Destroy
<1>18. ASSUME StopSet PROVE ReadyInv'
  BY <1>18 DEF StopSet
<1>19. ASSUME StopNotify PROVE ReadyInv'
  BY <1>19 DEF StopNotify, Waken
<1>20. ASSUME Join PROVE ReadyInv'
  BY <1>20 DEF Join
<1>21. ASSUME SpuriousWake PROVE ReadyInv'
  BY <1>21 DEF SpuriousWake
<1>22. CASE UNCHANGED vars
  BY <1>22 DEF vars
<1> QED
  BY [Next]_vars, <1>1, <1>2, <1>3, <1>4, <1>5, <1>6, <1>7, <1>8, <1>9, <1>10,
       <1>11, <1>12, <1>13, <1>14, <1>15, <1>16, <1>17, <1>18, <1>19, <1>20,
       <1>21, <1>22
     DEF Next, OwnerStep, WorkerStep, CallerStep, Consume

(* Every step keeps OwnerInv; only the constructor's wait needs the count. *)
LEMMA OwnerInvStep ==
  ASSUME TypeOK, OwnerInv, ReadyInv, [Next]_vars
  PROVE  OwnerInv'
<1> USE DEF TypeOK, locals, history, WorkerPC, CallerPC, OwnerPC, Threads,
     OwnerInv
<1>1. ASSUME NEW w \in Workers, Spawn(w) PROVE OwnerInv'
  BY <1>1 DEF Spawn
<1>2. ASSUME SpawnFails PROVE OwnerInv'
  BY <1>2 DEF SpawnFails
<1>3. ASSUME AllSpawned PROVE OwnerInv'
  BY <1>3 DEF AllSpawned
<1>4. ASSUME AwaitReady PROVE OwnerInv'
  <2>1. StartedWorkers \in SUBSET spawned /\ IsFiniteSet(spawned)
    BY FS_Subset DEF StartedWorkers
  <2>2. ready = Cardinality(spawned) => StartedWorkers = spawned
    BY <2>1, FS_Subset DEF ReadyInv
  <2>3. ready = Cardinality(spawned) => \A w \in spawned : pc[w] # "starting"
    BY <2>2 DEF StartedWorkers
  <2> QED
    BY <1>4, <2>3 DEF AwaitReady
<1>5. ASSUME NEW w \in Workers, WorkerStarts(w) PROVE OwnerInv'
  BY <1>5 DEF WorkerStarts, Waken, DoneNotifiedOwner, WaitForWork,
       SeenAfterWait
<1>6. ASSUME NEW w \in Workers, WorkerStartFails(w) PROVE OwnerInv'
  BY <1>6 DEF WorkerStartFails, Waken, DoneNotifiedOwner
<1>7. ASSUME NEW c \in Callers, RunEnter(c) PROVE OwnerInv'
  BY <1>7 DEF RunEnter
<1>8. ASSUME NEW c \in Callers, NEW n \in Counts, RunSetup(c, n) PROVE OwnerInv'
  BY <1>8 DEF RunSetup
<1>9. ASSUME NEW c \in Callers, RunPublish(c) PROVE OwnerInv'
  BY <1>9 DEF RunPublish
<1>10. ASSUME NEW c \in Callers, RunNotify(c) PROVE OwnerInv'
  BY <1>10 DEF RunNotify, Waken
<1>11. ASSUME NEW t \in Threads, Claim(t) PROVE OwnerInv'
  BY <1>11 DEF Claim
<1>12. ASSUME NEW t \in Threads, NEW ok \in BOOLEAN, RunJob(t, ok) PROVE OwnerInv'
  BY <1>12 DEF RunJob
<1>13. ASSUME NEW w \in Workers, WorkerFinishes(w) PROVE OwnerInv'
  BY <1>13 DEF WorkerFinishes, Waken, DoneNotifiedOwner, WaitForWork,
       SeenAfterWait
<1>14. ASSUME NEW w \in Workers, WorkerWakes(w) PROVE OwnerInv'
  BY <1>14 DEF WorkerWakes, WaitForWork, SeenAfterWait
<1>15. ASSUME NEW c \in Callers, RunAwait(c) PROVE OwnerInv'
  BY <1>15 DEF RunAwait
<1>16. ASSUME NEW c \in Callers, RunCollect(c) PROVE OwnerInv'
  BY <1>16 DEF RunCollect
<1>17. ASSUME Destroy PROVE OwnerInv'
  BY <1>17 DEF Destroy
<1>18. ASSUME StopSet PROVE OwnerInv'
  BY <1>18 DEF StopSet
<1>19. ASSUME StopNotify PROVE OwnerInv'
  BY <1>19 DEF StopNotify, Waken
<1>20. ASSUME Join PROVE OwnerInv'
  BY <1>20 DEF Join
<1>21. ASSUME SpuriousWake PROVE OwnerInv'
  BY <1>21 DEF SpuriousWake
<1>22. CASE UNCHANGED vars
  BY <1>22 DEF vars
<1> QED
  BY [Next]_vars, <1>1, <1>2, <1>3, <1>4, <1>5, <1>6, <1>7, <1>8, <1>9, <1>10,
       <1>11, <1>12, <1>13, <1>14, <1>15, <1>16, <1>17, <1>18, <1>19, <1>20,
       <1>21, <1>22
     DEF Next, OwnerStep, WorkerStep, CallerStep, Consume

(* Every step keeps the generation protocol; run()'s wait needs the count. *)
LEMMA GenerationStep ==
  ASSUME TypeOK, OwnerInv, GenerationInv, RemainingInv, [Next]_vars
  PROVE  GenerationInv'
<1> USE DEF TypeOK, locals, history, WorkerPC, CallerPC, OwnerPC, Threads,
     OwnerInv, GenerationInv, Running, RunningPC, Active
<1>1. ASSUME NEW w \in Workers, Spawn(w) PROVE GenerationInv'
  BY <1>1 DEF Spawn
<1>2. ASSUME SpawnFails PROVE GenerationInv'
  BY <1>2 DEF SpawnFails
<1>3. ASSUME AllSpawned PROVE GenerationInv'
  BY <1>3 DEF AllSpawned
<1>4. ASSUME AwaitReady PROVE GenerationInv'
  BY <1>4 DEF AwaitReady
<1>5. ASSUME NEW w \in Workers, WorkerStarts(w) PROVE GenerationInv'
  BY <1>5 DEF WorkerStarts, Waken, DoneNotifiedOwner, WaitForWork,
       SeenAfterWait
<1>6. ASSUME NEW w \in Workers, WorkerStartFails(w) PROVE GenerationInv'
  BY <1>6 DEF WorkerStartFails, Waken, DoneNotifiedOwner
<1>7. ASSUME NEW c \in Callers, RunEnter(c) PROVE GenerationInv'
  BY <1>7 DEF RunEnter
<1>8. ASSUME NEW c \in Callers, NEW n \in Counts, RunSetup(c, n) PROVE GenerationInv'
  BY <1>8 DEF RunSetup
<1>9. ASSUME NEW c \in Callers, RunPublish(c) PROVE GenerationInv'
  BY <1>9 DEF RunPublish
<1>10. ASSUME NEW c \in Callers, RunNotify(c) PROVE GenerationInv'
  BY <1>10 DEF RunNotify, Waken
<1>11. ASSUME NEW t \in Threads, Claim(t) PROVE GenerationInv'
  BY <1>11 DEF Claim
<1>12. ASSUME NEW t \in Threads, NEW ok \in BOOLEAN, RunJob(t, ok) PROVE GenerationInv'
  BY <1>12 DEF RunJob
<1>13. ASSUME NEW w \in Workers, WorkerFinishes(w) PROVE GenerationInv'
  BY <1>13 DEF WorkerFinishes, Waken, DoneNotifiedOwner, WaitForWork,
       SeenAfterWait
<1>14. ASSUME NEW w \in Workers, WorkerWakes(w) PROVE GenerationInv'
  BY <1>14 DEF WorkerWakes, WaitForWork, SeenAfterWait
<1>15. ASSUME NEW c \in Callers, RunAwait(c) PROVE GenerationInv'
  <2>1. remaining = 0 => \A w \in Workers : ~Active(w)
    <3>1. IsFiniteSet(ActiveWorkers)
      BY FS_Subset DEF ActiveWorkers
    <3>2. remaining = 0 => ActiveWorkers = {}
      BY <3>1, FS_EmptySet DEF RemainingInv
    <3> QED
      BY <3>2 DEF ActiveWorkers
  <2>2. /\ pc' = [pc EXCEPT ![c] = IF remaining = 0 THEN "collect"
                                   ELSE "asleep"]
        /\ seen' = seen /\ generation' = generation
    BY <1>15 DEF RunAwait
  <2>3. CASE remaining = 0
    BY <2>1, <2>2, <2>3
  <2>4. CASE remaining # 0
    <3>1. pc'[c] \in RunningPC
      BY <2>2, <2>4
    <3>2. \A w \in Workers : pc'[w] = pc[w]
      BY <2>2
    <3> QED
      BY <2>2, <3>1, <3>2
  <2> QED
    BY <2>3, <2>4
<1>16. ASSUME NEW c \in Callers, RunCollect(c) PROVE GenerationInv'
  BY <1>16 DEF RunCollect
<1>17. ASSUME Destroy PROVE GenerationInv'
  BY <1>17 DEF Destroy
<1>18. ASSUME StopSet PROVE GenerationInv'
  BY <1>18 DEF StopSet
<1>19. ASSUME StopNotify PROVE GenerationInv'
  BY <1>19 DEF StopNotify, Waken
<1>20. ASSUME Join PROVE GenerationInv'
  BY <1>20 DEF Join
<1>21. ASSUME SpuriousWake PROVE GenerationInv'
  BY <1>21 DEF SpuriousWake
<1>22. CASE UNCHANGED vars
  BY <1>22 DEF vars
<1> QED
  BY [Next]_vars, <1>1, <1>2, <1>3, <1>4, <1>5, <1>6, <1>7, <1>8, <1>9, <1>10,
       <1>11, <1>12, <1>13, <1>14, <1>15, <1>16, <1>17, <1>18, <1>19, <1>20,
       <1>21, <1>22
     DEF Next, OwnerStep, WorkerStep, CallerStep, Consume

(* remaining_ keeps counting the active workers. *)
LEMMA RemainingStep ==
  ASSUME TypeOK, OwnerInv, GenerationInv, RemainingInv, [Next]_vars
  PROVE  RemainingInv'
<1> USE DEF TypeOK, locals, history, WorkerPC, CallerPC, OwnerPC, Threads,
     RemainingInv, ActiveWorkers, Active
<1>1. ASSUME NEW w \in Workers, Spawn(w) PROVE RemainingInv'
  BY <1>1 DEF Spawn, OwnerInv
<1>2. ASSUME SpawnFails PROVE RemainingInv'
  BY <1>2 DEF SpawnFails
<1>3. ASSUME AllSpawned PROVE RemainingInv'
  BY <1>3 DEF AllSpawned
<1>4. ASSUME AwaitReady PROVE RemainingInv'
  BY <1>4 DEF AwaitReady
<1>5. ASSUME NEW w \in Workers, WorkerStarts(w) PROVE RemainingInv'
  BY <1>5 DEF WorkerStarts, Waken, WaitForWork, SeenAfterWait, GenerationInv
<1>6. ASSUME NEW w \in Workers, WorkerStartFails(w) PROVE RemainingInv'
  BY <1>6 DEF WorkerStartFails, Waken, GenerationInv
<1>7. ASSUME NEW c \in Callers, RunEnter(c) PROVE RemainingInv'
  BY <1>7 DEF RunEnter
<1>8. ASSUME NEW c \in Callers, NEW n \in Counts, RunSetup(c, n) PROVE RemainingInv'
  BY <1>8 DEF RunSetup
<1>9. ASSUME NEW c \in Callers, RunPublish(c) PROVE RemainingInv'
  <2>1. spawned = Workers /\ ~Running
    BY <1>9 DEF RunPublish, OwnerInv, Running, RunningPC
  <2>2. \A w \in Workers : seen[w] = generation
    BY <2>1 DEF GenerationInv
  <2>3. ActiveWorkers' = Workers
    BY <1>9, <2>2 DEF RunPublish
  <2> QED
    BY <1>9, <2>1, <2>3 DEF RunPublish
<1>10. ASSUME NEW c \in Callers, RunNotify(c) PROVE RemainingInv'
  BY <1>10 DEF RunNotify, Waken
<1>11. ASSUME NEW t \in Threads, Claim(t) PROVE RemainingInv'
  BY <1>11 DEF Claim
<1>12. ASSUME NEW t \in Threads, NEW ok \in BOOLEAN, RunJob(t, ok) PROVE RemainingInv'
  BY <1>12 DEF RunJob
<1>13. ASSUME NEW w \in Workers, WorkerFinishes(w) PROVE RemainingInv'
  <2>1. seen[w] = generation
    BY <1>13 DEF WorkerFinishes, GenerationInv
  <2>2. ActiveWorkers' = ActiveWorkers \ {w} /\ w \in ActiveWorkers
    BY <1>13, <2>1 DEF WorkerFinishes, Waken, WaitForWork, SeenAfterWait
  <2>3. IsFiniteSet(ActiveWorkers)
    BY FS_Subset
  <2> HIDE DEF ActiveWorkers
  <2>4. Cardinality(ActiveWorkers') = Cardinality(ActiveWorkers) - 1
    BY <2>2, <2>3, FS_RemoveElement
  <2> QED
    BY <1>13, <2>4 DEF WorkerFinishes
<1>14. ASSUME NEW w \in Workers, WorkerWakes(w) PROVE RemainingInv'
  BY <1>14 DEF WorkerWakes, WaitForWork, SeenAfterWait
<1>15. ASSUME NEW c \in Callers, RunAwait(c) PROVE RemainingInv'
  BY <1>15 DEF RunAwait
<1>16. ASSUME NEW c \in Callers, RunCollect(c) PROVE RemainingInv'
  BY <1>16 DEF RunCollect
<1>17. ASSUME Destroy PROVE RemainingInv'
  BY <1>17 DEF Destroy
<1>18. ASSUME StopSet PROVE RemainingInv'
  BY <1>18 DEF StopSet
<1>19. ASSUME StopNotify PROVE RemainingInv'
  BY <1>19 DEF StopNotify, Waken
<1>20. ASSUME Join PROVE RemainingInv'
  BY <1>20 DEF Join
<1>21. ASSUME SpuriousWake PROVE RemainingInv'
  BY <1>21 DEF SpuriousWake
<1>22. CASE UNCHANGED vars
  BY <1>22 DEF vars
<1> QED
  BY [Next]_vars, <1>1, <1>2, <1>3, <1>4, <1>5, <1>6, <1>7, <1>8, <1>9, <1>10,
       <1>11, <1>12, <1>13, <1>14, <1>15, <1>16, <1>17, <1>18, <1>19, <1>20,
       <1>21, <1>22
     DEF Next, OwnerStep, WorkerStep, CallerStep, Consume

(* Every step keeps the claim cursor's invariant. *)
LEMMA CursorStep ==
  ASSUME TypeOK, OwnerInv, GenerationInv, CursorInv, [Next]_vars
  PROVE  CursorInv'
<1> USE DEF TypeOK, locals, history, WorkerPC, CallerPC, OwnerPC, Threads,
     OwnerInv, GenerationInv, CursorInv, Running, RunningPC, Active,
     JobsDisjoint
<1>1. ASSUME NEW w \in Workers, Spawn(w) PROVE CursorInv'
  BY <1>1 DEF Spawn
<1>2. ASSUME SpawnFails PROVE CursorInv'
  BY <1>2 DEF SpawnFails
<1>3. ASSUME AllSpawned PROVE CursorInv'
  BY <1>3 DEF AllSpawned
<1>4. ASSUME AwaitReady PROVE CursorInv'
  BY <1>4 DEF AwaitReady
<1>5. ASSUME NEW w \in Workers, WorkerStarts(w) PROVE CursorInv'
  BY <1>5 DEF WorkerStarts, Waken, DoneNotifiedOwner, WaitForWork,
       SeenAfterWait
<1>6. ASSUME NEW w \in Workers, WorkerStartFails(w) PROVE CursorInv'
  BY <1>6 DEF WorkerStartFails, Waken, DoneNotifiedOwner
<1>7. ASSUME NEW c \in Callers, RunEnter(c) PROVE CursorInv'
  BY <1>7 DEF RunEnter
<1>8. ASSUME NEW c \in Callers, NEW n \in Counts, RunSetup(c, n) PROVE CursorInv'
  BY <1>8 DEF RunSetup
<1>9. ASSUME NEW c \in Callers, RunPublish(c) PROVE CursorInv'
  BY <1>9 DEF RunPublish
<1>10. ASSUME NEW c \in Callers, RunNotify(c) PROVE CursorInv'
  <2>1. /\ pc'[c] = "claim" /\ pc[c] = "notify"
        /\ \A d \in Callers : d # c => pc'[d] = pc[d]
        /\ \A t \in Threads : (pc'[t] = "work") <=> (pc[t] = "work")
    BY <1>10 DEF RunNotify, Waken
  <2> QED
    BY <1>10, <2>1 DEF RunNotify
<1>11. ASSUME NEW t \in Threads, Claim(t) PROVE CursorInv'
  BY <1>11 DEF Claim
<1>12. ASSUME NEW t \in Threads, NEW ok \in BOOLEAN, RunJob(t, ok) PROVE CursorInv'
  <2>1. /\ pc[t] = "work" /\ job[t] < next /\ job[t] < jobs /\ job[t] \in Nat
        /\ pc' = [pc EXCEPT ![t] = "claim"] /\ ran' = ran \cup {job[t]}
        /\ job' = job /\ next' = next /\ jobs' = jobs
    BY <1>12 DEF RunJob
  <2>2. \A u \in Threads : pc'[u] = "work" <=> pc[u] = "work" /\ u # t
    BY <2>1
  <2>3. JobsDisjoint'
    BY <2>1, <2>2
  <2>4. Running' <=> Running
    BY <2>1
  <2>5. \A c \in Callers : pc'[c] = "publish" <=> pc[c] = "publish"
    BY <2>1
  <2>6. Running
    BY <2>1
  <2>7. \A c \in Callers : pc[c] # "publish"
    BY <2>6
  <2>8. \A c \in Callers :
          pc'[c] \in {"await", "asleep", "woken", "collect"} => pc'[c] = pc[c]
    BY <2>1
  <2>9. \A i \in 0 .. jobs' - 1 : i < next' =>
           i \in ran' \/ \E u \in Threads : pc'[u] = "work" /\ job'[u] = i
    BY <2>1, <2>2, <2>6
  <2>10. ran' \subseteq 0 .. jobs' - 1 /\ \A i \in ran' : i < next'
    <3>1. ran \subseteq 0 .. jobs - 1 /\ \A i \in ran : i < next
      BY <2>6
    <3>2. job[t] \in 0 .. jobs - 1
      BY <2>1
    <3> QED
      BY <2>1, <3>1, <3>2
  <2>11. errors' = threw'
    BY <1>12 DEF RunJob
  <2>12. \A u \in Threads : pc'[u] = "work" => job'[u] < next'
    BY <2>1, <2>2
  <2> QED
    BY <2>1, <2>3, <2>5, <2>7, <2>8, <2>9, <2>10, <2>11, <2>12
<1>13. ASSUME NEW w \in Workers, WorkerFinishes(w) PROVE CursorInv'
  <2>1. \A t \in Threads : (pc'[t] = "work") <=> (pc[t] = "work")
    BY <1>13 DEF WorkerFinishes, Waken, WaitForWork
  <2>2. \A c \in Callers : \/ pc'[c] = pc[c]
                           \/ pc[c] = "asleep" /\ pc'[c] = "woken"
    <3>1. pc' = [Waken(pc, Callers) EXCEPT ![w] = WaitForWork(w, seen[w])]
      BY <1>13 DEF WorkerFinishes
    <3>2. \A c \in Callers : c # w /\ pc'[c] = Waken(pc, Callers)[c]
      BY <3>1 DEF Waken
    <3>3. \A c \in Callers : Waken(pc, Callers)[c] =
                             IF pc[c] = "asleep" THEN "woken" ELSE pc[c]
      BY DEF Waken
    <3> HIDE DEF Waken
    <3> QED
      BY <3>2, <3>3
  <2> QED
    BY <1>13, <2>1, <2>2 DEF WorkerFinishes
<1>14. ASSUME NEW w \in Workers, WorkerWakes(w) PROVE CursorInv'
  BY <1>14 DEF WorkerWakes, WaitForWork, SeenAfterWait
<1>15. ASSUME NEW c \in Callers, RunAwait(c) PROVE CursorInv'
  BY <1>15 DEF RunAwait
<1>16. ASSUME NEW c \in Callers, RunCollect(c) PROVE CursorInv'
  BY <1>16 DEF RunCollect
<1>17. ASSUME Destroy PROVE CursorInv'
  BY <1>17 DEF Destroy
<1>18. ASSUME StopSet PROVE CursorInv'
  BY <1>18 DEF StopSet
<1>19. ASSUME StopNotify PROVE CursorInv'
  BY <1>19 DEF StopNotify, Waken
<1>20. ASSUME Join PROVE CursorInv'
  BY <1>20 DEF Join
<1>21. ASSUME SpuriousWake PROVE CursorInv'
  BY <1>21 DEF SpuriousWake
<1>22. CASE UNCHANGED vars
  BY <1>22 DEF vars
<1> QED
  BY [Next]_vars, <1>1, <1>2, <1>3, <1>4, <1>5, <1>6, <1>7, <1>8, <1>9, <1>10,
       <1>11, <1>12, <1>13, <1>14, <1>15, <1>16, <1>17, <1>18, <1>19, <1>20,
       <1>21, <1>22
     DEF Next, OwnerStep, WorkerStep, CallerStep, Consume

(* The team starts in the inductive invariant... *)
LEMMA InitIInv == Init => IInv
<1> SUFFICES ASSUME Init PROVE IInv
  OBVIOUS
<1> USE DEF Init
<1>1. TypeOK
  BY DEF TypeOK, OwnerPC, WorkerPC, CallerPC, Threads, None
<1>2. OwnerInv /\ GenerationInv
  BY DEF OwnerInv, GenerationInv, Active, Running, RunningPC, Threads
<1>3. StartedWorkers = {} /\ ActiveWorkers = {}
  BY DEF StartedWorkers, ActiveWorkers, Active, Threads
<1>4. ReadyInv /\ RemainingInv
  BY <1>3, FS_EmptySet DEF ReadyInv, RemainingInv
<1>5. CursorInv
  BY DEF CursorInv, JobsDisjoint, Running, RunningPC, Threads
<1> QED
  BY <1>1, <1>2, <1>4, <1>5 DEF IInv

(* ... and no step leaves it. *)
LEMMA NextIInv == IInv /\ [Next]_vars => IInv'
  BY TypeStep, OwnerInvStep, ReadyStep, GenerationStep, RemainingStep,
       CursorStep
     DEF IInv

(* The inductive invariant holds in every state of the team. *)
THEOREM Invariance == Spec => []IInv
  BY InitIInv, NextIInv, PTL DEF Spec

(* The variables of the team always have their types: in particular          *)
(* remaining_, an unsigned counter, never goes below zero.                   *)
THEOREM TypeCorrect == Spec => []TypeOK
<1>1. IInv => TypeOK
  BY DEF IInv
<1> QED
  BY Invariance, <1>1, PTL

(* run() never rewrites the batch while a worker may read it. *)
THEOREM SetupIsExclusive == Spec => []SetupExclusive
<1>1. IInv => SetupExclusive
  BY DEF IInv, TypeOK, OwnerInv, GenerationInv, SetupExclusive, Consuming,
         Active, Running, RunningPC, Threads
<1> QED
  BY Invariance, <1>1, PTL

(* No job is worked twice in one run, nor one beyond the batch. *)
THEOREM JobsAreDisjoint == Spec => []JobsDisjoint
<1>1. IInv => JobsDisjoint
  BY DEF IInv, CursorInv
<1> QED
  BY Invariance, <1>1, PTL

(* When run() comes to its verdict the whole batch is done and nobody works. *)
LEMMA CompleteAtCollect ==
  ASSUME IInv, NEW c \in Callers, pc[c] = "collect"
  PROVE  ran = 0 .. jobs - 1 /\ \A t \in Threads : ~Consuming(t)
<1> USE DEF IInv, TypeOK, Threads
<1>1. ~Running /\ \A d \in Callers : d # c => pc[d] = "idle"
  BY DEF OwnerInv, Running, RunningPC
<1>2. \A t \in Threads : pc[t] \notin {"claim", "work"}
  BY <1>1 DEF GenerationInv, Active
<1>3. \A i \in 0 .. jobs - 1 : i \in ran
  BY <1>2 DEF CursorInv
<1>4. ran \subseteq 0 .. jobs - 1
  BY DEF CursorInv
<1> QED
  BY <1>2, <1>3, <1>4 DEF Consuming

(* run() returns only when the whole batch is done and nobody is working. *)
THEOREM BatchIsComplete == Spec => []AllJobsDone
<1>1. IInv => AllJobsDone
  BY CompleteAtCollect DEF AllJobsDone, IInv
<1> QED
  BY Invariance, <1>1, PTL

(* The constructor and the destructor leave no worker unaccounted for. *)
THEOREM LifetimeIsSafe == Spec => []TeamLifetime
<1>1. IInv => TeamLifetime
  BY DEF IInv, TypeOK, OwnerInv, TeamLifetime, WorkerPC, OwnerPC
<1> QED
  BY Invariance, <1>1, PTL

(* A call leaves the collecting stage by the step that reports its verdict. *)
LEMMA OnlyCollectReturns ==
  ASSUME TypeOK, [Next]_vars
  PROVE  \A d \in Callers :
           pc[d] = "collect" /\ pc'[d] = "idle" => RunCollect(d)
<1> USE DEF TypeOK, locals, history, WorkerPC, CallerPC, OwnerPC, Threads
<1>1. ASSUME NEW w \in Workers, Spawn(w)
       PROVE  \A d \in Callers : pc[d] = "collect" /\ pc'[d] = "idle"
                                 => RunCollect(d)
  BY <1>1 DEF Spawn
<1>2. ASSUME SpawnFails
       PROVE  \A d \in Callers : pc[d] = "collect" /\ pc'[d] = "idle"
                                 => RunCollect(d)
  BY <1>2 DEF SpawnFails
<1>3. ASSUME AllSpawned
       PROVE  \A d \in Callers : pc[d] = "collect" /\ pc'[d] = "idle"
                                 => RunCollect(d)
  BY <1>3 DEF AllSpawned
<1>4. ASSUME AwaitReady
       PROVE  \A d \in Callers : pc[d] = "collect" /\ pc'[d] = "idle"
                                 => RunCollect(d)
  BY <1>4 DEF AwaitReady
<1>5. ASSUME NEW w \in Workers, WorkerStarts(w)
       PROVE  \A d \in Callers : pc[d] = "collect" /\ pc'[d] = "idle"
                                 => RunCollect(d)
  BY <1>5 DEF WorkerStarts, Waken, DoneNotifiedOwner, WaitForWork,
       SeenAfterWait
<1>6. ASSUME NEW w \in Workers, WorkerStartFails(w)
       PROVE  \A d \in Callers : pc[d] = "collect" /\ pc'[d] = "idle"
                                 => RunCollect(d)
  BY <1>6 DEF WorkerStartFails, Waken, DoneNotifiedOwner
<1>7. ASSUME NEW c \in Callers, RunEnter(c)
       PROVE  \A d \in Callers : pc[d] = "collect" /\ pc'[d] = "idle"
                                 => RunCollect(d)
  BY <1>7 DEF RunEnter
<1>8. ASSUME NEW c \in Callers, NEW n \in Counts, RunSetup(c, n)
       PROVE  \A d \in Callers : pc[d] = "collect" /\ pc'[d] = "idle"
                                 => RunCollect(d)
  BY <1>8 DEF RunSetup
<1>9. ASSUME NEW c \in Callers, RunPublish(c)
       PROVE  \A d \in Callers : pc[d] = "collect" /\ pc'[d] = "idle"
                                 => RunCollect(d)
  BY <1>9 DEF RunPublish
<1>10. ASSUME NEW c \in Callers, RunNotify(c)
       PROVE  \A d \in Callers : pc[d] = "collect" /\ pc'[d] = "idle"
                                 => RunCollect(d)
  BY <1>10 DEF RunNotify, Waken
<1>11. ASSUME NEW t \in Threads, Claim(t)
       PROVE  \A d \in Callers : pc[d] = "collect" /\ pc'[d] = "idle"
                                 => RunCollect(d)
  BY <1>11 DEF Claim
<1>12. ASSUME NEW t \in Threads, NEW ok \in BOOLEAN, RunJob(t, ok)
       PROVE  \A d \in Callers : pc[d] = "collect" /\ pc'[d] = "idle"
                                 => RunCollect(d)
  BY <1>12 DEF RunJob
<1>13. ASSUME NEW w \in Workers, WorkerFinishes(w)
       PROVE  \A d \in Callers : pc[d] = "collect" /\ pc'[d] = "idle"
                                 => RunCollect(d)
  BY <1>13 DEF WorkerFinishes, Waken, DoneNotifiedOwner, WaitForWork,
       SeenAfterWait
<1>14. ASSUME NEW w \in Workers, WorkerWakes(w)
       PROVE  \A d \in Callers : pc[d] = "collect" /\ pc'[d] = "idle"
                                 => RunCollect(d)
  BY <1>14 DEF WorkerWakes, WaitForWork, SeenAfterWait
<1>15. ASSUME NEW c \in Callers, RunAwait(c)
       PROVE  \A d \in Callers : pc[d] = "collect" /\ pc'[d] = "idle"
                                 => RunCollect(d)
  BY <1>15 DEF RunAwait
<1>16. ASSUME NEW c \in Callers, RunCollect(c)
       PROVE  \A d \in Callers : pc[d] = "collect" /\ pc'[d] = "idle"
                                 => RunCollect(d)
  BY <1>16 DEF RunCollect
<1>17. ASSUME Destroy
       PROVE  \A d \in Callers : pc[d] = "collect" /\ pc'[d] = "idle"
                                 => RunCollect(d)
  BY <1>17 DEF Destroy
<1>18. ASSUME StopSet
       PROVE  \A d \in Callers : pc[d] = "collect" /\ pc'[d] = "idle"
                                 => RunCollect(d)
  BY <1>18 DEF StopSet
<1>19. ASSUME StopNotify
       PROVE  \A d \in Callers : pc[d] = "collect" /\ pc'[d] = "idle"
                                 => RunCollect(d)
  BY <1>19 DEF StopNotify, Waken
<1>20. ASSUME Join
       PROVE  \A d \in Callers : pc[d] = "collect" /\ pc'[d] = "idle"
                                 => RunCollect(d)
  BY <1>20 DEF Join
<1>21. ASSUME SpuriousWake
       PROVE  \A d \in Callers : pc[d] = "collect" /\ pc'[d] = "idle"
                                 => RunCollect(d)
  BY <1>21 DEF SpuriousWake
<1>22. CASE UNCHANGED vars
  BY <1>22 DEF vars
<1> QED
  BY [Next]_vars, <1>1, <1>2, <1>3, <1>4, <1>5, <1>6, <1>7, <1>8, <1>9, <1>10,
       <1>11, <1>12, <1>13, <1>14, <1>15, <1>16, <1>17, <1>18, <1>19, <1>20,
       <1>21, <1>22
     DEF Next, OwnerStep, WorkerStep, CallerStep, Consume

(* run() reports the exception of the least failing job of its own batch:    *)
(* errors_ holds exactly the failures of this run when it is scanned.        *)
THEOREM LeastErrorIsReported == Spec => LeastErrorReported
<1> DEFINE Reports(c) ==
      IF threw = {} THEN result'[c] = Ok
      ELSE /\ result'[c].kind = "error"
           /\ result'[c].at \in threw
           /\ \A j \in threw : result'[c].at <= j
<1>1. ASSUME IInv, [Next]_vars, NEW c \in Callers,
             pc[c] = "collect", pc'[c] = "idle"
      PROVE  Reports(c)
  <2>1. RunCollect(c) /\ errors = threw /\ TypeOK
    BY <1>1, OnlyCollectReturns DEF IInv, CursorInv
  <2>2. result \in [Callers -> [kind : {"none", "ok", "refused", "error"},
                                at : Nat]]
    BY <2>1 DEF TypeOK
  <2>3. CASE threw = {}
    BY <2>1, <2>2, <2>3 DEF RunCollect
  <2>4. CASE threw # {}
    <3>1. PICK i \in threw : /\ \A j \in threw : i <= j
                             /\ result' = [result EXCEPT ![c] = Error(i)]
      BY <2>1, <2>4 DEF RunCollect
    <3>2. result'[c] = Error(i)
      BY <2>2, <3>1
    <3> QED
      BY <2>4, <3>1, <3>2 DEF Error
  <2> QED
    BY <2>3, <2>4
<1>2. IInv /\ [Next]_vars =>
        [\A c \in Callers : (pc[c] = "collect" /\ pc'[c] = "idle")
                              => Reports(c)]_vars
  BY <1>1
<1> QED
  BY Invariance, <1>2, PTL DEF Spec, LeastErrorReported

-----------------------------------------------------------------------------
(* The refinement.  busy_ is held on behalf of somebody inside run().        *)
BusyInv == busy => \E c \in Callers : InRun(c)

(* Every step keeps busy_ in somebody's name. *)
LEMMA BusyStep ==
  ASSUME TypeOK, BusyInv, [Next]_vars
  PROVE  BusyInv'
<1> USE DEF TypeOK, BusyInv, InRun, locals, history, WorkerPC, CallerPC, OwnerPC, Threads
<1>1. ASSUME NEW w \in Workers, Spawn(w) PROVE BusyInv'
  BY <1>1 DEF Spawn
<1>2. ASSUME SpawnFails PROVE BusyInv'
  BY <1>2 DEF SpawnFails
<1>3. ASSUME AllSpawned PROVE BusyInv'
  BY <1>3 DEF AllSpawned
<1>4. ASSUME AwaitReady PROVE BusyInv'
  BY <1>4 DEF AwaitReady
<1>5. ASSUME NEW w \in Workers, WorkerStarts(w) PROVE BusyInv'
  BY <1>5 DEF WorkerStarts, Waken, DoneNotifiedOwner, WaitForWork,
       SeenAfterWait
<1>6. ASSUME NEW w \in Workers, WorkerStartFails(w) PROVE BusyInv'
  BY <1>6 DEF WorkerStartFails, Waken, DoneNotifiedOwner
<1>7. ASSUME NEW c \in Callers, RunEnter(c) PROVE BusyInv'
  BY <1>7 DEF RunEnter
<1>8. ASSUME NEW c \in Callers, NEW n \in Counts, RunSetup(c, n) PROVE BusyInv'
  BY <1>8 DEF RunSetup
<1>9. ASSUME NEW c \in Callers, RunPublish(c) PROVE BusyInv'
  BY <1>9 DEF RunPublish
<1>10. ASSUME NEW c \in Callers, RunNotify(c) PROVE BusyInv'
  BY <1>10 DEF RunNotify, Waken
<1>11. ASSUME NEW t \in Threads, Claim(t) PROVE BusyInv'
  BY <1>11 DEF Claim
<1>12. ASSUME NEW t \in Threads, NEW ok \in BOOLEAN, RunJob(t, ok) PROVE BusyInv'
  BY <1>12 DEF RunJob
<1>13. ASSUME NEW w \in Workers, WorkerFinishes(w) PROVE BusyInv'
  BY <1>13 DEF WorkerFinishes, Waken, DoneNotifiedOwner, WaitForWork,
       SeenAfterWait
<1>14. ASSUME NEW w \in Workers, WorkerWakes(w) PROVE BusyInv'
  BY <1>14 DEF WorkerWakes, WaitForWork, SeenAfterWait
<1>15. ASSUME NEW c \in Callers, RunAwait(c) PROVE BusyInv'
  BY <1>15 DEF RunAwait
<1>16. ASSUME NEW c \in Callers, RunCollect(c) PROVE BusyInv'
  BY <1>16 DEF RunCollect
<1>17. ASSUME Destroy PROVE BusyInv'
  BY <1>17 DEF Destroy
<1>18. ASSUME StopSet PROVE BusyInv'
  BY <1>18 DEF StopSet
<1>19. ASSUME StopNotify PROVE BusyInv'
  BY <1>19 DEF StopNotify, Waken
<1>20. ASSUME Join PROVE BusyInv'
  BY <1>20 DEF Join
<1>21. ASSUME SpuriousWake PROVE BusyInv'
  BY <1>21 DEF SpuriousWake
<1>22. CASE UNCHANGED vars
  BY <1>22 DEF vars
<1> QED
  BY [Next]_vars, <1>1, <1>2, <1>3, <1>4, <1>5, <1>6, <1>7, <1>8, <1>9, <1>10,
       <1>11, <1>12, <1>13, <1>14, <1>15, <1>16, <1>17, <1>18, <1>19, <1>20,
       <1>21, <1>22
     DEF Next, OwnerStep, WorkerStep, CallerStep, Consume

(* What ReduceBatch calls the holder. *)
Holder(f) == IF \E c \in Callers : f[c] # "idle"
             THEN CHOOSE c \in Callers : f[c] # "idle" ELSE NoCaller

(* It is the one caller that is inside run(). *)
LEMMA HolderIs ==
  ASSUME NEW f, NEW c \in Callers, f[c] # "idle",
         \A d \in Callers : f[d] # "idle" => d = c
  PROVE  Holder(f) = c
<1> DEFINE d == CHOOSE x \in Callers : f[x] # "idle"
<1>1. d \in Callers /\ f[d] # "idle"
  OBVIOUS
<1>2. Holder(f) = d
  BY DEF Holder
<1> HIDE DEF d
<1> QED
  BY <1>1, <1>2

(* Nobody is inside, or one caller is. *)
LEMMA HolderCases ==
  ASSUME OwnerInv
  PROVE  \/ Holder(pc) = NoCaller /\ \A c \in Callers : ~InRun(c)
         \/ Holder(pc) \in Callers /\ \A c \in Callers : InRun(c) <=> c = Holder(pc)
<1>1. CASE \E c \in Callers : InRun(c)
  <2>1. PICK c \in Callers : InRun(c)
    BY <1>1
  <2>2. \A d \in Callers : InRun(d) => d = c
    BY <2>1 DEF OwnerInv, InRun
  <2>3. Holder(pc) = c
    BY <2>1, <2>2, HolderIs DEF InRun
  <2> QED
    BY <2>1, <2>2, <2>3
<1>2. CASE ~\E c \in Callers : InRun(c)
  BY <1>2 DEF Holder, InRun
<1> QED
  BY <1>1, <1>2

(* A step inside a stage of run(), or of a worker between jobs, is none of   *)
(* the batch's.                                                             *)
Quiet ==
  /\ jobs' = jobs /\ ran' = ran /\ threw' = threw /\ result' = result
  /\ \A c \in Callers : InRun(c)' <=> InRun(c)
  /\ \A c \in Callers : Opened(c)' <=> Opened(c)

(* Such a step leaves every variable of the batch as it is. *)
LEMMA QuietStep ==
  ASSUME OwnerInv, Quiet
  PROVE  UNCHANGED Batch!vars
<1>0. \A c \in Callers : pc'[c] # "idle" <=> pc[c] # "idle"
  BY DEF Quiet, InRun
<1>1. Holder(pc') = Holder(pc)
  <2>1. CASE \E c \in Callers : InRun(c)
    <3>1. PICK c \in Callers : InRun(c)
      BY <2>1
    <3>2. \A d \in Callers : pc[d] # "idle" => d = c
      BY <3>1 DEF OwnerInv, InRun
    <3>3. Holder(pc) = c
      BY <3>1, <3>2, HolderIs DEF InRun
    <3>4. pc'[c] # "idle" /\ \A d \in Callers : pc'[d] # "idle" => d = c
      BY <1>0, <3>1, <3>2 DEF InRun
    <3>5. Holder(pc') = c
      BY <3>4, HolderIs
    <3> QED
      BY <3>3, <3>5
  <2>2. CASE ~\E c \in Callers : InRun(c)
    BY <1>0, <2>2 DEF Holder, InRun
  <2> QED
    BY <2>1, <2>2
<1>2. (\E c \in Callers : Opened(c))' = (\E c \in Callers : Opened(c))
  BY DEF Quiet
<1> QED
  BY <1>1, <1>2 DEF Batch!vars, Quiet, Holder, InRun

(* The steps of the batch.  A refused entry finds a holder other than itself, *)
(* an accepted one none.                                                     *)
LEMMA EnterBatch ==
  ASSUME IInv, BusyInv, NEW c \in Callers, RunEnter(c)
  PROVE  Batch!Acquire(c) \/ Batch!Refuse(c)
<1>1. TypeOK /\ OwnerInv /\ pc[c] = "idle"
  BY DEF IInv, RunEnter
<1>2. CASE busy
  <2>1. result' = [result EXCEPT ![c] = Refused] /\ UNCHANGED <<pc, jobs, ran, threw>>
    BY <1>2 DEF RunEnter, history
  <2>2. Holder(pc) \in Callers /\ Holder(pc) # c
    BY <1>1, <1>2, HolderCases DEF BusyInv, InRun
  <2>3. Holder(pc) \notin {NoCaller, c}
    BY <2>2, NoCallerAssumption
  <2> QED
    BY <2>1, <2>3 DEF Batch!Refuse, Holder, InRun, Opened, Refused
<1>3. CASE ~busy
  <2>1. pc' = [pc EXCEPT ![c] = "setup"] /\ UNCHANGED <<result, jobs, ran, threw>>
    BY <1>3 DEF RunEnter, history
  <2>2. \A d \in Callers : pc[d] = "idle"
    BY <1>1, <1>3 DEF OwnerInv
  <2>3. Holder(pc) = NoCaller
    BY <2>2 DEF Holder
  <2>4. /\ \A d \in Callers : pc'[d] = (IF d = c THEN "setup" ELSE "idle")
    BY <1>1, <2>1, <2>2 DEF TypeOK, Threads
  <2>5. Holder(pc') = c
    BY <2>4, HolderIs
  <2>6. /\ ~\E d \in Callers : Opened(d)
        /\ ~\E d \in Callers : Opened(d)'
    BY <2>2, <2>4 DEF Opened
  <2> QED
    BY <2>1, <2>3, <2>5, <2>6 DEF Batch!Acquire, Holder, InRun
<1> QED
  BY <1>2, <1>3

(* The caller that stays inside stays the holder. *)
LEMMA HolderStays ==
  ASSUME TypeOK, OwnerInv, NEW c \in Callers, pc[c] # "idle",
         NEW p, p # "idle", pc' = [pc EXCEPT ![c] = p]
  PROVE  /\ Holder(pc) = c /\ Holder(pc') = c
         /\ \A d \in Callers : pc'[d] = IF d = c THEN p ELSE pc[d]
         /\ \A d \in Callers : d # c => pc[d] = "idle"
<1>1. \A d \in Callers : d # c => pc[d] = "idle"
  BY DEF OwnerInv
<1>2. \A d \in Callers : pc'[d] = IF d = c THEN p ELSE pc[d]
  BY DEF TypeOK, Threads
<1>3. Holder(pc) = c
  BY <1>1, HolderIs
<1>4. Holder(pc') = c
  BY <1>1, <1>2, HolderIs
<1> QED
  BY <1>1, <1>2, <1>3, <1>4

(* Setting the batch up opens it with every job to do. *)
LEMMA OpenBatch ==
  ASSUME IInv, NEW c \in Callers, NEW n \in Counts, RunSetup(c, n)
  PROVE  Batch!Open(n)
<1>1. TypeOK /\ OwnerInv /\ pc[c] = "setup" /\ c # NoCaller
  BY NoCallerAssumption DEF IInv, RunSetup
<1>2. /\ pc' = [pc EXCEPT ![c] = "publish"]
      /\ jobs' = n /\ ran' = {} /\ threw' = {} /\ result' = result
  BY DEF RunSetup
<1>3. /\ Holder(pc) = c /\ Holder(pc') = c
      /\ \A d \in Callers : pc'[d] = IF d = c THEN "publish" ELSE pc[d]
      /\ \A d \in Callers : d # c => pc[d] = "idle"
  BY <1>1, <1>2, HolderStays
<1>4. (~\E d \in Callers : Opened(d)) /\ \E d \in Callers : Opened(d)'
  BY <1>1, <1>3 DEF Opened
<1> QED
  BY <1>1, <1>2, <1>3, <1>4 DEF Batch!Open, Holder, InRun

(* A job that ends was still to be done. *)
LEMMA DoBatch ==
  ASSUME IInv, NEW t \in Threads, NEW ok \in BOOLEAN, RunJob(t, ok)
  PROVE  \E i \in (0 .. jobs - 1) \ ran, good \in BOOLEAN : Batch!Do(i, good)
<1> DEFINE i == job[t]
<1>1. /\ TypeOK /\ OwnerInv /\ GenerationInv /\ JobsDisjoint /\ pc[t] = "work"
      /\ pc' = [pc EXCEPT ![t] = "claim"]
      /\ ran' = ran \cup {i} /\ threw' = (IF ok THEN threw ELSE threw \cup {i})
      /\ jobs' = jobs /\ result' = result
  BY DEF IInv, CursorInv, RunJob
<1>2. i \in (0 .. jobs - 1) \ ran
  BY <1>1 DEF TypeOK, JobsDisjoint
<1>3. \A d \in Callers : /\ pc'[d] # "idle" <=> pc[d] # "idle"
                         /\ Opened(d)' <=> Opened(d)
  BY <1>1 DEF TypeOK, Threads, Opened
<1>4. \E d \in Callers : Opened(d)
  <2>1. CASE t \in Callers
    BY <1>1, <2>1 DEF Opened
  <2>2. CASE t \in Workers
    BY <1>1, <2>2 DEF GenerationInv, Active, Running, RunningPC, Opened
  <2> QED
    BY <2>1, <2>2 DEF Threads
<1>5. Holder(pc') = Holder(pc)
  <2>1. PICK d \in Callers : pc[d] # "idle"
    BY <1>4 DEF Opened
  <2>2. \A e \in Callers : pc[e] # "idle" => e = d
    BY <1>1, <2>1 DEF OwnerInv
  <2>3. Holder(pc) = d
    BY <2>1, <2>2, HolderIs
  <2>4. Holder(pc') = d
    BY <1>3, <2>1, <2>2, HolderIs
  <2> QED
    BY <2>3, <2>4
<1>6. Batch!Do(i, ok)
  BY <1>1, <1>2, <1>3, <1>4, <1>5 DEF Batch!Do, Holder, InRun
<1> QED
  BY <1>2, <1>6

(* The verdict that run() returns with is the batch's. *)
LEMMA CloseBatch ==
  ASSUME IInv, NEW c \in Callers, RunCollect(c)
  PROVE  Batch!Close
<1>1. TypeOK /\ OwnerInv /\ pc[c] = "collect" /\ errors = threw
  BY DEF IInv, CursorInv, RunCollect
<1>2. pc' = [pc EXCEPT ![c] = "idle"] /\ UNCHANGED <<jobs, ran, threw>>
  BY DEF RunCollect, history
<1>3. \A d \in Callers : d # c => pc[d] = "idle"
  BY <1>1 DEF OwnerInv
<1>4. \A d \in Callers : pc'[d] = "idle"
  BY <1>1, <1>2, <1>3 DEF TypeOK, Threads
<1>5. Holder(pc) = c /\ Holder(pc') = NoCaller
  <2>1. Holder(pc) = c
    BY <1>1, <1>3, HolderIs
  <2>2. Holder(pc') = NoCaller
    BY <1>4 DEF Holder
  <2> QED
    BY <2>1, <2>2
<1>6. (\E d \in Callers : Opened(d)) /\ ~\E d \in Callers : Opened(d)'
  BY <1>1, <1>4 DEF Opened
<1>7. ran = 0 .. jobs - 1
  BY <1>1, CompleteAtCollect
<1>8. result' = [result EXCEPT ![c] = Batch!Verdict]
  <2>1. CASE threw = {}
    BY <1>1, <2>1 DEF RunCollect, Ok, Batch!Verdict
  <2>2. CASE threw # {}
    <3>1. PICK i \in threw : /\ \A j \in threw : i <= j
                            /\ result' = [result EXCEPT ![c] = Error(i)]
      BY <1>1, <2>2 DEF RunCollect
    <3> DEFINE m == CHOOSE k \in threw : \A j \in threw : k <= j
    <3>2. m \in threw /\ \A j \in threw : m <= j
      BY <3>1
    <3>3. Batch!Verdict = [kind |-> "error", at |-> m]
      BY <2>2 DEF Batch!Verdict
    <3> HIDE DEF m
    <3>4. m \in Nat /\ i \in Nat
      BY <1>1, <3>1, <3>2 DEF TypeOK
    <3>5. m = i
      BY <3>1, <3>2, <3>4
    <3> QED
      BY <3>1, <3>3, <3>5 DEF Error
  <2> QED
    BY <2>1, <2>2
<1> QED
  BY <1>2, <1>5, <1>6, <1>7, <1>8 DEF Batch!Close, Holder, InRun

(* Every other step is quiet. *)
LEMMA BatchStep ==
  ASSUME IInv, BusyInv, [Next]_vars
  PROVE  [Batch!Next]_(Batch!vars)
<1>0. TypeOK /\ OwnerInv
  BY DEF IInv
<1> SUFFICES ASSUME ~Quiet PROVE Batch!Next
  BY <1>0, QuietStep
<1> USE <1>0 DEF TypeOK, Quiet, InRun, Opened, locals, history, WorkerPC, CallerPC, OwnerPC, Threads
<1>1. ASSUME NEW w \in Workers, Spawn(w) PROVE FALSE
  BY <1>1 DEF Spawn
<1>2. ASSUME SpawnFails PROVE FALSE
  BY <1>2 DEF SpawnFails
<1>3. ASSUME AllSpawned PROVE FALSE
  BY <1>3 DEF AllSpawned
<1>4. ASSUME AwaitReady PROVE FALSE
  BY <1>4 DEF AwaitReady
<1>5. ASSUME NEW w \in Workers, WorkerStarts(w) PROVE FALSE
  BY <1>5 DEF WorkerStarts, Waken, DoneNotifiedOwner, WaitForWork,
       SeenAfterWait
<1>6. ASSUME NEW w \in Workers, WorkerStartFails(w) PROVE FALSE
  BY <1>6 DEF WorkerStartFails, Waken, DoneNotifiedOwner
<1>7. ASSUME NEW c \in Callers, RunEnter(c) PROVE Batch!Next
  BY <1>7, EnterBatch DEF Batch!Next
<1>8. ASSUME NEW c \in Callers, NEW n \in Counts, RunSetup(c, n) PROVE Batch!Next
  BY <1>8, OpenBatch DEF Batch!Next
<1>9. ASSUME NEW c \in Callers, RunPublish(c) PROVE FALSE
  BY <1>9 DEF RunPublish
<1>10. ASSUME NEW c \in Callers, RunNotify(c) PROVE FALSE
  BY <1>10 DEF RunNotify, Waken
<1>11. ASSUME NEW t \in Threads, Claim(t) PROVE FALSE
  BY <1>11 DEF Claim
<1>12. ASSUME NEW t \in Threads, NEW ok \in BOOLEAN, RunJob(t, ok) PROVE Batch!Next
  BY <1>12, DoBatch DEF Batch!Next
<1>13. ASSUME NEW w \in Workers, WorkerFinishes(w) PROVE FALSE
  BY <1>13 DEF WorkerFinishes, Waken, DoneNotifiedOwner, WaitForWork,
       SeenAfterWait
<1>14. ASSUME NEW w \in Workers, WorkerWakes(w) PROVE FALSE
  BY <1>14 DEF WorkerWakes, WaitForWork, SeenAfterWait
<1>15. ASSUME NEW c \in Callers, RunAwait(c) PROVE FALSE
  BY <1>15 DEF RunAwait
<1>16. ASSUME NEW c \in Callers, RunCollect(c) PROVE Batch!Next
  BY <1>16, CloseBatch DEF Batch!Next
<1>17. ASSUME Destroy PROVE FALSE
  BY <1>17 DEF Destroy
<1>18. ASSUME StopSet PROVE FALSE
  BY <1>18 DEF StopSet
<1>19. ASSUME StopNotify PROVE FALSE
  BY <1>19 DEF StopNotify, Waken
<1>20. ASSUME Join PROVE FALSE
  BY <1>20 DEF Join
<1>21. ASSUME SpuriousWake PROVE FALSE
  BY <1>21 DEF SpuriousWake
<1>22. CASE UNCHANGED vars
  BY <1>22 DEF vars
<1> QED
  BY [Next]_vars, <1>1, <1>2, <1>3, <1>4, <1>5, <1>6, <1>7, <1>8, <1>9, <1>10,
       <1>11, <1>12, <1>13, <1>14, <1>15, <1>16, <1>17, <1>18, <1>19, <1>20,
       <1>21, <1>22
     DEF Next, OwnerStep, WorkerStep, CallerStep, Consume

(* A fresh team is a fresh batch. *)
LEMMA BatchInit == ASSUME Init PROVE Batch!Init /\ BusyInv
<1>1. \A c \in Callers : pc[c] = "idle"
  BY ThreadsDisjoint DEF Init, Threads
<1>2. Holder(pc) = NoCaller
  BY <1>1 DEF Holder
<1> QED
  BY <1>1, <1>2 DEF Init, Batch!Init, Holder, InRun, Opened, None, BusyInv

(* Every behaviour of the team, for any number of workers, callers, jobs and *)
(* runs, is a behaviour of the serial batch.                                 *)
THEOREM TheTeamImplementsTheBatch == Spec => ImplementsBatch
<1>1. IInv /\ BusyInv /\ [Next]_vars => BusyInv'
  BY BusyStep DEF IInv
<1>2. Spec => []BusyInv
  BY <1>1, BatchInit, Invariance, PTL DEF Spec
<1>3. IInv /\ BusyInv /\ [Next]_vars => [Batch!Next]_(Batch!vars)
  BY BatchStep
<1> QED
  BY <1>2, <1>3, BatchInit, Invariance, PTL DEF Spec, ImplementsBatch, Batch!Spec

-----------------------------------------------------------------------------
(* Evaluations (ReduceEval)                                                *)

USE ChildrenAssumption, PointsAssumption

(* Which thread is in values-only mode: none but the host, and the host only *)
(* inside the forward part of forward_value_only.                           *)
ModeInv ==
  /\ \A t \in EvalThreads : t # Host => ~tls[t]
  /\ stage \in {"forward", "jobs", "sum", "rest"} => (tls[Host] <=> call.op = "value")
  /\ stage \in {"idle", "reverse", "back", "add"} => ~tls[Host]
  /\ stage \in {"jobs", "sum", "rest"} => (valuesOnly <=> tls[Host])

(* What a child's finished forward job leaves: a value, and when the sweep   *)
(* is reversible a standing handshake, both at the point in force.          *)
Swept(i) ==
  /\ cValue[i] = point
  /\ ~valuesOnly => cReady[i] /\ cTape[i] = point

(* The parent's handshake stands only between a reversible forward and its   *)
(* reverse, over children that are all prepared at that forward's point.    *)
ParentInv ==
  /\ exReady => /\ stateReady /\ ~valuesOnly /\ stage \in {"idle", "reverse"}
                /\ fwdAt \in Points
                /\ \A i \in Children : cReady[i] /\ cTape[i] = fwdAt
  /\ stage = "reverse" => exReady /\ fwdAt = point

(* The jobs a run has worked, and what each of them left if none failed.     *)
ForwardInv ==
  /\ stage = "jobs" /\ ~jobThrew => \A i \in Children \ todo : Swept(i)
  /\ stage \in {"sum", "rest"} => \A i \in Children : Swept(i)
  /\ stage = "rest" => (stateReady <=> ~valuesOnly)

BackwardInv ==
  /\ stage = "back" => /\ \A i \in todo : cReady[i] /\ cTape[i] = point
                       /\ ~jobThrew => \A i \in Children \ todo : cGrad[i] = point
  /\ stage = "add" => \A i \in Children : cGrad[i] = point

(* The inductive invariant. *)
EvalInv == EvalTypeOK /\ ModeInv /\ ParentInv /\ ForwardInv /\ BackwardInv

(* No evaluation has started: nothing is prepared and nothing claimed. *)
LEMMA EvalInitInv == EvalInit => EvalInv
<1> SUFFICES ASSUME EvalInit PROVE EvalInv
  OBVIOUS
<1>1. EvalTypeOK
  BY DEF EvalInit, EvalTypeOK, Children, Where, Nowhere, Ops, NoResult, EvalThreads
<1>2. ModeInv /\ ParentInv /\ ForwardInv /\ BackwardInv
  BY DEF EvalInit, ModeInv, ParentInv, ForwardInv, BackwardInv, EvalThreads
<1> QED
  BY <1>1, <1>2 DEF EvalInv

(* Every step keeps the invariant. *)
LEMMA EvalNextInv == EvalInv /\ [EvalNext]_evalVars => EvalInv'
<1> SUFFICES ASSUME EvalInv, [EvalNext]_evalVars PROVE EvalInv'
  OBVIOUS
<1> USE DEF EvalInv, EvalTypeOK, Ops, EvalThreads, Where, Nowhere, host, red, child
<1>a. [i \in Children |-> Nowhere] \in [Children -> Where]
  OBVIOUS
<1>b. Threw \in [kind : {"none", "threw", "value", "grad"}, at : [Children -> Where]]
  BY <1>a DEF Threw
<1>1. ASSUME NEW p \in Points, SetPoint(p) PROVE EvalInv'
  BY <1>1 DEF SetPoint, ModeInv, ParentInv, ForwardInv, BackwardInv
<1>2. ASSUME NEW op \in Ops, NEW team \in BOOLEAN, Enter(op, team) PROVE EvalInv'
  <2>1. EvalTypeOK'
    BY <1>2, <1>a DEF Enter, NoResult
  <2>2. ModeInv'
    BY <1>2 DEF Enter, ModeInv
  <2>3. ParentInv' /\ ForwardInv' /\ BackwardInv'
    BY <1>2 DEF Enter, ParentInv, ForwardInv, BackwardInv
  <2> QED
    BY <2>1, <2>2, <2>3
<1>3. ASSUME NEW team \in BOOLEAN, EnterReverse(team) PROVE EvalInv'
  BY <1>3, <1>a DEF EnterReverse, NoResult, ModeInv, ParentInv, ForwardInv, BackwardInv
<1>4. ASSUME NEW team \in BOOLEAN, ReverseRefused(team) PROVE EvalInv'
  BY <1>4, <1>a DEF ReverseRefused, Threw, ModeInv, ParentInv, ForwardInv, BackwardInv
<1>5. CASE ForwardThrows
  BY <1>5, <1>a DEF ForwardThrows, Abort, Threw, ModeInv, ParentInv, ForwardInv, BackwardInv
<1>6. CASE KernelForward
  BY <1>6 DEF KernelForward, ModeInv, ParentInv, ForwardInv, BackwardInv
<1>7. CASE ForwardJoin
  <2>1. EvalTypeOK'
    <3>1. CASE jobThrew
      BY <1>7, <1>b, <3>1 DEF ForwardJoin, Abort
    <3>2. CASE ~jobThrew
      BY <1>7, <3>2 DEF ForwardJoin
    <3> QED
      BY <3>1, <3>2
  <2>2. ModeInv' /\ ParentInv' /\ BackwardInv'
    BY <1>7 DEF ForwardJoin, Abort, ModeInv, ParentInv, BackwardInv
  <2>3. ForwardInv'
    BY <1>7 DEF ForwardJoin, JobsOver, Abort, ForwardInv, Swept
  <2> QED
    BY <2>1, <2>2, <2>3
<1>8. CASE KernelSum
  BY <1>8 DEF KernelSum, ModeInv, ParentInv, ForwardInv, Swept, BackwardInv
<1>9. CASE ForwardReturns
  <2>1. EvalTypeOK'
    BY <1>9 DEF ForwardReturns
  <2>2. ModeInv' /\ ForwardInv' /\ BackwardInv'
    BY <1>9 DEF ForwardReturns, ModeInv, ForwardInv, BackwardInv
  <2>3. ParentInv'
    BY <1>9 DEF ForwardReturns, ModeInv, ParentInv, ForwardInv, Swept
  <2> QED
    BY <2>1, <2>2, <2>3
<1>10. CASE Reverse
  <2>1. EvalTypeOK'
    <3>1. stateReady
      BY <1>10 DEF Reverse, ParentInv
    <3> QED
      BY <1>10, <3>1 DEF Reverse
  <2>2. ModeInv' /\ ParentInv' /\ ForwardInv'
    BY <1>10 DEF Reverse, Abort, ModeInv, ParentInv, ForwardInv
  <2>3. BackwardInv'
    BY <1>10 DEF Reverse, Abort, ParentInv, BackwardInv
  <2> QED
    BY <2>1, <2>2, <2>3
<1>11. CASE ReverseThrows
  BY <1>11, <1>a DEF ReverseThrows, Abort, Threw, ModeInv, ParentInv, ForwardInv, BackwardInv
<1>12. CASE BackwardJoin
  <2>1. EvalTypeOK'
    <3>1. CASE jobThrew
      BY <1>12, <1>b, <3>1 DEF BackwardJoin, Abort
    <3>2. CASE ~jobThrew
      BY <1>12, <3>2 DEF BackwardJoin
    <3> QED
      BY <3>1, <3>2
  <2>2. ModeInv' /\ ParentInv' /\ ForwardInv'
    BY <1>12 DEF BackwardJoin, Abort, ModeInv, ParentInv, ForwardInv
  <2>3. BackwardInv'
    BY <1>12 DEF BackwardJoin, JobsOver, Abort, BackwardInv
  <2> QED
    BY <2>1, <2>2, <2>3
<1>13. CASE Accumulate
  BY <1>13 DEF Accumulate, ModeInv, ParentInv, ForwardInv, BackwardInv
<1>14. ASSUME NEW t \in EvalThreads, NEW i \in Children, NEW ok \in BOOLEAN,
              ForwardJob(t, i, ok)
       PROVE  EvalInv'
  <2>1. valuesOnly \/ tls[t] <=> valuesOnly
    BY <1>14 DEF ForwardJob, ModeInv
  <2>2. EvalTypeOK'
    BY <1>14 DEF ForwardJob
  <2>3. ModeInv' /\ ParentInv' /\ BackwardInv'
    BY <1>14 DEF ForwardJob, ModeInv, ParentInv, BackwardInv
  <2>4. ForwardInv'
    BY <1>14, <2>1 DEF ForwardJob, ForwardInv, Swept
  <2> QED
    BY <2>2, <2>3, <2>4
<1>15. ASSUME NEW t \in EvalThreads, NEW i \in Children, NEW ok \in BOOLEAN,
              BackwardJob(t, i, ok)
       PROVE  EvalInv'
  <2>1. EvalTypeOK'
    BY <1>15 DEF BackwardJob
  <2>2. ModeInv' /\ ParentInv' /\ ForwardInv'
    BY <1>15 DEF BackwardJob, ModeInv, ParentInv, ForwardInv
  <2>3. BackwardInv'
    BY <1>15 DEF BackwardJob, Takes, BackwardInv
  <2> QED
    BY <2>1, <2>2, <2>3
<1>16. CASE UNCHANGED evalVars
  BY <1>16 DEF evalVars, ModeInv, ParentInv, ForwardInv, Swept, BackwardInv
<1> HIDE DEF EvalInv, EvalTypeOK, Ops, EvalThreads, Where, Nowhere, host, red, child
<1> QED
  BY <1>1, <1>2, <1>3, <1>4, <1>5, <1>6, <1>7, <1>8, <1>9, <1>10, <1>11, <1>12, <1>13, <1>14,
     <1>15, <1>16 DEF EvalNext

(* The inductive invariant holds of every reachable state. *)
LEMMA AlwaysEvalInv == EvalSpec => []EvalInv
  BY EvalInitInv, EvalNextInv, PTL DEF EvalSpec

(* Whatever sequence of forward, values-only, gradient and reverse calls     *)
(* came before, and wherever they failed: a host that is allowed to reverse  *)
(* meets a reduction that is, and no thread is left in values-only mode.    *)
THEOREM HandshakesAlwaysAgree == EvalSpec => []HandshakesAgree
<1>1. EvalInv => HandshakesAgree
  BY DEF EvalInv, ModeInv, ParentInv, HandshakesAgree, EvalThreads
<1> QED
  BY <1>1, AlwaysEvalInv, PTL

(* backward(KernelCtx&) starts only over children that are all prepared at   *)
(* the point of the forward: no child refuses its reverse, for any team.    *)
THEOREM ChildrenAreAlwaysPrepared == EvalSpec => []ChildrenPrepared
<1>1. EvalInv => ChildrenPrepared
  BY DEF EvalInv, BackwardInv, ChildrenPrepared
<1> QED
  BY <1>1, AlwaysEvalInv, PTL

(* A value or a gradient that an operation returns was computed by every     *)
(* child at the point in force.                                             *)
THEOREM ReturnsAreFresh == EvalSpec => FreshAtReturn
<1> DEFINE Fresh == stage # "idle" /\ stage' = "idle" /\ outcome'.kind \in {"grad", "value"}
                      => \A i \in Children : outcome'.at[i] = point
<1>1. EvalInv /\ [EvalNext]_evalVars => [Fresh]_evalVars
  <2> SUFFICES ASSUME EvalInv, EvalNext, stage # "idle", stage' = "idle",
                      outcome'.kind \in {"grad", "value"}
               PROVE  \A i \in Children : outcome'.at[i] = point
    BY DEF Fresh
  <2>1. ~Abort
    BY DEF Abort, Threw
  <2>2. CASE ForwardReturns
    BY <2>2 DEF ForwardReturns, EvalInv, ForwardInv, Swept
  <2>3. CASE Accumulate
    BY <2>3 DEF Accumulate, EvalInv, BackwardInv
  <2>4. ForwardReturns \/ Accumulate
    BY <2>1 DEF EvalNext, SetPoint, Enter, EnterReverse, ReverseRefused, ForwardThrows,
       KernelForward, ForwardJoin, KernelSum, Reverse, ReverseThrows, BackwardJoin, ForwardJob,
       BackwardJob
  <2> QED
    BY <2>2, <2>3, <2>4
<1> QED
  BY <1>1, AlwaysEvalInv, PTL DEF EvalSpec, FreshAtReturn
=============================================================================

----------------------------- MODULE ReduceTeam -----------------------------
(***************************************************************************)
(* The worker team of a reduce_sum context: ReduceExecutionContext::Impl   *)
(* in runtime/src/reduce_sum.cpp.                                          *)
(*                                                                         *)
(* One thread owns the context (constructs and destroys it), the threads   *)
(* of Callers call run(), and the threads of Workers are the ones the      *)
(* constructor spawns.  A block of code under mu_ is one step; between two *)
(* such blocks, and around every access to the atomics next_ and busy_,    *)
(* any other thread may step.  A thread in a condition variable's wait is  *)
(* "asleep" until a notify_all (or a spurious wakeup) makes it "woken",    *)
(* and only then does it evaluate its predicate again.                     *)
(***************************************************************************)
EXTENDS Integers, FiniteSets

CONSTANTS Workers,   \* the threads - 1 workers the constructor asks for
          Callers,   \* threads that call run() on the context
          Counts,    \* the job counts run() may be called with
          MaxRuns,   \* bound on the number of runs (generation_)
          NoCaller   \* the abstract batch is held by nobody

ASSUME WorkersFinite == IsFiniteSet(Workers)
ASSUME ThreadsDisjoint == Workers \cap Callers = {}
ASSUME CountsNat == Counts \subseteq Nat
ASSUME MaxRunsNat == MaxRuns \in Nat
ASSUME NoCallerAssumption == NoCaller \notin Callers

Threads == Workers \cup Callers

VARIABLES
  owner,         \* where the owning thread is
  spawned,       \* workers_: the threads that were started
  ready,         \* ready_
  startupError,  \* startup_error_ is set
  stopping,      \* stopping_
  generation,    \* generation_
  remaining,     \* remaining_
  next,          \* next_, the claim cursor
  busy,          \* busy_
  jobs,          \* jobs_, with state_ and work_ set beside it
  errors,        \* the indexes whose errors_ entry is not null
  pc,            \* where each worker or caller is
  seen,          \* the local "seen" of worker()
  job,           \* the local "i" of consume()
  result,        \* how the caller's last run() ended
  ran,           \* history: the jobs this run has finished
  threw          \* history: the jobs of this run that threw

locals  == <<pc, seen, job, result>>
history == <<ran, threw>>
vars == <<owner, spawned, ready, startupError, stopping, generation, remaining,
          next, busy, jobs, errors, locals, history>>

None     == [kind |-> "none", at |-> 0]
Ok       == [kind |-> "ok", at |-> 0]
Refused  == [kind |-> "refused", at |-> 0]
Error(i) == [kind |-> "error", at |-> i]

WorkerPC == {"unborn", "starting", "asleep", "woken",
             "claim", "work", "finish", "exited"}
CallerPC == {"idle", "setup", "publish", "notify", "claim", "work",
             "await", "asleep", "woken", "collect"}
OwnerPC  == {"spawn", "await", "asleep", "woken", "up", "stop", "stopNotify",
             "join", "gone"}

TypeOK ==
  /\ owner \in OwnerPC
  /\ spawned \subseteq Workers
  /\ ready \in Nat /\ remaining \in Nat /\ generation \in Nat /\ next \in Nat
  /\ startupError \in BOOLEAN /\ stopping \in BOOLEAN /\ busy \in BOOLEAN
  /\ jobs \in Nat
  /\ errors \in SUBSET Nat /\ ran \in SUBSET Nat /\ threw \in SUBSET Nat
  /\ pc \in [Threads -> WorkerPC \cup CallerPC]
  /\ \A w \in Workers : pc[w] \in WorkerPC
  /\ \A c \in Callers : pc[c] \in CallerPC
  /\ seen \in [Workers -> Nat]
  /\ job \in [Threads -> Nat]
  /\ result \in [Callers -> [kind : {"none", "ok", "refused", "error"},
                             at : Nat]]

Init ==
  /\ owner = "spawn" /\ spawned = {}
  /\ ready = 0 /\ remaining = 0 /\ generation = 0 /\ next = 0 /\ jobs = 0
  /\ startupError = FALSE /\ stopping = FALSE /\ busy = FALSE
  /\ errors = {} /\ ran = {} /\ threw = {}
  /\ pc = [t \in Threads |-> IF t \in Workers THEN "unborn" ELSE "idle"]
  /\ seen = [w \in Workers |-> 0]
  /\ job = [t \in Threads |-> 0]
  /\ result = [c \in Callers |-> None]

-----------------------------------------------------------------------------
(* notify_all: the sleepers on wake_ are workers; on done_, the owner during *)
(* construction and the caller inside run().                                *)
Waken(f, S) == [t \in DOMAIN f |-> IF t \in S /\ f[t] = "asleep"
                                   THEN "woken" ELSE f[t]]

DoneNotifiedOwner == IF owner = "asleep" THEN "woken" ELSE owner

(* The predicate of wake_.wait and what follows it: return, leave the lock   *)
(* to consume, or sleep.                                                    *)
WaitForWork(w, s) ==
  IF stopping THEN "exited" ELSE IF generation # s THEN "claim" ELSE "asleep"

SeenAfterWait(w, s) == IF ~stopping /\ generation # s THEN generation ELSE s

-----------------------------------------------------------------------------
(* Construction *)

Spawn(w) ==
  /\ owner = "spawn" /\ w \notin spawned
  /\ spawned' = spawned \cup {w}
  /\ pc' = [pc EXCEPT ![w] = "starting"]
  /\ UNCHANGED <<owner, ready, startupError, stopping, generation, remaining,
                 next, busy, jobs, errors, seen, job, result, history>>

(* std::thread's constructor throws: the catch block stops the team. *)
SpawnFails ==
  /\ owner = "spawn" /\ spawned # Workers
  /\ owner' = "stop"
  /\ UNCHANGED <<spawned, ready, startupError, stopping, generation, remaining,
                 next, busy, jobs, errors, locals, history>>

AllSpawned ==
  /\ owner = "spawn" /\ spawned = Workers
  /\ owner' = "await"
  /\ UNCHANGED <<spawned, ready, startupError, stopping, generation, remaining,
                 next, busy, jobs, errors, locals, history>>

(* Fault variant: the constructor ignores startup_error_. *)
AwaitReadyBlind ==
  /\ owner \in {"await", "woken"}
  /\ owner' = IF ready # Cardinality(spawned) THEN "asleep" ELSE "up"
  /\ UNCHANGED <<spawned, ready, startupError, stopping, generation, remaining,
                 next, busy, jobs, errors, locals, history>>

(* done_.wait(ready_ == workers_.size()), then rethrow startup_error_. *)
AwaitReady ==
  /\ owner \in {"await", "woken"}
  /\ owner' = IF ready # Cardinality(spawned) THEN "asleep"
              ELSE IF startupError THEN "stop" ELSE "up"
  /\ UNCHANGED <<spawned, ready, startupError, stopping, generation, remaining,
                 next, busy, jobs, errors, locals, history>>

(* worker(): the tape is made, ++ready_, notify, and the first wait, all     *)
(* before the lock is given up.                                             *)
WorkerStarts(w) ==
  /\ pc[w] = "starting"
  /\ ready' = ready + 1
  /\ owner' = DoneNotifiedOwner
  /\ pc' = [Waken(pc, Callers) EXCEPT ![w] = WaitForWork(w, 0)]
  /\ seen' = [seen EXCEPT ![w] = SeenAfterWait(w, 0)]
  /\ UNCHANGED <<spawned, startupError, stopping, generation, remaining,
                 next, busy, jobs, errors, job, result, history>>

(* worker(): making the tape throws. *)
WorkerStartFails(w) ==
  /\ pc[w] = "starting"
  /\ startupError' = TRUE
  /\ ready' = ready + 1
  /\ owner' = DoneNotifiedOwner
  /\ pc' = [Waken(pc, Callers) EXCEPT ![w] = "exited"]
  /\ UNCHANGED <<spawned, stopping, generation, remaining,
                 next, busy, jobs, errors, seen, job, result, history>>

-----------------------------------------------------------------------------
(* run() *)

(* busy_.test_and_set() *)
RunEnter(c) ==
  /\ owner = "up" /\ pc[c] = "idle" /\ generation < MaxRuns
  /\ IF busy
     THEN /\ result' = [result EXCEPT ![c] = Refused]
          /\ UNCHANGED <<busy, pc>>
     ELSE /\ busy' = TRUE
          /\ pc' = [pc EXCEPT ![c] = "setup"]
          /\ UNCHANGED result
  /\ UNCHANGED <<owner, spawned, ready, startupError, stopping, generation,
                 remaining, next, jobs, errors, seen, job, history>>

(* Fault variant: resize without the fill keeps the errors of an earlier run. *)
RunSetupUnfilled(c, n) ==
  /\ pc[c] = "setup"
  /\ jobs' = n
  /\ errors' = errors \cap (0 .. n - 1)
  /\ ran' = {} /\ threw' = {}
  /\ pc' = [pc EXCEPT ![c] = "publish"]
  /\ UNCHANGED <<owner, spawned, ready, startupError, stopping, generation,
                 remaining, next, busy, seen, job, result>>

(* errors_.resize(count), jobs_, state_, work_, and the fill: no lock held. *)
RunSetup(c, n) ==
  /\ pc[c] = "setup"
  /\ jobs' = n
  /\ errors' = {}
  /\ ran' = {} /\ threw' = {}
  /\ pc' = [pc EXCEPT ![c] = "publish"]
  /\ UNCHANGED <<owner, spawned, ready, startupError, stopping, generation,
                 remaining, next, busy, seen, job, result>>

RunPublish(c) ==
  /\ pc[c] = "publish"
  /\ next' = 0
  /\ remaining' = Cardinality(spawned)
  /\ generation' = generation + 1
  /\ pc' = [pc EXCEPT ![c] = "notify"]
  /\ UNCHANGED <<owner, spawned, ready, startupError, stopping, busy, jobs,
                 errors, seen, job, result, history>>

RunNotify(c) ==
  /\ pc[c] = "notify"
  /\ pc' = [Waken(pc, Workers) EXCEPT ![c] = "claim"]
  /\ UNCHANGED <<owner, spawned, ready, startupError, stopping, generation,
                 remaining, next, busy, jobs, errors, seen, job, result,
                 history>>

(* Fault variant: the loop's test is off by one. *)
ClaimPastEnd(t) ==
  /\ pc[t] = "claim"
  /\ next' = next + 1
  /\ job' = [job EXCEPT ![t] = next]
  /\ pc' = [pc EXCEPT ![t] = IF next <= jobs THEN "work"
                             ELSE IF t \in Workers THEN "finish" ELSE "await"]
  /\ UNCHANGED <<owner, spawned, ready, startupError, stopping, generation,
                 remaining, busy, jobs, errors, seen, result, history>>

(* consume(): i = next_.fetch_add(1), and the loop's test. *)
Claim(t) ==
  /\ pc[t] = "claim"
  /\ next' = next + 1
  /\ job' = [job EXCEPT ![t] = next]
  /\ pc' = [pc EXCEPT ![t] = IF next < jobs THEN "work"
                             ELSE IF t \in Workers THEN "finish" ELSE "await"]
  /\ UNCHANGED <<owner, spawned, ready, startupError, stopping, generation,
                 remaining, busy, jobs, errors, seen, result, history>>

(* consume(): work_(state_, i) returns, or throws into errors_[i]. *)
RunJob(t, ok) ==
  /\ pc[t] = "work"
  /\ ran' = ran \cup {job[t]}
  /\ errors' = IF ok THEN errors ELSE errors \cup {job[t]}
  /\ threw' = IF ok THEN threw ELSE threw \cup {job[t]}
  /\ pc' = [pc EXCEPT ![t] = "claim"]
  /\ UNCHANGED <<owner, spawned, ready, startupError, stopping, generation,
                 remaining, next, busy, jobs, seen, job, result>>

(* Fault variant: the finishing worker notifies nobody. *)
WorkerFinishesSilently(w) ==
  /\ pc[w] = "finish"
  /\ remaining' = remaining - 1
  /\ pc' = [pc EXCEPT ![w] = WaitForWork(w, seen[w])]
  /\ seen' = [seen EXCEPT ![w] = SeenAfterWait(w, seen[w])]
  /\ UNCHANGED <<owner, spawned, ready, startupError, stopping, generation,
                 next, busy, jobs, errors, job, result, history>>

(* worker(): lock, --remaining_, notify, and the next wait under that lock. *)
WorkerFinishes(w) ==
  /\ pc[w] = "finish"
  /\ remaining' = remaining - 1
  /\ owner' = DoneNotifiedOwner
  /\ pc' = [Waken(pc, Callers) EXCEPT ![w] = WaitForWork(w, seen[w])]
  /\ seen' = [seen EXCEPT ![w] = SeenAfterWait(w, seen[w])]
  /\ UNCHANGED <<spawned, ready, startupError, stopping, generation,
                 next, busy, jobs, errors, job, result, history>>

(* worker(): a woken worker takes the lock and evaluates the predicate. *)
WorkerWakes(w) ==
  /\ w \in Workers /\ pc[w] = "woken"
  /\ pc' = [pc EXCEPT ![w] = WaitForWork(w, seen[w])]
  /\ seen' = [seen EXCEPT ![w] = SeenAfterWait(w, seen[w])]
  /\ UNCHANGED <<owner, spawned, ready, startupError, stopping, generation,
                 remaining, next, busy, jobs, errors, job, result, history>>

(* Fault variant: run() waits for the cursor, not for the workers. *)
RunAwaitCursor(c) ==
  /\ c \in Callers /\ pc[c] \in {"await", "woken"}
  /\ pc' = [pc EXCEPT ![c] = IF next >= jobs THEN "collect" ELSE "asleep"]
  /\ UNCHANGED <<owner, spawned, ready, startupError, stopping, generation,
                 remaining, next, busy, jobs, errors, seen, job, result,
                 history>>

(* run(): done_.wait(remaining_ == 0). *)
RunAwait(c) ==
  /\ c \in Callers /\ pc[c] \in {"await", "woken"}
  /\ pc' = [pc EXCEPT ![c] = IF remaining = 0 THEN "collect" ELSE "asleep"]
  /\ UNCHANGED <<owner, spawned, ready, startupError, stopping, generation,
                 remaining, next, busy, jobs, errors, seen, job, result,
                 history>>

(* run(): rethrow the first error in index order; Release clears busy_. *)
RunCollect(c) ==
  /\ pc[c] = "collect"
  /\ \/ errors = {} /\ result' = [result EXCEPT ![c] = Ok]
     \/ \E i \in errors : /\ \A j \in errors : i <= j
                          /\ result' = [result EXCEPT ![c] = Error(i)]
  /\ busy' = FALSE
  /\ pc' = [pc EXCEPT ![c] = "idle"]
  /\ UNCHANGED <<owner, spawned, ready, startupError, stopping, generation,
                 remaining, next, jobs, errors, seen, job, history>>

-----------------------------------------------------------------------------
(* Destruction: ~Impl, which the language allows only outside run(). *)

Destroy ==
  /\ owner = "up" /\ \A c \in Callers : pc[c] = "idle"
  /\ owner' = "stop"
  /\ UNCHANGED <<spawned, ready, startupError, stopping, generation, remaining,
                 next, busy, jobs, errors, locals, history>>

StopSet ==
  /\ owner = "stop"
  /\ stopping' = TRUE
  /\ owner' = "stopNotify"
  /\ UNCHANGED <<spawned, ready, startupError, generation, remaining, next,
                 busy, jobs, errors, locals, history>>

StopNotify ==
  /\ owner = "stopNotify"
  /\ pc' = Waken(pc, Workers)
  /\ owner' = "join"
  /\ UNCHANGED <<spawned, ready, startupError, stopping, generation, remaining,
                 next, busy, jobs, errors, seen, job, result, history>>

Join ==
  /\ owner = "join" /\ \A w \in spawned : pc[w] = "exited"
  /\ owner' = "gone"
  /\ UNCHANGED <<spawned, ready, startupError, stopping, generation, remaining,
                 next, busy, jobs, errors, locals, history>>

-----------------------------------------------------------------------------
(* A condition variable may wake a sleeper that nobody notified. *)
SpuriousWake ==
  /\ \/ /\ owner = "asleep" /\ owner' = "woken" /\ UNCHANGED pc
     \/ /\ \E t \in Threads : /\ pc[t] = "asleep"
                              /\ pc' = [pc EXCEPT ![t] = "woken"]
        /\ UNCHANGED owner
  /\ UNCHANGED <<spawned, ready, startupError, stopping, generation, remaining,
                 next, busy, jobs, errors, seen, job, result, history>>

OwnerStep == \/ SpawnFails \/ AllSpawned \/ AwaitReady
             \/ StopSet \/ StopNotify \/ Join
             \/ \E w \in Workers : Spawn(w)
Consume(t) == Claim(t) \/ \E ok \in BOOLEAN : RunJob(t, ok)
WorkerStep(w) == \/ WorkerStarts(w) \/ WorkerStartFails(w) \/ Consume(w)
                 \/ WorkerFinishes(w) \/ WorkerWakes(w)
CallerStep(c) == \/ \E n \in Counts : RunSetup(c, n)
                 \/ RunPublish(c) \/ RunNotify(c) \/ Consume(c)
                 \/ RunAwait(c) \/ RunCollect(c)

Next == \/ OwnerStep \/ Destroy \/ SpuriousWake
        \/ \E w \in Workers : WorkerStep(w)
        \/ \E c \in Callers : RunEnter(c) \/ CallerStep(c)

Spec == Init /\ [][Next]_vars

(* Every thread that can step does so: mu_ is held for finitely many steps.  *)
(* Nothing makes a caller call run() or the owner destroy the context, and   *)
(* no spurious wakeup is relied on.                                         *)
Fairness == /\ WF_vars(OwnerStep)
            /\ \A w \in Workers : WF_vars(WorkerStep(w))
            /\ \A c \in Callers : WF_vars(CallerStep(c))

FairSpec == Spec /\ Fairness

-----------------------------------------------------------------------------
Consuming(t) == pc[t] \in {"claim", "work"}

(* run() writes jobs_, state_, work_ and errors_ without mu_.  No thread is  *)
(* inside consume(), which reads them, while it does.                       *)
SetupExclusive ==
  \A c \in Callers : pc[c] \in {"setup", "publish"} =>
    \A t \in Threads : ~Consuming(t) /\ pc[t] # "finish"

(* consume(): within one run no index is worked twice, by two threads at     *)
(* once or one after the other, and only indexes below jobs_ are worked.    *)
JobsDisjoint ==
  \A t \in Threads : pc[t] = "work" =>
    /\ job[t] < jobs /\ job[t] \notin ran
    /\ \A u \in Threads : pc[u] = "work" /\ job[u] = job[t] => u = t

(* run() returns or rethrows only once every index below jobs_ was worked    *)
(* and nobody is still working; remaining_, an unsigned counter, never goes  *)
(* below zero on the way.                                                   *)
AllJobsDone ==
  /\ TypeOK
  /\ \A c \in Callers : pc[c] = "collect" =>
       /\ ran = 0 .. jobs - 1
       /\ \A t \in Threads : ~Consuming(t)

(* run() reports the exception of the least failing index of this very run,  *)
(* whichever thread met it and in whatever order.                           *)
LeastErrorReported ==
  [][\A c \in Callers : (pc[c] = "collect" /\ pc'[c] = "idle") =>
       IF threw = {} THEN result'[c] = Ok
       ELSE /\ result'[c].kind = "error"
            /\ result'[c].at \in threw
            /\ \A j \in threw : result'[c].at <= j]_vars

(* The constructor returns only with every worker running on its own tape;   *)
(* when it throws, and after the destructor, no worker thread is left.      *)
TeamLifetime ==
  /\ owner = "up" => /\ spawned = Workers /\ ~startupError
                     /\ \A w \in Workers :
                          pc[w] \notin {"unborn", "starting", "exited"}
  /\ owner = "gone" => \A w \in Workers : pc[w] \in {"unborn", "exited"}

(* Every call on the team ends, no wakeup being lost between the team and    *)
(* its callers: an accepted run(), the constructor, with the team up or the  *)
(* workers joined, and the destructor.                                      *)
CallsEnd ==
  /\ \A c \in Callers : (pc[c] = "setup") ~> (pc[c] = "idle")
  /\ (owner = "spawn") ~> (owner \in {"up", "gone"})
  /\ (owner = "stop") ~> (owner = "gone")
-----------------------------------------------------------------------------
(* The team implements the batch contract of ReduceBatch. *)
InRun(c) == pc[c] # "idle"

Opened(c) == pc[c] \notin {"idle", "setup"}

Batch == INSTANCE ReduceBatch WITH
  holder  <- IF \E c \in Callers : InRun(c)
             THEN CHOOSE c \in Callers : InRun(c) ELSE NoCaller,
  open    <- \E c \in Callers : Opened(c),
  todo    <- (0 .. jobs - 1) \ ran,
  failed  <- threw,
  outcome <- result

(* Every behaviour of the team is one of the serial batch: one holder, each  *)
(* job once, and the verdict a serial loop over the failures would give.     *)
ImplementsBatch == Batch!Spec
=============================================================================

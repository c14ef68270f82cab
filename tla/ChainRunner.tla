----------------------------- MODULE ChainRunner -----------------------------
(***************************************************************************)
(* Sampling several chains: run_nuts_chains and the transition loop of     *)
(* run_nuts_with (runtime/src/nuts.cpp), called and copied out by          *)
(* stanli_sample_multi_metric (runtime/src/capi.cpp).                      *)
(*                                                                         *)
(* With one thread the caller (Main) runs the chains itself; otherwise     *)
(* worker threads claim chains from a shared cursor while the caller polls *)
(* for an interrupt and delivers their progress events.  A draw is named   *)
(* by the transition that made it.                                         *)
(***************************************************************************)
EXTENDS Integers, Sequences, FiniteSets

CONSTANTS Workers, Main,
          NChains,
          Sizes,                            \* warmup, samples and thin that are asked for
          IntMax,                           \* the largest int
          Refresh,                          \* progress_refresh
          None                              \* no chain

(* What stanli_sample_opts_check lets through: nothing relates the options  *)
(* to one another.                                                         *)
ASSUME SizesAssumption ==
  /\ NChains \in Nat \ {0} /\ Refresh \in Nat /\ IntMax \in Nat \ {0}
  /\ Sizes \subseteq (0 .. IntMax) \X (0 .. IntMax) \X (1 .. IntMax)
ASSUME WorkersAssumption == IsFiniteSet(Workers) /\ Main \notin Workers
ASSUME NoneAssumption == None \notin Int

Chains == 0 .. NChains - 1
Runners == Workers \cup {Main}
Transitions == {"warmup", "sampling"} \X Nat
Event == Chains \X Transitions

Options ==
  {o \in [warmup : 0 .. IntMax, samples : 0 .. IntMax, thin : 1 .. IntMax,
          saveWarmup : BOOLEAN,
          threads : 1 .. Cardinality(Workers),
          progress : BOOLEAN, poll : BOOLEAN]
     : <<o.warmup, o.samples, o.thin>> \in Sizes}

VARIABLES
  opts,        \* what the caller asked for
  at,          \* where the caller is
  next,        \* the shared cursor
  pc, job,     \* where a runner is, and its chain
  phase, iter, \* of each chain: which loop, and its index
  rows, stored,\* draws and the row counter of run_nuts_with
  interrupted, \* SamplingReport::interrupted of each chain
  stop,
  events, live, event,    \* progress_events, live_workers, the popped event
  progressError,
  values, draws,          \* the caller's buffers: row -> transition
  result,                 \* what the C API returns
  owed,                   \* history: the events raised and not yet observed
  ordered                 \* history: the observer was called with the oldest

chain == <<phase, iter, rows, stored, interrupted>>
queue == <<events, live, event, progressError, owed, ordered>>
buffers == <<values, draws, result>>
vars == <<opts, at, next, pc, job, chain, stop, queue, buffers>>

TypeOK ==
  /\ opts \in Options
  /\ at \in {"begin", "spawn", "loop", "poll", "wait", "observe", "join",
             "rethrow", "copy", "returned", "threw", "terminated"}
  /\ next \in Nat
  /\ pc \in [Runners -> {"unborn", "claim", "init", "check", "step", "report",
                         "leave", "exited"}]
  /\ job \in [Runners -> Chains \cup {None}]
  /\ phase \in [Chains -> {"todo", "init", "warmup", "sampling", "done",
                           "failed"}]
  /\ iter \in [Chains -> Nat]
  /\ rows \in [Chains -> Seq(Transitions)] /\ stored \in [Chains -> Nat]
  /\ interrupted \in [Chains -> BOOLEAN]
  /\ stop \in BOOLEAN /\ progressError \in BOOLEAN
  /\ events \in Seq(Event) /\ event \in Seq(Event)
  /\ live \in 0 .. Cardinality(Workers)
  /\ values \in [Chains -> Seq(Transitions)]
  /\ draws \in [Chains -> Seq(Transitions)]
  /\ result \in [failed : 0 .. NChains, interrupted : BOOLEAN]
  /\ owed \in Seq(Event) /\ ordered \in BOOLEAN

Init ==
  /\ opts \in Options
  /\ at = "begin" /\ next = 0
  /\ pc = [r \in Runners |-> "unborn"] /\ job = [r \in Runners |-> None]
  /\ phase = [c \in Chains |-> "todo"] /\ iter = [c \in Chains |-> 0]
  /\ rows = [c \in Chains |-> <<>>] /\ stored = [c \in Chains |-> 0]
  /\ interrupted = [c \in Chains |-> FALSE]
  /\ stop = FALSE
  /\ events = <<>> /\ live = 0 /\ event = <<>> /\ progressError = FALSE
  /\ values = [c \in Chains |-> <<>>] /\ draws = [c \in Chains |-> <<>>]
  /\ result = [failed |-> 0, interrupted |-> FALSE]
  /\ owed = <<>> /\ ordered = TRUE

Goto(r, l) == pc' = [pc EXCEPT ![r] = l]

(* The thread count, clamped to the chains there are. *)
Threads == IF opts.threads > NChains THEN NChains ELSE opts.threads

-----------------------------------------------------------------------------
(* The rows of a chain. *)

(* What the transition loops keep. *)
Keep(warm, i) == (warm => opts.saveWarmup) /\ i % opts.thin = 0

(* Fault variant: the division rounds down. *)
FloorDiv(a, b) == a \div b

(* An int sum of two ints: an overflow wraps, and the division rounds        *)
(* toward zero.                                                             *)
IntOf(x) == IF x <= IntMax THEN x ELSE x - 2 * (IntMax + 1)
Quotient(a, b) == IF a >= 0 THEN a \div b ELSE -((-a) \div b)

(* (a + b - 1) / b, in int. *)
CeilDiv(a, b) == Quotient(IntOf(a + b - 1), b)

(* stanli_n_stored_draws *)
NStored == CeilDiv(opts.samples, opts.thin)
           + IF opts.saveWarmup THEN CeilDiv(opts.warmup, opts.thin) ELSE 0

(* should_report_progress *)
ShouldReport(warm, i) ==
  /\ Refresh > 0
  /\ \/ i + 1 = 1
     \/ i + 1 = (IF warm THEN opts.warmup ELSE opts.samples)
     \/ (i + 1) % Refresh = 0

-----------------------------------------------------------------------------
(* The calling thread. *)

(* run_nuts_chains up to the pool: one poll, so that a stop that is already  *)
(* pending is seen by every chain ahead of its first transition.            *)
Begin ==
  /\ at = "begin"
  /\ IF Threads <= 1
     THEN /\ at' = "loop" /\ Goto(Main, "claim")
          /\ UNCHANGED <<stop, live>>
     ELSE /\ stop' \in (IF opts.poll THEN BOOLEAN ELSE {FALSE})
          /\ live' = Threads
          /\ at' = "spawn"
          /\ UNCHANGED pc
  /\ UNCHANGED <<opts, next, job, chain, events, event, progressError, owed,
                 ordered, buffers>>

Born == {w \in Workers : pc[w] # "unborn"}

(* The pool's next thread. *)
Spawn ==
  /\ at = "spawn" /\ Cardinality(Born) < Threads
  /\ Goto(CHOOSE w \in Workers : pc[w] = "unborn", "claim")
  /\ UNCHANGED <<opts, at, next, job, chain, stop, queue, buffers>>

(* A thread that cannot be created unwinds through the pool: its threads are *)
(* joinable, so the process terminates, and they with it, unless there are   *)
(* none yet.                                                                *)
SpawnFails ==
  /\ at = "spawn" /\ Cardinality(Born) < Threads
  /\ at' = IF Born = {} THEN "threw" ELSE "terminated"
  /\ pc' = [r \in Runners |-> "exited"]
  /\ UNCHANGED <<opts, next, job, chain, stop, queue, buffers>>

Spawned ==
  /\ at = "spawn" /\ Cardinality(Born) = Threads
  /\ at' = IF opts.progress \/ opts.poll THEN "poll" ELSE "join"
  /\ UNCHANGED <<opts, next, pc, job, chain, stop, queue, buffers>>

(* maybe_poll: asks, when it is time, unless the stop is already set. *)
Poll ==
  /\ at = "poll"
  /\ stop' \in (IF opts.poll THEN {stop, TRUE} ELSE {stop})
  /\ at' = "wait"
  /\ UNCHANGED <<opts, next, pc, job, chain, queue, buffers>>

(* Fault variant: the loop ends with the workers, whatever is queued. *)
WaitLeavesEvents ==
  /\ at = "wait"
  /\ IF live = 0 THEN at' = "join" /\ UNCHANGED <<events, event>>
     ELSE IF events = <<>> THEN at' = "poll" /\ UNCHANGED <<events, event>>
     ELSE /\ event' = <<Head(events)>> /\ events' = Tail(events)
          /\ at' = "observe"
  /\ UNCHANGED <<opts, next, pc, job, chain, stop, live, progressError, owed,
                 ordered, buffers>>

(* Fault variant: the newest event is taken. *)
WaitTakesNewest ==
  /\ at = "wait"
  /\ IF events # <<>>
     THEN /\ event' = <<events[Len(events)]>>
          /\ events' = SubSeq(events, 1, Len(events) - 1)
          /\ at' = "observe"
     ELSE /\ at' = IF live = 0 THEN "join" ELSE "poll"
          /\ UNCHANGED <<events, event>>
  /\ UNCHANGED <<opts, next, pc, job, chain, stop, live, progressError, owed,
                 ordered, buffers>>

(* wait_for returns, on its predicate or on the period, and the caller pops  *)
(* an event, leaves when everyone has left, or goes round again.            *)
Wait ==
  /\ at = "wait"
  /\ IF events # <<>>
     THEN /\ event' = <<Head(events)>> /\ events' = Tail(events)
          /\ at' = "observe"
     ELSE /\ at' = IF live = 0 THEN "join" ELSE "poll"
          /\ UNCHANGED <<events, event>>
  /\ UNCHANGED <<opts, next, pc, job, chain, stop, live, progressError, owed,
                 ordered, buffers>>

(* The observer, called with e when the events of q are owed to it; it may  *)
(* throw.                                                                   *)
CallObserver(e, q) ==
  /\ ordered' = (ordered /\ q # <<>> /\ Head(q) = e)
  /\ owed' = IF q = <<>> THEN q ELSE Tail(q)
  /\ progressError' \in BOOLEAN

(* The popped event goes to the observer; once that threw, events are        *)
(* discarded.                                                               *)
Observe ==
  /\ at = "observe"
  /\ IF progressError THEN UNCHANGED <<progressError, owed, ordered>>
     ELSE CallObserver(event[1], owed)
  /\ event' = <<>>
  /\ at' = "poll"
  /\ UNCHANGED <<opts, next, pc, job, chain, stop, events, live, buffers>>

(* Fault variant: the threads are not joined. *)
JoinNobody ==
  /\ at = "join"
  /\ at' = "rethrow"
  /\ UNCHANGED <<opts, next, pc, job, chain, stop, queue, buffers>>

Join ==
  /\ at = "join" /\ \A w \in Born : pc[w] = "exited"
  /\ at' = "rethrow"
  /\ UNCHANGED <<opts, next, pc, job, chain, stop, queue, buffers>>

Rethrow ==
  /\ at = "rethrow"
  /\ at' = IF progressError THEN "threw" ELSE "copy"
  /\ UNCHANGED <<opts, next, pc, job, chain, stop, queue, buffers>>

Failed == {c \in Chains : phase[c] = "failed"}
Least(a, b) == IF a < b THEN a ELSE b

(* stanli_sample_multi_metric copies the rows of the chains that did not     *)
(* fail.  The statistics rows go with them.                                 *)
CopyOut ==
  /\ at = "copy"
  /\ draws' = [c \in Chains |->
                 IF c \in Failed THEN draws[c]
                 ELSE SubSeq(rows[c], 1, Least(Len(rows[c]), NStored))]
  /\ result' = [failed |-> Cardinality(Failed),
                interrupted |-> \E c \in Chains : interrupted[c]]
  /\ at' = "returned"
  /\ UNCHANGED <<opts, next, pc, job, chain, stop, queue, values>>

-----------------------------------------------------------------------------
(* A runner: a worker, or the caller when there is one thread. *)

(* Claims the next chain, or leaves the loop over the chains. *)
Claim(r) ==
  /\ pc[r] = "claim"
  /\ next' = next + 1
  /\ IF next < NChains
     THEN /\ job' = [job EXCEPT ![r] = next]
          /\ phase' = [phase EXCEPT ![next] = "init"]
          /\ Goto(r, "init")
          /\ UNCHANGED at
     ELSE /\ job' = [job EXCEPT ![r] = None]
          /\ Goto(r, IF r = Main THEN "exited" ELSE "leave")
          /\ at' = IF r = Main THEN "rethrow" ELSE at
          /\ UNCHANGED phase
  /\ UNCHANGED <<opts, iter, rows, stored, interrupted, stop, queue, buffers>>

(* run_nuts_with returns or throws: its loop index and row counter are gone. *)
LocalsEnd(c) ==
  iter' = [iter EXCEPT ![c] = 0] /\ stored' = [stored EXCEPT ![c] = 0]

(* A chain that throws records its message and leaves its draws empty; the   *)
(* runner goes on to the next.                                              *)
ChainThrows(r) ==
  /\ phase' = [phase EXCEPT ![job[r]] = "failed"]
  /\ rows' = [rows EXCEPT ![job[r]] = <<>>]
  /\ LocalsEnd(job[r])
  /\ Goto(r, "claim")

(* run_nuts_with up to its loops: the initial point, the step size. *)
InitChain(r) ==
  /\ pc[r] = "init"
  /\ \/ ChainThrows(r)
     \/ /\ phase' = [phase EXCEPT ![job[r]] = "warmup"]
        /\ Goto(r, "check")
        /\ UNCHANGED <<iter, rows, stored>>
  /\ UNCHANGED <<opts, at, next, job, interrupted, stop, queue, buffers>>

LoopEnd(c) ==
  iter[c] = IF phase[c] = "warmup" THEN opts.warmup ELSE opts.samples

(* A loop is over: sampling follows warmup, and run_nuts_with returns. *)
NextLoop(r) ==
  LET c == job[r]
  IN /\ pc[r] = "check" /\ LoopEnd(c)
     /\ IF phase[c] = "warmup"
        THEN /\ phase' = [phase EXCEPT ![c] = "sampling"]
             /\ iter' = [iter EXCEPT ![c] = 0]
             /\ UNCHANGED <<pc, stored>>
        ELSE /\ phase' = [phase EXCEPT ![c] = "done"]
             /\ LocalsEnd(c)
             /\ Goto(r, "claim")
     /\ UNCHANGED <<opts, at, next, job, rows, interrupted, stop, queue,
                    buffers>>

(* stopping(): the flag, or on the calling thread the answer of poll.  A     *)
(* chain that stops leaves both loops and returns the rows it has.          *)
Check(r, answer) ==
  LET c == job[r]
  IN /\ pc[r] = "check" /\ ~LoopEnd(c)
     /\ answer => opts.poll /\ r = Main /\ ~stop
     /\ stop' = (stop \/ answer)
     /\ IF stop \/ answer
        THEN /\ interrupted' = [interrupted EXCEPT ![c] = TRUE]
             /\ phase' = [phase EXCEPT ![c] = "done"]
             /\ LocalsEnd(c)
             /\ Goto(r, "claim")
        ELSE /\ Goto(r, "step")
             /\ UNCHANGED <<phase, iter, stored, interrupted>>
     /\ UNCHANGED <<opts, at, next, job, rows, queue, buffers>>

Here(c) == <<phase[c], iter[c]>>

(* step: a transition that is not kept. *)
Step(r) ==
  /\ pc[r] = "step" /\ ~Keep(phase[job[r]] = "warmup", iter[job[r]])
  /\ Goto(r, "report")
  /\ UNCHANGED <<opts, at, next, job, chain, stop, queue, buffers>>

(* step: a kept transition; the writer fills row `stored` of the caller's    *)
(* buffer for this draw (with NaN when the model rejects it).               *)
StepStores(r) ==
  LET c == job[r]
  IN /\ pc[r] = "step" /\ Keep(phase[c] = "warmup", iter[c])
     /\ rows' = [rows EXCEPT ![c] = Append(@, Here(c))]
     /\ values' = IF stored[c] >= NStored THEN values
                  ELSE [values EXCEPT ![c] =
                          [k \in 1 .. stored[c] + 1 |->
                             IF k = stored[c] + 1 THEN Here(c) ELSE @[k]]]
     /\ stored' = [stored EXCEPT ![c] = @ + 1]
     /\ Goto(r, "report")
     /\ UNCHANGED <<opts, at, next, job, phase, iter, interrupted, stop, queue,
                    draws, result>>

(* step throws: in the transition, or in write_array before the row counts. *)
StepThrows(r) ==
  /\ pc[r] = "step"
  /\ ChainThrows(r)
  /\ UNCHANGED <<opts, at, next, job, interrupted, stop, queue, buffers>>

(* step's end: the progress observer, then the loop's increment.  A worker   *)
(* enqueues the event; the caller's own chains report directly.             *)
Report(r) ==
  LET c == job[r]
      e == <<c, Here(c)>>
      due == opts.progress /\ ShouldReport(phase[c] = "warmup", iter[c])
  IN /\ pc[r] = "report"
     /\ IF ~due \/ (r = Main /\ progressError)
        THEN UNCHANGED <<events, progressError, owed, ordered>>
        ELSE IF r = Main
        THEN CallObserver(e, Append(owed, e)) /\ UNCHANGED events
        ELSE /\ events' = Append(events, e) /\ owed' = Append(owed, e)
             /\ UNCHANGED <<progressError, ordered>>
     /\ iter' = [iter EXCEPT ![c] = @ + 1]
     /\ Goto(r, "check")
     /\ UNCHANGED <<opts, at, next, job, phase, rows, stored, interrupted, stop,
                    live, event, buffers>>

(* Fault variant: the worker that finds the queue empty counts itself out    *)
(* twice, or not at all.                                                    *)
LeaveUncounted(w) ==
  /\ pc[w] = "leave"
  /\ live' = IF events = <<>> THEN live ELSE live - 1
  /\ Goto(w, "exited")
  /\ UNCHANGED <<opts, at, next, job, chain, stop, events, event, progressError,
                 owed, ordered, buffers>>

(* A worker that has run out of chains. *)
Leave(w) ==
  /\ pc[w] = "leave"
  /\ live' = live - 1
  /\ Goto(w, "exited")
  /\ UNCHANGED <<opts, at, next, job, chain, stop, events, event, progressError,
                 owed, ordered, buffers>>

Caller == \/ Begin \/ Spawn \/ Spawned \/ Poll \/ Wait \/ Observe \/ Join
          \/ Rethrow \/ CopyOut
Runner(r) == \/ Claim(r) \/ InitChain(r) \/ NextLoop(r)
             \/ \E answer \in BOOLEAN : Check(r, answer)
             \/ Step(r) \/ StepStores(r) \/ StepThrows(r) \/ Report(r)
             \/ Leave(r)

Next == SpawnFails \/ Caller \/ \E r \in Runners : Runner(r)

Spec == Init /\ [][Next]_vars
FairSpec == Spec /\ WF_vars(Caller) /\ \A r \in Runners : WF_vars(Runner(r))

-----------------------------------------------------------------------------
Ended == at \in {"returned", "threw", "terminated"}

(* A chain is sampled by one runner, and the call is not left, by return or  *)
(* by exception, while a runner is alive or a chain is unfinished: run_one   *)
(* writes the results and executors of that frame.                          *)
ChainsAccounted ==
  /\ TypeOK
  /\ \A r, s \in Runners : job[r] = job[s] /\ job[r] # None => r = s
  /\ at \in {"rethrow", "copy", "returned"} =>
       /\ \A r \in Runners : pc[r] \in {"unborn", "exited"}
       /\ \A c \in Chains : phase[c] \in {"done", "failed"}
  /\ at = "threw" => \A r \in Runners : pc[r] \in {"unborn", "exited"}

(* The transitions a chain that runs to its end keeps, in order. *)
AllKept ==
  LET Of(l, n) == {<<l, i>> : i \in {j \in 0 .. n - 1 : Keep(l = "warmup", j)}}
  IN Of("warmup", opts.warmup) \cup Of("sampling", opts.samples)
Earlier(s, t) == \/ s[1] = "warmup" /\ t[1] = "sampling"
                 \/ s[1] = t[1] /\ s[2] < t[2]

(* No sum of stanli_n_stored_draws leaves the range of an int.  Nothing in   *)
(* the check of the options sees to it; where one does, the function         *)
(* announces fewer rows than are kept, and the rest is dropped.              *)
SizesFit ==
  /\ opts.samples + opts.thin <= IntMax
  /\ opts.saveWarmup => opts.warmup + opts.thin <= IntMax

(* capi.h:246 of stanli_n_stored_draws: "Stored rows per chain under these    *)
(* options.  This is what `draws` and `stats` must be sized against".  What   *)
(* is announced is what a chain that runs to its end keeps, and the caller    *)
(* gets all of it.                                                            *)
StoredRowsAnnounced ==
  at = "returned" =>
    /\ Cardinality(AllKept) = NStored
    /\ \A c \in Chains :
         c \notin Failed /\ ~interrupted[c] => Len(draws[c]) = Cardinality(AllKept)

(* A chain that failed leaves the caller's draws alone; any other holds the  *)
(* first kept transitions, in order, and, where the announced size is        *)
(* computed without an overflow, all of them unless it was interrupted.      *)
(* "chain-major exactly like `draws`": row k of the output values was        *)
(* written from draw k.                                                     *)
DrawsComplete ==
  /\ SizesFit => StoredRowsAnnounced
  /\ at = "returned" =>
       \A c \in Chains :
         IF c \in Failed THEN draws[c] = <<>>
         ELSE /\ \A k \in DOMAIN draws[c] :
                   LET d == draws[c][k]
                       before == {t \in AllKept : Earlier(t, d)}
                   IN d \in AllKept /\ Cardinality(before) = k - 1
              /\ values[c] = draws[c]

(* The observer is called with each event in the order they were raised, and *)
(* the caller's loop ends with the queue drained: unless the observer threw, *)
(* it has seen every event when the call returns.                           *)
ProgressDelivered ==
  /\ ordered
  /\ at \in {"join", "copy", "returned"} /\ ~progressError => owed = <<>>

(* The call ends, whatever fails and whenever it is interrupted. *)
CallEnds == <>Ended
=============================================================================

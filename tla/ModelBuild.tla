----------------------------- MODULE ModelBuild -----------------------------
(***************************************************************************)
(* From Stan source to a compiled model: the embedded stanc3 bridge that   *)
(* client threads share, the compiler process that a tool may use instead, *)
(* the reader and the large-stack runner, and compile_model with the       *)
(* write-array lowering it may run on a thread of its own beside the       *)
(* log-density lowering.                                                   *)
(*                                                                         *)
(* A client makes calls one after another.  A call translates a source and *)
(* lowers the program that comes of it, for the clients that build.  A     *)
(* program is what the control of the build can tell apart: how deeply it  *)
(* nests, whether its transformed data runs, whether the bounded           *)
(* specialization takes or refuses it, whether its log density lowers,     *)
(* what its generated quantities come to, and whether it transforms inits. *)
(***************************************************************************)
EXTENDS CompilerProcess, Sequences

CONSTANTS
  Clients,      \* threads that call into the library
  Builders,     \* the clients that also build a model from what they translate
  Tools,        \* the clients that may run a compiler process
  Programs,     \* what a translation may yield
  InlineLimit,  \* nesting levels read and lowered on a client's own stack
  StackLimits,  \* levels each large stack holds, in the order the sizes are tried
  MaxCalls,     \* bound: calls made by a client
  NoClient

ASSUME BuildAssumption ==
  /\ Builders \subseteq Clients /\ Tools \subseteq Builders
  /\ NoClient \notin Clients
  /\ InlineLimit \in Nat \ {0}
  /\ StackLimits \in Seq(Nat \ {0}) /\ StackLimits # <<>>
  /\ \A i \in 1 .. Len(StackLimits) : StackLimits[i] <= StackLimits[1]

ASSUME ProgramsAssumption ==
  \A p \in Programs :
    /\ p.nesting \in Nat /\ {p.prepare, p.strict, p.inits} \subseteq BOOLEAN
    /\ p.gq \in {"none", "whole", "partial", "misaligned", "throws"}

VARIABLES
  compile_mutex,   \* the client inside stanli_stanc_compile
  startup_once,    \* caml_startup has been called
  startup_thread,  \* the client that called it
  runtime,         \* the client that holds the OCaml runtime lock
  registered,      \* clients registered with the OCaml runtime
  b                \* what each client's call has come to

bridge == <<compile_mutex, startup_once, startup_thread, runtime, registered>>
vars == <<bridge, proc, b>>

-----------------------------------------------------------------------------
(* Data: the names bound in a Lowering's data environment stand for it.    *)

Prepared == {"data"}                   \* prepared_names after bind_data
AfterLogProb == Prepared \cup {"local"} \* what lowering log_prob leaves bound
Formals == {"formal"}                  \* the environment inside a user function

NoProgram == [nesting |-> 0, prepare |-> TRUE, special |-> "none", logProb |-> "ok",
              gq |-> "none", alongside |-> FALSE, strict |-> FALSE, inits |-> FALSE]

NoModel == [error |-> TRUE, write_array |-> "none", environment |-> {}]
Failed(c) == b[c].outcome.error

\* A call that has not started: no frame of compile_model, no worker.
Fresh == [pc |-> "idle", calls |-> 0, prog |-> NoProgram, limit |-> 0, job |-> "none",
          tried |-> 0, short |-> FALSE, live |-> {}, env |-> {}, bound |-> {},
          prepares |-> 0, wa |-> {}, started |-> FALSE, worker |-> "none",
          outcome |-> NoModel]

\* Client c's call comes to r.
Change(c, r) == b' = [b EXCEPT ![c] = r]
Goto(c, pc) == Change(c, [b[c] EXCEPT !.pc = pc])

\* A model that interprets generated quantities for each draw, or the inverse
\* transforms of its parameters, shares the program with compile_model; its
\* walks are then the client's, on whatever stack it calls from.
KeptBy(p, m) ==
  IF ~m.error /\ (m.write_array = "interpreter" \/ p.inits) THEN {"prog"} ELSE {}

\* The call returns, with every local of every frame gone.
Return(c, outcome) ==
  Change(c, [b[c] EXCEPT !.pc = "idle", !.calls = @ + 1, !.limit = 0, !.job = "none",
                         !.live = KeptBy(b[c].prog, outcome), !.env = {}, !.bound = {}, !.wa = {}, !.started = FALSE,
                         !.worker = "none", !.outcome = outcome])

At(c, pc) == b[c].pc = pc

-----------------------------------------------------------------------------
(* stanli_stanc_compile: one translation at a time, on a registered thread *)
(* that holds the runtime lock.                                            *)

Call(c) ==
  /\ At(c, "idle") /\ b[c].calls < MaxCalls
  /\ \/ Change(c, [Fresh EXCEPT !.pc = "lock", !.calls = b[c].calls])
     \/ Change(c, [Fresh EXCEPT !.calls = b[c].calls + 1])   \* the source is null
  /\ UNCHANGED bridge

Lock(c) ==
  /\ At(c, "lock") /\ compile_mutex = NoClient
  /\ compile_mutex' = c
  /\ Goto(c, "once")
  /\ UNCHANGED <<startup_once, startup_thread, runtime, registered>>

\* caml_startup returns holding the runtime lock.
StartOcaml(c) ==
  /\ At(c, "once") /\ ~startup_once /\ runtime = NoClient
  /\ startup_once' = TRUE /\ startup_thread' = c /\ runtime' = c
  /\ Goto(c, "started")
  /\ UNCHANGED <<compile_mutex, registered>>

\* Mutant: the runtime lock of caml_startup is kept.
KeepAfterStartup(c) ==
  /\ At(c, "started")
  /\ Goto(c, "register")
  /\ UNCHANGED bridge

ReleaseAfterStartup(c) ==
  /\ At(c, "started")
  /\ runtime' = NoClient
  /\ Goto(c, "register")
  /\ UNCHANGED <<compile_mutex, startup_once, startup_thread, registered>>

AlreadyStarted(c) ==
  /\ At(c, "once") /\ startup_once
  /\ Goto(c, "register")
  /\ UNCHANGED bridge

\* Mutant: a failed registration goes unnoticed.
RegisterThreadUnchecked(c) ==
  /\ At(c, "register") /\ runtime = NoClient
  /\ \/ registered' = registered \cup ({c} \ {startup_thread})
     \/ UNCHANGED registered
  /\ Goto(c, "acquire")
  /\ UNCHANGED <<compile_mutex, startup_once, startup_thread, runtime>>

\* The thread that started the runtime is known to it already; any other
\* registers, and registration may fail.
RegisterThread(c) ==
  /\ At(c, "register")
  /\ IF startup_thread = c
       THEN Goto(c, "acquire") /\ UNCHANGED registered
       ELSE /\ runtime = NoClient
            /\ \/ registered' = registered \cup {c} /\ Goto(c, "acquire")
               \/ /\ Change(c, [b[c] EXCEPT !.pc = "unlock", !.outcome = NoModel])
                  /\ UNCHANGED registered
  /\ UNCHANGED <<compile_mutex, startup_once, startup_thread, runtime>>

AcquireRuntime(c) ==
  /\ At(c, "acquire") /\ runtime = NoClient
  /\ runtime' = c
  /\ Goto(c, "callback")
  /\ UNCHANGED <<compile_mutex, startup_once, startup_thread, registered>>

\* The callback raises, or reports an error, or yields a program.  RuntimeLock
\* is destroyed on the way out.
InvokeCallback(c) ==
  /\ At(c, "callback")
  /\ \/ Change(c, [b[c] EXCEPT !.pc = "unregister", !.outcome = NoModel])
     \/ \E p \in IF c \in Builders THEN Programs ELSE {NoProgram} :
          Change(c, [b[c] EXCEPT !.pc = "unregister", !.prog = p,
                                 !.outcome = [NoModel EXCEPT !.error = FALSE]])
  /\ runtime' = NoClient
  /\ UNCHANGED <<compile_mutex, startup_once, startup_thread, registered>>

UnregisterThread(c) ==
  /\ At(c, "unregister")
  /\ registered' = registered \ {c}
  /\ Goto(c, "unlock")
  /\ UNCHANGED <<compile_mutex, startup_once, startup_thread, runtime>>

Unlock(c) ==
  /\ At(c, "unlock")
  /\ compile_mutex' = NoClient
  /\ IF Failed(c) \/ c \notin Builders
       THEN Return(c, b[c].outcome)
       ELSE Goto(c, "decode")
  /\ UNCHANGED <<startup_once, startup_thread, runtime, registered>>

-----------------------------------------------------------------------------
(* compile_source of the tools, where a path to a compiler was given; an   *)
(* option the compiler does not support is refused like a failed start.    *)

RunCompiler(c) ==
  /\ c \in Tools /\ At(c, "idle") /\ b[c].calls < MaxCalls
  /\ StartProcess
  /\ Change(c, [Fresh EXCEPT !.pc = "process", !.calls = b[c].calls])
  /\ UNCHANGED bridge

\* What the compiler printed is the program; anything else is an error.
CompilerRan(c) ==
  /\ At(c, "process") /\ proc.caller = "done"
  /\ proc' = NoProcess
  /\ IF proc.result = "error" THEN Return(c, NoModel)
     ELSE \E p \in Programs :
            Change(c, [b[c] EXCEPT !.pc = "decode", !.prog = p,
                                   !.outcome = [NoModel EXCEPT !.error = FALSE]])
  /\ UNCHANGED bridge

-----------------------------------------------------------------------------
(* run_on_large_stack: a helper thread of a shrinking stack size.          *)

nesting_limit(c) == IF b[c].limit # 0 THEN b[c].limit ELSE InlineLimit

\* Mutant: one level too many is lowered on the calling thread.
needs_large_stack_late(c) == b[c].limit = 0 /\ b[c].prog.nesting > InlineLimit + 1

needs_large_stack(c) == b[c].limit = 0 /\ b[c].prog.nesting > InlineLimit

RunOnLargeStack(c, job) == Change(c, [b[c] EXCEPT !.pc = "spawn", !.job = job, !.tried = 0])

\* The helper runs the job with the limit its stack size allows ...
SpawnHelper(c) ==
  /\ At(c, "spawn")
  /\ Change(c, [b[c] EXCEPT !.pc = "job", !.limit = StackLimits[b[c].tried + 1]])
  /\ UNCHANGED bridge

\* ... or cannot be started: the next smaller size is tried, and when none is
\* left NestingTooDeep is thrown and ends the call as a CompileError.
SpawnFails(c) ==
  /\ At(c, "spawn")
  /\ IF b[c].tried + 1 < Len(StackLimits)
       THEN Change(c, [b[c] EXCEPT !.tried = @ + 1, !.short = TRUE])
       ELSE Change(c, [b[c] EXCEPT !.pc = "unwind", !.short = TRUE])
  /\ UNCHANGED bridge

-----------------------------------------------------------------------------
(* decode_program and the frame of compile_model that owns the program.    *)

Fits(c) == b[c].prog.nesting <= nesting_limit(c)

\* Read inline; a program too deep for this thread is read again by a helper,
\* or on this thread when it is one already, which throws once more.
Decode(c) ==
  /\ At(c, "decode")
  /\ IF Fits(c) THEN Change(c, [b[c] EXCEPT !.pc = "decoded", !.live = {"prog"}])
     ELSE IF b[c].limit = 0 THEN RunOnLargeStack(c, "decode")
     ELSE Goto(c, "unwind")
  /\ UNCHANGED bridge

DecodeOnHelper(c) ==
  /\ At(c, "job") /\ b[c].job = "decode"
  /\ IF Fits(c) THEN Change(c, [b[c] EXCEPT !.pc = "decoded", !.live = {"prog"}, !.limit = 0])
                ELSE Change(c, [b[c] EXCEPT !.pc = "unwind", !.limit = 0])
  /\ UNCHANGED bridge

\* A program too deep for this stack is destroyed by one helper, which is a walk
\* of its own, and read and lowered by another.  The two helpers need not have
\* stacks of the size that read it first.
Decoded(c) ==
  /\ At(c, "decoded")
  /\ IF needs_large_stack(c) THEN RunOnLargeStack(c, "destroy")
                             ELSE Change(c, [b[c] EXCEPT !.pc = "prepare", !.live = @ \cup {"lo"}])
  /\ UNCHANGED bridge

DestroyOnHelper(c) ==
  /\ At(c, "job") /\ b[c].job = "destroy"
  /\ Change(c, [b[c] EXCEPT !.pc = "spawn", !.job = "compile", !.tried = 0, !.live = {},
                         !.limit = 0])
  /\ UNCHANGED bridge

CompileOnHelper(c) ==
  /\ At(c, "job") /\ b[c].job = "compile"
  /\ Goto(c, "decode")
  /\ UNCHANGED bridge

-----------------------------------------------------------------------------
(* WriteArrayLowering and LowerWorker.                                     *)

ShouldRunAlongside(p) == p.alongside /\ p.nesting <= InlineLimit

\* What run_write_array makes of the section from the environment it is given:
\* it throws, or lowers all of it, or stops short or disagrees with log_prob on
\* the length of a draw.
LowerWriteArray(p, env) ==
  [error |-> p.gq = "throws", environment |-> env,
   write_array |-> IF p.gq = "whole" THEN "columns" ELSE "interpreter"]

\* begin: a copy of the prepared context for a worker, which may fail to
\* start; or only the names bound so far, to select from the environment later.
Begin(r) ==
  IF r.prog.gq = "none" THEN {r}
  ELSE IF ShouldRunAlongside(r.prog)
    THEN {[r EXCEPT !.live = @ \cup {"wa"}, !.wa = r.env \cap Prepared, !.started = started,
                    !.worker = IF started THEN "running" ELSE "none"] : started \in BOOLEAN}
    ELSE {[r EXCEPT !.live = @ \cup {"wa"}, !.bound = r.env]}

RunWorker(c) ==
  /\ b[c].worker = "running"
  /\ Change(c, [b[c] EXCEPT !.worker = IF LowerWriteArray(b[c].prog, b[c].wa).error
                                         THEN "failed" ELSE "finished"])
  /\ UNCHANGED bridge

\* Mutant: everything bound after log_prob is taken over.
WaEnvironmentWhole(c) == IF b[c].wa # {} THEN b[c].wa ELSE b[c].env

\* The environment the write-array lowering works from in the end.
WaEnvironment(c) == IF b[c].wa # {} THEN b[c].wa ELSE b[c].bound \cap b[c].env

-----------------------------------------------------------------------------
(* compile_model's own steps.                                              *)

\* bind_data: interprets transformed data, then calls after_data_prepared.
BindData(c) ==
  LET p == b[c].prog
      next == IF p.special = "none" THEN "lowering" ELSE "trial"
  IN IF ~p.prepare THEN Change(c, [b[c] EXCEPT !.pc = "unwind", !.prepares = @ + 1])
     ELSE \E begun \in Begin([b[c] EXCEPT !.pc = next, !.env = Prepared, !.prepares = @ + 1]) :
            Change(c, begun)

Prepare(c) == At(c, "prepare") /\ BindData(c) /\ UNCHANGED bridge

\* Mutant: the established path prepares the data again.
TrialRebinds(c) ==
  /\ At(c, "trial")
  /\ IF b[c].prog.special = "refused" THEN Goto(c, "prepare")
     ELSE Goto(c, IF b[c].prog.logProb = "ok" THEN "finish" ELSE "unwind")
  /\ UNCHANGED bridge

\* The bounded specialization lowers into a Lowering of its own.  Refused, the
\* established path runs on the data already prepared.
Trial(c) ==
  /\ At(c, "trial")
  /\ IF b[c].prog.special = "refused" THEN Goto(c, "lowering")
     ELSE Goto(c, IF b[c].prog.logProb = "ok" THEN "finish" ELSE "unwind")
  /\ UNCHANGED bridge

\* Lowering a call to a user function replaces the environment, and restores
\* it on every way out.
EnterFunction(c) ==
  /\ At(c, "lowering")
  /\ Change(c, [b[c] EXCEPT !.pc = "function", !.env = Formals])
  /\ UNCHANGED bridge

LeaveFunction(c) ==
  /\ At(c, "function")
  /\ Change(c, [b[c] EXCEPT !.pc = "called", !.env = Prepared])
  /\ UNCHANGED bridge

RunEnds(c) ==
  /\ At(c, "lowering") \/ At(c, "called")
  /\ IF b[c].prog.logProb = "ok" THEN Change(c, [b[c] EXCEPT !.pc = "finish", !.env = AfterLogProb])
                                 ELSE Goto(c, "unwind")
  /\ UNCHANGED bridge

\* The columns, or the per-draw interpreter over log_prob's data environment,
\* or an error when STANLI_NO_INTERPRETER forbids the interpreter.
Attach(p, w, env) ==
  IF p.gq = "none" THEN [NoModel EXCEPT !.error = FALSE]
  ELSE IF w.write_array = "columns" THEN w
  ELSE IF p.strict THEN NoModel
  ELSE [w EXCEPT !.environment = env]

\* finish: the worker is joined and its error rethrown, or the section is
\* lowered here; then the columns or the per-draw interpreter are attached.
Finish(c) ==
  /\ At(c, "finish") /\ b[c].worker # "running"
  /\ LET p == b[c].prog
         w == LowerWriteArray(p, WaEnvironment(c))
     IN IF b[c].worker = "failed" \/ w.error THEN Goto(c, "unwind")
        ELSE Return(c, Attach(p, w, b[c].env))
  /\ UNCHANGED bridge

\* Mutant: the worker is not joined.
UnwindDetached(c) ==
  /\ At(c, "unwind")
  /\ Change(c, [b[c] EXCEPT !.pc = "unwound", !.live = @ \ {"wa"}])
  /\ UNCHANGED bridge

\* An exception leaves compile_model: WriteArrayLowering goes first, and its
\* worker, the last member, is joined before anything the worker reads is gone.
UnwindWorker(c) ==
  /\ At(c, "unwind") /\ b[c].worker # "running"
  /\ Change(c, [b[c] EXCEPT !.pc = "unwound", !.live = @ \ {"wa"}])
  /\ UNCHANGED bridge

\* Last goes the program, if there is one, on the stack of this frame: also when
\* it is too deep for that and no helper could be started to destroy it.
UnwindFrame(c) ==
  /\ At(c, "unwound")
  /\ Return(c, NoModel)
  /\ UNCHANGED bridge

\* The client destroys a model that shares the program, and with it the program.
FreeModel(c) ==
  /\ At(c, "idle") /\ "prog" \in b[c].live
  /\ Change(c, [b[c] EXCEPT !.live = {}])
  /\ UNCHANGED bridge

-----------------------------------------------------------------------------
Init ==
  /\ compile_mutex = NoClient /\ startup_once = FALSE /\ startup_thread = NoClient
  /\ runtime = NoClient /\ registered = {}
  /\ proc = NoProcess
  /\ b = [c \in Clients |-> Fresh]

Translate(c) ==
  \/ Call(c) \/ Lock(c) \/ StartOcaml(c) \/ ReleaseAfterStartup(c) \/ AlreadyStarted(c)
  \/ RegisterThread(c) \/ AcquireRuntime(c) \/ InvokeCallback(c) \/ UnregisterThread(c)
  \/ Unlock(c)

CompileModel(c) ==
  \/ SpawnHelper(c) \/ SpawnFails(c) \/ Decode(c) \/ DecodeOnHelper(c) \/ Decoded(c)
  \/ DestroyOnHelper(c) \/ CompileOnHelper(c) \/ Prepare(c) \/ Trial(c)
  \/ EnterFunction(c) \/ LeaveFunction(c) \/ RunEnds(c) \/ Finish(c)
  \/ UnwindWorker(c) \/ UnwindFrame(c)

Next ==
  \/ \E c \in Clients : /\ Translate(c) \/ CompileModel(c) \/ RunWorker(c) \/ FreeModel(c)
                       /\ UNCHANGED proc
  \/ \E c \in Tools : RunCompiler(c) \/ CompilerRan(c)
  \/ RunProcess /\ UNCHANGED <<bridge, b>>

InCall(c) == ~At(c, "idle") /\ (Translate(c) \/ CompileModel(c)) /\ UNCHANGED proc

\* A client that is inside a call, a worker that is running and a compiler
\* process are what the system schedules; nothing obliges a client to make
\* another call.
Fairness ==
  /\ \A c \in Clients : WF_vars(InCall(c)) /\ WF_vars(RunWorker(c) /\ UNCHANGED proc)
  /\ \A c \in Tools : WF_vars(CompilerRan(c))
  /\ WF_vars(Child /\ UNCHANGED <<bridge, b>>)
  /\ WF_vars(ReadErr /\ UNCHANGED <<bridge, b>>)
  /\ WF_vars(Caller /\ UNCHANGED <<bridge, b>>)

Spec == Init /\ [][Next]_vars /\ Fairness

-----------------------------------------------------------------------------
(* Properties.                                                             *)

\* The OCaml callback runs under compile_mutex and the runtime lock, on the
\* thread that started the runtime or on a registered one, never on one that is
\* both; and a client that has left stanli_stanc_compile holds none of them.
RuntimeUse ==
  \A c \in Clients :
    /\ At(c, "callback") => /\ runtime = c /\ compile_mutex = c
                            /\ (c \in registered) # (c = startup_thread)
    /\ At(c, "unregister") => runtime # c
    /\ compile_mutex # c => runtime # c /\ c \notin registered

\* While the write-array worker runs, the program it walks and the lowering it
\* fills exist, whichever way compile_model is left.
WorkerReadsLive ==
  \A c \in Builders : b[c].worker = "running" => {"prog", "wa"} \subseteq b[c].live

\* Transformed data, with its random draws and its prints, is interpreted once
\* in a build: a refused specialization, a worker that does not start and a
\* retry on a smaller stack do not run it again.
DataPreparedOnce ==
  \A c \in Builders :
    /\ b[c].prepares <= 1
    /\ At(c, "idle") /\ b[c].prog # NoProgram /\ ~Failed(c) => b[c].prepares = 1

\* The steps that read the program's statements or change what is lowered of it,
\* the last of which leaves compile_model ...
Lowers(c) == b[c].pc \in {"prepare", "trial", "lowering", "function", "called", "finish"}

\* ... and those whose next step destroys it: the helper's, or the unwinding's.
Destroys(c) ==
  \/ At(c, "job") /\ b[c].job = "destroy"
  \/ At(c, "unwound") /\ "prog" \in b[c].live

\* The helper that was to destroy the program did not start at once, or not at all.
DestroyerShort(c) == b[c].job = "destroy" /\ (b[c].tried # 0 \/ b[c].limit = 0)

\* Until compile_model is left, whatever walks a program runs on a stack that
\* holds its nesting: the lowering and the write-array worker always; whoever
\* destroys it unless a start of the thread that was to do so has failed.  The
\* helper then has a smaller stack, or there is none and the unwinding destroys
\* the program on the client's own, be it too deep for that or not.
WalksFit ==
  \A c \in Builders :
    /\ Lowers(c) => Fits(c)
    /\ b[c].worker = "running" => b[c].prog.nesting <= InlineLimit
    /\ Destroys(c) => Fits(c) \/ DestroyerShort(c)

Beyond(p) == \A i \in 1 .. Len(StackLimits) : p.nesting > StackLimits[i]

\* What a build on one thread, one step after the other, cannot lower.
Refuses(p) ==
  \/ p.nesting > InlineLimit /\ Beyond(p)
  \/ ~p.prepare \/ p.logProb # "ok" \/ p.gq = "throws"
  \/ p.strict /\ p.gq \in {"partial", "misaligned"}

\* A build comes to the same model or error whether the write array is lowered
\* by a worker, after a worker that did not start, or after log_prob: columns
\* are lowered from the prepared data and nothing else, and only a large stack
\* that could not be had turns a model into an error.  A program that came from
\* a compiler process is all of what the process printed on standard output.
SameModel ==
  /\ proc.result = "output" => OutputWhole /\ proc.child = "exited"
  /\ \A c \in Builders :
       LET p == b[c].prog
           m == b[c].outcome
       IN At(c, "idle") /\ p # NoProgram =>
            IF m.error THEN Refuses(p) \/ b[c].short
            ELSE /\ ~Refuses(p)
                 /\ IF p.gq = "none" THEN m.write_array = "none"
                    ELSE IF p.gq = "whole"
                    THEN m.write_array = "columns" /\ m.environment = Prepared
                    ELSE m.write_array = "interpreter" /\ Prepared \subseteq m.environment

\* Every call returns: nobody keeps the runtime lock or compile_mutex, a worker
\* that is joined has an end, and a compiler process that fills one pipe while
\* the other is being read does not wait for its reader for ever.  There is one
\* exception, which is the code's: the reader of standard error has met an error
\* and left, and nobody was told.
BuildEnds ==
  \A c \in Clients : ~At(c, "idle") ~> At(c, "idle") \/ (At(c, "process") /\ ErrAbandoned)
=============================================================================

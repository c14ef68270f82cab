-------------------------- MODULE ModelBuildProofs --------------------------
(***************************************************************************)
(* The build is safe for any clients, programs, stack sizes and compilers: *)
(* the OCaml runtime is used under its rules, the worker outlives nothing  *)
(* it reads, data is prepared once, stacks suffice and every way of        *)
(* building comes to the same model.                                       *)
(***************************************************************************)
EXTENDS ModelBuild, SequenceTheorems, TLAPS

(* Where a client is: in the translation, reading, walking the program. *)
Inside == {"once", "started", "register", "acquire", "callback", "unregister", "unlock"}
Early == {"lock", "once", "started", "register", "acquire", "callback", "process"}
Reading == {"decode", "spawn", "job", "decoded", "prepare"}
Bound == {"trial", "lowering", "function", "called", "finish"}

(* The bridge, as client c sees it. *)
BridgeOK(c) ==
  /\ b[c].pc \in Inside <=> compile_mutex = c
  /\ b[c].pc \in {"started", "callback"} <=> runtime = c
  /\ b[c].pc \in Inside \ {"once"} => startup_once
  /\ c \in registered => b[c].pc \in {"acquire", "callback", "unregister"}
  /\ b[c].pc \in {"acquire", "callback"} => ((c \in registered) # (c = startup_thread))

(* A call is a record of these fields, at one of its steps. *)
IsCall(r) ==
  /\ r.pc \in {"idle", "unregister", "unlock", "unwind", "unwound"} \cup Early \cup Reading \cup Bound
  /\ DOMAIN r = {"pc", "calls", "prog", "limit", "job", "tried", "short", "live", "env", "bound",
                 "prepares", "wa", "started", "worker", "outcome"}

(* No frame of compile_model has prepared its data yet. *)
Unprepared(r) == r.worker = "none" /\ r.wa = {} /\ r.bound = {} /\ r.prepares = 0

(* The model that a program comes to. *)
ModelOf(p, m) ==
  IF p.gq = "none" THEN m.write_array = "none"
  ELSE IF p.gq = "whole" THEN m.write_array = "columns" /\ m.environment = Prepared
  ELSE m.write_array = "interpreter" /\ Prepared \subseteq m.environment

(* What is known of a call at each of its steps. *)
IdleOK(r) ==
  r.pc = "idle" =>
    /\ r.worker = "none" /\ r.prepares \in 0 .. 1 /\ r.limit = 0
    /\ r.prog # NoProgram => IF r.outcome.error THEN Refuses(r.prog) \/ r.short
                             ELSE /\ r.prepares = 1 /\ ~Refuses(r.prog)
                                  /\ ModelOf(r.prog, r.outcome)
EarlyOK(r) == r.pc \in Early => Unprepared(r) /\ r.limit = 0 /\ r.prog = NoProgram
LateOK(c, r) ==
  r.pc \in {"unregister", "unlock"} =>
    /\ Unprepared(r) /\ r.limit = 0
    /\ IF r.outcome.error \/ c \notin Builders THEN r.prog = NoProgram ELSE r.prog \in Programs
ReadOK(r) ==
  /\ r.pc \in Reading => Unprepared(r) /\ r.prog \in Programs
  /\ r.pc \in {"decoded", "prepare"} => "prog" \in r.live
  /\ r.pc = "decoded" /\ r.limit # 0 => r.prog.nesting <= r.limit
LimitOK(r) ==
  /\ r.limit # 0 \/ r.pc = "spawn" =>
       /\ r.tried \in 0 .. Len(StackLimits) - 1 /\ (r.tried # 0 => r.short)
       /\ r.prog.nesting > InlineLimit
  /\ r.limit # 0 => r.limit = StackLimits[r.tried + 1]
  /\ r.pc = "spawn" => r.limit = 0
  /\ r.pc = "job" => r.limit # 0
FrameOK(r) ==
  /\ r.pc \in Bound =>
       /\ r.prepares = 1 /\ r.prog \in Programs /\ r.prog.prepare
       /\ r.pc # "function" => Prepared \subseteq r.env
       /\ r.prog.gq # "none" => \/ r.wa = Prepared
                                \/ r.wa = {} /\ r.bound = Prepared
  /\ r.pc \in Bound \cup {"prepare"} =>
       r.prog.nesting <= (IF r.limit # 0 THEN r.limit ELSE InlineLimit)
  /\ r.pc = "finish" => r.prog.logProb = "ok"
WorkerOK(r) ==
  /\ r.worker # "none" => r.pc \in Bound \cup {"unwind", "unwound"}
  /\ r.worker = "running" => /\ r.pc # "unwound" /\ {"prog", "wa"} \subseteq r.live
                             /\ r.prog.nesting <= InlineLimit
  /\ r.worker = "failed" => r.prog.gq = "throws"
UnwindOK(r) ==
  r.pc \in {"unwind", "unwound"} =>
    /\ r.prog \in Programs /\ r.prepares \in 0 .. 1
    /\ Refuses(r.prog) \/ r.short

(* Where a program is destroyed: by a helper with the largest stack, unless the *)
(* start of one has failed, or on the way out of a frame that it fits.          *)
Fitting(r) == r.prog.nesting <= (IF r.limit # 0 THEN r.limit ELSE InlineLimit)
Short(r) == r.job = "destroy" /\ (r.tried # 0 \/ r.limit = 0)
LiveOK(r) ==
  /\ r.pc \in Early \cup {"unregister", "unlock", "decode"} => r.live = {}
  /\ r.pc \in {"spawn", "job"} =>
       /\ r.job # "destroy" => r.live = {}
       /\ r.job = "destroy" => r.prog.nesting <= StackLimits[1]
  /\ r.pc = "decoded" /\ r.limit = 0 /\ r.prog.nesting > InlineLimit
       => r.prog.nesting <= StackLimits[1]
  /\ r.pc \in {"unwind", "unwound"} /\ "prog" \in r.live => Fitting(r) \/ Short(r)

CallOK(c, r) ==
  /\ IsCall(r) /\ IdleOK(r) /\ EarlyOK(r) /\ LateOK(c, r) /\ ReadOK(r)
  /\ LimitOK(r) /\ FrameOK(r) /\ WorkerOK(r) /\ UnwindOK(r) /\ LiveOK(r)

(* What was printed is in the child, in the pipes or with the readers, and a *)
(* reader that is done has emptied the pipe of a child that is gone.         *)
ProcOK ==
  /\ DOMAIN proc = {"caller", "reader", "child", "printed", "left", "pipe", "got", "status",
                    "read_ok", "err_ok", "result"}
  /\ proc.printed \in [Streams -> Nat] /\ proc.left \in [Streams -> Nat]
  /\ proc.pipe \in [Streams -> Nat] /\ proc.got \in [Streams -> Nat]
  /\ \A s \in Streams : proc.printed[s] = proc.left[s] + proc.pipe[s] + proc.got[s]
  /\ proc.child = "exited" => \A s \in Streams : proc.left[s] = 0
  /\ proc.child # "none" =>
       /\ proc.caller # "reading" /\ proc.read_ok
            => proc.pipe["out"] = 0 /\ proc.child # "running"
       /\ proc.reader = "done" /\ proc.err_ok => proc.pipe["err"] = 0 /\ proc.child # "running"
       /\ proc.caller \in {"waiting", "done"} => proc.reader = "done"
  /\ proc.result = "output" => proc.caller = "done" /\ proc.read_ok /\ proc.child = "exited"
  /\ proc.caller # "none" => proc.child # "none" \/ proc.result = "error"
  /\ proc.child = "none" => proc.caller \in {"none", "done"} /\ proc.reader = "none"
  /\ proc.caller = "none" => proc.result = "none" /\ proc.child = "none"

(* The inductive invariant. *)
IInv ==
  /\ DOMAIN b = Clients
  /\ ~startup_once => startup_thread = NoClient
  /\ \A c \in Clients : BridgeOK(c) /\ CallOK(c, b[c])
  /\ ProcOK

-----------------------------------------------------------------------------
(* q is r with at most the fields S changed. *)
Fields == {"pc", "calls", "prog", "limit", "job", "tried", "short", "live", "env", "bound",
           "prepares", "wa", "started", "worker", "outcome"}
Kept(q, r, S) == DOMAIN q = Fields /\ \A x \in Fields : x \notin S => q[x] = r[x]

(* A call that returned. *)
Back(r, outcome) ==
  [r EXCEPT !.pc = "idle", !.calls = @ + 1, !.limit = 0, !.job = "none",
            !.live = KeptBy(r.prog, outcome), !.env = {}, !.bound = {}, !.wa = {}, !.started = FALSE, !.worker = "none", !.outcome = outcome]

(* A call of stanli_stanc_compile, up to the program it yields. *)
LEMMA TranslateCall ==
  ASSUME IInv, NEW c \in Clients, Translate(c)
  PROVE  CallOK(c, b'[c])
<1>1. PICK r, q : r = b[c] /\ q = b'[c]
  OBVIOUS
<1>2. CallOK(c, r) /\ DOMAIN b = Clients
  BY <1>1 DEF IInv
<1> SUFFICES CallOK(c, q)
  BY <1>1
<1>3. CASE Call(c)
  <2>0. \/ q = [Fresh EXCEPT !.pc = "lock", !.calls = r.calls]
        \/ q = [Fresh EXCEPT !.calls = r.calls + 1]
    BY <1>1, <1>2, <1>3 DEF Call, At, Change
  <2>1. CASE q = [Fresh EXCEPT !.pc = "lock", !.calls = r.calls]
    <3>1. /\ q.pc = "lock" /\ DOMAIN q = Fields /\ q.prog = NoProgram /\ q.limit = 0 /\ q.worker = "none"
          /\ q.wa = {} /\ q.bound = {} /\ q.prepares = 0 /\ q.live = {}
      BY <1>1, <1>2, <2>1 DEF CallOK, IsCall, Kept, Fields, Fresh
    <3> QED
      BY <1>2, <2>1, <3>1 DEF CallOK, IsCall, IdleOK, EarlyOK, LateOK, ReadOK, LimitOK, FrameOK, WorkerOK, UnwindOK, LiveOK,
       Kept, Fields, Early, Reading, Bound, Unprepared
  <2>2. CASE q = [Fresh EXCEPT !.calls = r.calls + 1]
    <3>1. /\ q.pc = "idle" /\ DOMAIN q = Fields /\ q.prog = NoProgram /\ q.limit = 0 /\ q.worker = "none"
          /\ q.wa = {} /\ q.bound = {} /\ q.prepares = 0 /\ q.live = {}
      BY <1>1, <1>2, <2>2 DEF CallOK, IsCall, Kept, Fields, Fresh
    <3> QED
      BY <1>2, <2>2, <3>1 DEF CallOK, IsCall, IdleOK, EarlyOK, LateOK, ReadOK, LimitOK, FrameOK, WorkerOK, UnwindOK, LiveOK,
       Kept, Fields, Early, Reading, Bound, Unprepared
  <2> QED
    BY <2>0, <2>1, <2>2
<1>4. CASE Lock(c)
  <2>0. q = [r EXCEPT !.pc = "once"] /\ r.pc = "lock"
    BY <1>1, <1>2, <1>4 DEF Lock, Goto, At, Change
  <2>1. q.pc = "once" /\ Kept(q, r, {"pc"})
    BY <1>1, <1>2, <2>0 DEF CallOK, IsCall, Kept, Fields
  <2> QED
    BY <1>2, <2>0, <2>1 DEF CallOK, IsCall, IdleOK, EarlyOK, LateOK, ReadOK, LimitOK, FrameOK, WorkerOK, UnwindOK, LiveOK,
     Kept, Fields, Early, Reading, Bound, Unprepared
<1>5. CASE StartOcaml(c)
  <2>0. q = [r EXCEPT !.pc = "started"] /\ r.pc = "once"
    BY <1>1, <1>2, <1>5 DEF StartOcaml, Goto, At, Change
  <2>1. q.pc = "started" /\ Kept(q, r, {"pc"})
    BY <1>1, <1>2, <2>0 DEF CallOK, IsCall, Kept, Fields
  <2> QED
    BY <1>2, <2>0, <2>1 DEF CallOK, IsCall, IdleOK, EarlyOK, LateOK, ReadOK, LimitOK, FrameOK, WorkerOK, UnwindOK, LiveOK,
     Kept, Fields, Early, Reading, Bound, Unprepared
<1>6. CASE ReleaseAfterStartup(c)
  <2>0. q = [r EXCEPT !.pc = "register"] /\ r.pc = "started"
    BY <1>1, <1>2, <1>6 DEF ReleaseAfterStartup, Goto, At, Change
  <2>1. q.pc = "register" /\ Kept(q, r, {"pc"})
    BY <1>1, <1>2, <2>0 DEF CallOK, IsCall, Kept, Fields
  <2> QED
    BY <1>2, <2>0, <2>1 DEF CallOK, IsCall, IdleOK, EarlyOK, LateOK, ReadOK, LimitOK, FrameOK, WorkerOK, UnwindOK, LiveOK,
     Kept, Fields, Early, Reading, Bound, Unprepared
<1>7. CASE AlreadyStarted(c)
  <2>0. q = [r EXCEPT !.pc = "register"] /\ r.pc = "once"
    BY <1>1, <1>2, <1>7 DEF AlreadyStarted, Goto, At, Change
  <2>1. q.pc = "register" /\ Kept(q, r, {"pc"})
    BY <1>1, <1>2, <2>0 DEF CallOK, IsCall, Kept, Fields
  <2> QED
    BY <1>2, <2>0, <2>1 DEF CallOK, IsCall, IdleOK, EarlyOK, LateOK, ReadOK, LimitOK, FrameOK, WorkerOK, UnwindOK, LiveOK,
     Kept, Fields, Early, Reading, Bound, Unprepared
<1>8. CASE RegisterThread(c)
  <2>0. \/ q = [r EXCEPT !.pc = "acquire"] /\ r.pc = "register"
        \/ q = [r EXCEPT !.pc = "unlock", !.outcome = NoModel] /\ r.pc = "register"
    BY <1>1, <1>2, <1>8 DEF RegisterThread, Goto, At, Change
  <2>1. CASE q = [r EXCEPT !.pc = "acquire"] /\ r.pc = "register"
    <3>1. q.pc = "acquire" /\ Kept(q, r, {"pc"})
      BY <1>1, <1>2, <2>1 DEF CallOK, IsCall, Kept, Fields
    <3> QED
      BY <1>2, <2>1, <3>1 DEF CallOK, IsCall, IdleOK, EarlyOK, LateOK, ReadOK, LimitOK, FrameOK, WorkerOK, UnwindOK, LiveOK,
       Kept, Fields, Early, Reading, Bound, Unprepared
  <2>2. CASE q = [r EXCEPT !.pc = "unlock", !.outcome = NoModel] /\ r.pc = "register"
    <3>1. q.pc = "unlock" /\ q.outcome.error /\ Kept(q, r, {"pc", "outcome"})
      BY <1>1, <1>2, <2>2 DEF CallOK, IsCall, Kept, Fields, NoModel
    <3> QED
      BY <1>2, <2>2, <3>1 DEF CallOK, IsCall, IdleOK, EarlyOK, LateOK, ReadOK, LimitOK, FrameOK, WorkerOK, UnwindOK, LiveOK,
       Kept, Fields, Early, Reading, Bound, Unprepared
  <2> QED
    BY <2>0, <2>1, <2>2
<1>9. CASE AcquireRuntime(c)
  <2>0. q = [r EXCEPT !.pc = "callback"] /\ r.pc = "acquire"
    BY <1>1, <1>2, <1>9 DEF AcquireRuntime, Goto, At, Change
  <2>1. q.pc = "callback" /\ Kept(q, r, {"pc"})
    BY <1>1, <1>2, <2>0 DEF CallOK, IsCall, Kept, Fields
  <2> QED
    BY <1>2, <2>0, <2>1 DEF CallOK, IsCall, IdleOK, EarlyOK, LateOK, ReadOK, LimitOK, FrameOK, WorkerOK, UnwindOK, LiveOK,
     Kept, Fields, Early, Reading, Bound, Unprepared
<1>10. CASE InvokeCallback(c)
  <2>0. \/ q = [r EXCEPT !.pc = "unregister", !.outcome = NoModel] /\ r.pc = "callback"
        \/ \E p \in IF c \in Builders THEN Programs ELSE {NoProgram} :
             q = [r EXCEPT !.pc = "unregister", !.prog = p, !.outcome = [NoModel EXCEPT !.error = FALSE]]
             /\ r.pc = "callback"
    BY <1>1, <1>2, <1>10 DEF InvokeCallback, At, Change
  <2>1. CASE q = [r EXCEPT !.pc = "unregister", !.outcome = NoModel] /\ r.pc = "callback"
    <3>1. q.pc = "unregister" /\ q.outcome.error /\ Kept(q, r, {"pc", "outcome"})
      BY <1>1, <1>2, <2>1 DEF CallOK, IsCall, Kept, Fields, NoModel
    <3> QED
      BY <1>2, <2>1, <3>1 DEF CallOK, IsCall, IdleOK, EarlyOK, LateOK, ReadOK, LimitOK, FrameOK, WorkerOK, UnwindOK, LiveOK,
       Kept, Fields, Early, Reading, Bound, Unprepared
  <2>2. ASSUME NEW p \in IF c \in Builders THEN Programs ELSE {NoProgram},
               q = [r EXCEPT !.pc = "unregister", !.prog = p, !.outcome = [NoModel EXCEPT !.error = FALSE]], r.pc = "callback"
        PROVE  CallOK(c, q)
    <3>1. /\ q.pc = "unregister" /\ ~q.outcome.error /\ q.prog = p
          /\ Kept(q, r, {"pc", "prog", "outcome"})
      BY <1>1, <1>2, <2>2 DEF CallOK, IsCall, Kept, Fields, NoModel
    <3> QED
      BY <1>2, <2>2, <3>1 DEF CallOK, IsCall, IdleOK, EarlyOK, LateOK, ReadOK, LimitOK, FrameOK, WorkerOK, UnwindOK, LiveOK,
       Kept, Fields, Early, Reading, Bound, Unprepared
  <2> QED
    BY <2>0, <2>1, <2>2
<1>11. CASE UnregisterThread(c)
  <2>0. q = [r EXCEPT !.pc = "unlock"] /\ r.pc = "unregister"
    BY <1>1, <1>2, <1>11 DEF UnregisterThread, Goto, At, Change
  <2>1. q.pc = "unlock" /\ Kept(q, r, {"pc"})
    BY <1>1, <1>2, <2>0 DEF CallOK, IsCall, Kept, Fields
  <2> QED
    BY <1>2, <2>0, <2>1 DEF CallOK, IsCall, IdleOK, EarlyOK, LateOK, ReadOK, LimitOK, FrameOK, WorkerOK, UnwindOK, LiveOK,
     Kept, Fields, Early, Reading, Bound, Unprepared
<1>12. CASE Unlock(c)
  <2>0. \/ q = Back(r, r.outcome) /\ r.pc = "unlock" /\ (r.outcome.error \/ c \notin Builders)
        \/ q = [r EXCEPT !.pc = "decode"] /\ r.pc = "unlock" /\ ~(r.outcome.error \/ c \notin Builders)
    BY <1>1, <1>2, <1>12 DEF Unlock, Goto, Failed, Return, Back, At, Change
  <2>1. CASE q = Back(r, r.outcome) /\ r.pc = "unlock" /\ (r.outcome.error \/ c \notin Builders)
    <3>1. /\ q.pc = "idle" /\ q.worker = "none" /\ q.limit = 0 /\ q.outcome = r.outcome
          /\ Kept(q, r, {"pc", "calls", "limit", "job", "live", "env", "bound", "wa", "started", "worker", "outcome"})
      BY <1>1, <1>2, <2>1 DEF CallOK, IsCall, Kept, Fields, Back
    <3> QED
      BY <1>2, <2>1, <3>1 DEF CallOK, IsCall, IdleOK, EarlyOK, LateOK, ReadOK, LimitOK, FrameOK, WorkerOK, UnwindOK, LiveOK,
       Kept, Fields, Early, Reading, Bound, Unprepared
  <2>2. CASE q = [r EXCEPT !.pc = "decode"] /\ r.pc = "unlock" /\ ~(r.outcome.error \/ c \notin Builders)
    <3>1. q.pc = "decode" /\ Kept(q, r, {"pc"})
      BY <1>1, <1>2, <2>2 DEF CallOK, IsCall, Kept, Fields
    <3> QED
      BY <1>2, <2>2, <3>1 DEF CallOK, IsCall, IdleOK, EarlyOK, LateOK, ReadOK, LimitOK, FrameOK, WorkerOK, UnwindOK, LiveOK,
       Kept, Fields, Early, Reading, Bound, Unprepared
  <2> QED
    BY <2>0, <2>1, <2>2
<1> QED
  BY <1>3, <1>4, <1>5, <1>6, <1>7, <1>8, <1>9, <1>10, <1>11, <1>12 DEF Translate

(* ... or of a compiler process. *)
LEMMA CompilerCall ==
  ASSUME IInv, NEW c \in Clients, RunCompiler(c) \/ CompilerRan(c)
  PROVE  CallOK(c, b'[c])
<1>1. PICK r, q : r = b[c] /\ q = b'[c]
  OBVIOUS
<1>2. CallOK(c, r) /\ DOMAIN b = Clients
  BY <1>1 DEF IInv
<1> SUFFICES CallOK(c, q)
  BY <1>1
<1>3. CASE RunCompiler(c)
  <2>0. q = [Fresh EXCEPT !.pc = "process", !.calls = r.calls]
    BY <1>1, <1>2, <1>3 DEF RunCompiler, At, Change
  <2>1. /\ q.pc = "process" /\ DOMAIN q = Fields /\ q.prog = NoProgram /\ q.limit = 0 /\ q.worker = "none"
        /\ q.wa = {} /\ q.bound = {} /\ q.prepares = 0 /\ q.live = {}
    BY <1>1, <1>2, <2>0 DEF CallOK, IsCall, Kept, Fields, Fresh
  <2> QED
    BY <1>2, <2>0, <2>1 DEF CallOK, IsCall, IdleOK, EarlyOK, LateOK, ReadOK, LimitOK, FrameOK, WorkerOK, UnwindOK, LiveOK,
     Kept, Fields, Early, Reading, Bound, Unprepared
<1>4. CASE CompilerRan(c)
  <2>0. \/ q = Back(r, NoModel) /\ r.pc = "process"
        \/ \E p \in Programs :
             q = [r EXCEPT !.pc = "decode", !.prog = p, !.outcome = [NoModel EXCEPT !.error = FALSE]] /\ r.pc = "process"
    BY <1>1, <1>2, <1>4 DEF CompilerRan, Return, Back, At, Change
  <2>1. CASE q = Back(r, NoModel) /\ r.pc = "process"
    <3>1. /\ q.pc = "idle" /\ q.worker = "none" /\ q.limit = 0 /\ q.outcome = NoModel
          /\ Kept(q, r, {"pc", "calls", "limit", "job", "live", "env", "bound", "wa", "started", "worker", "outcome"})
      BY <1>1, <1>2, <2>1 DEF CallOK, IsCall, Kept, Fields, Back
    <3> QED
      BY <1>2, <2>1, <3>1 DEF CallOK, IsCall, IdleOK, EarlyOK, LateOK, ReadOK, LimitOK, FrameOK, WorkerOK, UnwindOK, LiveOK,
       Kept, Fields, Early, Reading, Bound, Unprepared
  <2>2. ASSUME NEW p \in Programs, q = [r EXCEPT !.pc = "decode", !.prog = p, !.outcome = [NoModel EXCEPT !.error = FALSE]], r.pc = "process"
        PROVE  CallOK(c, q)
    <3>1. /\ q.pc = "decode" /\ q.prog = p
          /\ Kept(q, r, {"pc", "prog", "outcome"})
      BY <1>1, <1>2, <2>2 DEF CallOK, IsCall, Kept, Fields
    <3> QED
      BY <1>2, <2>2, <3>1 DEF CallOK, IsCall, IdleOK, EarlyOK, LateOK, ReadOK, LimitOK, FrameOK, WorkerOK, UnwindOK, LiveOK,
       Kept, Fields, Early, Reading, Bound, Unprepared
  <2> QED
    BY <2>0, <2>1, <2>2
<1> QED
  BY <1>3, <1>4

-----------------------------------------------------------------------------
(* The stacks that may be tried: some, and none larger than the first. *)
LEMMA StackFacts ==
  /\ Len(StackLimits) \in Nat /\ 0 \in 0 .. Len(StackLimits) - 1
  /\ InlineLimit \in Nat
  /\ \A i \in 1 .. Len(StackLimits) :
       StackLimits[i] \in Nat /\ StackLimits[i] # 0 /\ StackLimits[i] <= StackLimits[1]
<1>1. StackLimits \in Seq(Nat \ {0}) /\ StackLimits # <<>>
  BY BuildAssumption
<1>2. Len(StackLimits) \in Nat /\ Len(StackLimits) # 0
  BY <1>1, EmptySeq, LenProperties
<1>3. \A i \in 1 .. Len(StackLimits) : StackLimits[i] \in Nat /\ StackLimits[i] # 0
  BY <1>1, ElementOfSeq
<1> QED
  BY <1>2, <1>3, BuildAssumption

(* A program that is too deep for a large stack is too deep for all of them, *)
(* unless a larger one could not be had.                                     *)
LEMMA TooDeep ==
  ASSUME NEW r, LimitOK(r), r.prog \in Programs, r.limit # 0, ~Fitting(r)
  PROVE  Refuses(r.prog) \/ r.short
<1>1. CASE r.tried # 0
  BY <1>1 DEF LimitOK
<1>2. CASE r.tried = 0
  <2>1. r.limit = StackLimits[1] /\ r.prog.nesting > InlineLimit
    BY <1>2 DEF LimitOK
  <2>2. r.prog.nesting > StackLimits[1] /\ r.prog.nesting \in Nat
    <3>1. 1 \in 1 .. Len(StackLimits)
      BY StackFacts
    <3> QED
      BY <2>1, <3>1, StackFacts, ProgramsAssumption DEF Fitting
  <2>3. \A i \in 1 .. Len(StackLimits) : r.prog.nesting > StackLimits[i]
    <3> SUFFICES ASSUME NEW i \in 1 .. Len(StackLimits) PROVE r.prog.nesting > StackLimits[i]
      OBVIOUS
    <3>1. StackLimits[i] <= StackLimits[1] /\ StackLimits[i] \in Nat /\ StackLimits[1] \in Nat
      <4>1. 1 \in 1 .. Len(StackLimits)
        BY StackFacts
      <4> QED
        BY <4>1, StackFacts
    <3> QED
      BY <2>2, <3>1
  <2> QED
    BY <2>1, <2>3 DEF Refuses, Beyond
<1> QED
  BY <1>1, <1>2

(* What was read on a large stack fits the largest. *)
LEMMA ReadFits ==
  ASSUME NEW r, LimitOK(r), r.prog \in Programs, r.limit # 0, Fitting(r)
  PROVE  r.prog.nesting <= StackLimits[1]
<1>1. r.tried + 1 \in 1 .. Len(StackLimits) /\ r.limit = StackLimits[r.tried + 1]
  BY StackFacts DEF LimitOK
<1>2. 1 \in 1 .. Len(StackLimits)
  BY StackFacts
<1>3. /\ r.limit <= StackLimits[1] /\ r.limit \in Nat /\ StackLimits[1] \in Nat
      /\ r.prog.nesting \in Nat
  BY <1>1, <1>2, StackFacts, ProgramsAssumption
<1> QED
  BY <1>3 DEF Fitting

(* Reading the program, on this stack or on a large one. *)
LEMMA ReaderCall ==
  ASSUME IInv, NEW c \in Clients, 
         \/ SpawnHelper(c) \/ SpawnFails(c) \/ Decode(c) \/ DecodeOnHelper(c) \/ Decoded(c)
         \/ DestroyOnHelper(c) \/ CompileOnHelper(c)
  PROVE  CallOK(c, b'[c])
<1>1. PICK r, q : r = b[c] /\ q = b'[c]
  OBVIOUS
<1>2. CallOK(c, r) /\ DOMAIN b = Clients
  BY <1>1 DEF IInv
<1> SUFFICES CallOK(c, q)
  BY <1>1
<1>3. CASE SpawnHelper(c)
  <2>0. q = [r EXCEPT !.pc = "job", !.limit = StackLimits[r.tried + 1]] /\ r.pc = "spawn"
    BY <1>1, <1>2, <1>3 DEF SpawnHelper, At, Change
  <2>1. /\ q.limit = StackLimits[r.tried + 1] /\ q.pc = "job"
        /\ Kept(q, r, {"pc", "limit"})
    BY <1>1, <1>2, <2>0 DEF CallOK, IsCall, Kept, Fields
  <2>2. q.limit # 0
    <3>1. r.tried \in 0 .. Len(StackLimits) - 1
      BY <1>2, <2>0 DEF CallOK, LimitOK
    <3>2. r.tried + 1 \in 1 .. Len(StackLimits)
      BY <3>1, StackFacts
    <3> QED
      BY <2>1, <3>2, StackFacts
  <2> QED
    BY <1>2, <2>0, <2>1, <2>2 DEF CallOK, IsCall, IdleOK, EarlyOK, LateOK, ReadOK, LimitOK, FrameOK, WorkerOK, UnwindOK, LiveOK,
     Kept, Fields, Early, Reading, Bound, Unprepared
<1>4. CASE SpawnFails(c)
  <2>0. \/ q = [r EXCEPT !.tried = @ + 1, !.short = TRUE] /\ r.pc = "spawn" /\ r.tried + 1 < Len(StackLimits)
        \/ q = [r EXCEPT !.pc = "unwind", !.short = TRUE] /\ r.pc = "spawn"
    BY <1>1, <1>2, <1>4 DEF SpawnFails, At, Change
  <2>1. CASE q = [r EXCEPT !.tried = @ + 1, !.short = TRUE] /\ r.pc = "spawn" /\ r.tried + 1 < Len(StackLimits)
    <3>1. q.tried = r.tried + 1 /\ q.short /\ Kept(q, r, {"tried", "short"})
      BY <1>1, <1>2, <2>1 DEF CallOK, IsCall, Kept, Fields
    <3> QED
      BY <1>2, <2>1, <3>1, StackFacts DEF CallOK, IsCall, IdleOK, EarlyOK, LateOK, ReadOK, LimitOK, FrameOK, WorkerOK, UnwindOK, LiveOK,
       Kept, Fields, Early, Reading, Bound, Unprepared
  <2>2. CASE q = [r EXCEPT !.pc = "unwind", !.short = TRUE] /\ r.pc = "spawn"
    <3>1. q.short /\ q.pc = "unwind" /\ Kept(q, r, {"pc", "short"})
      BY <1>1, <1>2, <2>2 DEF CallOK, IsCall, Kept, Fields
    <3>2. LiveOK(q)
      BY <1>2, <2>2, <3>1 DEF CallOK, LimitOK, LiveOK, Short, Kept, Fields, Early
    <3> QED
      BY <3>2, <1>2, <2>2, <3>1 DEF CallOK, IsCall, IdleOK, EarlyOK, LateOK, ReadOK, LimitOK, FrameOK, WorkerOK, UnwindOK,
       Kept, Fields, Early, Reading, Bound, Unprepared
  <2> QED
    BY <2>0, <2>1, <2>2
<1>5. CASE Decode(c)
  <2>0. \/ q = [r EXCEPT !.pc = "decoded", !.live = {"prog"}] /\ r.pc = "decode" /\ Fitting(r)
        \/ q = [r EXCEPT !.pc = "spawn", !.job = "decode", !.tried = 0] /\ r.pc = "decode" /\ ~Fitting(r) /\ r.limit = 0
        \/ q = [r EXCEPT !.pc = "unwind"] /\ r.pc = "decode" /\ ~Fitting(r) /\ r.limit # 0
    BY <1>1, <1>2, <1>5 DEF Decode, Goto, Fits, nesting_limit, Fitting, RunOnLargeStack, At, Change
  <2>1. CASE q = [r EXCEPT !.pc = "decoded", !.live = {"prog"}] /\ r.pc = "decode" /\ Fitting(r)
    <3>1. q.live = {"prog"} /\ q.pc = "decoded" /\ Kept(q, r, {"pc", "live"})
      BY <1>1, <1>2, <2>1 DEF CallOK, IsCall, Kept, Fields
    <3>2. ~(r.prog.nesting > InlineLimit) \/ r.limit # 0
      BY <1>2, <2>1, StackFacts, ProgramsAssumption DEF CallOK, ReadOK, Reading, Fitting
    <3>3. LiveOK(q)
      BY <2>1, <3>1, <3>2 DEF LiveOK, Kept, Fields, Early
    <3> QED
      BY <3>3, <1>2, <2>1, <3>1 DEF CallOK, IsCall, IdleOK, EarlyOK, LateOK, ReadOK, LimitOK, FrameOK, WorkerOK, UnwindOK,
       Kept, Fields, Early, Reading, Bound, Unprepared, Fitting
  <2>2. CASE q = [r EXCEPT !.pc = "spawn", !.job = "decode", !.tried = 0] /\ r.pc = "decode" /\ ~Fitting(r) /\ r.limit = 0
    <3>1. q.tried = 0 /\ q.pc = "spawn" /\ q.job = "decode" /\ Kept(q, r, {"pc", "job", "tried"})
      BY <1>1, <1>2, <2>2 DEF CallOK, IsCall, Kept, Fields
    <3> QED
      BY <1>2, <2>2, <3>1, StackFacts, ProgramsAssumption DEF CallOK, IsCall, IdleOK, EarlyOK, LateOK, ReadOK, LimitOK, FrameOK, WorkerOK, UnwindOK, LiveOK,
       Kept, Fields, Early, Reading, Bound, Unprepared, Fitting
  <2>3. CASE q = [r EXCEPT !.pc = "unwind"] /\ r.pc = "decode" /\ ~Fitting(r) /\ r.limit # 0
    <3>1. q.pc = "unwind" /\ Kept(q, r, {"pc"})
      BY <1>1, <1>2, <2>3 DEF CallOK, IsCall, Kept, Fields
    <3> QED
      BY <1>2, <2>3, <3>1, TooDeep DEF CallOK, IsCall, IdleOK, EarlyOK, LateOK, ReadOK, LimitOK, FrameOK, WorkerOK, UnwindOK, LiveOK,
       Kept, Fields, Early, Reading, Bound, Unprepared
  <2> QED
    BY <2>0, <2>1, <2>2, <2>3
<1>6. CASE DecodeOnHelper(c)
  <2>0. /\ r.pc = "job" /\ r.job = "decode"
        /\ \/ q = [r EXCEPT !.pc = "decoded", !.live = {"prog"}, !.limit = 0] /\ Fitting(r)
           \/ q = [r EXCEPT !.pc = "unwind", !.limit = 0] /\ ~Fitting(r)
    BY <1>1, <1>2, <1>6 DEF DecodeOnHelper, Fits, nesting_limit, Fitting, At, Change
  <2>1. CASE q = [r EXCEPT !.pc = "decoded", !.live = {"prog"}, !.limit = 0] /\ Fitting(r)
    <3>1. q.live = {"prog"} /\ q.limit = 0 /\ q.pc = "decoded" /\ Kept(q, r, {"pc", "live", "limit"})
      BY <1>1, <1>2, <2>1 DEF CallOK, IsCall, Kept, Fields
    <3>2. q.prog.nesting <= StackLimits[1]
      BY <1>2, <2>0, <2>1, <3>1, ReadFits DEF CallOK, Kept, Fields, LimitOK, ReadOK, Reading
    <3> QED
      BY <1>2, <2>0, <2>1, <3>1, <3>2 DEF CallOK, IsCall, IdleOK, EarlyOK, LateOK, ReadOK, LimitOK, FrameOK, WorkerOK, UnwindOK, LiveOK,
       Kept, Fields, Early, Reading, Bound, Unprepared
  <2>2. CASE q = [r EXCEPT !.pc = "unwind", !.limit = 0] /\ ~Fitting(r)
    <3>1. q.limit = 0 /\ q.pc = "unwind" /\ Kept(q, r, {"pc", "limit"})
      BY <1>1, <1>2, <2>2 DEF CallOK, IsCall, Kept, Fields
    <3> QED
      BY <1>2, <2>0, <2>2, <3>1, TooDeep DEF CallOK, IsCall, IdleOK, EarlyOK, LateOK, ReadOK, LimitOK, FrameOK, WorkerOK, UnwindOK, LiveOK,
       Kept, Fields, Early, Reading, Bound, Unprepared
  <2> QED
    BY <2>0, <2>1, <2>2
<1>7. CASE Decoded(c)
  <2>0. \/ q = [r EXCEPT !.pc = "spawn", !.job = "destroy", !.tried = 0] /\ r.pc = "decoded" /\ r.limit = 0 /\ r.prog.nesting > InlineLimit
        \/ q = [r EXCEPT !.pc = "prepare", !.live = @ \cup {"lo"}] /\ r.pc = "decoded" /\ (r.limit # 0 \/ ~(r.prog.nesting > InlineLimit))
    BY <1>1, <1>2, <1>7 DEF Decoded, needs_large_stack, RunOnLargeStack, At, Change
  <2>1. CASE q = [r EXCEPT !.pc = "spawn", !.job = "destroy", !.tried = 0] /\ r.pc = "decoded" /\ r.limit = 0 /\ r.prog.nesting > InlineLimit
    <3>1. q.tried = 0 /\ q.pc = "spawn" /\ q.job = "destroy" /\ Kept(q, r, {"pc", "job", "tried"})
      BY <1>1, <1>2, <2>1 DEF CallOK, IsCall, Kept, Fields
    <3> QED
      BY <1>2, <2>1, <3>1, StackFacts DEF CallOK, IsCall, IdleOK, EarlyOK, LateOK, ReadOK, LimitOK, FrameOK, WorkerOK, UnwindOK, LiveOK,
       Kept, Fields, Early, Reading, Bound, Unprepared
  <2>2. CASE q = [r EXCEPT !.pc = "prepare", !.live = @ \cup {"lo"}] /\ r.pc = "decoded" /\ (r.limit # 0 \/ ~(r.prog.nesting > InlineLimit))
    <3>1. q.live = r.live \cup {"lo"} /\ q.pc = "prepare" /\ Kept(q, r, {"pc", "live"})
      BY <1>1, <1>2, <2>2 DEF CallOK, IsCall, Kept, Fields
    <3> QED
      BY <1>2, <2>2, <3>1, StackFacts, ProgramsAssumption DEF CallOK, IsCall, IdleOK, EarlyOK, LateOK, ReadOK, LimitOK, FrameOK, WorkerOK, UnwindOK, LiveOK,
       Kept, Fields, Early, Reading, Bound, Unprepared
  <2> QED
    BY <2>0, <2>1, <2>2
<1>8. CASE DestroyOnHelper(c)
  <2>0. q = [r EXCEPT !.pc = "spawn", !.job = "compile", !.tried = 0, !.live = {}, !.limit = 0] /\ r.pc = "job"
    BY <1>1, <1>2, <1>8 DEF DestroyOnHelper, At, Change
  <2>1. /\ q.tried = 0 /\ q.limit = 0 /\ q.live = {} /\ q.job = "compile"
        /\ q.pc = "spawn" /\ Kept(q, r, {"pc", "job", "tried", "live", "limit"})
    BY <1>1, <1>2, <2>0 DEF CallOK, IsCall, Kept, Fields
  <2> QED
    BY <1>2, <2>0, <2>1, StackFacts DEF CallOK, IsCall, IdleOK, EarlyOK, LateOK, ReadOK, LimitOK, FrameOK, WorkerOK, UnwindOK, LiveOK,
     Kept, Fields, Early, Reading, Bound, Unprepared
<1>9. CASE CompileOnHelper(c)
  <2>0. q = [r EXCEPT !.pc = "decode"] /\ r.pc = "job" /\ r.job = "compile"
    BY <1>1, <1>2, <1>9 DEF CompileOnHelper, Goto, At, Change
  <2>1. q.pc = "decode" /\ Kept(q, r, {"pc"})
    BY <1>1, <1>2, <2>0 DEF CallOK, IsCall, Kept, Fields
  <2> QED
    BY <1>2, <2>0, <2>1 DEF CallOK, IsCall, IdleOK, EarlyOK, LateOK, ReadOK, LimitOK, FrameOK, WorkerOK, UnwindOK, LiveOK,
     Kept, Fields, Early, Reading, Bound, Unprepared
<1> QED
  BY <1>3, <1>4, <1>5, <1>6, <1>7, <1>8, <1>9

(* A frame that is left by an exception fits its program, which goes with it. *)
LEMMA FrameLeft ==
  ASSUME NEW r, NEW q, FrameOK(r), r.pc \in Bound \cup {"prepare"},
         q.pc = "unwind", q.prog = r.prog, q.limit = r.limit
  PROVE  LiveOK(q)
BY DEF FrameOK, LiveOK, Fitting, Early

(* Lowering log_prob, the worker beside it, and the way out of a failure. *)
LEMMA LoweringCall ==
  ASSUME IInv, NEW c \in Clients, 
         \/ Trial(c) \/ EnterFunction(c) \/ LeaveFunction(c) \/ RunEnds(c)
         \/ UnwindWorker(c) \/ UnwindFrame(c) \/ RunWorker(c) \/ FreeModel(c)
  PROVE  CallOK(c, b'[c])
<1>1. PICK r, q : r = b[c] /\ q = b'[c]
  OBVIOUS
<1>2. CallOK(c, r) /\ DOMAIN b = Clients
  BY <1>1 DEF IInv
<1> SUFFICES CallOK(c, q)
  BY <1>1
<1>3. CASE Trial(c)
  <2>0. \/ q = [r EXCEPT !.pc = "lowering"] /\ r.pc = "trial"
        \/ q = [r EXCEPT !.pc = "finish"] /\ r.pc = "trial" /\ r.prog.logProb = "ok"
        \/ q = [r EXCEPT !.pc = "unwind"] /\ r.pc = "trial" /\ r.prog.logProb # "ok"
    BY <1>1, <1>2, <1>3 DEF Trial, Goto, At, Change
  <2>1. CASE q = [r EXCEPT !.pc = "lowering"] /\ r.pc = "trial"
    <3>1. q.pc = "lowering" /\ Kept(q, r, {"pc"})
      BY <1>1, <1>2, <2>1 DEF CallOK, IsCall, Kept, Fields
    <3> QED
      BY <1>2, <2>1, <3>1 DEF CallOK, IsCall, IdleOK, EarlyOK, LateOK, ReadOK, LimitOK, FrameOK, WorkerOK, UnwindOK, LiveOK,
       Kept, Fields, Early, Reading, Bound, Unprepared
  <2>2. CASE q = [r EXCEPT !.pc = "finish"] /\ r.pc = "trial" /\ r.prog.logProb = "ok"
    <3>1. q.pc = "finish" /\ Kept(q, r, {"pc"})
      BY <1>1, <1>2, <2>2 DEF CallOK, IsCall, Kept, Fields
    <3> QED
      BY <1>2, <2>2, <3>1 DEF CallOK, IsCall, IdleOK, EarlyOK, LateOK, ReadOK, LimitOK, FrameOK, WorkerOK, UnwindOK, LiveOK,
       Kept, Fields, Early, Reading, Bound, Unprepared
  <2>3. CASE q = [r EXCEPT !.pc = "unwind"] /\ r.pc = "trial" /\ r.prog.logProb # "ok"
    <3>1. q.pc = "unwind" /\ Kept(q, r, {"pc"})
      BY <1>1, <1>2, <2>3 DEF CallOK, IsCall, Kept, Fields
    <3>2. LiveOK(q)
      BY <1>2, <2>3, <3>1, FrameLeft DEF CallOK, Kept, Fields, Bound
    <3> QED
      BY <3>2, <1>2, <2>3, <3>1 DEF CallOK, IsCall, IdleOK, EarlyOK, LateOK, ReadOK, LimitOK, FrameOK, WorkerOK, UnwindOK,
       Kept, Fields, Early, Reading, Bound, Unprepared, Refuses
  <2> QED
    BY <2>0, <2>1, <2>2, <2>3
<1>4. CASE EnterFunction(c)
  <2>0. q = [r EXCEPT !.pc = "function", !.env = Formals] /\ r.pc = "lowering"
    BY <1>1, <1>2, <1>4 DEF EnterFunction, At, Change
  <2>1. q.pc = "function" /\ Kept(q, r, {"pc", "env"})
    BY <1>1, <1>2, <2>0 DEF CallOK, IsCall, Kept, Fields
  <2> QED
    BY <1>2, <2>0, <2>1 DEF CallOK, IsCall, IdleOK, EarlyOK, LateOK, ReadOK, LimitOK, FrameOK, WorkerOK, UnwindOK, LiveOK,
     Kept, Fields, Early, Reading, Bound, Unprepared
<1>5. CASE LeaveFunction(c)
  <2>0. q = [r EXCEPT !.pc = "called", !.env = Prepared] /\ r.pc = "function"
    BY <1>1, <1>2, <1>5 DEF LeaveFunction, At, Change
  <2>1. q.env = Prepared /\ q.pc = "called" /\ Kept(q, r, {"pc", "env"})
    BY <1>1, <1>2, <2>0 DEF CallOK, IsCall, Kept, Fields
  <2> QED
    BY <1>2, <2>0, <2>1 DEF CallOK, IsCall, IdleOK, EarlyOK, LateOK, ReadOK, LimitOK, FrameOK, WorkerOK, UnwindOK, LiveOK,
     Kept, Fields, Early, Reading, Bound, Unprepared
<1>6. CASE RunEnds(c)
  <2>0. \/ q = [r EXCEPT !.pc = "finish", !.env = AfterLogProb] /\ r.pc \in {"lowering", "called"} /\ r.prog.logProb = "ok"
        \/ q = [r EXCEPT !.pc = "unwind"] /\ r.pc \in {"lowering", "called"} /\ r.prog.logProb # "ok"
    BY <1>1, <1>2, <1>6 DEF RunEnds, Goto, At, Change
  <2>1. CASE q = [r EXCEPT !.pc = "finish", !.env = AfterLogProb] /\ r.pc \in {"lowering", "called"} /\ r.prog.logProb = "ok"
    <3>1. q.env = AfterLogProb /\ q.pc = "finish" /\ Kept(q, r, {"pc", "env"})
      BY <1>1, <1>2, <2>1 DEF CallOK, IsCall, Kept, Fields
    <3> QED
      BY <1>2, <2>1, <3>1 DEF CallOK, IsCall, IdleOK, EarlyOK, LateOK, ReadOK, LimitOK, FrameOK, WorkerOK, UnwindOK, LiveOK,
       Kept, Fields, Early, Reading, Bound, Unprepared, AfterLogProb
  <2>2. CASE q = [r EXCEPT !.pc = "unwind"] /\ r.pc \in {"lowering", "called"} /\ r.prog.logProb # "ok"
    <3>1. q.pc = "unwind" /\ Kept(q, r, {"pc"})
      BY <1>1, <1>2, <2>2 DEF CallOK, IsCall, Kept, Fields
    <3>2. LiveOK(q)
      BY <1>2, <2>2, <3>1, FrameLeft DEF CallOK, Kept, Fields, Bound
    <3> QED
      BY <3>2, <1>2, <2>2, <3>1 DEF CallOK, IsCall, IdleOK, EarlyOK, LateOK, ReadOK, LimitOK, FrameOK, WorkerOK, UnwindOK,
       Kept, Fields, Early, Reading, Bound, Unprepared, Refuses
  <2> QED
    BY <2>0, <2>1, <2>2
<1>7. CASE UnwindWorker(c)
  <2>0. q = [r EXCEPT !.pc = "unwound", !.live = @ \ {"wa"}] /\ r.pc = "unwind" /\ r.worker # "running"
    BY <1>1, <1>2, <1>7 DEF UnwindWorker, At, Change
  <2>1. q.pc = "unwound" /\ q.live = r.live \ {"wa"} /\ Kept(q, r, {"pc", "live"})
    BY <1>1, <1>2, <2>0 DEF CallOK, IsCall, Kept, Fields
  <2>2. LiveOK(q)
    BY <1>2, <2>0, <2>1 DEF CallOK, LiveOK, Fitting, Short, Kept, Fields, Early
  <2> QED
    BY <2>2, <1>2, <2>0, <2>1 DEF CallOK, IsCall, IdleOK, EarlyOK, LateOK, ReadOK, LimitOK, FrameOK, WorkerOK, UnwindOK,
     Kept, Fields, Early, Reading, Bound, Unprepared
<1>8. CASE UnwindFrame(c)
  <2>0. q = Back(r, NoModel) /\ r.pc = "unwound"
    BY <1>1, <1>2, <1>8 DEF UnwindFrame, Return, Back, At, Change
  <2>1. /\ q.pc = "idle" /\ q.worker = "none" /\ q.limit = 0 /\ q.outcome = NoModel
        /\ Kept(q, r, {"pc", "calls", "limit", "job", "live", "env", "bound", "wa", "started", "worker", "outcome"})
    BY <1>1, <1>2, <2>0 DEF CallOK, IsCall, Kept, Fields, Back
  <2> QED
    BY <1>2, <2>0, <2>1 DEF CallOK, IsCall, IdleOK, EarlyOK, LateOK, ReadOK, LimitOK, FrameOK, WorkerOK, UnwindOK, LiveOK,
     Kept, Fields, Early, Reading, Bound, Unprepared, NoModel
<1>9. CASE RunWorker(c)
  <2>0. q = [r EXCEPT !.worker = IF r.prog.gq = "throws" THEN "failed" ELSE "finished"] /\ r.worker = "running"
    BY <1>1, <1>2, <1>9 DEF RunWorker, LowerWriteArray, At, Change
  <2>1. /\ q.worker = (IF r.prog.gq = "throws" THEN "failed" ELSE "finished")
        /\ Kept(q, r, {"worker"})
    BY <1>1, <1>2, <2>0 DEF CallOK, IsCall, Kept, Fields
  <2>2. LiveOK(q)
    BY <1>2, <2>0, <2>1 DEF CallOK, LiveOK, Fitting, Short, Kept, Fields
  <2> QED
    BY <2>2, <1>2, <2>0, <2>1 DEF CallOK, IsCall, IdleOK, EarlyOK, LateOK, ReadOK, LimitOK, FrameOK, WorkerOK, UnwindOK,
     Kept, Fields, Early, Reading, Bound, Unprepared
<1>10. CASE FreeModel(c)
  <2>0. q = [r EXCEPT !.live = {}] /\ r.pc = "idle"
    BY <1>1, <1>2, <1>10 DEF FreeModel, At, Change
  <2>1. q.live = {} /\ Kept(q, r, {"live"})
    BY <1>1, <1>2, <2>0 DEF CallOK, IsCall, Kept, Fields
  <2> QED
    BY <1>2, <2>0, <2>1 DEF CallOK, IsCall, IdleOK, EarlyOK, LateOK, ReadOK, LimitOK, FrameOK, WorkerOK, UnwindOK, LiveOK,
     Kept, Fields, Early, Reading, Bound, Unprepared
<1> QED
  BY <1>3, <1>4, <1>5, <1>6, <1>7, <1>8, <1>9, <1>10

-----------------------------------------------------------------------------
(* Binding the data, and the write-array lowering that begins with it. *)
LEMMA PrepareCall ==
  ASSUME IInv, NEW c \in Clients, Prepare(c)
  PROVE  CallOK(c, b'[c])
<1>1. PICK r, q : r = b[c] /\ q = b'[c]
  OBVIOUS
<1>2. CallOK(c, r) /\ DOMAIN b = Clients
  BY <1>1 DEF IInv
<1> SUFFICES CallOK(c, q)
  BY <1>1
<1> DEFINE pc == IF r.prog.special = "none" THEN "lowering" ELSE "trial"
           s == [r EXCEPT !.pc = pc, !.env = Prepared, !.prepares = @ + 1]
<1>3. r.pc = "prepare" /\ BindData(c)
  BY <1>1 DEF Prepare, At
<1>4. CASE ~r.prog.prepare
  <2>1. q = [r EXCEPT !.pc = "unwind", !.prepares = @ + 1]
    BY <1>1, <1>2, <1>3, <1>4 DEF BindData, Change
  <2>2. q.pc = "unwind" /\ q.prepares = r.prepares + 1 /\ Kept(q, r, {"pc", "prepares"})
    BY <1>2, <2>1 DEF CallOK, IsCall, Kept, Fields
  <2>3. LiveOK(q)
    BY <1>2, <1>3, <2>2, FrameLeft DEF CallOK, Kept, Fields
  <2> QED
    BY <2>3, <1>2, <1>3, <1>4, <2>2
    DEF CallOK, IsCall, IdleOK, EarlyOK, LateOK, ReadOK, LimitOK, FrameOK, WorkerOK, UnwindOK,
        Kept, Fields, Early, Reading, Bound, Unprepared, Refuses
<1>5. CASE r.prog.prepare
  <2>1. q \in Begin(s)
    BY <1>1, <1>2, <1>3, <1>5 DEF BindData, Change
  <2>2. /\ s.pc = pc /\ s.env = Prepared /\ s.prepares = r.prepares + 1
        /\ Kept(s, r, {"pc", "env", "prepares"})
    BY <1>2 DEF CallOK, IsCall, Kept, Fields
  <2> HIDE DEF s
  <2>3. s.env \cap Prepared = Prepared
    BY <2>2
  <2>4. \/ q = s /\ s.prog.gq = "none"
        \/ \E started \in BOOLEAN :
             /\ q = [s EXCEPT !.live = @ \cup {"wa"}, !.wa = s.env \cap Prepared,
                              !.started = started,
                              !.worker = IF started THEN "running" ELSE "none"]
             /\ s.prog.nesting <= InlineLimit
        \/ q = [s EXCEPT !.live = @ \cup {"wa"}, !.bound = s.env]
    BY <2>1 DEF Begin, ShouldRunAlongside
  <2>5. CASE q = s /\ s.prog.gq = "none"
    BY <1>2, <1>3, <1>5, <2>2, <2>5
    DEF CallOK, IsCall, IdleOK, EarlyOK, LateOK, ReadOK, LimitOK, FrameOK, WorkerOK, UnwindOK, LiveOK,
        Kept, Fields, Early, Reading, Bound, Unprepared
  <2>6. ASSUME NEW started \in BOOLEAN,
               q = [s EXCEPT !.live = @ \cup {"wa"}, !.wa = s.env \cap Prepared,
                             !.started = started,
                             !.worker = IF started THEN "running" ELSE "none"],
               s.prog.nesting <= InlineLimit
        PROVE  CallOK(c, q)
    <3>1. /\ q.live = s.live \cup {"wa"} /\ q.wa = Prepared /\ q.worker \in {"none", "running"}
          /\ Kept(q, s, {"live", "wa", "started", "worker"})
      BY <2>2, <2>3, <2>6 DEF Kept, Fields
    <3>2. /\ q.pc = pc /\ q.env = Prepared /\ q.prepares = r.prepares + 1
          /\ Kept(q, r, {"pc", "env", "prepares", "live", "wa", "started", "worker"})
          /\ q.live = r.live \cup {"wa"} /\ q.prog.nesting <= InlineLimit
      BY <2>2, <2>6, <3>1 DEF Kept, Fields
    <3> QED
      BY <1>2, <1>3, <1>5, <3>1, <3>2
      DEF CallOK, IsCall, IdleOK, EarlyOK, LateOK, ReadOK, LimitOK, FrameOK, WorkerOK, UnwindOK, LiveOK,
          Kept, Fields, Early, Reading, Bound, Unprepared
  <2>7. CASE q = [s EXCEPT !.live = @ \cup {"wa"}, !.bound = s.env]
    <3>1. /\ q.bound = Prepared /\ Kept(q, s, {"live", "bound"})
      BY <2>2, <2>7 DEF Kept, Fields
    <3>2. /\ q.pc = pc /\ q.env = Prepared /\ q.prepares = r.prepares + 1
          /\ Kept(q, r, {"pc", "env", "prepares", "live", "bound"})
      BY <2>2, <3>1 DEF Kept, Fields
    <3> QED
      BY <1>2, <1>3, <1>5, <3>1, <3>2
      DEF CallOK, IsCall, IdleOK, EarlyOK, LateOK, ReadOK, LimitOK, FrameOK, WorkerOK, UnwindOK, LiveOK,
          Kept, Fields, Early, Reading, Bound, Unprepared
  <2> QED
    BY <2>4, <2>5, <2>6, <2>7
<1>6. r.prog.prepare \in BOOLEAN
  BY <1>2, <1>3, ProgramsAssumption DEF CallOK, ReadOK, Reading
<1> QED
  BY <1>4, <1>5

(* What is attached to a program that was walked to its end. *)
LEMMA AttachedModel ==
  ASSUME NEW p \in Programs, NEW env, NEW w, w = LowerWriteArray(p, Prepared),
         NEW m, m = Attach(p, w, env),
         Prepared \subseteq env, p.gq # "throws"
  PROVE  IF m.error THEN p.strict /\ p.gq \in {"partial", "misaligned"}
         ELSE /\ ~(p.strict /\ p.gq \in {"partial", "misaligned"})
              /\ ModelOf(p, m)
<1>1. /\ p.gq \in {"none", "whole", "partial", "misaligned"} /\ p.strict \in BOOLEAN
  BY ProgramsAssumption
<1>2. /\ w.error = FALSE /\ w.environment = Prepared
      /\ w.write_array = (IF p.gq = "whole" THEN "columns" ELSE "interpreter")
      /\ DOMAIN w = {"error", "environment", "write_array"}
  BY DEF LowerWriteArray
<1>3. CASE p.gq = "none"
  <2>1. m.error = FALSE /\ m.write_array = "none"
    BY <1>3 DEF Attach, NoModel
  <2> QED
    BY <1>3, <2>1 DEF ModelOf
<1>4. CASE p.gq = "whole"
  <2>1. m = w
    BY <1>2, <1>4 DEF Attach
  <2> QED
    BY <1>2, <1>4, <2>1 DEF ModelOf
<1>5. CASE p.gq \in {"partial", "misaligned"}
  <2>0. m = (IF p.strict THEN NoModel ELSE [w EXCEPT !.environment = env])
    BY <1>2, <1>5 DEF Attach
  <2>1. CASE p.strict
    BY <1>5, <2>0, <2>1 DEF NoModel
  <2>2. CASE ~p.strict
    <3>1. m = [w EXCEPT !.environment = env]
      BY <2>0, <2>2
    <3>2. m.error = FALSE /\ m.environment = env /\ m.write_array = "interpreter"
      BY <1>2, <1>5, <3>1
    <3> QED
      BY <1>5, <2>2, <3>2 DEF ModelOf
  <2> QED
    BY <2>1, <2>2
<1> QED
  BY <1>1, <1>3, <1>4, <1>5

(* A program that was walked to its end is refused only for its generated *)
(* quantities.                                                            *)
LEMMA NothingElseRefuses ==
  ASSUME NEW r, LimitOK(r), FrameOK(r), r.pc = "finish", Refuses(r.prog)
  PROVE  \/ r.prog.gq = "throws"
         \/ r.prog.strict /\ r.prog.gq \in {"partial", "misaligned"}
<1>1. /\ r.prog \in Programs /\ r.prog.prepare /\ r.prog.logProb = "ok"
      /\ r.prog.nesting <= (IF r.limit # 0 THEN r.limit ELSE InlineLimit)
  BY DEF FrameOK, Bound
<1>2. r.prog.nesting \in Nat
  BY <1>1, ProgramsAssumption
<1>3. ~(r.prog.nesting > InlineLimit /\ Beyond(r.prog))
  <2>1. CASE r.limit = 0
    BY <1>1, <1>2, <2>1, StackFacts
  <2>2. CASE r.limit # 0
    <3>1. r.tried \in 0 .. Len(StackLimits) - 1 /\ r.limit = StackLimits[r.tried + 1]
      BY <2>2 DEF LimitOK
    <3>2. r.tried + 1 \in 1 .. Len(StackLimits)
      BY <3>1, StackFacts
    <3>3. r.prog.nesting <= StackLimits[r.tried + 1] /\ StackLimits[r.tried + 1] \in Nat
      BY <1>1, <2>2, <3>1, <3>2, StackFacts
    <3> QED
      BY <1>2, <3>2, <3>3 DEF Beyond
  <2> QED
    BY <2>1, <2>2
<1> QED
  BY <1>1, <1>3 DEF Refuses

(* The end of a build: an error of the worker's or a model. *)
LEMMA FinishCall ==
  ASSUME IInv, NEW c \in Clients, Finish(c)
  PROVE  CallOK(c, b'[c])
<1>1. PICK r, q : r = b[c] /\ q = b'[c]
  OBVIOUS
<1>2. CallOK(c, r) /\ DOMAIN b = Clients
  BY <1>1 DEF IInv
<1> SUFFICES CallOK(c, q)
  BY <1>1
<1>3. r.pc = "finish" /\ r.worker # "running"
  BY <1>1 DEF Finish, At
<1>4. /\ r.prog \in Programs /\ Prepared \subseteq r.env /\ r.prepares = 1
      /\ r.prog.gq # "none" => r.wa = Prepared \/ (r.wa = {} /\ r.bound = Prepared)
  BY <1>2, <1>3 DEF CallOK, FrameOK, Bound
<1> DEFINE w == LowerWriteArray(r.prog, WaEnvironment(c))
           m == Attach(r.prog, w, r.env)
<1>5. w.error <=> r.prog.gq = "throws"
  BY DEF LowerWriteArray
<1>6. CASE r.worker = "failed" \/ w.error
  <2>1. q = [r EXCEPT !.pc = "unwind"]
    BY <1>1, <1>2, <1>6 DEF Finish, Goto, Change
  <2>2. r.prog.gq = "throws"
    BY <1>2, <1>5, <1>6 DEF CallOK, WorkerOK
  <2>3. q.pc = "unwind" /\ Kept(q, r, {"pc"})
    BY <1>2, <2>1 DEF CallOK, IsCall, Kept, Fields
  <2>4. LiveOK(q)
    BY <1>2, <1>3, <2>3, FrameLeft DEF CallOK, Kept, Fields, Bound
  <2> QED
    BY <2>4, <1>2, <1>3, <1>4, <2>2, <2>3
    DEF CallOK, IsCall, IdleOK, EarlyOK, LateOK, ReadOK, LimitOK, FrameOK, WorkerOK, UnwindOK,
        Kept, Fields, Early, Reading, Bound, Unprepared, Refuses
<1>7. CASE ~(r.worker = "failed" \/ w.error)
  <2>1. q = Back(r, m)
    BY <1>1, <1>2, <1>7 DEF Finish, Return, Back, Change
  <2>2. m = Attach(r.prog, LowerWriteArray(r.prog, Prepared), r.env)
    <3>1. CASE r.prog.gq = "none"
      BY <3>1 DEF Attach
    <3>2. CASE r.prog.gq # "none"
      <4>1. Prepared # {} /\ Prepared \cap r.env = Prepared
        BY <1>4 DEF Prepared
      <4>2. WaEnvironment(c) = Prepared
        BY <1>1, <1>4, <3>2, <4>1 DEF WaEnvironment
      <4> QED
        BY <4>2
    <3> QED
      BY <3>1, <3>2
  <2>3. IF m.error THEN r.prog.strict /\ r.prog.gq \in {"partial", "misaligned"}
        ELSE /\ ~(r.prog.strict /\ r.prog.gq \in {"partial", "misaligned"})
             /\ ModelOf(r.prog, m)
    BY <1>4, <1>5, <1>7, <2>2, AttachedModel
  <2> HIDE DEF m
  <2>4. IF m.error THEN Refuses(r.prog) ELSE ~Refuses(r.prog) /\ ModelOf(r.prog, m)
    <3>1. CASE m.error
      BY <2>3, <3>1 DEF Refuses
    <3>2. CASE ~m.error
      BY <1>2, <1>3, <1>5, <1>7, <2>3, <3>2, NothingElseRefuses DEF CallOK
    <3> QED
      BY <3>1, <3>2
  <2>5. /\ q.pc = "idle" /\ q.worker = "none" /\ q.limit = 0 /\ q.outcome = m
        /\ Kept(q, r, {"pc", "calls", "limit", "job", "live", "env", "bound", "wa", "started",
                       "worker", "outcome"})
    BY <1>2, <2>1 DEF CallOK, IsCall, Kept, Fields, Back
  <2> QED
    BY <1>2, <1>3, <1>4, <2>4, <2>5
    DEF CallOK, IsCall, IdleOK, EarlyOK, LateOK, ReadOK, LimitOK, FrameOK, WorkerOK, UnwindOK, LiveOK,
        Kept, Fields, Early, Reading, Bound, Unprepared
<1> QED
  BY <1>6, <1>7

-----------------------------------------------------------------------------
(* A step of one client leaves the calls of the others alone. *)
LEMMA OtherCalls ==
  ASSUME DOMAIN b = Clients, NEW c \in Clients, NEW r, Change(c, r)
  PROVE  DOMAIN b' = Clients /\ b'[c] = r /\ \A d \in Clients : d # c => b'[d] = b[d]
BY DEF Change

(* What a client's step leaves of the others' calls. *)
Alone(c) == DOMAIN b' = Clients /\ \A d \in Clients : d # c => b'[d] = b[d]

(* Every step of a client is a step of its own call. *)
LEMMA StepsAlone ==
  ASSUME DOMAIN b = Clients, NEW c \in Clients,
         \/ Translate(c) \/ CompileModel(c) \/ RunWorker(c) \/ FreeModel(c)
         \/ RunCompiler(c) \/ CompilerRan(c)
  PROVE  Alone(c)
<1>1. CASE Translate(c)
  BY <1>1 DEF Alone, Translate, Call, Lock, StartOcaml, ReleaseAfterStartup, AlreadyStarted,
              RegisterThread, AcquireRuntime, InvokeCallback, UnregisterThread, Unlock, Goto,
              Return, Change
<1>2. CASE CompileModel(c)
  <2>1. CASE Prepare(c)
    BY <2>1 DEF Alone, Prepare, BindData, Change
  <2>2. CASE ~Prepare(c)
    BY <1>2, <2>2 DEF Alone, CompileModel, SpawnHelper, SpawnFails, Decode, DecodeOnHelper, Decoded,
                DestroyOnHelper, CompileOnHelper, Trial, EnterFunction, LeaveFunction, RunEnds,
                Finish, UnwindWorker, UnwindFrame, RunOnLargeStack, Goto, Return, Change
  <2> QED
    BY <2>1, <2>2
<1>3. CASE RunWorker(c) \/ FreeModel(c) \/ RunCompiler(c) \/ CompilerRan(c)
  BY <1>3 DEF Alone, RunWorker, FreeModel, RunCompiler, CompilerRan, Return, Change
<1> QED
  BY <1>1, <1>2, <1>3

(* What a step of client c has to leave of the bridge. *)
BridgeKept ==
  /\ ~startup_once' => startup_thread' = NoClient
  /\ \A d \in Clients : BridgeOK(d)'

(* A client's steps in stanli_stanc_compile keep the rules of the bridge. *)
LEMMA TranslateBridge ==
  ASSUME IInv, NEW c \in Clients, Translate(c)
  PROVE  BridgeKept
<1>1. PICK r, q : r = b[c] /\ q = b'[c]
  OBVIOUS
<1>2. CallOK(c, r) /\ DOMAIN b = Clients /\ Alone(c) /\ c # NoClient
  BY <1>1, StepsAlone, BuildAssumption DEF IInv
<1>3. /\ ~startup_once => startup_thread = NoClient
      /\ \A d \in Clients : BridgeOK(d) /\ d # NoClient
  BY BuildAssumption DEF IInv
<1>4. CASE Call(c)
  <2>1. r.pc = "idle" /\ q.pc \in {"idle", "lock"}
    BY <1>1, <1>2, <1>4 DEF Call, Fresh, At, Change, CallOK, IsCall
  <2> QED
    BY <1>1, <1>2, <1>3, <1>4, <2>1 DEF Call, bridge, BridgeKept, BridgeOK, Inside, Alone
<1>5. CASE Lock(c)
  <2>1. r.pc = "lock" /\ q.pc = "once"
    BY <1>1, <1>2, <1>5 DEF Lock, Goto, At, Change, CallOK, IsCall
  <2> QED
    BY <1>1, <1>2, <1>3, <1>5, <2>1 DEF Lock, bridge, BridgeKept, BridgeOK, Inside, Alone
<1>6. CASE StartOcaml(c)
  <2>1. r.pc = "once" /\ q.pc = "started"
    BY <1>1, <1>2, <1>6 DEF StartOcaml, Goto, At, Change, CallOK, IsCall
  <2> QED
    BY <1>1, <1>2, <1>3, <1>6, <2>1 DEF StartOcaml, bridge, BridgeKept, BridgeOK, Inside, Alone
<1>7. CASE ReleaseAfterStartup(c)
  <2>1. r.pc = "started" /\ q.pc = "register"
    BY <1>1, <1>2, <1>7 DEF ReleaseAfterStartup, Goto, At, Change, CallOK, IsCall
  <2> QED
    BY <1>1, <1>2, <1>3, <1>7, <2>1 DEF ReleaseAfterStartup, bridge, BridgeKept, BridgeOK, Inside, Alone
<1>8. CASE AlreadyStarted(c)
  <2>1. r.pc = "once" /\ q.pc = "register"
    BY <1>1, <1>2, <1>8 DEF AlreadyStarted, Goto, At, Change, CallOK, IsCall
  <2> QED
    BY <1>1, <1>2, <1>3, <1>8, <2>1 DEF AlreadyStarted, bridge, BridgeKept, BridgeOK, Inside, Alone
<1>9. CASE RegisterThread(c)
  <2>1. /\ r.pc = "register"
        /\ \/ q.pc = "acquire" /\ startup_thread = c /\ registered' = registered
           \/ q.pc = "acquire" /\ startup_thread # c /\ registered' = registered \cup {c}
           \/ q.pc = "unlock" /\ registered' = registered
    BY <1>1, <1>2, <1>9 DEF RegisterThread, Goto, At, Change, CallOK, IsCall
  <2> QED
    BY <1>1, <1>2, <1>3, <1>9, <2>1 DEF RegisterThread, bridge, BridgeKept, BridgeOK, Inside, Alone
<1>10. CASE AcquireRuntime(c)
  <2>1. r.pc = "acquire" /\ q.pc = "callback"
    BY <1>1, <1>2, <1>10 DEF AcquireRuntime, Goto, At, Change, CallOK, IsCall
  <2> QED
    BY <1>1, <1>2, <1>3, <1>10, <2>1 DEF AcquireRuntime, bridge, BridgeKept, BridgeOK, Inside, Alone
<1>11. CASE InvokeCallback(c)
  <2>1. r.pc = "callback" /\ q.pc = "unregister"
    BY <1>1, <1>2, <1>11 DEF InvokeCallback, At, Change, CallOK, IsCall
  <2> QED
    BY <1>1, <1>2, <1>3, <1>11, <2>1 DEF InvokeCallback, bridge, BridgeKept, BridgeOK, Inside, Alone
<1>12. CASE UnregisterThread(c)
  <2>1. r.pc = "unregister" /\ q.pc = "unlock"
    BY <1>1, <1>2, <1>12 DEF UnregisterThread, Goto, At, Change, CallOK, IsCall
  <2> QED
    BY <1>1, <1>2, <1>3, <1>12, <2>1 DEF UnregisterThread, bridge, BridgeKept, BridgeOK, Inside, Alone
<1>13. CASE Unlock(c)
  <2>1. r.pc = "unlock" /\ q.pc \in {"idle", "decode"}
    BY <1>1, <1>2, <1>13 DEF Unlock, Goto, Return, At, Change, CallOK, IsCall
  <2> QED
    BY <1>1, <1>2, <1>3, <1>13, <2>1 DEF Unlock, bridge, BridgeKept, BridgeOK, Inside, Alone
<1> QED
  BY <1>4, <1>5, <1>6, <1>7, <1>8, <1>9, <1>10, <1>11, <1>12, <1>13 DEF Translate

(* A client outside the translation, whose step leaves it outside, leaves *)
(* the bridge as it was.                                                  *)
LEMMA OutsideBridge ==
  ASSUME IInv, NEW c \in Clients, Alone(c), UNCHANGED bridge,
         b[c].pc \notin Inside, b'[c].pc \notin Inside
  PROVE  BridgeKept
<1>1. /\ ~startup_once => startup_thread = NoClient
      /\ \A d \in Clients : BridgeOK(d)
  BY DEF IInv
<1>2. \A d \in Clients : BridgeOK(d)'
  <2> SUFFICES ASSUME NEW d \in Clients PROVE BridgeOK(d)'
    OBVIOUS
  <2>1. CASE d = c
    BY <1>1, <2>1 DEF BridgeOK, Inside, bridge
  <2>2. CASE d # c
    BY <1>1, <2>2 DEF BridgeOK, Alone, bridge
  <2> QED
    BY <2>1, <2>2
<1> QED
  BY <1>1, <1>2 DEF BridgeKept, bridge

(* compile_model, its worker and the compiler process run outside of it. *)
LEMMA BuildBridge ==
  ASSUME IInv, NEW c \in Clients,
         CompileModel(c) \/ RunWorker(c) \/ FreeModel(c) \/ RunCompiler(c) \/ CompilerRan(c)
  PROVE  BridgeKept
<1>1. PICK r, q : r = b[c] /\ q = b'[c]
  OBVIOUS
<1>2. CallOK(c, r) /\ DOMAIN b = Clients /\ Alone(c)
  BY <1>1, StepsAlone DEF IInv
<1>3. IsCall(r)
  BY <1>2 DEF CallOK
<1>4. UNCHANGED bridge /\ r.pc \notin Inside /\ q.pc \notin Inside
  <2>1. CASE Prepare(c)
    <3>0. UNCHANGED bridge /\ r.pc = "prepare"
      BY <1>1, <2>1 DEF Prepare, At
    <3> DEFINE pc == IF r.prog.special = "none" THEN "lowering" ELSE "trial"
               s == [r EXCEPT !.pc = pc, !.env = Prepared, !.prepares = @ + 1]
    <3>1. CASE ~r.prog.prepare
      BY <1>1, <1>2, <1>3, <2>1, <3>0, <3>1 DEF Prepare, BindData, Change, IsCall, Inside
    <3>2. CASE r.prog.prepare
      <4>1. q \in Begin(s)
        BY <1>1, <1>2, <2>1, <3>2 DEF Prepare, BindData, Change
      <4>2. s.pc = pc /\ DOMAIN s = DOMAIN r
        BY <1>3 DEF IsCall
      <4> HIDE DEF s
      <4>3. q.pc = s.pc
        BY <1>3, <4>1, <4>2 DEF Begin, IsCall
      <4> QED
        BY <3>0, <4>2, <4>3 DEF Inside
    <3> QED
      BY <3>1, <3>2
  <2>2. CASE CompileModel(c) /\ ~Prepare(c)
    <3>1. CASE SpawnHelper(c)
      BY <1>1, <1>2, <1>3, <3>1 DEF SpawnHelper, Change, At, IsCall, Inside
    <3>2. CASE SpawnFails(c)
      BY <1>1, <1>2, <1>3, <3>2 DEF SpawnFails, Change, At, IsCall, Inside
    <3>3. CASE Decode(c)
      BY <1>1, <1>2, <1>3, <3>3 DEF Decode, RunOnLargeStack, Goto, Change, At, IsCall, Inside
    <3>4. CASE DecodeOnHelper(c)
      BY <1>1, <1>2, <1>3, <3>4 DEF DecodeOnHelper, Change, At, IsCall, Inside
    <3>5. CASE Decoded(c)
      BY <1>1, <1>2, <1>3, <3>5 DEF Decoded, RunOnLargeStack, Change, At, IsCall, Inside
    <3>6. CASE DestroyOnHelper(c)
      BY <1>1, <1>2, <1>3, <3>6 DEF DestroyOnHelper, Change, At, IsCall, Inside
    <3>7. CASE CompileOnHelper(c)
      BY <1>1, <1>2, <1>3, <3>7 DEF CompileOnHelper, Goto, Change, At, IsCall, Inside
    <3>8. CASE Trial(c)
      BY <1>1, <1>2, <1>3, <3>8 DEF Trial, Goto, Change, At, IsCall, Inside
    <3>9. CASE EnterFunction(c)
      BY <1>1, <1>2, <1>3, <3>9 DEF EnterFunction, Change, At, IsCall, Inside
    <3>10. CASE LeaveFunction(c)
      BY <1>1, <1>2, <1>3, <3>10 DEF LeaveFunction, Change, At, IsCall, Inside
    <3>11. CASE RunEnds(c)
      BY <1>1, <1>2, <1>3, <3>11 DEF RunEnds, Goto, Change, At, IsCall, Inside
    <3>12. CASE Finish(c)
      <4>1. /\ UNCHANGED bridge /\ r.pc = "finish"
            /\ q = [r EXCEPT !.pc = "unwind"] \/ \E m : q = Back(r, m)
        BY <1>1, <1>2, <3>12 DEF Finish, Goto, Return, Back, Change, At
      <4> QED
        BY <1>3, <4>1 DEF Back, IsCall, Inside
    <3>13. CASE UnwindWorker(c)
      BY <1>1, <1>2, <1>3, <3>13 DEF UnwindWorker, Change, At, IsCall, Inside
    <3>14. CASE UnwindFrame(c)
      BY <1>1, <1>2, <1>3, <3>14 DEF UnwindFrame, Return, Change, At, IsCall, Inside
    <3> QED
      BY <2>2, <3>1, <3>2, <3>3, <3>4, <3>5, <3>6, <3>7, <3>8, <3>9, <3>10, <3>11, <3>12, <3>13, <3>14 DEF CompileModel
  <2>3. CASE RunWorker(c)
    BY <1>1, <1>2, <1>3, <2>3 DEF RunWorker, Change, IsCall, Inside, CallOK, WorkerOK, Bound
  <2>4. CASE RunCompiler(c)
    BY <1>1, <1>2, <1>3, <2>4 DEF RunCompiler, Change, At, Fresh, Inside
  <2>5. CASE CompilerRan(c)
    <3>1. /\ UNCHANGED bridge /\ r.pc = "process"
          /\ \/ q = Back(r, NoModel)
             \/ \E p \in Programs :
                  q = [r EXCEPT !.pc = "decode", !.prog = p,
                                !.outcome = [NoModel EXCEPT !.error = FALSE]]
      BY <1>1, <1>2, <2>5 DEF CompilerRan, Return, Back, Change, At
    <3> QED
      BY <1>3, <3>1 DEF Back, IsCall, Inside
  <2>6. CASE FreeModel(c)
    BY <1>1, <1>2, <1>3, <2>6 DEF FreeModel, Change, At, IsCall, Inside
  <2> QED
    BY <2>1, <2>2, <2>3, <2>4, <2>5, <2>6
<1> QED
  BY <1>1, <1>2, <1>4, OutsideBridge

-----------------------------------------------------------------------------
(* The compiler process. *)
ProcFields == {"caller", "reader", "child", "printed", "left", "pipe", "got", "status",
               "read_ok", "err_ok", "result"}
SameProc(S) == DOMAIN proc' = ProcFields /\ \A x \in ProcFields : x \notin S => proc'[x] = proc[x]

(* A process starts with everything left to print. *)
LEMMA StartedProcess ==
  ASSUME ProcOK, StartProcess
  PROVE  ProcOK'
<1>1. PICK n : n = proc'
  OBVIOUS
<1>2. CASE n = [NoProcess EXCEPT !.caller = "done", !.result = "error"]
  <2>1. /\ DOMAIN n = ProcFields /\ n.printed = Nothing /\ n.left = Nothing /\ n.pipe = Nothing
        /\ n.got = Nothing /\ n.child = "none" /\ n.result = "error" /\ n.caller = "done"
        /\ n.reader = "none"
    BY <1>2 DEF NoProcess, ProcFields
  <2> QED
    BY <1>1, <2>1 DEF ProcOK, ProcFields, Nothing
<1>3. ASSUME NEW o \in Outputs,
             n = [NoProcess EXCEPT
                    !.caller = "reading", !.reader = "reading", !.child = "running",
                    !.printed = [s \in Streams |-> o[s]], !.left = [s \in Streams |-> o[s]],
                    !.status = o.status]
      PROVE  ProcOK'
  <2>1. /\ DOMAIN n = ProcFields /\ n.printed = [s \in Streams |-> o[s]] /\ n.left = n.printed
        /\ n.pipe = Nothing /\ n.got = Nothing /\ n.child = "running" /\ n.result = "none"
        /\ n.caller = "reading" /\ n.reader = "reading"
    BY <1>3 DEF NoProcess, ProcFields
  <2>2. \A s \in Streams : o[s] \in Nat
    BY ProcessAssumption
  <2> QED
    BY <1>1, <2>1, <2>2 DEF ProcOK, ProcFields, Nothing
<1> QED
  BY <1>1, <1>2, <1>3 DEF StartProcess

(* Where a piece is, on each stream, in numbers. *)
LEMMA ProcNumbers ==
  ASSUME ProcOK, NEW s \in Streams
  PROVE  /\ proc.left[s] \in Nat /\ proc.pipe[s] \in Nat /\ proc.got[s] \in Nat
         /\ proc.printed[s] = proc.left[s] + proc.pipe[s] + proc.got[s]
BY DEF ProcOK

(* A piece that the child writes moves from it to a pipe that is read. *)
LEMMA WrittenPiece ==
  ASSUME ProcOK, ChildWrites
  PROVE  ProcOK'
<1>1. PICK s \in Streams :
        /\ proc.left[s] > 0 /\ ~Closed(s)
        /\ proc' = [proc EXCEPT !.left[s] = @ - 1, !.pipe[s] = @ + 1]
  BY DEF ChildWrites
<1>2. proc.child = "running" /\ DOMAIN proc = ProcFields
  BY DEF ChildWrites, ProcOK, ProcFields
<1>3. /\ proc'.left = [proc.left EXCEPT ![s] = proc.left[s] - 1]
      /\ proc'.pipe = [proc.pipe EXCEPT ![s] = proc.pipe[s] + 1]
      /\ SameProc({"left", "pipe"})
  BY <1>1, <1>2 DEF SameProc, ProcFields
<1>4. proc'.left \in [Streams -> Nat] /\ proc'.pipe \in [Streams -> Nat]
  BY <1>1, <1>3, ProcNumbers DEF ProcOK
<1>5. \A t \in Streams : proc'.printed[t] = proc'.left[t] + proc'.pipe[t] + proc'.got[t]
  <2> SUFFICES ASSUME NEW t \in Streams
               PROVE  proc'.printed[t] = proc'.left[t] + proc'.pipe[t] + proc'.got[t]
    OBVIOUS
  <2>1. proc'.printed[t] = proc.printed[t] /\ proc'.got[t] = proc.got[t]
    BY <1>3 DEF SameProc, ProcFields
  <2>2. CASE t = s
    <3>1. proc'.left[t] = proc.left[t] - 1 /\ proc'.pipe[t] = proc.pipe[t] + 1
      BY <1>3, <2>2 DEF ProcOK
    <3> QED
      BY <1>1, <2>1, <3>1, ProcNumbers
  <2>3. CASE t # s
    <3>1. proc'.left[t] = proc.left[t] /\ proc'.pipe[t] = proc.pipe[t]
      BY <1>3, <2>3 DEF ProcOK
    <3> QED
      BY <2>1, <3>1, ProcNumbers
  <2> QED
    BY <2>2, <2>3
<1>6. /\ proc.caller # "none" /\ (proc.reader = "done" => ~proc.err_ok)
      /\ proc.caller # "reading" => ~proc.read_ok
  BY <1>2 DEF ProcOK
<1> QED
  BY <1>2, <1>3, <1>4, <1>5, <1>6 DEF ProcOK, SameProc, ProcFields

(* A piece that is read moves from its pipe to its reader. *)
LEMMA TakenPiece ==
  ASSUME ProcOK, NEW s \in Streams, proc.pipe[s] > 0, proc' = Take(s), proc.child # "none"
  PROVE  ProcOK'
<1>1. DOMAIN proc = ProcFields
  BY DEF ProcOK, ProcFields
<1>2. /\ proc'.pipe = [proc.pipe EXCEPT ![s] = proc.pipe[s] - 1]
      /\ proc'.got = [proc.got EXCEPT ![s] = proc.got[s] + 1]
      /\ SameProc({"pipe", "got"})
  BY <1>1 DEF Take, SameProc, ProcFields
<1>3. proc'.pipe \in [Streams -> Nat] /\ proc'.got \in [Streams -> Nat]
  BY <1>2, ProcNumbers DEF ProcOK
<1>4. \A t \in Streams : /\ proc'.printed[t] = proc'.left[t] + proc'.pipe[t] + proc'.got[t]
                         /\ proc.pipe[t] = 0 => proc'.pipe[t] = 0
  <2> SUFFICES ASSUME NEW t \in Streams
               PROVE  /\ proc'.printed[t] = proc'.left[t] + proc'.pipe[t] + proc'.got[t]
                      /\ proc.pipe[t] = 0 => proc'.pipe[t] = 0
    OBVIOUS
  <2>1. proc'.printed[t] = proc.printed[t] /\ proc'.left[t] = proc.left[t]
    BY <1>2 DEF SameProc, ProcFields
  <2>2. CASE t = s
    <3>1. proc'.pipe[t] = proc.pipe[t] - 1 /\ proc'.got[t] = proc.got[t] + 1
      BY <1>2, <2>2 DEF ProcOK
    <3>2. /\ proc.left[t] \in Nat /\ proc.pipe[t] \in Nat /\ proc.got[t] \in Nat /\ proc.pipe[t] > 0
          /\ proc.printed[t] = proc.left[t] + proc.pipe[t] + proc.got[t]
      BY <2>2, ProcNumbers
    <3> QED
      BY <2>1, <3>1, <3>2
  <2>3. CASE t # s
    <3>1. proc'.pipe[t] = proc.pipe[t] /\ proc'.got[t] = proc.got[t]
      BY <1>2, <2>3 DEF ProcOK
    <3> QED
      BY <2>1, <3>1, ProcNumbers
  <2> QED
    BY <2>2, <2>3
<1> QED
  BY <1>1, <1>2, <1>3, <1>4 DEF ProcOK, SameProc, ProcFields, Streams

(* The pipes are emptied before their readers end, and the child is gone by then. *)
LEMMA ProcessStep ==
  ASSUME ProcOK, RunProcess
  PROVE  ProcOK'
<1>1. DOMAIN proc = ProcFields
  BY DEF ProcOK, ProcFields
<1>2. CASE ChildWrites
  BY <1>2, WrittenPiece
<1>3. CASE ChildExits
  <2>1. proc.child = "running" /\ proc.left = Nothing /\ proc'.child = "exited" /\ SameProc({"child"})
    BY <1>1, <1>3 DEF ChildExits, SameProc, ProcFields
  <2> QED
    BY <2>1 DEF ProcOK, SameProc, ProcFields, Nothing
<1>4. CASE ChildKilled
  <2>1. proc.child = "running" /\ proc'.child = "killed" /\ SameProc({"child"})
    BY <1>1, <1>4 DEF ChildKilled, SameProc, ProcFields
  <2> QED
    BY <2>1 DEF ProcOK, SameProc, ProcFields
<1>5. CASE ReadErr
  <2>0. proc.child # "none"
    BY <1>5 DEF ProcOK, ReadErr
  <2>1. CASE proc.pipe["err"] > 0 /\ proc' = Take("err")
    BY <2>0, <2>1, TakenPiece DEF Streams
  <2>2. CASE AtEnd("err") /\ proc' = [proc EXCEPT !.reader = "done"]
    <3>1. /\ proc.pipe["err"] = 0 /\ proc.child # "running" /\ proc'.reader = "done"
          /\ SameProc({"reader"})
      BY <1>1, <2>2 DEF AtEnd, SameProc, ProcFields
    <3> QED
      BY <2>0, <3>1 DEF ProcOK, SameProc, ProcFields
  <2> QED
    BY <1>5, <2>1, <2>2 DEF ReadErr
<1>6. CASE ReadFailed
  <2>1. /\ proc.caller = "reading" /\ proc'.caller = "joining" /\ proc'.read_ok = FALSE
        /\ SameProc({"caller", "read_ok"})
    BY <1>1, <1>6 DEF ReadFailed, SameProc, ProcFields
  <2> QED
    BY <2>1 DEF ProcOK, SameProc, ProcFields
<1>7. CASE ReadOut
  <2>0. proc.caller = "reading" /\ proc.child # "none"
    BY <1>7 DEF ProcOK, ReadOut
  <2>1. CASE proc.pipe["out"] > 0 /\ proc' = Take("out")
    BY <2>0, <2>1, TakenPiece DEF Streams
  <2>2. CASE AtEnd("out") /\ proc' = [proc EXCEPT !.caller = "joining"]
    <3>1. /\ proc.pipe["out"] = 0 /\ proc.child # "running" /\ proc'.caller = "joining"
          /\ SameProc({"caller"})
      BY <1>1, <2>2 DEF AtEnd, SameProc, ProcFields
    <3> QED
      BY <2>0, <3>1 DEF ProcOK, SameProc, ProcFields
  <2> QED
    BY <1>7, <2>1, <2>2 DEF ReadOut
<1>8. CASE JoinReader
  <2>1. /\ proc.caller = "joining" /\ proc.reader = "done" /\ proc'.caller = "waiting"
        /\ SameProc({"caller"})
    BY <1>1, <1>8 DEF JoinReader, SameProc, ProcFields
  <2> QED
    BY <2>1 DEF ProcOK, SameProc, ProcFields
<1>9. CASE WaitChild
  <2>1. PICK waited \in BOOLEAN :
          proc' = [proc EXCEPT !.caller = "done",
                               !.result = IF waited /\ proc.read_ok /\ ExitStatus = 0
                                            THEN "output" ELSE "error"]
    BY <1>9 DEF WaitChild
  <2>2. /\ proc.caller = "waiting" /\ proc.child # "running" /\ proc'.caller = "done"
        /\ SameProc({"caller", "result"})
        /\ proc'.result = (IF waited /\ proc.read_ok /\ ExitStatus = 0 THEN "output" ELSE "error")
    BY <1>1, <1>9, <2>1 DEF WaitChild, SameProc, ProcFields
  <2>3. proc'.result = "output" => proc.read_ok /\ proc.child = "exited"
    BY <2>2 DEF ExitStatus
  <2>4. proc'.result \in {"output", "error"}
    BY <2>2
  <2> QED
    BY <2>2, <2>3, <2>4 DEF ProcOK, SameProc, ProcFields
<1>10. CASE ReadErrFailed
  <2>1. /\ proc.reader = "reading" /\ proc'.reader = "done" /\ proc'.err_ok = FALSE
        /\ SameProc({"reader", "err_ok"})
    BY <1>1, <1>10 DEF ReadErrFailed, SameProc, ProcFields
  <2> QED
    BY <2>1 DEF ProcOK, SameProc, ProcFields
<1> QED
  BY <1>2, <1>3, <1>4, <1>5, <1>6, <1>7, <1>8, <1>9, <1>10 DEF RunProcess, Child, BrokenPipe, Caller

-----------------------------------------------------------------------------
(* Init establishes the invariant. *)
LEMMA InitIInv == ASSUME Init PROVE IInv
<1>1. DOMAIN b = Clients /\ \A c \in Clients : b[c] = Fresh
  BY DEF Init
<1>2. PICK r : r = Fresh
  OBVIOUS
<1>3. /\ DOMAIN r = Fields /\ r.pc = "idle" /\ r.worker = "none" /\ r.prepares = 0 /\ r.limit = 0
      /\ r.prog = NoProgram
  BY <1>2 DEF Fresh, Fields
<1>4. ASSUME NEW c \in Clients PROVE CallOK(c, r)
  BY <1>3
  DEF CallOK, IsCall, IdleOK, EarlyOK, LateOK, ReadOK, LimitOK, FrameOK, WorkerOK, UnwindOK, LiveOK,
      Fields, Early, Reading, Bound
<1>5. ASSUME NEW c \in Clients PROVE BridgeOK(c)
  <2>1. b[c].pc = "idle" /\ c # NoClient
    BY <1>1, <1>2, <1>3, BuildAssumption
  <2> QED
    BY <2>1 DEF BridgeOK, Inside, Init
<1>6. ProcOK
  <2>1. PICK n : n = NoProcess
    OBVIOUS
  <2>2. /\ DOMAIN n = ProcFields /\ n.printed = Nothing /\ n.left = Nothing /\ n.pipe = Nothing
        /\ n.got = Nothing /\ n.child = "none" /\ n.result = "none" /\ n.caller = "none"
        /\ n.reader = "none"
    BY <2>1 DEF NoProcess, ProcFields
  <2> QED
    BY <2>1, <2>2 DEF Init, ProcOK, ProcFields, Nothing
<1> QED
  BY <1>1, <1>2, <1>4, <1>5, <1>6 DEF IInv, Init

(* A step of client c keeps the invariant, once its own call, the bridge and *)
(* the process are known to be right after it.                               *)
LEMMA ClientStep ==
  ASSUME IInv, NEW c \in Clients, Alone(c), CallOK(c, b'[c]), BridgeKept, ProcOK'
  PROVE  IInv'
<1>1. ASSUME NEW d \in Clients PROVE CallOK(d, b'[d])
  <2>1. CASE d = c
    BY <2>1
  <2>2. CASE d # c
    BY <2>2 DEF IInv, Alone
  <2> QED
    BY <2>1, <2>2
<1>2. \A d \in Clients : CallOK(d, b[d])'
  BY <1>1 DEF CallOK, IsCall, IdleOK, EarlyOK, LateOK, ReadOK, LimitOK, FrameOK, WorkerOK, UnwindOK, LiveOK
<1> QED
  BY <1>2 DEF IInv, Alone, BridgeKept

(* Every step keeps the invariant. *)
LEMMA NextIInv ==
  ASSUME IInv, [Next]_vars
  PROVE  IInv'
<1>0. ProcOK /\ DOMAIN b = Clients
  BY DEF IInv
<1>1. ASSUME NEW c \in Clients, Translate(c) \/ CompileModel(c) \/ RunWorker(c) \/ FreeModel(c),
             UNCHANGED proc
      PROVE  IInv'
  <2>1. Alone(c)
    BY <1>0, <1>1, StepsAlone
  <2>2. CallOK(c, b'[c])
    BY <1>1, TranslateCall, ReaderCall, LoweringCall, PrepareCall, FinishCall DEF CompileModel
  <2>3. BridgeKept
    BY <1>1, TranslateBridge, BuildBridge
  <2>4. ProcOK'
    BY <1>0, <1>1 DEF ProcOK
  <2> QED
    BY <2>1, <2>2, <2>3, <2>4, ClientStep
<1>2. ASSUME NEW c \in Tools, RunCompiler(c) \/ CompilerRan(c)
      PROVE  IInv'
  <2>0. c \in Clients
    BY BuildAssumption
  <2>1. Alone(c)
    BY <1>0, <1>2, <2>0, StepsAlone
  <2>2. CallOK(c, b'[c])
    BY <1>2, <2>0, CompilerCall
  <2>3. BridgeKept
    BY <1>2, <2>0, BuildBridge
  <2>4. ProcOK'
    <3>1. CASE RunCompiler(c)
      BY <1>0, <3>1, StartedProcess DEF RunCompiler
    <3>2. CASE CompilerRan(c)
      <4>1. PICK n : n = NoProcess
        OBVIOUS
      <4>2. /\ DOMAIN n = ProcFields /\ n.printed = Nothing /\ n.left = Nothing /\ n.pipe = Nothing
            /\ n.got = Nothing /\ n.child = "none" /\ n.result = "none" /\ n.caller = "none"
            /\ n.reader = "none"
        BY <4>1 DEF NoProcess, ProcFields
      <4>3. proc' = n
        BY <3>2, <4>1 DEF CompilerRan
      <4> QED
        BY <4>2, <4>3 DEF ProcOK, ProcFields, Nothing
    <3> QED
      BY <1>2, <3>1, <3>2
  <2> QED
    BY <2>0, <2>1, <2>2, <2>3, <2>4, ClientStep
<1>3. CASE RunProcess /\ UNCHANGED <<bridge, b>>
  <2>1. ProcOK'
    BY <1>0, <1>3, ProcessStep
  <2>2. \A c \in Clients : BridgeOK(c)'
    BY <1>3 DEF IInv, BridgeOK, bridge
  <2>3. \A c \in Clients : CallOK(c, b[c])'
    BY <1>3 DEF IInv, CallOK, IsCall, IdleOK, EarlyOK, LateOK, ReadOK, LimitOK, FrameOK, WorkerOK,
                UnwindOK, LiveOK
  <2> QED
    BY <1>0, <1>3, <2>1, <2>2, <2>3 DEF IInv, bridge
<1>4. CASE UNCHANGED vars
  <2>1. ProcOK'
    BY <1>0, <1>4 DEF ProcOK, vars
  <2>2. \A c \in Clients : BridgeOK(c)'
    BY <1>4 DEF IInv, BridgeOK, bridge, vars
  <2>3. \A c \in Clients : CallOK(c, b[c])'
    BY <1>4 DEF IInv, vars, CallOK, IsCall, IdleOK, EarlyOK, LateOK, ReadOK, LimitOK, FrameOK,
                WorkerOK, UnwindOK, LiveOK
  <2> QED
    BY <1>0, <1>4, <2>1, <2>2, <2>3 DEF IInv, bridge, vars
<1> QED
  BY <1>1, <1>2, <1>3, <1>4 DEF Next

(* The invariant holds throughout. *)
THEOREM Invariance == Spec => []IInv
<1>1. Spec => Init /\ [][Next]_vars
  BY DEF Spec
<1>2. Init => IInv
  BY InitIInv
<1>3. IInv /\ [Next]_vars => IInv'
  BY NextIInv
<1> QED
  BY <1>1, <1>2, <1>3, PTL

(* A client that builds is a client. *)
LEMMA BuildersCall ==
  ASSUME IInv, NEW c \in Builders
  PROVE  CallOK(c, b[c])
BY BuildAssumption DEF IInv

(* stanli_stanc_compile runs the OCaml callback under compile_mutex and the *)
(* runtime lock on a thread that is known to the runtime in exactly one way, *)
(* and leaves none of them behind, whatever the number of client threads.    *)
THEOREM RuntimeIsUsedByItsRules == Spec => []RuntimeUse
<1>1. IInv => RuntimeUse
  <2> SUFFICES ASSUME IInv, NEW c \in Clients
               PROVE  /\ At(c, "callback") => /\ runtime = c /\ compile_mutex = c
                                              /\ (c \in registered) # (c = startup_thread)
                      /\ At(c, "unregister") => runtime # c
                      /\ compile_mutex # c => runtime # c /\ c \notin registered
    BY DEF RuntimeUse
  <2>1. BridgeOK(c)
    BY DEF IInv
  <2> QED
    BY <2>1 DEF BridgeOK, Inside, At
<1> QED
  BY <1>1, Invariance, PTL

(* The write-array worker never outlives the program it walks or the lowering *)
(* it fills, whichever way compile_model is left.                             *)
THEOREM TheWorkerReadsLiveObjects == Spec => []WorkerReadsLive
<1>1. IInv => WorkerReadsLive
  BY BuildersCall DEF WorkerReadsLive, CallOK, WorkerOK
<1> QED
  BY <1>1, Invariance, PTL

(* No retry, refused specialization or failed start of a worker interprets *)
(* transformed data a second time.                                         *)
THEOREM DataIsPreparedOnce == Spec => []DataPreparedOnce
<1>1. IInv => DataPreparedOnce
  <2> SUFFICES ASSUME IInv, NEW c \in Builders
               PROVE  /\ b[c].prepares <= 1
                      /\ At(c, "idle") /\ b[c].prog # NoProgram /\ ~Failed(c) => b[c].prepares = 1
    BY DEF DataPreparedOnce
  <2>1. PICK r : r = b[c]
    OBVIOUS
  <2>2. CallOK(c, r)
    BY <2>1, BuildersCall
  <2>3. r.pc = "idle" \/ r.pc \in Early \/ r.pc \in {"unregister", "unlock"} \/ r.pc \in Reading
        \/ r.pc \in Bound \/ r.pc \in {"unwind", "unwound"}
    BY <2>2 DEF CallOK, IsCall
  <2>4. r.prepares \in 0 .. 1
    BY <2>2, <2>3
    DEF CallOK, IdleOK, EarlyOK, LateOK, ReadOK, FrameOK, UnwindOK, Unprepared
  <2>5. r.pc = "idle" /\ r.prog # NoProgram /\ ~r.outcome.error => r.prepares = 1
    BY <2>2 DEF CallOK, IdleOK
  <2> QED
    BY <2>1, <2>4, <2>5 DEF At, Failed
<1> QED
  BY <1>1, Invariance, PTL

(* Whatever walks a program before compile_model is left does so on a stack that *)
(* holds its nesting, whatever stack sizes could be had: the lowering, its        *)
(* worker, and the destruction, save when the start of its thread has failed.     *)
THEOREM WalksAlwaysFit == Spec => []WalksFit
<1>1. IInv => WalksFit
  <2> SUFFICES ASSUME IInv, NEW c \in Builders
               PROVE  /\ Lowers(c) => Fits(c)
                      /\ b[c].worker = "running" => b[c].prog.nesting <= InlineLimit
                      /\ Destroys(c) => Fits(c) \/ DestroyerShort(c)
    BY DEF WalksFit
  <2>1. PICK r : r = b[c]
    OBVIOUS
  <2>2. CallOK(c, r)
    BY <2>1, BuildersCall
  <2>3. Fits(c) <=> Fitting(r)
    BY <2>1 DEF Fits, nesting_limit, Fitting
  <2>4. DestroyerShort(c) <=> Short(r)
    BY <2>1 DEF DestroyerShort, Short
  <2>5. Lowers(c) => Fits(c)
    BY <2>1, <2>2, <2>3 DEF CallOK, FrameOK, Bound, Lowers, Fitting
  <2>6. b[c].worker = "running" => b[c].prog.nesting <= InlineLimit
    BY <2>1, <2>2 DEF CallOK, WorkerOK
  <2>7. ASSUME r.pc = "job", r.job = "destroy" PROVE Fitting(r) \/ Short(r)
    <3>1. r.limit # 0 /\ r.limit = StackLimits[r.tried + 1] /\ r.prog.nesting <= StackLimits[1]
      BY <2>2, <2>7 DEF CallOK, LimitOK, LiveOK
    <3>2. CASE r.tried = 0
      BY <3>1, <3>2 DEF Fitting
    <3>3. CASE r.tried # 0
      BY <2>7, <3>3 DEF Short
    <3> QED
      BY <3>2, <3>3
  <2>8. ASSUME r.pc = "unwound", "prog" \in r.live PROVE Fitting(r) \/ Short(r)
    BY <2>2, <2>8 DEF CallOK, LiveOK
  <2>9. Destroys(c) => Fits(c) \/ DestroyerShort(c)
    BY <2>1, <2>3, <2>4, <2>7, <2>8 DEF Destroys, At
  <2> QED
    BY <2>5, <2>6, <2>9
<1> QED
  BY <1>1, Invariance, PTL

(* Worker or none, specialization or established path, embedded compiler or a *)
(* process: a build comes to the model that its program has.                  *)
THEOREM EveryBuildIsTheSame == Spec => []SameModel
<1>1. IInv => SameModel
  <2> SUFFICES ASSUME IInv PROVE SameModel
    OBVIOUS
  <2>1. proc.result = "output" => OutputWhole /\ proc.child = "exited"
    <3> SUFFICES ASSUME proc.result = "output"
                 PROVE  /\ proc.child = "exited" /\ proc.got["out"] = proc.printed["out"]
                        /\ proc.err_ok => proc.got["err"] = proc.printed["err"]
      BY DEF OutputWhole
    <3>0. ProcOK
      BY DEF IInv
    <3>1. /\ proc.caller = "done" /\ proc.read_ok /\ proc.child = "exited" /\ proc.reader = "done"
          /\ proc.pipe["out"] = 0 /\ (proc.err_ok => proc.pipe["err"] = 0)
      BY <3>0 DEF ProcOK
    <3>2. /\ {"out", "err"} \subseteq Streams
          /\ \A s \in Streams : proc.left[s] = 0
      BY <3>0, <3>1 DEF ProcOK, Streams
    <3>3. \A s \in Streams : proc.pipe[s] = 0 => proc.got[s] = proc.printed[s]
      BY <3>2, <3>0, ProcNumbers
    <3> QED
      BY <3>1, <3>2, <3>3
  <2>2. ASSUME NEW c \in Builders, At(c, "idle"), b[c].prog # NoProgram
        PROVE  IF b[c].outcome.error THEN Refuses(b[c].prog) \/ b[c].short
               ELSE ~Refuses(b[c].prog) /\ ModelOf(b[c].prog, b[c].outcome)
    BY <2>2, BuildersCall DEF CallOK, IdleOK, At
  <2> QED
    BY <2>1, <2>2 DEF SameModel, ModelOf
<1> QED
  BY <1>1, Invariance, PTL
=============================================================================

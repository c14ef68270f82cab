--------------------------- MODULE RegionCompiler ---------------------------
(***************************************************************************)
(* ProgramCompiler (mir_prog.hpp): a statement region whose control is     *)
(* decided at run time becomes one register program, which run_program     *)
(* executes at every evaluation.                                           *)
(*                                                                         *)
(* The compiler folds integers: a scalar int lives in `ints` as a compile  *)
(* time constant for as long as every path leaves the same value in it,    *)
(* and moves to a register (reify_written_int) at the first write that     *)
(* some path may skip.  That write is met after the jump around it has     *)
(* been emitted, so the register's first value is either hoisted to the    *)
(* head of the program or put where a marker was left at the declaration,  *)
(* and finish relocates every jump.                                        *)
(*                                                                         *)
(* A register nobody has written holds Poison: the contract of run_program *)
(* is that no program reads one.                                           *)
(***************************************************************************)
EXTENDS MirSemantics

CONSTANT Steps    \* the instructions one run of a program may execute

ASSUME StepsAssumption == Steps \in Nat

Poison == -1000000

Instr(op, dst, a, b, v) == [op |-> op, dst |-> dst, a |-> a, b |-> b, v |-> v]
ConstInstr(r, v) == Instr("CONST", r, 0, 0, v)
Jumps == {"JZ", "JMP"}

\* The compiler's state.  `outer` holds the values bind_extern can import,
\* by name; `ins` the registers they were imported into.
NewCompiler(ints, outer) ==
    [code |-> << >>, regs |-> 0, ints |-> ints, reals |-> << >>, outer |-> outer, ins |-> << >>,
     declAt |-> << >>, resetAt |-> << >>, unused |-> {}, hoisted |-> << >>,
     loops |-> << >>, branch |-> 0, whiles |-> 0, fors |-> 0,
     target |-> 0, exc |-> "none", bailed |-> FALSE]

Alloc(C) == [C EXCEPT !.regs = @ + 1]
Emit(C, i) == [C EXCEPT !.code = Append(@, i)]
Here(C) == Len(C.code) + 1
Patch(C, pcs, to) ==
    [C EXCEPT !.code = [i \in DOMAIN @ |-> IF i \in pcs THEN [@[i] EXCEPT !.dst = to] ELSE @[i]]]
Bail(C) == [C EXCEPT !.bailed = TRUE]

\* A fresh register holding a constant.
Konst(C, v) == Emit(Alloc(C), ConstInstr(C.regs + 1, v))

\* declare: a fresh register for a name, filled where the program stands.
Declare(C, n, v) == [Konst(C, v) EXCEPT !.reals = Put(@, n, C.regs + 1)]

-----------------------------------------------------------------------------
(* Expressions                                                             *)

\* try_cint: an expression over integers the compiler still holds.
HasCint(C, x) == Names(x) \subseteq DOMAIN C.ints
Cint(C, x) == Apply(x, IF x.e = "lit" THEN 0 ELSE C.ints[x.n])

\* bind_extern: a name from outside becomes a live-in register.
BindExtern(C, n) ==
    [Alloc(C) EXCEPT !.reals = Put(@, n, C.regs + 1), !.ins = Put(@, C.regs + 1, C.outer[n])]

\* A variable's register: its own, a constant's, or a live-in's.
VarReg(C, n) ==
    IF n \in DOMAIN C.reals THEN [c |-> C, r |-> C.reals[n]]
    ELSE IF n \in DOMAIN C.ints THEN [c |-> Konst(C, C.ints[n]), r |-> C.regs + 1]
    ELSE IF n \in DOMAIN C.outer THEN [c |-> BindExtern(C, n), r |-> C.regs + 1]
    ELSE [c |-> Bail(C), r |-> 0]

Binary(C, op, a, v) ==
    LET C1 == Konst(C, v)
    IN [c |-> Emit(Alloc(C1), Instr(op, C1.regs + 1, a, C1.regs, 0)), r |-> C1.regs + 1]

Expr(C, x) ==
    IF x.e = "lit" THEN [c |-> Konst(C, x.v), r |-> C.regs + 1]
    ELSE LET V == VarReg(C, x.n)
         IN CASE x.e = "var" -> V
              [] x.e = "inc" -> Binary(V.c, "ADD", V.r, 1)
              [] x.e = "less" -> Binary(V.c, "LT", V.r, x.v)

\* cond_jump with jump_when = false: the jumps taken when the condition fails.
CondJump(C, x) ==
    IF HasCint(C, x)
    THEN IF Cint(C, x) = 0 THEN [c |-> Emit(C, Instr("JMP", 0, 0, 0, 0)), to |-> {Here(C)}]
                           ELSE [c |-> C, to |-> {}]
    ELSE LET V == Expr(C, x)
         IN [c |-> Emit(V.c, Instr("JZ", 0, V.r, 0, 0)), to |-> {Here(V.c)}]

-----------------------------------------------------------------------------
(* Integers that leave the fold                                            *)

\* A marker where a register's fill may later be needed.
MarkIntReset(C, n) ==
    IF C.whiles = 0 THEN C
    ELSE [Emit(C, Instr("JMP", 0, 0, 0, 0)) EXCEPT !.resetAt = Put(@, n, Here(C)),
                                                   !.unused = @ \cup {Here(C)}]

FoldInt(C, n, v) == MarkIntReset([C EXCEPT !.ints = Put(@, n, v)], n)

\* The fill put where the write is met, under the jump around it.
ReifyInPlace(C, n) ==
    IF n \notin DOMAIN C.ints THEN C
    ELSE [Konst(C, C.ints[n]) EXCEPT !.reals = Put(@, n, C.regs + 1), !.ints = Drop(@, {n}),
                                     !.declAt = Drop(@, {n})]

ReifyWrittenInt(C, n) ==
    IF n \notin DOMAIN C.ints THEN C
    ELSE LET r == C.regs + 1
             C1 == [Alloc(C) EXCEPT !.reals = Put(@, n, r), !.ints = Drop(@, {n}),
                                    !.declAt = Drop(@, {n})]
             fill == ConstInstr(r, C.ints[n])
         IN IF n \in DOMAIN C.resetAt
            THEN [C1 EXCEPT !.code[C.resetAt[n]] = fill,
                            !.unused = @ \ {C.resetAt[n]}, !.resetAt = Drop(@, {n})]
            ELSE [C1 EXCEPT !.hoisted = Append(@, fill)]

ReifyLoopWrite(C, n) ==
    LET C1 == ReifyWrittenInt(C, n)
    IN IF n \notin DOMAIN C1.reals /\ n \in DOMAIN C1.outer THEN BindExtern(C1, n) ELSE C1

ReifyLoopWrites(C, N) == FoldSet(LAMBDA n, acc : ReifyLoopWrite(acc, n), C, N)

\* Only the branch depth, whatever break or continue was already taken.
FoldAtDepth(C, n) ==
    LET at == IF n \in DOMAIN C.declAt THEN C.declAt[n] ELSE <<0, 0>>
    IN C.branch = at[1] /\ \A l \in at[2] + 1 .. Len(C.loops) : ~C.loops[l].structured

\* Does an assignment here run on every path that can reach a read?
FoldIsCertain(C, n) ==
    LET at == IF n \in DOMAIN C.declAt THEN C.declAt[n] ELSE <<0, 0>>
    IN /\ C.branch = at[1]
       /\ \A l \in at[2] + 1 .. Len(C.loops) :
             ~C.loops[l].structured /\ C.loops[l].breaks = {} /\ C.loops[l].continues = {}

-----------------------------------------------------------------------------
(* ProgramCompiler::stmt                                                   *)

EnterLoop(C, structured) ==
    [C EXCEPT !.loops = Append(@, [structured |-> structured, branch |-> IF structured THEN 0 ELSE C.branch,
                                   breaks |-> {}, continues |-> {}])]
LeaveLoop(C) == [C EXCEPT !.loops = SubSeq(@, 1, Len(@) - 1)]
Inner(C) == C.loops[Len(C.loops)]

DeclStmt(C, s) ==
    LET C0 == [C EXCEPT !.reals = Drop(@, {s.n}), !.ints = Drop(@, {s.n}), !.resetAt = Drop(@, {s.n}),
                        !.declAt = Put(@, s.n, <<C.branch, Len(C.loops)>>)]
        Moved == LET C1 == Declare(C0, s.n, IntMin)
                     V == Expr(C1, s.init[1])
                 IN Emit(V.c, Instr("MOV", C1.reals[s.n], V.r, 0, 0))
    IN IF C.fors > 0 THEN IF s.init = <<>> THEN Declare(C0, s.n, IntMin) ELSE Moved
       ELSE IF s.init = <<>> THEN FoldInt(C0, s.n, IntMin)
       ELSE IF HasCint(C0, s.init[1]) THEN FoldInt(C0, s.n, Cint(C0, s.init[1]))
       ELSE Moved

AssignStmt(C, s) ==
    LET folds == FoldIsCertain(C, s.n) /\ HasCint(C, s.x)
        C1 == IF s.n \in DOMAIN C.ints /\ ~folds THEN ReifyWrittenInt(C, s.n) ELSE C
        C2 == IF s.n \notin DOMAIN C1.reals THEN BindExtern(C1, s.n) ELSE C1
        V == Expr(C2, s.x)
    IN IF s.n \in DOMAIN C1.ints THEN FoldInt(C1, s.n, Cint(C1, s.x))
       ELSE IF s.n \notin DOMAIN C1.reals \cup DOMAIN C1.outer THEN Bail(C1)
       ELSE Emit(V.c, Instr("MOV", C2.reals[s.n], V.r, 0, 0))

\* A jump out of a loop is an instruction when a run time branch stands
\* around it, and ends the unrolled trip being compiled otherwise.
LoopJump(C, s) ==
    IF C.loops = << >> THEN Bail(C)
    ELSE IF C.branch > Inner(C).branch \/ Inner(C).structured
    THEN LET C1 == Emit(C, Instr("JMP", 0, 0, 0, 0))
         IN IF s.k = "break" THEN [C1 EXCEPT !.loops[Len(C.loops)].breaks = @ \cup {Here(C)}]
                             ELSE [C1 EXCEPT !.loops[Len(C.loops)].continues = @ \cup {Here(C)}]
    ELSE [C EXCEPT !.exc = s.k]

InvariantForBound(s) == Names(s.hi) \cap Written(s.b) = {}

RECURSIVE Stmt(_, _), StmtList(_, _), Unroll(_, _, _, _)

StmtList(C, body) ==
    IF body = << >> \/ C.exc # "none" \/ C.bailed THEN C
    ELSE StmtList(Stmt(C, Head(body)), Tail(body))

\* One unrolled trip after another; a continue of one reaches the next.
Unroll(C, s, v, hi) ==
    IF v > hi \/ C.bailed THEN C
    ELSE LET C1 == StmtList([C EXCEPT !.ints = Put(@, s.n, v),
                                      !.declAt = Put(@, s.n, <<C.branch, Len(C.loops)>>)], s.b)
             C2 == [Patch(C1, Inner(C1).continues, Here(C1))
                      EXCEPT !.loops[Len(C1.loops)].continues = {}, !.exc = "none"]
         IN IF C1.bailed THEN C1 ELSE IF C1.exc = "break" THEN C2 ELSE Unroll(C2, s, v + 1, hi)

UnrolledFor(C, s) ==
    LET C1 == Unroll(EnterLoop(C, FALSE), s, 1, Cint(C, s.hi))
        C2 == [C1 EXCEPT !.ints = Drop(@, {s.n}), !.declAt = Drop(@, {s.n})]
    IN IF C1.bailed THEN C1 ELSE LeaveLoop(Patch(C2, Inner(C2).breaks, Here(C2)))

\* A loop over a bound known only at run time, or one its body may move.
\* r names its registers and the place of its test; `empty` is the jump the
\* first test takes.
LoopExit(C, s, pcs) ==
    [LeaveLoop(Patch(C, pcs \cup Inner(C).breaks, Here(C))) EXCEPT
       !.whiles = @ - 1, !.fors = @ - 1, !.reals = Drop(@, {s.n}), !.declAt = Drop(@, {s.n})]

LoopStep(C, r, head) ==
    Emit(Emit(C, Instr("ADD", r.index, r.index, r.one, 0)), Instr("JMP", head, 0, 0, 0))

\* An invariant bound is tested again behind the body, any other at the head.
LoopLatch(C, s, r, upper, empty) ==
    IF C.bailed THEN C
    ELSE IF InvariantForBound(s)
    THEN LoopExit(LoopStep(Emit(Emit(C, Instr("LT", r.cond, r.index, upper, 0)), Instr("JZ", 0, r.cond, 0, 0)),
                           r, empty + 1), s, {empty, Here(C) + 1})
    ELSE LoopExit(LoopStep(C, r, r.head), s, {empty})

LoopContinues(C) == IF C.bailed THEN C ELSE Patch(C, Inner(C).continues, Here(C))

LoopBody(U, s, r) ==
    LET tested == Emit(Emit(U.c, Instr("LE", r.cond, r.index, U.r, 0)), Instr("JZ", 0, r.cond, 0, 0))
    IN LoopLatch(LoopContinues(StmtList(EnterLoop([tested EXCEPT !.whiles = @ + 1, !.fors = @ + 1], TRUE), s.b)),
                 s, r, U.r, Len(U.c.code) + 2)

LoopTest(C, s, index) ==
    LoopBody(Expr(C, s.hi), s, [index |-> index, one |-> C.regs - 1, cond |-> C.regs, head |-> Here(C)])

RuntimeFor(C, s) ==
    LET index == C.regs + 2
        C1 == ReifyLoopWrites(Emit(Alloc(Konst(C, 1)), Instr("MOV", index, C.regs + 1, 0, 0)), Written(s.b))
    IN LoopTest(Alloc(Konst([C1 EXCEPT !.ints = Drop(@, {s.n}), !.reals = Put(@, s.n, index)], 1)), s, index)

ForStmt(C, s) == IF InvariantForBound(s) /\ HasCint(C, s.hi) THEN UnrolledFor(C, s) ELSE RuntimeFor(C, s)

WhileStmt(C, s) ==
    LET C1 == ReifyLoopWrites(C, Written(s.b))
        J == CondJump(C1, s.c)
        C2 == StmtList(EnterLoop([J.c EXCEPT !.whiles = @ + 1], TRUE), s.b)
        C3 == Emit(Patch(C2, Inner(C2).continues, Here(C1)), Instr("JMP", Here(C1), 0, 0, 0))
        C4 == LeaveLoop(Patch(C3, J.to \cup Inner(C3).breaks, Here(C3)))
    IN IF C2.bailed THEN C2 ELSE [C4 EXCEPT !.whiles = @ - 1]

IfStmt(C, s) ==
    IF HasCint(C, s.c) THEN StmtList(C, IF Cint(C, s.c) # 0 THEN s.t ELSE s.f)
    ELSE LET J == CondJump(C, s.c)
             C1 == StmtList([J.c EXCEPT !.branch = @ + 1], s.t)
             C2 == Emit(C1, Instr("JMP", 0, 0, 0, 0))
             C3 == StmtList(Patch(C2, J.to, Here(C2)), s.f)
             C4 == IF s.f = << >> THEN Patch(C1, J.to, Here(C1)) ELSE Patch(C3, {Here(C1)}, Here(C3))
         IN [C4 EXCEPT !.branch = C.branch]

TargetStmt(C, s) ==
    LET V == Expr(C, s.x) IN Emit(V.c, Instr("ADD", C.target, C.target, V.r, 0))

Stmt(C, s) ==
    CASE s.k = "decl" -> DeclStmt(C, s)
      [] s.k = "assign" -> AssignStmt(C, s)
      [] s.k = "target" -> TargetStmt(C, s)
      [] s.k = "if" -> IfStmt(C, s)
      [] s.k = "for" -> ForStmt(C, s)
      [] s.k = "while" -> WhileStmt(C, s)
      [] s.k \in {"break", "continue"} -> LoopJump(C, s)

\* finish: the hoisted fills go in front, the markers nobody used go, and
\* every jump follows its target.
Finish(C) ==
    LET kept == {i \in DOMAIN C.code : i \notin C.unused}
        moved(pc) == Len(C.hoisted) + Cardinality({i \in kept : i < pc}) + 1
        order == SelectSeq([i \in DOMAIN C.code |-> i], LAMBDA i : i \in kept)
        body == [i \in DOMAIN order |->
                   LET ins == C.code[order[i]]
                   IN IF ins.op \in Jumps THEN [ins EXCEPT !.dst = moved(@)] ELSE ins]
    IN C.hoisted \o body

-----------------------------------------------------------------------------
(* run_program                                                             *)

RECURSIVE RunFrom(_, _, _, _)
RunFrom(code, regs, pc, steps) ==
    IF pc > Len(code) THEN [regs |-> regs, ok |-> TRUE]
    ELSE IF steps = 0 THEN [regs |-> regs, ok |-> FALSE]
    ELSE LET i == code[pc]
             reads == CASE i.op \in {"CONST", "JMP"} -> {}
                        [] i.op \in {"MOV", "JZ"} -> {i.a}
                        [] OTHER -> {i.a, i.b}
             set(v) == RunFrom(code, [regs EXCEPT ![i.dst] = v], pc + 1, steps - 1)
         IN IF \E r \in reads : regs[r] = Poison THEN [regs |-> regs, ok |-> FALSE]
            ELSE CASE i.op = "CONST" -> set(i.v)
                   [] i.op = "MOV" -> set(regs[i.a])
                   [] i.op = "ADD" -> set(regs[i.a] + regs[i.b])
                   [] i.op = "LT" -> set(IF regs[i.a] < regs[i.b] THEN 1 ELSE 0)
                   [] i.op = "LE" -> set(IF regs[i.a] <= regs[i.b] THEN 1 ELSE 0)
                   [] i.op = "JMP" -> RunFrom(code, regs, i.dst, steps - 1)
                   [] i.op = "JZ" -> RunFrom(code, regs, IF regs[i.a] = 0 THEN i.dst ELSE pc + 1, steps - 1)

\* One execution of an island for a value of the parameter.
RunProgram(C, code, p) ==
    RunFrom(code, [r \in 1 .. C.regs |-> IF r \in DOMAIN C.ins THEN C.ins[r][p] ELSE Poison], 1, Steps)
=============================================================================

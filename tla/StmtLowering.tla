---------------------------- MODULE StmtLowering ----------------------------
(***************************************************************************)
(* Lowering::lower_stmt_impl (lower_stmt.cpp) on the control statements of *)
(* a log_prob block: what is known while the graph is built is folded and  *)
(* unrolled, and what only the parameters decide becomes an island, a      *)
(* register program compiled by RegionCompiler.                            *)
(*                                                                         *)
(* The lowering holds up to three copies of a scalar integer: a compile    *)
(* time value in int_env, a graph slot in scope, and a value in the        *)
(* environment of the folding interpreter (td).  Every statement must      *)
(* leave them telling the same story, the one MirInterp tells; `ref` runs  *)
(* that interpreter beside the lowering, once for each value of the        *)
(* parameter.  A slot is represented by the value it takes for each value  *)
(* of the parameter: graph ops are pure, and islands are run to find it.   *)
(*                                                                         *)
(* Structured loops are off (StructuredMode::Off): loops stay unrolled or  *)
(* become islands, as they do whenever a structured trial refuses.         *)
(***************************************************************************)
EXTENDS RegionCompiler

CONSTANTS
    Programs,          \* the programs, each a sequence of statements
    OuterNames,        \* the names declared by the block itself
    Param,             \* an integer the parameter selects (theta > 0)
    WhileUnrollLimit   \* kWhileUnrollLimit

ASSUME WhileUnrollAssumption == WhileUnrollLimit \in Nat

VARIABLES
    todo,    \* the statements still to lower
    low,     \* the Lowering object
    ref      \* the interpreter, for each value of the parameter

vars == <<todo, low, ref>>

-----------------------------------------------------------------------------
(* Values and what is known of them                                        *)

Constant(v) == [v |-> [p \in BOOLEAN |-> v], param_free |-> TRUE]
ParamVal == [v |-> [p \in BOOLEAN |-> IF p THEN 1 ELSE 0], param_free |-> FALSE]

\* try_eval_pure: the interpreter finds a name in td, else in int_env.
Known(L, x) == Names(x) \subseteq DOMAIN L.td \cup DOMAIN L.int_env
KnownVar(L, n) == IF n \in DOMAIN L.td THEN L.td[n] ELSE L.int_env[n]
KnownValue(L, x) == Apply(x, IF x.e = "lit" THEN 0 ELSE KnownVar(L, x.n))

\* eval_int answers from int_env alone: a folded constant is known to the
\* interpreter as a real, which eval_int does not take for an integer.
EvalKnown(L, x) == Names(x) \subseteq DOMAIN L.int_env
EvalInt(L, x) == Apply(x, IF x.e = "lit" THEN 0 ELSE L.int_env[x.n])

\* lower_expr: a variable is read from its slot before anything else.
LowerVar(L, n) == IF n \in DOMAIN L.scope THEN L.scope[n]
                  ELSE IF n \in DOMAIN L.int_env THEN Constant(L.int_env[n])
                  ELSE Constant(L.td[n])
LowerExpr(L, x) ==
    CASE x.e = "lit" -> Constant(x.v)
      [] x.e = "var" -> LowerVar(L, x.n)
      [] OTHER -> IF Known(L, x) THEN Constant(KnownValue(L, x))
                  ELSE LET a == LowerVar(L, x.n)
                       IN [v |-> [p \in BOOLEAN |-> Apply(x, a.v[p])], param_free |-> a.param_free]

\* needs_runtime_value: a slot with no observed constant.
NeedsRuntime(L, x) == \E n \in Names(x) : n \in DOMAIN L.scope /\ ~L.scope[n].param_free

Refuse(L) == [L EXCEPT !.refused = TRUE]

\* bind_runtime_int
BindRuntimeInt(L, n, x) ==
    [L EXCEPT !.scope = Put(@, n, LowerExpr(L, x)), !.int_env = Drop(@, {n}),
              !.int_locals = @ \ {n}, !.td = Drop(@, {n})]

\* An assignment that needs the parameter leaves the old value known.
SyncKeepsOld(L, n, v) ==
    [L EXCEPT !.td = IF v.param_free THEN Put(@, n, v.v[TRUE]) ELSE @]

\* sync_data_local: the interpreter learns a value that needs no parameter.
SyncDataLocal(L, n, v) ==
    [L EXCEPT !.td = IF v.param_free THEN Put(@, n, v.v[TRUE]) ELSE Drop(@, {n})]

\* static_int, then int_env or bind_runtime_int.
BindInt(L, n, x) ==
    IF EvalKnown(L, x) THEN [L EXCEPT !.int_env = Put(@, n, EvalInt(L, x))]
    ELSE IF NeedsRuntime(L, x) THEN BindRuntimeInt(L, n, x)
    ELSE Refuse(L)

\* push_target_term
PushTargetTerm(L, v) == [L EXCEPT !.terms = [p \in BOOLEAN |-> @[p] + L.target_scale * v[p]]]

-----------------------------------------------------------------------------
(* Declarations and assignments                                            *)

LowerDecl(L, s) ==
    LET L0 == [L EXCEPT !.scope = Drop(@, {s.n}), !.td = Drop(@, {s.n}), !.int_env = Drop(@, {s.n}),
                        !.int_locals = @ \cup {s.n}]
    IN IF s.init = <<>> THEN [L0 EXCEPT !.int_env = Put(@, s.n, IntMin)]
       ELSE BindInt(L0, s.n, s.init[1])

AssignPlain(L, s) ==
    LET v == LowerExpr(L, s.x) IN [SyncDataLocal(L, s.n, v) EXCEPT !.scope = Put(@, s.n, v)]

LowerAssign(L, s) ==
    IF s.n \in L.int_locals THEN BindInt(L, s.n, s.x) ELSE AssignPlain(L, s)

-----------------------------------------------------------------------------
(* Islands                                                                 *)

\* lower_island: what the region assigns and lowering knows leaves as
\* live-outs, integers the region folded go back to int_env.
CompileRegion(L, s) ==
    LET C0 == NewCompiler(L.int_env, [n \in DOMAIN L.scope |-> L.scope[n].v])
        C1 == [Konst(C0, 0) EXCEPT !.target = 1]
    IN Stmt(C1, s)

LiveOuts(L, s, C) ==
    {n \in AssignedNames(s) : n \in DOMAIN L.scope \cup L.int_locals /\ n \in DOMAIN C.reals}

\* lower_runtime_ifelse.  The live-outs that were compile time integers
\* forget every old copy; the others are rebound and keep their td entry.
EmitIsland(L, s, C, run, outs) ==
    LET ints == outs \cap L.int_locals
        slot(r) == [p \in BOOLEAN |-> run[p].regs[r]]
        folded == [n \in DOMAIN L.int_env |->
                     IF n \in AssignedNames(s) /\ n \in DOMAIN C.ints THEN C.ints[n] ELSE L.int_env[n]]
        L1 == [L EXCEPT
                 !.scope = [n \in outs |-> [v |-> slot(C.reals[n]), param_free |-> FALSE]] @@ @,
                 !.int_env = Drop(folded, ints),
                 !.int_locals = @ \ ints,
                 !.td = Drop(@, ints),
                 !.stale = @ \cup ((outs \ ints) \cap DOMAIN L.td),
                 !.broken = @ \/ \E p \in BOOLEAN : ~run[p].ok]
    IN IF C.bailed \/ (outs = {} /\ ~HasTarget(s)) THEN Refuse(L)
       ELSE IF HasTarget(s) THEN PushTargetTerm(L1, slot(C.target)) ELSE L1

RunRegion(C, code) == [p \in BOOLEAN |-> RunProgram(C, code, p)]
IslandOf(L, s, C) == EmitIsland(L, s, C, RunRegion(C, Finish(C)), LiveOuts(L, s, C))
LowerRuntimeIfElse(L, s) == IslandOf(L, s, CompileRegion(L, s))

-----------------------------------------------------------------------------
(* The tests that choose between folding, unrolling and an island          *)

InvariantForUpper(s) == Names(s.hi) \cap Written(s.b) = {}

RECURSIVE RepeatableStmt(_, _, _), RuntimeLoopControl(_, _, _), ScanBlock(_, _, _, _)

\* repeatable_target_stmt: nothing but target increments and block locals,
\* nothing that reads the loop variable.
RepeatableStmt(s, loopvar, locals) ==
    CASE s.k = "target" -> loopvar \notin Names(s.x)
      [] s.k = "decl" -> s.init = <<>> \/ loopvar \notin Names(s.init[1])
      [] s.k = "assign" -> s.n \in locals /\ loopvar \notin Names(s.x)
      [] s.k \in {"if", "for"} -> /\ loopvar \notin Names(IF s.k = "if" THEN s.c ELSE s.hi)
                                 /\ \A a \in Range(Arms(s)) : \A c \in Range(a) :
                                       RepeatableStmt(c, loopvar, locals)
      [] OTHER -> FALSE

RepeatableTargetBody(s) ==
    /\ HasTarget(s)
    /\ \A c \in Range(s.b) : RepeatableStmt(c, s.n, DeclaredNames(s))

\* runtime_loop_control: a break or continue of this loop under a condition
\* not known yet.  scan_block mirrors the integers its own block declares.
RuntimeLoopControl(L, s, runtime) ==
    CASE s.k \in {"break", "continue"} -> runtime
      [] s.k = "if" -> IF Known(L, s.c)
                       THEN ScanBlock(L, IF KnownValue(L, s.c) # 0 THEN s.t ELSE s.f, runtime, {})
                       ELSE ScanBlock(L, s.t, TRUE, {}) \/ ScanBlock(L, s.f, TRUE, {})
      [] OTHER -> FALSE

SetLocalInt(L, n, xs) ==
    LET L0 == [L EXCEPT !.int_env = Drop(@, {n})]
    IN IF xs = << >> \/ ~EvalKnown(L0, xs[1]) THEN L0
       ELSE [L0 EXCEPT !.int_env = Put(@, n, EvalInt(L0, xs[1]))]

ScanBlock(L, body, runtime, locals) ==
    /\ body # << >>
    /\ LET s == Head(body)
           mine == IF s.k = "decl" THEN locals \cup {s.n} ELSE locals
           L1 == CASE s.k = "decl" -> SetLocalInt(L, s.n, s.init)
                   [] s.k = "assign" -> IF s.n \in locals THEN SetLocalInt(L, s.n, <<s.x>>) ELSE L
                   [] OTHER -> L
       IN RuntimeLoopControl(L, s, runtime) \/ ScanBlock(L1, Tail(body), runtime, mine)

\* Scanned once for every value of the loop variable.
HasRuntimeLoopControl(L, s, hi) ==
    \E v \in 1 .. hi : ScanBlock([L EXCEPT !.int_env = Put(@, s.n, v)], s.b, FALSE, {})

\* static_int_bookkeeping
StaticIntBookkeeping(L, body) ==
    /\ body # << >>
    /\ \A s \in Range(body) : s.k = "assign" /\ s.n \in L.int_locals /\ ~NeedsRuntime(L, s.x)

-----------------------------------------------------------------------------
(* Lowering::lower_stmt_impl                                               *)

Caught(L, exc) == IF L.exc = exc THEN [L EXCEPT !.exc = "none"] ELSE L

RECURSIVE LowerStmt(_, _), LowerList(_, _), UnrollFor(_, _, _, _), UnrollWhile(_, _, _)

LowerList(L, body) ==
    IF body = << >> \/ L.exc # "none" \/ L.refused THEN L
    ELSE LowerList(LowerStmt(L, Head(body)), Tail(body))

UnrollFor(L, s, v, hi) ==
    IF v > hi \/ L.refused THEN L
    ELSE LET L1 == Caught(LowerList([L EXCEPT !.int_env = Put(@, s.n, v)], s.b), "continue")
         IN IF L1.exc = "break" THEN Caught(L1, "break") ELSE UnrollFor(L1, s, v + 1, hi)

\* A loop that repeats the same increments lowers them once, scaled.
FoldRepeatableTarget(L, s, hi) ==
    LET L1 == LowerList([L EXCEPT !.target_scale = @ * hi, !.int_env = Put(@, s.n, 1)], s.b)
    IN [L1 EXCEPT !.target_scale = L.target_scale, !.int_env = Drop(@, {s.n})]

LowerFor(L, s) ==
    LET hi == EvalInt(L, s.hi)
    IN IF ~InvariantForUpper(s) THEN LowerRuntimeIfElse(L, s)
       ELSE IF ~EvalKnown(L, s.hi) THEN IF NeedsRuntime(L, s.hi) THEN LowerRuntimeIfElse(L, s) ELSE Refuse(L)
       ELSE IF hi < 1 THEN [L EXCEPT !.int_env = Drop(@, {s.n})]
       ELSE IF HasRuntimeLoopControl(L, s, hi) THEN LowerRuntimeIfElse(L, s)
       ELSE IF hi # 1 /\ RepeatableTargetBody(s) THEN FoldRepeatableTarget(L, s, hi)
       ELSE LET L1 == UnrollFor(L, s, 1, hi) IN [L1 EXCEPT !.int_env = Drop(@, {s.n})]

\* unroll_while: incomplete where the guard stops being decidable.
UnrollWhile(L, s, trips) ==
    IF L.refused \/ trips = 0 \/ ~Known(L, s.c) THEN [l |-> L, complete |-> FALSE]
    ELSE IF KnownValue(L, s.c) = 0 THEN [l |-> L, complete |-> TRUE]
    ELSE LET L1 == Caught(LowerList(L, s.b), "continue")
         IN IF L1.exc = "break" THEN [l |-> Caught(L1, "break"), complete |-> TRUE]
            ELSE UnrollWhile(L1, s, trips - 1)

\* The same with while_unroll_depth raised around it.
UnrollNested(L, s) ==
    LET U == UnrollWhile([L EXCEPT !.while_unroll_depth = @ + 1], s, WhileUnrollLimit)
    IN [U EXCEPT !.l.while_unroll_depth = L.while_unroll_depth]

\* Folded when the body only counts, an island otherwise, and unrolled
\* from a snapshot when the region compiler refuses the island.
Completed(U) == IF U.complete THEN U.l ELSE Refuse(U.l)
IslandOrUnroll(L, s, island) == IF island.refused THEN Completed(UnrollNested(L, s)) ELSE island
Counted(U, s) ==
    IF U.complete \/ U.l.refused THEN U.l ELSE IslandOrUnroll(U.l, s, LowerRuntimeIfElse(U.l, s))
CountOrIsland(U, s) ==
    IF U.complete \/ U.l.refused THEN U.l
    ELSE Counted(IF StaticIntBookkeeping(U.l, s.b) THEN UnrollWhile(U.l, s, WhileUnrollLimit) ELSE U, s)
LowerWhile(L, s) ==
    CountOrIsland(IF L.while_unroll_depth > 0 THEN UnrollNested(L, s) ELSE [l |-> L, complete |-> FALSE], s)

LowerIfElse(L, s) ==
    IF Known(L, s.c) THEN LowerList(L, IF KnownValue(L, s.c) # 0 THEN s.t ELSE s.f)
    ELSE LowerRuntimeIfElse(L, s)

LowerTarget(L, s) == PushTargetTerm(L, LowerExpr(L, s.x).v)

LowerStmt(L, s) ==
    CASE s.k = "decl" -> LowerDecl(L, s)
      [] s.k = "assign" -> LowerAssign(L, s)
      [] s.k = "target" -> LowerTarget(L, s)
      [] s.k = "if" -> LowerIfElse(L, s)
      [] s.k = "for" -> LowerFor(L, s)
      [] s.k = "while" -> LowerWhile(L, s)
      [] s.k \in {"break", "continue"} -> [L EXCEPT !.exc = s.k]

-----------------------------------------------------------------------------
(* One action per kind of statement of the block                           *)

Init ==
    /\ todo \in Programs
    /\ low = [scope |-> Param :> ParamVal, int_env |-> << >>, int_locals |-> {}, td |-> << >>,
              terms |-> [p \in BOOLEAN |-> 0], target_scale |-> 1, while_unroll_depth |-> 0,
              exc |-> "none", refused |-> FALSE, stale |-> {}, broken |-> FALSE]
    /\ ref = [p \in BOOLEAN |-> Start(Param :> ParamVal.v[p])]

\* The next statement of a program that terminates, lowered and executed.
Advance(kinds) ==
    /\ todo # << >>
    /\ Head(todo).k \in kinds
    /\ ref' = [p \in BOOLEAN |-> Exec([ref[p] EXCEPT !.fuel = Fuel], Head(todo))]
    /\ \A p \in BOOLEAN : ref'[p].exc = "none"
    /\ low' = LowerStmt(low, Head(todo))
    /\ todo' = IF low'.refused THEN << >> ELSE Tail(todo)

LowersDecl == Advance({"decl"})
LowersAssign == Advance({"assign"})
LowersTarget == Advance({"target"})
LowersIf == Advance({"if"})
LowersFor == Advance({"for"})
LowersWhile == Advance({"while"})

Next == LowersDecl \/ LowersAssign \/ LowersTarget \/ LowersIf \/ LowersFor \/ LowersWhile

Spec == Init /\ [][Next]_vars

-----------------------------------------------------------------------------
(* Properties                                                              *)

\* The names the block itself has declared so far.
Outer == OuterNames \cap DOMAIN ref[TRUE].env

\* Whatever path each value of the parameter takes through branches,
\* breaks, continues and loops, the graph built so far adds to the target
\* what the interpreter adds.  Folding an integer past a jump, unrolling a
\* loop whose bound its body moves, or scaling a term twice breaks this
\* (lower_stmt.cpp:739, 1791, mir_prog.hpp:1543).  A name whose old folded
\* value outlived an island (see LaterReadsSeeTheIsland) is left out.
SameTarget ==
    (~low.refused /\ low.stale = {}) => \A p \in BOOLEAN : low.terms[p] = ref[p].tgt

\* The copies of an integer never disagree: what a later read, size or
\* condition would be given, from its slot, from int_env or from the data
\* interpreter, is the value the program has there on every path
\* (lower_stmt.cpp:764, lower_structured_loop.inc:1605, lower.cpp:104).
CopiesAgree ==
    (~low.refused /\ low.stale = {}) =>
        \A n \in Outer, p \in BOOLEAN :
            /\ LowerVar(low, n).v[p] = ref[p].env[n]
            /\ Known(low, Var(n)) => KnownValue(low, Var(n)) = ref[p].env[n]

\* No island reads a register nobody wrote, and every island ends when the
\* region it stands for does: fills hoisted ahead of a branch, markers and
\* relocated jumps (mir_prog.hpp:312, 4194, program.hpp: run_program).
IslandsRunClean == ~low.broken

\* After an island every later statement reads its results: no folded copy
\* of a name the island wrote survives it (lower_stmt.cpp:758).
LaterReadsSeeTheIsland ==
    ~low.refused =>
        \A n \in Outer, p \in BOOLEAN :
            Known(low, Var(n)) => KnownValue(low, Var(n)) = ref[p].env[n]
=============================================================================

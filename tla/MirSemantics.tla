---------------------------- MODULE MirSemantics ----------------------------
(***************************************************************************)
(* The statements of a log_prob block that decide control: scalar integer  *)
(* declarations and assignments, target increments, branches, loops, break *)
(* and continue (mir::Stmt), and what they mean.  Exec follows             *)
(* MirInterp::exec, the interpreter the lowering itself folds with, which  *)
(* is what Stan says a program does; a target increment, which that        *)
(* interpreter never meets, adds to the target.                            *)
(*                                                                         *)
(* A statement list stands for a Block.  An expression is a literal, a     *)
(* variable, a variable plus one, or a variable compared with a literal.   *)
(* Loops start at 1.                                                       *)
(***************************************************************************)
EXTENDS Integers, Sequences, FiniteSets, SequencesExt, TLC

CONSTANTS
    IntMin,       \* the value of an uninitialised integer
    Fuel          \* the loop trips one statement may take

ASSUME IntMinAssumption == IntMin \in Int /\ IntMin < 0
ASSUME FuelAssumption == Fuel \in Nat

Lit(v) == [e |-> "lit", v |-> v]
Var(n) == [e |-> "var", n |-> n]
Inc(n) == [e |-> "inc", n |-> n]
Less(n, v) == [e |-> "less", n |-> n, v |-> v]

Decl(n) == [k |-> "decl", n |-> n, init |-> <<>>]
DeclInit(n, x) == [k |-> "decl", n |-> n, init |-> <<x>>]
Assign(n, x) == [k |-> "assign", n |-> n, x |-> x]
Target(x) == [k |-> "target", x |-> x]
If(c, t, f) == [k |-> "if", c |-> c, t |-> t, f |-> f]
For(n, hi, b) == [k |-> "for", n |-> n, hi |-> hi, b |-> b]
While(c, b) == [k |-> "while", c |-> c, b |-> b]
Break == [k |-> "break"]
Continue == [k |-> "continue"]

Arms(s) == CASE s.k = "if" -> <<s.t, s.f>>
             [] s.k \in {"for", "while"} -> <<s.b>>
             [] OTHER -> << >>

RECURSIVE AssignedNames(_), HasTarget(_), DeclaredNames(_)
AssignedNames(s) ==
    (IF s.k = "assign" THEN {s.n} ELSE {}) \cup
    UNION {UNION {AssignedNames(s2) : s2 \in Range(a)} : a \in Range(Arms(s))}

HasTarget(s) ==
    s.k = "target" \/ \E a \in Range(Arms(s)) : \E s2 \in Range(a) : HasTarget(s2)

DeclaredNames(s) ==
    (IF s.k = "decl" THEN {s.n} ELSE {}) \cup
    UNION {UNION {DeclaredNames(s2) : s2 \in Range(a)} : a \in Range(Arms(s))}

Written(body) == UNION {AssignedNames(s) : s \in Range(body)}

\* The variable an expression reads.
Names(x) == IF x.e = "lit" THEN {} ELSE {x.n}

\* An operation applied to the value of its operand.
Apply(x, v) == CASE x.e = "lit" -> x.v
                 [] x.e = "var" -> v
                 [] x.e = "inc" -> v + 1
                 [] x.e = "less" -> IF v < x.v THEN 1 ELSE 0

\* Finite maps with names added and removed.
Put(f, n, v) == (n :> v) @@ f
Drop(f, N) == [m \in DOMAIN f \ N |-> f[m]]

-----------------------------------------------------------------------------
(* MirInterp: an environment, the target, and the exception in flight.     *)

Start(env) == [env |-> env, tgt |-> 0, exc |-> "none", fuel |-> Fuel]

Eval(S, x) == Apply(x, IF x.e = "lit" THEN 0 ELSE S.env[x.n])

RECURSIVE Exec(_, _), ExecList(_, _), ExecFor(_, _, _), ExecWhile(_, _)

ExecList(S, body) ==
    IF body = << >> \/ S.exc # "none" THEN S
    ELSE ExecList(Exec(S, Head(body)), Tail(body))

\* What a loop does with the exception its body threw.
AfterTrip(S) == IF S.exc = "continue" THEN [S EXCEPT !.exc = "none"] ELSE S
AfterLoop(S) == IF S.exc = "break" THEN [S EXCEPT !.exc = "none"] ELSE S
Trip(S) == [S EXCEPT !.fuel = @ - 1]

\* The upper bound is evaluated again before every trip.
ExecFor(S, s, v) ==
    IF S.fuel = 0 THEN [S EXCEPT !.exc = "diverged"]
    ELSE IF v > Eval(S, s.hi) THEN S
    ELSE LET S1 == AfterTrip(ExecList([Trip(S) EXCEPT !.env = Put(@, s.n, v)], s.b))
         IN IF S1.exc = "none" THEN ExecFor(S1, s, v + 1) ELSE AfterLoop(S1)

ExecWhile(S, s) ==
    IF S.fuel = 0 THEN [S EXCEPT !.exc = "diverged"]
    ELSE IF Eval(S, s.c) = 0 THEN S
    ELSE LET S1 == AfterTrip(ExecList(Trip(S), s.b))
         IN IF S1.exc = "none" THEN ExecWhile(S1, s) ELSE AfterLoop(S1)

Exec(S, s) ==
    CASE s.k = "decl" ->
           [S EXCEPT !.env = Put(@, s.n, IF s.init = <<>> THEN IntMin ELSE Eval(S, s.init[1]))]
      [] s.k = "assign" -> [S EXCEPT !.env = Put(@, s.n, Eval(S, s.x))]
      [] s.k = "target" -> [S EXCEPT !.tgt = @ + Eval(S, s.x)]
      [] s.k = "if" -> ExecList(S, IF Eval(S, s.c) # 0 THEN s.t ELSE s.f)
      [] s.k = "for" -> LET S1 == ExecFor(S, s, 1) IN [S1 EXCEPT !.env = Drop(@, {s.n})]
      [] s.k = "while" -> ExecWhile(S, s)
      [] s.k \in {"break", "continue"} -> [S EXCEPT !.exc = s.k]
=============================================================================

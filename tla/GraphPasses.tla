---------------------------- MODULE GraphPasses ----------------------------
(***************************************************************************)
(* The graph passes of the compiler and the executor that runs what they   *)
(* leave: Lowering::run_passes (lower.cpp), make_inplace_updates,          *)
(* forward_stores_to_loads and elide_full_extent_stores (inplace.cpp),     *)
(* const_fold (constfold.cpp), cse (cse.cpp), Lowering::reduce_terms, and  *)
(* Executor::bind_, run_forward_only and reverse (executor.cpp).           *)
(*                                                                         *)
(* A graph is a sequence of slots and a sequence of ops in evaluation      *)
(* order.  Lowering emits it in single assignment form; the passes then    *)
(* make stores destructive, rename slots, drop ops and share primals.  The *)
(* executor keeps one value arena for its whole life: bind_ writes the     *)
(* fills once, and every evaluation runs over what the last one left.      *)
(* What must survive is the meaning of the graph that was lowered, at      *)
(* every evaluation of any sequence of parameter values.                   *)
(*                                                                         *)
(* Cells hold integers modulo Modulus instead of doubles: the passes never *)
(* look at a value, so what a kernel computes only has to tell operands    *)
(* apart.  An op of each class the passes distinguish is kept: a backward  *)
(* that reads no value (ADD, INDEX, SLICE, the stores), one that reads its *)
(* inputs (MUL, DENSITY), one that reads its output (EXPV), one that       *)
(* throws (DENSITY, CHECK_LOWER) and one with an effect (CHECK_LOWER).     *)
(***************************************************************************)
EXTENDS Integers, Sequences, FiniteSets, SequencesExt, TLC

CONSTANTS
    Modulus,      \* the size of the arithmetic that stands for double
    Programs,     \* what lowering may emit: the opcodes in order, each with
                  \* the slots it may read; the lengths of the constant
                  \* containers; the scalar constant's value
    Strides,      \* the strides of a strided store
    Points        \* the parameter's value at each evaluation, in order

ASSUME ModulusAssumption == Modulus \in Nat \ {0, 1}
ASSUME StridesAssumption == Strides \subseteq Nat \ {0}
ASSUME PointsAssumption == \A n \in DOMAIN Points : Points[n] \in 0 .. Modulus - 1

VARIABLES
    pc,           \* where run_passes stands
    todo,         \* the opcodes lowering has still to emit
    source,       \* the graph as lowered, with its terms reduced
    g,            \* the graph being rewritten
    fills,        \* slot -> contents written at bind
    roots,        \* slots read straight out of the arena
    terms,        \* target_terms
    mode,         \* "log_prob" or "write_array"
    arena,        \* the executor's values, by slot
    evals,        \* evaluations so far
    last          \* what the last evaluation returned

vars == <<pc, todo, source, g, fills, roots, terms, mode, arena, evals, last>>

-----------------------------------------------------------------------------
(* Opcodes (optable.hpp)                                                   *)

CopyStores == {"SET_INDEX", "SET_SLICE", "SET_SLICE_STRIDED"}
InplaceForm == [c \in CopyStores |->
    CASE c = "SET_INDEX" -> "SET_INDEX_INPLACE"
      [] c = "SET_SLICE" -> "SET_SLICE_INPLACE"
      [] c = "SET_SLICE_STRIDED" -> "SET_SLICE_STRIDED_INPLACE"]
InplaceStores == {InplaceForm[c] : c \in CopyStores}

\* What a statement may be lowered to.
Opcodes == {"ADD", "MUL", "DENSITY", "EXPV", "REP_VEC", "CHECK_LOWER", "INDEX", "SLICE"} \cup CopyStores

ASSUME ProgramsAssumption ==
    \A p \in Programs : /\ p.ops \in Seq(Opcodes \X SUBSET Nat)
                        /\ p.lens \in Seq(Nat \ {0})

ElementStores == {"SET_INDEX", "SET_INDEX_INPLACE"}
RangeStores == (CopyStores \cup InplaceStores) \ ElementStores

\* op_trait::kBackwardValueFree: reverse reads no value buffer.
BackwardIgnoresValues(oc) ==
    oc \in {"ADD", "INDEX", "SLICE"} \cup CopyStores \cup InplaceStores

\* Ops no rewrite may run a different number of times than the graph says.
Effectful(oc) == oc = "CHECK_LOWER"

Slot(len, arr, param) == [len |-> len, arr |-> arr, param |-> param]

Op(oc, in, out, at, by) ==
    [oc |-> oc, in |-> in, out |-> out, at |-> at, by |-> by, src |-> 0]

Ins(op) == ToSet(op.in)
Cached(op) == op.src # 0 /\ op.src # op.out
Writes(gr, s) == {i \in DOMAIN gr.ops : gr.ops[i].out = s}
Written(gr, s) == Writes(gr, s) # {}
Active(gr, s) == gr.slots[s].param \/ Written(gr, s)

\* The graph with op i replaced, and with the cells of slot s given up.
SetOp(gr, i, op) ==
    [slots |-> gr.slots, ops |-> [gr.ops EXCEPT ![i] = op], result |-> gr.result]
Emptied(gr, s) ==
    [slots |-> [gr.slots EXCEPT ![s] = Slot(0, gr.slots[s].arr, gr.slots[s].param)],
     ops |-> gr.ops, result |-> gr.result]

\* A map with one more entry; seq without the places in drop.
Bind(f, s, t) == [x \in DOMAIN f \cup {s} |-> IF x = s THEN t ELSE f[x]]
Kept(seq, drop) ==
    LET upto[i \in 0 .. Len(seq)] ==
            IF i = 0 THEN <<>>
            ELSE IF i \in drop THEN upto[i - 1] ELSE Append(upto[i - 1], seq[i])
    IN  upto[Len(seq)]
Sub(gr, drop) == [slots |-> gr.slots, ops |-> Kept(gr.ops, drop), result |-> gr.result]

-----------------------------------------------------------------------------
(* Kernels (elementwise.cpp, eltwise_expr.cpp, message.cpp)                *)

\* The cells a store writes, as a function from the cell to the element of
\* the stored value it takes.
Comb(op, n) == [c \in {op.at + (j - 1) * op.by : j \in 1 .. n} |->
                   ((c - op.at) \div op.by) + 1]

\* The opaque scalar function behind EXPV.
ExpV(x) == (x * x + x + 2) % Modulus

\* Does the op throw on these inputs?
Throws(op, x) == CASE op.oc = "DENSITY" -> x[2][1] = 0
                   [] op.oc = "CHECK_LOWER" -> x[1][1] = 0
                   [] OTHER -> FALSE

\* An op's output from its inputs.  An in-place store is handed its own
\* output as in[0], so both forms leave the same cells.
Kernel(op, x, len) ==
    CASE op.oc = "ADD" -> [c \in 1 .. len |-> (x[1][c] + x[2][c]) % Modulus]
      [] op.oc = "ADD_N" ->
            <<FoldLeft(LAMBDA acc, v: (acc + v[1]) % Modulus, 0, x)>>
      [] op.oc = "DENSITY" -> <<(x[1][1] * x[2][1]) % Modulus>>
      [] op.oc = "MUL" -> [c \in 1 .. len |-> (x[1][c] * x[2][c]) % Modulus]
      [] op.oc = "EXPV" -> [c \in 1 .. len |-> ExpV(x[1][c])]
      [] op.oc = "REP_VEC" -> [c \in 1 .. len |-> x[1][1]]
      [] op.oc \in {"INDEX", "SLICE"} -> [c \in 1 .. len |-> x[1][op.at + c - 1]]
      [] op.oc = "CHECK_LOWER" -> <<0>>
      [] OTHER -> LET comb == Comb(op, Len(x[2]))
                  IN  [c \in 1 .. len |-> IF c \in DOMAIN comb THEN x[2][comb[c]]
                                                               ELSE x[1][c]]

Sum(seq) == FoldLeft(LAMBDA a, b: (a + b) % Modulus, 0, seq)

\* What the backward of op adds to the adjoint of its j-th input, given the
\* output's adjoint d, the input values x, the output value y and the
\* input's length n.  In-place stores pass the base's adjoint through by
\* sharing its buffer: see StepBack.
Pull(op, j, d, x, y, n) ==
    CASE op.oc = "ADD" -> d
      [] op.oc = "ADD_N" -> d
      [] op.oc = "DENSITY" -> <<(d[1] * x[3 - j][1]) % Modulus>>
      [] op.oc = "MUL" -> [c \in 1 .. n |-> (d[c] * x[3 - j][c]) % Modulus]
      [] op.oc = "EXPV" -> [c \in 1 .. n |-> (d[c] * y[c]) % Modulus]
      [] op.oc = "REP_VEC" -> <<Sum(d)>>
      [] op.oc \in {"INDEX", "SLICE"} ->
            [c \in 1 .. n |-> IF c \in op.at .. op.at + Len(d) - 1
                              THEN d[c - op.at + 1] ELSE 0]
      [] op.oc = "CHECK_LOWER" -> [c \in 1 .. n |-> 0]
      [] j = 2 -> [c \in 1 .. n |-> d[op.at + (c - 1) * op.by]]
      [] op.oc \in CopyStores ->
            LET comb == Comb(op, Len(x[2]))
            IN  [c \in 1 .. n |-> IF c \in DOMAIN comb THEN 0 ELSE d[c]]
      [] OTHER -> [c \in 1 .. n |-> 0]

-----------------------------------------------------------------------------
(* Executor (executor.cpp)                                                 *)

\* bind_: a cached primal shares the value cells of its source.
ValueOwner(gr, s) ==
    LET shared == {gr.ops[i].src : i \in {k \in DOMAIN gr.ops :
                       gr.ops[k].out = s /\ Cached(gr.ops[k])}}
    IN  IF shared = {} THEN s ELSE CHOOSE o \in shared : TRUE

\* bind_: "cached primal precedes its source".
CachedFollowSource(gr) ==
    \A i \in DOMAIN gr.ops : Cached(gr.ops[i]) =>
        \E k \in 1 .. i - 1 : gr.ops[k].out = gr.ops[i].src
                              /\ gr.ops[k].src = gr.ops[k].out

\* Cells are zero, then the fills are written, once.
BoundArena(gr, fl) ==
    [s \in DOMAIN gr.slots |-> IF s \in DOMAIN fl THEN fl[s]
                               ELSE [c \in 1 .. gr.slots[s].len |-> 0]]

SetParams(gr, ar, p) ==
    [s \in DOMAIN gr.slots |-> IF gr.slots[s].param THEN <<p>> ELSE ar[s]]

Inputs(gr, op, vals) ==
    [j \in DOMAIN op.in |-> vals[ValueOwner(gr, op.in[j])]]

\* One forward kernel.  Nothing runs after a throw, and a cached primal has
\* no forward at all.
StepForward(gr, st, op) ==
    LET x == Inputs(gr, op, st.vals)
        seen == IF Effectful(op.oc) THEN Append(st.effects, x[1]) ELSE st.effects
    IN  IF st.threw \/ Cached(op) THEN st
        ELSE IF Throws(op, x) THEN [st EXCEPT !.threw = TRUE, !.effects = seen]
        ELSE [st EXCEPT !.vals[op.out] = Kernel(op, x, gr.slots[op.out].len),
                        !.effects = seen]

\* run_forward_only
RunForward(gr, vals) ==
    FoldLeft(LAMBDA st, op: StepForward(gr, st, op),
             [vals |-> vals, threw |-> FALSE, effects |-> <<>>], gr.ops)

\* One backward kernel: each active input's adjoint accumulates its share,
\* and a destructive store clears the cells it owns.
StepBack(gr, vals, adj, op) ==
    LET d == adj[op.out]
        x == Inputs(gr, op, vals)
        y == vals[ValueOwner(gr, op.out)]
        share(s) == FoldLeftDomain(
            LAMBDA acc, j: IF op.in[j] # s THEN acc
                           ELSE LET p == Pull(op, j, d, x, y, Len(acc))
                                IN  [c \in DOMAIN acc |-> (acc[c] + p[c]) % Modulus],
            adj[s], op.in)
        owned == IF op.oc \in InplaceStores THEN DOMAIN Comb(op, Len(x[2])) ELSE {}
    IN  [s \in DOMAIN adj |->
            IF s = op.out /\ owned # {}
            THEN [c \in DOMAIN d |-> IF c \in owned THEN 0 ELSE d[c]]
            ELSE IF s \in Ins(op) /\ Active(gr, s) THEN share(s) ELSE adj[s]]

\* reverse: adjoints are cleared, the result is seeded, and the backward
\* kernels run from the last op to the first.
Gradient(gr, vals, result) ==
    LET zero == [s \in DOMAIN gr.slots |-> [c \in 1 .. gr.slots[s].len |-> 0]]
        seeded == [zero EXCEPT ![result] = <<1>>]
        adj == FoldRight(LAMBDA op, a: StepBack(gr, vals, a, op), gr.ops, seeded)
    IN  [s \in {t \in DOMAIN gr.slots : gr.slots[t].param} |-> adj[s]]

\* What a caller sees of one evaluation at p over the arena ar.
Evaluate(gr, ar, p, observed) ==
    LET run == RunForward(gr, SetParams(gr, ar, p))
    IN  [threw |-> run.threw, effects |-> run.effects, vals |-> run.vals,
         value |-> IF run.threw \/ gr.result = 0 THEN <<>> ELSE run.vals[ValueOwner(gr, gr.result)],
         seen |-> IF run.threw THEN <<>>
                  ELSE [s \in observed |-> run.vals[ValueOwner(gr, s)]],
         grad |-> IF run.threw \/ gr.result = 0 THEN <<>>
                  ELSE Gradient(gr, run.vals, gr.result)]

-----------------------------------------------------------------------------
(* Lowering: what a statement emits (single assignment, no in-place form)  *)

AllSlots(gr) == DOMAIN gr.slots
Scalars(gr) == {s \in DOMAIN gr.slots : ~gr.slots[s].arr}
Containers(gr) == {s \in DOMAIN gr.slots : gr.slots[s].arr}

\* The operands, first cell, stride and output shape an opcode may be
\* emitted with.  An element store takes any one-cell value, a one-element
\* container too: lower_stmt.cpp emits SET_INDEX whenever the selection has
\* one cell.
Operands(gr, oc) ==
    LET len(s) == gr.slots[s].len
        pick(in, at, by, n, arr) == [in |-> in, at |-> at, by |-> by, len |-> n, arr |-> arr]
        same(s) == [len |-> len(s), arr |-> gr.slots[s].arr]
        lengths == {len(s) : s \in Containers(gr)}
    IN  CASE oc \in {"ADD", "MUL"} ->
               UNION {{pick(<<a, b>>, 1, 1, len(a), gr.slots[a].arr) :
                          b \in {x \in AllSlots(gr) : a <= x /\ same(a) = same(x)}} :
                      a \in AllSlots(gr)}
          [] oc = "DENSITY" ->
               {pick(<<a, b>>, 1, 1, 1, FALSE) : a \in Scalars(gr), b \in Scalars(gr)}
          [] oc = "EXPV" ->
               {pick(<<a>>, 1, 1, len(a), gr.slots[a].arr) : a \in DOMAIN gr.slots}
          [] oc = "REP_VEC" ->
               {pick(<<a>>, 1, 1, n, TRUE) : a \in Scalars(gr), n \in lengths}
          [] oc = "CHECK_LOWER" ->
               {pick(<<a>>, 1, 1, 1, FALSE) : a \in Scalars(gr)}
          [] oc = "INDEX" ->
               UNION {{pick(<<v>>, k, 1, 1, FALSE) : k \in 1 .. len(v)} : v \in Containers(gr)}
          [] oc = "SLICE" ->
               UNION {UNION {{pick(<<v>>, k, 1, n, TRUE) : k \in 1 .. len(v) - n + 1} :
                             n \in lengths} : v \in Containers(gr)}
          [] oc = "SET_INDEX" ->
               UNION {{pick(<<v, r>>, k, 1, len(v), TRUE) :
                          k \in 1 .. len(v), r \in {x \in AllSlots(gr) : x # v /\ len(x) = 1}} :
                      v \in Containers(gr)}
          [] oc = "SET_SLICE" ->
               UNION {UNION {{pick(<<v, r>>, k, 1, len(v), TRUE) : k \in 1 .. len(v) - len(r) + 1} :
                             r \in Containers(gr) \ {v}} : v \in Containers(gr)}
          [] oc = "SET_SLICE_STRIDED" ->
               UNION {UNION {{pick(<<v, r>>, k, by, len(v), TRUE) :
                                 k \in 1 .. len(v) - (len(r) - 1) * by} :
                             r \in Containers(gr) \ {v}, by \in Strides} : v \in Containers(gr)}

\* add_slot and add_op
Emitted(gr, oc, c) ==
    [slots |-> Append(gr.slots, Slot(c.len, c.arr, FALSE)),
     ops |-> Append(gr.ops, Op(oc, c.in, Len(gr.slots) + 1, c.at, c.by)),
     result |-> gr.result]

\* Slot 1 is the parameter, slot 2 a scalar constant, the others constant
\* containers.
ConstantGraph(lens) ==
    [slots |-> <<Slot(1, FALSE, TRUE), Slot(1, FALSE, FALSE)>> \o
               [i \in DOMAIN lens |-> Slot(lens[i], TRUE, FALSE)],
     ops |-> <<>>, result |-> 0]
ConstantFills(lens, c) ==
    [s \in 2 .. Len(lens) + 2 |->
        IF s = 2 THEN <<c>> ELSE [k \in 1 .. lens[s - 2] |-> k % Modulus]]

\* Every scalar result nothing consumes is an increment of target.
UnreadScalars(gr) ==
    LET increments(i) ==
            LET s == gr.ops[i].out
            IN  /\ ~gr.slots[s].arr
                /\ \A k \in DOMAIN gr.ops : s \notin Ins(gr.ops[k])
                /\ \E k \in Writes(gr, s) : ~Effectful(gr.ops[k].oc)
    IN  Kept([i \in DOMAIN gr.ops |-> gr.ops[i].out], {i \in DOMAIN gr.ops : ~increments(i)})

\* reduce_terms: one term is the result itself, several are added.
Returning(gr, s) == [slots |-> gr.slots, ops |-> gr.ops, result |-> s]
ReduceTerms(gr, ts) ==
    CASE Len(ts) = 0 -> gr
      [] Len(ts) = 1 -> Returning(gr, ts[1])
      [] OTHER -> Returning(Emitted(gr, "ADD_N", [in |-> ts, at |-> 1, by |-> 1, len |-> 1, arr |-> FALSE]),
                            Len(gr.slots) + 1)

-----------------------------------------------------------------------------
(* make_inplace_updates (inplace.cpp)                                      *)

\* valid_store_contract: the exact contracts the copying kernels implement.
ValidStoreContract(gr, op) ==
    LET base == gr.slots[op.in[1]].len
        n == gr.slots[op.in[2]].len
    IN  /\ ~gr.slots[op.out].param
        /\ IF op.oc \in InplaceStores
           THEN op.out = op.in[1] /\ op.in[2] # op.in[1]
           ELSE op.out \notin Ins(op) /\ gr.slots[op.out].len = base
        /\ op.oc \in ElementStores => n = 1
        /\ op.at >= 1 /\ op.by >= 1
        /\ n > 0 => op.at + (n - 1) * op.by <= base

LastUse(gr, s) ==
    LET reads == {i \in DOMAIN gr.ops : s \in Ins(gr.ops[i])}
    IN  IF reads = {} THEN 0 ELSE CHOOSE i \in reads : \A k \in reads : k <= i

Resolve(rename, s) == IF s \in DOMAIN rename THEN rename[s] ELSE s
ResolveIns(rename, op) ==
    [op EXCEPT !.in = [j \in DOMAIN op.in |-> Resolve(rename, op.in[j])]]

\* Is the output of op a buffer a later store may destroy?  A destructive
\* store keeps the answer of the version it mutates; any other producer is
\* safe when its backward rereads nothing.
FreshOutput(st, op, valid) ==
    IF op.out \in Ins(op)
    THEN IF op.oc \in InplaceStores /\ valid THEN st.safe ELSE st.safe \ {op.out}
    ELSE IF valid /\ BackwardIgnoresValues(op.oc) THEN st.safe \cup {op.out}
                                                  ELSE st.safe \ {op.out}

\* A defect: a base whose value the reverse sweep rereads is destroyed.
EligibleWhateverReads(st, op, i, rs) ==
    LET base == op.in[1]
    IN  /\ ValidStoreContract(st.gr, op)
        /\ op.in[2] # base
        /\ base \in st.safe
        /\ ~st.gr.slots[base].param
        /\ base \notin rs /\ op.out \notin rs
        /\ st.last_use[base] = i

\* May op i mutate its base instead of copying it?
Eligible(st, op, i, rs) ==
    LET base == op.in[1]
    IN  /\ ValidStoreContract(st.gr, op)
        /\ op.in[2] # base
        /\ base \in st.safe
        /\ ~st.gr.slots[base].param
        /\ base \notin rs /\ op.out \notin rs
        /\ st.last_use[base] = i
        /\ base \notin st.value_reader

\* A store made destructive writes its base, which inherits the last use of
\* the output; the output is renamed to the base and loses its cells.
Destructive(op) ==
    [oc |-> InplaceForm[op.oc], in |-> op.in, out |-> op.in[1],
     at |-> op.at, by |-> op.by, src |-> op.src]
MakeDestructive(st, op, i) ==
    LET base == op.in[1]
        a == st.last_use[base]
        b == st.last_use[op.out]
    IN  [gr |-> SetOp(Emptied(st.gr, op.out), i, Destructive(op)),
         rename |-> Bind(st.rename, op.out, base),
         safe |-> st.safe,
         value_reader |-> st.value_reader,
         last_use |-> [st.last_use EXCEPT ![base] = IF a < b THEN b ELSE a]]

\* A store that is destructive already follows its base.
Moved(rename, op) ==
    LET moved == ResolveIns(rename, op)
    IN  IF op.oc \in InplaceStores /\ op.out = op.in[1]
        THEN [moved EXCEPT !.out = moved.in[1]] ELSE moved

InplaceStep(st, i, rs) ==
    LET old == st.gr.ops[i]
        op == Moved(st.rename, old)
        valid == old.oc \in InplaceStores => old.out = old.in[1] /\ ValidStoreContract(st.gr, op)
        silent == op.oc \in CopyStores \/ (BackwardIgnoresValues(op.oc) /\ valid)
    IN  IF op.oc \in CopyStores /\ Eligible(st, op, i, rs)
        THEN MakeDestructive(st, op, i)
        ELSE [gr |-> SetOp(st.gr, i, op),
              rename |-> st.rename,
              safe |-> FreshOutput(st, op, valid),
              value_reader |-> st.value_reader \cup (IF silent THEN {} ELSE Ins(op)),
              last_use |-> st.last_use]

InplaceStart(gr) ==
    [gr |-> gr, rename |-> <<>>, safe |-> {}, value_reader |-> {},
     last_use |-> [s \in DOMAIN gr.slots |-> LastUse(gr, s)]]
MakeInplaceUpdates(gr, rs) ==
    LET st[i \in 0 .. Len(gr.ops)] ==
            IF i = 0 THEN InplaceStart(gr) ELSE InplaceStep(st[i - 1], i, rs)
    IN  st[Len(gr.ops)].gr

-----------------------------------------------------------------------------
(* forward_stores_to_loads (inplace.cpp)                                   *)

NoStore == [op |-> 0, elem |-> 0, value |-> 0, observed |-> FALSE]

\* A store is superseded by the next destructive store of the same element
\* when nothing but a forwarded read-back has read the vector in between.
Superseded(gr, prev, op) ==
    /\ prev.op # 0 /\ ~prev.observed /\ prev.elem = op.at
    /\ op.oc = "SET_INDEX_INPLACE"
    /\ gr.ops[prev.op].oc = "SET_INDEX_INPLACE"

\* Reading back exactly what the last write put there.
ForwardsLoad(st, op, rs) ==
    /\ op.oc = "INDEX"
    /\ st.stores[op.in[1]].op # 0
    /\ st.stores[op.in[1]].elem = op.at
    /\ op.out \notin rs

Observed(store) ==
    [op |-> store.op, elem |-> store.elem, value |-> store.value, observed |-> TRUE]

\* The stores a range store leaves known.
AfterRangeStore(stores, op) == [stores EXCEPT ![op.out] = NoStore]

AfterStep(st, op, i, forwards) ==
    CASE op.oc \in ElementStores ->
           [st.stores EXCEPT ![op.out] = [op |-> i, elem |-> op.at, value |-> op.in[2], observed |-> FALSE]]
      [] op.oc \in RangeStores -> AfterRangeStore(st.stores, op)
      [] forwards -> st.stores
      [] OTHER -> [s \in DOMAIN st.stores |->
                      IF s \in Ins(op) THEN Observed(st.stores[s]) ELSE st.stores[s]]

ForwardStep(st, i, rs) ==
    LET op == ResolveIns(st.rename, st.gr.ops[i])
        prev == st.stores[op.out]
        superseded == op.oc \in ElementStores /\ Superseded(st.gr, prev, op)
        forwards == ForwardsLoad(st, op, rs)
    IN  [gr |-> SetOp(st.gr, i, op),
         rename |-> IF forwards THEN Bind(st.rename, op.out, st.stores[op.in[1]].value)
                                ELSE st.rename,
         drop |-> st.drop \cup (IF superseded THEN {prev.op} ELSE {})
                          \cup (IF forwards THEN {i} ELSE {}),
         stores |-> AfterStep(st, op, i, forwards)]

\* Sweep dead writes, from the tail: a store whose vector nothing reads
\* afterwards, and which is not a root, computes nothing.
SweepStep(st, gr, i, rs) ==
    LET op == gr.ops[i]
    IN  IF i \in st.drop THEN st
        ELSE IF op.oc \in ElementStores /\ op.out \notin st.read_after /\ op.out \notin rs
        THEN [st EXCEPT !.drop = @ \cup {i}]
        ELSE [st EXCEPT !.read_after = @ \cup Ins(op)]

ForwardStart(gr) ==
    [gr |-> gr, rename |-> <<>>, drop |-> {}, stores |-> [s \in DOMAIN gr.slots |-> NoStore]]
Scan(gr, rs) ==
    LET st[i \in 0 .. Len(gr.ops)] ==
            IF i = 0 THEN ForwardStart(gr) ELSE ForwardStep(st[i - 1], i, rs)
    IN  st[Len(gr.ops)]
Swept(gr, drop, rs) ==
    FoldRightDomain(LAMBDA i, st: SweepStep(st, gr, i, rs), gr.ops,
                    [drop |-> drop, read_after |-> {}]).drop

ForwardStoresToLoads(gr, rs) ==
    LET scan == Scan(gr, rs)
    IN  Sub(scan.gr, Swept(scan.gr, scan.drop, rs))

-----------------------------------------------------------------------------
(* const_fold (constfold.cpp)                                              *)

\* One round of mark_constant_ops: an op is constant when it has no effect,
\* reads nothing a parameter or a surviving op reaches, and writes no slot
\* an earlier round refused.
ConstantOps(gr, no_fold) ==
    FoldLeftDomain(
        LAMBDA st, i:
            LET op == gr.ops[i]
                c == /\ ~Effectful(op.oc)
                     /\ Ins(op) \cap st.live = {}
                     /\ op.out \notin no_fold
            IN  IF c THEN [st EXCEPT !.const = @ \cup {i}]
                     ELSE [st EXCEPT !.live = @ \cup {op.out}],
        [const |-> {}, live |-> {s \in DOMAIN gr.slots : gr.slots[s].param}],
        gr.ops).const

\* Slots a surviving op reads before a constant op overwrites them.
ReadThenFolded(gr, const) ==
    {s \in DOMAIN gr.slots :
        \E i \in DOMAIN gr.ops \ const : s \in Ins(gr.ops[i])
            /\ \E k \in const : k > i /\ gr.ops[k].out = s}

\* A defect: nothing protects the base of a destructive update.
UpdatedAfterFoldIgnored(gr, const) == {}

\* Slots a surviving op updates in place after a constant op produced them:
\* folding would turn the base into a fill, written once at bind.
UpdatedAfterFold(gr, const) ==
    {s \in DOMAIN gr.slots :
        \E i \in DOMAIN gr.ops \ const : gr.ops[i].out = s /\ s \in Ins(gr.ops[i])
            /\ \E k \in const : gr.ops[k].out = s}

Refused(gr, const) == ReadThenFolded(gr, const) \cup UpdatedAfterFold(gr, const)

\* mark_constant_ops: rounds until none refuses a slot.  Each round but the
\* last refuses a new slot, so a slot's number bounds them.
MarkConstantOps(gr) ==
    LET rounds == FoldLeftDomain(
            LAMBDA no_fold, r: no_fold \cup Refused(gr, ConstantOps(gr, no_fold)),
            {}, gr.slots)
    IN  ConstantOps(gr, rounds)

\* The constant ops run once, on an executor of their own; what a surviving
\* op or a root still needs becomes a fill.  A throw leaves the graph alone.
ConstFold(gr, fl, rs) ==
    LET const == MarkConstantOps(gr)
        run == RunForward(Sub(gr, DOMAIN gr.ops \ const), BoundArena(gr, fl))
        needed == rs \cup UNION {Ins(gr.ops[i]) : i \in DOMAIN gr.ops \ const}
        folded == {gr.ops[i].out : i \in const} \cap needed
    IN  IF const = {} \/ run.threw THEN [gr |-> gr, fills |-> fl]
        ELSE [gr |-> Sub(gr, const),
              fills |-> [s \in folded \cup DOMAIN fl |-> IF s \in folded THEN run.vals[s] ELSE fl[s]]]

-----------------------------------------------------------------------------
(* elide_full_extent_stores (inplace.cpp)                                  *)

Readers(gr, s) == {i \in DOMAIN gr.ops : s \in Ins(gr.ops[i])}

CoversDestination(gr, op) ==
    /\ op.oc \in RangeStores
    /\ op.at = 1
    /\ op.oc \in {"SET_SLICE_STRIDED", "SET_SLICE_STRIDED_INPLACE"} => op.by = 1
    /\ gr.slots[op.in[2]].len = gr.slots[op.out].len

IdentitySlice(gr, op) ==
    /\ op.oc = "SLICE" /\ op.at = 1
    /\ gr.slots[op.in[1]].len = gr.slots[op.out].len
    /\ Cardinality(Writes(gr, op.out)) = 1

\* The next op that writes dest after i, or one past the end.
NextWrite(gr, dest, i) ==
    LET after == {w \in Writes(gr, dest) : w > i}
    IN  IF after = {} THEN Len(gr.ops) + 1
        ELSE CHOOSE w \in after : \A k \in after : w <= k

\* May op i be dropped and its readers moved to the value it copies?  Reads
\* and writes are those of the graph before the pass.
Elidable(gr, op, i, rs, val) ==
    LET dest == op.out
        next == NextWrite(gr, dest, i)
    IN  /\ IdentitySlice(gr, op) \/ CoversDestination(gr, op)
        /\ dest # val
        /\ {dest, val} \cap rs = {}
        /\ ~gr.slots[val].param /\ ~gr.slots[dest].param
        /\ Readers(gr, val) = {i}
        /\ \A w \in Writes(gr, val) : w < i
        /\ next <= Len(gr.ops) =>
              /\ gr.ops[next].oc \in {"SET_SLICE_INPLACE", "SET_SLICE_STRIDED_INPLACE"}
              /\ CoversDestination(gr, gr.ops[next])

\* The ops in window read val instead of dest.
Moving(gr, window, dest, val) ==
    [slots |-> gr.slots,
     ops |-> [k \in DOMAIN gr.ops |->
                 IF k \in window THEN ResolveIns([x \in {dest} |-> val], gr.ops[k]) ELSE gr.ops[k]],
     result |-> gr.result]

ElideStep(st, gr, i, rs) ==
    LET op == st.gr.ops[i]
        val == IF op.oc = "SLICE" THEN op.in[1] ELSE op.in[2]
        window == {r \in Readers(gr, op.out) : i < r /\ r < NextWrite(gr, op.out, i)}
    IN  IF op.oc \in RangeStores \cup {"SLICE"} /\ Elidable(gr, op, i, rs, val)
        THEN [gr |-> Moving(st.gr, window, op.out, val), drop |-> st.drop \cup {i}]
        ELSE st

ElideScan(gr, rs) ==
    LET st[i \in 0 .. Len(gr.ops)] ==
            IF i = 0 THEN [gr |-> gr, drop |-> {}] ELSE ElideStep(st[i - 1], gr, i, rs)
    IN  st[Len(gr.ops)]
ElideFullExtentStores(gr, rs) ==
    LET scan == ElideScan(gr, rs) IN Sub(scan.gr, scan.drop)

-----------------------------------------------------------------------------
(* cse (cse.cpp)                                                           *)

\* A defect: an output that later stores mutate is merged too.
CseCandidateRewritten(gr, op, keep) ==
    /\ ~Effectful(op.oc)
    /\ op.src = 0
    /\ op.out \notin keep
    /\ ~gr.slots[op.out].param
    /\ op.out \notin Ins(op)

CseCandidate(gr, op, keep) ==
    /\ ~Effectful(op.oc)
    /\ op.src = 0
    /\ Cardinality(Writes(gr, op.out)) = 1
    /\ op.out \notin keep
    /\ ~gr.slots[op.out].param
    /\ op.out \notin Ins(op)

\* What two ops must agree on to compute the same value.
CseKey(st, op, len) ==
    LET input(j) == Resolve(st.primal, op.in[j])
    IN  <<op.oc, len, [j \in DOMAIN op.in |-> <<input(j), st.version[input(j)]>>],
          op.at, op.by>>

\* The candidates met with that key, and the one a later op joins.
Twins(st, key) == {k \in DOMAIN st.keys : st.keys[k] = key}
Twin(st, key) == CHOOSE k \in Twins(st, key) : TRUE

\* Ops i and k compute one value: i takes the cells of k for its own.
Sharing(gr, i, k) ==
    LET owner == gr.ops[k].out
        from(j) == [gr.ops[j] EXCEPT !.src = owner]
    IN  SetOp(SetOp(gr, k, from(k)), i, from(i))

CseStep(st, i, keep, merge_active) ==
    LET op == ResolveIns(st.rename, st.gr.ops[i])
        gr == SetOp(st.gr, i, op)
        active == Ins(op) \cap st.active # {}
        key == CseKey(st, op, gr.slots[op.out].len)
        twins == Twins(st, key)
        twin == Twin(st, key)
        candidate == CseCandidate(gr, op, keep)
        first == candidate /\ twins = {}
        shares == candidate /\ twins # {} /\ active /\ ~merge_active
        merges == candidate /\ twins # {} /\ ~(active /\ ~merge_active)
    IN  [gr |-> IF shares THEN Sharing(gr, i, twin)
                ELSE IF merges THEN Emptied(gr, op.out) ELSE gr,
         rename |-> IF merges THEN Bind(st.rename, op.out, gr.ops[twin].out) ELSE st.rename,
         primal |-> IF shares THEN Bind(st.primal, op.out, gr.ops[twin].out) ELSE st.primal,
         drop |-> IF merges THEN st.drop \cup {i} ELSE st.drop,
         keys |-> IF first THEN Bind(st.keys, i, key) ELSE st.keys,
         version |-> IF merges THEN st.version ELSE [st.version EXCEPT ![op.out] = @ + 1],
         active |-> st.active \cup (IF active THEN {op.out} ELSE {})]

CseStart(gr) ==
    [gr |-> gr, rename |-> <<>>, primal |-> <<>>, drop |-> {}, keys |-> <<>>,
     version |-> [s \in DOMAIN gr.slots |-> 0],
     active |-> {s \in DOMAIN gr.slots : gr.slots[s].param}]
CseScan(gr, keep, merge_active) ==
    LET st[i \in 0 .. Len(gr.ops)] ==
            IF i = 0 THEN CseStart(gr) ELSE CseStep(st[i - 1], i, keep, merge_active)
    IN  st[Len(gr.ops)]

Cse(gr, fl, ts, rs, merge_active) ==
    LET st == CseScan(gr, rs \cup DOMAIN fl, merge_active)
    IN  [gr |-> Sub(st.gr, st.drop),
         terms |-> [t \in DOMAIN ts |-> Resolve(st.rename, ts[t])]]

-----------------------------------------------------------------------------
(* Lowering, run_passes, reduce_terms, bind and evaluation                 *)

NoEval == [point |-> 0, threw |-> FALSE, effects |-> <<>>, value |-> <<>>,
           seen |-> <<>>, grad |-> <<>>]

UpdateRoots == roots \cup ToSet(terms)

Init ==
    /\ pc = "lower"
    /\ \E p \in Programs : /\ todo = p.ops
                           /\ g = ConstantGraph(p.lens)
                           /\ fills = ConstantFills(p.lens, p.const)
    /\ source = [gr |-> g, fills |-> fills]
    /\ roots = {} /\ terms = <<>> /\ mode = "log_prob"
    /\ arena = <<>> /\ evals = 0 /\ last = NoEval

\* One statement's op.
EmitOp ==
    /\ pc = "lower" /\ todo # <<>>
    /\ LET oc == Head(todo)[1]
           of == Head(todo)[2]
       IN  \E c \in Operands(g, oc) : ToSet(c.in) \subseteq of /\ g' = Emitted(g, oc, c)
    /\ todo' = Tail(todo)
    /\ UNCHANGED <<pc, source, fills, roots, terms, mode, arena, evals, last>>

\* What a view or an output column may name: a container the section
\* computed, or a scalar nothing else consumes.
ViewSlots == ToSet(UnreadScalars(g)) \cup {s \in Containers(g) : Written(g, s)}

\* The lowered log density: unread scalars are target terms, and the arena
\* may be read at a transformed parameter too.
LoweredLogProb ==
    /\ pc = "lower" /\ todo = <<>>
    /\ UnreadScalars(g) # <<>>
    /\ \E r \in {{}} \cup {{s} : s \in ViewSlots} : roots' = r
    /\ terms' = UnreadScalars(g)
    /\ source' = [source EXCEPT !.gr = ReduceTerms(g, terms')]
    /\ mode' = "log_prob"
    /\ pc' = "inplace"
    /\ UNCHANGED <<todo, g, fills, arena, evals, last>>

\* The lowered write_array: no target, an output column read from the arena.
LoweredWriteArray ==
    /\ pc = "lower" /\ todo = <<>>
    /\ \E s \in ViewSlots : roots' = {s}
    /\ source' = [source EXCEPT !.gr = g]
    /\ mode' = "write_array"
    /\ pc' = "inplace"
    /\ UNCHANGED <<todo, g, fills, terms, arena, evals, last>>

Inplace ==
    /\ pc = "inplace" /\ pc' = "store_forward"
    /\ g' = MakeInplaceUpdates(g, UpdateRoots)
    /\ UNCHANGED <<todo, source, fills, roots, terms, mode, arena, evals, last>>

StoreForward ==
    /\ pc = "store_forward" /\ pc' = "constfold"
    /\ g' = ForwardStoresToLoads(g, UpdateRoots)
    /\ UNCHANGED <<todo, source, fills, roots, terms, mode, arena, evals, last>>

ConstFoldPass ==
    /\ pc = "constfold" /\ pc' = "reroll"
    /\ LET r == ConstFold(g, fills, UpdateRoots)
       IN  g' = r.gr /\ fills' = r.fills
    /\ UNCHANGED <<todo, source, roots, terms, mode, arena, evals, last>>

\* Reroll and partition find no lanes in a graph this small; when they found
\* one elsewhere in the model, make_inplace_updates runs again on the whole
\* graph.
PostReroll ==
    /\ pc = "reroll"
    /\ pc' = IF mode = "log_prob" THEN "elide" ELSE "cse"
    /\ g' \in {g, MakeInplaceUpdates(g, UpdateRoots)}
    /\ UNCHANGED <<todo, source, fills, roots, terms, mode, arena, evals, last>>

Elide ==
    /\ pc = "elide" /\ pc' = "cse"
    /\ g' = ElideFullExtentStores(g, UpdateRoots)
    /\ UNCHANGED <<todo, source, fills, roots, terms, mode, arena, evals, last>>

\* fast_math merges active ops outright; otherwise only primals are shared.
CsePass ==
    /\ pc = "cse" /\ pc' = "reduce"
    /\ \E fast_math \in BOOLEAN :
          LET r == Cse(g, fills, terms, roots, fast_math)
          IN  g' = r.gr /\ terms' = r.terms
    /\ UNCHANGED <<todo, source, fills, roots, mode, arena, evals, last>>

\* reduce_terms, then Executor::bind_ and the fills.
ReduceAndBind ==
    /\ pc = "reduce"
    /\ g' = ReduceTerms(g, terms)
    /\ pc' = IF CachedFollowSource(g') THEN "bound" ELSE "bind_error"
    /\ arena' = BoundArena(g', fills)
    /\ UNCHANGED <<todo, source, fills, roots, terms, mode, evals, last>>

\* One gradient (or forward, for write_array) over the arena as it stands.
Eval ==
    /\ pc = "bound" /\ evals < Len(Points)
    /\ LET p == Points[evals + 1]
           r == Evaluate(g, arena, p, roots)
       IN  /\ arena' = r.vals
           /\ last' = [point |-> p, threw |-> r.threw, effects |-> r.effects,
                       value |-> r.value, seen |-> r.seen, grad |-> r.grad]
    /\ evals' = evals + 1
    /\ UNCHANGED <<pc, todo, source, g, fills, roots, terms, mode>>

Next ==
    \/ EmitOp \/ LoweredLogProb \/ LoweredWriteArray
    \/ Inplace \/ StoreForward \/ ConstFoldPass \/ PostReroll \/ Elide \/ CsePass
    \/ ReduceAndBind \/ Eval

Spec == Init /\ [][Next]_vars

-----------------------------------------------------------------------------
(* Properties                                                              *)

\* The lowered graph, evaluated on its own with nothing left over from an
\* earlier evaluation.
Meaning(p) == Evaluate(source.gr, BoundArena(source.gr, source.fills), p, roots)

\* The shape forward_stores_to_loads gets wrong: a version of a vector whose
\* last write was element k is read by another store, and then element k of
\* that same version is written again.
ReadByStoreThenRewritten(gr) ==
    \E i, j, k \in DOMAIN gr.ops :
        /\ i < j /\ j < k
        /\ {gr.ops[n].oc : n \in {i, k}} = {"SET_INDEX"}
        /\ gr.ops[j].oc \in CopyStores
        /\ gr.ops[i].out \in Ins(gr.ops[j])
        /\ gr.ops[k].in[1] = gr.ops[i].out
        /\ gr.ops[k].at = gr.ops[i].at

\* Every evaluation returns the value, the root cells, the throw and the
\* effects of the graph that was lowered, however many evaluations came
\* before it on the same arena.
MeaningKept ==
    evals > 0 => LET m == Meaning(last.point)
                 IN  /\ last.threw = m.threw /\ last.effects = m.effects
                     /\ last.value = m.value /\ last.seen = m.seen

\* The same, for the graphs without the shape above.
SameDensity == ReadByStoreThenRewritten(source.gr) \/ MeaningKept

\* Every reverse sweep returns the gradient of the graph that was lowered,
\* for the graphs without the shape above.
SameGradient ==
    evals > 0 /\ ~ReadByStoreThenRewritten(source.gr)
        => last.grad = Meaning(last.point).grad

\* After the passes no op names a slot a rewrite emptied, every in-place
\* store still writes its own base and no other op does, and every cached
\* primal follows the op whose cells it shares, so bind_ cannot refuse.
BindsCleanly ==
    /\ pc # "bind_error"
    /\ pc \in {"reduce", "bound"} =>
        \A i \in DOMAIN g.ops :
            LET op == g.ops[i]
            IN  /\ \A s \in Ins(op) \cup {op.out} : g.slots[s].len > 0
                /\ op.oc \in InplaceStores <=> op.out \in Ins(op)
                /\ Cached(op) => Cardinality(Writes(g, op.out)) = 1
=============================================================================

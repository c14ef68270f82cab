------------------------- MODULE GraphPassesProofs --------------------------
(***************************************************************************)
(* What the graph passes leave can be bound, for any programs, constants   *)
(* and strides.                                                            *)
(***************************************************************************)
EXTENDS GraphPasses, FiniteSetTheorems, SequenceTheorems, WellFoundedInduction, TLAPS

(* What a graph is made of. *)
SlotType == [len : Nat, arr : BOOLEAN, param : BOOLEAN]
Stores == CopyStores \cup InplaceStores
OpType == [oc : Opcodes \cup InplaceStores \cup {"ADD_N"}, in : Seq(Nat), out : Nat,
           at : Nat, by : Nat, src : Nat]
GraphType == [slots : Seq(SlotType), ops : Seq(OpType), result : Nat]

(* The opcodes of copying and of destructive stores are different. *)
LEMMA OpcodeFacts ==
  /\ CopyStores \cap InplaceStores = {}
  /\ \A c \in CopyStores : InplaceForm[c] \in InplaceStores
  /\ {"ADD", "MUL", "DENSITY", "EXPV", "REP_VEC", "CHECK_LOWER", "INDEX", "SLICE", "ADD_N"} \cap Stores = {}
  /\ ElementStores \subseteq Stores /\ RangeStores \subseteq Stores
  /\ (Opcodes \cup {"ADD_N"}) \cap InplaceStores = {}
<1>1. InplaceStores = {"SET_INDEX_INPLACE", "SET_SLICE_INPLACE", "SET_SLICE_STRIDED_INPLACE"}
  <2>1. \A c \in CopyStores : InplaceForm[c] =
            CASE c = "SET_INDEX" -> "SET_INDEX_INPLACE"
              [] c = "SET_SLICE" -> "SET_SLICE_INPLACE"
              [] c = "SET_SLICE_STRIDED" -> "SET_SLICE_STRIDED_INPLACE"
    BY DEF InplaceForm
  <2>2. InplaceStores = {InplaceForm["SET_INDEX"], InplaceForm["SET_SLICE"], InplaceForm["SET_SLICE_STRIDED"]}
    BY DEF InplaceStores, CopyStores
  <2>3. InplaceForm["SET_INDEX"] = "SET_INDEX_INPLACE"
    BY <2>1 DEF CopyStores
  <2>4. InplaceForm["SET_SLICE"] = "SET_SLICE_INPLACE"
    BY <2>1 DEF CopyStores
  <2>5. InplaceForm["SET_SLICE_STRIDED"] = "SET_SLICE_STRIDED_INPLACE"
    BY <2>1 DEF CopyStores
  <2> QED
    BY <2>2, <2>3, <2>4, <2>5
<1>2. \A c \in CopyStores : InplaceForm[c] \in InplaceStores
  BY DEF InplaceStores
<1> QED
  BY <1>1, <1>2 DEF CopyStores, Stores, ElementStores, RangeStores, Opcodes

(* The fields and entries of a graph. *)
LEMMA GraphFacts ==
  ASSUME NEW gr \in GraphType
  PROVE  /\ gr.slots \in Seq(SlotType) /\ gr.ops \in Seq(OpType) /\ gr.result \in Nat
         /\ Len(gr.ops) \in Nat /\ DOMAIN gr.ops = 1 .. Len(gr.ops)
         /\ Len(gr.slots) \in Nat /\ DOMAIN gr.slots = 1 .. Len(gr.slots)
         /\ \A i \in DOMAIN gr.ops : gr.ops[i] \in OpType
         /\ \A s \in DOMAIN gr.slots : gr.slots[s] \in SlotType
<1>1. /\ gr.slots \in Seq(SlotType) /\ gr.ops \in Seq(OpType) /\ gr.result \in Nat
  BY DEF GraphType
<1> QED
  BY <1>1, LenProperties, ElementOfSeq

(* Replacing one op changes nothing else. *)
LEMMA SetOpFacts ==
  ASSUME NEW gr \in GraphType, NEW i \in DOMAIN gr.ops, NEW op \in OpType
  PROVE  /\ SetOp(gr, i, op) \in GraphType
         /\ SetOp(gr, i, op).slots = gr.slots
         /\ DOMAIN SetOp(gr, i, op).ops = DOMAIN gr.ops
         /\ \A k \in DOMAIN gr.ops : SetOp(gr, i, op).ops[k] = IF k = i THEN op ELSE gr.ops[k]
<1>1. gr.slots \in Seq(SlotType) /\ gr.ops \in Seq(OpType) /\ gr.result \in Nat
  BY GraphFacts
<1>2. PICK q : q = [gr.ops EXCEPT ![i] = op]
  OBVIOUS
<1>3. q \in Seq(OpType) /\ DOMAIN q = DOMAIN gr.ops
  BY <1>1, <1>2
<1>4. SetOp(gr, i, op) = [slots |-> gr.slots, ops |-> q, result |-> gr.result]
  BY <1>2 DEF SetOp
<1>5. SetOp(gr, i, op) \in GraphType
  BY <1>1, <1>3, <1>4 DEF GraphType
<1>6. \A k \in DOMAIN gr.ops : q[k] = IF k = i THEN op ELSE gr.ops[k]
  BY <1>2
<1> QED
  BY <1>3, <1>4, <1>5, <1>6

(* Giving up the cells of a slot changes that slot's length only. *)
LEMMA EmptiedFacts ==
  ASSUME NEW gr \in GraphType, NEW s \in DOMAIN gr.slots
  PROVE  /\ Emptied(gr, s) \in GraphType
         /\ Emptied(gr, s).ops = gr.ops
         /\ DOMAIN Emptied(gr, s).slots = DOMAIN gr.slots
         /\ \A t \in DOMAIN gr.slots : Emptied(gr, s).slots[t].arr = gr.slots[t].arr
         /\ \A t \in DOMAIN gr.slots : t # s => Emptied(gr, s).slots[t] = gr.slots[t]
<1>1. gr.slots \in Seq(SlotType) /\ gr.ops \in Seq(OpType) /\ gr.result \in Nat /\ gr.slots[s] \in SlotType
  BY GraphFacts
<1>a. PICK x : x = Slot(0, gr.slots[s].arr, gr.slots[s].param)
  OBVIOUS
<1>b. x \in SlotType /\ x.arr = gr.slots[s].arr
  BY <1>1, <1>a DEF Slot, SlotType
<1>2. PICK q : q = [gr.slots EXCEPT ![s] = x]
  OBVIOUS
<1>3. q \in Seq(SlotType) /\ DOMAIN q = DOMAIN gr.slots
  BY <1>1, <1>2, <1>b
<1>4. Emptied(gr, s) = [slots |-> q, ops |-> gr.ops, result |-> gr.result]
  BY <1>2, <1>a DEF Emptied
<1>5. Emptied(gr, s) \in GraphType
  BY <1>1, <1>3, <1>4 DEF GraphType
<1>6. \A t \in DOMAIN gr.slots : q[t] = IF t = s THEN x ELSE gr.slots[t]
  BY <1>2
<1> QED
  BY <1>3, <1>4, <1>5, <1>6, <1>b

(* Renaming the inputs of an op changes nothing else about it. *)
LEMMA ResolveInsFacts ==
  ASSUME NEW op \in OpType, NEW rename, \A s \in DOMAIN rename : rename[s] \in Nat
  PROVE  /\ ResolveIns(rename, op) \in OpType
         /\ ResolveIns(rename, op).oc = op.oc /\ ResolveIns(rename, op).out = op.out
         /\ ResolveIns(rename, op).src = op.src
         /\ ResolveIns(rename, op).at = op.at
         /\ DOMAIN ResolveIns(rename, op).in = DOMAIN op.in
         /\ \A j \in DOMAIN op.in : ResolveIns(rename, op).in[j] = Resolve(rename, op.in[j])
         /\ Ins(ResolveIns(rename, op)) = {Resolve(rename, s) : s \in Ins(op)}
<1>1. op.in \in Seq(Nat)
  BY DEF OpType
<1>2. PICK q : q = [j \in DOMAIN op.in |-> Resolve(rename, op.in[j])]
  OBVIOUS
<1>3. \A s \in Nat : Resolve(rename, s) \in Nat
  BY DEF Resolve
<1>4. DOMAIN op.in = 1 .. Len(op.in) /\ Len(op.in) \in Nat /\ \A j \in DOMAIN op.in : op.in[j] \in Nat
  BY <1>1, LenProperties, ElementOfSeq
<1>5. q \in Seq(Nat) /\ DOMAIN q = DOMAIN op.in
  <2>1. q \in [1 .. Len(op.in) -> Nat]
    BY <1>2, <1>3, <1>4
  <2> QED
    BY <1>4, <2>1, SeqDef
<1>6. PICK r : r = [op EXCEPT !.in = q]
  OBVIOUS
<1>7. /\ r \in OpType /\ r.oc = op.oc /\ r.out = op.out /\ r.src = op.src /\ r.at = op.at /\ r.in = q
  BY <1>5, <1>6 DEF OpType
<1>8. ResolveIns(rename, op) = r
  BY <1>2, <1>6 DEF ResolveIns
<1>9. ToSet(q) = {Resolve(rename, s) : s \in ToSet(op.in)}
  BY <1>2 DEF ToSet
<1> QED
  BY <1>2, <1>5, <1>7, <1>8, <1>9 DEF Ins

-----------------------------------------------------------------------------
(* A non-empty set of naturals has a least element. *)
LEMMA LeastNat ==
  ASSUME NEW T, T \subseteq Nat, T # {}
  PROVE  \E m \in T : \A k \in T : m <= k
<1>1. PICK m \in T : \A k \in T : ~(<<k, m>> \in OpToRel(<, Nat))
  BY WFMin, NatLessThanWellFounded
<1>2. \A k \in T : ~(k < m)
  BY <1>1 DEF OpToRel
<1> QED
  BY <1>2

-----------------------------------------------------------------------------
(* The slots an op names, and those the first k ops name. *)
Mentions(op) == Ins(op) \cup {op.out}
Seen(ops, k) == UNION {Mentions(ops[j]) : j \in 1 .. k}

(* A destructive store writes its base, any other op a slot it does not read; *)
(* stores have a base and a value, loads one operand.                        *)
Shaped(op) ==
  /\ op.oc \in InplaceStores => op.out = op.in[1]
  /\ op.oc \notin InplaceStores => op.out \notin Ins(op)
  /\ op.oc \in Stores => DOMAIN op.in = {1, 2}
  /\ op.oc \in {"SLICE", "INDEX"} => DOMAIN op.in = {1}

(* Stores update containers, an element that is loaded is a scalar. *)
Sorted(gr, op) ==
  /\ op.oc \in Stores => gr.slots[op.in[1]].arr
  /\ op.oc = "INDEX" => ~gr.slots[op.out].arr

(* A slot that has its cells. *)
Live(gr, s) == s \in DOMAIN gr.slots /\ gr.slots[s].len > 0

(* Nothing names a slot before the op that is not a destructive store and    *)
(* writes it: what it computes is new.                                      *)
DefFirst(ops) ==
  \A k \in DOMAIN ops : ops[k].oc \notin InplaceStores => ops[k].out \notin Seen(ops, k - 1)

(* What the passes up to cse preserve, and those up to the second in-place   *)
(* pass beside it.                                                          *)
Good(gr) ==
  /\ gr \in GraphType
  /\ \A k \in DOMAIN gr.ops : /\ Shaped(gr.ops[k]) /\ gr.ops[k].src = 0
                              /\ \A s \in Mentions(gr.ops[k]) : Live(gr, s)
  /\ DefFirst(gr.ops)
AllSorted(gr) == \A k \in DOMAIN gr.ops : Sorted(gr, gr.ops[k])

(* A pass in progress: each op of gr stands for the op of old at its place,  *)
(* and names nothing that was not named up to there.                        *)
Follows(old, gr) ==
  /\ gr \in GraphType
  /\ DOMAIN gr.ops = DOMAIN old.ops /\ DOMAIN gr.slots = DOMAIN old.slots
  /\ \A s \in DOMAIN old.slots : gr.slots[s].arr = old.slots[s].arr
  /\ \A k \in DOMAIN old.ops :
       /\ Mentions(gr.ops[k]) \subseteq Seen(old.ops, k)
       /\ Shaped(gr.ops[k])
       /\ gr.ops[k].oc \notin InplaceStores =>
            old.ops[k].oc \notin InplaceStores /\ gr.ops[k].out = old.ops[k].out

(* h leads the places of t to those of the first n of seq that are kept. *)
Picks(h, t, n, seq, drop) ==
  /\ h \in [1 .. Len(t) -> (1 .. n) \ drop]
  /\ \A j \in 1 .. Len(t) : t[j] = seq[h[j]]
  /\ \A i, j \in 1 .. Len(t) : i < j => h[i] < h[j]
  /\ \A k \in (1 .. n) \ drop : \E j \in 1 .. Len(t) : h[j] = k

-----------------------------------------------------------------------------
(* What the loop of make_inplace_updates keeps: a renamed slot has lost its  *)
(* cells, and nothing before the loop's place, no root and no other renaming *)
(* names it.                                                                *)
InplaceInv(st, i, old, rs) ==
  /\ Follows(old, st.gr)
  /\ \A k \in DOMAIN old.ops : k > i => st.gr.ops[k] = old.ops[k]
  /\ \A k \in DOMAIN old.ops : st.gr.ops[k].src = 0 /\ Sorted(old, st.gr.ops[k])
  /\ \A k \in 1 .. i : Mentions(st.gr.ops[k]) \cap DOMAIN st.rename = {}
  /\ \A s \in DOMAIN st.rename :
       /\ s \in DOMAIN old.slots /\ s \in Seen(old.ops, i) /\ s \notin rs
       /\ st.rename[s] \in Seen(old.ops, i) \ DOMAIN st.rename
       /\ old.slots[st.rename[s]].arr
  /\ \A s \in DOMAIN old.slots \ DOMAIN st.rename : st.gr.slots[s] = old.slots[s]

(* forward_stores_to_loads renames scalars to values that were stored before. *)
ForwardInv(st, i, old) ==
  /\ Follows(old, st.gr) /\ st.gr.slots = old.slots
  /\ \A k \in DOMAIN old.ops : k > i => st.gr.ops[k] = old.ops[k]
  /\ \A k \in DOMAIN old.ops : st.gr.ops[k].src = 0 /\ Sorted(st.gr, st.gr.ops[k])
  /\ \A s \in DOMAIN st.rename : ~old.slots[s].arr /\ st.rename[s] \in Seen(old.ops, i)
  /\ DOMAIN st.stores = DOMAIN old.slots
  /\ \A s \in DOMAIN st.stores : st.stores[s].op # 0 => st.stores[s].value \in Seen(old.ops, i)

(* elide_full_extent_stores moves readers only. *)
ElideInv(st, old) ==
  /\ Follows(old, st.gr) /\ st.gr.slots = old.slots
  /\ \A k \in DOMAIN old.ops : st.gr.ops[k].src = 0 /\ st.gr.ops[k].out = old.ops[k].out

(* cse merges an op that is the only one to write its output into an earlier *)
(* one that is, and that stays.                                              *)
Sole(gr, k) == Writes(gr, gr.ops[k].out) = {k}
CseParts(gr, rename, drop, keys, i, old) ==
  /\ Follows(old, gr)
  /\ \A k \in DOMAIN old.ops : gr.ops[k].out = old.ops[k].out
  /\ \A k \in DOMAIN old.ops : k > i => gr.ops[k] = old.ops[k]
  /\ drop \subseteq 1 .. i /\ DOMAIN keys \subseteq (1 .. i) \ drop
  /\ \A k \in drop \cup DOMAIN keys : Sole(old, k)
  /\ DOMAIN rename = {old.ops[d].out : d \in drop}
  /\ \A s \in DOMAIN rename : \E k \in DOMAIN keys : rename[s] = old.ops[k].out
  /\ \A k \in (1 .. i) \ drop : Mentions(gr.ops[k]) \cap DOMAIN rename = {}
  /\ \A s \in DOMAIN old.slots \ DOMAIN rename : gr.slots[s] = old.slots[s]
  /\ \A k \in DOMAIN keys : gr.ops[k].src \in {0, old.ops[k].out}
  /\ \A k \in (1 .. i) \ drop : Cached(gr.ops[k]) =>
       /\ Sole(old, k)
       /\ \E j \in DOMAIN keys : /\ j < k /\ old.ops[j].out = gr.ops[k].src
                                    /\ gr.ops[j].src = gr.ops[k].src
CseInv(st, i, old) == CseParts(st.gr, st.rename, st.drop, st.keys, i, old)

(* The loops of the passes, p naming the pass and x what it works on: where  *)
(* each starts, its step, and what it keeps.                                *)
Start(p, x) ==
  CASE p = "kept" -> <<>>
    [] p = "inplace" -> InplaceStart(x[1])
    [] p = "forward" -> ForwardStart(x[1])
    [] p = "elide" -> [gr |-> x[1], drop |-> {}]
    [] p = "cse" -> CseStart(x[1])
Step(p, x, st, i) ==
  CASE p = "kept" -> IF i \in x[3] THEN st ELSE Append(st, x[2][i])
    [] p = "inplace" -> InplaceStep(st, i, x[2])
    [] p = "forward" -> ForwardStep(st, i, x[2])
    [] p = "elide" -> ElideStep(st, x[1], i, x[2])
    [] p = "cse" -> CseStep(st, i, x[2], x[3])
Keeps(p, x, st, i) ==
  CASE p = "kept" -> st \in Seq(x[1]) /\ \E h : Picks(h, st, i, x[2], x[3])
    [] p = "inplace" -> InplaceInv(st, i, x[1], x[2])
    [] p = "forward" -> ForwardInv(st, i, x[1])
    [] p = "elide" -> ElideInv(st, x[1])
    [] p = "cse" -> CseInv(st, i, x[1])

Trace(f, n, p, x) ==
  f = [i \in 0 .. n |-> IF i = 0 THEN Start(p, x) ELSE Step(p, x, f[i - 1], i)]

(* A loop has a trace, by induction on its length. *)
LEMMA TraceExists ==
  ASSUME NEW p, NEW x, NEW n \in Nat
  PROVE  \E f : Trace(f, n, p, x)
<1> DEFINE T == {m \in 0 .. n : ~ \E f : Trace(f, m, p, x)}
<1> SUFFICES ASSUME T # {} PROVE FALSE
  OBVIOUS
<1>a. T \subseteq Nat
  OBVIOUS
<1> HIDE DEF T
<1>1. PICK m \in T : \A k \in T : m <= k
  BY <1>a, LeastNat
<1>2. m \in 0 .. n /\ ~ \E f : Trace(f, m, p, x)
  BY <1>1 DEF T
<1>3. CASE m = 0
  <2>1. PICK w : w = [i \in 0 .. 0 |-> Start(p, x)]
    OBVIOUS
  <2>2. Trace(w, 0, p, x)
    BY <2>1 DEF Trace
  <2> QED
    BY <1>2, <1>3, <2>2
<1>4. CASE m # 0
  <2>1. m - 1 \in 0 .. n /\ m - 1 \notin T
    BY <1>1, <1>2, <1>4
  <2>2. PICK f : Trace(f, m - 1, p, x)
    BY <2>1 DEF T
  <2>3. PICK w : w = [i \in 0 .. m |-> IF i = m THEN Step(p, x, f[m - 1], m) ELSE f[i]]
    OBVIOUS
  <2>4. \A i \in 0 .. m - 1 : w[i] = f[i]
    BY <1>2, <1>4, <2>3
  <2>5. ASSUME NEW i \in 0 .. m
        PROVE  w[i] = IF i = 0 THEN Start(p, x) ELSE Step(p, x, w[i - 1], i)
    <3>1. CASE i = m
      BY <1>2, <1>4, <2>3, <2>4, <3>1
    <3>2. CASE i # m
      <4>1. i \in 0 .. m - 1 /\ (i # 0 => i - 1 \in 0 .. m - 1)
        BY <1>2, <3>2
      <4>2. f[i] = IF i = 0 THEN Start(p, x) ELSE Step(p, x, f[i - 1], i)
        BY <2>2, <4>1 DEF Trace
      <4> QED
        BY <2>4, <4>1, <4>2
    <3> QED
      BY <3>1, <3>2
  <2>6. w = [i \in 0 .. m |-> w[i]]
    BY <2>3
  <2>7. Trace(w, m, p, x)
    BY <2>5, <2>6 DEF Trace
  <2> QED
    BY <1>2, <2>7
<1> QED
  BY <1>3, <1>4

(* What the start has and each step keeps, every state of the trace has. *)
LEMMA TraceKeeps ==
  ASSUME NEW p, NEW x, NEW n \in Nat, NEW f, Trace(f, n, p, x),
         Keeps(p, x, Start(p, x), 0),
         \A i \in 1 .. n : \A st : Keeps(p, x, st, i - 1) => Keeps(p, x, Step(p, x, st, i), i)
  PROVE  Keeps(p, x, f[n], n)
<1> DEFINE T == {m \in 0 .. n : ~Keeps(p, x, f[m], m)}
<1>1. SUFFICES ASSUME T # {} PROVE FALSE
  <2>1. n \in 0 .. n
    OBVIOUS
  <2> QED
    BY <2>1
<1>2. T \subseteq Nat
  OBVIOUS
<1> HIDE DEF T
<1>3. PICK m \in T : \A k \in T : m <= k
  BY <1>1, <1>2, LeastNat
<1>4. m \in 0 .. n /\ ~Keeps(p, x, f[m], m)
  BY DEF T
<1>5. f[m] = IF m = 0 THEN Start(p, x) ELSE Step(p, x, f[m - 1], m)
  BY <1>4 DEF Trace
<1>6. m # 0
  BY <1>4, <1>5
<1>7. m \in 1 .. n /\ m - 1 \in 0 .. n /\ m - 1 \notin T
  BY <1>3, <1>4, <1>6
<1>8. Keeps(p, x, f[m - 1], m - 1)
  BY <1>7 DEF T
<1> QED
  BY <1>4, <1>5, <1>6, <1>7, <1>8

-----------------------------------------------------------------------------
(* Each step of Kept keeps the place it is at, or drops it. *)
LEMMA KeptStep ==
  ASSUME NEW S, NEW seq \in Seq(S), NEW drop, NEW m \in 1 .. Len(seq), NEW t,
         t \in Seq(S) /\ \E h : Picks(h, t, m - 1, seq, drop)
  PROVE  LET u == IF m \in drop THEN t ELSE Append(t, seq[m])
         IN  u \in Seq(S) /\ \E h : Picks(h, u, m, seq, drop)
<1>0. Len(seq) \in Nat /\ \A i \in 1 .. Len(seq) : seq[i] \in S
  BY LenProperties, ElementOfSeq
<1>1. PICK h : Picks(h, t, m - 1, seq, drop)
  OBVIOUS
<1>2. t \in Seq(S) /\ Len(t) \in Nat
  BY LenProperties
<1>3. CASE m \in drop
  <2>1. (1 .. m) \ drop = (1 .. m - 1) \ drop
    BY <1>0, <1>3
  <2>2. Picks(h, t, m, seq, drop)
    BY <1>1, <2>1 DEF Picks
  <2> QED
    BY <1>2, <1>3, <2>2
<1>4. CASE m \notin drop
  <2>2. seq[m] \in S
    BY <1>0
  <2>3. PICK u : u = Append(t, seq[m])
    OBVIOUS
  <2>4. /\ u \in Seq(S) /\ Len(u) = Len(t) + 1 /\ u[Len(t) + 1] = seq[m]
        /\ \A j \in 1 .. Len(t) : u[j] = t[j]
    BY <1>2, <2>2, <2>3, AppendProperties
  <2>5. PICK k : k = [j \in 1 .. Len(t) + 1 |-> IF j = Len(t) + 1 THEN m ELSE h[j]]
    OBVIOUS
  <2>6. /\ h \in [1 .. Len(t) -> (1 .. m - 1) \ drop]
        /\ \A j \in 1 .. Len(t) : t[j] = seq[h[j]]
        /\ \A i, j \in 1 .. Len(t) : i < j => h[i] < h[j]
        /\ \A i \in (1 .. m - 1) \ drop : \E j \in 1 .. Len(t) : h[j] = i
    BY <1>1 DEF Picks
  <2>7. \A j \in 1 .. Len(t) : k[j] = h[j] /\ h[j] \in 1 .. m - 1 /\ h[j] \notin drop
    <3>1. \A j \in 1 .. Len(t) : h[j] \in (1 .. m - 1) \ drop
      BY <2>6
    <3>2. \A j \in 1 .. Len(t) : j \in 1 .. Len(t) + 1 /\ j # Len(t) + 1
      BY <1>2
    <3> QED
      BY <2>5, <3>1, <3>2
  <2>8. k[Len(t) + 1] = m
    BY <1>2, <2>5
  <2>9. k \in [1 .. Len(u) -> (1 .. m) \ drop]
    <3>1. ASSUME NEW j \in 1 .. Len(t) + 1 PROVE k[j] \in (1 .. m) \ drop
      <4>1. CASE j = Len(t) + 1
        <5>1. m \in 1 .. m
          BY <1>0
        <5> QED
          BY <1>4, <2>8, <4>1, <5>1
      <4>2. CASE j # Len(t) + 1
        <5>1. j \in 1 .. Len(t)
          BY <1>2, <4>2
        <5>2. k[j] \in 1 .. m - 1 /\ k[j] \notin drop
          BY <2>7, <5>1
        <5> QED
          BY <1>0, <5>2
      <4> QED
        BY <4>1, <4>2
    <3> QED
      BY <2>4, <2>5, <3>1
  <2>10. \A j \in 1 .. Len(u) : u[j] = seq[k[j]]
    BY <1>2, <2>4, <2>6, <2>7, <2>8
  <2>11. ASSUME NEW i \in 1 .. Len(u), NEW j \in 1 .. Len(u), i < j PROVE k[i] < k[j]
    <3>1. i \in 1 .. Len(t) /\ k[i] = h[i] /\ h[i] \in 1 .. m - 1
      <4>1. i \in 1 .. Len(t)
        BY <1>2, <2>4, <2>11
      <4> QED
        BY <2>7, <4>1
    <3>2. CASE j = Len(t) + 1
      BY <1>0, <2>8, <3>1, <3>2
    <3>3. CASE j # Len(t) + 1
      <4>1. j \in 1 .. Len(t)
        BY <1>2, <2>4, <3>3
      <4>2. k[j] = h[j] /\ h[i] < h[j]
        BY <2>6, <2>7, <2>11, <3>1, <4>1
      <4> QED
        BY <3>1, <4>2
    <3> QED
      BY <3>2, <3>3
  <2>12. \A i \in (1 .. m) \ drop : \E j \in 1 .. Len(u) : k[j] = i
    <3> SUFFICES ASSUME NEW i \in (1 .. m) \ drop PROVE \E j \in 1 .. Len(u) : k[j] = i
      OBVIOUS
    <3>1. CASE i = m
      BY <1>2, <2>4, <2>8, <3>1
    <3>2. CASE i # m
      <4>1. i \in (1 .. m - 1) \ drop
        BY <1>0, <3>2
      <4>2. PICK j \in 1 .. Len(t) : h[j] = i
        BY <2>6, <4>1
      <4> QED
        BY <1>2, <2>4, <2>7, <4>2
    <3> QED
      BY <3>1, <3>2
  <2>13. Picks(k, u, m, seq, drop)
    BY <2>9, <2>10, <2>11, <2>12 DEF Picks
  <2> QED
    BY <1>4, <2>3, <2>4, <2>13
<1> QED
  BY <1>3, <1>4

(* Kept keeps the places that are not dropped, in their order. *)
LEMMA KeptFacts ==
  ASSUME NEW S, NEW seq \in Seq(S), NEW drop
  PROVE  /\ Kept(seq, drop) \in Seq(S)
         /\ \E h : Picks(h, Kept(seq, drop), Len(seq), seq, drop)
<1> DEFINE x == <<S, seq, drop>>
           F(f) == [i \in 0 .. Len(seq) |-> IF i = 0 THEN <<>>
                       ELSE IF i \in drop THEN f[i - 1] ELSE Append(f[i - 1], seq[i])]
           upto == CHOOSE f : f = F(f)
<1>0. Len(seq) \in Nat
  BY LenProperties
<1>1. Kept(seq, drop) = upto[Len(seq)]
  BY DEF Kept
<1>2. PICK f : Trace(f, Len(seq), "kept", x)
  BY <1>0, TraceExists
<1>3. f = F(f)
  BY <1>2 DEF Trace, Start, Step
<1>4. upto = F(upto)
  BY <1>3
<1> HIDE DEF upto
<1>5. PICK w : w = upto
  OBVIOUS
<1>6. Trace(w, Len(seq), "kept", x)
  BY <1>4, <1>5 DEF Trace, Start, Step
<1>7. Keeps("kept", x, Start("kept", x), 0)
  <2>1. Picks(<<>>, <<>>, 0, seq, drop)
    BY DEF Picks
  <2> QED
    BY <2>1 DEF Keeps, Start
<1>8. ASSUME NEW i \in 1 .. Len(seq), NEW st, Keeps("kept", x, st, i - 1)
      PROVE  Keeps("kept", x, Step("kept", x, st, i), i)
  <2>1. st \in Seq(S) /\ \E h : Picks(h, st, i - 1, seq, drop)
    BY <1>8 DEF Keeps
  <2>2. PICK u : u = IF i \in drop THEN st ELSE Append(st, seq[i])
    OBVIOUS
  <2>3. u \in Seq(S) /\ \E h : Picks(h, u, i, seq, drop)
    BY <2>1, <2>2, KeptStep
  <2>4. Step("kept", x, st, i) = u
    BY <2>2 DEF Step
  <2> QED
    BY <2>3, <2>4 DEF Keeps
<1>9. Keeps("kept", x, w[Len(seq)], Len(seq))
  BY <1>0, <1>6, <1>7, <1>8, TraceKeeps
<1>10. Kept(seq, drop) = w[Len(seq)]
  BY <1>1, <1>5
<1> QED
  BY <1>9, <1>10 DEF Keeps

-----------------------------------------------------------------------------
(* What was named by the first ops was named by one of them. *)
LEMMA SeenFacts ==
  ASSUME NEW ops, NEW k \in Nat
  PROVE  /\ \A j \in 1 .. k : Mentions(ops[j]) \subseteq Seen(ops, k)
         /\ \A i \in 0 .. k : Seen(ops, i) \subseteq Seen(ops, k)
         /\ \A s \in Seen(ops, k) : \E j \in 1 .. k : s \in Mentions(ops[j])
  BY DEF Seen

(* A graph follows itself. *)
LEMMA FollowsItself ==
  ASSUME NEW gr, Good(gr)
  PROVE  Follows(gr, gr)
<1>1. gr \in GraphType /\ \A k \in DOMAIN gr.ops : Shaped(gr.ops[k])
  BY DEF Good
<1>2. \A k \in DOMAIN gr.ops : k \in 1 .. k /\ k \in Nat
  BY <1>1, GraphFacts
<1>3. \A k \in DOMAIN gr.ops : Mentions(gr.ops[k]) \subseteq Seen(gr.ops, k)
  BY <1>2, SeenFacts
<1> QED
  BY <1>1, <1>3 DEF Follows

(* Every slot named in a good graph has its cells. *)
LEMMA SeenLive ==
  ASSUME NEW gr, Good(gr), NEW k \in DOMAIN gr.ops, NEW s \in Seen(gr.ops, k)
  PROVE  Live(gr, s) /\ s \in Nat
<1>0. gr \in GraphType
  BY DEF Good
<1>1. DOMAIN gr.ops = 1 .. Len(gr.ops) /\ Len(gr.ops) \in Nat /\ DOMAIN gr.slots = 1 .. Len(gr.slots) /\ Len(gr.slots) \in Nat
  BY <1>0, GraphFacts
<1>2. PICK j \in 1 .. k : s \in Mentions(gr.ops[j])
  BY <1>1, SeenFacts
<1>3. j \in DOMAIN gr.ops
  BY <1>1
<1>4. Live(gr, s)
  BY <1>2, <1>3 DEF Good
<1> QED
  BY <1>1, <1>4 DEF Live

(* Putting another op in a place keeps a pass on its way. *)
LEMMA FollowsSet ==
  ASSUME NEW old, NEW gr, Follows(old, gr), NEW i \in DOMAIN old.ops, NEW op \in OpType,
         Mentions(op) \subseteq Seen(old.ops, i), Shaped(op),
         op.oc \notin InplaceStores => old.ops[i].oc \notin InplaceStores /\ op.out = old.ops[i].out
  PROVE  Follows(old, SetOp(gr, i, op))
<1>1. gr \in GraphType /\ i \in DOMAIN gr.ops
  BY DEF Follows
<1>2. PICK q : q = SetOp(gr, i, op)
  OBVIOUS
<1>3. /\ q \in GraphType /\ q.slots = gr.slots /\ DOMAIN q.ops = DOMAIN gr.ops
      /\ \A k \in DOMAIN gr.ops : q.ops[k] = IF k = i THEN op ELSE gr.ops[k]
  BY <1>1, <1>2, SetOpFacts
<1>4. Follows(old, q)
  BY <1>3 DEF Follows
<1> QED
  BY <1>2, <1>4

(* So does giving up the cells of a slot. *)
LEMMA FollowsEmptied ==
  ASSUME NEW old, NEW gr, Follows(old, gr), NEW s \in DOMAIN old.slots
  PROVE  Follows(old, Emptied(gr, s))
<1>1. gr \in GraphType /\ s \in DOMAIN gr.slots
  BY DEF Follows
<1>2. PICK q : q = Emptied(gr, s)
  OBVIOUS
<1>3. /\ q \in GraphType /\ q.ops = gr.ops /\ DOMAIN q.slots = DOMAIN gr.slots
      /\ \A t \in DOMAIN gr.slots : q.slots[t].arr = gr.slots[t].arr
  BY <1>1, <1>2, EmptiedFacts
<1>4. Follows(old, q)
  BY <1>3 DEF Follows
<1> QED
  BY <1>2, <1>4

(* A pass that has ended leaves what its ops compute new. *)
LEMMA FollowsGood ==
  ASSUME NEW old, Good(old), NEW gr, Follows(old, gr),
         \A k \in DOMAIN gr.ops : gr.ops[k].src = 0 /\ \A s \in Mentions(gr.ops[k]) : Live(gr, s)
  PROVE  Good(gr)
<1>1. gr \in GraphType /\ old \in GraphType
  BY DEF Good, Follows
<1>2. DOMAIN gr.ops = 1 .. Len(gr.ops) /\ Len(gr.ops) \in Nat /\ DOMAIN gr.ops = DOMAIN old.ops
  BY <1>1, GraphFacts DEF Follows
<1>3. ASSUME NEW k \in DOMAIN gr.ops, gr.ops[k].oc \notin InplaceStores
      PROVE  gr.ops[k].out \notin Seen(gr.ops, k - 1)
  <2>1. old.ops[k].oc \notin InplaceStores /\ gr.ops[k].out = old.ops[k].out
    BY <1>2, <1>3 DEF Follows
  <2>2. gr.ops[k].out \notin Seen(old.ops, k - 1)
    BY <1>2, <2>1 DEF Good, DefFirst
  <2>3. ASSUME NEW s \in Seen(gr.ops, k - 1) PROVE s \in Seen(old.ops, k - 1)
    <3>1. k - 1 \in Nat
      BY <1>2
    <3>2. PICK j \in 1 .. k - 1 : s \in Mentions(gr.ops[j])
      BY <3>1, SeenFacts
    <3>3. j \in DOMAIN old.ops /\ j \in 0 .. k - 1
      BY <1>2, <3>1
    <3>4. s \in Seen(old.ops, j)
      BY <3>2, <3>3 DEF Follows
    <3> QED
      BY <3>1, <3>3, <3>4, SeenFacts
  <2> QED
    BY <2>2, <2>3
<1> QED
  BY <1>1, <1>2, <1>3 DEF Good, DefFirst, Follows

(* Dropping ops keeps a graph good. *)
LEMMA SubGood ==
  ASSUME NEW gr, Good(gr), NEW drop
  PROVE  Good(Sub(gr, drop)) /\ (AllSorted(gr) => AllSorted(Sub(gr, drop)))
<1>1. gr \in GraphType
  BY DEF Good
<1>2. gr.ops \in Seq(OpType) /\ Len(gr.ops) \in Nat /\ DOMAIN gr.ops = 1 .. Len(gr.ops)
  BY <1>1, GraphFacts
<1>3. PICK t : t = Kept(gr.ops, drop)
  OBVIOUS
<1>4. t \in Seq(OpType) /\ \E h : Picks(h, t, Len(gr.ops), gr.ops, drop)
  BY <1>2, <1>3, KeptFacts
<1>5. PICK h : Picks(h, t, Len(gr.ops), gr.ops, drop)
  BY <1>4
<1>6. Len(t) \in Nat /\ DOMAIN t = 1 .. Len(t)
  BY <1>4, LenProperties
<1>7. PICK q : q = [slots |-> gr.slots, ops |-> t, result |-> gr.result]
  OBVIOUS
<1>8. Sub(gr, drop) = q
  BY <1>3, <1>7 DEF Sub
<1>9. q \in GraphType /\ q.slots = gr.slots /\ q.ops = t
  BY <1>1, <1>4, <1>7, GraphFacts DEF GraphType
<1>10. /\ \A j \in DOMAIN t : h[j] \in DOMAIN gr.ops /\ t[j] = gr.ops[h[j]]
       /\ \A i, j \in DOMAIN t : i < j => h[i] < h[j]
  BY <1>2, <1>5, <1>6 DEF Picks
<1>11. \A j \in DOMAIN t : /\ Shaped(t[j]) /\ t[j].src = 0
                           /\ \A s \in Mentions(t[j]) : Live(q, s)
  BY <1>9, <1>10 DEF Good, Live
<1>12. ASSUME NEW k \in DOMAIN t, t[k].oc \notin InplaceStores
       PROVE  t[k].out \notin Seen(t, k - 1)
  <2>1. h[k] \in DOMAIN gr.ops /\ t[k] = gr.ops[h[k]]
    BY <1>10
  <2>2. t[k].out \notin Seen(gr.ops, h[k] - 1)
    BY <1>12, <2>1 DEF Good, DefFirst
  <2>3. ASSUME NEW s \in Seen(t, k - 1) PROVE s \in Seen(gr.ops, h[k] - 1)
    <3>1. k - 1 \in Nat /\ h[k] - 1 \in Nat
      BY <1>2, <1>6, <2>1
    <3>2. PICK j \in 1 .. k - 1 : s \in Mentions(t[j])
      BY <3>1, SeenFacts
    <3>3. j \in DOMAIN t /\ j < k
      BY <1>6, <3>1
    <3>4. h[j] \in DOMAIN gr.ops /\ t[j] = gr.ops[h[j]] /\ h[j] < h[k]
      BY <1>10, <3>3
    <3>5. h[j] \in 1 .. h[k] - 1
      BY <1>2, <2>1, <3>4
    <3> QED
      BY <3>1, <3>2, <3>4, <3>5, SeenFacts
  <2> QED
    BY <2>2, <2>3
<1>13. AllSorted(gr) => AllSorted(q)
  BY <1>9, <1>10 DEF AllSorted, Sorted
<1>14. Good(q)
  BY <1>9, <1>11, <1>12 DEF Good, DefFirst
<1> QED
  BY <1>8, <1>13, <1>14

-----------------------------------------------------------------------------
(* make_inplace_updates                                                    *)

(* Moving an op: its inputs, and the output of a destructive store, follow   *)
(* the renaming.                                                            *)
LEMMA MovedFacts ==
  ASSUME NEW op \in OpType, Shaped(op), NEW rename, \A s \in DOMAIN rename : rename[s] \in Nat
  PROVE  LET q == Moved(rename, op)
         IN  /\ q \in OpType /\ q.oc = op.oc /\ q.src = op.src
             /\ DOMAIN q.in = DOMAIN op.in
             /\ \A j \in DOMAIN op.in : q.in[j] = Resolve(rename, op.in[j])
             /\ Ins(q) = {Resolve(rename, s) : s \in Ins(op)}
             /\ op.oc \in InplaceStores => q.out = q.in[1]
             /\ op.oc \notin InplaceStores => q.out = op.out
<1>1. PICK r : r = ResolveIns(rename, op)
  OBVIOUS
<1>2. /\ r \in OpType /\ r.oc = op.oc /\ r.out = op.out /\ r.src = op.src
      /\ DOMAIN r.in = DOMAIN op.in
      /\ \A j \in DOMAIN op.in : r.in[j] = Resolve(rename, op.in[j])
      /\ Ins(r) = {Resolve(rename, s) : s \in Ins(op)}
  BY <1>1, ResolveInsFacts
<1>3. CASE op.oc \in InplaceStores
  <2>1. op.out = op.in[1] /\ DOMAIN op.in = {1, 2}
    BY <1>3 DEF Shaped, Stores
  <2>2. PICK q : q = [r EXCEPT !.out = r.in[1]]
    OBVIOUS
  <2>3. r.in[1] \in Nat
    <3>1. r.in \in Seq(Nat) /\ 1 \in DOMAIN r.in
      BY <1>2, <2>1 DEF OpType
    <3>2. DOMAIN r.in = 1 .. Len(r.in)
      BY <3>1, LenProperties
    <3> QED
      BY <3>1, <3>2, ElementOfSeq
  <2>4. /\ q \in OpType /\ q.oc = r.oc /\ q.src = r.src /\ q.in = r.in /\ q.out = r.in[1]
    BY <1>2, <2>2, <2>3 DEF OpType
  <2>5. Moved(rename, op) = q
    BY <1>1, <1>3, <2>1, <2>2 DEF Moved
  <2> QED
    BY <1>2, <1>3, <2>4, <2>5 DEF Ins
<1>4. CASE op.oc \notin InplaceStores
  <2>1. Moved(rename, op) = r
    BY <1>1, <1>4 DEF Moved
  <2> QED
    BY <1>2, <1>4, <2>1
<1> QED
  BY <1>3, <1>4

(* The op the loop has at place i, moved: it names nothing new, nothing that *)
(* was renamed, and is still well formed.                                   *)
LEMMA InplaceMoved ==
  ASSUME NEW old, Good(old), AllSorted(old), NEW rs, NEW i \in DOMAIN old.ops,
         NEW st, InplaceInv(st, i - 1, old, rs), NEW q, q = Moved(st.rename, st.gr.ops[i])
  PROVE  /\ st.gr.ops[i] = old.ops[i]
         /\ q \in OpType /\ q.oc = old.ops[i].oc /\ q.src = 0
         /\ Mentions(q) \subseteq Seen(old.ops, i) \ DOMAIN st.rename
         /\ Shaped(q) /\ Sorted(old, q)
         /\ q.oc \notin InplaceStores => q.out = old.ops[i].out /\ q.out \notin Seen(old.ops, i - 1)
<1> DEFINE R == st.rename
           op == old.ops[i]
<1>0. /\ old \in GraphType /\ op \in OpType /\ Shaped(op) /\ op.src = 0
      /\ Len(old.ops) \in Nat /\ DOMAIN old.ops = 1 .. Len(old.ops) /\ Sorted(old, op)
  BY GraphFacts DEF Good, AllSorted
<1>1. i \in Nat /\ i - 1 \in Nat /\ i > i - 1 /\ i \in 1 .. i /\ i - 1 \in 0 .. i
  BY <1>0
<1>2. st.gr.ops[i] = op
  BY <1>1 DEF InplaceInv
<1>3. \A s \in DOMAIN R : /\ s \in Seen(old.ops, i - 1)
                          /\ R[s] \in Seen(old.ops, i - 1) \ DOMAIN R
                          /\ old.slots[R[s]].arr
  BY DEF InplaceInv
<1>4. Seen(old.ops, i - 1) \subseteq Seen(old.ops, i) /\ Mentions(op) \subseteq Seen(old.ops, i)
  BY <1>1, SeenFacts
<1>5. \A s \in Seen(old.ops, i) : s \in Nat
  BY SeenLive
<1>6. \A s \in DOMAIN R : R[s] \in Nat
  BY <1>3, <1>4, <1>5
<1>7. q = Moved(R, op)
  BY <1>2
<1>8. /\ q \in OpType /\ q.oc = op.oc /\ q.src = op.src
      /\ DOMAIN q.in = DOMAIN op.in
      /\ \A j \in DOMAIN op.in : q.in[j] = Resolve(R, op.in[j])
      /\ Ins(q) = {Resolve(R, s) : s \in Ins(op)}
      /\ op.oc \in InplaceStores => q.out = q.in[1]
      /\ op.oc \notin InplaceStores => q.out = op.out
  BY <1>0, <1>6, <1>7, MovedFacts
<1>9. Ins(q) \subseteq Seen(old.ops, i) \ DOMAIN R
  BY <1>3, <1>4, <1>8 DEF Resolve, Mentions
<1>10. op.oc \notin InplaceStores => op.out \notin Seen(old.ops, i - 1)
  BY <1>0 DEF Good, DefFirst
<1>11. CASE op.oc \in InplaceStores
  <2>1. DOMAIN op.in = {1, 2}
    BY <1>0, <1>11 DEF Shaped, Stores
  <2>2. q.out \in Ins(q)
    BY <1>8, <1>11, <2>1 DEF Ins, ToSet
  <2>3. Shaped(q)
    BY <1>8, <1>11, <2>1, OpcodeFacts DEF Shaped, Stores
  <2>4. Sorted(old, q)
    BY <1>0, <1>3, <1>8, <1>11, <2>1, OpcodeFacts DEF Sorted, Stores, Resolve
  <2> QED
    BY <1>0, <1>2, <1>7, <1>8, <1>9, <1>11, <2>2, <2>3, <2>4 DEF Mentions
<1>12. CASE op.oc \notin InplaceStores
  <2>1. q.out = op.out /\ q.out \notin Seen(old.ops, i - 1) /\ q.out \notin DOMAIN R
    BY <1>3, <1>8, <1>10, <1>12
  <2>2. q.out \notin Ins(q)
    BY <1>0, <1>3, <1>8, <1>12, <2>1 DEF Shaped, Resolve
  <2>3. q.out \in Seen(old.ops, i)
    BY <1>4, <2>1 DEF Mentions
  <2>4. Shaped(q)
    BY <1>0, <1>8, <1>12, <2>2 DEF Shaped
  <2>5. Sorted(old, q)
    <3>1. ASSUME op.oc \in Stores PROVE old.slots[q.in[1]].arr
      <4>1. DOMAIN op.in = {1, 2}
        BY <1>0, <3>1 DEF Shaped
      <4>2. q.in[1] = Resolve(R, op.in[1]) /\ old.slots[op.in[1]].arr
        BY <1>0, <1>8, <3>1, <4>1 DEF Sorted
      <4> QED
        BY <1>3, <4>2 DEF Resolve
    <3> QED
      BY <1>0, <1>8, <2>1, <3>1 DEF Sorted
  <2> QED
    BY <1>0, <1>2, <1>7, <1>8, <1>9, <1>12, <2>1, <2>3, <2>4, <2>5 DEF Mentions
<1> QED
  BY <1>11, <1>12

(* A step that leaves the store a copy, or the op what it is. *)
LEMMA InplaceKept ==
  ASSUME NEW old, Good(old), AllSorted(old), NEW rs, NEW i \in DOMAIN old.ops,
         NEW st, InplaceInv(st, i - 1, old, rs),
         NEW q, q = Moved(st.rename, st.gr.ops[i]),
         NEW new, new.gr = SetOp(st.gr, i, q), new.rename = st.rename
  PROVE  InplaceInv(new, i, old, rs)
<1>2. /\ q \in OpType /\ q.oc = old.ops[i].oc /\ q.src = 0
      /\ Mentions(q) \subseteq Seen(old.ops, i) \ DOMAIN st.rename
      /\ Shaped(q) /\ Sorted(old, q)
      /\ q.oc \notin InplaceStores => q.out = old.ops[i].out /\ q.out \notin Seen(old.ops, i - 1)
  BY InplaceMoved
<1>3. old \in GraphType /\ i \in Nat /\ i - 1 \in 0 .. i /\ \A k \in 1 .. i : k = i \/ k \in 1 .. i - 1
  <2>1. old \in GraphType /\ DOMAIN old.ops = 1 .. Len(old.ops) /\ Len(old.ops) \in Nat
    BY GraphFacts DEF Good
  <2> QED
    BY <2>1
<1>3a. \A k \in DOMAIN old.ops : k > i => k > i - 1 /\ k # i
  <2>1. DOMAIN old.ops = 1 .. Len(old.ops) /\ Len(old.ops) \in Nat
    BY GraphFacts DEF Good
  <2> QED
    BY <2>1
<1>4. Seen(old.ops, i - 1) \subseteq Seen(old.ops, i)
  BY <1>3, SeenFacts
<1>5. PICK h : h = SetOp(st.gr, i, q)
  OBVIOUS
<1>6. Follows(old, st.gr) /\ st.gr \in GraphType /\ DOMAIN st.gr.ops = DOMAIN old.ops
  BY DEF InplaceInv, Follows
<1>7. /\ h.slots = st.gr.slots /\ \A k \in DOMAIN old.ops : h.ops[k] = IF k = i THEN q ELSE st.gr.ops[k]
  BY <1>2, <1>5, <1>6, SetOpFacts
<1>8. Follows(old, h)
  BY <1>2, <1>5, <1>6, FollowsSet
<1>9. \A k \in DOMAIN old.ops : k > i => h.ops[k] = old.ops[k]
  BY <1>3a, <1>7 DEF InplaceInv
<1>10. \A k \in DOMAIN old.ops : h.ops[k].src = 0 /\ Sorted(old, h.ops[k])
  BY <1>2, <1>7 DEF InplaceInv
<1>11. \A k \in 1 .. i : Mentions(h.ops[k]) \cap DOMAIN st.rename = {}
  <2>1. \A k \in 1 .. i : k \in DOMAIN old.ops
    BY <1>3, GraphFacts
  <2> QED
    BY <1>2, <1>3, <1>7, <2>1 DEF InplaceInv
<1>12. \A s \in DOMAIN st.rename :
         /\ s \in DOMAIN old.slots /\ s \in Seen(old.ops, i) /\ s \notin rs
         /\ st.rename[s] \in Seen(old.ops, i) \ DOMAIN st.rename
         /\ old.slots[st.rename[s]].arr
  BY <1>4 DEF InplaceInv
<1>13. \A s \in DOMAIN old.slots \ DOMAIN st.rename : h.slots[s] = old.slots[s]
  BY <1>7 DEF InplaceInv
<1>14. new.gr = h
  BY <1>5
<1> QED
  BY <1>8, <1>9, <1>10, <1>11, <1>12, <1>13, <1>14 DEF InplaceInv

(* A step that makes the store destructive. *)
LEMMA InplaceDestroyed ==
  ASSUME NEW old, Good(old), AllSorted(old), NEW rs, NEW i \in DOMAIN old.ops,
         NEW st, InplaceInv(st, i - 1, old, rs),
         NEW op, op = Moved(st.rename, st.gr.ops[i]), op.oc \in CopyStores, Eligible(st, op, i, rs),
         NEW new, new.gr = SetOp(Emptied(st.gr, op.out), i, Destructive(op)),
         new.rename = Bind(st.rename, op.out, op.in[1])
  PROVE  InplaceInv(new, i, old, rs)
<1> DEFINE R == st.rename
           base == op.in[1]
<1>1. op.oc \in Stores /\ op.oc \notin InplaceStores /\ InplaceForm[op.oc] \in InplaceStores
  BY OpcodeFacts DEF Stores
<1>2. /\ op \in OpType /\ op.oc = old.ops[i].oc /\ op.src = 0
      /\ Mentions(op) \subseteq Seen(old.ops, i) \ DOMAIN R
      /\ Shaped(op) /\ Sorted(old, op)
      /\ op.out = old.ops[i].out /\ op.out \notin Seen(old.ops, i - 1)
  BY <1>1, InplaceMoved
<1>3. old \in GraphType /\ i \in Nat /\ i - 1 \in 0 .. i /\ i - 1 \in Nat /\ \A k \in 1 .. i : k = i \/ k \in 1 .. i - 1
  <2>1. old \in GraphType /\ DOMAIN old.ops = 1 .. Len(old.ops) /\ Len(old.ops) \in Nat
    BY GraphFacts DEF Good
  <2> QED
    BY <2>1
<1>3a. \A k \in DOMAIN old.ops : k > i => k > i - 1 /\ k # i
  <2>1. DOMAIN old.ops = 1 .. Len(old.ops) /\ Len(old.ops) \in Nat
    BY GraphFacts DEF Good
  <2> QED
    BY <2>1
<1>4. Seen(old.ops, i - 1) \subseteq Seen(old.ops, i)
  BY <1>3, SeenFacts
<1>5. DOMAIN op.in = {1, 2} /\ base \in Ins(op) /\ old.slots[base].arr
  <2>1. DOMAIN op.in = {1, 2} /\ old.slots[base].arr
    BY <1>1, <1>2 DEF Shaped, Sorted
  <2> QED
    BY <2>1 DEF Ins, ToSet
<1>6. op.out \notin Ins(op) /\ op.out \notin rs
  BY <1>1 DEF Eligible, ValidStoreContract
<1>7. op.out \in Seen(old.ops, i) /\ base \in Seen(old.ops, i) \ DOMAIN R /\ base # op.out
  BY <1>2, <1>5, <1>6 DEF Mentions
<1>8. op.out \in DOMAIN old.slots /\ base \in Nat
  BY <1>7, SeenLive DEF Live
<1>9. PICK d : d = Destructive(op)
  OBVIOUS
<1>10. /\ d \in OpType /\ d.oc \in InplaceStores /\ d.in = op.in /\ d.out = base /\ d.src = 0
  BY <1>1, <1>2, <1>8, <1>9 DEF Destructive, OpType
<1>11. Mentions(d) \subseteq Seen(old.ops, i) /\ Mentions(d) \cap (DOMAIN R \cup {op.out}) = {}
  BY <1>2, <1>5, <1>6, <1>7, <1>10 DEF Mentions, Ins
<1>12. Shaped(d) /\ Sorted(old, d)
  BY <1>5, <1>10, OpcodeFacts DEF Shaped, Sorted, Stores
<1>13. Follows(old, st.gr) /\ st.gr \in GraphType /\ DOMAIN st.gr.ops = DOMAIN old.ops /\ DOMAIN st.gr.slots = DOMAIN old.slots
  BY DEF InplaceInv, Follows
<1>14. PICK e : e = Emptied(st.gr, op.out)
  OBVIOUS
<1>15. /\ e \in GraphType /\ e.ops = st.gr.ops
       /\ \A s \in DOMAIN old.slots : s # op.out => e.slots[s] = st.gr.slots[s]
  BY <1>8, <1>13, <1>14, EmptiedFacts
<1>16. Follows(old, e)
  BY <1>8, <1>13, <1>14, FollowsEmptied
<1>17. PICK h : h = SetOp(e, i, d)
  OBVIOUS
<1>18. /\ h.slots = e.slots /\ \A k \in DOMAIN old.ops : h.ops[k] = IF k = i THEN d ELSE st.gr.ops[k]
  BY <1>10, <1>13, <1>15, <1>17, SetOpFacts
<1>19. Follows(old, h)
  BY <1>10, <1>11, <1>12, <1>16, <1>17, FollowsSet
<1>20. \A k \in DOMAIN old.ops : k > i => h.ops[k] = old.ops[k]
  BY <1>3a, <1>18 DEF InplaceInv
<1>21. \A k \in DOMAIN old.ops : h.ops[k].src = 0 /\ Sorted(old, h.ops[k])
  BY <1>10, <1>12, <1>18 DEF InplaceInv
<1>22. PICK r : r = Bind(R, op.out, base)
  OBVIOUS
<1>23. /\ DOMAIN r = DOMAIN R \cup {op.out}
       /\ \A s \in DOMAIN r : r[s] = IF s = op.out THEN base ELSE R[s]
  BY <1>22 DEF Bind
<1>24. \A k \in 1 .. i : Mentions(h.ops[k]) \cap DOMAIN r = {}
  <2>1. ASSUME NEW k \in 1 .. i - 1 PROVE Mentions(h.ops[k]) \cap DOMAIN r = {}
    <3>1. k \in DOMAIN old.ops /\ k # i /\ k \in 0 .. i - 1 /\ i \in DOMAIN old.ops
      BY <1>3, GraphFacts
    <3>2. Mentions(st.gr.ops[k]) \subseteq Seen(old.ops, k)
      BY <1>13, <3>1 DEF Follows
    <3>3. Seen(old.ops, k) \subseteq Seen(old.ops, i - 1)
      BY <1>3, <3>1, SeenFacts
    <3>4. Mentions(st.gr.ops[k]) \cap DOMAIN R = {}
      BY DEF InplaceInv
    <3>5. h.ops[k] = st.gr.ops[k]
      BY <1>18, <3>1
    <3> QED
      BY <1>2, <1>23, <3>2, <3>3, <3>4, <3>5
  <2>2. Mentions(h.ops[i]) \cap DOMAIN r = {}
    BY <1>11, <1>18, <1>23
  <2> QED
    BY <1>3, <2>1, <2>2
<1>25. \A s \in DOMAIN r :
         /\ s \in DOMAIN old.slots /\ s \in Seen(old.ops, i) /\ s \notin rs
         /\ r[s] \in Seen(old.ops, i) \ DOMAIN r
         /\ old.slots[r[s]].arr
  <2>1. ASSUME NEW s \in DOMAIN R
        PROVE  /\ s \in DOMAIN old.slots /\ s \in Seen(old.ops, i) /\ s \notin rs
               /\ R[s] \in Seen(old.ops, i) \ DOMAIN R /\ R[s] # op.out /\ s # op.out
               /\ old.slots[R[s]].arr
    <3>1. /\ s \in DOMAIN old.slots /\ s \in Seen(old.ops, i - 1) /\ s \notin rs
          /\ R[s] \in Seen(old.ops, i - 1) \ DOMAIN R
          /\ old.slots[R[s]].arr
      BY DEF InplaceInv
    <3> QED
      BY <1>2, <1>4, <3>1
  <2> QED
    BY <1>5, <1>6, <1>7, <1>8, <1>23, <2>1
<1>26. \A s \in DOMAIN old.slots \ DOMAIN r : h.slots[s] = old.slots[s]
  BY <1>15, <1>18, <1>23 DEF InplaceInv
<1>27. new.gr = h /\ new.rename = r
  BY <1>9, <1>14, <1>17, <1>22
<1> QED
  BY <1>19, <1>20, <1>21, <1>24, <1>25, <1>26, <1>27 DEF InplaceInv

(* A step of the loop, whichever way it goes. *)
LEMMA InplaceSteps ==
  ASSUME NEW old, Good(old), AllSorted(old), NEW rs, NEW i \in DOMAIN old.ops,
         NEW st, InplaceInv(st, i - 1, old, rs)
  PROVE  InplaceInv(InplaceStep(st, i, rs), i, old, rs)
<1>1. PICK op : op = Moved(st.rename, st.gr.ops[i])
  OBVIOUS
<1>2. PICK new : new = InplaceStep(st, i, rs)
  OBVIOUS
<1>3. CASE op.oc \in CopyStores /\ Eligible(st, op, i, rs)
  <2>1. new = MakeDestructive(st, op, i)
    BY <1>1, <1>2, <1>3 DEF InplaceStep
  <2>2. new.gr = SetOp(Emptied(st.gr, op.out), i, Destructive(op)) /\ new.rename = Bind(st.rename, op.out, op.in[1])
    BY <2>1 DEF MakeDestructive
  <2>3. InplaceInv(new, i, old, rs)
    BY <1>1, <1>3, <2>2, InplaceDestroyed
  <2> QED
    BY <1>2, <2>3
<1>4. CASE ~(op.oc \in CopyStores /\ Eligible(st, op, i, rs))
  <2>1. new.gr = SetOp(st.gr, i, op) /\ new.rename = st.rename
    BY <1>1, <1>2, <1>4 DEF InplaceStep
  <2>2. InplaceInv(new, i, old, rs)
    BY <1>1, <2>1, InplaceKept
  <2> QED
    BY <1>2, <2>2
<1> QED
  BY <1>3, <1>4

(* Nothing is renamed at the start. *)
LEMMA InplaceStarts ==
  ASSUME NEW old, Good(old), AllSorted(old), NEW rs
  PROVE  InplaceInv(InplaceStart(old), 0, old, rs)
<1>1. PICK st : st = InplaceStart(old)
  OBVIOUS
<1>2. st.gr = old /\ st.rename = <<>> /\ DOMAIN st.rename = {}
  BY <1>1 DEF InplaceStart
<1>3. Follows(old, st.gr)
  BY <1>2, FollowsItself
<1>4. \A k \in DOMAIN old.ops : old.ops[k].src = 0 /\ Sorted(old, old.ops[k])
  BY DEF Good, AllSorted
<1>5. InplaceInv(st, 0, old, rs)
  BY <1>2, <1>3, <1>4 DEF InplaceInv
<1> QED
  BY <1>1, <1>5

(* What the loop leaves: a good graph, in which every slot that is no root   *)
(* and has lost its cells is named by no op.                                *)
LEMMA InplaceEnds ==
  ASSUME NEW old, Good(old), AllSorted(old), NEW rs,
         NEW st, InplaceInv(st, Len(old.ops), old, rs)
  PROVE  /\ Good(st.gr) /\ AllSorted(st.gr)
         /\ \A s \in rs : Live(old, s) => Live(st.gr, s)
<1>1. PICK h : h = st.gr
  OBVIOUS
<1>2. old \in GraphType /\ DOMAIN old.ops = 1 .. Len(old.ops) /\ Len(old.ops) \in Nat
  BY GraphFacts DEF Good
<1>3. /\ Follows(old, h) /\ DOMAIN h.ops = DOMAIN old.ops /\ DOMAIN h.slots = DOMAIN old.slots
      /\ \A s \in DOMAIN old.slots : h.slots[s].arr = old.slots[s].arr
      /\ \A k \in DOMAIN old.ops : Mentions(h.ops[k]) \subseteq Seen(old.ops, k)
  BY <1>1 DEF InplaceInv, Follows
<1>4. /\ \A k \in DOMAIN old.ops : h.ops[k].src = 0 /\ Sorted(old, h.ops[k])
      /\ \A k \in DOMAIN old.ops : Mentions(h.ops[k]) \cap DOMAIN st.rename = {}
      /\ \A s \in DOMAIN st.rename : s \notin rs
      /\ \A s \in DOMAIN old.slots \ DOMAIN st.rename : h.slots[s] = old.slots[s]
  BY <1>1, <1>2 DEF InplaceInv
<1>5. ASSUME NEW k \in DOMAIN old.ops, NEW s \in Mentions(h.ops[k])
      PROVE  Live(h, s) /\ s \in DOMAIN old.slots
  <2>1. Live(old, s)
    BY <1>3, <1>5, SeenLive
  <2> QED
    BY <1>3, <1>4, <2>1 DEF Live
<1>6. Good(h)
  BY <1>3, <1>4, <1>5, FollowsGood
<1>7. ASSUME NEW k \in DOMAIN h.ops PROVE Sorted(h, h.ops[k])
  <2>1. Shaped(h.ops[k]) /\ Sorted(old, h.ops[k]) /\ k \in DOMAIN old.ops
    BY <1>3, <1>4, <1>6 DEF Good
  <2>2. \A s \in Mentions(h.ops[k]) : h.slots[s].arr = old.slots[s].arr
    BY <1>3, <1>5, <2>1
  <2>3. h.ops[k].oc \in Stores => h.ops[k].in[1] \in Mentions(h.ops[k])
    BY <2>1 DEF Shaped, Mentions, Ins, ToSet
  <2>4. h.ops[k].out \in Mentions(h.ops[k])
    BY DEF Mentions
  <2> QED
    BY <2>1, <2>2, <2>3, <2>4 DEF Sorted
<1>8. \A s \in rs : Live(old, s) => Live(h, s)
  BY <1>3, <1>4 DEF Live
<1> QED
  BY <1>1, <1>6, <1>7, <1>8 DEF AllSorted

(* make_inplace_updates leaves a good graph, and the roots their cells. *)
LEMMA InplaceGood ==
  ASSUME NEW gr, Good(gr), AllSorted(gr), NEW rs
  PROVE  /\ Good(MakeInplaceUpdates(gr, rs)) /\ AllSorted(MakeInplaceUpdates(gr, rs))
         /\ \A s \in rs : Live(gr, s) => Live(MakeInplaceUpdates(gr, rs), s)
<1> DEFINE x == <<gr, rs>>
           F(f) == [i \in 0 .. Len(gr.ops) |-> IF i = 0 THEN InplaceStart(gr)
                                               ELSE InplaceStep(f[i - 1], i, rs)]
           st == CHOOSE f : f = F(f)
<1>0. gr \in GraphType /\ DOMAIN gr.ops = 1 .. Len(gr.ops) /\ Len(gr.ops) \in Nat
  BY GraphFacts DEF Good
<1>1. MakeInplaceUpdates(gr, rs) = st[Len(gr.ops)].gr
  BY DEF MakeInplaceUpdates
<1>2. PICK f : Trace(f, Len(gr.ops), "inplace", x)
  BY <1>0, TraceExists
<1>3. f = F(f)
  BY <1>2 DEF Trace, Start, Step
<1>4. st = F(st)
  BY <1>3
<1> HIDE DEF st
<1>5. PICK g2 : g2 = st
  OBVIOUS
<1>6. Trace(g2, Len(gr.ops), "inplace", x)
  BY <1>4, <1>5 DEF Trace, Start, Step
<1>7. Keeps("inplace", x, Start("inplace", x), 0)
  BY InplaceStarts DEF Keeps, Start
<1>8. ASSUME NEW i \in 1 .. Len(gr.ops), NEW t, Keeps("inplace", x, t, i - 1)
      PROVE  Keeps("inplace", x, Step("inplace", x, t, i), i)
  <2>1. InplaceInv(t, i - 1, gr, rs)
    BY <1>8 DEF Keeps
  <2>2. InplaceInv(InplaceStep(t, i, rs), i, gr, rs)
    BY <1>0, <2>1, InplaceSteps
  <2> QED
    BY <2>2 DEF Keeps, Step
<1>9. Keeps("inplace", x, g2[Len(gr.ops)], Len(gr.ops))
  BY <1>0, <1>6, <1>7, <1>8, TraceKeeps
<1>10. InplaceInv(g2[Len(gr.ops)], Len(gr.ops), gr, rs)
  BY <1>9 DEF Keeps
<1> QED
  BY <1>1, <1>5, <1>10, InplaceEnds

-----------------------------------------------------------------------------
(* forward_stores_to_loads                                                 *)

(* The op at place i with its inputs renamed: containers are never renamed,  *)
(* so a store keeps its base.                                               *)
LEMMA ForwardRenamed ==
  ASSUME NEW old, Good(old), AllSorted(old), NEW i \in DOMAIN old.ops,
         NEW st, ForwardInv(st, i - 1, old), NEW q, q = ResolveIns(st.rename, st.gr.ops[i])
  PROVE  /\ q \in OpType /\ q.oc = old.ops[i].oc /\ q.out = old.ops[i].out /\ q.src = 0
         /\ Mentions(q) \subseteq Seen(old.ops, i)
         /\ Shaped(q) /\ Sorted(old, q)
<1> DEFINE R == st.rename
           op == old.ops[i]
<1>0. /\ old \in GraphType /\ op \in OpType /\ Shaped(op) /\ op.src = 0
      /\ Len(old.ops) \in Nat /\ DOMAIN old.ops = 1 .. Len(old.ops) /\ Sorted(old, op)
  BY GraphFacts DEF Good, AllSorted
<1>1. i \in Nat /\ i - 1 \in Nat /\ i > i - 1 /\ i \in 1 .. i /\ i - 1 \in 0 .. i
  BY <1>0
<1>2. st.gr.ops[i] = op
  BY <1>1 DEF ForwardInv
<1>3. \A s \in DOMAIN R : ~old.slots[s].arr /\ R[s] \in Seen(old.ops, i - 1)
  BY DEF ForwardInv
<1>4. Seen(old.ops, i - 1) \subseteq Seen(old.ops, i) /\ Mentions(op) \subseteq Seen(old.ops, i)
  BY <1>1, SeenFacts
<1>5. \A s \in Seen(old.ops, i) : s \in Nat
  BY SeenLive
<1>6. \A s \in DOMAIN R : R[s] \in Nat
  BY <1>3, <1>4, <1>5
<1>7. q = ResolveIns(R, op)
  BY <1>2
<1>8. /\ q \in OpType /\ q.oc = op.oc /\ q.out = op.out /\ q.src = op.src
      /\ DOMAIN q.in = DOMAIN op.in
      /\ \A j \in DOMAIN op.in : q.in[j] = Resolve(R, op.in[j])
      /\ Ins(q) = {Resolve(R, s) : s \in Ins(op)}
  BY <1>0, <1>6, <1>7, ResolveInsFacts
<1>9. Mentions(q) \subseteq Seen(old.ops, i)
  BY <1>3, <1>4, <1>8 DEF Resolve, Mentions
<1>10. ASSUME op.oc \in Stores PROVE DOMAIN op.in = {1, 2} /\ q.in[1] = op.in[1] /\ old.slots[op.in[1]].arr
  <2>1. DOMAIN op.in = {1, 2} /\ old.slots[op.in[1]].arr
    BY <1>0, <1>10 DEF Shaped, Sorted
  <2> QED
    BY <1>3, <1>8, <2>1 DEF Resolve
<1>11. Shaped(q)
  <2>1. ASSUME op.oc \notin InplaceStores PROVE q.out \notin Ins(q)
    <3>1. op.out \notin Seen(old.ops, i - 1) /\ op.out \notin Ins(op)
      BY <1>0, <2>1 DEF Good, DefFirst, Shaped
    <3> QED
      BY <1>3, <1>8, <3>1 DEF Resolve
  <2>2. ASSUME op.oc \in InplaceStores PROVE q.out = q.in[1]
    BY <1>0, <1>8, <1>10, <2>2 DEF Shaped, Stores
  <2> QED
    BY <1>0, <1>8, <2>1, <2>2 DEF Shaped
<1>12. Sorted(old, q)
  BY <1>0, <1>8, <1>10 DEF Sorted
<1> QED
  BY <1>0, <1>8, <1>9, <1>11, <1>12

(* The values the loop may forward have been named. *)
LEMMA ForwardKnown ==
  ASSUME NEW old, Good(old), NEW i \in DOMAIN old.ops, NEW st, ForwardInv(st, i - 1, old),
         NEW q, Mentions(q) \subseteq Seen(old.ops, i), Shaped(q),
         NEW forwards, forwards => q.oc = "INDEX",
         NEW stores, stores = AfterStep(st, q, i, forwards)
  PROVE  /\ DOMAIN stores = DOMAIN old.slots
         /\ \A s \in DOMAIN stores : stores[s].op # 0 => stores[s].value \in Seen(old.ops, i)
<1>0. Len(old.ops) \in Nat /\ DOMAIN old.ops = 1 .. Len(old.ops)
  BY GraphFacts DEF Good
<1>1. i \in Nat /\ i - 1 \in 0 .. i
  BY <1>0
<1>2. Seen(old.ops, i - 1) \subseteq Seen(old.ops, i)
  BY <1>1, SeenFacts
<1>3. DOMAIN st.stores = DOMAIN old.slots
      /\ \A s \in DOMAIN st.stores : st.stores[s].op # 0 => st.stores[s].value \in Seen(old.ops, i)
  BY <1>2 DEF ForwardInv
<1>3a. /\ q.oc \in ElementStores => q.oc \notin RangeStores /\ ~forwards
       /\ q.oc \in RangeStores => ~forwards
  BY OpcodeFacts DEF RangeStores
<1>4. CASE q.oc \in ElementStores
  <2>1. DOMAIN q.in = {1, 2}
    BY <1>4, OpcodeFacts DEF Shaped
  <2>2. q.in[2] \in Seen(old.ops, i)
    BY <2>1 DEF Mentions, Ins, ToSet
  <2>3. PICK b : b = [op |-> i, elem |-> q.at, value |-> q.in[2], observed |-> FALSE]
    OBVIOUS
  <2>4. stores = [st.stores EXCEPT ![q.out] = b]
    BY <1>4, <1>3a, <2>3 DEF AfterStep
  <2>5. \A s \in DOMAIN st.stores : stores[s] = IF s = q.out THEN b ELSE st.stores[s]
    BY <2>4
  <2>6. b.value = q.in[2]
    BY <2>3
  <2> QED
    BY <1>3, <2>2, <2>4, <2>5, <2>6
<1>5. CASE q.oc \notin ElementStores /\ q.oc \in RangeStores
  <2>1. stores = [st.stores EXCEPT ![q.out] = NoStore]
    BY <1>5, <1>3a DEF AfterStep, AfterRangeStore
  <2>2. \A s \in DOMAIN st.stores : stores[s] = IF s = q.out THEN NoStore ELSE st.stores[s]
    BY <2>1
  <2> QED
    BY <1>3, <2>1, <2>2 DEF NoStore
<1>6. CASE q.oc \notin ElementStores /\ q.oc \notin RangeStores /\ forwards
  BY <1>3, <1>6 DEF AfterStep
<1>7. CASE q.oc \notin ElementStores /\ q.oc \notin RangeStores /\ ~forwards
  <2>1. stores = [s \in DOMAIN st.stores |->
                     IF s \in Ins(q) THEN Observed(st.stores[s]) ELSE st.stores[s]]
    BY <1>7 DEF AfterStep
  <2>2. \A s \in DOMAIN st.stores : stores[s].op = st.stores[s].op /\ stores[s].value = st.stores[s].value
    BY <2>1 DEF Observed
  <2> QED
    BY <1>3, <2>1, <2>2
<1> QED
  BY <1>4, <1>5, <1>6, <1>7

(* A step of the loop. *)
LEMMA ForwardSteps ==
  ASSUME NEW old, Good(old), AllSorted(old), NEW rs, NEW i \in DOMAIN old.ops,
         NEW st, ForwardInv(st, i - 1, old)
  PROVE  ForwardInv(ForwardStep(st, i, rs), i, old)
<1>0. old \in GraphType /\ Len(old.ops) \in Nat /\ DOMAIN old.ops = 1 .. Len(old.ops)
  BY GraphFacts DEF Good
<1>1. PICK q : q = ResolveIns(st.rename, st.gr.ops[i])
  OBVIOUS
<1>2. /\ q \in OpType /\ q.oc = old.ops[i].oc /\ q.out = old.ops[i].out /\ q.src = 0
      /\ Mentions(q) \subseteq Seen(old.ops, i)
      /\ Shaped(q) /\ Sorted(old, q)
  BY <1>1, ForwardRenamed
<1>3. PICK new : new = ForwardStep(st, i, rs)
  OBVIOUS
<1>4. PICK fw : fw = ForwardsLoad(st, q, rs)
  OBVIOUS
<1>5. /\ new.gr = SetOp(st.gr, i, q)
      /\ new.rename = IF fw THEN Bind(st.rename, q.out, st.stores[q.in[1]].value) ELSE st.rename
      /\ new.stores = AfterStep(st, q, i, fw)
  BY <1>1, <1>3, <1>4 DEF ForwardStep
<1>6. Follows(old, st.gr) /\ st.gr \in GraphType /\ DOMAIN st.gr.ops = DOMAIN old.ops /\ st.gr.slots = old.slots
  BY DEF ForwardInv, Follows
<1>7. PICK h : h = SetOp(st.gr, i, q)
  OBVIOUS
<1>8. /\ h.slots = st.gr.slots /\ \A k \in DOMAIN old.ops : h.ops[k] = IF k = i THEN q ELSE st.gr.ops[k]
  BY <1>2, <1>6, <1>7, SetOpFacts
<1>9. Follows(old, h)
  BY <1>2, <1>6, <1>7, FollowsSet
<1>10. \A k \in DOMAIN old.ops : k > i => h.ops[k] = old.ops[k]
  <2>1. \A k \in DOMAIN old.ops : k > i => k > i - 1 /\ k # i
    BY <1>0
  <2> QED
    BY <1>8, <2>1 DEF ForwardInv
<1>11. \A k \in DOMAIN old.ops : h.ops[k].src = 0 /\ Sorted(h, h.ops[k])
  BY <1>2, <1>6, <1>8 DEF ForwardInv, Sorted
<1>12. DOMAIN new.stores = DOMAIN old.slots
       /\ \A s \in DOMAIN new.stores : new.stores[s].op # 0 => new.stores[s].value \in Seen(old.ops, i)
  <2>1. fw => q.oc = "INDEX"
    BY <1>4 DEF ForwardsLoad
  <2> QED
    BY <1>2, <1>5, <2>1, ForwardKnown
<1>13. \A s \in DOMAIN new.rename : ~old.slots[s].arr /\ new.rename[s] \in Seen(old.ops, i)
  <2>1. i \in Nat /\ i - 1 \in 0 .. i
    BY <1>0
  <2>2. Seen(old.ops, i - 1) \subseteq Seen(old.ops, i)
    BY <2>1, SeenFacts
  <2>3. \A s \in DOMAIN st.rename : ~old.slots[s].arr /\ st.rename[s] \in Seen(old.ops, i)
    BY <2>2 DEF ForwardInv
  <2>4. CASE fw
    <3>1. q.oc = "INDEX" /\ st.stores[q.in[1]].op # 0
      BY <1>4, <2>4 DEF ForwardsLoad
    <3>2. DOMAIN q.in = {1} /\ ~old.slots[q.out].arr
      BY <1>2, <3>1 DEF Shaped, Sorted
    <3>3. q.in[1] \in Seen(old.ops, i)
      BY <1>2, <3>2 DEF Mentions, Ins, ToSet
    <3>4. q.in[1] \in DOMAIN st.stores
      BY <3>3, SeenLive DEF ForwardInv, Live
    <3>5. st.stores[q.in[1]].value \in Seen(old.ops, i)
      BY <2>2, <3>1, <3>4 DEF ForwardInv
    <3>6. PICK v : v = st.stores[q.in[1]].value
      OBVIOUS
    <3>7. new.rename = Bind(st.rename, q.out, v)
      BY <1>5, <2>4, <3>6
    <3>8. \A s \in DOMAIN new.rename :
             s \in DOMAIN st.rename \cup {q.out} /\ new.rename[s] = IF s = q.out THEN v ELSE st.rename[s]
      BY <3>7 DEF Bind
    <3> QED
      BY <2>3, <3>2, <3>5, <3>6, <3>8
  <2>5. CASE ~fw
    BY <1>5, <2>3, <2>5
  <2> QED
    BY <2>4, <2>5
<1>14. new.gr = h
  BY <1>5, <1>7
<1>15. ForwardInv(new, i, old)
  BY <1>6, <1>8, <1>9, <1>10, <1>11, <1>12, <1>13, <1>14 DEF ForwardInv
<1> QED
  BY <1>3, <1>15

(* Nothing is known at the start. *)
LEMMA ForwardStarts ==
  ASSUME NEW old, Good(old), AllSorted(old)
  PROVE  ForwardInv(ForwardStart(old), 0, old)
<1>1. PICK st : st = ForwardStart(old)
  OBVIOUS
<1>2. /\ st.gr = old /\ DOMAIN st.rename = {}
      /\ DOMAIN st.stores = DOMAIN old.slots /\ \A s \in DOMAIN old.slots : st.stores[s].op = 0
  BY <1>1 DEF ForwardStart, NoStore
<1>3. Follows(old, st.gr)
  BY <1>2, FollowsItself
<1>4. \A k \in DOMAIN old.ops : old.ops[k].src = 0 /\ Sorted(old, old.ops[k])
  BY DEF Good, AllSorted
<1>5. ForwardInv(st, 0, old)
  BY <1>2, <1>3, <1>4 DEF ForwardInv
<1> QED
  BY <1>1, <1>5

(* What a pass leaves that moves no slot, drops no cells and follows a good  *)
(* graph, is good.                                                          *)
LEMMA UnmovedGood ==
  ASSUME NEW old, Good(old), NEW gr, Follows(old, gr), gr.slots = old.slots,
         \A k \in DOMAIN old.ops : gr.ops[k].src = 0
  PROVE  Good(gr)
<1>1. DOMAIN gr.ops = DOMAIN old.ops /\ \A k \in DOMAIN old.ops : Mentions(gr.ops[k]) \subseteq Seen(old.ops, k)
  BY DEF Follows
<1>2. \A k \in DOMAIN old.ops : \A s \in Mentions(gr.ops[k]) : Live(old, s)
  BY <1>1, SeenLive
<1>3. \A k \in DOMAIN old.ops : \A s \in Mentions(gr.ops[k]) : Live(gr, s)
  BY <1>2 DEF Live
<1> QED
  BY <1>1, <1>3, FollowsGood

(* forward_stores_to_loads leaves a good graph and the slots as they are. *)
LEMMA ForwardGood ==
  ASSUME NEW gr, Good(gr), AllSorted(gr), NEW rs
  PROVE  /\ Good(ForwardStoresToLoads(gr, rs)) /\ AllSorted(ForwardStoresToLoads(gr, rs))
         /\ ForwardStoresToLoads(gr, rs).slots = gr.slots
<1> DEFINE x == <<gr, rs>>
           F(f) == [i \in 0 .. Len(gr.ops) |-> IF i = 0 THEN ForwardStart(gr)
                                               ELSE ForwardStep(f[i - 1], i, rs)]
           st == CHOOSE f : f = F(f)
<1>0. gr \in GraphType /\ DOMAIN gr.ops = 1 .. Len(gr.ops) /\ Len(gr.ops) \in Nat
  BY GraphFacts DEF Good
<1>1. Scan(gr, rs) = st[Len(gr.ops)]
  BY DEF Scan
<1>2. PICK f : Trace(f, Len(gr.ops), "forward", x)
  BY <1>0, TraceExists
<1>3. f = F(f)
  BY <1>2 DEF Trace, Start, Step
<1>4. st = F(st)
  BY <1>3
<1> HIDE DEF st
<1>5. PICK g2 : g2 = st
  OBVIOUS
<1>6. Trace(g2, Len(gr.ops), "forward", x)
  BY <1>4, <1>5 DEF Trace, Start, Step
<1>7. Keeps("forward", x, Start("forward", x), 0)
  BY ForwardStarts DEF Keeps, Start
<1>8. ASSUME NEW i \in 1 .. Len(gr.ops), NEW t, Keeps("forward", x, t, i - 1)
      PROVE  Keeps("forward", x, Step("forward", x, t, i), i)
  <2>1. ForwardInv(t, i - 1, gr)
    BY <1>8 DEF Keeps
  <2>2. ForwardInv(ForwardStep(t, i, rs), i, gr)
    BY <1>0, <2>1, ForwardSteps
  <2> QED
    BY <2>2 DEF Keeps, Step
<1>9. Keeps("forward", x, g2[Len(gr.ops)], Len(gr.ops))
  BY <1>0, <1>6, <1>7, <1>8, TraceKeeps
<1>10. ForwardInv(g2[Len(gr.ops)], Len(gr.ops), gr)
  BY <1>9 DEF Keeps
<1>11. PICK h : h = Scan(gr, rs).gr
  OBVIOUS
<1>12. /\ Follows(gr, h) /\ h.slots = gr.slots
       /\ \A k \in DOMAIN gr.ops : h.ops[k].src = 0 /\ Sorted(h, h.ops[k])
  BY <1>1, <1>5, <1>10, <1>11 DEF ForwardInv
<1>13. Good(h)
  BY <1>12, UnmovedGood
<1>14. AllSorted(h)
  BY <1>12 DEF AllSorted, Follows
<1>15. PICK d : d = Swept(Scan(gr, rs).gr, Scan(gr, rs).drop, rs)
  OBVIOUS
<1>16. ForwardStoresToLoads(gr, rs) = Sub(h, d)
  BY <1>11, <1>15 DEF ForwardStoresToLoads
<1>17. Good(Sub(h, d)) /\ AllSorted(Sub(h, d))
  BY <1>13, <1>14, SubGood
<1>18. Sub(h, d).slots = h.slots
  BY DEF Sub
<1> QED
  BY <1>12, <1>16, <1>17, <1>18

(* So does const_fold. *)
LEMMA FoldGood ==
  ASSUME NEW gr, Good(gr), AllSorted(gr), NEW fl, NEW rs
  PROVE  /\ Good(ConstFold(gr, fl, rs).gr) /\ AllSorted(ConstFold(gr, fl, rs).gr)
         /\ ConstFold(gr, fl, rs).gr.slots = gr.slots
<1>1. PICK c : c = MarkConstantOps(gr)
  OBVIOUS
<1>2. PICK r : r = ConstFold(gr, fl, rs)
  OBVIOUS
<1>3. r.gr = gr \/ r.gr = Sub(gr, c)
  BY <1>1, <1>2 DEF ConstFold
<1>4. Good(Sub(gr, c)) /\ AllSorted(Sub(gr, c))
  BY SubGood
<1>5. Sub(gr, c).slots = gr.slots
  BY DEF Sub
<1> QED
  BY <1>2, <1>3, <1>4, <1>5

-----------------------------------------------------------------------------
(* elide_full_extent_stores                                                *)

(* An op between a write of dest and the next one does not write dest. *)
LEMMA BeforeNextWrite ==
  ASSUME NEW old \in GraphType, NEW dest, NEW i \in Nat, NEW k \in DOMAIN old.ops,
         i < k, k < NextWrite(old, dest, i)
  PROVE  old.ops[k].out # dest
<1> DEFINE after == {w \in Writes(old, dest) : w > i}
<1>1. SUFFICES ASSUME old.ops[k].out = dest PROVE FALSE
  OBVIOUS
<1>2. DOMAIN old.ops \subseteq Nat /\ k \in Nat
  BY GraphFacts
<1>3. k \in after /\ after \subseteq Nat
  BY <1>1, <1>2 DEF Writes
<1>4. \E w \in after : \A x \in after : w <= x
  BY <1>3, LeastNat
<1>5. NextWrite(old, dest, i) = CHOOSE w \in after : \A x \in after : w <= x
  BY <1>3 DEF NextWrite
<1>6. NextWrite(old, dest, i) \in after /\ \A x \in after : NextWrite(old, dest, i) <= x
  BY <1>4, <1>5
<1>7. NextWrite(old, dest, i) <= k /\ NextWrite(old, dest, i) \in Nat
  BY <1>3, <1>6
<1> QED
  BY <1>2, <1>7

(* A reader that moves to the value a store copied names nothing new and     *)
(* stays well formed.                                                       *)
LEMMA ElideMoved ==
  ASSUME NEW old, Good(old), NEW st, ElideInv(st, old), NEW i \in DOMAIN old.ops,
         NEW k \in DOMAIN old.ops, i < k, k < NextWrite(old, old.ops[i].out, i),
         NEW m, DOMAIN m = {old.ops[i].out}, m[old.ops[i].out] \in Seen(old.ops, i),
         NEW q, q = ResolveIns(m, st.gr.ops[k])
  PROVE  /\ q \in OpType /\ q.oc = st.gr.ops[k].oc /\ q.out = old.ops[k].out /\ q.src = 0
         /\ Mentions(q) \subseteq Seen(old.ops, k) /\ Shaped(q)
<1> DEFINE dest == old.ops[i].out
           op == st.gr.ops[k]
           val == m[dest]
<1>0. /\ old \in GraphType /\ Len(old.ops) \in Nat /\ DOMAIN old.ops = 1 .. Len(old.ops)
  BY GraphFacts DEF Good
<1>1. /\ Follows(old, st.gr) /\ st.gr \in GraphType /\ DOMAIN st.gr.ops = DOMAIN old.ops
      /\ op.src = 0 /\ op.out = old.ops[k].out
  BY DEF ElideInv, Follows
<1>2. op \in OpType
  BY <1>1, GraphFacts
<1>3. /\ Mentions(op) \subseteq Seen(old.ops, k) /\ Shaped(op)
      /\ op.oc \notin InplaceStores => old.ops[k].oc \notin InplaceStores
  BY <1>1 DEF Follows
<1>4. i \in Nat /\ k \in Nat /\ k - 1 \in Nat /\ i \in 0 .. k /\ i \in 0 .. k - 1
  BY <1>0
<1>5. val \in Seen(old.ops, k) /\ val \in Seen(old.ops, k - 1)
  BY <1>4, SeenFacts
<1>6. val \in Nat
  BY SeenLive
<1>8. DOMAIN m = {dest} /\ m[dest] = val /\ \A s \in DOMAIN m : m[s] \in Nat
  BY <1>6
<1>9. q = ResolveIns(m, op)
  OBVIOUS
<1>10. /\ q \in OpType /\ q.oc = op.oc /\ q.out = op.out /\ q.src = op.src
       /\ DOMAIN q.in = DOMAIN op.in
       /\ \A j \in DOMAIN op.in : q.in[j] = Resolve(m, op.in[j])
       /\ Ins(q) = {Resolve(m, s) : s \in Ins(op)}
  BY <1>2, <1>8, <1>9, ResolveInsFacts
<1>11. op.out # dest
  BY <1>0, <1>1, <1>4, BeforeNextWrite
<1>12. \A s : Resolve(m, s) = IF s = dest THEN val ELSE s
  BY <1>8 DEF Resolve
<1>13. Mentions(q) \subseteq Seen(old.ops, k)
  BY <1>3, <1>5, <1>10, <1>12 DEF Mentions
<1>14. ASSUME op.oc \in InplaceStores PROVE q.out = q.in[1]
  <2>1. op.out = op.in[1] /\ 1 \in DOMAIN op.in
    BY <1>3, <1>14 DEF Shaped, Stores
  <2> QED
    BY <1>10, <1>11, <1>12, <2>1
<1>15. ASSUME op.oc \notin InplaceStores PROVE q.out \notin Ins(q)
  <2>1. op.out \notin Seen(old.ops, k - 1) /\ op.out \notin Ins(op)
    BY <1>1, <1>3, <1>15 DEF Good, DefFirst, Shaped
  <2> QED
    BY <1>5, <1>10, <1>12, <2>1
<1>16. Shaped(q)
  BY <1>3, <1>10, <1>14, <1>15 DEF Shaped
<1> QED
  BY <1>1, <1>10, <1>13, <1>16

(* A step of the loop. *)
LEMMA ElideSteps ==
  ASSUME NEW old, Good(old), NEW rs, NEW i \in DOMAIN old.ops, NEW st, ElideInv(st, old)
  PROVE  ElideInv(ElideStep(st, old, i, rs), old)
<1>0. /\ old \in GraphType /\ Len(old.ops) \in Nat /\ DOMAIN old.ops = 1 .. Len(old.ops)
  BY GraphFacts DEF Good
<1>1. PICK op : op = st.gr.ops[i]
  OBVIOUS
<1>2. PICK val : val = IF op.oc = "SLICE" THEN op.in[1] ELSE op.in[2]
  OBVIOUS
<1>3. /\ Follows(old, st.gr) /\ st.gr \in GraphType /\ DOMAIN st.gr.ops = DOMAIN old.ops
      /\ op.out = old.ops[i].out /\ Mentions(op) \subseteq Seen(old.ops, i) /\ Shaped(op)
      /\ st.gr.slots = old.slots
  BY <1>1 DEF ElideInv, Follows
<1>4. PICK window : window = {r \in Readers(old, op.out) : i < r /\ r < NextWrite(old, op.out, i)}
  OBVIOUS
<1>5. PICK h : h = Moving(st.gr, window, op.out, val)
  OBVIOUS
<1>6. CASE ~(op.oc \in RangeStores \cup {"SLICE"} /\ Elidable(old, op, i, rs, val))
  BY <1>1, <1>2, <1>6 DEF ElideStep
<1>7. CASE op.oc \in RangeStores \cup {"SLICE"} /\ Elidable(old, op, i, rs, val)
  <2>1. PICK new : new = ElideStep(st, old, i, rs)
    OBVIOUS
  <2>2. new.gr = h
    BY <1>1, <1>2, <1>4, <1>5, <1>7, <2>1 DEF ElideStep
  <2>3. val \in Seen(old.ops, i)
    <3>1. CASE op.oc = "SLICE"
      BY <1>2, <1>3, <3>1 DEF Shaped, Mentions, Ins, ToSet
    <3>2. CASE op.oc # "SLICE"
      <4>1. DOMAIN op.in = {1, 2}
        BY <1>3, <1>7, <3>2, OpcodeFacts DEF Shaped
      <4> QED
        BY <1>2, <1>3, <3>2, <4>1 DEF Mentions, Ins, ToSet
    <3> QED
      BY <3>1, <3>2
  <2>4. /\ h.slots = st.gr.slots /\ h.result = st.gr.result /\ DOMAIN h.ops = DOMAIN st.gr.ops
        /\ h = [slots |-> st.gr.slots, ops |-> h.ops, result |-> st.gr.result]
        /\ h.ops = [k \in DOMAIN st.gr.ops |->
              IF k \in window THEN ResolveIns([x \in {op.out} |-> val], st.gr.ops[k]) ELSE st.gr.ops[k]]
    BY <1>5 DEF Moving
  <2>5. ASSUME NEW k \in DOMAIN old.ops
        PROVE  /\ h.ops[k] \in OpType /\ h.ops[k].oc = st.gr.ops[k].oc /\ h.ops[k].out = old.ops[k].out
               /\ h.ops[k].src = 0
               /\ Mentions(h.ops[k]) \subseteq Seen(old.ops, k) /\ Shaped(h.ops[k])
    <3>1. CASE k \in window
      <4>0. PICK m : m = [x \in {op.out} |-> val]
        OBVIOUS
      <4>1. PICK q : q = ResolveIns(m, st.gr.ops[k])
        OBVIOUS
      <4>5. DOMAIN m = {old.ops[i].out} /\ m[old.ops[i].out] \in Seen(old.ops, i)
        BY <1>3, <2>3, <4>0
      <4>2. i < k /\ k < NextWrite(old, old.ops[i].out, i)
        BY <1>3, <1>4, <3>1
      <4>3. h.ops[k] = q
        BY <1>3, <2>4, <3>1, <4>0, <4>1
      <4>4. /\ q \in OpType /\ q.oc = st.gr.ops[k].oc /\ q.out = old.ops[k].out /\ q.src = 0
            /\ Mentions(q) \subseteq Seen(old.ops, k) /\ Shaped(q)
        BY <4>1, <4>2, <4>5, ElideMoved
      <4> QED
        BY <4>3, <4>4
    <3>2. CASE k \notin window
      <4>1. h.ops[k] = st.gr.ops[k]
        BY <1>3, <2>4, <3>2
      <4>2. st.gr.ops[k] \in OpType
        BY <1>3, GraphFacts
      <4> QED
        BY <1>3, <4>1, <4>2 DEF ElideInv, Follows
    <3> QED
      BY <3>1, <3>2
  <2>6. h \in GraphType
    <3>1. h.ops \in [1 .. Len(old.ops) -> OpType]
      BY <1>0, <1>3, <2>4, <2>5
    <3>2. h.ops \in Seq(OpType)
      BY <1>0, <3>1, SeqDef
    <3>3. st.gr.slots \in Seq(SlotType) /\ st.gr.result \in Nat
      BY <1>3, GraphFacts
    <3> QED
      BY <2>4, <3>2, <3>3 DEF GraphType
  <2>7. \A k \in DOMAIN old.ops : h.ops[k].oc \notin InplaceStores => old.ops[k].oc \notin InplaceStores
    BY <1>3, <2>5 DEF Follows
  <2>8. Follows(old, h)
    BY <1>3, <2>4, <2>5, <2>6, <2>7 DEF Follows
  <2>9. ElideInv(new, old)
    BY <1>3, <2>2, <2>4, <2>5, <2>8 DEF ElideInv
  <2> QED
    BY <2>1, <2>9
<1> QED
  BY <1>6, <1>7

(* elide_full_extent_stores leaves a good graph and the slots as they are. *)
LEMMA ElideGood ==
  ASSUME NEW gr, Good(gr), NEW rs
  PROVE  /\ Good(ElideFullExtentStores(gr, rs))
         /\ ElideFullExtentStores(gr, rs).slots = gr.slots
<1> DEFINE x == <<gr, rs>>
           F(f) == [i \in 0 .. Len(gr.ops) |-> IF i = 0 THEN [gr |-> gr, drop |-> {}]
                                               ELSE ElideStep(f[i - 1], gr, i, rs)]
           st == CHOOSE f : f = F(f)
<1>0. gr \in GraphType /\ DOMAIN gr.ops = 1 .. Len(gr.ops) /\ Len(gr.ops) \in Nat
  BY GraphFacts DEF Good
<1>1. ElideScan(gr, rs) = st[Len(gr.ops)]
  BY DEF ElideScan
<1>2. PICK f : Trace(f, Len(gr.ops), "elide", x)
  BY <1>0, TraceExists
<1>3. f = F(f)
  BY <1>2 DEF Trace, Start, Step
<1>4. st = F(st)
  BY <1>3
<1> HIDE DEF st
<1>5. PICK g2 : g2 = st
  OBVIOUS
<1>6. Trace(g2, Len(gr.ops), "elide", x)
  BY <1>4, <1>5 DEF Trace, Start, Step
<1>7. Keeps("elide", x, Start("elide", x), 0)
  <2>1. PICK b : b = [gr |-> gr, drop |-> {}]
    OBVIOUS
  <2>2. b.gr = gr /\ \A k \in DOMAIN gr.ops : gr.ops[k].src = 0
    BY <2>1 DEF Good
  <2>3. ElideInv(b, gr)
    BY <2>2, FollowsItself DEF ElideInv
  <2> QED
    BY <2>1, <2>3 DEF Keeps, Start
<1>8. ASSUME NEW i \in 1 .. Len(gr.ops), NEW t, Keeps("elide", x, t, i - 1)
      PROVE  Keeps("elide", x, Step("elide", x, t, i), i)
  <2>1. ElideInv(t, gr)
    BY <1>8 DEF Keeps
  <2>2. ElideInv(ElideStep(t, gr, i, rs), gr)
    BY <1>0, <2>1, ElideSteps
  <2> QED
    BY <2>2 DEF Keeps, Step
<1>9. Keeps("elide", x, g2[Len(gr.ops)], Len(gr.ops))
  BY <1>0, <1>6, <1>7, <1>8, TraceKeeps
<1>10. ElideInv(g2[Len(gr.ops)], gr)
  BY <1>9 DEF Keeps
<1>11. PICK h : h = ElideScan(gr, rs).gr
  OBVIOUS
<1>12. /\ Follows(gr, h) /\ h.slots = gr.slots
       /\ \A k \in DOMAIN gr.ops : h.ops[k].src = 0
  BY <1>1, <1>5, <1>10, <1>11 DEF ElideInv
<1>13. Good(h)
  BY <1>12, UnmovedGood
<1>14. PICK d : d = ElideScan(gr, rs).drop
  OBVIOUS
<1>15. ElideFullExtentStores(gr, rs) = Sub(h, d)
  BY <1>11, <1>14 DEF ElideFullExtentStores
<1>16. Good(Sub(h, d))
  BY <1>13, SubGood
<1>17. Sub(h, d).slots = h.slots
  BY DEF Sub
<1> QED
  BY <1>12, <1>15, <1>16, <1>17

-----------------------------------------------------------------------------
(* cse                                                                     *)

(* No op but those that were dropped writes a slot that was merged, and the  *)
(* slots it was merged into stay.                                           *)
LEMMA CseRenames ==
  ASSUME NEW old, Good(old), NEW i \in Nat, NEW st, CseInv(st, i, old)
  PROVE  /\ \A k \in DOMAIN old.ops \ st.drop : old.ops[k].out \notin DOMAIN st.rename
         /\ \A s \in DOMAIN st.rename : /\ st.rename[s] \in Seen(old.ops, i)
                                        /\ st.rename[s] \notin DOMAIN st.rename
         /\ DOMAIN st.rename \subseteq Seen(old.ops, i)
         /\ st.drop \cup DOMAIN st.keys \subseteq DOMAIN old.ops
<1>0. DOMAIN st.rename = {old.ops[d].out : d \in st.drop}
  BY DEF CseInv, CseParts
<1>1. \A k \in st.drop \cup DOMAIN st.keys : /\ Writes(old, old.ops[k].out) = {k}
                                             /\ k \in 1 .. i /\ k \in DOMAIN old.ops
  <2>1. \A k \in st.drop \cup DOMAIN st.keys : Sole(old, k) /\ k \in 1 .. i
    BY DEF CseInv, CseParts
  <2> QED
    BY <2>1 DEF Sole, Writes
<1>2. \A k \in DOMAIN old.ops \ st.drop : old.ops[k].out \notin DOMAIN st.rename
  BY <1>0, <1>1 DEF Writes
<1>3. \A k \in st.drop \cup DOMAIN st.keys : old.ops[k].out \in Seen(old.ops, i)
  BY <1>1, SeenFacts DEF Mentions
<1>4. ASSUME NEW s \in DOMAIN st.rename
      PROVE  st.rename[s] \in Seen(old.ops, i) /\ st.rename[s] \notin DOMAIN st.rename
  <2>1. PICK k \in DOMAIN st.keys : st.rename[s] = old.ops[k].out
    BY DEF CseInv, CseParts
  <2>2. k \notin st.drop
    BY DEF CseInv, CseParts
  <2> QED
    BY <1>1, <1>2, <1>3, <2>1, <2>2
<1> QED
  BY <1>0, <1>1, <1>2, <1>3, <1>4

(* The op at place i with its inputs renamed. *)
LEMMA CseRenamed ==
  ASSUME NEW old, Good(old), NEW i \in DOMAIN old.ops,
         NEW st, CseInv(st, i - 1, old), NEW q, q = ResolveIns(st.rename, st.gr.ops[i])
  PROVE  /\ q \in OpType /\ q.oc = old.ops[i].oc /\ q.out = old.ops[i].out /\ q.src = 0
         /\ Mentions(q) \subseteq Seen(old.ops, i) /\ Mentions(q) \cap DOMAIN st.rename = {}
         /\ Shaped(q)
<1> DEFINE R == st.rename
           op == old.ops[i]
<1>0. /\ old \in GraphType /\ op \in OpType /\ Shaped(op) /\ op.src = 0
      /\ Len(old.ops) \in Nat /\ DOMAIN old.ops = 1 .. Len(old.ops)
  BY GraphFacts DEF Good
<1>1. i \in Nat /\ i - 1 \in Nat /\ i > i - 1 /\ i \in 1 .. i /\ i - 1 \in 0 .. i
  BY <1>0
<1>2. st.gr.ops[i] = op /\ i \notin st.drop
  BY <1>1 DEF CseInv, CseParts
<1>3. \A s \in DOMAIN R : R[s] \in Seen(old.ops, i - 1) /\ R[s] \notin DOMAIN R
  BY <1>1, CseRenames
<1>4. Seen(old.ops, i - 1) \subseteq Seen(old.ops, i) /\ Mentions(op) \subseteq Seen(old.ops, i)
  BY <1>1, SeenFacts
<1>5. \A s \in DOMAIN R : R[s] \in Nat
  BY <1>3, <1>4, SeenLive
<1>6. q = ResolveIns(R, op)
  BY <1>2
<1>7. /\ q \in OpType /\ q.oc = op.oc /\ q.out = op.out /\ q.src = op.src
      /\ DOMAIN q.in = DOMAIN op.in
      /\ \A j \in DOMAIN op.in : q.in[j] = Resolve(R, op.in[j])
      /\ Ins(q) = {Resolve(R, s) : s \in Ins(op)}
  BY <1>0, <1>5, <1>6, ResolveInsFacts
<1>8. op.out \notin DOMAIN R
  BY <1>1, <1>2, CseRenames
<1>9. Mentions(q) \subseteq Seen(old.ops, i) /\ Mentions(q) \cap DOMAIN R = {}
  BY <1>3, <1>4, <1>7, <1>8 DEF Resolve, Mentions
<1>10. ASSUME op.oc \in InplaceStores PROVE q.out = q.in[1]
  <2>1. op.out = op.in[1] /\ 1 \in DOMAIN op.in
    BY <1>0, <1>10 DEF Shaped, Stores
  <2> QED
    BY <1>7, <1>8, <2>1 DEF Resolve
<1>11. ASSUME op.oc \notin InplaceStores PROVE q.out \notin Ins(q)
  <2>1. op.out \notin Seen(old.ops, i - 1) /\ op.out \notin Ins(op)
    BY <1>0, <1>11 DEF Good, DefFirst, Shaped
  <2> QED
    BY <1>3, <1>7, <2>1 DEF Resolve
<1>12. Shaped(q)
  BY <1>0, <1>7, <1>10, <1>11 DEF Shaped
<1> QED
  BY <1>0, <1>7, <1>9, <1>12

(* A step that merges nothing, and may note the op for those to come. *)
LEMMA CseUnmerged ==
  ASSUME NEW old, Good(old), NEW i \in DOMAIN old.ops,
         NEW st, CseInv(st, i - 1, old), NEW q \in OpType, q.oc = old.ops[i].oc,
         q.out = old.ops[i].out, q.src = 0, Mentions(q) \subseteq Seen(old.ops, i),
         Mentions(q) \cap DOMAIN st.rename = {}, Shaped(q),
         NEW new, new.gr = SetOp(st.gr, i, q), new.rename = st.rename, new.drop = st.drop,
         \/ DOMAIN new.keys = DOMAIN st.keys
         \/ Sole(old, i) /\ DOMAIN new.keys = DOMAIN st.keys \cup {i}
  PROVE  CseInv(new, i, old)
<1>0. /\ old \in GraphType /\ Len(old.ops) \in Nat /\ DOMAIN old.ops = 1 .. Len(old.ops)
  BY GraphFacts DEF Good
<1>1. /\ i \in Nat /\ i - 1 \in Nat /\ \A k \in 1 .. i - 1 : k \in 1 .. i /\ k # i /\ k \in DOMAIN old.ops
      /\ \A k \in 1 .. i : k = i \/ k \in 1 .. i - 1
      /\ \A k \in DOMAIN old.ops : k > i => k > i - 1 /\ k # i
  BY <1>0
<1>3. Follows(old, st.gr) /\ st.gr \in GraphType /\ DOMAIN st.gr.ops = DOMAIN old.ops
  BY DEF CseInv, CseParts, Follows
<1>4. PICK h : h = SetOp(st.gr, i, q)
  OBVIOUS
<1>5. /\ h.slots = st.gr.slots /\ \A k \in DOMAIN old.ops : h.ops[k] = IF k = i THEN q ELSE st.gr.ops[k]
  BY <1>3, <1>4, SetOpFacts
<1>6. Follows(old, h)
  BY <1>3, <1>4, FollowsSet
<1>7. \A k \in DOMAIN old.ops : h.ops[k].out = old.ops[k].out /\ (k > i => h.ops[k] = old.ops[k])
  BY <1>1, <1>5 DEF CseInv, CseParts
<1>8. /\ st.drop \subseteq 1 .. i - 1 /\ DOMAIN st.keys \subseteq (1 .. i - 1) \ st.drop
      /\ \A k \in st.drop \cup DOMAIN st.keys : Sole(old, k)
  BY DEF CseInv, CseParts
<1>9. /\ st.drop \subseteq 1 .. i /\ DOMAIN new.keys \subseteq (1 .. i) \ st.drop
      /\ \A k \in st.drop \cup DOMAIN new.keys : Sole(old, k)
      /\ DOMAIN st.keys \subseteq DOMAIN new.keys /\ \A k \in DOMAIN new.keys : k = i \/ k \in DOMAIN st.keys
  <2>1. i \in 1 .. i /\ i \notin st.drop
    BY <1>1, <1>8
  <2> QED
    BY <1>1, <1>8, <2>1
<1>10. \A s \in DOMAIN st.rename : \E k \in DOMAIN new.keys : st.rename[s] = old.ops[k].out
  BY <1>9 DEF CseInv, CseParts
<1>11. \A k \in (1 .. i) \ st.drop : Mentions(h.ops[k]) \cap DOMAIN st.rename = {}
  BY <1>1, <1>5 DEF CseInv, CseParts
<1>12. \A k \in DOMAIN new.keys : h.ops[k].src \in {0, old.ops[k].out}
  BY <1>1, <1>5, <1>8, <1>9 DEF CseInv, CseParts
<1>13. ASSUME NEW k \in (1 .. i) \ st.drop, Cached(h.ops[k])
       PROVE  /\ Sole(old, k)
              /\ \E j \in DOMAIN new.keys : /\ j < k /\ old.ops[j].out = h.ops[k].src
                                            /\ h.ops[j].src = h.ops[k].src
  <2>1. k # i
    BY <1>1, <1>5, <1>13 DEF Cached
  <2>2. k \in (1 .. i - 1) \ st.drop /\ h.ops[k] = st.gr.ops[k]
    BY <1>1, <1>5, <2>1
  <2>3. PICK j \in DOMAIN st.keys : /\ j < k /\ old.ops[j].out = st.gr.ops[k].src
                                    /\ st.gr.ops[j].src = st.gr.ops[k].src
    BY <1>13, <2>2 DEF CseInv, CseParts
  <2>4. h.ops[j] = st.gr.ops[j]
    BY <1>1, <1>5, <1>8
  <2> QED
    BY <1>9, <1>13, <2>2, <2>3, <2>4 DEF CseInv, CseParts
<1>14. /\ DOMAIN st.rename = {old.ops[d].out : d \in st.drop}
       /\ \A s \in DOMAIN old.slots \ DOMAIN st.rename : h.slots[s] = old.slots[s]
  BY <1>5 DEF CseInv, CseParts
<1>15. new.gr = h
  BY <1>4
<1>16. CseParts(h, st.rename, st.drop, new.keys, i, old)
  BY <1>6, <1>7, <1>9, <1>10, <1>11, <1>12, <1>13, <1>14 DEF CseParts
<1> QED
  BY <1>15, <1>16 DEF CseInv

(* Sharing the primal of an earlier op: the cells it takes are written by an *)
(* op that stays, before it.                                                *)
LEMMA CseShared ==
  ASSUME NEW old, Good(old), NEW i \in DOMAIN old.ops, Sole(old, i),
         NEW st, CseInv(st, i, old), NEW twin \in DOMAIN st.keys, twin # i,
         i \notin st.drop, i \notin DOMAIN st.keys,
         NEW new, new.gr = Sharing(st.gr, i, twin), new.rename = st.rename,
         new.drop = st.drop, new.keys = st.keys
  PROVE  CseInv(new, i, old)
<1>0. /\ old \in GraphType /\ Len(old.ops) \in Nat /\ DOMAIN old.ops = 1 .. Len(old.ops)
  BY GraphFacts DEF Good
<1>1. /\ Follows(old, st.gr) /\ st.gr \in GraphType /\ DOMAIN st.gr.ops = DOMAIN old.ops
      /\ \A k \in DOMAIN old.ops : st.gr.ops[k].out = old.ops[k].out
  BY DEF CseInv, CseParts, Follows
<1>2. twin \in 1 .. i /\ twin \notin st.drop
  BY DEF CseInv, CseParts
<1>3. twin \in DOMAIN old.ops /\ twin < i
  BY <1>0, <1>2
<1>4. PICK owner : owner = old.ops[twin].out
  OBVIOUS
<1>5. \A k \in DOMAIN old.ops : st.gr.ops[k] \in OpType
  BY <1>1, GraphFacts
<1>6. owner \in Nat /\ owner # old.ops[i].out
  <2>1. owner \in Nat
    BY <1>1, <1>3, <1>4, <1>5 DEF OpType
  <2> QED
    BY <1>3, <1>4, <2>1 DEF Sole, Writes
<1>7. ASSUME NEW k \in DOMAIN old.ops, NEW b, b = [st.gr.ops[k] EXCEPT !.src = owner]
      PROVE  /\ b \in OpType /\ b.oc = st.gr.ops[k].oc /\ b.in = st.gr.ops[k].in
             /\ b.out = old.ops[k].out /\ b.src = owner /\ Mentions(b) = Mentions(st.gr.ops[k])
             /\ Mentions(b) \subseteq Seen(old.ops, k) /\ Shaped(b)
             /\ b.oc \notin InplaceStores => old.ops[k].oc \notin InplaceStores
  <2>1. /\ b \in OpType /\ b.oc = st.gr.ops[k].oc /\ b.in = st.gr.ops[k].in
        /\ b.out = st.gr.ops[k].out /\ b.src = owner
    BY <1>5, <1>6, <1>7 DEF OpType
  <2>2. Mentions(b) = Mentions(st.gr.ops[k]) /\ Ins(b) = Ins(st.gr.ops[k])
    BY <2>1 DEF Mentions, Ins
  <2>3. /\ Mentions(st.gr.ops[k]) \subseteq Seen(old.ops, k) /\ Shaped(st.gr.ops[k])
        /\ st.gr.ops[k].oc \notin InplaceStores => old.ops[k].oc \notin InplaceStores
    BY <1>1 DEF Follows
  <2>4. Shaped(b)
    BY <2>1, <2>2, <2>3 DEF Shaped
  <2> QED
    BY <1>1, <2>1, <2>2, <2>3, <2>4
<1>8. PICK a : a = [st.gr.ops[twin] EXCEPT !.src = owner]
  OBVIOUS
<1>9. PICK b : b = [st.gr.ops[i] EXCEPT !.src = owner]
  OBVIOUS
<1>10. /\ a \in OpType /\ a.out = old.ops[twin].out /\ a.src = owner
       /\ Mentions(a) = Mentions(st.gr.ops[twin])
       /\ Mentions(a) \subseteq Seen(old.ops, twin) /\ Shaped(a)
       /\ a.oc \notin InplaceStores => old.ops[twin].oc \notin InplaceStores
  BY <1>3, <1>7, <1>8
<1>11. /\ b \in OpType /\ b.out = old.ops[i].out /\ b.src = owner
       /\ Mentions(b) = Mentions(st.gr.ops[i])
       /\ Mentions(b) \subseteq Seen(old.ops, i) /\ Shaped(b)
       /\ b.oc \notin InplaceStores => old.ops[i].oc \notin InplaceStores
  BY <1>7, <1>9
<1>12. PICK e : e = SetOp(st.gr, twin, a)
  OBVIOUS
<1>13. /\ e \in GraphType /\ e.slots = st.gr.slots /\ DOMAIN e.ops = DOMAIN old.ops
       /\ \A k \in DOMAIN old.ops : e.ops[k] = IF k = twin THEN a ELSE st.gr.ops[k]
  BY <1>1, <1>3, <1>10, <1>12, SetOpFacts
<1>14. Follows(old, e)
  BY <1>1, <1>3, <1>10, <1>12, FollowsSet
<1>15. PICK h : h = SetOp(e, i, b)
  OBVIOUS
<1>16. /\ h.slots = st.gr.slots
       /\ \A k \in DOMAIN old.ops : h.ops[k] = IF k = i THEN b ELSE IF k = twin THEN a ELSE st.gr.ops[k]
  BY <1>11, <1>13, <1>15, SetOpFacts
<1>17. Follows(old, h)
  BY <1>11, <1>14, <1>15, FollowsSet
<1>18. new.gr = h
  BY <1>1, <1>3, <1>4, <1>8, <1>9, <1>12, <1>15 DEF Sharing
<1>19. \A k \in DOMAIN old.ops : h.ops[k].out = old.ops[k].out /\ Mentions(h.ops[k]) = Mentions(st.gr.ops[k])
  BY <1>1, <1>10, <1>11, <1>16
<1>20. \A k \in DOMAIN old.ops : k > i => h.ops[k] = old.ops[k]
  <2>1. \A k \in DOMAIN old.ops : k > i => k # i /\ k # twin
    BY <1>0, <1>3
  <2> QED
    BY <1>16, <2>1 DEF CseInv, CseParts
<1>21. \A k \in (1 .. i) \ st.drop : Mentions(h.ops[k]) \cap DOMAIN st.rename = {}
  <2>1. \A k \in 1 .. i : k \in DOMAIN old.ops
    BY <1>0
  <2> QED
    BY <1>19, <2>1 DEF CseInv, CseParts
<1>22. \A k \in DOMAIN st.keys : k \in DOMAIN old.ops /\ k # i /\ h.ops[k].src \in {0, old.ops[k].out}
  <2>1. \A k \in DOMAIN st.keys : k \in DOMAIN old.ops /\ k # i
    BY <1>0 DEF CseInv, CseParts
  <2> QED
    BY <1>4, <1>10, <1>16, <2>1 DEF CseInv, CseParts
<1>23. ASSUME NEW k \in (1 .. i) \ st.drop, Cached(h.ops[k])
       PROVE  /\ Sole(old, k)
              /\ \E j \in DOMAIN st.keys : /\ j < k /\ old.ops[j].out = h.ops[k].src
                                           /\ h.ops[j].src = h.ops[k].src
  <2>0. k \in DOMAIN old.ops
    BY <1>0
  <2>1. h.ops[twin].src = owner
    BY <1>3, <1>10, <1>16
  <2>2. CASE k = i
    BY <1>3, <1>4, <1>11, <1>16, <2>1, <2>2
  <2>3. k # twin
    BY <1>3, <1>4, <1>10, <1>16, <1>23 DEF Cached
  <2>4. CASE k # i
    <3>1. h.ops[k] = st.gr.ops[k]
      BY <1>16, <2>0, <2>3, <2>4
    <3>2. /\ Sole(old, k)
          /\ \E j \in DOMAIN st.keys : /\ j < k /\ old.ops[j].out = st.gr.ops[k].src
                                       /\ st.gr.ops[j].src = st.gr.ops[k].src
      BY <1>23, <3>1 DEF CseInv, CseParts
    <3>3. PICK j \in DOMAIN st.keys : /\ j < k /\ old.ops[j].out = st.gr.ops[k].src
                                      /\ st.gr.ops[j].src = st.gr.ops[k].src
      BY <3>2
    <3>4. h.ops[j].src = h.ops[k].src
      BY <1>4, <1>16, <1>22, <2>1, <3>1, <3>3
    <3> QED
      BY <3>1, <3>2, <3>3, <3>4
  <2> QED
    BY <2>2, <2>4
<1>24. /\ st.drop \subseteq 1 .. i /\ DOMAIN st.keys \subseteq (1 .. i) \ st.drop
       /\ \A k \in st.drop \cup DOMAIN st.keys : Sole(old, k)
       /\ DOMAIN st.rename = {old.ops[d].out : d \in st.drop}
       /\ \A s \in DOMAIN st.rename : \E k \in DOMAIN st.keys : st.rename[s] = old.ops[k].out
       /\ \A s \in DOMAIN old.slots \ DOMAIN st.rename : h.slots[s] = old.slots[s]
  BY <1>16 DEF CseInv, CseParts
<1>25. CseParts(h, st.rename, st.drop, st.keys, i, old)
  BY <1>17, <1>19, <1>20, <1>21, <1>22, <1>23, <1>24 DEF CseParts
<1> QED
  BY <1>18, <1>25 DEF CseInv

(* Merging an op into an earlier one: its output, which nothing named before *)
(* and nothing else writes, is renamed and loses its cells.                 *)
LEMMA CseMerged ==
  ASSUME NEW old, Good(old), NEW i \in DOMAIN old.ops, Sole(old, i),
         NEW st, CseInv(st, i, old), NEW twin \in DOMAIN st.keys,
         i \notin st.drop, i \notin DOMAIN st.keys, st.gr.ops[i].oc \notin InplaceStores,
         NEW new, new.gr = Emptied(st.gr, old.ops[i].out),
         new.rename = Bind(st.rename, old.ops[i].out, st.gr.ops[twin].out),
         new.drop = st.drop \cup {i}, new.keys = st.keys
  PROVE  CseInv(new, i, old)
<1> DEFINE out == old.ops[i].out
<1>0. /\ old \in GraphType /\ Len(old.ops) \in Nat /\ DOMAIN old.ops = 1 .. Len(old.ops)
  BY GraphFacts DEF Good
<1>1. /\ Follows(old, st.gr) /\ st.gr \in GraphType /\ DOMAIN st.gr.ops = DOMAIN old.ops
      /\ DOMAIN st.gr.slots = DOMAIN old.slots
      /\ \A k \in DOMAIN old.ops : st.gr.ops[k].out = old.ops[k].out
      /\ \A k \in DOMAIN old.ops : k > i => st.gr.ops[k] = old.ops[k]
  BY DEF CseInv, CseParts, Follows
<1>2. /\ st.drop \subseteq 1 .. i /\ DOMAIN st.keys \subseteq (1 .. i) \ st.drop
      /\ \A k \in st.drop \cup DOMAIN st.keys : Sole(old, k)
      /\ DOMAIN st.rename = {old.ops[d].out : d \in st.drop}
      /\ \A s \in DOMAIN st.rename : \E k \in DOMAIN st.keys : st.rename[s] = old.ops[k].out
      /\ \A k \in (1 .. i) \ st.drop : Mentions(st.gr.ops[k]) \cap DOMAIN st.rename = {}
      /\ \A s \in DOMAIN old.slots \ DOMAIN st.rename : st.gr.slots[s] = old.slots[s]
      /\ \A k \in DOMAIN st.keys : st.gr.ops[k].src \in {0, old.ops[k].out}
      /\ \A k \in (1 .. i) \ st.drop : Cached(st.gr.ops[k]) =>
           /\ Sole(old, k)
           /\ \E j \in DOMAIN st.keys : /\ j < k /\ old.ops[j].out = st.gr.ops[k].src
                                        /\ st.gr.ops[j].src = st.gr.ops[k].src
  BY DEF CseInv, CseParts
<1>3. i \in 1 .. i /\ i \in Nat /\ i - 1 \in Nat /\ \A k \in 1 .. i : k \in DOMAIN old.ops /\ (k # i => k \in 1 .. i - 1)
  BY <1>0
<1>4. out \notin Seen(old.ops, i - 1) /\ out \in DOMAIN old.slots
  <2>1. old.ops[i].oc \notin InplaceStores
    BY <1>1 DEF Follows
  <2>2. out \in Mentions(old.ops[i])
    BY DEF Mentions
  <2> QED
    BY <2>1, <2>2 DEF Good, DefFirst, Live
<1>5. PICK h : h = Emptied(st.gr, out)
  OBVIOUS
<1>6. /\ h.ops = st.gr.ops /\ \A s \in DOMAIN old.slots : s # out => h.slots[s] = st.gr.slots[s]
  BY <1>1, <1>4, <1>5, EmptiedFacts
<1>7. Follows(old, h)
  BY <1>1, <1>4, <1>5, FollowsEmptied
<1>8. PICK r : r = Bind(st.rename, out, st.gr.ops[twin].out)
  OBVIOUS
<1>9. /\ DOMAIN r = DOMAIN st.rename \cup {out}
      /\ \A s \in DOMAIN r : r[s] = IF s = out THEN st.gr.ops[twin].out ELSE st.rename[s]
  BY <1>8 DEF Bind
<1>10. PICK d : d = st.drop \cup {i}
  OBVIOUS
<1>11. /\ d \subseteq 1 .. i /\ DOMAIN st.keys \subseteq (1 .. i) \ d
       /\ \A k \in d \cup DOMAIN st.keys : Sole(old, k)
  BY <1>2, <1>3, <1>10
<1>12. DOMAIN r = {old.ops[k].out : k \in d}
  BY <1>2, <1>9, <1>10
<1>13. \A s \in DOMAIN r : \E k \in DOMAIN st.keys : r[s] = old.ops[k].out
  <2>1. twin \in DOMAIN old.ops
    BY <1>2, <1>3
  <2> QED
    BY <1>1, <1>2, <1>9, <2>1
<1>14. ASSUME NEW k \in (1 .. i) \ d PROVE Mentions(h.ops[k]) \cap DOMAIN r = {}
  <2>1. k \in 1 .. i - 1 /\ k \in DOMAIN old.ops /\ k \in (1 .. i) \ st.drop /\ k \in 0 .. i - 1
    BY <1>3, <1>10
  <2>2. Mentions(h.ops[k]) \subseteq Seen(old.ops, k)
    BY <1>1, <1>6, <2>1 DEF Follows
  <2>3. Seen(old.ops, k) \subseteq Seen(old.ops, i - 1)
    BY <1>3, <2>1, SeenFacts
  <2> QED
    BY <1>2, <1>4, <1>6, <1>9, <2>1, <2>2, <2>3
<1>15. \A s \in DOMAIN old.slots \ DOMAIN r : h.slots[s] = old.slots[s]
  BY <1>2, <1>6, <1>9
<1>16. /\ \A k \in DOMAIN st.keys : h.ops[k].src \in {0, old.ops[k].out}
       /\ \A k \in (1 .. i) \ d : Cached(h.ops[k]) =>
            /\ Sole(old, k)
            /\ \E j \in DOMAIN st.keys : /\ j < k /\ old.ops[j].out = h.ops[k].src
                                         /\ h.ops[j].src = h.ops[k].src
  BY <1>2, <1>6, <1>10
<1>17. CseParts(h, r, d, st.keys, i, old)
  BY <1>1, <1>6, <1>7, <1>11, <1>12, <1>13, <1>14, <1>15, <1>16 DEF CseParts
<1>18. new.gr = h /\ new.rename = r /\ new.drop = d
  BY <1>5, <1>8, <1>10
<1> QED
  BY <1>17, <1>18 DEF CseInv

(* A step of the loop, whichever way it goes. *)
LEMMA CseSteps ==
  ASSUME NEW old, Good(old), NEW keep, NEW merge_active, NEW i \in DOMAIN old.ops,
         NEW st, CseInv(st, i - 1, old)
  PROVE  CseInv(CseStep(st, i, keep, merge_active), i, old)
<1>0. /\ old \in GraphType /\ Len(old.ops) \in Nat /\ DOMAIN old.ops = 1 .. Len(old.ops)
  BY GraphFacts DEF Good
<1>1. PICK op : op = ResolveIns(st.rename, st.gr.ops[i])
  OBVIOUS
<1>2. /\ op \in OpType /\ op.oc = old.ops[i].oc /\ op.out = old.ops[i].out /\ op.src = 0
      /\ Mentions(op) \subseteq Seen(old.ops, i) /\ Mentions(op) \cap DOMAIN st.rename = {}
      /\ Shaped(op)
  BY <1>1, CseRenamed
<1>3. PICK gr : gr = SetOp(st.gr, i, op)
  OBVIOUS
<1>4. PICK key : key = CseKey(st, op, gr.slots[op.out].len)
  OBVIOUS
<1>5. PICK twins : twins = Twins(st, key)
  OBVIOUS
<1>6. PICK twin : twin = Twin(st, key)
  OBVIOUS
<1> DEFINE active == Ins(op) \cap st.active # {}
           candidate == CseCandidate(gr, op, keep)
           shares == candidate /\ twins # {} /\ active /\ ~merge_active
           merges == candidate /\ twins # {} /\ ~(active /\ ~merge_active)
<1>11. PICK new : new = CseStep(st, i, keep, merge_active)
  OBVIOUS
<1>12. /\ new.gr = IF shares THEN Sharing(gr, i, twin)
                   ELSE IF merges THEN Emptied(gr, op.out) ELSE gr
       /\ new.rename = IF merges THEN Bind(st.rename, op.out, gr.ops[twin].out) ELSE st.rename
       /\ new.drop = IF merges THEN st.drop \cup {i} ELSE st.drop
       /\ new.keys = IF candidate /\ twins = {} THEN Bind(st.keys, i, key) ELSE st.keys
  BY <1>1, <1>3, <1>4, <1>5, <1>6, <1>11 DEF CseStep
<1>13. /\ Follows(old, st.gr) /\ st.gr \in GraphType /\ DOMAIN st.gr.ops = DOMAIN old.ops
       /\ \A k \in DOMAIN old.ops : st.gr.ops[k].out = old.ops[k].out
       /\ i \notin st.drop /\ i \notin DOMAIN st.keys
  <2>1. i \notin 1 .. i - 1
    BY <1>0
  <2> QED
    BY <2>1 DEF CseInv, CseParts, Follows
<1>14. /\ gr \in GraphType /\ DOMAIN gr.ops = DOMAIN old.ops
       /\ \A k \in DOMAIN old.ops : gr.ops[k] = IF k = i THEN op ELSE st.gr.ops[k]
  BY <1>2, <1>3, <1>13, SetOpFacts
<1>15. candidate => Sole(old, i) /\ op.oc \notin InplaceStores
  <2>1. ASSUME candidate PROVE Sole(old, i) /\ op.oc \notin InplaceStores
    <3>1. Cardinality(Writes(gr, op.out)) = 1 /\ op.out \notin Ins(op)
      BY <2>1 DEF CseCandidate
    <3>2. Writes(gr, op.out) = Writes(old, op.out)
      BY <1>2, <1>13, <1>14 DEF Writes
    <3>3. i \in Writes(old, op.out) /\ Writes(old, op.out) \subseteq 1 .. Len(old.ops)
      BY <1>0, <1>2 DEF Writes
    <3>4. IsFiniteSet(Writes(old, op.out))
      <4>1. IsFiniteSet(1 .. Len(old.ops))
        BY <1>0, FS_Interval
      <4> QED
        BY <3>3, <4>1, FS_Subset
    <3>5. \E e : Writes(old, op.out) = {e}
      BY <3>1, <3>2, <3>4, FS_Singleton
    <3>6. Writes(old, op.out) = {i}
      BY <3>3, <3>5
    <3>7. op.oc \notin InplaceStores
      <4>1. op.oc \in InplaceStores => op.out = op.in[1] /\ 1 \in DOMAIN op.in
        BY <1>2 DEF Shaped, Stores
      <4> QED
        BY <3>1, <4>1 DEF Ins, ToSet
    <3> QED
      BY <1>2, <3>6, <3>7 DEF Sole
  <2> QED
    BY <2>1
<1>16. PICK mid : mid = [gr |-> gr, rename |-> st.rename, drop |-> st.drop, keys |-> st.keys]
  OBVIOUS
<1>17. CseInv(mid, i, old)
  BY <1>2, <1>3, <1>16, CseUnmerged
<1>18. CASE shares
  <2>1. candidate /\ ~merges /\ twins # {}
    BY <1>18
  <2>2. twin \in DOMAIN st.keys /\ twin # i
    BY <1>5, <1>6, <1>13, <2>1 DEF Twins, Twin
  <2>3. /\ new.gr = Sharing(mid.gr, i, twin) /\ new.rename = mid.rename /\ new.drop = mid.drop
        /\ new.keys = mid.keys /\ mid.drop = st.drop /\ mid.keys = st.keys
    BY <1>12, <1>16, <1>18, <2>1
  <2>4. CseInv(new, i, old)
    BY <1>13, <1>15, <1>17, <2>1, <2>2, <2>3, CseShared
  <2> QED
    BY <1>11, <2>4
<1>19. CASE merges
  <2>1. candidate /\ ~shares /\ twins # {}
    BY <1>19
  <2>2. twin \in DOMAIN st.keys
    BY <1>5, <1>6, <2>1 DEF Twins, Twin
  <2>3. /\ new.gr = Emptied(mid.gr, old.ops[i].out)
        /\ new.rename = Bind(mid.rename, old.ops[i].out, mid.gr.ops[twin].out)
        /\ new.drop = mid.drop \cup {i} /\ new.keys = mid.keys
        /\ mid.drop = st.drop /\ mid.keys = st.keys /\ mid.gr = gr
    BY <1>2, <1>12, <1>16, <1>19, <2>1
  <2>4. mid.gr.ops[i].oc \notin InplaceStores
    BY <1>14, <1>15, <2>1, <2>3
  <2>5. CseInv(new, i, old)
    BY <1>13, <1>15, <1>17, <2>1, <2>2, <2>3, <2>4, CseMerged
  <2> QED
    BY <1>11, <2>5
<1>20. CASE ~shares /\ ~merges
  <2>1. new.gr = SetOp(st.gr, i, op) /\ new.rename = st.rename /\ new.drop = st.drop
    BY <1>3, <1>12, <1>20
  <2>2. \/ DOMAIN new.keys = DOMAIN st.keys
        \/ Sole(old, i) /\ DOMAIN new.keys = DOMAIN st.keys \cup {i}
    BY <1>12, <1>15 DEF Bind
  <2>3. CseInv(new, i, old)
    BY <1>2, <2>1, <2>2, CseUnmerged
  <2> QED
    BY <1>11, <2>3
<1> QED
  BY <1>18, <1>19, <1>20

(* Nothing is merged at the start. *)
LEMMA CseStarts ==
  ASSUME NEW old, Good(old)
  PROVE  CseInv(CseStart(old), 0, old)
<1>1. PICK st : st = CseStart(old)
  OBVIOUS
<1>2. st.gr = old /\ DOMAIN st.rename = {} /\ st.drop = {} /\ DOMAIN st.keys = {}
  BY <1>1 DEF CseStart
<1>3. Follows(old, st.gr)
  BY <1>2, FollowsItself
<1>4. CseParts(st.gr, st.rename, st.drop, st.keys, 0, old)
  BY <1>2, <1>3 DEF CseParts
<1> QED
  BY <1>1, <1>4 DEF CseInv

(* What bind_ asks of a graph. *)
Bindable(gr) ==
  /\ gr \in GraphType
  /\ \A k \in DOMAIN gr.ops :
       /\ \A s \in Mentions(gr.ops[k]) : Live(gr, s)
       /\ gr.ops[k].oc \in InplaceStores <=> gr.ops[k].out \in Ins(gr.ops[k])
       /\ Cached(gr.ops[k]) => Writes(gr, gr.ops[k].out) = {k}
  /\ CachedFollowSource(gr)

(* What is left when the merged ops are dropped can be bound. *)
LEMMA CseEnds ==
  ASSUME NEW old, Good(old), NEW st, CseInv(st, Len(old.ops), old)
  PROVE  Bindable(Sub(st.gr, st.drop))
<1>0. /\ old \in GraphType /\ Len(old.ops) \in Nat /\ DOMAIN old.ops = 1 .. Len(old.ops)
  BY GraphFacts DEF Good
<1>1. PICK gr : gr = st.gr
  OBVIOUS
<1>2. /\ Follows(old, gr) /\ gr \in GraphType /\ DOMAIN gr.ops = DOMAIN old.ops
      /\ DOMAIN gr.slots = DOMAIN old.slots
      /\ \A k \in DOMAIN old.ops : gr.ops[k].out = old.ops[k].out
      /\ \A k \in DOMAIN old.ops : Mentions(gr.ops[k]) \subseteq Seen(old.ops, k) /\ Shaped(gr.ops[k])
  BY <1>1 DEF CseInv, CseParts, Follows
<1>3. PICK drop : drop = st.drop
  OBVIOUS
<1>4. /\ DOMAIN st.keys \subseteq (1 .. Len(old.ops)) \ drop
      /\ \A k \in (1 .. Len(old.ops)) \ drop : Mentions(gr.ops[k]) \cap DOMAIN st.rename = {}
      /\ \A s \in DOMAIN old.slots \ DOMAIN st.rename : gr.slots[s] = old.slots[s]
      /\ \A k \in (1 .. Len(old.ops)) \ drop : Cached(gr.ops[k]) =>
           /\ Sole(old, k)
           /\ \E j \in DOMAIN st.keys : /\ j < k /\ old.ops[j].out = gr.ops[k].src
                                        /\ gr.ops[j].src = gr.ops[k].src
  BY <1>1, <1>3 DEF CseInv, CseParts
<1>5. gr.ops \in Seq(OpType) /\ Len(gr.ops) \in Nat /\ DOMAIN gr.ops = 1 .. Len(gr.ops) /\ Len(gr.ops) = Len(old.ops)
  <2>1. gr.ops \in Seq(OpType) /\ Len(gr.ops) \in Nat /\ DOMAIN gr.ops = 1 .. Len(gr.ops)
    BY <1>2, GraphFacts
  <2>2. old.ops \in Seq(OpType)
    BY <1>0, GraphFacts
  <2> QED
    BY <1>0, <1>2, <2>1, <2>2
<1>6. PICK t : t = Kept(gr.ops, drop)
  OBVIOUS
<1>7. t \in Seq(OpType) /\ \E h : Picks(h, t, Len(gr.ops), gr.ops, drop)
  BY <1>5, <1>6, KeptFacts
<1>8. PICK h : Picks(h, t, Len(gr.ops), gr.ops, drop)
  BY <1>7
<1>9. Len(t) \in Nat /\ DOMAIN t = 1 .. Len(t)
  BY <1>7, LenProperties
<1>10. PICK q : q = [slots |-> gr.slots, ops |-> t, result |-> gr.result]
  OBVIOUS
<1>11. Sub(st.gr, st.drop) = q
  BY <1>1, <1>3, <1>6, <1>10 DEF Sub
<1>12. q \in GraphType /\ q.slots = gr.slots /\ q.ops = t
  BY <1>2, <1>7, <1>10, GraphFacts DEF GraphType
<1>13. /\ \A j \in DOMAIN t : h[j] \in (1 .. Len(old.ops)) \ drop /\ h[j] \in DOMAIN old.ops /\ t[j] = gr.ops[h[j]]
       /\ \A i, j \in DOMAIN t : i < j => h[i] < h[j]
       /\ \A k \in (1 .. Len(old.ops)) \ drop : \E j \in DOMAIN t : h[j] = k
  BY <1>0, <1>5, <1>8, <1>9 DEF Picks
<1>14. ASSUME NEW j \in DOMAIN t, NEW s \in Mentions(t[j]) PROVE Live(q, s)
  <2>1. Live(old, s)
    BY <1>2, <1>13, <1>14, SeenLive
  <2>2. s \notin DOMAIN st.rename
    BY <1>4, <1>13, <1>14
  <2> QED
    BY <1>2, <1>4, <1>12, <2>1, <2>2 DEF Live
<1>15. ASSUME NEW j \in DOMAIN t PROVE t[j].oc \in InplaceStores <=> t[j].out \in Ins(t[j])
  <2>1. Shaped(t[j])
    BY <1>2, <1>13
  <2>2. t[j].oc \in InplaceStores => t[j].out = t[j].in[1] /\ 1 \in DOMAIN t[j].in
    BY <2>1 DEF Shaped, Stores
  <2> QED
    BY <2>1, <2>2 DEF Shaped, Ins, ToSet
<1>16. ASSUME NEW j \in DOMAIN t, Cached(t[j]) PROVE Writes(q, t[j].out) = {j}
  <2>1. Writes(old, old.ops[h[j]].out) = {h[j]}
    BY <1>4, <1>13, <1>16 DEF Sole
  <2>2. ASSUME NEW i \in DOMAIN t, t[i].out = t[j].out PROVE i = j
    <3>1. h[i] = h[j]
      BY <1>2, <1>13, <2>1, <2>2 DEF Writes
    <3>2. ~(i < j) /\ ~(j < i)
      <4>1. h[i] \in Nat
        BY <1>0, <1>13
      <4> QED
        BY <1>13, <3>1, <4>1
    <3> QED
      BY <1>9, <3>2
  <2> QED
    BY <1>12, <2>2 DEF Writes
<1>17. ASSUME NEW j \in DOMAIN t, Cached(t[j])
       PROVE  \E i \in 1 .. j - 1 : t[i].out = t[j].src /\ t[i].src = t[i].out
  <2>1. PICK k \in DOMAIN st.keys : /\ k < h[j] /\ old.ops[k].out = gr.ops[h[j]].src
                                    /\ gr.ops[k].src = gr.ops[h[j]].src
    BY <1>4, <1>13, <1>17
  <2>2. PICK i \in DOMAIN t : h[i] = k
    BY <1>4, <1>13, <2>1
  <2>3. i < j
    <3>1. h[i] \in Nat /\ h[j] \in Nat /\ i \in Nat /\ j \in Nat
      BY <1>0, <1>9, <1>13
    <3>2. ~(j < i) /\ i # j
      BY <1>13, <2>1, <2>2, <3>1
    <3> QED
      BY <3>1, <3>2
  <2>4. t[i] = gr.ops[k] /\ t[j] = gr.ops[h[j]] /\ k \in DOMAIN old.ops
    BY <1>13, <2>2
  <2>5. t[i].out = t[j].src /\ t[i].src = t[i].out
    BY <1>2, <2>1, <2>4
  <2> QED
    BY <1>9, <2>3, <2>5
<1>18. Bindable(q)
  BY <1>12, <1>14, <1>15, <1>16, <1>17 DEF Bindable, CachedFollowSource
<1> QED
  BY <1>11, <1>18

(* The terms follow what they were merged into, and have their cells. *)
LEMMA CseTerms ==
  ASSUME NEW old, Good(old), NEW st, CseInv(st, Len(old.ops), old), NEW s, Live(old, s)
  PROVE  Live(st.gr, Resolve(st.rename, s))
<1>0. /\ old \in GraphType /\ Len(old.ops) \in Nat /\ DOMAIN old.ops = 1 .. Len(old.ops)
  BY GraphFacts DEF Good
<1>1. /\ DOMAIN st.gr.slots = DOMAIN old.slots
      /\ \A x \in DOMAIN old.slots \ DOMAIN st.rename : st.gr.slots[x] = old.slots[x]
  BY DEF CseInv, CseParts, Follows
<1>2. PICK y : y = Resolve(st.rename, s)
  OBVIOUS
<1>3. Live(old, y) /\ y \notin DOMAIN st.rename
  <2>1. CASE s \in DOMAIN st.rename
    <3>1. y = st.rename[s]
      BY <1>2, <2>1 DEF Resolve
    <3>2. y \notin DOMAIN st.rename
      BY <1>0, <2>1, <3>1, CseRenames
    <3>3. PICK k \in DOMAIN st.keys : y = old.ops[k].out
      BY <2>1, <3>1 DEF CseInv, CseParts
    <3>4. k \in DOMAIN old.ops
      BY <1>0, CseRenames
    <3>5. Live(old, y)
      BY <3>3, <3>4 DEF Good, Mentions
    <3> QED
      BY <3>2, <3>5
  <2>2. CASE s \notin DOMAIN st.rename
    BY <1>2, <2>2 DEF Resolve
  <2> QED
    BY <2>1, <2>2
<1> QED
  BY <1>1, <1>2, <1>3 DEF Live

(* cse leaves a graph that can be bound, and terms that have their cells. *)
LEMMA CseGood ==
  ASSUME NEW gr, Good(gr), NEW fl, NEW ts \in Seq(Nat), \A j \in DOMAIN ts : Live(gr, ts[j]),
         NEW rs, NEW fast_math
  PROVE  LET r == Cse(gr, fl, ts, rs, fast_math)
         IN  /\ Bindable(r.gr)
             /\ r.terms \in Seq(Nat) /\ \A j \in DOMAIN r.terms : Live(r.gr, r.terms[j])
<1> DEFINE keep == rs \cup DOMAIN fl
           x == <<gr, keep, fast_math>>
           F(f) == [i \in 0 .. Len(gr.ops) |-> IF i = 0 THEN CseStart(gr)
                                               ELSE CseStep(f[i - 1], i, keep, fast_math)]
           st == CHOOSE f : f = F(f)
<1>0. gr \in GraphType /\ DOMAIN gr.ops = 1 .. Len(gr.ops) /\ Len(gr.ops) \in Nat
  BY GraphFacts DEF Good
<1>1. CseScan(gr, keep, fast_math) = st[Len(gr.ops)]
  BY DEF CseScan
<1>2. PICK f : Trace(f, Len(gr.ops), "cse", x)
  BY <1>0, TraceExists
<1>3. f = F(f)
  BY <1>2 DEF Trace, Start, Step
<1>4. st = F(st)
  BY <1>3
<1> HIDE DEF st
<1>5. PICK g2 : g2 = st
  OBVIOUS
<1>6. Trace(g2, Len(gr.ops), "cse", x)
  BY <1>4, <1>5 DEF Trace, Start, Step
<1>7. Keeps("cse", x, Start("cse", x), 0)
  BY CseStarts DEF Keeps, Start
<1>8. ASSUME NEW i \in 1 .. Len(gr.ops), NEW t, Keeps("cse", x, t, i - 1)
      PROVE  Keeps("cse", x, Step("cse", x, t, i), i)
  <2>1. CseInv(t, i - 1, gr)
    BY <1>8 DEF Keeps
  <2>2. CseInv(CseStep(t, i, keep, fast_math), i, gr)
    BY <1>0, <2>1, CseSteps
  <2> QED
    BY <2>2 DEF Keeps, Step
<1>9. Keeps("cse", x, g2[Len(gr.ops)], Len(gr.ops))
  BY <1>0, <1>6, <1>7, <1>8, TraceKeeps
<1>10. PICK e : e = CseScan(gr, keep, fast_math)
  OBVIOUS
<1>11. CseInv(e, Len(gr.ops), gr)
  BY <1>1, <1>5, <1>9, <1>10 DEF Keeps
<1>12. PICK r : r = Cse(gr, fl, ts, rs, fast_math)
  OBVIOUS
<1>13. r.gr = Sub(e.gr, e.drop) /\ r.terms = [t \in DOMAIN ts |-> Resolve(e.rename, ts[t])]
  BY <1>10, <1>12 DEF Cse
<1>14. Bindable(r.gr)
  BY <1>11, <1>13, CseEnds
<1>15. r.gr.slots = e.gr.slots
  BY <1>13 DEF Sub
<1>16. \A j \in DOMAIN ts : Live(e.gr, Resolve(e.rename, ts[j]))
  BY <1>11, CseTerms
<1>17. \A j \in DOMAIN ts : Live(r.gr, r.terms[j])
  BY <1>13, <1>15, <1>16 DEF Live
<1>18. r.terms \in Seq(Nat)
  <2>1. DOMAIN r.gr.slots \subseteq Nat
    BY <1>14, GraphFacts DEF Bindable
  <2>2. \A j \in DOMAIN ts : r.terms[j] \in Nat
    BY <1>17, <2>1 DEF Live
  <2>3. DOMAIN ts = 1 .. Len(ts) /\ Len(ts) \in Nat
    BY LenProperties
  <2>4. r.terms \in [1 .. Len(ts) -> Nat]
    BY <1>13, <2>2, <2>3
  <2> QED
    BY <2>3, <2>4, SeqDef
<1>19. DOMAIN r.terms = DOMAIN ts
  BY <1>13
<1> QED
  BY <1>12, <1>14, <1>17, <1>18, <1>19

-----------------------------------------------------------------------------
(* Lowering                                                                *)

(* A sequence of one operand. *)
LEMMA OperandSeq ==
  ASSUME NEW a \in Nat, NEW q, q = <<a>>
  PROVE  q \in Seq(Nat) /\ DOMAIN q = {1} /\ ToSet(q) = {a}
<1>1. DOMAIN q = {1} /\ q[1] = a /\ q \in Seq(Nat)
  OBVIOUS
<1> QED
  BY <1>1 DEF ToSet

(* A sequence of two. *)
LEMMA OperandPair ==
  ASSUME NEW a \in Nat, NEW b \in Nat, NEW q, q = <<a, b>>
  PROVE  q \in Seq(Nat) /\ DOMAIN q = {1, 2} /\ ToSet(q) = {a, b} /\ q[1] = a
<1>1. DOMAIN q = {1, 2} /\ q[1] = a /\ q[2] = b /\ q \in Seq(Nat)
  OBVIOUS
<1> QED
  BY <1>1 DEF ToSet

(* Every slot has its cells: what lowering keeps until the passes start. *)
AllLive(gr) == \A s \in DOMAIN gr.slots : gr.slots[s].len > 0

(* What lowering hands to add_op. *)
Proper(gr, oc, c) ==
  /\ c.in \in Seq(Nat) /\ ToSet(c.in) \subseteq DOMAIN gr.slots
  /\ c.at \in Nat /\ c.by \in Nat /\ c.len \in Nat \ {0} /\ c.arr \in BOOLEAN
  /\ oc \in Stores => DOMAIN c.in = {1, 2} /\ gr.slots[c.in[1]].arr
  /\ oc \in {"SLICE", "INDEX"} => DOMAIN c.in = {1}
  /\ oc = "INDEX" => ~c.arr

(* An op with one operand, and with two. *)
LEMMA OneOperand ==
  ASSUME NEW gr \in GraphType, NEW oc \in Opcodes \ Stores, NEW a \in DOMAIN gr.slots,
         NEW at \in Nat, NEW by \in Nat, NEW n \in Nat \ {0}, NEW arr \in BOOLEAN,
         oc = "INDEX" => ~arr
  PROVE  Proper(gr, oc, [in |-> <<a>>, at |-> at, by |-> by, len |-> n, arr |-> arr])
<1>1. a \in Nat
  BY GraphFacts
<1>2. PICK q : q = <<a>>
  OBVIOUS
<1>3. q \in Seq(Nat) /\ DOMAIN q = {1} /\ ToSet(q) = {a}
  BY <1>1, <1>2, OperandSeq
<1>4. PICK c : c = [in |-> q, at |-> at, by |-> by, len |-> n, arr |-> arr]
  OBVIOUS
<1>5. c.in = q /\ c.at = at /\ c.by = by /\ c.len = n /\ c.arr = arr
  BY <1>4
<1>6. Proper(gr, oc, c)
  BY <1>3, <1>5 DEF Proper
<1> QED
  BY <1>2, <1>4, <1>6

(* The first of two operands is what a store updates. *)
LEMMA TwoOperands ==
  ASSUME NEW gr \in GraphType, NEW oc \in Opcodes \ {"SLICE", "INDEX"},
         NEW a \in DOMAIN gr.slots, NEW b \in DOMAIN gr.slots,
         NEW at \in Nat, NEW by \in Nat, NEW n \in Nat \ {0}, NEW arr \in BOOLEAN,
         oc \in Stores => gr.slots[a].arr
  PROVE  Proper(gr, oc, [in |-> <<a, b>>, at |-> at, by |-> by, len |-> n, arr |-> arr])
<1>1. a \in Nat /\ b \in Nat
  BY GraphFacts
<1>2. PICK q : q = <<a, b>>
  OBVIOUS
<1>3. q \in Seq(Nat) /\ DOMAIN q = {1, 2} /\ ToSet(q) = {a, b} /\ q[1] = a
  BY <1>1, <1>2, OperandPair
<1>4. PICK c : c = [in |-> q, at |-> at, by |-> by, len |-> n, arr |-> arr]
  OBVIOUS
<1>5. c.in = q /\ c.at = at /\ c.by = by /\ c.len = n /\ c.arr = arr
  BY <1>4
<1>6. Proper(gr, oc, c)
  BY <1>3, <1>5 DEF Proper
<1> QED
  BY <1>2, <1>4, <1>6

(* Whatever operands lowering picks are proper. *)
LEMMA OperandsFacts ==
  ASSUME NEW gr \in GraphType, AllLive(gr), NEW oc \in Opcodes, NEW c \in Operands(gr, oc)
  PROVE  Proper(gr, oc, c)
<1> DEFINE One(a, at, by, n, arr) == [in |-> <<a>>, at |-> at, by |-> by, len |-> n, arr |-> arr]
           Two(a, b, at, by, n, arr) == [in |-> <<a, b>>, at |-> at, by |-> by, len |-> n, arr |-> arr]
           len(s) == gr.slots[s].len
           lengths == {len(s) : s \in Containers(gr)}
<1>0. \A s \in DOMAIN gr.slots : s \in Nat /\ len(s) \in Nat \ {0} /\ gr.slots[s].arr \in BOOLEAN
  BY GraphFacts DEF SlotType, AllLive
<1>1. \A s \in Containers(gr) : s \in DOMAIN gr.slots /\ gr.slots[s].arr
  BY DEF Containers
<1>2. \A n \in lengths : n \in Nat \ {0}
  BY <1>0, <1>1
<1>3. Scalars(gr) \subseteq DOMAIN gr.slots /\ AllSlots(gr) = DOMAIN gr.slots
  BY DEF Scalars, AllSlots
<1>4. \A m : \A k \in 1 .. m : k \in Nat
  OBVIOUS
<1>6. CASE oc \in {"ADD", "MUL"}
  <2>1. PICK a \in DOMAIN gr.slots, b \in DOMAIN gr.slots : c = Two(a, b, 1, 1, len(a), gr.slots[a].arr)
    <3> DEFINE pairs(a) == {x \in AllSlots(gr) : a <= x /\ [len |-> len(a), arr |-> gr.slots[a].arr]
                                                           = [len |-> len(x), arr |-> gr.slots[x].arr]}
    <3>1. c \in UNION {{Two(a, b, 1, 1, len(a), gr.slots[a].arr) : b \in pairs(a)} : a \in AllSlots(gr)}
      BY <1>6 DEF Operands
    <3>2. \A a : pairs(a) \subseteq AllSlots(gr)
      OBVIOUS
    <3> HIDE DEF pairs
    <3>3. PICK a \in AllSlots(gr) : c \in {Two(a, b, 1, 1, len(a), gr.slots[a].arr) : b \in pairs(a)}
      BY <3>1
    <3>4. PICK b \in pairs(a) : c = Two(a, b, 1, 1, len(a), gr.slots[a].arr)
      BY <3>3
    <3> QED
      BY <1>3, <3>2, <3>4
  <2>2. PICK n \in Nat \ {0} : n = len(a)
    BY <1>0
  <2>3. PICK arr \in BOOLEAN : arr = gr.slots[a].arr
    BY <1>0
  <2>4. oc \notin Stores /\ oc \notin {"SLICE", "INDEX"}
    BY <1>6, OpcodeFacts
  <2>5. Proper(gr, oc, Two(a, b, 1, 1, n, arr))
    BY <2>4, TwoOperands
  <2> QED
    BY <2>1, <2>2, <2>3, <2>5
<1>7. CASE oc = "DENSITY"
  <2>1. PICK a \in Scalars(gr), b \in Scalars(gr) : c = Two(a, b, 1, 1, 1, FALSE)
    BY <1>7 DEF Operands
  <2>2. oc \notin Stores
    BY <1>7, OpcodeFacts
  <2>8. PICK arr \in BOOLEAN : arr = FALSE
    OBVIOUS
  <2>9. PICK n \in Nat \ {0} : n = 1
    OBVIOUS
  <2>3. Proper(gr, oc, Two(a, b, 1, 1, n, arr))
    BY <2>8, <2>9, <1>3, <1>7, <2>2, TwoOperands
  <2> QED
    BY <2>8, <2>9, <2>1, <2>3
<1>8. CASE oc = "EXPV"
  <2>1. PICK a \in DOMAIN gr.slots : c = One(a, 1, 1, len(a), gr.slots[a].arr)
    BY <1>8 DEF Operands
  <2>2. PICK n \in Nat \ {0} : n = len(a)
    BY <1>0
  <2>3. PICK arr \in BOOLEAN : arr = gr.slots[a].arr
    BY <1>0
  <2>4. oc \notin Stores /\ oc # "INDEX"
    BY <1>8, OpcodeFacts
  <2>5. Proper(gr, oc, One(a, 1, 1, n, arr))
    BY <2>4, OneOperand
  <2> QED
    BY <2>1, <2>2, <2>3, <2>5
<1>9. CASE oc = "REP_VEC"
  <2>1. PICK a \in Scalars(gr), n \in lengths : c = One(a, 1, 1, n, TRUE)
    BY <1>9 DEF Operands
  <2>2. oc \notin Stores
    BY <1>9, OpcodeFacts
  <2>3. a \in DOMAIN gr.slots /\ n \in Nat \ {0}
    BY <1>2, <1>3
  <2>4. Proper(gr, oc, One(a, 1, 1, n, TRUE))
    BY <1>9, <2>2, <2>3, OneOperand
  <2> QED
    BY <2>1, <2>4
<1>10. CASE oc = "CHECK_LOWER"
  <2>1. PICK a \in Scalars(gr) : c = One(a, 1, 1, 1, FALSE)
    BY <1>10 DEF Operands
  <2>2. oc \notin Stores
    BY <1>10, OpcodeFacts
  <2>8. PICK arr \in BOOLEAN : arr = FALSE
    OBVIOUS
  <2>9. PICK n \in Nat \ {0} : n = 1
    OBVIOUS
  <2>3. Proper(gr, oc, One(a, 1, 1, n, arr))
    BY <2>8, <2>9, <1>3, <2>2, OneOperand
  <2> QED
    BY <2>8, <2>9, <2>1, <2>3
<1>11. CASE oc = "INDEX"
  <2>1. PICK v \in Containers(gr) : \E k \in 1 .. len(v) : c = One(v, k, 1, 1, FALSE)
    BY <1>11 DEF Operands
  <2>2. PICK k \in 1 .. len(v) : c = One(v, k, 1, 1, FALSE)
    BY <2>1
  <2>3. oc \notin Stores
    BY <1>11, OpcodeFacts
  <2>4. v \in DOMAIN gr.slots /\ k \in Nat
    BY <1>1, <1>4
  <2>8. PICK arr \in BOOLEAN : arr = FALSE
    OBVIOUS
  <2>9. PICK n \in Nat \ {0} : n = 1
    OBVIOUS
  <2>5. Proper(gr, oc, One(v, k, 1, n, arr))
    BY <2>8, <2>9, <2>3, <2>4, OneOperand
  <2> QED
    BY <2>8, <2>9, <2>2, <2>5
<1>12. CASE oc = "SLICE"
  <2>1. PICK v \in Containers(gr), n \in lengths : \E k \in 1 .. len(v) - n + 1 : c = One(v, k, 1, n, TRUE)
    BY <1>12 DEF Operands
  <2>2. PICK k \in 1 .. len(v) - n + 1 : c = One(v, k, 1, n, TRUE)
    BY <2>1
  <2>3. oc \notin Stores
    BY <1>12, OpcodeFacts
  <2>4. v \in DOMAIN gr.slots /\ k \in Nat /\ n \in Nat \ {0}
    BY <1>1, <1>2, <1>4
  <2>5. Proper(gr, oc, One(v, k, 1, n, TRUE))
    BY <1>12, <2>3, <2>4, OneOperand
  <2> QED
    BY <2>2, <2>5
<1>13. CASE oc \in CopyStores
  <2>1. PICK v \in Containers(gr), r \in DOMAIN gr.slots, k \in Nat, by \in Nat :
           c = Two(v, r, k, by, len(v), TRUE)
    <3>1. CASE oc = "SET_INDEX"
      <4>1. \E v \in Containers(gr) : \E k \in 1 .. len(v) : \E r \in AllSlots(gr) :
               c = Two(v, r, k, 1, len(v), TRUE)
        BY <3>1 DEF Operands
      <4> QED
        BY <1>3, <1>4, <4>1
    <3>2. CASE oc = "SET_SLICE"
      <4>1. \E v \in Containers(gr) : \E r \in Containers(gr) : \E k \in 1 .. len(v) - len(r) + 1 :
               c = Two(v, r, k, 1, len(v), TRUE)
        BY <3>2 DEF Operands
      <4> QED
        BY <1>1, <1>4, <4>1
    <3>3. CASE oc = "SET_SLICE_STRIDED"
      <4>1. \E v \in Containers(gr) : \E r \in Containers(gr), by \in Strides :
               \E k \in 1 .. len(v) - (len(r) - 1) * by : c = Two(v, r, k, by, len(v), TRUE)
        BY <3>3 DEF Operands
      <4>2. \A by \in Strides : by \in Nat
        BY StridesAssumption
      <4> QED
        BY <1>1, <1>4, <4>1, <4>2
    <3> QED
      BY <1>13, <3>1, <3>2, <3>3 DEF CopyStores
  <2>2. PICK n \in Nat \ {0} : n = len(v)
    BY <1>0, <1>1
  <2>3. v \in DOMAIN gr.slots /\ gr.slots[v].arr
    BY <1>1
  <2>4. oc \notin {"SLICE", "INDEX"}
    BY <1>13 DEF CopyStores
  <2>5. Proper(gr, oc, Two(v, r, k, by, n, TRUE))
    BY <2>3, <2>4, TwoOperands
  <2> QED
    BY <2>1, <2>2, <2>5
<1> QED
  BY <1>6, <1>7, <1>8, <1>9, <1>10, <1>11, <1>12, <1>13 DEF Opcodes

(* h is gr with one more slot, and one more op that writes it. *)
Extended(gr, oc, c, h) ==
  /\ h \in GraphType
  /\ DOMAIN h.ops = 1 .. Len(gr.ops) + 1 /\ DOMAIN h.slots = 1 .. Len(gr.slots) + 1
  /\ \A k \in DOMAIN gr.ops : h.ops[k] = gr.ops[k]
  /\ \A s \in DOMAIN gr.slots : h.slots[s] = gr.slots[s]
  /\ h.ops[Len(gr.ops) + 1].oc = oc /\ h.ops[Len(gr.ops) + 1].in = c.in
  /\ h.ops[Len(gr.ops) + 1].out = Len(gr.slots) + 1 /\ h.ops[Len(gr.ops) + 1].src = 0
  /\ h.slots[Len(gr.slots) + 1].len = c.len /\ h.slots[Len(gr.slots) + 1].arr = c.arr
AnOp(oc, c) ==
  /\ oc \in Opcodes \cup {"ADD_N"}
  /\ c.in \in Seq(Nat) /\ c.at \in Nat /\ c.by \in Nat /\ c.len \in Nat /\ c.arr \in BOOLEAN

(* add_slot and add_op. *)
LEMMA EmittedFacts ==
  ASSUME NEW gr \in GraphType, NEW oc, NEW c, AnOp(oc, c)
  PROVE  Extended(gr, oc, c, Emitted(gr, oc, c))
<1>0. PICK h : h = Emitted(gr, oc, c)
  OBVIOUS
<1>1. /\ gr.slots \in Seq(SlotType) /\ gr.ops \in Seq(OpType) /\ gr.result \in Nat
      /\ Len(gr.ops) \in Nat /\ DOMAIN gr.ops = 1 .. Len(gr.ops)
      /\ Len(gr.slots) \in Nat /\ DOMAIN gr.slots = 1 .. Len(gr.slots)
  BY GraphFacts
<1>2. PICK x : x = Slot(c.len, c.arr, FALSE)
  OBVIOUS
<1>3. x \in SlotType /\ x.len = c.len /\ x.arr = c.arr
  BY <1>2 DEF Slot, SlotType, AnOp
<1>4. PICK op : op = Op(oc, c.in, Len(gr.slots) + 1, c.at, c.by)
  OBVIOUS
<1>5. op \in OpType /\ op.oc = oc /\ op.in = c.in /\ op.out = Len(gr.slots) + 1 /\ op.src = 0
  BY <1>1, <1>4 DEF Op, OpType, AnOp
<1>6. PICK a : a = Append(gr.slots, x)
  OBVIOUS
<1>7. PICK b : b = Append(gr.ops, op)
  OBVIOUS
<1>8. /\ a \in Seq(SlotType) /\ Len(a) = Len(gr.slots) + 1 /\ a[Len(gr.slots) + 1] = x
      /\ \A s \in 1 .. Len(gr.slots) : a[s] = gr.slots[s]
  BY <1>1, <1>3, <1>6, AppendProperties
<1>9. /\ b \in Seq(OpType) /\ Len(b) = Len(gr.ops) + 1 /\ b[Len(gr.ops) + 1] = op
      /\ \A k \in 1 .. Len(gr.ops) : b[k] = gr.ops[k]
  BY <1>1, <1>5, <1>7, AppendProperties
<1>10. h = [slots |-> a, ops |-> b, result |-> gr.result]
  BY <1>0, <1>2, <1>4, <1>6, <1>7 DEF Emitted
<1>11. h.slots = a /\ h.ops = b /\ h \in GraphType
  BY <1>1, <1>8, <1>9, <1>10 DEF GraphType
<1>12. DOMAIN a = 1 .. Len(a) /\ DOMAIN b = 1 .. Len(b)
  BY <1>8, <1>9, LenProperties
<1>13. Extended(gr, oc, c, h)
  BY <1>1, <1>3, <1>5, <1>8, <1>9, <1>11, <1>12 DEF Extended
<1> QED
  BY <1>0, <1>13

(* Lowering a statement keeps the graph good: its op writes a new slot. *)
LEMMA EmitGood ==
  ASSUME NEW gr, Good(gr), AllSorted(gr), AllLive(gr), NEW oc \in Opcodes, NEW c, Proper(gr, oc, c),
         NEW h, h = Emitted(gr, oc, c)
  PROVE  Good(h) /\ AllSorted(h) /\ AllLive(h)
<1> DEFINE n == Len(gr.ops) + 1
           m == Len(gr.slots) + 1
<1>1. /\ gr \in GraphType
      /\ Len(gr.ops) \in Nat /\ DOMAIN gr.ops = 1 .. Len(gr.ops)
      /\ Len(gr.slots) \in Nat /\ DOMAIN gr.slots = 1 .. Len(gr.slots)
  BY GraphFacts DEF Good
<1>2. /\ h \in GraphType
      /\ DOMAIN h.ops = 1 .. n /\ DOMAIN h.slots = 1 .. m
      /\ \A k \in DOMAIN gr.ops : h.ops[k] = gr.ops[k]
      /\ \A s \in DOMAIN gr.slots : h.slots[s] = gr.slots[s]
      /\ h.ops[n].oc = oc /\ h.ops[n].in = c.in
      /\ h.ops[n].out = m /\ h.ops[n].src = 0
      /\ h.slots[m].len = c.len /\ h.slots[m].arr = c.arr
  <2>1. AnOp(oc, c)
    BY DEF Proper, AnOp
  <2>2. Extended(gr, oc, c, h)
    BY <1>1, <2>1, EmittedFacts
  <2> QED
    BY <2>2 DEF Extended
<1>3. /\ \A k \in DOMAIN h.ops : k = n \/ k \in DOMAIN gr.ops
      /\ \A s \in DOMAIN h.slots : s = m \/ s \in DOMAIN gr.slots
      /\ m \notin DOMAIN gr.slots /\ m \in DOMAIN h.slots /\ n \in DOMAIN h.ops
      /\ DOMAIN gr.slots \subseteq DOMAIN h.slots
  BY <1>1, <1>2
<1>4. Ins(h.ops[n]) \subseteq DOMAIN gr.slots /\ Mentions(h.ops[n]) \subseteq DOMAIN h.slots
  BY <1>1, <1>2, <1>3 DEF Proper, Ins, Mentions
<1>5. AllLive(h)
  BY <1>2, <1>3 DEF AllLive, Proper
<1>6. \A k \in DOMAIN gr.ops : Mentions(gr.ops[k]) \subseteq DOMAIN gr.slots
  BY DEF Good, Live
<1>7. Shaped(h.ops[n])
  <2>1. oc \notin InplaceStores
    BY OpcodeFacts
  <2> QED
    BY <1>2, <1>3, <1>4, <2>1 DEF Shaped, Proper
<1>8. ASSUME NEW k \in DOMAIN h.ops
      PROVE  /\ Shaped(h.ops[k]) /\ h.ops[k].src = 0
             /\ \A s \in Mentions(h.ops[k]) : Live(h, s)
  <2>1. CASE k = n
    <3>1. \A s \in Mentions(h.ops[n]) : Live(h, s)
      BY <1>4, <1>5 DEF Live, AllLive
    <3> QED
      BY <1>2, <1>7, <2>1, <3>1
  <2>2. CASE k \in DOMAIN gr.ops
    <3>1. /\ Shaped(gr.ops[k]) /\ gr.ops[k].src = 0
          /\ \A s \in Mentions(gr.ops[k]) : Live(gr, s)
      BY <2>2 DEF Good
    <3>2. \A s : Live(gr, s) => Live(h, s)
      BY <1>2, <1>3, <1>5 DEF Live, AllLive
    <3> QED
      BY <1>2, <2>2, <3>1, <3>2
  <2> QED
    BY <1>3, <2>1, <2>2
<1>9. ASSUME NEW k \in DOMAIN h.ops, h.ops[k].oc \notin InplaceStores
      PROVE  h.ops[k].out \notin Seen(h.ops, k - 1)
  <2>1. k \in Nat /\ k - 1 \in Nat /\ \A j \in 1 .. k - 1 : j \in DOMAIN gr.ops
    BY <1>1, <1>2
  <2>2. \A s \in Seen(h.ops, k - 1) : \E j \in 1 .. k - 1 : s \in Mentions(gr.ops[j]) /\ j \in DOMAIN gr.ops
    <3>1. \A s \in Seen(h.ops, k - 1) : \E j \in 1 .. k - 1 : s \in Mentions(h.ops[j])
      BY <2>1, SeenFacts
    <3> QED
      BY <1>2, <2>1, <3>1
  <2>3. CASE k = n
    BY <1>2, <1>3, <1>6, <2>2, <2>3
  <2>4. CASE k \in DOMAIN gr.ops
    <3>1. gr.ops[k].out \notin Seen(gr.ops, k - 1) /\ h.ops[k] = gr.ops[k]
      BY <1>2, <1>9, <2>4 DEF Good, DefFirst
    <3>2. \A s \in Seen(h.ops, k - 1) : s \in Seen(gr.ops, k - 1)
      BY <2>1, <2>2, SeenFacts
    <3> QED
      BY <3>1, <3>2
  <2> QED
    BY <1>3, <2>3, <2>4
<1>10. ASSUME NEW k \in DOMAIN h.ops PROVE Sorted(h, h.ops[k])
  <2>1. CASE k = n
    <3>1. oc \in Stores => c.in[1] \in DOMAIN gr.slots /\ gr.slots[c.in[1]].arr
      BY DEF Proper, ToSet
    <3> QED
      BY <1>2, <2>1, <3>1 DEF Sorted, Proper
  <2>2. CASE k \in DOMAIN gr.ops
    <3>1. Sorted(gr, gr.ops[k]) /\ Shaped(gr.ops[k]) /\ h.ops[k] = gr.ops[k]
      BY <1>2, <2>2 DEF AllSorted, Good
    <3>2. gr.ops[k].oc \in Stores => gr.ops[k].in[1] \in Mentions(gr.ops[k])
      BY <3>1 DEF Shaped, Mentions, Ins, ToSet
    <3>3. gr.ops[k].out \in Mentions(gr.ops[k])
      BY DEF Mentions
    <3> QED
      BY <1>2, <1>6, <2>2, <3>1, <3>2, <3>3 DEF Sorted
  <2> QED
    BY <1>3, <2>1, <2>2
<1> QED
  BY <1>2, <1>5, <1>8, <1>9, <1>10 DEF Good, DefFirst, AllSorted

(* The graph of the parameters and the constants alone. *)
LEMMA ConstantGood ==
  ASSUME NEW lens \in Seq(Nat \ {0}), NEW h, h = ConstantGraph(lens)
  PROVE  Good(h) /\ AllSorted(h) /\ AllLive(h)
<1> DEFINE Full == {x \in SlotType : x.len > 0}
<1>1. PICK a : a = <<Slot(1, FALSE, TRUE), Slot(1, FALSE, FALSE)>>
  OBVIOUS
<1>2. PICK b : b = [i \in DOMAIN lens |-> Slot(lens[i], TRUE, FALSE)]
  OBVIOUS
<1>3. \A n \in Nat \ {0} : \A arr, param \in BOOLEAN : Slot(n, arr, param) \in Full
  BY DEF Slot, SlotType
<1>4. a \in Seq(Full)
  <2>6. PICK no \in BOOLEAN : no = FALSE
    OBVIOUS
  <2>7. PICK yes \in BOOLEAN : yes = TRUE
    OBVIOUS
  <2>1. PICK one \in Nat \ {0} : one = 1
    OBVIOUS
  <2>3. Slot(one, no, yes) \in Full /\ Slot(one, no, no) \in Full
    BY <1>3
  <2>4. PICK x \in Full : x = Slot(one, no, yes)
    BY <2>3
  <2>5. PICK y \in Full : y = Slot(one, no, no)
    BY <2>3
  <2>2. a = <<x, y>>
    BY <1>1, <2>1, <2>4, <2>5, <2>6, <2>7
  <2> QED
    BY <2>2
<1>5. b \in Seq(Full)
  <2>1. Len(lens) \in Nat /\ DOMAIN lens = 1 .. Len(lens) /\ \A i \in DOMAIN lens : lens[i] \in Nat \ {0}
    BY LenProperties, ElementOfSeq
  <2>2. b \in [1 .. Len(lens) -> Full]
    BY <1>2, <1>3, <2>1
  <2> QED
    BY <2>1, <2>2, SeqDef
<1>6. PICK q : q = a \o b
  OBVIOUS
<1>7. q \in Seq(Full)
  BY <1>4, <1>5, <1>6, ConcatProperties
<1>8. \A s \in DOMAIN q : q[s] \in Full
  BY <1>7, ElementOfSeq, LenProperties
<1>9. q \in Seq(SlotType)
  <2>1. Len(q) \in Nat /\ q \in [1 .. Len(q) -> SlotType]
    <3>1. Len(q) \in Nat /\ q \in [1 .. Len(q) -> Full]
      BY <1>7, LenProperties
    <3> QED
      BY <3>1
  <2> QED
    BY <2>1, SeqDef
<1>10. h = [slots |-> q, ops |-> <<>>, result |-> 0]
  BY <1>1, <1>2, <1>6 DEF ConstantGraph
<1>11. h \in GraphType /\ h.slots = q /\ DOMAIN h.ops = {}
  BY <1>9, <1>10 DEF GraphType
<1> QED
  BY <1>8, <1>11 DEF Good, DefFirst, AllSorted, AllLive

(* The scalars nothing reads have their cells. *)
LEMMA UnreadFacts ==
  ASSUME NEW gr, Good(gr)
  PROVE  /\ UnreadScalars(gr) \in Seq(Nat)
         /\ \A j \in DOMAIN UnreadScalars(gr) : Live(gr, UnreadScalars(gr)[j])
<1>1. /\ gr \in GraphType /\ Len(gr.ops) \in Nat /\ DOMAIN gr.ops = 1 .. Len(gr.ops)
      /\ \A k \in DOMAIN gr.ops : gr.ops[k].out \in Nat
  <2>1. /\ gr \in GraphType /\ Len(gr.ops) \in Nat /\ DOMAIN gr.ops = 1 .. Len(gr.ops)
        /\ \A k \in DOMAIN gr.ops : gr.ops[k] \in OpType
    BY GraphFacts DEF Good
  <2> QED
    BY <2>1 DEF OpType
<1>2. PICK seq : seq = [i \in DOMAIN gr.ops |-> gr.ops[i].out]
  OBVIOUS
<1>3. seq \in Seq(Nat) /\ Len(seq) = Len(gr.ops)
  <2>1. seq \in [1 .. Len(gr.ops) -> Nat]
    BY <1>1, <1>2
  <2>2. seq \in Seq(Nat)
    BY <1>1, <2>1, SeqDef
  <2> QED
    BY <1>1, <2>1, <2>2, LenProperties
<1>4. PICK drop : UnreadScalars(gr) = Kept(seq, drop)
  BY <1>2 DEF UnreadScalars
<1>5. PICK t : t = Kept(seq, drop)
  OBVIOUS
<1>6. t \in Seq(Nat) /\ \E h : Picks(h, t, Len(seq), seq, drop)
  BY <1>3, <1>5, KeptFacts
<1>7. PICK h : Picks(h, t, Len(seq), seq, drop)
  BY <1>6
<1>8. DOMAIN t = 1 .. Len(t)
  BY <1>6, LenProperties
<1>9. \A j \in DOMAIN t : h[j] \in DOMAIN gr.ops /\ t[j] = gr.ops[h[j]].out
  BY <1>1, <1>2, <1>3, <1>7, <1>8 DEF Picks
<1>10. \A j \in DOMAIN t : Live(gr, t[j])
  BY <1>9 DEF Good, Mentions
<1> QED
  BY <1>4, <1>5, <1>6, <1>10

(* reduce_terms leaves a graph that can be bound. *)
LEMMA ReduceBindable ==
  ASSUME NEW gr, Bindable(gr), NEW ts \in Seq(Nat), \A j \in DOMAIN ts : Live(gr, ts[j])
  PROVE  Bindable(ReduceTerms(gr, ts))
<1>1. /\ gr \in GraphType /\ gr.slots \in Seq(SlotType) /\ gr.ops \in Seq(OpType) /\ gr.result \in Nat
      /\ Len(gr.ops) \in Nat /\ DOMAIN gr.ops = 1 .. Len(gr.ops)
      /\ Len(gr.slots) \in Nat /\ DOMAIN gr.slots = 1 .. Len(gr.slots)
  BY GraphFacts DEF Bindable
<1>2. ASSUME NEW b, Bindable(b), NEW s \in Nat PROVE Bindable(Returning(b, s))
  <2>1. PICK q : q = Returning(b, s)
    OBVIOUS
  <2>2. q = [slots |-> b.slots, ops |-> b.ops, result |-> s]
    BY <2>1 DEF Returning
  <2>3. q.slots = b.slots /\ q.ops = b.ops
    BY <2>2
  <2>4. q \in GraphType
    <3>1. b.slots \in Seq(SlotType) /\ b.ops \in Seq(OpType)
      BY <1>2, GraphFacts DEF Bindable
    <3> QED
      BY <1>2, <2>2, <3>1 DEF GraphType
  <2>5. Bindable(q)
    BY <1>2, <2>3, <2>4 DEF Bindable, Live, Writes, CachedFollowSource
  <2> QED
    BY <2>1, <2>5
<1>3. Len(ts) \in Nat /\ DOMAIN ts = 1 .. Len(ts) /\ \A j \in DOMAIN ts : ts[j] \in Nat
  BY LenProperties, ElementOfSeq
<1>4. CASE Len(ts) = 0
  BY <1>4 DEF ReduceTerms
<1>5. CASE Len(ts) = 1
  <2>1. ts[1] \in Nat
    BY <1>3, <1>5
  <2>2. ReduceTerms(gr, ts) = Returning(gr, ts[1])
    BY <1>5 DEF ReduceTerms
  <2> QED
    BY <1>2, <2>1, <2>2
<1>6. CASE Len(ts) # 0 /\ Len(ts) # 1
  <2> DEFINE n == Len(gr.ops) + 1
             m == Len(gr.slots) + 1
  <2>1. PICK c : c = [in |-> ts, at |-> 1, by |-> 1, len |-> 1, arr |-> FALSE]
    OBVIOUS
  <2>2. PICK h : h = Emitted(gr, "ADD_N", c)
    OBVIOUS
  <2>3. ReduceTerms(gr, ts) = Returning(h, m)
    BY <1>6, <2>1, <2>2 DEF ReduceTerms
  <2>4. c.in = ts /\ c.at \in Nat /\ c.by \in Nat /\ c.len \in Nat /\ c.len = 1 /\ c.arr \in BOOLEAN
    BY <2>1
  <2>5. /\ h \in GraphType
        /\ DOMAIN h.ops = 1 .. n /\ DOMAIN h.slots = 1 .. m
        /\ \A k \in DOMAIN gr.ops : h.ops[k] = gr.ops[k]
        /\ \A s \in DOMAIN gr.slots : h.slots[s] = gr.slots[s]
        /\ h.ops[n].oc = "ADD_N" /\ h.ops[n].in = ts
        /\ h.ops[n].out = m /\ h.ops[n].src = 0
        /\ h.slots[m].len = c.len
    <3>1. AnOp("ADD_N", c)
      BY <2>4 DEF AnOp
    <3>2. Extended(gr, "ADD_N", c, h)
      BY <1>1, <2>2, <3>1, EmittedFacts
    <3> QED
      BY <2>4, <3>2 DEF Extended
  <2>6. /\ \A k \in DOMAIN h.ops : k = n \/ k \in DOMAIN gr.ops
        /\ m \notin DOMAIN gr.slots /\ m \in DOMAIN h.slots /\ n \in DOMAIN h.ops /\ n \notin DOMAIN gr.ops
        /\ DOMAIN gr.slots \subseteq DOMAIN h.slots /\ DOMAIN gr.ops \subseteq DOMAIN h.ops
    BY <1>1, <2>5
  <2>7. \A s : Live(gr, s) => Live(h, s)
    BY <2>5, <2>6 DEF Live
  <2>8. Ins(h.ops[n]) \subseteq DOMAIN gr.slots /\ \A s \in Mentions(h.ops[n]) : Live(h, s)
    <3>1. \A s \in Ins(h.ops[n]) : Live(gr, s)
      BY <2>5 DEF Ins, ToSet
    <3>2. Live(h, m)
      BY <2>4, <2>5, <2>6 DEF Live
    <3> QED
      BY <2>5, <2>7, <3>1, <3>2 DEF Mentions, Live
  <2>9. ASSUME NEW k \in DOMAIN h.ops
        PROVE  /\ \A s \in Mentions(h.ops[k]) : Live(h, s)
               /\ h.ops[k].oc \in InplaceStores <=> h.ops[k].out \in Ins(h.ops[k])
               /\ Cached(h.ops[k]) => Writes(h, h.ops[k].out) = {k}
    <3>1. CASE k = n
      <4>1. "ADD_N" \notin InplaceStores
        BY OpcodeFacts
      <4> QED
        BY <2>5, <2>6, <2>8, <3>1, <4>1 DEF Cached
    <3>2. CASE k \in DOMAIN gr.ops
      <4>1. /\ \A s \in Mentions(gr.ops[k]) : Live(gr, s)
            /\ gr.ops[k].oc \in InplaceStores <=> gr.ops[k].out \in Ins(gr.ops[k])
            /\ Cached(gr.ops[k]) => Writes(gr, gr.ops[k].out) = {k}
        BY <3>2 DEF Bindable
      <4>2. gr.ops[k].out \in DOMAIN gr.slots
        BY <4>1 DEF Mentions, Live
      <4>3. Writes(h, gr.ops[k].out) = Writes(gr, gr.ops[k].out)
        BY <2>5, <2>6, <4>2 DEF Writes
      <4> QED
        BY <2>5, <2>7, <3>2, <4>1, <4>3
    <3> QED
      BY <2>6, <3>1, <3>2
  <2>10. ASSUME NEW k \in DOMAIN h.ops, Cached(h.ops[k])
         PROVE  \E j \in 1 .. k - 1 : h.ops[j].out = h.ops[k].src /\ h.ops[j].src = h.ops[j].out
    <3>1. k \in DOMAIN gr.ops
      BY <2>5, <2>6, <2>10 DEF Cached
    <3>2. h.ops[k] = gr.ops[k] /\ \A j \in 1 .. k - 1 : h.ops[j] = gr.ops[j]
      <4>1. \A j \in 1 .. k - 1 : j \in DOMAIN gr.ops
        BY <1>1, <3>1
      <4> QED
        BY <2>5, <3>1, <4>1
    <3>3. \E j \in 1 .. k - 1 : gr.ops[j].out = gr.ops[k].src /\ gr.ops[j].src = gr.ops[j].out
      BY <2>10, <3>1, <3>2 DEF Bindable, CachedFollowSource
    <3> QED
      BY <3>2, <3>3
  <2>11. Bindable(h)
    BY <2>5, <2>9, <2>10 DEF Bindable, CachedFollowSource
  <2>12. m \in Nat
    BY <1>1
  <2> QED
    BY <1>2, <2>3, <2>11, <2>12
<1> QED
  BY <1>4, <1>5, <1>6

-----------------------------------------------------------------------------
(* The pipeline                                                            *)

(* What holds of the graph where the pipeline stands: lowering and the       *)
(* passes up to rerolling keep it good and typed, the two after it good, cse *)
(* leaves what bind_ accepts; the terms never lose their cells.             *)
IInv ==
  /\ pc \in {"lower", "inplace", "store_forward", "constfold", "reroll", "elide", "cse", "reduce", "bound"}
  /\ pc # "bound" => terms \in Seq(Nat) /\ \A j \in DOMAIN terms : Live(g, terms[j])
  /\ pc = "lower" => todo \in Seq(Opcodes \X SUBSET Nat) /\ terms = <<>> /\ AllLive(g)
  /\ pc \in {"lower", "inplace", "store_forward", "constfold", "reroll"} => Good(g) /\ AllSorted(g)
  /\ pc \in {"elide", "cse"} => Good(g)
  /\ pc \in {"reduce", "bound"} => Bindable(g)

(* It holds of the constants alone. *)
LEMMA IInvStarts ==
  ASSUME Init
  PROVE  IInv
<1>1. PICK p \in Programs : todo = p.ops /\ g = ConstantGraph(p.lens)
  BY DEF Init
<1>2. pc = "lower" /\ terms = <<>>
  BY DEF Init
<1>3. p.ops \in Seq(Opcodes \X SUBSET Nat) /\ p.lens \in Seq(Nat \ {0})
  BY ProgramsAssumption
<1>4. Good(g) /\ AllSorted(g) /\ AllLive(g)
  BY <1>1, <1>3, ConstantGood
<1> QED
  BY <1>1, <1>2, <1>3, <1>4 DEF IInv

(* Roots and terms keep their cells through make_inplace_updates. *)
LEMMA InplaceKeepsTerms ==
  ASSUME Good(g), AllSorted(g), terms \in Seq(Nat), \A j \in DOMAIN terms : Live(g, terms[j]),
         NEW h, h = MakeInplaceUpdates(g, UpdateRoots)
  PROVE  Good(h) /\ AllSorted(h) /\ \A j \in DOMAIN terms : Live(h, terms[j])
<1>1. PICK rs : rs = UpdateRoots
  OBVIOUS
<1>2. /\ Good(h) /\ AllSorted(h)
      /\ \A s \in rs : Live(g, s) => Live(h, s)
  BY <1>1, InplaceGood
<1>3. \A j \in DOMAIN terms : terms[j] \in rs
  BY <1>1 DEF UpdateRoots, ToSet
<1> QED
  BY <1>2, <1>3

(* Every step keeps it. *)
LEMMA IInvSteps ==
  ASSUME IInv, [Next]_vars
  PROVE  IInv'
<1>1. CASE EmitOp
  <2>1. /\ pc = "lower" /\ pc' = "lower" /\ terms = <<>> /\ terms' = terms /\ todo # <<>> /\ todo' = Tail(todo)
        /\ todo \in Seq(Opcodes \X SUBSET Nat) /\ Good(g) /\ AllSorted(g) /\ AllLive(g)
    BY <1>1 DEF EmitOp, IInv
  <2>2. PICK oc : oc = Head(todo)[1]
    OBVIOUS
  <2>3. PICK c \in Operands(g, oc) : g' = Emitted(g, oc, c)
    BY <1>1, <2>2 DEF EmitOp
  <2>4. Head(todo) \in Opcodes \X SUBSET Nat /\ todo' \in Seq(Opcodes \X SUBSET Nat)
    BY <2>1, HeadTailProperties
  <2>5. oc \in Opcodes
    BY <2>2, <2>4
  <2>6. g \in GraphType
    BY <2>1 DEF Good
  <2>7. Proper(g, oc, c)
    BY <2>1, <2>3, <2>5, <2>6, OperandsFacts
  <2>8. PICK h : h = g'
    OBVIOUS
  <2>9. Good(h) /\ AllSorted(h) /\ AllLive(h)
    BY <2>1, <2>3, <2>5, <2>7, <2>8, EmitGood
  <2>10. Good(g') /\ AllSorted(g') /\ AllLive(g')
    BY <2>8, <2>9
  <2> QED
    BY <2>1, <2>4, <2>10 DEF IInv
<1>2. CASE LoweredLogProb
  <2>1. /\ pc = "lower" /\ pc' = "inplace" /\ g' = g /\ terms' = UnreadScalars(g)
        /\ Good(g) /\ AllSorted(g)
    BY <1>2 DEF LoweredLogProb, IInv
  <2>2. terms' \in Seq(Nat) /\ \A j \in DOMAIN terms' : Live(g, terms'[j])
    BY <2>1, UnreadFacts
  <2> QED
    BY <2>1, <2>2 DEF IInv
<1>3. CASE LoweredWriteArray
  <2>1. /\ pc = "lower" /\ pc' = "inplace" /\ g' = g /\ terms' = terms
        /\ Good(g) /\ AllSorted(g) /\ terms \in Seq(Nat) /\ \A j \in DOMAIN terms : Live(g, terms[j])
    BY <1>3 DEF LoweredWriteArray, IInv
  <2> QED
    BY <2>1 DEF IInv
<1>4. CASE Inplace
  <2>1. /\ pc = "inplace" /\ pc' = "store_forward" /\ g' = MakeInplaceUpdates(g, UpdateRoots) /\ terms' = terms
        /\ Good(g) /\ AllSorted(g) /\ terms \in Seq(Nat) /\ \A j \in DOMAIN terms : Live(g, terms[j])
    BY <1>4 DEF Inplace, IInv
  <2>2. PICK h : h = g'
    OBVIOUS
  <2>3. Good(h) /\ AllSorted(h) /\ \A j \in DOMAIN terms : Live(h, terms[j])
    BY <2>1, <2>2, InplaceKeepsTerms
  <2>4. Good(g') /\ AllSorted(g') /\ \A j \in DOMAIN terms' : Live(g', terms'[j])
    BY <2>1, <2>2, <2>3
  <2> QED
    BY <2>1, <2>4 DEF IInv
<1>5. CASE StoreForward
  <2>1. /\ pc = "store_forward" /\ pc' = "constfold" /\ g' = ForwardStoresToLoads(g, UpdateRoots) /\ terms' = terms
        /\ Good(g) /\ AllSorted(g) /\ terms \in Seq(Nat) /\ \A j \in DOMAIN terms : Live(g, terms[j])
    BY <1>5 DEF StoreForward, IInv
  <2>2. Good(g') /\ AllSorted(g') /\ g'.slots = g.slots
    BY <2>1, ForwardGood
  <2>3. \A j \in DOMAIN terms' : Live(g', terms'[j])
    BY <2>1, <2>2 DEF Live
  <2> QED
    BY <2>1, <2>2, <2>3 DEF IInv
<1>6. CASE ConstFoldPass
  <2>1. /\ pc = "constfold" /\ pc' = "reroll" /\ g' = ConstFold(g, fills, UpdateRoots).gr /\ terms' = terms
        /\ Good(g) /\ AllSorted(g) /\ terms \in Seq(Nat) /\ \A j \in DOMAIN terms : Live(g, terms[j])
    BY <1>6 DEF ConstFoldPass, IInv
  <2>2. Good(g') /\ AllSorted(g') /\ g'.slots = g.slots
    BY <2>1, FoldGood
  <2>3. \A j \in DOMAIN terms' : Live(g', terms'[j])
    BY <2>1, <2>2 DEF Live
  <2> QED
    BY <2>1, <2>2, <2>3 DEF IInv
<1>7. CASE PostReroll
  <2>1. /\ pc = "reroll" /\ pc' \in {"elide", "cse"} /\ terms' = terms
        /\ g' = g \/ g' = MakeInplaceUpdates(g, UpdateRoots)
        /\ Good(g) /\ AllSorted(g) /\ terms \in Seq(Nat) /\ \A j \in DOMAIN terms : Live(g, terms[j])
    BY <1>7 DEF PostReroll, IInv
  <2>2. PICK h : h = g'
    OBVIOUS
  <2>3. Good(h) /\ \A j \in DOMAIN terms : Live(h, terms[j])
    BY <2>1, <2>2, InplaceKeepsTerms
  <2>4. Good(g') /\ \A j \in DOMAIN terms' : Live(g', terms'[j])
    BY <2>1, <2>2, <2>3
  <2> QED
    BY <2>1, <2>4 DEF IInv
<1>8. CASE Elide
  <2>1. /\ pc = "elide" /\ pc' = "cse" /\ g' = ElideFullExtentStores(g, UpdateRoots) /\ terms' = terms
        /\ Good(g) /\ terms \in Seq(Nat) /\ \A j \in DOMAIN terms : Live(g, terms[j])
    BY <1>8 DEF Elide, IInv
  <2>2. Good(g') /\ g'.slots = g.slots
    BY <2>1, ElideGood
  <2>3. \A j \in DOMAIN terms' : Live(g', terms'[j])
    BY <2>1, <2>2 DEF Live
  <2> QED
    BY <2>1, <2>2, <2>3 DEF IInv
<1>9. CASE CsePass
  <2>1. /\ pc = "cse" /\ pc' = "reduce"
        /\ Good(g) /\ terms \in Seq(Nat) /\ \A j \in DOMAIN terms : Live(g, terms[j])
    BY <1>9 DEF CsePass, IInv
  <2>2. PICK fast_math \in BOOLEAN : /\ g' = Cse(g, fills, terms, roots, fast_math).gr
                                     /\ terms' = Cse(g, fills, terms, roots, fast_math).terms
    BY <1>9 DEF CsePass
  <2>3. Bindable(g') /\ terms' \in Seq(Nat) /\ \A j \in DOMAIN terms' : Live(g', terms'[j])
    BY <2>1, <2>2, CseGood
  <2> QED
    BY <2>1, <2>3 DEF IInv
<1>10. CASE ReduceAndBind
  <2>1. /\ pc = "reduce" /\ g' = ReduceTerms(g, terms)
        /\ pc' = IF CachedFollowSource(g') THEN "bound" ELSE "bind_error"
        /\ Bindable(g) /\ terms \in Seq(Nat) /\ \A j \in DOMAIN terms : Live(g, terms[j])
    BY <1>10 DEF ReduceAndBind, IInv
  <2>2. Bindable(g')
    BY <2>1, ReduceBindable
  <2>3. pc' = "bound"
    BY <2>1, <2>2 DEF Bindable
  <2> QED
    BY <2>2, <2>3 DEF IInv
<1>11. CASE Eval
  <2>1. pc = "bound" /\ pc' = pc /\ g' = g /\ Bindable(g)
    BY <1>11 DEF Eval, IInv
  <2> QED
    BY <2>1 DEF IInv
<1>12. CASE UNCHANGED vars
  <2>1. pc' = pc /\ todo' = todo /\ g' = g /\ terms' = terms
    BY <1>12 DEF vars
  <2> QED
    BY <2>1 DEF IInv
<1> QED
  BY <1>1, <1>2, <1>3, <1>4, <1>5, <1>6, <1>7, <1>8, <1>9, <1>10, <1>11, <1>12 DEF Next

(* What bind_ accepts binds cleanly. *)
LEMMA BindableIsClean ==
  ASSUME IInv
  PROVE  BindsCleanly
<1>1. pc # "bind_error"
  BY DEF IInv
<1>2. ASSUME pc \in {"reduce", "bound"}, NEW i \in DOMAIN g.ops
      PROVE  /\ \A s \in Ins(g.ops[i]) \cup {g.ops[i].out} : g.slots[s].len > 0
             /\ g.ops[i].oc \in InplaceStores <=> g.ops[i].out \in Ins(g.ops[i])
             /\ Cached(g.ops[i]) => Cardinality(Writes(g, g.ops[i].out)) = 1
  <2>1. Bindable(g)
    BY <1>2 DEF IInv
  <2>2. Cardinality({i}) = 1
    BY FS_Singleton
  <2> QED
    BY <2>1, <2>2 DEF Bindable, Mentions, Live
<1> QED
  BY <1>1, <1>2 DEF BindsCleanly

(* Whatever lowering emitted, once the passes have run no op names a slot a  *)
(* rewrite emptied, in-place stores and only they write what they read, and  *)
(* every cached primal follows the op it shares with: Executor::bind_ cannot *)
(* refuse the graph.                                                        *)
THEOREM PassesBindCleanly == Spec => []BindsCleanly
<1>1. Init => IInv
  BY IInvStarts
<1>2. IInv /\ [Next]_vars => IInv'
  BY IInvSteps
<1>3. IInv => BindsCleanly
  BY BindableIsClean
<1> QED
  BY <1>1, <1>2, <1>3, PTL DEF Spec
=============================================================================

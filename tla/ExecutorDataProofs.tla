------------------------- MODULE ExecutorDataProofs -------------------------
(***************************************************************************)
(* Copy-on-write isolation of executors, for any number of executors,      *)
(* blocks, slots and values.                                               *)
(***************************************************************************)
EXTENDS ExecutorData, TLAPS

USE ZeroAssumption, JunkAssumption, NoBlockAssumption, SlotsAssumption

(* Every pointer an executor holds leads to its data, in whatever operation  *)
(* it is; what it may write it owns alone; an unpublished replacement is     *)
(* nobody else's.                                                           *)
PointerInv == \A e \in alive : bound[e] = block[e] /\ micro[e] = block[e]
DataInv == \A e \in alive : heap[block[e]] = view[e]
PcInv ==
  /\ \A e \in Executors : pc[e] # "idle" => e \in alive
  /\ \A e \in Executors : pc[e] = "write" => op[e] \in Fills \cup {Pointer}
  /\ \A e \in Executors : pc[e] \in {"detach", "copy", "swap"}
                             => op[e] \in Fills \cup {Pointer}
  /\ \A e \in Executors : pc[e] \in {"copy", "swap"} => ~exposed[e]
SoleInv ==
  \A e, f \in alive : (pc[e] = "write" \/ exposed[e]) /\ block[f] = block[e]
                         => f = e
FreshInv ==
  \A e \in alive : pc[e] = "swap" =>
    /\ fresh[e] \in Blocks
    /\ heap[fresh[e]] = view[e]
    /\ \A f \in alive : block[f] # fresh[e]
    /\ \A f \in alive : pc[f] = "swap" /\ fresh[f] = fresh[e] => f = e

(* The inductive invariant. *)
IInv == TypeOK /\ PointerInv /\ DataInv /\ PcInv /\ SoleInv /\ FreshInv

(* A block that holds somebody's data is not free. *)
LEMMA ContentsNotFreed == Freed \notin Contents
  BY DEF Freed, Contents

(* Dropping a reference frees the block only if nobody else has it. *)
LEMMA ReleasedHeap ==
  ASSUME TypeOK, NEW e \in alive
  PROVE  /\ Released(e) \in [Blocks -> Contents \cup {Freed}]
         /\ \A b \in Blocks : b # block[e] => Released(e)[b] = heap[b]
         /\ \A f \in alive : f # e /\ block[f] = block[e]
                               => Released(e) = heap
  BY DEF TypeOK, Released, Owners

(* A free block is nobody's data and nobody's replacement. *)
LEMMA FreeNotUsed ==
  ASSUME IInv, NEW b \in Blocks, Free(b)
  PROVE  /\ \A f \in alive : block[f] # b
         /\ \A f \in alive : pc[f] = "swap" => fresh[f] # b
  BY ContentsNotFreed DEF IInv, TypeOK, DataInv, FreshInv, Free

(* Every step keeps the invariant. *)
LEMMA NextIInv == IInv /\ [Next]_vars => IInv'
<1> SUFFICES ASSUME IInv, [Next]_vars PROVE IInv'
  OBVIOUS
<1> USE DEF IInv, TypeOK
<1>1. ASSUME NEW src \in Executors, NEW e \in Executors, Clone(src, e)
       PROVE  IInv'
  <2>a. src \in alive /\ e \notin alive /\ alive' = alive \cup {e}
        /\ pc' = pc /\ op' = op /\ fresh' = fresh /\ pc[src] = "idle"
        /\ exposed' = [exposed EXCEPT ![e] = FALSE]
        /\ view' = [view EXCEPT ![e] = view[src]]
    BY <1>1 DEF Clone
  <2>b. PICK b \in Blocks :
          /\ Bind(e, b)
          /\ heap' \in [Blocks -> Contents \cup {Freed}]
          /\ heap'[b] = view[src]
          /\ \A f \in alive : heap'[block[f]] = heap[block[f]]
          /\ \A f \in alive : pc[f] = "swap"
                => b # fresh[f] /\ heap'[fresh[f]] = heap[fresh[f]]
          /\ \A f \in alive : block[f] = b
                => b = block[src] /\ ~exposed[src]
    <3>1. CASE exposed[src]
      <4>1. PICK b \in Blocks : /\ Free(b)
                                /\ heap' = [heap EXCEPT ![b] = heap[block[src]]]
                                /\ Bind(e, b)
        BY <1>1, <3>1 DEF Clone
      <4>2. /\ \A f \in alive : block[f] # b
            /\ \A f \in alive : pc[f] = "swap" => fresh[f] # b
        BY <4>1, FreeNotUsed
      <4> QED
        BY <2>a, <4>1, <4>2 DEF DataInv, FreshInv
    <3>2. CASE ~exposed[src]
      BY <1>1, <2>a, <3>2 DEF Clone, DataInv, FreshInv
    <3> QED
      BY <3>1, <3>2
  <2>c. /\ block' = [block EXCEPT ![e] = b]
        /\ bound' = [bound EXCEPT ![e] = b]
        /\ micro' = [micro EXCEPT ![e] = b]
    BY <2>b DEF Bind
  <2>1. TypeOK'
    BY <2>a, <2>b, <2>c DEF PcInv
  <2>2. PointerInv'
    BY <2>a, <2>b, <2>c DEF PointerInv
  <2>3. DataInv'
    BY <2>a, <2>b, <2>c DEF DataInv
  <2>4. PcInv'
    BY <2>a, <2>b, <2>c DEF PcInv
  <2>5. SoleInv'
    BY <2>a, <2>b, <2>c DEF SoleInv, PcInv
  <2>6. FreshInv'
    BY <2>a, <2>b, <2>c DEF FreshInv, PcInv
  <2> QED
    BY <2>1, <2>2, <2>3, <2>4, <2>5, <2>6
<1>2. ASSUME NEW e \in Executors, Destroy(e)
       PROVE  IInv'
  <2>a. /\ e \in alive /\ alive' = alive \ {e} /\ heap' = Released(e)
        /\ pc' = pc /\ op' = op /\ fresh' = fresh /\ pc[e] = "idle"
        /\ exposed' = [exposed EXCEPT ![e] = FALSE]
        /\ view' = [view EXCEPT ![e] = Zeroed]
        /\ block' = [block EXCEPT ![e] = NoBlock]
        /\ bound' = [bound EXCEPT ![e] = NoBlock]
        /\ micro' = [micro EXCEPT ![e] = NoBlock]
    BY <1>2 DEF Destroy, Bind
  <2>b. /\ heap' \in [Blocks -> Contents \cup {Freed}]
        /\ \A f \in alive' : heap'[block[f]] = heap[block[f]]
        /\ \A f \in alive' : pc[f] = "swap" => heap'[fresh[f]] = heap[fresh[f]]
    BY <2>a, ReleasedHeap DEF FreshInv
  <2>c. Zeroed \in Contents
    BY DEF Zeroed, Contents
  <2>1. TypeOK'
    BY <2>a, <2>b, <2>c
  <2>2. PointerInv'
    BY <2>a, <2>b, <2>c DEF PointerInv
  <2>3. DataInv'
    BY <2>a, <2>b, <2>c DEF DataInv
  <2>4. PcInv'
    BY <2>a, <2>b, <2>c DEF PcInv
  <2>5. SoleInv'
    BY <2>a, <2>b, <2>c DEF SoleInv
  <2>6. FreshInv'
    BY <2>a, <2>b, <2>c DEF FreshInv
  <2> QED
    BY <2>1, <2>2, <2>3, <2>4, <2>5, <2>6
<1>3. ASSUME NEW e \in Executors, NEW o \in Fills \cup {Pointer}, Call(e, o)
       PROVE  IInv'
  <2>1. TypeOK'
    BY <1>3 DEF Call
  <2>2. PointerInv'
    BY <1>3 DEF Call, PointerInv
  <2>3. DataInv'
    BY <1>3 DEF Call, DataInv
  <2>4. PcInv'
    BY <1>3 DEF Call, PcInv
  <2>5. SoleInv'
    BY <1>3 DEF Call, SoleInv
  <2>6. FreshInv'
    BY <1>3 DEF Call, FreshInv
  <2> QED
    BY <2>1, <2>2, <2>3, <2>4, <2>5, <2>6
<1>4. ASSUME NEW e \in Executors, DetachCheck(e)
       PROVE  IInv'
  <2>1. TypeOK'
    BY <1>4 DEF DetachCheck, Owners
  <2>2. PointerInv'
    BY <1>4 DEF DetachCheck, Owners, PointerInv
  <2>3. DataInv'
    BY <1>4 DEF DetachCheck, Owners, DataInv
  <2>4. PcInv'
    <3>1. pc'[e] = "copy" => ~exposed[e]
      BY <1>4 DEF DetachCheck, Owners, SoleInv, PcInv
    <3> QED
      BY <1>4, <3>1 DEF DetachCheck, PcInv
  <2>5. SoleInv'
    BY <1>4 DEF DetachCheck, Owners, SoleInv, PcInv
  <2>6. FreshInv'
    BY <1>4 DEF DetachCheck, Owners, FreshInv
  <2> QED
    BY <2>1, <2>2, <2>3, <2>4, <2>5, <2>6
<1>5. ASSUME NEW e \in Executors, DetachCopy(e)
       PROVE  IInv'
  <2>a. PICK b \in Blocks :
          /\ Free(b)
          /\ heap' = [heap EXCEPT ![b] = heap[block[e]]]
          /\ fresh' = [fresh EXCEPT ![e] = b]
    BY <1>5 DEF DetachCopy
  <2>b. /\ \A f \in alive : block[f] # b
        /\ \A f \in alive : pc[f] = "swap" => fresh[f] # b
    BY <2>a, FreeNotUsed
  <2>c. /\ pc[e] = "copy" /\ pc' = [pc EXCEPT ![e] = "swap"] /\ e \in alive
        /\ UNCHANGED <<alive, block, bound, micro, exposed, op, view>>
    BY <1>5 DEF DetachCopy, PcInv
  <2>1. TypeOK'
    BY <2>a, <2>b, <2>c DEF DataInv
  <2>2. PointerInv'
    BY <2>a, <2>b, <2>c DEF DataInv, PointerInv
  <2>3. DataInv'
    BY <2>a, <2>b, <2>c DEF DataInv
  <2>4. PcInv'
    BY <2>a, <2>b, <2>c DEF DataInv, PcInv
  <2>5. SoleInv'
    BY <2>a, <2>b, <2>c DEF DataInv, SoleInv
  <2>6. FreshInv'
    BY <2>a, <2>b, <2>c DEF DataInv, FreshInv
  <2> QED
    BY <2>1, <2>2, <2>3, <2>4, <2>5, <2>6
<1>6. ASSUME NEW e \in Executors, DetachFails(e)
       PROVE  IInv'
  <2>1. TypeOK'
    BY <1>6 DEF DetachFails
  <2>2. PointerInv'
    BY <1>6 DEF DetachFails, PointerInv
  <2>3. DataInv'
    BY <1>6 DEF DetachFails, DataInv
  <2>4. PcInv'
    BY <1>6 DEF DetachFails, PcInv
  <2>5. SoleInv'
    BY <1>6 DEF DetachFails, SoleInv
  <2>6. FreshInv'
    BY <1>6 DEF DetachFails, FreshInv
  <2> QED
    BY <2>1, <2>2, <2>3, <2>4, <2>5, <2>6
<1>7. ASSUME NEW e \in Executors, DetachSwap(e)
       PROVE  IInv'
  <2>a. /\ e \in alive /\ alive' = alive /\ heap' = Released(e)
        /\ pc[e] = "swap" /\ pc' = [pc EXCEPT ![e] = "write"]
        /\ fresh' = [fresh EXCEPT ![e] = NoBlock]
        /\ block' = [block EXCEPT ![e] = fresh[e]]
        /\ bound' = [bound EXCEPT ![e] = fresh[e]]
        /\ micro' = [micro EXCEPT ![e] = fresh[e]]
        /\ exposed' = exposed /\ op' = op /\ view' = view
    BY <1>7 DEF DetachSwap, Bind, PcInv
  <2>b. /\ heap' \in [Blocks -> Contents \cup {Freed}]
        /\ \A f \in alive : f # e => heap'[block[f]] = heap[block[f]]
        /\ \A f \in alive : pc[f] = "swap" => heap'[fresh[f]] = heap[fresh[f]]
    BY <2>a, ReleasedHeap DEF FreshInv
  <2>c. fresh[e] \in Blocks /\ \A f \in alive : block[f] # fresh[e]
    BY <2>a DEF FreshInv
  <2>1. TypeOK'
    BY <2>a, <2>b, <2>c
  <2>2. PointerInv'
    BY <2>a, <2>b, <2>c DEF PointerInv
  <2>3. DataInv'
    BY <2>a, <2>b, <2>c DEF DataInv, FreshInv
  <2>4. PcInv'
    BY <2>a, <2>b, <2>c DEF PcInv
  <2>5. SoleInv'
    BY <2>a, <2>b, <2>c DEF SoleInv
  <2>6. FreshInv'
    BY <2>a, <2>b, <2>c DEF FreshInv
  <2> QED
    BY <2>1, <2>2, <2>3, <2>4, <2>5, <2>6
<1>8. ASSUME NEW e \in Executors, Fill(e)
       PROVE  IInv'
  <2>a. /\ e \in alive /\ op[e].slot \in Slots /\ op[e].value \in Values
        /\ heap' = [heap EXCEPT ![block[e]][op[e].slot] = op[e].value]
        /\ view' = [view EXCEPT ![e][op[e].slot] = op[e].value]
        /\ \A f \in alive : block[f] = block[e] => f = e
    BY <1>8 DEF Fill, PcInv, SoleInv, Fills, Pointer
  <2>b. /\ heap[block[e]] = view[e] /\ block[e] \in Blocks
        /\ view[e] \in Contents
    BY <2>a DEF DataInv
  <2>c. /\ heap'[block[e]] = [view[e] EXCEPT ![op[e].slot] = op[e].value]
        /\ view'[e] = [view[e] EXCEPT ![op[e].slot] = op[e].value]
        /\ \A b \in Blocks : b # block[e] => heap'[b] = heap[b]
        /\ \A f \in Executors : f # e => view'[f] = view[f]
    BY <2>a, <2>b
  <2>d. [view[e] EXCEPT ![op[e].slot] = op[e].value] \in Contents
    BY <2>a, <2>b DEF Contents
  <2>e. /\ heap' \in [Blocks -> Contents \cup {Freed}]
        /\ view' \in [Executors -> Contents]
    BY <2>a, <2>b, <2>c, <2>d
  <2>1. TypeOK'
    BY <1>8, <2>a, <2>b, <2>c, <2>e DEF Fill
  <2>2. PointerInv'
    BY <1>8, <2>a, <2>b, <2>c, <2>e DEF Fill, PointerInv
  <2>3. DataInv'
    BY <1>8, <2>a, <2>b, <2>c, <2>e DEF Fill, DataInv
  <2>4. PcInv'
    BY <1>8, <2>a, <2>b, <2>c, <2>e DEF Fill, PcInv
  <2>5. SoleInv'
    BY <1>8, <2>a, <2>b, <2>c, <2>e DEF Fill, SoleInv
  <2>6. FreshInv'
    BY <1>8, <2>a, <2>b, <2>c, <2>e DEF Fill, FreshInv, PcInv
  <2> QED
    BY <2>1, <2>2, <2>3, <2>4, <2>5, <2>6
<1>9. ASSUME NEW e \in Executors, Expose(e)
       PROVE  IInv'
  <2>1. TypeOK'
    BY <1>9 DEF Expose
  <2>2. PointerInv'
    BY <1>9 DEF Expose, PointerInv
  <2>3. DataInv'
    BY <1>9 DEF Expose, DataInv
  <2>4. PcInv'
    BY <1>9 DEF Expose, PcInv
  <2>5. SoleInv'
    BY <1>9 DEF Expose, SoleInv
  <2>6. FreshInv'
    BY <1>9 DEF Expose, FreshInv
  <2> QED
    BY <2>1, <2>2, <2>3, <2>4, <2>5, <2>6
<1>10. ASSUME NEW e \in Executors, NEW s \in Slots, NEW v \in Values,
              WriteThrough(e, s, v)
       PROVE  IInv'
  <2>a. /\ e \in alive /\ s \in Slots /\ v \in Values
        /\ heap' = [heap EXCEPT ![block[e]][s] = v]
        /\ view' = [view EXCEPT ![e][s] = v]
        /\ \A f \in alive : block[f] = block[e] => f = e
    BY <1>10 DEF WriteThrough, PcInv, SoleInv
  <2>b. /\ heap[block[e]] = view[e] /\ block[e] \in Blocks
        /\ view[e] \in Contents
    BY <2>a DEF DataInv
  <2>c. /\ heap'[block[e]] = [view[e] EXCEPT ![s] = v]
        /\ view'[e] = [view[e] EXCEPT ![s] = v]
        /\ \A b \in Blocks : b # block[e] => heap'[b] = heap[b]
        /\ \A f \in Executors : f # e => view'[f] = view[f]
    BY <2>a, <2>b
  <2>d. [view[e] EXCEPT ![s] = v] \in Contents
    BY <2>a, <2>b DEF Contents
  <2>e. /\ heap' \in [Blocks -> Contents \cup {Freed}]
        /\ view' \in [Executors -> Contents]
    BY <2>a, <2>b, <2>c, <2>d
  <2>1. TypeOK'
    BY <1>10, <2>a, <2>b, <2>c, <2>e DEF WriteThrough
  <2>2. PointerInv'
    BY <1>10, <2>a, <2>b, <2>c, <2>e DEF WriteThrough, PointerInv
  <2>3. DataInv'
    BY <1>10, <2>a, <2>b, <2>c, <2>e DEF WriteThrough, DataInv
  <2>4. PcInv'
    BY <1>10, <2>a, <2>b, <2>c, <2>e DEF WriteThrough, PcInv
  <2>5. SoleInv'
    BY <1>10, <2>a, <2>b, <2>c, <2>e DEF WriteThrough, SoleInv
  <2>6. FreshInv'
    BY <1>10, <2>a, <2>b, <2>c, <2>e DEF WriteThrough, FreshInv, PcInv
  <2> QED
    BY <2>1, <2>2, <2>3, <2>4, <2>5, <2>6
<1>11. CASE UNCHANGED vars
  BY <1>11 DEF vars, PointerInv, DataInv, PcInv, SoleInv, FreshInv
<1> QED
  BY <1>1, <1>2, <1>3, <1>4, <1>5, <1>6, <1>7, <1>8, <1>9, <1>10, <1>11 DEF Next

(* The first executor starts in the invariant. *)
LEMMA InitIInv == Init => IInv
<1> SUFFICES ASSUME Init PROVE IInv
  OBVIOUS
<1>1. Zeroed \in Contents
  BY DEF Zeroed, Contents
<1>2. TypeOK
  BY <1>1 DEF Init, TypeOK
<1>3. PointerInv /\ DataInv /\ PcInv /\ SoleInv /\ FreshInv
  BY DEF Init, PointerInv, DataInv, PcInv, SoleInv, FreshInv
<1> QED
  BY <1>2, <1>3 DEF IInv

(* The inductive invariant holds in every reachable state. *)
THEOREM Invariance == Spec => []IInv
  BY InitIInv, NextIInv, PTL DEF Spec

(* Every executor's pointers stay inside live blocks. *)
THEOREM TypeCorrect == Spec => []TypeOK
<1>1. IInv => TypeOK
  BY DEF IInv
<1> QED
  BY Invariance, <1>1, PTL

(* An executor evaluates on exactly the data it was given. *)
THEOREM DataIsIsolated == Spec => []Isolation
<1>1. IInv => Isolation
  BY DEF IInv, PointerInv, DataInv, Isolation
<1> QED
  BY Invariance, <1>1, PTL

(* A pointer handed out by value_ptr never dangles and never reaches the     *)
(* data of another executor.                                                *)
THEOREM PointersStayPinned == Spec => PointersPinned
<1>1. ASSUME IInv, IInv', [Next]_vars, NEW e \in alive \cap alive', exposed[e]
      PROVE  block'[e] = block[e] /\ exposed'[e]
  <2> USE DEF IInv, TypeOK
  <2>1. ASSUME NEW src \in Executors, NEW g \in Executors, Clone(src, g)
        PROVE  block'[e] = block[e] /\ exposed'[e]
    BY <1>1, <2>1 DEF Clone, Bind
  <2>2. ASSUME NEW g \in Executors, Destroy(g)
        PROVE  block'[e] = block[e] /\ exposed'[e]
    BY <1>1, <2>2 DEF Destroy, Bind
  <2>3. ASSUME NEW g \in Executors, NEW o \in Fills \cup {Pointer}, Call(g, o)
        PROVE  block'[e] = block[e] /\ exposed'[e]
    BY <1>1, <2>3 DEF Call
  <2>4. ASSUME NEW g \in Executors, DetachCheck(g)
        PROVE  block'[e] = block[e] /\ exposed'[e]
    BY <1>1, <2>4 DEF DetachCheck
  <2>5. ASSUME NEW g \in Executors, DetachCopy(g)
        PROVE  block'[e] = block[e] /\ exposed'[e]
    BY <1>1, <2>5 DEF DetachCopy
  <2>6. ASSUME NEW g \in Executors, DetachFails(g)
        PROVE  block'[e] = block[e] /\ exposed'[e]
    BY <1>1, <2>6 DEF DetachFails
  <2>7. ASSUME NEW g \in Executors, DetachSwap(g)
        PROVE  block'[e] = block[e] /\ exposed'[e]
    BY <1>1, <2>7 DEF DetachSwap, Bind, PcInv
  <2>8. ASSUME NEW g \in Executors, Fill(g)
        PROVE  block'[e] = block[e] /\ exposed'[e]
    BY <1>1, <2>8 DEF Fill
  <2>9. ASSUME NEW g \in Executors, Expose(g)
        PROVE  block'[e] = block[e] /\ exposed'[e]
    BY <1>1, <2>9 DEF Expose
  <2>10. ASSUME NEW g \in Executors, NEW s \in Slots, NEW v \in Values,
               WriteThrough(g, s, v)
        PROVE  block'[e] = block[e] /\ exposed'[e]
    BY <1>1, <2>10 DEF WriteThrough
  <2>11. CASE UNCHANGED vars
    BY <1>1, <2>11 DEF vars
  <2> QED
    BY <1>1, <2>1, <2>2, <2>3, <2>4, <2>5, <2>6, <2>7, <2>8, <2>9, <2>10,
       <2>11 DEF Next
<1>2. ASSUME IInv, IInv', [Next]_vars, NEW e \in alive \cap alive', exposed[e]
      PROVE  /\ block'[e] = block[e]
             /\ {f \in alive' : block'[f] = block'[e]} = {e}
  BY <1>1, <1>2 DEF IInv, SoleInv
<1>3. IInv /\ IInv' /\ [Next]_vars =>
        [\A e \in alive \cap alive' : exposed[e] =>
           /\ block'[e] = block[e]
           /\ {f \in alive' : block'[f] = block'[e]} = {e}]_vars
  BY <1>2
<1> QED
  BY Invariance, <1>3, PTL DEF Spec, PointersPinned

(* No block changes under an executor that shares it. *)
THEOREM SharedBlocksAreReadOnly == Spec => NoSharedWrite
<1>1. ASSUME IInv, [Next]_vars, NEW e \in alive,
             NEW h \in alive, h # e, block[h] = block[e]
      PROVE  heap'[block[e]] = heap[block[e]]
  <2> USE DEF IInv, TypeOK
  <2>1. ASSUME NEW src \in Executors, NEW g \in Executors, Clone(src, g)
        PROVE  heap'[block[e]] = heap[block[e]]
    <3>1. CASE exposed[src]
      <4>1. PICK b \in Blocks :
            Free(b) /\ heap' = [heap EXCEPT ![b] = heap[block[src]]]
        BY <2>1, <3>1 DEF Clone
      <4> QED
        BY <1>1, <4>1, FreeNotUsed
    <3>2. CASE ~exposed[src]
      BY <2>1, <3>2 DEF Clone
    <3> QED
      BY <3>1, <3>2
  <2>2. ASSUME NEW g \in Executors, Destroy(g)
        PROVE  heap'[block[e]] = heap[block[e]]
    <3>1. g \in alive /\ heap' = Released(g)
      BY <1>1, <2>2 DEF Destroy, PcInv
    <3> QED
      BY <1>1, <3>1, ReleasedHeap
  <2>3. ASSUME NEW g \in Executors, NEW o \in Fills \cup {Pointer}, Call(g, o)
        PROVE  heap'[block[e]] = heap[block[e]]
    BY <2>3 DEF Call
  <2>4. ASSUME NEW g \in Executors, DetachCheck(g)
        PROVE  heap'[block[e]] = heap[block[e]]
    BY <2>4 DEF DetachCheck
  <2>5. ASSUME NEW g \in Executors, DetachCopy(g)
        PROVE  heap'[block[e]] = heap[block[e]]
    <3>1. PICK b \in Blocks :
            Free(b) /\ heap' = [heap EXCEPT ![b] = heap[block[g]]]
      BY <2>5 DEF DetachCopy
    <3> QED
      BY <1>1, <3>1, FreeNotUsed
  <2>6. ASSUME NEW g \in Executors, DetachFails(g)
        PROVE  heap'[block[e]] = heap[block[e]]
    BY <2>6 DEF DetachFails
  <2>7. ASSUME NEW g \in Executors, DetachSwap(g)
        PROVE  heap'[block[e]] = heap[block[e]]
    <3>1. g \in alive /\ heap' = Released(g)
      BY <1>1, <2>7 DEF DetachSwap, PcInv
    <3> QED
      BY <1>1, <3>1, ReleasedHeap
  <2>8. ASSUME NEW g \in Executors, Fill(g)
        PROVE  heap'[block[e]] = heap[block[e]]
    <3>1. /\ g \in alive /\ block[e] # block[g]
          /\ \A b \in Blocks : b # block[g] => heap'[b] = heap[b]
      BY <1>1, <2>8 DEF Fill, PcInv, SoleInv
    <3> QED
      BY <1>1, <3>1
  <2>9. ASSUME NEW g \in Executors, Expose(g)
        PROVE  heap'[block[e]] = heap[block[e]]
    BY <2>9 DEF Expose
  <2>10. ASSUME NEW g \in Executors, NEW s \in Slots, NEW v \in Values,
               WriteThrough(g, s, v)
        PROVE  heap'[block[e]] = heap[block[e]]
    <3>1. /\ g \in alive /\ block[e] # block[g]
          /\ \A b \in Blocks : b # block[g] => heap'[b] = heap[b]
      BY <1>1, <2>10 DEF WriteThrough, PcInv, SoleInv
    <3> QED
      BY <1>1, <3>1
  <2>11. CASE UNCHANGED vars
    BY <1>1, <2>11 DEF vars
  <2> QED
    BY <1>1, <2>1, <2>2, <2>3, <2>4, <2>5, <2>6, <2>7, <2>8, <2>9, <2>10,
       <2>11 DEF Next
<1>2. IInv /\ [Next]_vars =>
        [\A e \in alive : (\E f \in alive : f # e /\ block[f] = block[e])
            => heap'[block[e]] = heap[block[e]]]_vars
  BY <1>1
<1> QED
  BY Invariance, <1>2, PTL DEF Spec, NoSharedWrite
-----------------------------------------------------------------------------
(* The mapping of ImplementsPrivateData: the private data of the executors,  *)
(* and those whose data was handed out.                                     *)
Mapped == [e \in Executors |-> IF e \in alive THEN Reads(e) ELSE Zeroed]
Given == [e \in Executors |-> IF e \in alive THEN view[e] ELSE Zeroed]
Shown == {e \in alive : exposed[e]}

(* In the invariant, what the pointers lead to is what was given. *)
LEMMA MappedIsGiven == IInv => Mapped = Given
  BY DEF IInv, PointerInv, DataInv, Mapped, Given, Reads

(* Every step of the executors is one step on private data, or none. *)
LEMMA PrivateStep ==
  ASSUME IInv, IInv', [Next]_vars
  PROVE  [Private!Next]_(Private!vars)
<1>a. Mapped = Given /\ Mapped' = Given'
  BY MappedIsGiven DEF IInv, PointerInv, DataInv, Mapped, Given, Reads
<1>b. /\ alive \subseteq Executors /\ alive' \subseteq Executors
      /\ exposed \in [Executors -> BOOLEAN]
      /\ view \in [Executors -> Contents]
      /\ view' \in [Executors -> Contents]
  BY DEF IInv, TypeOK
<1>n. /\ \A src, e \in Executors : Private!Copy(src, e) => Private!Next
      /\ \A e \in Executors : Private!Drop(e) \/ Private!Show(e) => Private!Next
      /\ \A e \in Executors, s \in Slots, v \in Values :
            Private!Set(e, s, v) => Private!Next
  BY DEF Private!Next
<1>s. ASSUME alive' = alive, exposed' = exposed, view' = view
      PROVE  UNCHANGED Private!vars
  <2>1. Mapped' = Mapped /\ Shown' = Shown
    BY <1>a, <1>s DEF Given, Shown
  <2> QED
    BY <1>s, <2>1 DEF Private!vars, Mapped, Shown
<1>1. ASSUME NEW src \in Executors, NEW e \in Executors, Clone(src, e)
      PROVE  Private!Next
  <2>1. /\ src \in alive /\ e \notin alive /\ alive' = alive \cup {e}
        /\ exposed' = [exposed EXCEPT ![e] = FALSE]
        /\ view' = [view EXCEPT ![e] = view[src]]
    BY <1>1 DEF Clone
  <2>2. Given' = [Given EXCEPT ![e] = Given[src]]
    BY <1>b, <2>1 DEF Given
  <2>3. Shown' = Shown
    BY <1>b, <2>1 DEF Shown
  <2>4. Private!Copy(src, e)
    BY <1>a, <2>1, <2>2, <2>3 DEF Private!Copy, Mapped, Shown
  <2> QED
    BY <1>n, <2>4
<1>2. ASSUME NEW e \in Executors, Destroy(e)
      PROVE  Private!Next
  <2>1. /\ e \in alive /\ alive' = alive \ {e}
        /\ exposed' = [exposed EXCEPT ![e] = FALSE]
        /\ view' = [view EXCEPT ![e] = Zeroed]
    BY <1>2 DEF Destroy
  <2>2. Given' = [Given EXCEPT ![e] = Zeroed]
    BY <1>b, <2>1 DEF Given
  <2>3. Shown' = Shown \ {e}
    BY <1>b, <2>1 DEF Shown
  <2>4. Private!Drop(e)
    BY <1>a, <2>1, <2>2, <2>3
    DEF Private!Drop, Private!Blank, Zeroed, Mapped, Shown
  <2> QED
    BY <1>n, <2>4
<1>3. ASSUME NEW e \in Executors, NEW o \in Fills \cup {Pointer}, Call(e, o)
      PROVE  UNCHANGED Private!vars
  BY <1>3, <1>s DEF Call
<1>4. ASSUME NEW e \in Executors, DetachCheck(e)
      PROVE  UNCHANGED Private!vars
  BY <1>4, <1>s DEF DetachCheck
<1>5. ASSUME NEW e \in Executors, DetachCopy(e)
      PROVE  UNCHANGED Private!vars
  BY <1>5, <1>s DEF DetachCopy
<1>6. ASSUME NEW e \in Executors, DetachFails(e)
      PROVE  UNCHANGED Private!vars
  BY <1>6, <1>s DEF DetachFails
<1>7. ASSUME NEW e \in Executors, DetachSwap(e)
      PROVE  UNCHANGED Private!vars
  BY <1>7, <1>s DEF DetachSwap
<1>8. ASSUME NEW e \in alive, NEW s \in Slots, NEW v \in Values,
             alive' = alive, exposed' = exposed,
             view' = [view EXCEPT ![e][s] = v]
      PROVE  Private!Next
  <2>1. Given' = [Given EXCEPT ![e][s] = v]
    BY <1>b, <1>8 DEF Given
  <2>2. Shown' = Shown
    BY <1>8 DEF Shown
  <2>3. Private!Set(e, s, v)
    BY <1>a, <1>8, <2>1, <2>2 DEF Private!Set, Mapped, Shown
  <2> QED
    BY <1>b, <1>n, <2>3
<1>9. ASSUME NEW e \in Executors, Fill(e)
      PROVE  Private!Next
  <2>1. /\ e \in alive /\ op[e].slot \in Slots /\ op[e].value \in Values
    BY <1>9 DEF Fill, IInv, PcInv, Fills, Pointer
  <2> QED
    BY <1>8, <1>9, <2>1 DEF Fill
<1>10. ASSUME NEW e \in Executors, Expose(e)
       PROVE  Private!Next
  <2>1. /\ e \in alive /\ alive' = alive /\ view' = view
        /\ exposed' = [exposed EXCEPT ![e] = TRUE]
    BY <1>10 DEF Expose, IInv, PcInv
  <2>2. Given' = Given
    BY <2>1 DEF Given
  <2>3. Shown' = Shown \cup {e}
    BY <1>b, <2>1 DEF Shown
  <2>4. Private!Show(e)
    BY <1>a, <2>1, <2>2, <2>3 DEF Private!Show, Mapped, Shown
  <2> QED
    BY <1>n, <2>4
<1>11. ASSUME NEW e \in Executors, NEW s \in Slots, NEW v \in Values,
              WriteThrough(e, s, v)
       PROVE  Private!Next
  BY <1>8, <1>11 DEF WriteThrough
<1>12. CASE UNCHANGED vars
  BY <1>12, <1>s DEF vars
<1> QED
  BY <1>1, <1>2, <1>3, <1>4, <1>5, <1>6, <1>7, <1>9, <1>10, <1>11, <1>12
  DEF Next

(* The first executor's zeroed data is its private data. *)
LEMMA PrivateInit == Init => Private!Init
<1> SUFFICES ASSUME Init PROVE Private!Init
  OBVIOUS
<1>1. IInv
  BY InitIInv
<1>2. PICK e \in Executors : alive = {e} /\ view = [f \in Executors |-> Zeroed]
                             /\ exposed = [f \in Executors |-> FALSE]
  BY DEF Init
<1>3. Given = [f \in Executors |-> Zeroed] /\ Shown = {}
  BY <1>2 DEF Given, Shown
<1>4. Mapped = [f \in Executors |-> Zeroed]
  BY <1>1, <1>3, MappedIsGiven
<1> QED
  BY <1>2, <1>3, <1>4 DEF Private!Init, Private!Blank, Zeroed, Mapped, Shown

(* Sharing, detaching and escaping pointers are invisible: the executors     *)
(* behave as if each had its own data, for any number of them.              *)
THEOREM SharingIsInvisible == Spec => ImplementsPrivateData
<1>1. IInv /\ IInv' /\ [Next]_vars => [Private!Next]_(Private!vars)
  BY PrivateStep
<1> QED
  BY <1>1, PrivateInit, Invariance, PTL
  DEF Spec, ImplementsPrivateData, Private!Spec
=============================================================================

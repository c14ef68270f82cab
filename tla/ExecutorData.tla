---------------------------- MODULE ExecutorData ----------------------------
(***************************************************************************)
(* How executors share the values of unwritten data slots: the copy        *)
(* constructor, detach_data_, value_ptr and set_values of Executor in      *)
(* runtime/src/executor.cpp.                                               *)
(*                                                                         *)
(* A block is one std::vector<double> behind the shared_ptr data_.  Every  *)
(* executor also holds raw pointers into its block: the input pointers of  *)
(* its bound contexts (ctx_) and those of its fused micro-operations       *)
(* (micro_).  An executor is used by one thread at a time, different       *)
(* executors by different threads, so the operations of two executors      *)
(* interleave step by step and those of one executor do not.               *)
(***************************************************************************)
EXTENDS Integers, FiniteSets

CONSTANTS Executors,  \* executor objects
          Blocks,     \* data blocks; a new one is any that is free
          Slots,      \* data slots of the model's graph
          Values,     \* what a data slot may hold
          Zero,       \* what bind_ fills a fresh block with
          Junk,       \* what a slot of a freed block holds
          NoBlock     \* a pointer of an executor that does not exist

ASSUME ZeroAssumption == Zero \in Values
ASSUME JunkAssumption == Junk \notin Values
ASSUME NoBlockAssumption == NoBlock \notin Blocks
ASSUME SlotsAssumption == Slots # {}

VARIABLES
  alive,     \* the constructed executors
  block,     \* data_ of each executor
  bound,     \* the block its contexts' input pointers point into
  micro,     \* the block its micro-operations point into
  exposed,   \* data_pointer_exposed_
  heap,      \* the contents of the blocks
  pc,        \* where an operation on each executor is
  op,        \* the operation: a fill of one slot, or a request for a pointer
  fresh,     \* detach_data_'s local "replacement"
  view       \* history: the data each executor was given

vars == <<alive, block, bound, micro, exposed, heap, pc, op, fresh, view>>

Fills == [kind : {"fill"}, slot : Slots, value : Values]
NoOp == [kind |-> "none"]
Pointer == [kind |-> "pointer"]
Zeroed == [s \in Slots |-> Zero]
Freed == [s \in Slots |-> Junk]
Contents == [Slots -> Values]

TypeOK ==
  /\ alive \subseteq Executors
  /\ block \in [Executors -> Blocks \cup {NoBlock}]
  /\ bound \in [Executors -> Blocks \cup {NoBlock}]
  /\ micro \in [Executors -> Blocks \cup {NoBlock}]
  /\ exposed \in [Executors -> BOOLEAN]
  /\ heap \in [Blocks -> Contents \cup {Freed}]
  /\ pc \in [Executors -> {"idle", "detach", "copy", "swap", "write"}]
  /\ op \in [Executors -> Fills \cup {NoOp, Pointer}]
  /\ fresh \in [Executors -> Blocks \cup {NoBlock}]
  /\ view \in [Executors -> Contents]
  /\ \A e \in alive : block[e] \in Blocks

(* The executors whose data_ is b: use_count() is how many they are. *)
Owners(b) == {e \in alive : block[e] = b}

Free(b) == heap[b] = Freed

(* Executor(Graph): one executor, its data zeroed by bind_. *)
Init ==
  \E e0 \in Executors, b0 \in Blocks :
    /\ alive = {e0}
    /\ block = [e \in Executors |-> IF e = e0 THEN b0 ELSE NoBlock]
    /\ bound = block /\ micro = block
    /\ exposed = [e \in Executors |-> FALSE]
    /\ heap = [b \in Blocks |-> IF b = b0 THEN Zeroed ELSE Freed]
    /\ pc = [e \in Executors |-> "idle"]
    /\ op = [e \in Executors |-> NoOp]
    /\ fresh = [e \in Executors |-> NoBlock]
    /\ view = [e \in Executors |-> Zeroed]

-----------------------------------------------------------------------------
(* What bind_ makes of an executor e whose data_ is b. *)
Bind(e, b) ==
  /\ block' = [block EXCEPT ![e] = b]
  /\ bound' = [bound EXCEPT ![e] = b]
  /\ micro' = [micro EXCEPT ![e] = b]

(* Fault variant: a copy shares data_ even after a pointer escaped. *)
CloneShares(src, e) ==
  /\ src \in alive /\ pc[src] = "idle" /\ e \notin alive
  /\ Bind(e, block[src]) /\ UNCHANGED heap
  /\ alive' = alive \cup {e}
  /\ exposed' = [exposed EXCEPT ![e] = FALSE]
  /\ view' = [view EXCEPT ![e] = view[src]]
  /\ UNCHANGED <<pc, op, fresh>>

(* Executor(const Executor&): share the block, or copy it once a writable    *)
(* pointer into it has escaped.                                             *)
Clone(src, e) ==
  /\ src \in alive /\ pc[src] = "idle" /\ e \notin alive
  /\ IF exposed[src]
     THEN \E b \in Blocks : /\ Free(b)
                            /\ heap' = [heap EXCEPT ![b] = heap[block[src]]]
                            /\ Bind(e, b)
     ELSE Bind(e, block[src]) /\ UNCHANGED heap
  /\ alive' = alive \cup {e}
  /\ exposed' = [exposed EXCEPT ![e] = FALSE]
  /\ view' = [view EXCEPT ![e] = view[src]]
  /\ UNCHANGED <<pc, op, fresh>>

(* Fault variant: a block is freed with the first executor that drops it. *)
ReleasedEarly(e) == [heap EXCEPT ![block[e]] = Freed]

(* The heap once e has dropped its reference to its block. *)
Released(e) == IF Owners(block[e]) = {e} THEN [heap EXCEPT ![block[e]] = Freed]
               ELSE heap

(* ~Executor; the model stays with at least one executor. *)
Destroy(e) ==
  /\ e \in alive /\ pc[e] = "idle" /\ alive # {e}
  /\ alive' = alive \ {e}
  /\ Bind(e, NoBlock)
  /\ heap' = Released(e)
  /\ exposed' = [exposed EXCEPT ![e] = FALSE]
  /\ view' = [view EXCEPT ![e] = Zeroed]
  /\ UNCHANGED <<pc, op, fresh>>

(* set_values or value_ptr on a data slot calls detach_data_. *)
Call(e, o) ==
  /\ e \in alive /\ pc[e] = "idle"
  /\ pc' = [pc EXCEPT ![e] = "detach"]
  /\ op' = [op EXCEPT ![e] = o]
  /\ UNCHANGED <<alive, block, bound, micro, exposed, heap, fresh, view>>

(* Fault variant: an executor writes a block one other executor still has. *)
DetachCheckLoose(e) ==
  /\ pc[e] = "detach"
  /\ pc' = [pc EXCEPT ![e] = IF Cardinality(Owners(block[e])) <= 2
                             THEN "write" ELSE "copy"]
  /\ UNCHANGED <<alive, block, bound, micro, exposed, heap, op, fresh, view>>

(* detach_data_: if (data_.use_count() == 1) return *)
DetachCheck(e) ==
  /\ pc[e] = "detach"
  /\ pc' = [pc EXCEPT ![e] = IF Owners(block[e]) = {e} THEN "write" ELSE "copy"]
  /\ UNCHANGED <<alive, block, bound, micro, exposed, heap, op, fresh, view>>

(* detach_data_: replacement = make_shared of the current block *)
DetachCopy(e) ==
  /\ pc[e] = "copy"
  /\ \E b \in Blocks :
       /\ Free(b)
       /\ heap' = [heap EXCEPT ![b] = heap[block[e]]]
       /\ fresh' = [fresh EXCEPT ![e] = b]
  /\ pc' = [pc EXCEPT ![e] = "swap"]
  /\ UNCHANGED <<alive, block, bound, micro, exposed, op, view>>

(* make_shared throws: nothing of the executor has changed. *)
DetachFails(e) ==
  /\ pc[e] = "copy"
  /\ pc' = [pc EXCEPT ![e] = "idle"]
  /\ op' = [op EXCEPT ![e] = NoOp]
  /\ UNCHANGED <<alive, block, bound, micro, exposed, heap, fresh, view>>

(* Fault variant: the micro-operations keep their old pointers. *)
DetachSwapStale(e) ==
  /\ pc[e] = "swap"
  /\ block' = [block EXCEPT ![e] = fresh[e]]
  /\ bound' = [bound EXCEPT ![e] = fresh[e]]
  /\ heap' = Released(e)
  /\ fresh' = [fresh EXCEPT ![e] = NoBlock]
  /\ pc' = [pc EXCEPT ![e] = "write"]
  /\ UNCHANGED <<alive, micro, exposed, op, view>>

(* detach_data_: data_ is replaced, the contexts' input pointers are         *)
(* rebound and refresh_micros_ rebuilds the micro-operations from them.      *)
DetachSwap(e) ==
  /\ pc[e] = "swap"
  /\ Bind(e, fresh[e])
  /\ heap' = Released(e)
  /\ fresh' = [fresh EXCEPT ![e] = NoBlock]
  /\ pc' = [pc EXCEPT ![e] = "write"]
  /\ UNCHANGED <<alive, exposed, op, view>>

(* set_values copies its argument in. *)
Fill(e) ==
  /\ pc[e] = "write" /\ op[e].kind = "fill"
  /\ heap' = [heap EXCEPT ![block[e]][op[e].slot] = op[e].value]
  /\ view' = [view EXCEPT ![e][op[e].slot] = op[e].value]
  /\ pc' = [pc EXCEPT ![e] = "idle"]
  /\ op' = [op EXCEPT ![e] = NoOp]
  /\ UNCHANGED <<alive, block, bound, micro, exposed, fresh>>

(* value_ptr marks the data exposed and returns a pointer into it. *)
Expose(e) ==
  /\ pc[e] = "write" /\ op[e].kind = "pointer"
  /\ exposed' = [exposed EXCEPT ![e] = TRUE]
  /\ pc' = [pc EXCEPT ![e] = "idle"]
  /\ op' = [op EXCEPT ![e] = NoOp]
  /\ UNCHANGED <<alive, block, bound, micro, heap, fresh, view>>

(* The holder of a pointer that value_ptr returned writes through it.  The   *)
(* pointer stays what it was; where it points is pinned by PointersPinned.   *)
WriteThrough(e, s, v) ==
  /\ e \in alive /\ exposed[e] /\ pc[e] = "idle"
  /\ heap' = [heap EXCEPT ![block[e]][s] = v]
  /\ view' = [view EXCEPT ![e][s] = v]
  /\ UNCHANGED <<alive, block, bound, micro, exposed, pc, op, fresh>>

Next ==
  \/ \E src, e \in Executors : Clone(src, e)
  \/ \E e \in Executors :
       \/ Destroy(e) \/ DetachCheck(e) \/ DetachCopy(e) \/ DetachFails(e)
       \/ DetachSwap(e) \/ Fill(e) \/ Expose(e)
       \/ \E o \in Fills \cup {Pointer} : Call(e, o)
       \/ \E s \in Slots, v \in Values : WriteThrough(e, s, v)

Spec == Init /\ [][Next]_vars

-----------------------------------------------------------------------------
(* Whatever its clones do, an executor between operations evaluates on       *)
(* exactly the data it was given, through its contexts, its fused            *)
(* micro-operations and data_ alike.                                        *)
Isolation ==
  /\ TypeOK
  /\ \A e \in alive : pc[e] = "idle" =>
       /\ heap[block[e]] = view[e]
       /\ heap[bound[e]] = view[e]
       /\ heap[micro[e]] = view[e]

(* A block is never written in place while another executor can read it. *)
NoSharedWrite ==
  [][\A e \in alive : (\E f \in alive : f # e /\ block[f] = block[e])
        => heap'[block[e]] = heap[block[e]]]_vars

(* Once value_ptr has handed out a pointer, the executor keeps that block    *)
(* for itself: later clones copy it, so the pointer never dangles and never  *)
(* reaches another executor's data.                                         *)
PointersPinned ==
  [][\A e \in alive \cap alive' : exposed[e] =>
       /\ block'[e] = block[e]
       /\ {f \in alive' : block'[f] = block'[e]} = {e}]_vars
-----------------------------------------------------------------------------
(* What e evaluates on: the block its contexts' input pointers lead to. *)
Reads(e) == heap[bound[e]]

Private == INSTANCE PrivateData WITH
  data  <- [e \in Executors |-> IF e \in alive THEN Reads(e) ELSE Zeroed],
  shown <- {e \in alive : exposed[e]}

(* Sharing blocks until a write, and the pointers value_ptr hands out, are   *)
(* invisible: what executors evaluate on changes as if each had its own      *)
(* data from the start, whoever copies, detaches, fails or dies meanwhile.   *)
ImplementsPrivateData == Private!Spec
=============================================================================

---------------------------- MODULE PrivateData ----------------------------
(***************************************************************************)
(* What copying an executor promises its caller, without shared blocks,    *)
(* reference counts, detaching or pointers: each executor has its own data,*)
(* a copy starts with the values of the original, and from then on each    *)
(* changes only by what is done to it.  Data that was handed out is the    *)
(* data its executor works on for the rest of its life.                    *)
(***************************************************************************)

CONSTANTS Executors, Slots, Values, Zero

VARIABLES alive,   \* the constructed executors
          data,    \* what each executor evaluates on
          shown    \* the executors whose caller may write the data directly

vars == <<alive, data, shown>>

Blank == [s \in Slots |-> Zero]

Init == \E e \in Executors :
          /\ alive = {e} /\ shown = {}
          /\ data = [f \in Executors |-> Blank]

Copy(src, e) == /\ src \in alive /\ e \notin alive
                /\ alive' = alive \cup {e}
                /\ data' = [data EXCEPT ![e] = data[src]]
                /\ UNCHANGED shown

Drop(e) == /\ e \in alive
           /\ alive' = alive \ {e}
           /\ data' = [data EXCEPT ![e] = Blank]
           /\ shown' = shown \ {e}

Set(e, s, v) == /\ e \in alive
                /\ data' = [data EXCEPT ![e][s] = v]
                /\ UNCHANGED <<alive, shown>>

Show(e) == /\ e \in alive
           /\ shown' = shown \cup {e}
           /\ UNCHANGED <<alive, data>>

Next == \E e \in Executors :
          \/ \E src \in Executors : Copy(src, e)
          \/ Drop(e) \/ Show(e)
          \/ \E s \in Slots, v \in Values : Set(e, s, v)

Spec == Init /\ [][Next]_vars
=============================================================================

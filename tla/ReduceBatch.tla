---------------------------- MODULE ReduceBatch ----------------------------
(***************************************************************************)
(* What ReduceExecutionContext::run promises its caller, without threads,  *)
(* locks or generations: one caller at a time holds the context, each job  *)
(* of its batch is done once, in any order, and the call ends with the     *)
(* outcome a serial loop over the batch's failures would report.           *)
(***************************************************************************)
EXTENDS Integers

CONSTANTS Callers, Counts, NoCaller

VARIABLES holder,   \* the caller inside run(), or NoCaller
          open,     \* its batch has been set up
          todo,     \* the jobs not done yet
          failed,   \* the jobs that threw
          outcome   \* how each caller's last call ended

vars == <<holder, open, todo, failed, outcome>>

Init == /\ holder = NoCaller /\ open = FALSE /\ todo = {} /\ failed = {}
        /\ outcome = [c \in Callers |-> [kind |-> "none", at |-> 0]]

Acquire(c) == /\ holder = NoCaller
              /\ holder' = c
              /\ UNCHANGED <<open, todo, failed, outcome>>

Refuse(c) == /\ holder \notin {NoCaller, c}
             /\ outcome' = [outcome EXCEPT
                               ![c] = [kind |-> "refused", at |-> 0]]
             /\ UNCHANGED <<holder, open, todo, failed>>

Open(n) == /\ holder # NoCaller /\ ~open
           /\ open' = TRUE /\ todo' = 0 .. n - 1 /\ failed' = {}
           /\ UNCHANGED <<holder, outcome>>

Do(i, ok) == /\ open /\ i \in todo
             /\ todo' = todo \ {i}
             /\ failed' = IF ok THEN failed ELSE failed \cup {i}
             /\ UNCHANGED <<holder, open, outcome>>

Verdict == IF failed = {} THEN [kind |-> "ok", at |-> 0]
           ELSE [kind |-> "error",
                 at |-> CHOOSE i \in failed : \A j \in failed : i <= j]

Close == /\ open /\ todo = {}
         /\ outcome' = [outcome EXCEPT ![holder] = Verdict]
         /\ holder' = NoCaller /\ open' = FALSE
         /\ UNCHANGED <<todo, failed>>

Next == \/ \E c \in Callers : Acquire(c) \/ Refuse(c)
        \/ \E n \in Counts : Open(n)
        \/ \E i \in todo, ok \in BOOLEAN : Do(i, ok)
        \/ Close

Spec == Init /\ [][Next]_vars
=============================================================================

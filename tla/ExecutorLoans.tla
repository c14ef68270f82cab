--------------------------- MODULE ExecutorLoans ---------------------------
(***************************************************************************)
(* What the executor and tape pools promise the threads that evaluate,     *)
(* without locks, leases, counts or thread-local pointers: an executor is  *)
(* on its pool's shelf or lent to one thread, and goes back to the shelf it*)
(* was lent from; a tape serves one thread at a time, for as long as that  *)
(* thread has an executor, and leaves it empty.                            *)
(***************************************************************************)

CONSTANTS Threads, Equipped, Pools, Executors, Tapes, None

VARIABLES shelf,    \* the executors each pool has in
          lent,     \* <<thread, pool, executor>> for each one that is out
          tape,     \* the tape each thread borrowed, or None
          marked    \* the tapes with something recorded on them

vars == <<shelf, lent, tape, marked>>

Init == /\ shelf = [p \in Pools |-> {}] /\ lent = {}
        /\ tape = [t \in Threads |-> None] /\ marked = {}

Known(e) == \/ \E p \in Pools : e \in shelf[p]
            \/ \E l \in lent : l[3] = e
Works(t) == \E l \in lent : l[1] = t

Make(t, p, e) == /\ ~Known(e)
                 /\ lent' = lent \cup {<<t, p, e>>}
                 /\ UNCHANGED <<shelf, tape, marked>>

Lend(t, p, e) == /\ e \in shelf[p]
                 /\ shelf' = [shelf EXCEPT ![p] = @ \ {e}]
                 /\ lent' = lent \cup {<<t, p, e>>}
                 /\ UNCHANGED <<tape, marked>>

Return(t, p, e) == /\ <<t, p, e>> \in lent
                   /\ lent' = lent \ {<<t, p, e>>}
                   /\ shelf' = [shelf EXCEPT ![p] = @ \cup {e}]
                   /\ UNCHANGED <<tape, marked>>

Scrap(t, p, e) == /\ <<t, p, e>> \in lent
                  /\ lent' = lent \ {<<t, p, e>>}
                  /\ UNCHANGED <<shelf, tape, marked>>

TakeTape(t, x) == /\ t \notin Equipped /\ Works(t) /\ tape[t] = None
                  /\ x \notin marked /\ \A u \in Threads : tape[u] # x
                  /\ tape' = [tape EXCEPT ![t] = x]
                  /\ UNCHANGED <<shelf, lent, marked>>

Record(t) == /\ Works(t) /\ tape[t] # None
             /\ marked' = marked \cup {tape[t]}
             /\ UNCHANGED <<shelf, lent, tape>>

DropTape(t) == /\ ~Works(t) /\ tape[t] # None
               /\ tape' = [tape EXCEPT ![t] = None]
               /\ marked' = marked \ {tape[t]}
               /\ UNCHANGED <<shelf, lent>>

Next == \E t \in Threads :
          \/ \E p \in Pools, e \in Executors :
               Make(t, p, e) \/ Lend(t, p, e) \/ Return(t, p, e) \/ Scrap(t, p, e)
          \/ \E x \in Tapes : TakeTape(t, x)
          \/ Record(t) \/ DropTape(t)

Spec == Init /\ [][Next]_vars
=============================================================================

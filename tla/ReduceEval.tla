----------------------------- MODULE ReduceEval -----------------------------
(***************************************************************************)
(* Evaluating a graph that holds a retained reduce_sum: the forward and    *)
(* backward kernels of runtime/src/reduce_sum.cpp, the entry points of     *)
(* Executor (runtime/src/executor.cpp) that the host and the child jobs    *)
(* call, the two "ready" handshakes between them, and the thread-local     *)
(* g_values_only.  The team is ReduceBatch: jobs run in any order on any   *)
(* thread and the run fails afterwards if one of them did; without a team  *)
(* they run in index order and the first failure ends the loop.            *)
(*                                                                         *)
(* Numbers are abstracted to the parameter point they were computed at.    *)
(* Names that ReduceTeam has too are told apart (EvalInit, EvalNext,       *)
(* stage, ...), so that one module can extend both.                        *)
(***************************************************************************)
EXTENDS Integers, FiniteSets

CONSTANTS NChildren,   \* retained child programs
          TeamWorkers, \* threads of the team
          Points       \* parameter points, non-zero; 0 is "computed nowhere"

ASSUME ChildrenAssumption == NChildren \in Nat \ {0}
ASSUME PointsAssumption == Points \subseteq Nat \ {0}

Children == 1 .. NChildren
Host == "host"
EvalThreads == TeamWorkers \cup {Host}
Nowhere == 0

VARIABLES
  point,       \* what params_data() holds
  stage,       \* where the host's operation is
  call,        \* the operation: its name and whether a team is installed
  todo,        \* children this run has not worked
  jobThrew,    \* a job of this run threw
  tls,         \* g_values_only of each thread
  exReady,     \* reverse_ready_ of the parent executor
  fwdAt,       \* history: the point of the parent's last reversible forward
  stateReady,  \* ReductionState::ready
  valuesOnly,  \* ReductionState::values_only
  cReady,      \* reverse_ready_ of each child executor
  cTape,       \* the point each child's reverse sweep would differentiate at
  cValue,      \* the point of each child's value
  cGrad,       \* the point of each child's gradient
  outcome      \* how the last operation ended

host == <<point, call>>
red == <<stateReady, valuesOnly>>
child == <<cReady, cTape, cValue, cGrad>>
evalVars == <<host, stage, todo, jobThrew, tls, exReady, fwdAt, red, child,
              outcome>>

Ops == {"forward", "value", "run", "gradient", "reverse"}
NoResult == [kind |-> "none", at |-> [i \in Children |-> Nowhere]]
Threw == [kind |-> "threw", at |-> [i \in Children |-> Nowhere]]
Where == Points \cup {Nowhere}

EvalTypeOK ==
  /\ point \in Points
  /\ stage \in {"idle", "forward", "jobs", "sum", "rest", "reverse", "back", "add"}
  /\ call \in [op : Ops, team : BOOLEAN]
  /\ todo \subseteq Children /\ jobThrew \in BOOLEAN
  /\ tls \in [EvalThreads -> BOOLEAN]
  /\ exReady \in BOOLEAN /\ fwdAt \in Where
  /\ stateReady \in BOOLEAN /\ valuesOnly \in BOOLEAN
  /\ cReady \in [Children -> BOOLEAN]
  /\ cTape \in [Children -> Where]
  /\ cValue \in [Children -> Where]
  /\ cGrad \in [Children -> Where]
  /\ outcome \in [kind : {"none", "threw", "value", "grad"},
                 at : [Children -> Where]]

EvalInit ==
  /\ point \in Points /\ stage = "idle"
  /\ call = [op |-> "forward", team |-> FALSE]
  /\ todo = {} /\ jobThrew = FALSE
  /\ tls = [t \in EvalThreads |-> FALSE]
  /\ exReady = FALSE /\ fwdAt = Nowhere
  /\ stateReady = FALSE /\ valuesOnly = FALSE
  /\ cReady = [i \in Children |-> FALSE]
  /\ cTape = [i \in Children |-> Nowhere]
  /\ cValue = cTape /\ cGrad = cTape
  /\ outcome = NoResult

-----------------------------------------------------------------------------
(* The host writes the parameters between two operations. *)
SetPoint(p) ==
  /\ stage = "idle"
  /\ point' = p
  /\ UNCHANGED <<call, stage, todo, jobThrew, tls, exReady, fwdAt, red, child,
                 outcome>>

(* forward, forward_value_only, gradient and run_forward_only: the guard of  *)
(* g_values_only, then reverse_ready_ is cleared.                           *)
Enter(op, team) ==
  /\ stage = "idle" /\ op # "reverse"
  /\ call' = [op |-> op, team |-> team]
  /\ tls' = [tls EXCEPT ![Host] = op = "value" \/ (op # "gradient" /\ @)]
  /\ exReady' = FALSE /\ fwdAt' = Nowhere
  /\ outcome' = NoResult
  /\ stage' = "forward"
  /\ UNCHANGED <<point, todo, jobThrew, red, child>>

(* Any exception leaves through the guards, which restore g_values_only. *)
Abort ==
  /\ tls' = [tls EXCEPT ![Host] = FALSE]
  /\ outcome' = Threw
  /\ stage' = "idle"

(* A kernel before the reduction, or after it, throws. *)
ForwardThrows ==
  /\ stage \in {"forward", "rest"}
  /\ Abort
  /\ UNCHANGED <<host, todo, jobThrew, exReady, fwdAt, red, child>>

(* forward(KernelCtx&) up to state.run *)
KernelForward ==
  /\ stage = "forward"
  /\ stateReady' = FALSE
  /\ valuesOnly' = tls[Host]
  /\ todo' = Children /\ jobThrew' = FALSE
  /\ stage' = "jobs"
  /\ UNCHANGED <<host, tls, exReady, fwdAt, child, outcome>>

(* The child a thread may take next: the team's cursor hands the jobs out in *)
(* any order, the serial loop in index order and only until one throws.      *)
Takes(t, i) ==
  /\ i \in todo
  /\ IF call.team THEN TRUE
     ELSE t = Host /\ ~jobThrew /\ \A j \in todo : i <= j

(* Fault variant: a child that is already prepared is not swept again. *)
ForwardJobSkipsPrepared(t, i, ok) ==
  /\ stage = "jobs" /\ Takes(t, i)
  /\ LET vo == valuesOnly \/ tls[t]
         redo == ~cReady[i]
     IN /\ cReady' = [cReady EXCEPT ![i] = @ \/ (ok /\ ~vo)]
        /\ cTape' = [cTape EXCEPT ![i] = IF redo /\ ok /\ ~vo THEN point ELSE @]
        /\ cValue' = [cValue EXCEPT ![i] = IF redo /\ ok THEN point ELSE @]
  /\ todo' = todo \ {i}
  /\ jobThrew' = (jobThrew \/ ~ok)
  /\ UNCHANGED <<host, stage, tls, exReady, fwdAt, red, cGrad, outcome>>

(* forward_job on thread t, with the child's forward or forward_value_only.  *)
(* The child's reverse_ready_ is cleared first and set last; a values-only   *)
(* or failed sweep leaves nothing to differentiate.                         *)
ForwardJob(t, i, ok) ==
  /\ stage = "jobs" /\ Takes(t, i)
  /\ LET vo == valuesOnly \/ tls[t]
     IN /\ cReady' = [cReady EXCEPT ![i] = ok /\ ~vo]
        /\ cTape' = [cTape EXCEPT ![i] = IF ok /\ ~vo THEN point ELSE Nowhere]
  /\ cValue' = [cValue EXCEPT ![i] = IF ok THEN point ELSE @]
  /\ todo' = todo \ {i}
  /\ jobThrew' = (jobThrew \/ ~ok)
  /\ UNCHANGED <<host, stage, tls, exReady, fwdAt, red, cGrad, outcome>>

(* state.run returns, or rethrows. *)
JobsOver == IF call.team THEN todo = {} ELSE todo = {} \/ jobThrew

(* Fault variant: run() does not rethrow a job's exception. *)
ForwardJoinSwallows ==
  /\ stage = "jobs" /\ JobsOver
  /\ stage' = "sum"
  /\ UNCHANGED <<host, todo, jobThrew, tls, exReady, fwdAt, red, child,
                 outcome>>

ForwardJoin ==
  /\ stage = "jobs" /\ JobsOver
  /\ IF jobThrew THEN Abort ELSE stage' = "sum" /\ UNCHANGED <<tls, outcome>>
  /\ UNCHANGED <<host, todo, jobThrew, exReady, fwdAt, red, child>>

(* forward(KernelCtx&) after state.run *)
KernelSum ==
  /\ stage = "sum"
  /\ stateReady' = ~valuesOnly
  /\ stage' = "rest"
  /\ UNCHANGED <<host, todo, jobThrew, tls, exReady, fwdAt, valuesOnly, child,
                 outcome>>

(* Fault variant: a values-only forward also claims to be reversible. *)
ForwardReturnsReady ==
  /\ stage = "rest"
  /\ exReady' = (call.op # "run")
  /\ fwdAt' = IF call.op # "run" THEN point ELSE Nowhere
  /\ tls' = [tls EXCEPT ![Host] = FALSE]
  /\ IF call.op = "gradient"
     THEN stage' = "reverse" /\ UNCHANGED outcome
     ELSE stage' = "idle" /\ outcome' = [kind |-> "value", at |-> cValue]
  /\ UNCHANGED <<host, todo, jobThrew, red, child>>

(* The forward sweep ends.  run_forward_only returns there; forward sets     *)
(* reverse_ready_; gradient goes on to its reverse.                         *)
ForwardReturns ==
  /\ stage = "rest"
  /\ exReady' = (call.op # "run" /\ ~tls[Host])
  /\ fwdAt' = IF call.op # "run" /\ ~tls[Host] THEN point ELSE Nowhere
  /\ tls' = [tls EXCEPT ![Host] = FALSE]
  /\ IF call.op = "gradient"
     THEN stage' = "reverse" /\ UNCHANGED outcome
     ELSE stage' = "idle" /\ outcome' = [kind |-> "value", at |-> cValue]
  /\ UNCHANGED <<host, todo, jobThrew, red, child>>

(* Executor::reverse called by the host, at the point it evaluated. *)
EnterReverse(team) ==
  /\ stage = "idle" /\ exReady /\ fwdAt = point
  /\ call' = [op |-> "reverse", team |-> team]
  /\ outcome' = NoResult
  /\ stage' = "reverse"
  /\ UNCHANGED <<point, todo, jobThrew, tls, exReady, fwdAt, red, child>>

(* A reverse nobody prepared throws and changes nothing. *)
ReverseRefused(team) ==
  /\ stage = "idle" /\ ~exReady
  /\ call' = [op |-> "reverse", team |-> team]
  /\ outcome' = Threw
  /\ UNCHANGED <<point, stage, todo, jobThrew, tls, exReady, fwdAt, red, child>>

(* reverse consumes reverse_ready_; the reduction's backward(KernelCtx&)     *)
(* consumes its own handshake or throws.                                    *)
Reverse ==
  /\ stage = "reverse" /\ exReady
  /\ exReady' = FALSE /\ fwdAt' = Nowhere
  /\ IF stateReady
     THEN /\ stateReady' = FALSE /\ todo' = Children /\ jobThrew' = FALSE
          /\ stage' = "back" /\ UNCHANGED <<tls, outcome>>
     ELSE Abort /\ UNCHANGED <<stateReady, todo, jobThrew>>
  /\ UNCHANGED <<host, valuesOnly, child>>

(* A backward kernel that the sweep meets before the reduction throws. *)
ReverseThrows ==
  /\ stage = "reverse" /\ exReady
  /\ exReady' = FALSE /\ fwdAt' = Nowhere
  /\ Abort
  /\ UNCHANGED <<host, todo, jobThrew, red, child>>

(* backward_job: the child's reverse, refused unless a forward prepared it. *)
BackwardJob(t, i, ok) ==
  /\ stage = "back" /\ Takes(t, i)
  /\ cReady' = [cReady EXCEPT ![i] = FALSE]
  /\ cGrad' = [cGrad EXCEPT ![i] = IF cReady[i] /\ ok THEN cTape[i] ELSE @]
  /\ todo' = todo \ {i}
  /\ jobThrew' = (jobThrew \/ ~ok \/ ~cReady[i])
  /\ UNCHANGED <<host, stage, tls, exReady, fwdAt, red, cTape, cValue, outcome>>

BackwardJoin ==
  /\ stage = "back" /\ JobsOver
  /\ IF jobThrew THEN Abort ELSE stage' = "add" /\ UNCHANGED <<tls, outcome>>
  /\ UNCHANGED <<host, todo, jobThrew, exReady, fwdAt, red, child>>

(* The children's gradients are added into the inputs' adjoints, and the     *)
(* sweep ends with the gradient copied out.                                 *)
Accumulate ==
  /\ stage = "add"
  /\ outcome' = [kind |-> "grad", at |-> cGrad]
  /\ stage' = "idle"
  /\ UNCHANGED <<host, todo, jobThrew, tls, exReady, fwdAt, red, child>>

EvalNext ==
  \/ \E p \in Points : SetPoint(p)
  \/ \E op \in Ops, team \in BOOLEAN : Enter(op, team)
  \/ \E team \in BOOLEAN : EnterReverse(team) \/ ReverseRefused(team)
  \/ ForwardThrows \/ KernelForward \/ ForwardJoin \/ KernelSum
  \/ ForwardReturns \/ Reverse \/ ReverseThrows \/ BackwardJoin \/ Accumulate
  \/ \E t \in EvalThreads, i \in Children, ok \in BOOLEAN :
       ForwardJob(t, i, ok) \/ BackwardJob(t, i, ok)

EvalSpec == EvalInit /\ [][EvalNext]_evalVars

-----------------------------------------------------------------------------
(* A gradient or a value that is returned was computed by every child at the *)
(* point in force, whatever evaluations failed or were values-only before.   *)
FreshAtReturn ==
  [][(stage # "idle" /\ stage' = "idle" /\ outcome'.kind \in {"grad", "value"}) =>
       \A i \in Children : outcome'.at[i] = point]_evalVars

(* The reduction accepts a reverse only if every child's own handshake is    *)
(* standing, with a sweep at the point of the parent's forward: a child      *)
(* never refuses its reverse.                                               *)
ChildrenPrepared ==
  stage = "back" => \A i \in todo : cReady[i] /\ cTape[i] = point

(* The parent's handshake implies the reduction's, so a host that was        *)
(* allowed to reverse never meets "reduction reverse requires forward"; and  *)
(* however an operation ended, no thread is left in values-only mode.       *)
HandshakesAgree ==
  /\ EvalTypeOK
  /\ exReady => stateReady /\ ~valuesOnly /\ stage \in {"idle", "reverse"}
  /\ stage = "idle" => \A t \in EvalThreads : ~tls[t]
=============================================================================

--------------------------- MODULE CompilerProcess ---------------------------
(***************************************************************************)
(* The compiler as a child process, as the command-line tools run it: two  *)
(* pipes of bounded size, the calling thread reading standard output, a    *)
(* thread of its own reading standard error, and the wait for the child.   *)
(* Output is counted in pieces of a pipe's buffer.  One process runs at a  *)
(* time; the module that extends this one starts it and takes its result.  *)
(***************************************************************************)
EXTENDS Naturals

CONSTANTS
  Outputs,       \* what a compiler prints on each pipe, and its exit status
  PipeCapacity   \* pieces a pipe holds

Streams == {"out", "err"}

ASSUME ProcessAssumption ==
  /\ PipeCapacity \in Nat \ {0}
  /\ \A o \in Outputs : o.status \in Nat /\ \A s \in Streams : o[s] \in Nat

VARIABLE proc   \* run_process_posix: its locals, its reader thread and its child

Nothing == [s \in Streams |-> 0]

NoProcess ==
  [caller |-> "none", reader |-> "none", child |-> "none", printed |-> Nothing, left |-> Nothing,
   pipe |-> Nothing, got |-> Nothing, status |-> 0, read_ok |-> TRUE, err_ok |-> TRUE,
   result |-> "none"]

\* The pipes, the fork or the reader thread cannot be had, and the exception
\* leaves at once; or the child runs and both pipes are read.
StartProcess ==
  /\ proc.caller = "none"
  /\ \/ proc' = [NoProcess EXCEPT !.caller = "done", !.result = "error"]
     \/ \E o \in Outputs :
          proc' = [NoProcess EXCEPT
                     !.caller = "reading", !.reader = "reading", !.child = "running",
                     !.printed = [s \in Streams |-> o[s]], !.left = [s \in Streams |-> o[s]],
                     !.status = o.status]

-----------------------------------------------------------------------------
(* The child: exec'd on the write ends of the pipes.                       *)

\* The read end of standard output is closed once the caller has read it, the
\* other one once the reader is joined.  Either comes before the child has ended
\* only when a read has failed.
Closed(s) == proc.caller \notin (IF s = "out" THEN {"reading"} ELSE {"reading", "joining"})

ChildWrites ==
  /\ proc.child = "running"
  /\ \E s \in Streams :
       /\ proc.left[s] > 0 /\ ~Closed(s) /\ proc.pipe[s] < PipeCapacity
       /\ proc' = [proc EXCEPT !.left[s] = @ - 1, !.pipe[s] = @ + 1]

ChildExits ==
  /\ proc.child = "running" /\ proc.left = Nothing
  /\ proc' = [proc EXCEPT !.child = "exited"]

\* A signal ends the child where it is; a write to a closed pipe raises one.
ChildKilled ==
  /\ proc.child = "running"
  /\ proc' = [proc EXCEPT !.child = "killed"]

BrokenPipe ==
  /\ \E s \in Streams : Closed(s) /\ proc.left[s] > 0
  /\ ChildKilled

Child == ChildWrites \/ ChildExits \/ BrokenPipe

-----------------------------------------------------------------------------
(* read_fd: a piece, the end once the child is gone, or an error.          *)

Take(s) == [proc EXCEPT !.pipe[s] = @ - 1, !.got[s] = @ + 1]

AtEnd(s) == proc.pipe[s] = 0 /\ proc.child # "running"

ReadOut ==
  /\ proc.caller = "reading"
  /\ \/ proc.pipe["out"] > 0 /\ proc' = Take("out")
     \/ AtEnd("out") /\ proc' = [proc EXCEPT !.caller = "joining"]

\* Mutant: standard error is left until standard output has been read.
ReadErrAfterOut ==
  /\ proc.reader = "reading" /\ proc.caller # "reading"
  /\ \/ proc.pipe["err"] > 0 /\ proc' = Take("err")
     \/ AtEnd("err") /\ proc' = [proc EXCEPT !.reader = "done"]

ReadErr ==
  /\ proc.reader = "reading"
  /\ \/ proc.pipe["err"] > 0 /\ proc' = Take("err")
     \/ AtEnd("err") /\ proc' = [proc EXCEPT !.reader = "done"]

\* A failed read of standard output is kept for after the wait ...
ReadFailed ==
  /\ proc.caller = "reading"
  /\ proc' = [proc EXCEPT !.caller = "joining", !.read_ok = FALSE]

\* ... and a failed read of standard error ends its reader and is told to nobody;
\* "err_ok" is history.
ReadErrFailed ==
  /\ proc.reader = "reading"
  /\ proc' = [proc EXCEPT !.reader = "done", !.err_ok = FALSE]

JoinReader ==
  /\ proc.caller = "joining" /\ proc.reader = "done"
  /\ proc' = [proc EXCEPT !.caller = "waiting"]

-----------------------------------------------------------------------------
(* waitpid, and what run_compiler makes of the status.                     *)

ExitStatus == IF proc.child = "exited" THEN proc.status ELSE 128

\* waitpid may fail in the end, too.
WaitChild ==
  /\ proc.caller = "waiting" /\ proc.child # "running"
  /\ \E waited \in BOOLEAN :
       proc' = [proc EXCEPT !.caller = "done",
                            !.result = IF waited /\ proc.read_ok /\ ExitStatus = 0
                                         THEN "output" ELSE "error"]

Caller == ReadOut \/ JoinReader \/ WaitChild

\* A child can be killed and a read can fail at any moment, and need not.
RunProcess == Child \/ ChildKilled \/ ReadErr \/ ReadFailed \/ ReadErrFailed \/ Caller

-----------------------------------------------------------------------------
\* The child waits for room in the pipe of standard error, and the thread that
\* was to read it has failed and ended.
ErrAbandoned ==
  /\ proc.child = "running" /\ proc.caller = "reading" /\ ~proc.err_ok
  /\ proc.left["err"] > 0 /\ proc.pipe["err"] = PipeCapacity

\* What is accepted from a compiler that ended by itself is the whole of what it
\* printed on standard output, unless reading it failed, which is an error; and
\* what is quoted of standard error is all of that, unless reading that failed.
OutputWhole ==
  proc.caller = "done" /\ proc.child = "exited" /\ proc.read_ok =>
    /\ proc.got["out"] = proc.printed["out"]
    /\ proc.err_ok => proc.got["err"] = proc.printed["err"]
=============================================================================

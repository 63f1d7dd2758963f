------------------------------- MODULE Command -------------------------------
(***************************************************************************)
(* Command::execute: a child process runs a shell command while the parent *)
(* waits and collects its output through pipes.  starkc runs the system    *)
(* linker and starktest every test this way.                               *)
(*                                                                         *)
(* A pipe holds Capacity units of output; its contents are abstracted to   *)
(* their number.  No caller ever gives the command an input, so that its   *)
(* standard input is the end of file, once every write end is closed.  The *)
(* command itself is outside this repository: it may read its input, then  *)
(* writes some units to both outputs in any order and exits, or is killed. *)
(***************************************************************************)
EXTENDS Naturals

CONSTANTS
  Capacity,    (* units of output a pipe holds                             *)
  MaxOutput    (* bound: units the command writes to one of its outputs    *)

ASSUME CommandAssumption == Capacity \in Nat \ {0} /\ MaxOutput \in Nat

VARIABLES
  parent,      (* what the parent does next                                *)
  parentEnds,  (* pipe ends the parent has open                            *)
  child,       (* "none" before the fork, "reaped" after waitpid           *)
  childEnds,   (* pipe ends the child has open                             *)
  command,     (* what the command is to do                                *)
  reading,     (* whether it still reads its input                         *)
  written,     (* units it has written so far                              *)
  collected,   (* units in the parent's strings stdOut and stdErr          *)
  verdict,     (* how the child ended                                      *)
  exitStatus   (* what getExitStatus returns                               *)

vars == <<parent, parentEnds, child, childEnds, command, reading, written, collected,
          verdict, exitStatus>>
childVars == <<child, childEnds, command, reading, written, verdict>>

Streams == {"out", "err"}
Pipes == {"in"} \cup Streams
End(pipe, side) == [pipe |-> pipe, side |-> side]
Ends == [pipe : Pipes, side : {"read", "write"}]
BothEnds(pipe) == {End(pipe, "read"), End(pipe, "write")}

Held(end) == end \in parentEnds \cup childEnds
InPipe(s) == written[s] - collected[s]

(* how a child ends: by itself, by a signal, or without the shell *)
Running == [how |-> "running", code |-> 0]
Exited(code) == [how |-> "exited", code |-> code]
Signaled == [how |-> "signaled", code |-> 0]
NotExecuted == [how |-> "not executed", code |-> 0]

-----------------------------------------------------------------------------
Init ==
  /\ parent = "open in" /\ parentEnds = {}
  /\ child = "none" /\ childEnds = {}
  /\ command \in [Streams -> 0..MaxOutput]
  /\ reading \in BOOLEAN
  /\ written = [s \in Streams |-> 0]
  /\ collected = [s \in Streams |-> 0]
  /\ verdict = Running
  /\ exitStatus = 0

(* The three calls of pipe().  Each path out of execute closes what it     *)
(* names: the pipes opened before, or all of them, also what is closed.    *)
Opening == [in |-> "open in", out |-> "open out", err |-> "open err"]
AfterOpening == [in |-> "open out", out |-> "open err", err |-> "fork"]
ForgetOutput == [in |-> {}, out |-> BothEnds("in"), err |-> BothEnds("in")]  \* mutant
ClosedOnFailure == [in |-> {}, out |-> BothEnds("in"), err |-> BothEnds("in") \cup BothEnds("out")]
Cleanup == UNION {BothEnds(pipe) : pipe \in Pipes}

OpenPipe(pipe) ==
  /\ parent = Opening[pipe]
  /\ \/ /\ parentEnds' = parentEnds \cup BothEnds(pipe)
        /\ parent' = AfterOpening[pipe]
     \/ /\ parentEnds' = parentEnds \ ClosedOnFailure[pipe]
        /\ parent' = "threw"
  /\ UNCHANGED <<childVars, collected, exitStatus>>

Fork ==
  /\ parent = "fork"
  /\ \/ /\ parent' = "close"
        /\ child' = "forked" /\ childEnds' = parentEnds
        /\ UNCHANGED parentEnds
     \/ /\ parent' = "threw"
        /\ parentEnds' = parentEnds \ Cleanup
        /\ UNCHANGED <<child, childEnds>>
  /\ UNCHANGED <<command, reading, written, collected, verdict, exitStatus>>

UnusedByParent == {End("in", "read"), End("out", "write"), End("err", "write")}

CloseUnused ==
  /\ parent = "close"
  /\ parentEnds' = parentEnds \ UnusedByParent
  /\ parent' = "input"
  /\ UNCHANGED <<childVars, collected, exitStatus>>

(* The empty input is written to the command.  If that fails, execute is   *)
(* left without closing anything or waiting for the child.                 *)
CloseInput ==
  /\ parent = "input"
  /\ \/ /\ parentEnds' = parentEnds \ {End("in", "write")}
        /\ parent' = "wait"
     \/ /\ parent' = "threw"
        /\ UNCHANGED parentEnds
  /\ UNCHANGED <<childVars, collected, exitStatus>>

Wait ==
  /\ parent = "wait" /\ child = "ended"
  /\ child' = "reaped"
  /\ parent' = "drain out"
  /\ UNCHANGED <<parentEnds, childEnds, command, reading, written, collected, verdict,
                 exitStatus>>

(* The parent reads one stream after the other up to the end of file: the  *)
(* pipe is empty and nobody can write to it any more.  A read that returns *)
(* may have failed, and appending -1 characters throws.                    *)
Draining == [out |-> "drain out", err |-> "drain err"]
AfterDraining == [out |-> "drain err", err |-> "report"]
MoreAtFirst(s) == InPipe(s) > 0 /\ collected[s] = 0                 \* mutant
OneTooMany(s) == collected[s] <= written[s]                         \* mutant
MoreToRead(s) == InPipe(s) > 0

Drain(s) ==
  /\ parent = Draining[s]
  /\ MoreToRead(s) \/ ~Held(End(s, "write"))
  /\ \/ /\ MoreToRead(s)
        /\ collected' = [collected EXCEPT ![s] = @ + 1]
        /\ UNCHANGED parent
     \/ /\ ~MoreToRead(s)
        /\ parent' = AfterDraining[s]
        /\ UNCHANGED collected
     \/ /\ parent' = "threw"
        /\ UNCHANGED collected
  /\ UNCHANGED <<childVars, parentEnds, exitStatus>>

(* exitStatus keeps its initial value unless the child exited by itself *)
Report ==
  /\ parent = "report"
  /\ exitStatus' = IF verdict.how = "signaled" THEN exitStatus ELSE verdict.code
  /\ parentEnds' = parentEnds \ Cleanup
  /\ parent' = "done"
  /\ UNCHANGED <<childVars, collected>>

-----------------------------------------------------------------------------
(* The child: descriptors 0, 1, 2 become copies of the ends it keeps.      *)
InheritedWriteEnd == {End("out", "read"), End("err", "read")}      \* mutant
UnusedByChild == {End("in", "write"), End("out", "read"), End("err", "read")}

Redirect ==
  /\ child = "forked"
  /\ childEnds' = childEnds \ UnusedByChild
  /\ child' = "exec"
  /\ UNCHANGED <<parent, parentEnds, command, reading, written, collected, verdict, exitStatus>>

Die(v) ==
  /\ child' = "ended"
  /\ childEnds' = {}
  /\ verdict' = v
  /\ UNCHANGED <<parent, parentEnds, command, reading, written, collected, exitStatus>>

(* execl only returns when it fails, and then the child exits with success *)
Execute ==
  /\ child = "exec"
  /\ \/ child' = "running"
        /\ UNCHANGED <<parent, parentEnds, childEnds, command, reading, written, collected,
                       verdict, exitStatus>>
     \/ Die(NotExecuted)

EndOfInput ==
  /\ child = "running" /\ reading
  /\ ~Held(End("in", "write"))
  /\ reading' = FALSE
  /\ UNCHANGED <<parent, parentEnds, child, childEnds, command, written, collected, verdict,
                 exitStatus>>

Write(s) ==
  /\ child = "running" /\ ~reading
  /\ written[s] < command[s]
  /\ InPipe(s) < Capacity
  /\ written' = [written EXCEPT ![s] = @ + 1]
  /\ UNCHANGED <<parent, parentEnds, child, childEnds, command, reading, collected, verdict,
                 exitStatus>>

ExitWith(code) ==
  /\ child = "running" /\ ~reading /\ written = command
  /\ Die(Exited(code))

Kill == child = "running" /\ Die(Signaled)

-----------------------------------------------------------------------------
Parent ==
  \/ \E pipe \in Pipes : OpenPipe(pipe)
  \/ Fork \/ CloseUnused \/ CloseInput \/ Wait
  \/ \E s \in Streams : Drain(s)
  \/ Report

Child ==
  \/ Redirect \/ Execute
  \/ EndOfInput
  \/ \E s \in Streams : Write(s)
  \/ \E code \in {0, 1} : ExitWith(code)

Next == Parent \/ Child \/ Kill

Spec == Init /\ [][Next]_vars

(* Both processes are scheduled, and the command ends unless it is blocked. *)
FairSpec == Spec /\ WF_vars(Parent) /\ WF_vars(Child)

-----------------------------------------------------------------------------
(* Types of the variables; nobody reads what was not written. *)
TypeOK ==
  /\ parent \in {"open in", "open out", "open err", "fork", "close", "input", "wait",
                 "drain out", "drain err", "report", "done", "threw"}
  /\ parentEnds \subseteq Ends /\ childEnds \subseteq Ends
  /\ child \in {"none", "forked", "exec", "running", "ended", "reaped"}
  /\ command \in [Streams -> Nat]
  /\ reading \in BOOLEAN
  /\ written \in [Streams -> Nat] /\ collected \in [Streams -> Nat]
  /\ verdict \in {Running, Exited(0), Exited(1), Signaled, NotExecuted}
  /\ exitStatus \in {0, 1}
  /\ \A s \in Streams : collected[s] <= written[s] /\ InPipe(s) <= Capacity

Ended == parent \in {"done", "threw"}

(* A call of execute that returns, or whose pipe() or fork() fails, leaves *)
(* no descriptor open, of its own or of an earlier command, and no child   *)
(* unreaped, though each path closes for itself (SystemUtil.cpp:28-62,     *)
(* 92-99, 121).  Once there is a child this is not so: a write or a read   *)
(* that fails leaves pipes, and perhaps the child, to a caller that        *)
(* catches; starkc and starktest do not, and end with their descriptors.   *)
NothingLeaks ==
  /\ parent = "done" => parentEnds = {} /\ child = "reaped"
  /\ (parent = "threw" /\ child = "none") => parentEnds = {}

(* The caller of a command that ran to its end gets all it printed and the *)
(* status it ended with, though pipes are read after the child is gone     *)
(* (SystemUtil.cpp:98-119): a failing link or test is reported, with its   *)
(* whole error message.                                                    *)
ReportIsFaithful ==
  (parent = "done" /\ verdict.how = "exited") =>
    exitStatus = verdict.code /\ collected = command

(* What a command prints can wait in its pipes for the parent to read it.  *)
Fits == \A s \in Streams : command[s] <= Capacity

-----------------------------------------------------------------------------
(* "Executes a system command." (SystemUtil.h:8): a command that would end *)
(* by itself is executed to its end.  The parent collects nothing before   *)
(* the child is gone, and a child with more to say than a pipe holds waits *)
(* for the parent.                                                         *)
CommandsComplete == <>Ended
=============================================================================

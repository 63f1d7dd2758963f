---------------------------- MODULE CommandProofs ----------------------------
(***************************************************************************)
(* What Command::execute guarantees for pipes of any capacity and commands *)
(* that print any amount.  NothingLeaks needs to know what the child can   *)
(* be while the parent is at each line, ReportIsFaithful that a stream is  *)
(* only left once it is empty and nobody can write to it any more: the     *)
(* child is gone, since it is waited for before the first read.  Progress  *)
(* needs to know which ends are open where somebody waits.                 *)
(***************************************************************************)
EXTENDS Command, TLAPS

(* the parent has waited for the child *)
AfterWait == parent \in {"drain out", "drain err", "report", "done"}

ProcessInv ==
  /\ parent \in {"open in", "open out", "open err", "fork"} => child = "none"
  /\ parent \in {"close", "input", "wait"} => child \in {"forked", "exec", "running", "ended"}
  /\ AfterWait => child = "reaped"
  /\ parent \in {"open in", "done"} => parentEnds = {}
  /\ parent = "open out" => parentEnds \subseteq BothEnds("in")
  /\ parent = "open err" => parentEnds \subseteq BothEnds("in") \cup BothEnds("out")
  /\ (parent = "threw" /\ child = "none") => parentEnds = {}
  /\ child \in {"ended", "reaped"} <=> verdict # Running
  /\ verdict.how = "exited" => written = command
  /\ parent \in {"drain err", "report", "done"} => collected["out"] = written["out"]
  /\ parent \in {"report", "done"} => collected["err"] = written["err"]
  /\ (parent = "done" /\ verdict.how = "exited") => exitStatus = verdict.code
  /\ parent # "done" => exitStatus = 0

CommandInv == TypeOK /\ ProcessInv

-----------------------------------------------------------------------------
(* The initial states satisfy the invariant. *)
LEMMA InitCommandInv == ASSUME CommandAssumption PROVE Init => CommandInv
<1> SUFFICES ASSUME Init PROVE CommandInv
  OBVIOUS
<1>1. command \in [Streams -> Nat]
  <2>1. 0..MaxOutput \subseteq Nat
    BY DEF CommandAssumption
  <2> QED BY <2>1 DEF Init
<1>2. \A s \in Streams : collected[s] <= written[s] /\ InPipe(s) <= Capacity
  <2> SUFFICES ASSUME NEW s \in Streams PROVE collected[s] <= written[s] /\ InPipe(s) <= Capacity
    OBVIOUS
  <2>1. collected[s] = 0 /\ written[s] = 0
    BY DEF Init
  <2> QED BY <2>1 DEF CommandAssumption, InPipe
<1>3. TypeOK
  BY <1>1, <1>2 DEF Init, TypeOK, Running, Ends
<1>4. ProcessInv
  BY DEF Init, ProcessInv, AfterWait, Running
<1> QED BY <1>3, <1>4 DEF CommandInv

(* The values of the tables of program points, and what each path closes.  *)
LEMMA Points ==
  /\ Opening["in"] = "open in" /\ Opening["out"] = "open out" /\ Opening["err"] = "open err"
  /\ AfterOpening["in"] = "open out" /\ AfterOpening["out"] = "open err"
  /\ AfterOpening["err"] = "fork"
  /\ Draining["out"] = "drain out" /\ Draining["err"] = "drain err"
  /\ AfterDraining["out"] = "drain err" /\ AfterDraining["err"] = "report"
  BY DEF Opening, AfterOpening, Draining, AfterDraining

LEMMA Closing ==
  /\ ClosedOnFailure["in"] = {} /\ ClosedOnFailure["out"] = BothEnds("in")
  /\ ClosedOnFailure["err"] = BothEnds("in") \cup BothEnds("out")
  /\ Ends \subseteq Cleanup
<1>1. ASSUME NEW end \in Ends PROVE end \in Cleanup
  <2>1. PICK pipe \in Pipes, side \in {"read", "write"} : end = End(pipe, side)
    BY <1>1 DEF Ends, End
  <2>2. end \in BothEnds(pipe)
    BY <2>1 DEF BothEnds
  <2> QED BY <2>1, <2>2 DEF Cleanup
<1>2. /\ ClosedOnFailure["in"] = {} /\ ClosedOnFailure["out"] = BothEnds("in")
      /\ ClosedOnFailure["err"] = BothEnds("in") \cup BothEnds("out")
  BY DEF ClosedOnFailure
<1> QED BY <1>1, <1>2
-----------------------------------------------------------------------------
(* Every step preserves it. *)
LEMMA NextCommandInv ==
  ASSUME CommandAssumption, CommandInv, [Next]_vars
  PROVE  CommandInv'
<1> USE DEF CommandInv, childVars
<1>1. ASSUME NEW pipe \in Pipes, OpenPipe(pipe) PROVE CommandInv'
  <2>1. parentEnds' \subseteq Ends
    <3>1. BothEnds(pipe) \subseteq Ends
      BY DEF BothEnds, End, Ends
    <3>2. parentEnds \subseteq Ends
      BY DEF TypeOK
    <3> QED BY <1>1, <3>1, <3>2 DEF OpenPipe
  <2>2. CASE pipe = "in"
    <3>1. parent = "open in"
      BY <1>1, <2>2, Points DEF OpenPipe
    <3>2. \/ parent' = "open out" /\ parentEnds' = parentEnds \cup BothEnds("in")
          \/ parent' = "threw" /\ parentEnds' = {}
      BY <1>1, <2>2, <3>1, Points, Closing DEF OpenPipe, ProcessInv
    <3>3. UNCHANGED <<childVars, collected, exitStatus>>
      BY <1>1 DEF OpenPipe
    <3>4. TypeOK'
      BY <2>1, <3>1, <3>2, <3>3 DEF TypeOK, InPipe
    <3>5. ProcessInv'
      BY <3>1, <3>2, <3>3 DEF TypeOK, ProcessInv, AfterWait
    <3> QED BY <3>4, <3>5
  <2>3. CASE pipe = "out"
    <3>1. parent = "open out"
      BY <1>1, <2>3, Points DEF OpenPipe
    <3>2. \/ parent' = "open err" /\ parentEnds' = parentEnds \cup BothEnds("out")
          \/ parent' = "threw" /\ parentEnds' = {}
      BY <1>1, <2>3, <3>1, Points, Closing DEF OpenPipe, ProcessInv
    <3>3. UNCHANGED <<childVars, collected, exitStatus>>
      BY <1>1 DEF OpenPipe
    <3>4. TypeOK'
      BY <2>1, <3>1, <3>2, <3>3 DEF TypeOK, InPipe
    <3>5. ProcessInv'
      BY <3>1, <3>2, <3>3 DEF TypeOK, ProcessInv, AfterWait
    <3> QED BY <3>4, <3>5
  <2>4. CASE pipe = "err"
    <3>1. parent = "open err"
      BY <1>1, <2>4, Points DEF OpenPipe
    <3>2. \/ parent' = "fork" /\ parentEnds' = parentEnds \cup BothEnds("err")
          \/ parent' = "threw" /\ parentEnds' = {}
      BY <1>1, <2>4, <3>1, Points, Closing DEF OpenPipe, ProcessInv
    <3>3. UNCHANGED <<childVars, collected, exitStatus>>
      BY <1>1 DEF OpenPipe
    <3>4. TypeOK'
      BY <2>1, <3>1, <3>2, <3>3 DEF TypeOK, InPipe
    <3>5. ProcessInv'
      BY <3>1, <3>2, <3>3 DEF TypeOK, ProcessInv, AfterWait
    <3> QED BY <3>4, <3>5
  <2> QED BY <2>2, <2>3, <2>4 DEF Pipes, Streams
<1>2. ASSUME Fork PROVE CommandInv'
  <2>1. TypeOK'
    BY <1>2 DEF Fork, TypeOK, InPipe
  <2>2. parent' = "threw" => parentEnds' = {}
    BY <1>2, Closing DEF Fork, TypeOK
  <2>3. ProcessInv'
    BY <1>2, <2>2 DEF Fork, TypeOK, ProcessInv, AfterWait
  <2> QED BY <2>1, <2>3
<1>3. ASSUME CloseUnused PROVE CommandInv'
  <2>1. TypeOK'
    BY <1>3, Points DEF CloseUnused, TypeOK, InPipe, CommandAssumption
  <2>2. ProcessInv'
    BY <1>3, Points DEF CloseUnused, TypeOK, ProcessInv, AfterWait, Running, Exited, Signaled, NotExecuted
  <2> QED BY <2>1, <2>2
<1>4. ASSUME CloseInput PROVE CommandInv'
  <2>1. TypeOK'
    BY <1>4, Points DEF CloseInput, TypeOK, InPipe, CommandAssumption
  <2>2. ProcessInv'
    BY <1>4, Points DEF CloseInput, TypeOK, ProcessInv, AfterWait, Running, Exited, Signaled, NotExecuted
  <2> QED BY <2>1, <2>2
<1>5. ASSUME Wait PROVE CommandInv'
  <2>1. TypeOK'
    BY <1>5, Points DEF Wait, TypeOK, InPipe, CommandAssumption
  <2>2. ProcessInv'
    BY <1>5, Points DEF Wait, TypeOK, ProcessInv, AfterWait, Running, Exited, Signaled, NotExecuted
  <2> QED BY <2>1, <2>2
<1>6. ASSUME NEW s \in Streams, Drain(s) PROVE CommandInv'
  <2>1. CASE MoreToRead(s) /\ parent' = parent /\ collected' = [collected EXCEPT ![s] = @ + 1]
    <3>0. collected[s] \in Nat /\ written[s] \in Nat
      BY DEF TypeOK
    <3>1. collected[s] \in Nat /\ written[s] \in Nat /\ collected[s] < written[s]
      BY <2>1, <3>0 DEF MoreToRead, InPipe
    <3>a. collected \in [Streams -> Nat]
      BY DEF TypeOK
    <3>2. collected' = [collected EXCEPT ![s] = @ + 1] /\ parent' = parent
      BY <1>6, <2>1 DEF Drain
    <3>3. collected' \in [Streams -> Nat]
      BY <3>1, <3>2, <3>a
    <3>4. ASSUME NEW t \in Streams PROVE (collected[t] <= written[t] /\ InPipe(t) <= Capacity)'
      <4>1. written' = written /\ Capacity \in Nat
        BY <1>6 DEF Drain, CommandAssumption
      <4>2. collected[t] \in Nat /\ written[t] \in Nat /\ collected[t] <= written[t]
            /\ written[t] - collected[t] <= Capacity
        BY DEF TypeOK, InPipe
      <4>3. collected'[t] = IF t = s THEN collected[s] + 1 ELSE collected[t]
        BY <3>2, <3>a
      <4> QED BY <3>1, <4>1, <4>2, <4>3 DEF InPipe
    <3>5. TypeOK'
      BY <1>6, <3>2, <3>3, <3>4 DEF Drain, TypeOK
    <3>6. parent = Draining[s]
      BY <1>6 DEF Drain
    <3>7. s = "out" => parent = "drain out"
      BY <3>6, Points
    <3>8. s = "err" => parent = "drain err" /\ collected'["out"] = collected["out"]
      BY <3>2, <3>6, Points DEF TypeOK, Streams
    <3>9. ProcessInv'
      BY <1>6, <3>2, <3>7, <3>8 DEF Drain, TypeOK, ProcessInv, AfterWait, Streams
    <3> QED BY <3>5, <3>9
  <2>2. CASE ~MoreToRead(s) /\ parent' = AfterDraining[s] /\ collected' = collected
    <3>1. parent = Draining[s] /\ parent' = AfterDraining[s] /\ collected' = collected
      BY <1>6, <2>2 DEF Drain
    <3>2. s = "out" => parent = "drain out" /\ parent' = "drain err"
      BY <3>1, Points
    <3>3. s = "err" => parent = "drain err" /\ parent' = "report"
      BY <3>1, Points
    <3>4. collected[s] = written[s]
      <4>1. collected[s] \in Nat /\ written[s] \in Nat /\ collected[s] <= written[s]
        BY DEF TypeOK
      <4> QED BY <2>2, <4>1 DEF MoreToRead, InPipe
    <3>5. TypeOK'
      BY <1>6, <3>1, <3>2, <3>3 DEF Drain, TypeOK, InPipe, Streams
    <3>6. ProcessInv'
      BY <1>6, <3>1, <3>2, <3>3, <3>4 DEF Drain, TypeOK, ProcessInv, AfterWait, Streams
    <3> QED BY <3>5, <3>6
  <2>3. CASE parent' = "threw" /\ collected' = collected
    <3>1. parent \in {"drain out", "drain err"}
      BY <1>6, Points DEF Drain, Streams
    <3>2. TypeOK'
      BY <1>6, <2>3 DEF Drain, TypeOK, InPipe
    <3>3. ProcessInv'
      BY <1>6, <2>3, <3>1 DEF Drain, TypeOK, ProcessInv, AfterWait
    <3> QED BY <3>2, <3>3
  <2> QED BY <1>6, <2>1, <2>2, <2>3 DEF Drain
<1>7. ASSUME Report PROVE CommandInv'
  <2>1. exitStatus' \in {0, 1}
    <3>1. verdict.code \in {0, 1}
      <4>1. /\ Running.code = 0 /\ Signaled.code = 0 /\ NotExecuted.code = 0
            /\ Exited(0).code = 0 /\ Exited(1).code = 1
        BY DEF Running, Exited, Signaled, NotExecuted
      <4>2. verdict \in {Running, Exited(0), Exited(1), Signaled, NotExecuted}
        BY DEF TypeOK
      <4> QED BY <4>1, <4>2
    <3>2. exitStatus \in {0, 1}
      BY DEF TypeOK
    <3> QED BY <1>7, <3>1, <3>2 DEF Report
  <2>2. TypeOK'
    BY <1>7, <2>1 DEF Report, TypeOK, InPipe
  <2>3. parentEnds' = {}
    BY <1>7, Closing DEF Report, TypeOK
  <2>4. ProcessInv'
    BY <1>7, <2>3 DEF Report, TypeOK, ProcessInv, AfterWait, Running, Exited, Signaled, NotExecuted
  <2> QED BY <2>2, <2>4
<1>8. ASSUME Redirect PROVE CommandInv'
  <2>1. TypeOK'
    BY <1>8, Points DEF Redirect, TypeOK, InPipe, CommandAssumption
  <2>2. ProcessInv'
    BY <1>8, Points DEF Redirect, TypeOK, ProcessInv, AfterWait, Running, Exited, Signaled, NotExecuted
  <2> QED BY <2>1, <2>2
<1>9. ASSUME Execute PROVE CommandInv'
  <2>1. CASE Die(NotExecuted)
    <3>1. NotExecuted # Running /\ NotExecuted.how # "exited"
      BY DEF NotExecuted, Running
    <3>2. TypeOK'
      BY <1>9, <2>1 DEF Execute, Die, TypeOK, InPipe
    <3>3. ProcessInv'
      BY <1>9, <2>1, <3>1 DEF Execute, Die, TypeOK, ProcessInv, AfterWait
    <3> QED BY <3>2, <3>3
  <2>2. CASE child' = "running" /\ UNCHANGED <<parent, parentEnds, childEnds, command, reading,
                                               written, collected, verdict, exitStatus>>
    BY <1>9, <2>2 DEF Execute, TypeOK, InPipe, ProcessInv, AfterWait
  <2> QED BY <1>9, <2>1, <2>2 DEF Execute
<1>10. ASSUME EndOfInput PROVE CommandInv'
  <2>1. TypeOK'
    BY <1>10, Points DEF EndOfInput, TypeOK, InPipe, CommandAssumption
  <2>2. ProcessInv'
    BY <1>10, Points DEF EndOfInput, TypeOK, ProcessInv, AfterWait, Running, Exited, Signaled, NotExecuted
  <2> QED BY <2>1, <2>2
<1>11. ASSUME NEW s \in Streams, Write(s) PROVE CommandInv'
  <2>1. collected[s] \in Nat /\ written[s] \in Nat
    BY DEF TypeOK
  <2>2. written' = [written EXCEPT ![s] = @ + 1]
    BY <1>11 DEF Write
  <2>3. written' \in [Streams -> Nat]
    <3>1. written \in [Streams -> Nat]
      BY DEF TypeOK
    <3> QED BY <2>1, <2>2, <3>1
  <2>4. ASSUME NEW t \in Streams PROVE (collected[t] <= written[t] /\ InPipe(t) <= Capacity)'
    <3>1. collected' = collected /\ Capacity \in Nat
          /\ written[s] - collected[s] < Capacity
      BY <1>11 DEF Write, CommandAssumption, InPipe
    <3>2. collected[t] \in Nat /\ written[t] \in Nat /\ collected[t] <= written[t]
          /\ written[t] - collected[t] <= Capacity
      BY DEF TypeOK, InPipe
    <3>3. written'[t] = IF t = s THEN written[s] + 1 ELSE written[t]
      <4>1. written \in [Streams -> Nat]
        BY DEF TypeOK
      <4> QED BY <2>2, <4>1
    <3> QED BY <2>1, <3>1, <3>2, <3>3 DEF InPipe
  <2>5. TypeOK'
    BY <1>11, <2>3, <2>4 DEF Write, TypeOK
  <2>6. verdict = Running /\ ~AfterWait
    BY <1>11 DEF Write, TypeOK, ProcessInv
  <2>7. ProcessInv'
    BY <1>11, <2>6 DEF Write, TypeOK, ProcessInv, AfterWait, Running
  <2> QED BY <2>5, <2>7
<1>12. ASSUME NEW code \in {0, 1}, ExitWith(code) PROVE CommandInv'
  <2>1. TypeOK'
    BY <1>12, Points DEF ExitWith, Die, TypeOK, InPipe, CommandAssumption
  <2>2. ProcessInv'
    BY <1>12, Points DEF ExitWith, Die, TypeOK, ProcessInv, AfterWait, Running, Exited, Signaled, NotExecuted
  <2> QED BY <2>1, <2>2
<1>13. ASSUME Kill PROVE CommandInv'
  <2>1. TypeOK'
    BY <1>13, Points DEF Kill, Die, TypeOK, InPipe, CommandAssumption
  <2>2. ProcessInv'
    BY <1>13, Points DEF Kill, Die, TypeOK, ProcessInv, AfterWait, Running, Exited, Signaled, NotExecuted
  <2> QED BY <2>1, <2>2
<1>14. ASSUME UNCHANGED vars PROVE CommandInv'
  <2>1. UNCHANGED vars
    BY <1>14
  <2>2. TypeOK'
    BY <2>1 DEF vars, TypeOK, InPipe
  <2>3. ProcessInv'
    BY <2>1 DEF vars, ProcessInv, AfterWait
  <2> QED BY <2>2, <2>3
<1> QED BY <1>1, <1>2, <1>3, <1>4, <1>5, <1>6, <1>7, <1>8, <1>9, <1>10, <1>11, <1>12, <1>13, <1>14 DEF Next, Parent, Child

(* The invariant holds in every reachable state. *)
LEMMA CommandInvariant == ASSUME CommandAssumption PROVE Spec => []CommandInv
<1>1. Init => CommandInv
  BY InitCommandInv
<1>2. CommandInv /\ [Next]_vars => CommandInv'
  BY NextCommandInv
<1> QED BY <1>1, <1>2, PTL DEF Spec

(* What the invariant says of a command that is over. *)
LEMMA InvImpliesReports == CommandInv => NothingLeaks /\ ReportIsFaithful
<1>1. ASSUME CommandInv PROVE ReportIsFaithful
  <2> SUFFICES ASSUME parent = "done", verdict.how = "exited"
               PROVE  exitStatus = verdict.code /\ collected = command
    BY DEF ReportIsFaithful
  <2>1. exitStatus = verdict.code /\ written = command
    BY <1>1 DEF CommandInv, ProcessInv
  <2>2. \A s \in Streams : collected[s] = written[s]
    BY <1>1 DEF CommandInv, ProcessInv, Streams
  <2>3. collected = written
    BY <1>1, <2>2 DEF CommandInv, TypeOK
  <2> QED BY <2>1, <2>3
<1>2. CommandInv => NothingLeaks
  BY DEF CommandInv, ProcessInv, AfterWait, NothingLeaks, Ended
<1> QED BY <1>1, <1>2

(* Types are preserved; in particular the parent never reads more than the *)
(* child wrote and no pipe overflows.                                      *)
THEOREM CommandTypes == ASSUME CommandAssumption PROVE Spec => []TypeOK
<1>1. CommandInv => TypeOK
  BY DEF CommandInv
<1> QED BY <1>1, CommandInvariant, PTL

(* A call of execute that returns, or is left because a pipe or the fork   *)
(* failed, leaves no descriptor open and no child unreaped, though every   *)
(* path closes its own list (SystemUtil.cpp:28-62, 92-96, 121).            *)
THEOREM NothingEverLeaks == ASSUME CommandAssumption PROVE Spec => []NothingLeaks
<1>1. CommandInv => NothingLeaks
  BY InvImpliesReports
<1> QED BY <1>1, CommandInvariant, PTL

(* A command that ran to its end is reported with its own status and with  *)
(* all it printed, whatever the capacity of the pipes.                     *)
THEOREM ReportsAreFaithful == ASSUME CommandAssumption PROVE Spec => []ReportIsFaithful
<1>1. CommandInv => ReportIsFaithful
  BY InvImpliesReports
<1> QED BY <1>1, CommandInvariant, PTL
-----------------------------------------------------------------------------
(* Progress: what a command can wait for, and for how long                 *)

(* how much of a call of execute, and of the child, is still to come *)
ParentLeft(p) ==
  CASE p = "open in"   -> 10
    [] p = "open out"  -> 9
    [] p = "open err"  -> 8
    [] p = "fork"      -> 7
    [] p = "close"     -> 6
    [] p = "input"     -> 5
    [] p = "wait"      -> 4
    [] p = "drain out" -> 3
    [] p = "drain err" -> 2
    [] p = "report"    -> 1
    [] OTHER           -> 0

ChildLeft(c) ==
  CASE c = "none"    -> 5
    [] c = "forked"  -> 4
    [] c = "exec"    -> 3
    [] c = "running" -> 2
    [] c = "ended"   -> 1
    [] OTHER         -> 0

(* a unit of output is written once and read once *)
OutputLeft(s) == (command[s] - written[s]) + (command[s] - collected[s])
InputLeft == IF reading THEN 1 ELSE 0

Work == ParentLeft(parent) + ChildLeft(child) + InputLeft + OutputLeft("out") + OutputLeft("err")

(* the condition under which each process takes its next step *)
ParentMayStep ==
  \/ parent \in {"open in", "open out", "open err", "fork", "close", "input", "report"}
  \/ parent = "wait" /\ child = "ended"
  \/ \E s \in Streams : parent = Draining[s] /\ (MoreToRead(s) \/ ~Held(End(s, "write")))

HasRoom(s) == written[s] < command[s] /\ InPipe(s) < Capacity

ChildMayStep ==
  \/ child \in {"forked", "exec"}
  \/ child = "running" /\ reading /\ ~Held(End("in", "write"))
  \/ child = "running" /\ ~reading /\ (written = command \/ \E s \in Streams : HasRoom(s))

(* the child has more to say than fits and the parent waits for its end *)
BlockedOnFullPipe ==
  /\ parent = "wait" /\ child = "running"
  /\ \E s \in Streams : written[s] < command[s] /\ InPipe(s) = Capacity

OnlyFullPipesBlock == Ended \/ ParentMayStep \/ ChildMayStep \/ BlockedOnFullPipe
WhatFitsNeverBlocks == Fits => Ended \/ ParentMayStep \/ ChildMayStep

(* Which ends are open where somebody waits, and how much was read by then. *)
EndsInv ==
  /\ \A s \in Streams : written[s] <= command[s]
  /\ parent \notin {"drain out", "drain err", "report", "done", "threw"} => \A s \in Streams : collected[s] = 0
  /\ parent = "wait" => End("in", "write") \notin parentEnds
  /\ parent \in {"input", "wait", "drain out", "drain err"} =>
       \A s \in Streams : End(s, "write") \notin parentEnds
  /\ child \in {"exec", "running"} => End("in", "write") \notin childEnds
  /\ child \in {"none", "ended", "reaped"} => childEnds = {}

ProgressInv == CommandInv /\ EndsInv

(* The ends of a pipe are different. *)
LEMMA EndsDiffer ==
  /\ End("in", "write") # End("in", "read")
  /\ \A s \in Streams : /\ End(s, "write") # End(s, "read") /\ End(s, "write") \in UnusedByParent
                        /\ End("in", "write") # End(s, "write")
BY DEF End, Streams, UnusedByParent

LEMMA InitProgressInv == ASSUME CommandAssumption PROVE Init => ProgressInv
<1> SUFFICES ASSUME Init PROVE ProgressInv
  OBVIOUS
<1>1. CommandInv BY InitCommandInv
<1>2. ASSUME NEW s \in Streams PROVE written[s] <= command[s] /\ collected[s] = 0
  <2>1. written[s] = 0 /\ collected[s] = 0 /\ command[s] \in Nat BY <1>1 DEF Init, CommandInv, TypeOK
  <2> QED BY <2>1
<1>3. EndsInv BY <1>2 DEF Init, EndsInv
<1> QED BY <1>1, <1>3 DEF ProgressInv

LEMMA ParentEndsInv ==
  ASSUME CommandAssumption, ProgressInv, Parent
  PROVE  EndsInv'
<1> USE DEF ProgressInv, CommandInv, childVars
<1>1. UNCHANGED <<command, written>>
  BY DEF Parent, OpenPipe, Fork, CloseUnused, CloseInput, Wait, Drain, Report
<1>2. (\A s \in Streams : written[s] <= command[s])'
  BY <1>1 DEF EndsInv
<1>3. ASSUME NEW pipe \in Pipes, OpenPipe(pipe) PROVE EndsInv'
  <2>1. parent \in {"open in", "open out", "open err"}
        /\ parent' \in {"open out", "open err", "fork", "threw"}
    BY <1>3, Points DEF OpenPipe, Pipes, Streams
  <2> QED BY <1>2, <1>3, <2>1 DEF OpenPipe, EndsInv
<1>4. CASE Fork
  <2>1. parent = "fork" /\ parent' \in {"close", "threw"} /\ child' \in {"none", "forked"}
        /\ (child' = "none" => childEnds' = {}) /\ UNCHANGED collected
    BY <1>4 DEF Fork, ProcessInv, EndsInv
  <2> QED BY <1>2, <2>1 DEF EndsInv
<1>5. CASE CloseUnused
  <2>1. \A s \in Streams : End(s, "write") \notin parentEnds'
    BY <1>5, EndsDiffer DEF CloseUnused
  <2> QED BY <1>2, <1>5, <2>1 DEF CloseUnused, EndsInv
<1>6. CASE CloseInput
  BY <1>2, <1>6 DEF CloseInput, EndsInv
<1>7. CASE Wait
  BY <1>2, <1>7 DEF Wait, EndsInv
<1>8. ASSUME NEW s \in Streams, Drain(s) PROVE EndsInv'
  <2>1. parent \in {"drain out", "drain err"} /\ parent' \in {"drain out", "drain err", "report", "threw"}
    BY <1>8, Points DEF Drain, Streams
  <2> QED BY <1>2, <1>8, <2>1 DEF Drain, EndsInv
<1>9. CASE Report
  BY <1>2, <1>9 DEF Report, EndsInv
<1> QED BY <1>3, <1>4, <1>5, <1>6, <1>7, <1>8, <1>9 DEF Parent

LEMMA ChildEndsInv ==
  ASSUME CommandAssumption, ProgressInv, Child \/ Kill
  PROVE  EndsInv'
<1> USE DEF ProgressInv, CommandInv
<1>1. UNCHANGED <<parent, parentEnds, collected, command>>
  BY DEF Child, Kill, Redirect, Execute, EndOfInput, Write, ExitWith, Die
<1>2. ASSUME UNCHANGED written PROVE (\A s \in Streams : written[s] <= command[s])'
  BY <1>1, <1>2 DEF EndsInv
<1>3. CASE Redirect
  <2>1. End("in", "write") \notin childEnds'
    BY <1>3 DEF Redirect, UnusedByChild
  <2> QED BY <1>1, <1>2, <1>3, <2>1 DEF Redirect, EndsInv
<1>4. ASSUME NEW v, Die(v) PROVE EndsInv'
  BY <1>1, <1>2, <1>4 DEF Die, EndsInv
<1>5. CASE Execute
  BY <1>1, <1>2, <1>4, <1>5 DEF Execute, EndsInv
<1>6. CASE EndOfInput
  BY <1>1, <1>2, <1>6 DEF EndOfInput, EndsInv
<1>7. ASSUME NEW s \in Streams, Write(s) PROVE EndsInv'
  <2>1. ASSUME NEW t \in Streams PROVE written'[t] <= command'[t]
    <3>1. written[t] \in Nat /\ command[t] \in Nat /\ written[t] <= command[t] BY DEF TypeOK, EndsInv
    <3>2. written[s] < command[s] /\ written' = [written EXCEPT ![s] = @ + 1] BY <1>7 DEF Write
    <3>3. written'[t] = IF t = s THEN written[t] + 1 ELSE written[t] BY <3>2 DEF TypeOK
    <3> QED BY <1>1, <3>1, <3>2, <3>3
  <2> QED BY <1>1, <1>7, <2>1 DEF Write, EndsInv
<1> QED BY <1>3, <1>4, <1>5, <1>6, <1>7 DEF Child, Kill, ExitWith

LEMMA NextProgressInv ==
  ASSUME CommandAssumption, ProgressInv, [Next]_vars
  PROVE  ProgressInv'
<1>1. CommandInv' BY NextCommandInv DEF ProgressInv
<1>2. CASE UNCHANGED vars
  <2>1. EndsInv' BY <1>2 DEF vars, EndsInv, ProgressInv
  <2> QED BY <1>1, <2>1 DEF ProgressInv
<1>3. CASE Next BY <1>1, <1>3, ParentEndsInv, ChildEndsInv DEF Next, ProgressInv
<1> QED BY <1>2, <1>3

LEMMA ProgressInvariant == ASSUME CommandAssumption PROVE Spec => []ProgressInv
<1>1. Init => ProgressInv
  BY InitProgressInv
<1>2. ProgressInv /\ [Next]_vars => ProgressInv'
  BY NextProgressInv
<1> QED BY <1>1, <1>2, PTL DEF Spec

(* Who waits, and for what. *)
LEMMA WaitingIsForRoom ==
  ASSUME CommandAssumption, ProgressInv, ~Ended, ~ParentMayStep, ~ChildMayStep
  PROVE  BlockedOnFullPipe
<1> USE DEF ProgressInv, CommandInv
<1>1. ASSUME NEW s \in Streams, parent = Draining[s] PROVE FALSE
  <2>1. parent \in {"drain out", "drain err"} BY <1>1, Points DEF Streams
  <2>2. childEnds = {} /\ End(s, "write") \notin parentEnds
    BY <2>1 DEF ProcessInv, AfterWait, EndsInv
  <2> QED BY <1>1, <2>2 DEF ParentMayStep, Held
<1>2. parent = "wait" /\ child = "running"
  <2>1. parent \notin {"drain out", "drain err"} BY <1>1, Points DEF Streams
  <2>2. parent = "wait"
    <3>1. parent \in {"open in", "open out", "open err", "fork", "close", "input", "wait",
                      "drain out", "drain err", "report", "done", "threw"}
      BY DEF TypeOK
    <3>2. parent \notin {"open in", "open out", "open err", "fork", "close", "input", "report"}
      BY DEF ParentMayStep
    <3> QED BY <2>1, <3>1, <3>2 DEF Ended
  <2>3. child # "ended" BY <2>2 DEF ParentMayStep
  <2>4. child \in {"forked", "exec", "running", "ended"} BY <2>2 DEF ProcessInv
  <2> QED BY <2>2, <2>3, <2>4 DEF ChildMayStep
<1>3. ~Held(End("in", "write")) BY <1>2 DEF EndsInv, Held
<1>4. ~reading /\ written # command
  <2>1. ~reading BY <1>2, <1>3, Zenon DEF ChildMayStep
  <2> QED BY <1>2, <2>1, Zenon DEF ChildMayStep
<1>5. PICK s \in Streams : written[s] # command[s]
  <2>1. written \in [Streams -> Nat] /\ command \in [Streams -> Nat] BY DEF TypeOK
  <2> HIDE DEF ProgressInv, CommandInv
  <2> QED BY <1>4, <2>1
<1>6. written[s] < command[s]
  <2>1. written[s] \in Nat /\ command[s] \in Nat /\ written[s] <= command[s] BY DEF TypeOK, EndsInv
  <2> QED BY <1>5, <2>1
<1>7. InPipe(s) = Capacity
  <2>1. InPipe(s) \in Nat /\ Capacity \in Nat /\ InPipe(s) <= Capacity
    <3>1. written[s] \in Nat /\ collected[s] \in Nat /\ collected[s] <= written[s] BY DEF TypeOK
    <3>2. written[s] - collected[s] \in Nat BY <3>1
    <3> QED BY <3>2 DEF TypeOK, InPipe, CommandAssumption
  <2>2. ~(InPipe(s) < Capacity) BY <1>2, <1>4, <1>6 DEF ChildMayStep, HasRoom
  <2> QED BY <2>1, <2>2
<1> QED BY <1>2, <1>6, <1>7 DEF BlockedOnFullPipe

LEMMA WhatFitsHasRoom ==
  ASSUME CommandAssumption, ProgressInv, Fits PROVE ~BlockedOnFullPipe
<1> SUFFICES ASSUME parent = "wait", NEW s \in Streams, written[s] < command[s], InPipe(s) = Capacity
             PROVE  FALSE
  BY DEF BlockedOnFullPipe
<1>1. collected[s] = 0 BY DEF ProgressInv, EndsInv
<1>2. written[s] \in Nat /\ command[s] \in Nat /\ command[s] <= Capacity /\ Capacity \in Nat
  BY DEF ProgressInv, CommandInv, TypeOK, Fits, CommandAssumption
<1> QED BY <1>1, <1>2 DEF InPipe

(* Until execute returns, the parent or the child has a step to take,      *)
(* unless the child fills a pipe that nobody reads while the parent waits  *)
(* for its end (SystemUtil.cpp:99): no wait for an end of file, for the    *)
(* end of a child or for room in a pipe is in vain otherwise, and none is  *)
(* when all a command prints fits in its pipes.                            *)
THEOREM OnlyOutputBlocks ==
  ASSUME CommandAssumption PROVE Spec => [](OnlyFullPipesBlock /\ WhatFitsNeverBlocks)
<1>1. ProgressInv => OnlyFullPipesBlock /\ WhatFitsNeverBlocks
  BY WaitingIsForRoom, WhatFitsHasRoom DEF OnlyFullPipesBlock, WhatFitsNeverBlocks
<1> QED BY <1>1, ProgressInvariant, PTL

LEMMA PointsLeft ==
  /\ ParentLeft("open in") = 10 /\ ParentLeft("open out") = 9 /\ ParentLeft("open err") = 8
  /\ ParentLeft("fork") = 7 /\ ParentLeft("close") = 6 /\ ParentLeft("input") = 5
  /\ ParentLeft("wait") = 4 /\ ParentLeft("drain out") = 3 /\ ParentLeft("drain err") = 2
  /\ ParentLeft("report") = 1 /\ ParentLeft("done") = 0 /\ ParentLeft("threw") = 0
BY DEF ParentLeft

LEMMA StatesLeft ==
  /\ ChildLeft("none") = 5 /\ ChildLeft("forked") = 4 /\ ChildLeft("exec") = 3
  /\ ChildLeft("running") = 2 /\ ChildLeft("ended") = 1 /\ ChildLeft("reaped") = 0
BY DEF ChildLeft

LEMMA PointsInOrder ==
  /\ ParentLeft("open out") < ParentLeft("open in") /\ ParentLeft("open err") < ParentLeft("open out")
  /\ ParentLeft("fork") < ParentLeft("open err") /\ ParentLeft("close") < ParentLeft("fork")
  /\ ParentLeft("input") < ParentLeft("close") /\ ParentLeft("wait") < ParentLeft("input")
  /\ ParentLeft("drain out") < ParentLeft("wait") /\ ParentLeft("drain err") < ParentLeft("drain out")
  /\ ParentLeft("report") < ParentLeft("drain err") /\ ParentLeft("done") < ParentLeft("report")
  /\ \A p \in {"open in", "open out", "open err", "fork", "input", "drain out", "drain err"} :
       ParentLeft("threw") < ParentLeft(p)
<1>1. /\ 9 < 10 /\ 8 < 9 /\ 7 < 8 /\ 6 < 7 /\ 5 < 6 /\ 4 < 5 /\ 3 < 4 /\ 2 < 3 /\ 1 < 2 /\ 0 < 1
      /\ 0 < 10 /\ 0 < 9 /\ 0 < 8 /\ 0 < 7 /\ 0 < 5 /\ 0 < 3 /\ 0 < 2
  OBVIOUS
<1> QED BY <1>1, PointsLeft

LEMMA StatesInOrder ==
  /\ ChildLeft("forked") < ChildLeft("none") /\ ChildLeft("exec") < ChildLeft("forked")
  /\ ChildLeft("running") < ChildLeft("exec") /\ ChildLeft("ended") < ChildLeft("exec")
  /\ ChildLeft("ended") < ChildLeft("running") /\ ChildLeft("reaped") < ChildLeft("ended")
<1>1. 4 < 5 /\ 3 < 4 /\ 2 < 3 /\ 1 < 3 /\ 1 < 2 /\ 0 < 1 OBVIOUS
<1> QED BY <1>1, StatesLeft

WorkIsCounted ==
  /\ ParentLeft(parent) \in Nat /\ ChildLeft(child) \in Nat /\ InputLeft \in Nat
  /\ OutputLeft("out") \in Nat /\ OutputLeft("err") \in Nat

LEMMA ProgressCounts == ASSUME ProgressInv PROVE WorkIsCounted
<1> USE DEF ProgressInv, CommandInv
<1>1. ParentLeft(parent) \in Nat
  <2>1. parent \in {"open in", "open out", "open err", "fork", "close", "input", "wait",
                    "drain out", "drain err", "report", "done", "threw"}
    BY DEF TypeOK
  <2> HIDE DEF ProgressInv, CommandInv
  <2>2. 0 \in Nat /\ 1 \in Nat /\ 2 \in Nat /\ 3 \in Nat /\ 4 \in Nat /\ 5 \in Nat /\ 6 \in Nat
        /\ 7 \in Nat /\ 8 \in Nat /\ 9 \in Nat /\ 10 \in Nat
    OBVIOUS
  <2> QED BY <2>1, <2>2, PointsLeft
<1>2. ChildLeft(child) \in Nat
  <2>1. child \in {"none", "forked", "exec", "running", "ended", "reaped"} BY DEF TypeOK
  <2> HIDE DEF ProgressInv, CommandInv
  <2> QED BY <2>1, StatesLeft
<1>3. InputLeft \in Nat BY DEF InputLeft
<1>4. ASSUME NEW s \in Streams PROVE OutputLeft(s) \in Nat
  <2>1. /\ written[s] \in Nat /\ collected[s] \in Nat /\ command[s] \in Nat
        /\ collected[s] <= written[s] /\ written[s] <= command[s]
    BY DEF TypeOK, EndsInv
  <2> HIDE DEF ProgressInv, CommandInv
  <2>2. command[s] - written[s] \in Nat /\ command[s] - collected[s] \in Nat BY <2>1
  <2> QED BY <2>2 DEF OutputLeft
<1> QED BY <1>1, <1>2, <1>3, <1>4 DEF WorkIsCounted, Streams

WorkInv == ProgressInv /\ WorkIsCounted

LEMMA WorkInvariant == ASSUME CommandAssumption PROVE Spec => []WorkInv
<1>1. ProgressInv => WorkInv
  BY ProgressCounts DEF WorkInv
<1> QED BY <1>1, ProgressInvariant, PTL

(* No part of the work grows and one becomes less. *)
LEMMA LessWork ==
  ASSUME WorkIsCounted, WorkIsCounted',
         ParentLeft(parent') <= ParentLeft(parent), ChildLeft(child') <= ChildLeft(child),
         InputLeft' <= InputLeft, OutputLeft("out")' <= OutputLeft("out"),
         OutputLeft("err")' <= OutputLeft("err"),
         \/ ParentLeft(parent') < ParentLeft(parent) \/ ChildLeft(child') < ChildLeft(child)
         \/ InputLeft' < InputLeft \/ OutputLeft("out")' < OutputLeft("out")
         \/ OutputLeft("err")' < OutputLeft("err")
  PROVE  Work' < Work
BY DEF WorkIsCounted, Work

(* A unit that is written or read. *)
LEMMA OneUnitLess ==
  ASSUME WorkInv, WorkInv', NEW s \in Streams, command' = command,
         \/ collected' = collected /\ written' = [written EXCEPT ![s] = @ + 1]
         \/ written' = written /\ collected' = [collected EXCEPT ![s] = @ + 1],
         ParentLeft(parent') <= ParentLeft(parent), ChildLeft(child') <= ChildLeft(child),
         InputLeft' <= InputLeft
  PROVE  Work' < Work
<1>1. ASSUME NEW t \in Streams
      PROVE  /\ OutputLeft(t)' <= OutputLeft(t) /\ (t = s => OutputLeft(t)' < OutputLeft(t))
  <2>1. written[t] \in Nat /\ collected[t] \in Nat /\ command[t] \in Nat
    BY DEF WorkInv, ProgressInv, CommandInv, TypeOK
  <2>2. \/ collected'[t] = collected[t] /\ written'[t] = IF t = s THEN written[t] + 1 ELSE written[t]
        \/ written'[t] = written[t]
           /\ collected'[t] = IF t = s THEN collected[t] + 1 ELSE collected[t]
    BY DEF WorkInv, ProgressInv, CommandInv, TypeOK
  <2> QED BY <2>1, <2>2 DEF OutputLeft
<1>2. WorkIsCounted /\ WorkIsCounted' BY DEF WorkInv
<1>3. \/ OutputLeft("out")' < OutputLeft("out") \/ OutputLeft("err")' < OutputLeft("err")
  BY <1>1 DEF Streams
<1>4. OutputLeft("out")' <= OutputLeft("out") /\ OutputLeft("err")' <= OutputLeft("err")
  BY <1>1 DEF Streams
<1> QED BY <1>2, <1>3, <1>4, LessWork

(* A step of either process that neither writes nor reads. *)
LEMMA OneStepLess ==
  ASSUME WorkInv, WorkInv', UNCHANGED <<command, written, collected>>,
         ParentLeft(parent') <= ParentLeft(parent), ChildLeft(child') <= ChildLeft(child),
         \/ InputLeft' = InputLeft
            /\ (ParentLeft(parent') < ParentLeft(parent) \/ ChildLeft(child') < ChildLeft(child))
         \/ InputLeft' < InputLeft
  PROVE  Work' < Work
<1>1. WorkIsCounted /\ WorkIsCounted' BY DEF WorkInv
<1>2. OutputLeft("out")' = OutputLeft("out") /\ OutputLeft("err")' = OutputLeft("err")
  BY DEF OutputLeft
<1>3. /\ InputLeft' <= InputLeft /\ OutputLeft("out")' <= OutputLeft("out")
      /\ OutputLeft("err")' <= OutputLeft("err")
  BY <1>1, <1>2 DEF WorkIsCounted
<1> QED BY <1>1, <1>3, LessWork

LEMMA ParentWorks ==
  ASSUME CommandAssumption, WorkInv, WorkInv', Parent PROVE Work' < Work
<1> USE DEF childVars
<1>0. /\ ParentLeft(parent) \in Nat /\ ChildLeft(child) \in Nat
      /\ ParentLeft(parent') \in Nat /\ ChildLeft(child') \in Nat
  BY DEF WorkInv, WorkIsCounted
<1>1. ASSUME UNCHANGED <<child, command, reading, written, collected>>,
             ParentLeft(parent') < ParentLeft(parent)
      PROVE  Work' < Work
  <2>1. InputLeft' = InputLeft BY <1>1 DEF InputLeft
  <2>2. ParentLeft(parent') \in Nat BY DEF WorkInv, WorkIsCounted
  <2> QED BY <1>0, <1>1, <2>1, <2>2, OneStepLess
<1>2. ASSUME NEW pipe \in Pipes, OpenPipe(pipe) PROVE Work' < Work
  <2>1. parent = Opening[pipe] /\ (parent' = AfterOpening[pipe] \/ parent' = "threw")
    BY <1>2 DEF OpenPipe
  <2>2. ParentLeft(parent') < ParentLeft(parent)
    BY <2>1, Points, PointsInOrder DEF Pipes, Streams
  <2> QED BY <1>1, <1>2, <2>2 DEF OpenPipe
<1>3. CASE Fork
  <2>1. UNCHANGED <<command, reading, written, collected>> /\ child = "none"
    BY <1>3 DEF Fork, WorkInv, ProgressInv, CommandInv, ProcessInv
  <2>2. parent = "fork" /\ parent' \in {"close", "threw"} /\ child' \in {"forked", "none"}
    BY <1>3, <2>1 DEF Fork
  <2>3. ParentLeft(parent') < ParentLeft(parent) BY <2>2, PointsInOrder
  <2>4. child' = child \/ ChildLeft(child') < ChildLeft(child)
    BY <2>1, <2>2, StatesInOrder
  <2>5. InputLeft' = InputLeft BY <2>1 DEF InputLeft
  <2>6. ParentLeft(parent') <= ParentLeft(parent) /\ ChildLeft(child') <= ChildLeft(child)
    BY <1>0, <2>3, <2>4
  <2> QED BY <2>1, <2>3, <2>5, <2>6, OneStepLess
<1>4. CASE CloseUnused
  <2>1. ParentLeft(parent') < ParentLeft(parent) BY <1>4, PointsInOrder DEF CloseUnused
  <2> QED BY <1>1, <1>4, <2>1 DEF CloseUnused
<1>5. CASE CloseInput
  <2>1. ParentLeft(parent') < ParentLeft(parent) BY <1>5, PointsInOrder DEF CloseInput
  <2> QED BY <1>1, <1>5, <2>1 DEF CloseInput
<1>6. CASE Wait
  <2>1. ParentLeft(parent') < ParentLeft(parent) /\ ChildLeft(child') < ChildLeft(child)
    BY <1>6, PointsInOrder, StatesInOrder DEF Wait
  <2>4. ParentLeft(parent') <= ParentLeft(parent) /\ ChildLeft(child') <= ChildLeft(child)
    BY <1>0, <2>1
  <2>2. InputLeft' = InputLeft BY <1>6 DEF Wait, InputLeft
  <2>3. UNCHANGED <<command, written, collected>> BY <1>6 DEF Wait
  <2> QED BY <2>1, <2>2, <2>3, <2>4, OneStepLess
<1>7. ASSUME NEW s \in Streams, Drain(s) PROVE Work' < Work
  <2>1. CASE collected' = [collected EXCEPT ![s] = @ + 1] /\ UNCHANGED parent
    <3>1. UNCHANGED <<parent, child, command, reading, written>> BY <1>7, <2>1 DEF Drain
    <3>2. ParentLeft(parent') <= ParentLeft(parent) /\ ChildLeft(child') <= ChildLeft(child)
      BY <1>0, <3>1
    <3>3. InputLeft' <= InputLeft BY <3>1 DEF InputLeft
    <3> QED BY <2>1, <3>1, <3>2, <3>3, OneUnitLess
  <2>2. CASE parent' = AfterDraining[s] /\ UNCHANGED collected
    <3>1. ParentLeft(parent') < ParentLeft(parent)
      BY <1>7, <2>2, Points, PointsInOrder DEF Drain, Streams
    <3> QED BY <1>1, <1>7, <2>2, <3>1 DEF Drain
  <2>3. CASE parent' = "threw" /\ UNCHANGED collected
    <3>1. ParentLeft(parent') < ParentLeft(parent)
      BY <1>7, <2>3, Points, PointsInOrder DEF Drain, Streams
    <3> QED BY <1>1, <1>7, <2>3, <3>1 DEF Drain
  <2> QED BY <1>7, <2>1, <2>2, <2>3 DEF Drain
<1>8. CASE Report
  <2>1. ParentLeft(parent') < ParentLeft(parent) BY <1>8, PointsInOrder DEF Report
  <2> QED BY <1>1, <1>8, <2>1 DEF Report
<1> QED BY <1>2, <1>3, <1>4, <1>5, <1>6, <1>7, <1>8 DEF Parent

LEMMA ChildWorks ==
  ASSUME CommandAssumption, WorkInv, WorkInv', Child \/ Kill PROVE Work' < Work
<1>0. /\ ParentLeft(parent) \in Nat /\ ChildLeft(child) \in Nat
      /\ ParentLeft(parent') \in Nat /\ ChildLeft(child') \in Nat
  BY DEF WorkInv, WorkIsCounted
<1>1. UNCHANGED <<parent, collected, command>>
  BY DEF Child, Kill, Redirect, Execute, EndOfInput, Write, ExitWith, Die
<1>2. ParentLeft(parent') <= ParentLeft(parent) BY <1>0, <1>1
<1>3. ASSUME UNCHANGED <<reading, written>>, ChildLeft(child') < ChildLeft(child)
      PROVE  Work' < Work
  <2>1. InputLeft' = InputLeft BY <1>3 DEF InputLeft
  <2>2. ChildLeft(child') \in Nat BY DEF WorkInv, WorkIsCounted
  <2> QED BY <1>0, <1>1, <1>2, <1>3, <2>1, <2>2, OneStepLess
<1>4. CASE Redirect
  <2>1. ChildLeft(child') < ChildLeft(child) BY <1>4, StatesInOrder DEF Redirect
  <2> QED BY <1>3, <1>4, <2>1 DEF Redirect
<1>5. ASSUME NEW v, child \in {"exec", "running"}, Die(v) PROVE Work' < Work
  <2>1. ChildLeft(child') < ChildLeft(child) BY <1>5, StatesInOrder DEF Die
  <2> QED BY <1>3, <1>5, <2>1 DEF Die
<1>6. CASE Execute
  <2>1. CASE child' = "running" /\ UNCHANGED <<reading, written>>
    <3>1. ChildLeft(child') < ChildLeft(child) BY <1>6, <2>1, StatesInOrder DEF Execute
    <3> QED BY <1>3, <2>1, <3>1
  <2> QED BY <1>5, <1>6, <2>1 DEF Execute
<1>7. CASE EndOfInput
  <2>1. InputLeft' < InputLeft BY <1>7 DEF EndOfInput, InputLeft
  <2>2. ChildLeft(child') <= ChildLeft(child) BY <1>0, <1>7 DEF EndOfInput
  <2>3. UNCHANGED <<command, written, collected>> BY <1>7 DEF EndOfInput
  <2> QED BY <1>2, <2>1, <2>2, <2>3, OneStepLess
<1>8. ASSUME NEW s \in Streams, Write(s) PROVE Work' < Work
  <2>1. ChildLeft(child') <= ChildLeft(child) BY <1>0, <1>8 DEF Write
  <2>2. InputLeft' <= InputLeft BY <1>8 DEF Write, InputLeft
  <2>3. written' = [written EXCEPT ![s] = @ + 1] /\ UNCHANGED <<command, collected>>
    BY <1>8 DEF Write
  <2> QED BY <1>2, <2>1, <2>2, <2>3, OneUnitLess
<1> QED BY <1>4, <1>5, <1>6, <1>7, <1>8 DEF Child, Kill, ExitWith

(* Every step of the parent or of the child, also one that fails or kills  *)
(* the child, leaves less to do: a call of execute cannot go on for ever   *)
(* (SystemUtil.cpp:18-122).                                                *)
THEOREM CommandsRunDown == ASSUME CommandAssumption PROVE Spec => [][Work' < Work]_vars
<1>1. WorkInv /\ WorkInv' /\ [Next]_vars => [Work' < Work]_vars
  BY ParentWorks, ChildWorks DEF Next
<1> QED BY <1>1, WorkInvariant, PTL DEF Spec
=============================================================================

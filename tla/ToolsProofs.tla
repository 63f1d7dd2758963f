----------------------------- MODULE ToolsProofs -----------------------------
(***************************************************************************)
(* What starktest and starkc conclude from the commands they run, for any  *)
(* numbers of files and tests, pipes of any capacity and commands that     *)
(* print any amount.  The invariant of a command (CommandProofs) holds     *)
(* before the first command too and through every step of a tool.          *)
(* What is proved of a command's progress becomes progress of the tool.    *)
(***************************************************************************)
EXTENDS Tools, CommandProofs, FiniteSetTheorems

(* a test was started and is not counted yet *)
Pending == step \in {"command", "judge"}
CommandOver == step # "command" \/ child \in {"ended", "reaped"}
Here == <<file, test>>
Key(r) == <<r.file, r.test>>

(* the tests whose commands ended, and those among them that are counted *)
Before(t) == t[1] < file \/ (t[1] = file /\ t[2] < test)
Ran(t) == Before(t) \/ (t = Here /\ test # 0 /\ CommandOver)
Counted == {r \in results : ~(Pending /\ Key(r) = Here)}
Good == {r \in Counted : r.outcome \in {"ok", "lost"}}
Bad == {r \in Counted : r.outcome \in {"not ok"}}

(* where each tool can be *)
PlaceInv ==
  /\ tool = "starktest" => step \in {"open", "test", "judge", "command", "end"}
  /\ tool = "starkc" => step \in {"build", "runtime", "object", "link", "linked", "command", "end"}
  /\ ending = "running" <=> step # "end"
  /\ step = "judge" => parent = "done"
  /\ (parent = "done" /\ verdict.how # "exited") => exitStatus = 0
  /\ step \notin {"command", "end"} => parentEnds = {}

(* starktest: files before this one were legal and are done *)
FileInv ==
  (tool = "starktest" /\ ending \in {"running", "returned"}) =>
    /\ file # 0
    /\ \A f \in DOMAIN files : f < file => files[f].kind = "legal"
    /\ step = "open" => test = 0
    /\ step \in {"test", "judge", "command"} =>
         file \in DOMAIN files /\ files[file].kind = "legal" /\ test <= files[file].tests
    /\ Pending => test # 0
    /\ step = "end" => file \notin DOMAIN files /\ test = 0

(* starktest: one result for each test that was run *)
ResultInv ==
  (tool = "starktest" /\ ending \in {"running", "returned"}) =>
    /\ \A r \in results : Key(r) \in Tests /\ Ran(Key(r))
    /\ \A t \in Tests : Ran(t) => \E r \in results : Key(r) = t
    /\ \A r, s \in results : Key(r) = Key(s) => r = s
    /\ Pending => \A r \in results : Key(r) = Here => r.outcome = Outcome(verdict)

CountInv ==
  (tool = "starktest" /\ ending \in {"running", "returned"}) =>
    /\ passed = Cardinality(Good)
    /\ failed = Cardinality(Bad)
    /\ exitCode = 0 <=> Bad = {}

(* starkc: what is on disk at each step *)
LinkInv ==
  tool = "starkc" =>
    /\ step \in {"build", "runtime", "object", "link"} => disk.executable = "old"
    /\ step \in {"link", "command", "linked"} => job.linker /\ disk.object = "new"
    /\ step = "linked" => parent = "done"
    /\ (step \in {"command", "linked"} /\ verdict = Exited(0)) => disk.executable = "new"
    /\ ending = "returned" =>
         /\ disk.object = "new"
         /\ (job.linker /\ verdict.how = "exited") => disk.executable = "new"
         /\ ~job.linker => disk.executable = "old"

ToolsInv ==
  ToolsTypeOK /\ CommandInv /\ PlaceInv /\ FileInv /\ ResultInv /\ CountInv /\ LinkInv

-----------------------------------------------------------------------------
(* Command's invariant at the beginning of a command, if the one before    *)
(* left no descriptors, and in any state that leaves its variables alone.  *)
LEMMA InitCommandNext == ASSUME CommandAssumption PROVE Init' => CommandInv'
<1>1. Init => CommandInv
  BY InitCommandInv
<1> QED BY <1>1, PTL

LEMMA LaunchedCommand ==
  ASSUME CommandAssumption, parentEnds = {}, Execution PROVE CommandInv'
<1>1. PICK c \in [Streams -> 0..MaxOutput], r \in BOOLEAN : Launch(c, r)
  BY DEF Execution
<1>2. Init'
  BY <1>1 DEF Launch, Init
<1> QED BY <1>2, InitCommandNext

LEMMA CommandInvUnchanged == ASSUME CommandInv, UNCHANGED vars PROVE CommandInv'
  BY DEF vars, CommandInv, TypeOK, InPipe, ProcessInv, AfterWait

(* What the end of a command says of its status.                           *)
LEMMA JudgingPlaces == Judging["starktest"] = "judge" /\ Judging["starkc"] = "linked"
  BY DEF Judging

LEMMA OutcomeValues ==
  ASSUME NEW v \in {Running, Exited(0), Exited(1), Signaled, NotExecuted}
  PROVE  /\ Outcome(v) \in {"ok", "not ok", "lost"}
         /\ Outcome(v) = "not ok" <=> (v.how = "exited" /\ v.code # 0)
         /\ v.code \in {0, 1}
<1>1. /\ Running.code = 0 /\ Signaled.code = 0 /\ NotExecuted.code = 0
      /\ Exited(0).code = 0 /\ Exited(1).code = 1
  BY DEF Running, Exited, Signaled, NotExecuted
<1> QED BY <1>1 DEF Outcome
-----------------------------------------------------------------------------
(* Initially nothing was run.                                              *)
LEMMA InitToolsInv ==
  ASSUME CommandAssumption, ToolsAssumption, ToolsInit PROVE ToolsInv
<1>1. CommandInv
  BY InitCommandInv DEF ToolsInit
<1>2. files \in UNION {[1..n -> File] : n \in 0..MaxFiles}
  <2>1. CASE tool = "starktest"
    <3>1. files \in UNION {[1..n -> File] : n \in 1..MaxFiles}
      BY <2>1 DEF ToolsInit
    <3>2. PICK n \in 1..MaxFiles : files \in [1..n -> File]
      BY <3>1
    <3> QED BY <3>2, 1..MaxFiles \subseteq 0..MaxFiles DEF ToolsAssumption
  <2>2. CASE tool # "starktest"
    <3>1. files = [i \in {} |-> 0]
      BY <2>2 DEF ToolsInit
    <3>2. files \in [1..0 -> File] /\ 0 \in 0..MaxFiles
      BY <3>1, 1..0 = {} DEF ToolsAssumption
    <3> QED BY <3>2
  <2> QED BY <2>1, <2>2
<1>3. job \in Job
  BY DEF ToolsInit, Job
<1>4. results \subseteq Result /\ IsFiniteSet(results)
  BY FS_EmptySet DEF ToolsInit
<1>5. ToolsTypeOK
  BY <1>1, <1>2, <1>3, <1>4 DEF ToolsInit, ToolsTypeOK, CommandInv
<1>6. PlaceInv /\ FileInv
  <2>1. tool = "starktest" => \A f \in DOMAIN files : ~(f < 1)
    <3> SUFFICES ASSUME NEW n \in Nat, files \in [1..n -> File], NEW f \in DOMAIN files PROVE ~(f < 1)
      BY <1>2 DEF ToolsAssumption
    <3> QED OBVIOUS
  <2>2. PlaceInv
    BY DEF ToolsInit, Init, PlaceInv, Running
  <2>3. file = 1 /\ test = 0 /\ step \in {"open", "build"} /\ (tool = "starktest" => step = "open")
    BY DEF ToolsInit
  <2>4. FileInv
    BY <2>1, <2>3 DEF FileInv, Pending
  <2> QED BY <2>2, <2>4
<1>7. ResultInv
  <2>1. ASSUME NEW t \in Tests PROVE ~Ran(t)
    <3>1. PICK n \in Nat : files \in [1..n -> File]
      BY <1>2 DEF ToolsAssumption
    <3>2. t[1] \in 1..n
      BY <3>1 DEF Tests
    <3>3. file = 1 /\ test = 0 /\ t[2] \in Nat \ {0}
      BY DEF ToolsInit, Tests
    <3> QED BY <3>2, <3>3 DEF Ran, Before
  <2> QED BY <2>1 DEF ToolsInit, ResultInv, Pending
<1>8. CountInv
  <2>1. Good = {} /\ Bad = {}
    BY DEF ToolsInit, Good, Bad, Counted
  <2> QED BY <2>1, FS_EmptySet DEF ToolsInit, CountInv
<1>9. LinkInv
  BY DEF ToolsInit, Init, LinkInv, Running, Exited
<1> QED BY <1>1, <1>5, <1>6, <1>7, <1>8, <1>9 DEF ToolsInv

-----------------------------------------------------------------------------
(* The set of tests is one of pairs of numbers. *)
LEMMA TestsAreNumbered ==
  ASSUME ToolsAssumption, ToolsTypeOK, NEW t \in Tests
  PROVE  /\ t[1] \in Nat /\ t[2] \in Nat \ {0} /\ t = <<t[1], t[2]>>
         /\ t[1] \in DOMAIN files /\ t[2] <= files[t[1]].tests
         /\ t[1] # 0
<1>1. PICK n \in 0..MaxFiles : files \in [1..n -> File]
  BY DEF ToolsTypeOK
<1>2. t \in (1..n) \X (1..MaxTests) /\ t[2] <= files[t[1]].tests
  BY <1>1 DEF Tests
<1> QED BY <1>1, <1>2 DEF ToolsAssumption

(* The number of tests of a file, and the indices of files. *)
LEMMA FilesAreNumbered ==
  ASSUME ToolsAssumption, ToolsTypeOK
  PROVE  /\ \A f \in DOMAIN files : f \in Nat /\ files[f].tests \in 0..MaxTests
         /\ \E n \in Nat : DOMAIN files = 1..n
<1>1. PICK n \in 0..MaxFiles : files \in [1..n -> File]
  BY DEF ToolsTypeOK
<1>2. \A f \in File : f.tests \in 0..MaxTests
  BY DEF File, ToolsAssumption
<1> QED BY <1>1, <1>2 DEF ToolsAssumption

(* A step of the tool that leaves the command's variables, the files and   *)
(* the counters alone. *)
LEMMA OpenFileInv ==
  ASSUME CommandAssumption, ToolsAssumption, ToolsInv, OpenFile PROVE ToolsInv'
<1>1. CommandInv'
  BY CommandInvUnchanged DEF OpenFile, ToolsInv
<1>2. step = "open" /\ tool = "starktest" /\ ending = "running" /\ test = 0
  BY DEF OpenFile, ToolsInv, PlaceInv, FileInv, ToolsTypeOK
<1>3. UNCHANGED <<vars, inputs, counters, disk>>
  BY DEF OpenFile
<1>4. \/ step' = "test" /\ ending' = ending /\ file \in DOMAIN files /\ files[file].kind = "legal"
      \/ step' = "end" /\ ending' = "exited"
      \/ step' = "end" /\ ending' = "returned" /\ file \notin DOMAIN files
  BY DEF OpenFile, Go, Leave
<1>5. ToolsTypeOK'
  BY <1>1, <1>3, <1>4 DEF ToolsInv, ToolsTypeOK, CommandInv, inputs, counters
<1>6. PlaceInv'
  BY <1>2, <1>3, <1>4 DEF ToolsInv, PlaceInv, inputs, vars, Ended
<1>7. FileInv'
  <2>1. file \in DOMAIN files => 0 <= files[file].tests
    BY FilesAreNumbered DEF ToolsInv
  <2> QED BY <1>2, <1>3, <1>4, <2>1 DEF ToolsInv, FileInv, inputs, counters, Pending
<1>8. (Counted = results)' /\ Counted = results /\ results' = results
  BY <1>2, <1>3, <1>4 DEF Counted, Pending, counters
<1>9. ResultInv'
  <2>1. \A t : Ran(t)' <=> Ran(t)
    BY <1>2, <1>3, <1>4 DEF Ran, Before, counters, CommandOver
  <2>2. Tests' = Tests
    BY <1>3 DEF Tests, inputs
  <2> QED BY <1>2, <1>3, <1>4, <2>1, <2>2 DEF ToolsInv, ResultInv, Pending, counters, Key
<1>10. CountInv'
  <2>1. Good' = Good /\ Bad' = Bad
    BY <1>8 DEF Good, Bad
  <2> QED BY <1>2, <1>3, <1>4, <2>1 DEF ToolsInv, CountInv, counters, inputs
<1>11. LinkInv'
  BY <1>2, <1>3 DEF LinkInv, inputs
<1> QED BY <1>1, <1>5, <1>6, <1>7, <1>9, <1>10, <1>11 DEF ToolsInv

(* Starting a test: its key is new, so that all results stay counted. *)
LEMMA RunTestInv ==
  ASSUME CommandAssumption, ToolsAssumption, ToolsInv, RunTest PROVE ToolsInv'
<1>1. CommandInv'
  BY LaunchedCommand DEF RunTest, ToolsInv, PlaceInv
<1>2. /\ step = "test" /\ tool = "starktest" /\ ending = "running"
      /\ file \in DOMAIN files /\ files[file].kind = "legal" /\ test < files[file].tests
  BY DEF RunTest, ToolsInv, PlaceInv, FileInv, ToolsTypeOK
<1>3. /\ UNCHANGED <<inputs, file, passed, failed, exitCode, results, disk>>
      /\ test' = test + 1
  BY DEF RunTest
<1>4. /\ step' = "command" /\ ending' = ending
      /\ parent' = "open in" /\ child' = "none"
  BY DEF RunTest, Execution, Launch, Go
<1>a. file \in Nat /\ test \in Nat /\ files[file].tests \in Nat
  BY <1>2, FilesAreNumbered DEF ToolsInv, ToolsTypeOK, ToolsAssumption
<1>b. test + 1 \in Nat /\ test + 1 # 0 /\ test + 1 <= files[file].tests
  BY <1>2, <1>a
<1>5. ToolsTypeOK'
  <2>1. test' \in Nat
    BY <1>3, <1>b
  <2> QED BY <1>1, <1>3, <1>4, <2>1 DEF ToolsInv, ToolsTypeOK, CommandInv, inputs
<1>6. PlaceInv'
  BY <1>2, <1>3, <1>4 DEF ToolsInv, PlaceInv, inputs, Ended
<1>7. FileInv'
  <2>1. test' # 0 /\ test' <= files[file].tests
    BY <1>3, <1>b
  <2> QED BY <1>2, <1>3, <1>4, <2>1 DEF ToolsInv, FileInv, inputs, Pending
<1>8. Tests' = Tests
  BY <1>3 DEF Tests, inputs
<1>9. ASSUME NEW t \in Tests PROVE Ran(t)' <=> Ran(t)
  <2>1. /\ t[1] \in Nat /\ t[2] \in Nat \ {0} /\ t = <<t[1], t[2]>>
    BY TestsAreNumbered DEF ToolsInv
  <2>2. Ran(t)' <=> (t[1] < file \/ (t[1] = file /\ t[2] < test + 1))
    BY <1>3, <1>4 DEF Ran, Before, CommandOver
  <2>3. Ran(t) <=> (t[1] < file \/ (t[1] = file /\ t[2] <= test))
    BY <1>2, <1>a, <2>1 DEF Ran, Before, CommandOver, Here
  <2> QED BY <1>a, <2>1, <2>2, <2>3
<1>10. \A r \in results : Key(r) # <<file, test + 1>>
  <2> SUFFICES ASSUME NEW r \in results, Key(r) = <<file, test + 1>> PROVE FALSE
    OBVIOUS
  <2>1. Key(r) \in Tests /\ Ran(Key(r))
    BY <1>2 DEF ToolsInv, ResultInv
  <2>2. Key(r)[1] = file /\ Key(r)[2] = test + 1
    OBVIOUS
  <2>3. <<file, test + 1>> # <<file, test>>
    BY <1>a
  <2> QED BY <1>a, <2>1, <2>2, <2>3 DEF Ran, Before, Here
<1>11. (Counted = results)' /\ Counted = results
  <2>1. Here' = <<file, test + 1>> /\ \A r : Key(r)' = Key(r)
    BY <1>3 DEF Here, Key
  <2>2. Counted' = {r \in results : ~(Key(r) = <<file, test + 1>>)}
    BY <1>3, <1>4, <2>1 DEF Counted, Pending
  <2> QED BY <1>2, <1>3, <1>10, <2>2 DEF Counted, Pending
<1>12. ResultInv'
  <2>1. Here' = <<file, test + 1>> /\ \A r : Key(r)' = Key(r)
    BY <1>3 DEF Here, Key
  <2> QED BY <1>2, <1>3, <1>4, <1>8, <1>9, <1>10, <2>1 DEF ToolsInv, ResultInv
<1>13. CountInv'
  <2>1. Good' = Good /\ Bad' = Bad
    BY <1>3, <1>11 DEF Good, Bad
  <2> QED BY <1>2, <1>3, <1>4, <2>1 DEF ToolsInv, CountInv, inputs
<1>14. LinkInv'
  BY <1>2, <1>3 DEF LinkInv, inputs
<1> QED BY <1>1, <1>5, <1>6, <1>7, <1>12, <1>13, <1>14 DEF ToolsInv

(* After the last test of a file, the first of the next one. *)
LEMMA CloseFileInv ==
  ASSUME CommandAssumption, ToolsAssumption, ToolsInv, CloseFile PROVE ToolsInv'
<1>1. CommandInv'
  BY CommandInvUnchanged DEF CloseFile, ToolsInv
<1>2. /\ step = "test" /\ tool = "starktest" /\ ending = "running"
      /\ file \in DOMAIN files /\ files[file].kind = "legal" /\ test = files[file].tests
  BY DEF CloseFile, ToolsInv, PlaceInv, FileInv, ToolsTypeOK
<1>3. /\ UNCHANGED <<vars, inputs, passed, failed, exitCode, results, disk>>
      /\ file' = file + 1 /\ test' = 0
  BY DEF CloseFile
<1>4. step' = "open" /\ ending' = ending
  BY DEF CloseFile, Go
<1>a. file \in Nat /\ test \in Nat /\ DOMAIN files \subseteq Nat
  BY <1>2, FilesAreNumbered DEF ToolsInv, ToolsTypeOK
<1>5. ToolsTypeOK'
  BY <1>1, <1>3, <1>4, <1>a DEF ToolsInv, ToolsTypeOK, CommandInv, inputs
<1>6. PlaceInv'
  BY <1>2, <1>3, <1>4 DEF ToolsInv, PlaceInv, inputs, vars, Ended
<1>7. FileInv'
  <2>1. file + 1 # 0 /\ \A f \in DOMAIN files : f < file + 1 => f < file \/ f = file
    BY <1>a
  <2> QED BY <1>2, <1>3, <1>4, <2>1 DEF ToolsInv, FileInv, inputs, Pending
<1>8. Tests' = Tests
  BY <1>3 DEF Tests, inputs
<1>9. ASSUME NEW t \in Tests PROVE Ran(t)' <=> Ran(t)
  <2>1. /\ t[1] \in Nat /\ t[2] \in Nat \ {0} /\ t = <<t[1], t[2]>>
        /\ t[2] <= files[t[1]].tests
    BY TestsAreNumbered DEF ToolsInv
  <2>2. Ran(t)' <=> t[1] < file + 1
    BY <1>3, <1>4, <1>a, <2>1 DEF Ran, Before, CommandOver
  <2>3. Ran(t) <=> (t[1] < file \/ (t[1] = file /\ t[2] <= test))
    BY <1>2, <1>a, <2>1 DEF Ran, Before, CommandOver, Here
  <2> QED BY <1>2, <1>a, <2>1, <2>2, <2>3
<1>10. (Counted = results)' /\ Counted = results
  BY <1>2, <1>4 DEF Counted, Pending
<1>11. ResultInv'
  <2>1. \A r : Key(r)' = Key(r)
    BY DEF Key
  <2> QED BY <1>2, <1>3, <1>4, <1>8, <1>9, <2>1 DEF ToolsInv, ResultInv, Pending
<1>12. CountInv'
  <2>1. Good' = Good /\ Bad' = Bad
    BY <1>3, <1>10 DEF Good, Bad
  <2> QED BY <1>2, <1>3, <1>4, <2>1 DEF ToolsInv, CountInv, inputs
<1>13. LinkInv'
  BY <1>2, <1>3 DEF LinkInv, inputs
<1> QED BY <1>1, <1>5, <1>6, <1>7, <1>11, <1>12, <1>13 DEF ToolsInv

(* What exitStatus says of the command that just ended. *)
LEMMA StatusIsOutcome ==
  ASSUME ToolsInv, parent = "done"
  PROVE  /\ exitStatus # 0 <=> Outcome(verdict) = "not ok"
         /\ Outcome(verdict) \in {"ok", "not ok", "lost"}
<1>1. verdict \in {Running, Exited(0), Exited(1), Signaled, NotExecuted}
  BY DEF ToolsInv, CommandInv, TypeOK
<1>2. /\ Outcome(verdict) \in {"ok", "not ok", "lost"}
      /\ Outcome(verdict) = "not ok" <=> (verdict.how = "exited" /\ verdict.code # 0)
  BY <1>1, OutcomeValues
<1>3. verdict.how = "exited" => exitStatus = verdict.code
  BY DEF ToolsInv, CommandInv, ProcessInv
<1>4. verdict.how # "exited" => exitStatus = 0
  BY DEF ToolsInv, PlaceInv
<1> QED BY <1>2, <1>3, <1>4

(* The status of the command becomes a count: its result is the one that   *)
(* was not counted. *)
LEMMA JudgeInv ==
  ASSUME CommandAssumption, ToolsAssumption, ToolsInv, Judge PROVE ToolsInv'
<1>1. CommandInv'
  BY CommandInvUnchanged DEF Judge, ToolsInv
<1>2. /\ step = "judge" /\ tool = "starktest" /\ ending = "running" /\ parent = "done"
      /\ file \in DOMAIN files /\ files[file].kind = "legal"
      /\ test <= files[file].tests /\ test # 0
  BY DEF Judge, ToolsInv, PlaceInv, FileInv, ToolsTypeOK, Pending
<1>3. UNCHANGED <<vars, inputs, file, test, results, disk>>
  BY DEF Judge
<1>4. step' = "test" /\ ending' = ending
  BY DEF Judge, Go
<1>5. /\ exitStatus # 0 => failed' = failed + 1 /\ passed' = passed /\ exitCode' = 1
      /\ exitStatus = 0 => passed' = passed + 1 /\ failed' = failed /\ exitCode' = exitCode
  BY DEF Judge, FinalCode
<1>a. /\ file \in Nat /\ test \in Nat /\ files[file].tests \in 0..MaxTests
      /\ passed \in Nat /\ failed \in Nat /\ exitCode \in {0, 1}
  BY <1>2, FilesAreNumbered DEF ToolsInv, ToolsTypeOK
<1>6. ToolsTypeOK'
  <2>1. passed' \in Nat /\ failed' \in Nat /\ exitCode' \in {0, 1}
    BY <1>5, <1>a
  <2> QED BY <1>1, <1>3, <1>4, <2>1 DEF ToolsInv, ToolsTypeOK, CommandInv, inputs
<1>7. PlaceInv'
  BY <1>2, <1>3, <1>4 DEF ToolsInv, PlaceInv, inputs, vars, Ended
<1>8. FileInv'
  BY <1>2, <1>3, <1>4 DEF ToolsInv, FileInv, inputs, Pending
<1>9. Tests' = Tests
  BY <1>3 DEF Tests, inputs
<1>10. \A t : Ran(t)' <=> Ran(t)
  BY <1>2, <1>3, <1>4 DEF Ran, Before, CommandOver, Here
<1>11. ResultInv'
  <2>1. \A r : Key(r)' = Key(r)
    BY DEF Key
  <2> QED BY <1>2, <1>3, <1>4, <1>9, <1>10, <2>1 DEF ToolsInv, ResultInv, Pending
<1>12. PICK r \in results : Key(r) = Here
  <2>1. Here \in (DOMAIN files) \X (1..MaxTests) /\ Here[1] = file /\ Here[2] = test
    BY <1>2, <1>a DEF Here, ToolsAssumption
  <2>2. Here \in Tests
    BY <1>2, <2>1 DEF Tests
  <2>3. Ran(Here)
    BY <1>2 DEF Ran, CommandOver
  <2> QED BY <1>2, <2>2, <2>3 DEF ToolsInv, ResultInv
<1>13. /\ \A q \in results : Key(q) = Here => q = r
       /\ r.outcome = Outcome(verdict)
  BY <1>2, <1>12 DEF ToolsInv, ResultInv, Pending
<1>14. Counted' = Counted \cup {r} /\ r \notin Counted
  <2>1. Counted' = results
    BY <1>3, <1>4 DEF Counted, Pending
  <2>2. Counted = {q \in results : Key(q) # Here}
    BY <1>2 DEF Counted, Pending
  <2> QED BY <1>12, <1>13, <2>1, <2>2
<1>15. IsFiniteSet(Good) /\ IsFiniteSet(Bad)
  <2>1. Good \subseteq results /\ Bad \subseteq results
    BY DEF Good, Bad, Counted
  <2> QED BY <2>1, FS_Subset DEF ToolsInv, ToolsTypeOK
<1>16. passed = Cardinality(Good) /\ failed = Cardinality(Bad) /\ (exitCode = 0 <=> Bad = {})
  BY <1>2 DEF ToolsInv, CountInv
<1>17. CountInv'
  <2>1. CASE exitStatus # 0
    <3>1. r.outcome = "not ok"
      BY <1>2, <1>13, <2>1, StatusIsOutcome
    <3>2. Bad' = Bad \cup {r} /\ Good' = Good /\ r \notin Bad
      BY <1>14, <3>1 DEF Bad, Good
    <3>3. Cardinality(Bad') = Cardinality(Bad) + 1 /\ Bad' # {}
      BY <1>15, <3>2, FS_AddElement
    <3> QED BY <1>5, <1>16, <2>1, <3>2, <3>3 DEF CountInv
  <2>2. CASE exitStatus = 0
    <3>1. r.outcome \in {"ok", "lost"}
      BY <1>2, <1>13, <2>2, StatusIsOutcome
    <3>2. Good' = Good \cup {r} /\ Bad' = Bad /\ r \notin Good
      BY <1>14, <3>1 DEF Bad, Good
    <3>3. Cardinality(Good') = Cardinality(Good) + 1
      BY <1>15, <3>2, FS_AddElement
    <3> QED BY <1>5, <1>16, <2>2, <3>2, <3>3 DEF CountInv
  <2> QED BY <2>1, <2>2
<1>18. LinkInv'
  BY <1>2, <1>3 DEF LinkInv, inputs
<1> QED BY <1>1, <1>6, <1>7, <1>8, <1>11, <1>17, <1>18 DEF ToolsInv

-----------------------------------------------------------------------------
(* The steps of starkc: nothing about tests can change. *)
LEMMA OtherTool ==
  ASSUME tool = "starkc", UNCHANGED inputs PROVE FileInv' /\ ResultInv' /\ CountInv'
  BY DEF FileInv, ResultInv, CountInv, inputs

LEMMA BuildInv ==
  ASSUME CommandAssumption, ToolsAssumption, ToolsInv, Build \/ FindRuntime PROVE ToolsInv'
<1>1. CommandInv'
  BY CommandInvUnchanged DEF Build, FindRuntime, ToolsInv
<1>2. step \in {"build", "runtime"} /\ tool = "starkc" /\ ending = "running"
  BY DEF Build, FindRuntime, ToolsInv, PlaceInv, ToolsTypeOK
<1>3. UNCHANGED <<vars, inputs, counters, disk>>
  BY DEF Build, FindRuntime
<1>4. \/ step' \in {"runtime", "object"} /\ ending' = ending
      \/ step' = "end" /\ ending' = "exited"
  BY DEF Build, FindRuntime, Go, Leave
<1>5. ToolsTypeOK'
  BY <1>1, <1>3, <1>4 DEF ToolsInv, ToolsTypeOK, CommandInv, inputs, counters
<1>6. PlaceInv'
  BY <1>2, <1>3, <1>4 DEF ToolsInv, PlaceInv, inputs, vars, Ended
<1>7. LinkInv'
  BY <1>2, <1>3, <1>4 DEF ToolsInv, LinkInv, inputs, vars
<1> QED BY <1>1, <1>2, <1>3, <1>5, <1>6, <1>7, OtherTool DEF ToolsInv

LEMMA WriteObjectInv ==
  ASSUME CommandAssumption, ToolsAssumption, ToolsInv, WriteObject PROVE ToolsInv'
<1>1. CommandInv'
  BY CommandInvUnchanged DEF WriteObject, ToolsInv
<1>2. step = "object" /\ tool = "starkc" /\ ending = "running"
  BY DEF WriteObject, ToolsInv, PlaceInv, ToolsTypeOK
<1>3. UNCHANGED <<vars, inputs, counters>>
  BY DEF WriteObject
<1>a. disk \in [object : {"old", "partial", "new"}, executable : {"old", "partial", "new"}]
  BY DEF ToolsInv, ToolsTypeOK
<1>4. /\ disk' \in [object : {"old", "partial", "new"}, executable : {"old", "partial", "new"}]
      /\ disk'.executable = disk.executable
  BY <1>a DEF WriteObject
<1>5. \/ step' = "link" /\ ending' = ending /\ job.linker /\ disk'.object = "new"
      \/ step' = "end" /\ ending' = "returned" /\ ~job.linker /\ disk'.object = "new"
      \/ step' = "end" /\ ending' = "exited"
  BY <1>a DEF WriteObject, Go, Leave
<1>6. ToolsTypeOK'
  BY <1>1, <1>3, <1>4, <1>5 DEF ToolsInv, ToolsTypeOK, CommandInv, inputs, counters
<1>7. PlaceInv'
  BY <1>2, <1>3, <1>5 DEF ToolsInv, PlaceInv, inputs, vars, Ended
<1>8. LinkInv'
  <2>1. disk.executable = "old"
    BY <1>2 DEF ToolsInv, LinkInv
  <2> QED BY <1>2, <1>3, <1>4, <1>5, <2>1 DEF LinkInv, inputs, vars
<1> QED BY <1>1, <1>2, <1>3, <1>6, <1>7, <1>8, OtherTool DEF ToolsInv

LEMMA RunLinkerInv ==
  ASSUME CommandAssumption, ToolsAssumption, ToolsInv, RunLinker PROVE ToolsInv'
<1>1. CommandInv'
  BY LaunchedCommand DEF RunLinker, ToolsInv, PlaceInv
<1>2. step = "link" /\ tool = "starkc" /\ ending = "running"
  BY DEF RunLinker, ToolsInv, PlaceInv, ToolsTypeOK
<1>3. UNCHANGED <<inputs, counters, disk>>
  BY DEF RunLinker
<1>4. /\ step' = "command" /\ ending' = ending
      /\ parent' = "open in" /\ verdict' = Running
  BY DEF RunLinker, Execution, Launch, Go
<1>5. ToolsTypeOK'
  BY <1>1, <1>3, <1>4 DEF ToolsInv, ToolsTypeOK, CommandInv, inputs, counters
<1>6. PlaceInv'
  BY <1>2, <1>3, <1>4 DEF ToolsInv, PlaceInv, inputs, Ended
<1>7. LinkInv'
  <2>1. Running # Exited(0)
    BY DEF Running, Exited
  <2> QED BY <1>2, <1>3, <1>4, <2>1 DEF ToolsInv, LinkInv, inputs
<1> QED BY <1>1, <1>2, <1>3, <1>5, <1>6, <1>7, OtherTool DEF ToolsInv

LEMMA CheckLinkInv ==
  ASSUME CommandAssumption, ToolsAssumption, ToolsInv, CheckLink PROVE ToolsInv'
<1>1. CommandInv'
  BY CommandInvUnchanged DEF CheckLink, ToolsInv
<1>2. step = "linked" /\ tool = "starkc" /\ ending = "running"
  BY DEF CheckLink, ToolsInv, PlaceInv, ToolsTypeOK
<1>3. UNCHANGED <<vars, inputs, counters, disk>>
  BY DEF CheckLink
<1>4. \/ step' = "end" /\ ending' = "exited"
      \/ step' = "end" /\ ending' = "returned" /\ exitStatus = 0
  BY DEF CheckLink, Leave
<1>5. ToolsTypeOK'
  BY <1>1, <1>3, <1>4 DEF ToolsInv, ToolsTypeOK, CommandInv, inputs, counters
<1>6. PlaceInv'
  BY <1>2, <1>3, <1>4 DEF ToolsInv, PlaceInv, inputs, vars, Ended
<1>7. (exitStatus = 0 /\ verdict.how = "exited") => verdict = Exited(0)
  <2>1. parent = "done" /\ verdict.how = "exited" => exitStatus = verdict.code
    BY <1>2 DEF ToolsInv, CommandInv, ProcessInv, LinkInv
  <2>2. parent = "done"
    BY <1>2 DEF ToolsInv, LinkInv
  <2>3. verdict \in {Running, Exited(0), Exited(1), Signaled, NotExecuted}
    BY DEF ToolsInv, CommandInv, TypeOK
  <2>4. /\ Running.how # "exited" /\ Signaled.how # "exited" /\ NotExecuted.how # "exited"
        /\ Exited(1).code = 1
    BY DEF Running, Exited, Signaled, NotExecuted
  <2> QED BY <2>1, <2>2, <2>3, <2>4
<1>8. LinkInv'
  BY <1>2, <1>3, <1>4, <1>7 DEF ToolsInv, LinkInv, inputs, vars
<1> QED BY <1>1, <1>2, <1>3, <1>5, <1>6, <1>8, OtherTool DEF ToolsInv

-----------------------------------------------------------------------------
(* A command ends for its tool. *)
LEMMA FinishedInv ==
  ASSUME CommandAssumption, ToolsAssumption, ToolsInv, Finished PROVE ToolsInv'
<1>1. CommandInv'
  BY CommandInvUnchanged DEF Finished, ToolsInv
<1>2. step = "command" /\ parent = "done" /\ ending = "running" /\ child = "reaped"
  BY DEF Finished, ToolsInv, PlaceInv, CommandInv, ProcessInv, AfterWait
<1>a. parentEnds = {}
  BY <1>2 DEF ToolsInv, CommandInv, ProcessInv
<1>3. UNCHANGED <<vars, inputs, counters, disk>>
  BY DEF Finished
<1>4. /\ ending' = ending
      /\ tool = "starktest" => step' = "judge"
      /\ tool = "starkc" => step' = "linked"
      /\ tool \in {"starktest", "starkc"}
  BY JudgingPlaces DEF Finished, Go, ToolsInv, ToolsTypeOK
<1>5. ToolsTypeOK'
  BY <1>1, <1>3, <1>4 DEF ToolsInv, ToolsTypeOK, CommandInv, inputs, counters
<1>6. PlaceInv'
  BY <1>2, <1>3, <1>4, <1>a DEF ToolsInv, PlaceInv, inputs, vars, Ended
<1>7. LinkInv'
  BY <1>2, <1>3, <1>4 DEF ToolsInv, LinkInv, inputs, vars
<1>8. CASE tool = "starktest"
  <2>1. FileInv'
    BY <1>2, <1>3, <1>4, <1>8 DEF ToolsInv, FileInv, inputs, counters, Pending
  <2>2. \A t : Ran(t)' <=> Ran(t)
    BY <1>2, <1>3, <1>4, <1>8 DEF Ran, Before, CommandOver, Here, counters
  <2>3. Tests' = Tests /\ \A r : Key(r)' = Key(r)
    BY <1>3 DEF Tests, inputs, Key
  <2>4. ResultInv'
    BY <1>2, <1>3, <1>4, <1>8, <2>2, <2>3 DEF ToolsInv, ResultInv, Pending, counters, Here, vars
  <2>5. Good' = Good /\ Bad' = Bad
    BY <1>2, <1>3, <1>4, <1>8, <2>3 DEF Good, Bad, Counted, Pending, counters, Here
  <2>6. CountInv'
    BY <1>2, <1>3, <1>4, <1>8, <2>5 DEF ToolsInv, CountInv, counters
  <2> QED BY <1>1, <1>5, <1>6, <1>7, <2>1, <2>4, <2>6 DEF ToolsInv
<1>9. CASE tool = "starkc"
  BY <1>1, <1>3, <1>5, <1>6, <1>7, <1>9, OtherTool DEF ToolsInv
<1> QED BY <1>4, <1>8, <1>9

LEMMA UncaughtInv ==
  ASSUME CommandAssumption, ToolsAssumption, ToolsInv, Uncaught PROVE ToolsInv'
<1>1. CommandInv'
  BY CommandInvUnchanged DEF Uncaught, ToolsInv
<1>2. UNCHANGED <<vars, inputs, counters, disk>> /\ step' = "end" /\ ending' = "aborted"
      /\ step = "command"
  BY DEF Uncaught, Leave
<1>3. ToolsTypeOK'
  BY <1>1, <1>2 DEF ToolsInv, ToolsTypeOK, CommandInv, inputs, counters
<1>4. PlaceInv'
  BY <1>2 DEF ToolsInv, PlaceInv, inputs, vars, Ended
<1>5. FileInv' /\ ResultInv' /\ CountInv' /\ LinkInv'
  BY <1>2 DEF FileInv, ResultInv, CountInv, LinkInv
<1> QED BY <1>1, <1>3, <1>4, <1>5 DEF ToolsInv

(* The child ends once, and its verdict stays. *)
LEMMA VerdictIsFinal ==
  ASSUME CommandInv, Next, ~(child # "ended" /\ child' = "ended")
  PROVE  /\ verdict' = verdict
         /\ child' \in {"ended", "reaped"} <=> child \in {"ended", "reaped"}
<1> USE DEF childVars
<1>1. CASE \E pipe \in Pipes : OpenPipe(pipe)
  BY <1>1 DEF OpenPipe
<1>2. CASE Fork
  BY <1>2 DEF Fork, CommandInv, ProcessInv
<1>3. CASE CloseUnused \/ CloseInput \/ Wait \/ Report
  BY <1>3 DEF CloseUnused, CloseInput, Wait, Report
<1>4. CASE \E s \in Streams : Drain(s)
  BY <1>4 DEF Drain
<1>5. CASE Redirect \/ EndOfInput \/ \E s \in Streams : Write(s)
  BY <1>5 DEF Redirect, EndOfInput, Write
<1>6. CASE Execute \/ Kill \/ \E code \in {0, 1} : ExitWith(code)
  BY <1>6 DEF Execute, Kill, ExitWith, Die
<1> QED BY <1>1, <1>2, <1>3, <1>4, <1>5, <1>6 DEF Next, Parent, Child

LEMMA OnlyTheLivingEnd ==
  ASSUME CommandInv, Next, child # "ended", child' = "ended"
  PROVE  child \in {"exec", "running"}
<1> USE DEF childVars
<1>1. ~(\E pipe \in Pipes : OpenPipe(pipe))
  BY DEF OpenPipe
<1>2. ~Fork /\ ~CloseUnused /\ ~CloseInput /\ ~Wait /\ ~Report
  BY DEF Fork, CloseUnused, CloseInput, Wait, Report
<1>3. ~(\E s \in Streams : Drain(s))
  BY DEF Drain
<1>4. ~Redirect /\ ~EndOfInput /\ ~(\E s \in Streams : Write(s))
  BY DEF Redirect, EndOfInput, Write
<1>5. CASE Execute \/ Kill \/ \E code \in {0, 1} : ExitWith(code)
  BY <1>5 DEF Execute, Kill, ExitWith
<1> QED BY <1>1, <1>2, <1>3, <1>4, <1>5 DEF Next, Parent, Child

(* The steps of a command.  Its end adds the result of this test, which is *)
(* not counted yet, or changes the executable. *)
LEMMA CommandStepInv ==
  ASSUME CommandAssumption, ToolsAssumption, ToolsInv,
         During(Parent) \/ During(Child) \/ During(Kill)
  PROVE  ToolsInv'
<1>1. /\ Next /\ step = "command" /\ ~Ended /\ Effects
      /\ UNCHANGED <<inputs, file, test, passed, failed, exitCode, step, ending>>
  BY DEF During, Next
<1>2. CommandInv'
  BY <1>1, NextCommandInv DEF ToolsInv
<1>3. verdict' \in {Running, Exited(0), Exited(1), Signaled, NotExecuted}
  BY <1>2 DEF CommandInv, TypeOK
<1>4. tool \in {"starktest", "starkc"} /\ ending = "running"
  BY <1>1 DEF ToolsInv, ToolsTypeOK, PlaceInv
<1>5. (parent' = "done" /\ verdict'.how # "exited") => exitStatus' = 0
  <2> SUFFICES ASSUME parent' = "done", verdict'.how # "exited" PROVE exitStatus' = 0
    OBVIOUS
  <2>1. parent # "done" /\ exitStatus = 0
    BY <1>1 DEF Ended, ToolsInv, CommandInv, ProcessInv
  <2>2. Report
    <3>1. \A pipe \in Pipes : AfterOpening[pipe] # "done"
      BY Points DEF Pipes, Streams
    <3>2. \A s \in Streams : AfterDraining[s] # "done"
      BY Points DEF Streams
    <3>3. ~Child /\ ~Kill
      BY <2>1 DEF Child, Kill, Redirect, Execute, EndOfInput, Write, ExitWith, Die
    <3>4. ~(\E pipe \in Pipes : OpenPipe(pipe)) /\ ~Fork /\ ~CloseUnused /\ ~CloseInput /\ ~Wait
      BY <3>1 DEF OpenPipe, Fork, CloseUnused, CloseInput, Wait
    <3>5. ~(\E s \in Streams : Drain(s))
      BY <2>1, <3>2 DEF Drain
    <3> QED BY <1>1, <3>3, <3>4, <3>5 DEF Next, Parent
  <2>3. verdict' = verdict
    BY <2>2 DEF Report, childVars
  <2>4. verdict \in {Running, Exited(0), Exited(1), Signaled, NotExecuted}
    BY DEF ToolsInv, CommandInv, TypeOK
  <2>5. verdict.code = 0
    <3>1. /\ Running.code = 0 /\ Signaled.code = 0 /\ NotExecuted.code = 0
          /\ Exited(0).how = "exited" /\ Exited(1).how = "exited"
      BY DEF Running, Exited, Signaled, NotExecuted
    <3> QED BY <2>3, <2>4, <3>1
  <2> QED BY <2>1, <2>2, <2>5 DEF Report
<1>6. PlaceInv'
  <2>1. tool' = tool /\ step' = "command" /\ ending' = "running"
    BY <1>1, <1>4 DEF inputs
  <2> QED BY <1>4, <1>5, <2>1 DEF PlaceInv
<1>7. CASE ~(child # "ended" /\ child' = "ended")
  <2>1. results' = results /\ disk' = disk
    BY <1>1, <1>7 DEF Effects
  <2>2. UNCHANGED <<tool, files, job, file, test, passed, failed, exitCode, step, ending, disk, results>>
    BY <1>1, <2>1 DEF inputs
  <2>3. ToolsTypeOK'
    BY <1>2, <2>2 DEF ToolsInv, ToolsTypeOK, CommandInv
  <2>4. FileInv'
    BY <2>2 DEF ToolsInv, FileInv, Pending
  <2>5. verdict' = verdict /\ (child' \in {"ended", "reaped"} <=> child \in {"ended", "reaped"})
    BY <1>1, <1>7, VerdictIsFinal DEF ToolsInv
  <2>6. \A t : Ran(t)' <=> Ran(t)
    BY <2>2, <2>5 DEF Ran, Before, CommandOver, Here
  <2>7. Tests' = Tests /\ \A r : Key(r)' = Key(r)
    BY <2>2 DEF Tests, Key
  <2>8. ResultInv'
    BY <2>2, <2>5, <2>6, <2>7 DEF ToolsInv, ResultInv, Pending, Here
  <2>9. Good' = Good /\ Bad' = Bad
    BY <2>2, <2>7 DEF Good, Bad, Counted, Pending, Here
  <2>10. CountInv'
    BY <2>2, <2>9 DEF ToolsInv, CountInv
  <2>11. LinkInv'
    BY <1>1, <2>2, <2>5 DEF ToolsInv, LinkInv
  <2> QED BY <1>2, <1>6, <2>3, <2>4, <2>8, <2>10, <2>11 DEF ToolsInv
<1>8. CASE child # "ended" /\ child' = "ended" /\ tool = "starktest"
  <2> DEFINE new == [file |-> file, test |-> test, outcome |-> Outcome(verdict')]
  <2>1. results' = results \cup {new} /\ disk' = disk
    BY <1>1, <1>8 DEF Effects, Recorded
  <2>2. UNCHANGED <<tool, files, job, file, test, passed, failed, exitCode, step, ending, disk>>
    BY <1>1, <2>1 DEF inputs
  <2>3. /\ file \in DOMAIN files /\ files[file].kind = "legal"
        /\ test <= files[file].tests /\ test # 0
    BY <1>1, <1>4, <1>8 DEF ToolsInv, FileInv, Pending
  <2>a. file \in Nat /\ test \in Nat /\ files[file].tests \in 0..MaxTests
    BY <2>3, FilesAreNumbered DEF ToolsInv, ToolsTypeOK
  <2>4. Outcome(verdict') \in Outcomes
    BY <1>3, OutcomeValues DEF Outcomes
  <2>5. new \in Result /\ Key(new) = Here /\ new.outcome = Outcome(verdict')
    BY <2>a, <2>4 DEF Result, Key, Here
  <2>6. Here \in Tests
    <3>1. Here \in (DOMAIN files) \X (1..MaxTests) /\ Here[1] = file /\ Here[2] = test
      BY <2>3, <2>a DEF Here, ToolsAssumption
    <3> QED BY <2>3, <3>1 DEF Tests
  <2> HIDE DEF new
  <2>7. ~CommandOver /\ CommandOver'
    BY <1>1, <1>8, OnlyTheLivingEnd DEF CommandOver, ToolsInv
  <2>8. ToolsTypeOK'
    <3>1. results' \subseteq Result /\ IsFiniteSet(results')
      BY <2>1, <2>5, FS_AddElement DEF ToolsInv, ToolsTypeOK
    <3> QED BY <1>2, <2>2, <3>1 DEF ToolsInv, ToolsTypeOK, CommandInv
  <2>9. FileInv'
    BY <2>2 DEF ToolsInv, FileInv, Pending
  <2>10. Tests' = Tests /\ Here' = Here /\ \A r : Key(r)' = Key(r)
    BY <2>2 DEF Tests, Key, Here
  <2>11. \A t : /\ Ran(t) <=> Before(t)
                /\ Ran(t)' <=> (Before(t) \/ (t = Here /\ test # 0))
    BY <2>2, <2>7, <2>10 DEF Ran, Before
  <2>12. \A r \in results : Key(r) \in Tests /\ Before(Key(r)) /\ Key(r) # Here
    <3> SUFFICES ASSUME NEW r \in results
                 PROVE  Key(r) \in Tests /\ Before(Key(r)) /\ Key(r) # Here
      OBVIOUS
    <3>1. Key(r) \in Tests /\ Before(Key(r))
      BY <1>4, <1>8, <2>11 DEF ToolsInv, ResultInv
    <3>2. ~Before(Here)
      BY <2>a DEF Before, Here
    <3> QED BY <3>1, <3>2
  <2>13. ResultInv'
    <3>1. \A r \in results' : Key(r) \in Tests /\ Ran(Key(r))'
      BY <2>1, <2>3, <2>5, <2>6, <2>11, <2>12
    <3>2. \A t \in Tests : Ran(t)' => \E r \in results' : Key(r) = t
      <4> SUFFICES ASSUME NEW t \in Tests, Ran(t)' PROVE \E r \in results' : Key(r) = t
        OBVIOUS
      <4>1. CASE t = Here
        BY <2>1, <2>5, <4>1
      <4>2. CASE Before(t)
        <5>1. \E r \in results : Key(r) = t
          BY <1>4, <1>8, <2>11, <4>2 DEF ToolsInv, ResultInv
        <5> QED BY <2>1, <5>1
      <4> QED BY <2>11, <4>1, <4>2
    <3>3. \A r, s \in results' : Key(r) = Key(s) => r = s
      <4>1. \A r, s \in results : Key(r) = Key(s) => r = s
        BY <1>4, <1>8 DEF ToolsInv, ResultInv
      <4> QED BY <2>1, <2>5, <2>12, <4>1
    <3>4. \A r \in results' : Key(r) = Here => r.outcome = Outcome(verdict')
      BY <2>1, <2>5, <2>12
    <3>5. \A t : (t = Here)' <=> t = Here
      BY <2>10
    <3> QED BY <2>2, <2>10, <3>1, <3>2, <3>3, <3>4 DEF ResultInv, Outcome
  <2>14. Counted' = Counted
    <3>1. Counted = {r \in results : Key(r) # Here}
      BY <1>1 DEF Counted, Pending
    <3>2. Counted' = {r \in results' : Key(r) # Here}
      BY <1>1, <2>2, <2>10 DEF Counted, Pending
    <3> QED BY <2>1, <2>5, <3>1, <3>2
  <2>15. Good' = Good /\ Bad' = Bad
    BY <2>14 DEF Good, Bad
  <2>16. CountInv'
    BY <2>2, <2>15 DEF ToolsInv, CountInv
  <2>17. LinkInv'
    BY <1>8, <2>2 DEF LinkInv
  <2> QED BY <1>2, <1>6, <2>8, <2>9, <2>13, <2>16, <2>17 DEF ToolsInv
<1>9. CASE child # "ended" /\ child' = "ended" /\ tool = "starkc"
  <2>1. results' = results /\ \E left \in LeftBy(verdict') : disk' = [disk EXCEPT !.executable = left]
    BY <1>1, <1>9 DEF Effects
  <2>2. UNCHANGED <<tool, files, job, file, test, passed, failed, exitCode, step, ending, results>>
    BY <1>1, <2>1 DEF inputs
  <2>a. disk \in [object : {"old", "partial", "new"}, executable : {"old", "partial", "new"}]
    BY DEF ToolsInv, ToolsTypeOK
  <2>3. PICK left \in LeftBy(verdict') : disk' = [disk EXCEPT !.executable = left]
    BY <2>1
  <2>4. left \in {"old", "partial", "new"} /\ (verdict' = Exited(0) => left = "new")
    BY <2>a, <2>3, Exited(0) # NotExecuted DEF LeftBy, Exited, NotExecuted
  <2>5. /\ disk' \in [object : {"old", "partial", "new"}, executable : {"old", "partial", "new"}]
        /\ disk'.object = disk.object
        /\ verdict' = Exited(0) => disk'.executable = "new"
    BY <2>a, <2>3, <2>4
  <2>6. ToolsTypeOK'
    BY <1>2, <2>2, <2>5 DEF ToolsInv, ToolsTypeOK, CommandInv
  <2>7. LinkInv'
    BY <1>1, <1>4, <2>2, <2>5 DEF ToolsInv, LinkInv
  <2> QED BY <1>1, <1>2, <1>6, <1>9, <2>6, <2>7, OtherTool DEF ToolsInv
<1> QED BY <1>4, <1>7, <1>8, <1>9

-----------------------------------------------------------------------------
(* The invariant holds in every reachable state. *)
LEMMA ToolsInvariant ==
  ASSUME CommandAssumption, ToolsAssumption PROVE ToolsSpec => []ToolsInv
<1>1. ToolsInit => ToolsInv
  BY InitToolsInv
<1>2. ToolsInv /\ [ToolsNext]_allVars => ToolsInv'
  <2> SUFFICES ASSUME ToolsInv, [ToolsNext]_allVars PROVE ToolsInv'
    OBVIOUS
  <2>1. CASE UNCHANGED allVars
    <3>1. CommandInv' /\ UNCHANGED <<toolVars, parent, parentEnds, child, verdict, exitStatus>>
      BY <2>1, CommandInvUnchanged DEF allVars, ToolsInv, vars
    <3>2. UNCHANGED <<tool, files, job, step, file, test, passed, failed, exitCode, ending, disk, results>>
      BY <3>1 DEF toolVars, inputs, counters
    <3>3. ToolsTypeOK'
      BY <3>1, <3>2 DEF ToolsInv, ToolsTypeOK, CommandInv
    <3>4. PlaceInv' /\ FileInv' /\ LinkInv'
      BY <3>1, <3>2 DEF ToolsInv, PlaceInv, FileInv, LinkInv, Pending
    <3>5. ResultInv'
      BY <3>1, <3>2 DEF ToolsInv, ResultInv, Pending, Tests, Ran, Before, CommandOver, Here, Key
    <3>6. CountInv'
      BY <3>1, <3>2 DEF ToolsInv, CountInv, Good, Bad, Counted, Pending, Here, Key
    <3> QED BY <3>1, <3>3, <3>4, <3>5, <3>6 DEF ToolsInv
  <2>2. CASE OpenFile \/ RunTest \/ CloseFile \/ Judge
    BY <2>2, OpenFileInv, RunTestInv, CloseFileInv, JudgeInv
  <2>3. CASE Build \/ FindRuntime \/ WriteObject \/ RunLinker \/ CheckLink
    BY <2>3, BuildInv, WriteObjectInv, RunLinkerInv, CheckLinkInv
  <2>4. CASE Finished \/ Uncaught
    BY <2>4, FinishedInv, UncaughtInv
  <2>5. CASE During(Parent) \/ During(Child) \/ During(Kill)
    BY <2>5, CommandStepInv
  <2> QED BY <2>1, <2>2, <2>3, <2>4, <2>5 DEF ToolsNext, Tool
<1> QED BY <1>1, <1>2, PTL DEF ToolsSpec

(* Types of both tools and of the commands they run. *)
THEOREM ToolsTypes == ASSUME CommandAssumption, ToolsAssumption PROVE ToolsSpec => []ToolsTypeOK
<1>1. ToolsInv => ToolsTypeOK
  BY DEF ToolsInv
<1> QED BY <1>1, ToolsInvariant, PTL

(* What is proved of one command holds of all those a tool runs. *)
THEOREM CommandsOfToolsAreReported ==
  ASSUME CommandAssumption, ToolsAssumption PROVE ToolsSpec => [](NothingLeaks /\ ReportIsFaithful)
<1>1. CommandInv => NothingLeaks /\ ReportIsFaithful
  BY InvImpliesReports
<1>2. ToolsInv => CommandInv
  BY DEF ToolsInv
<1> QED BY <1>1, <1>2, ToolsInvariant, PTL

(* The summary of starktest and its exit code are about every test of every *)
(* file, and count what really happened to each. *)
THEOREM SummariesAreTrue ==
  ASSUME CommandAssumption, ToolsAssumption PROVE ToolsSpec => []SummaryIsTrue
<1>1. ASSUME ToolsInv PROVE SummaryIsTrue
  <2> SUFFICES ASSUME tool = "starktest", ending = "returned"
               PROVE  /\ \A f \in DOMAIN files : files[f].kind = "legal"
                      /\ {<<r.file, r.test>> : r \in results} = Tests
                      /\ \A r, s \in results : (r.file = s.file /\ r.test = s.test) => r = s
                      /\ passed = Cardinality(With({"ok", "lost"}))
                      /\ failed = Cardinality(With({"not ok"}))
                      /\ exitCode = 0 <=> With({"not ok"}) = {}
    BY DEF SummaryIsTrue
  <2>1. step = "end" /\ file \notin DOMAIN files /\ test = 0
    BY <1>1 DEF ToolsInv, PlaceInv, FileInv, ToolsTypeOK
  <2>2. PICK n \in Nat : DOMAIN files = 1..n
    BY <1>1, FilesAreNumbered DEF ToolsInv
  <2>3. file \in Nat /\ file # 0
    BY <1>1 DEF ToolsInv, ToolsTypeOK, FileInv
  <2>4. \A f \in DOMAIN files : f < file
    BY <2>1, <2>2, <2>3
  <2>5. \A t \in Tests : Ran(t)
    BY <1>1, <2>4, TestsAreNumbered DEF ToolsInv, Ran, Before
  <2>6. {<<r.file, r.test>> : r \in results} = Tests
    BY <1>1, <2>5 DEF ToolsInv, ResultInv, Key
  <2>7. \A r, s \in results : (r.file = s.file /\ r.test = s.test) => r = s
    BY <1>1 DEF ToolsInv, ResultInv, Key
  <2>8. Good = With({"ok", "lost"}) /\ Bad = With({"not ok"})
    BY <2>1 DEF Good, Bad, Counted, With, Pending
  <2> QED BY <1>1, <2>4, <2>6, <2>7, <2>8 DEF ToolsInv, FileInv, CountInv
<1> QED BY <1>1, ToolsInvariant, PTL

(* starkc returns success for a linked program only if the executable on   *)
(* disk is the new one, unless the linker was killed or never executed,    *)
(* which execute's status 0 cannot tell from success (SystemUtil.cpp:88,   *)
(* 116-119, CompilerSystemLinker.cpp:40-46).                               *)
THEOREM LinkedProgramsAreNew ==
  ASSUME CommandAssumption, ToolsAssumption PROVE ToolsSpec => []LinkedMeansNew
<1>1. ToolsInv => LinkedMeansNew
  BY DEF ToolsInv, LinkInv, LinkedMeansNew
<1> QED BY <1>1, ToolsInvariant, PTL
-----------------------------------------------------------------------------
(* Progress: a tool waits for nothing but its command, and not for ever    *)

(* the condition under which the tool, or a process of its command, takes  *)
(* its next step *)
ToolMayStep ==
  \/ step \in {"open", "judge", "build", "runtime", "object", "link", "linked"}
  \/ step = "test" /\ test <= files[file].tests
  \/ step = "command" /\ Ended

CommandMayStep == step = "command" /\ ~Ended /\ (ParentMayStep \/ ChildMayStep)

OnlyOutputStopsTools ==
  ending = "running" => ToolMayStep \/ CommandMayStep \/ (step = "command" /\ BlockedOnFullPipe)

SmallOutputStopsNothing == (ending = "running" /\ Fits) => ToolMayStep \/ CommandMayStep

(* what is still to come for the same program or the same test *)
PlaceLeft(s) ==
  CASE s = "build"   -> 6
    [] s = "runtime" -> 5
    [] s = "object"  -> 4
    [] s = "link"    -> 3
    [] s = "open"    -> 3
    [] s = "command" -> 2
    [] s = "linked"  -> 1
    [] s = "judge"   -> 1
    [] OTHER         -> 0

SameTest == file' = file /\ test' = test

(* A step ends the tool, or goes to the next file, or the next test, or to *)
(* a later place, or leaves the command less to do. *)
RunsDown ==
  \/ ending' # "running"
  \/ file \in DOMAIN files /\ file' > file
  \/ file' = file /\ test' > test /\ test' <= files[file].tests
  \/ SameTest /\ PlaceLeft(step') < PlaceLeft(step)
  \/ SameTest /\ step' = step /\ step = "command" /\ Work' < Work

(* The invariant of a command's progress, whoever runs it. *)
LEMMA InitProgressNext == ASSUME CommandAssumption PROVE Init' => ProgressInv'
<1>1. Init => ProgressInv
  BY InitProgressInv
<1> QED BY <1>1, PTL

LEMMA CommandsProgress ==
  ASSUME CommandAssumption, ToolsAssumption PROVE ToolsSpec => []ProgressInv
<1>1. ToolsInit => ProgressInv
  BY InitProgressInv DEF ToolsInit
<1>2. ToolsInv /\ ProgressInv /\ [ToolsNext]_allVars => ProgressInv'
  <2> SUFFICES ASSUME ToolsInv, ProgressInv, [ToolsNext]_allVars PROVE ProgressInv'
    OBVIOUS
  <2>1. CASE UNCHANGED vars
    BY <2>1, NextProgressInv
  <2>2. CASE Execution /\ parentEnds = {}
    <3>1. Init' BY <2>2 DEF Execution, Launch, Init
    <3> QED BY <3>1, InitProgressNext
  <2>3. CASE Next
    BY <2>3, NextProgressInv
  <2>4. CASE Tool
    <3>1. CASE RunTest \/ RunLinker
      BY <2>2, <3>1 DEF RunTest, RunLinker, ToolsInv, PlaceInv
    <3>2. CASE ~(RunTest \/ RunLinker)
      BY <2>1, <2>4, <3>2 DEF Tool, OpenFile, CloseFile, Judge, Build, FindRuntime, WriteObject,
                              CheckLink, Finished, Uncaught
    <3> QED BY <3>1, <3>2
  <2> QED BY <2>1, <2>3, <2>4 DEF ToolsNext, During, Next, allVars
<1> QED BY <1>1, <1>2, ToolsInvariant, PTL DEF ToolsSpec

(* Between commands a tool always has a step to take. *)
LEMMA ToolsWaitForCommands ==
  ASSUME CommandAssumption, ToolsAssumption, ToolsInv, ProgressInv
  PROVE  OnlyOutputStopsTools /\ SmallOutputStopsNothing
<1>1. ASSUME ending = "running", ~ToolMayStep PROVE step = "command" /\ ~Ended
  <2>1. step \in {"open", "test", "judge", "build", "runtime", "object", "link", "linked",
                  "command", "end"}
    BY DEF ToolsInv, ToolsTypeOK
  <2>2. step # "end" BY <1>1 DEF ToolsInv, PlaceInv
  <2>3. step # "test"
    <3>1. SUFFICES ASSUME step = "test" PROVE FALSE OBVIOUS
    <3>2. tool = "starktest" BY <3>1 DEF ToolsInv, ToolsTypeOK, PlaceInv
    <3>3. test <= files[file].tests BY <1>1, <3>1, <3>2 DEF ToolsInv, FileInv
    <3> QED BY <1>1, <3>1, <3>3 DEF ToolMayStep
  <2> QED BY <1>1, <2>1, <2>2, <2>3 DEF ToolMayStep
<1>2. ASSUME step = "command", ~Ended, ~CommandMayStep PROVE BlockedOnFullPipe
  BY <1>2, WaitingIsForRoom DEF CommandMayStep
<1>3. ASSUME Fits PROVE ~BlockedOnFullPipe
  BY <1>3, WhatFitsHasRoom
<1> QED BY <1>1, <1>2, <1>3 DEF OnlyOutputStopsTools, SmallOutputStopsNothing

(* At every moment of a run, the tool or its command has a step to take,   *)
(* unless the command fills a pipe while execute waits for its end: no     *)
(* test or link is waited for in vain (starktest.cpp:194-262,              *)
(* CompilerSystemLinker.cpp:14-47).                                        *)
THEOREM OnlyOutputHoldsToolsUp ==
  ASSUME CommandAssumption, ToolsAssumption
  PROVE  ToolsSpec => [](OnlyOutputStopsTools /\ SmallOutputStopsNothing)
<1>1. ToolsInv /\ ProgressInv => OnlyOutputStopsTools /\ SmallOutputStopsNothing
  BY ToolsWaitForCommands
<1> QED BY <1>1, ToolsInvariant, CommandsProgress, PTL

LEMMA PlacesInOrder ==
  /\ PlaceLeft("runtime") < PlaceLeft("build") /\ PlaceLeft("object") < PlaceLeft("runtime")
  /\ PlaceLeft("link") < PlaceLeft("object") /\ PlaceLeft("command") < PlaceLeft("link")
  /\ PlaceLeft("linked") < PlaceLeft("command") /\ PlaceLeft("judge") < PlaceLeft("command")
  /\ PlaceLeft("test") < PlaceLeft("judge") /\ PlaceLeft("test") < PlaceLeft("open")
<1>1. /\ PlaceLeft("build") = 6 /\ PlaceLeft("runtime") = 5 /\ PlaceLeft("object") = 4
      /\ PlaceLeft("link") = 3 /\ PlaceLeft("open") = 3 /\ PlaceLeft("command") = 2
      /\ PlaceLeft("linked") = 1 /\ PlaceLeft("judge") = 1 /\ PlaceLeft("test") = 0
  BY DEF PlaceLeft
<1>2. 5 < 6 /\ 4 < 5 /\ 3 < 4 /\ 2 < 3 /\ 1 < 2 /\ 0 < 1 /\ 0 < 3 OBVIOUS
<1> QED BY <1>1, <1>2

LEMMA ToolRunsDown ==
  ASSUME CommandAssumption, ToolsAssumption, ToolsInv, Tool PROVE RunsDown
<1>1. ASSUME NEW how, how \in {"returned", "exited", "aborted"}, Leave(how) PROVE RunsDown
  BY <1>1 DEF Leave, RunsDown
<1>2. ASSUME NEW next, SameTest, Go(next), PlaceLeft(next) < PlaceLeft(step) PROVE RunsDown
  BY <1>2 DEF Go, RunsDown
<1>3. CASE OpenFile
  <2>1. SameTest BY <1>3 DEF OpenFile, counters, SameTest
  <2> QED BY <1>1, <1>2, <1>3, <2>1, PlacesInOrder DEF OpenFile
<1>4. CASE RunTest
  <2>1. step = "test" /\ tool = "starktest" /\ ending = "running"
    BY <1>4 DEF RunTest, ToolsInv, ToolsTypeOK, PlaceInv
  <2>2. file \in DOMAIN files BY <2>1 DEF ToolsInv, FileInv
  <2>3. test \in Nat /\ files[file].tests \in Nat
    BY <2>2, FilesAreNumbered DEF ToolsInv, ToolsTypeOK, ToolsAssumption
  <2>4. test' = test + 1 /\ test < files[file].tests /\ file' = file BY <1>4 DEF RunTest
  <2>5. test' > test /\ test' <= files[file].tests BY <2>3, <2>4
  <2> QED BY <2>4, <2>5 DEF RunsDown
<1>5. CASE CloseFile
  <2>1. step = "test" /\ tool = "starktest" /\ ending = "running" /\ file' = file + 1
    BY <1>5 DEF CloseFile, ToolsInv, ToolsTypeOK, PlaceInv
  <2>2. file \in DOMAIN files BY <2>1 DEF ToolsInv, FileInv
  <2>3. file \in Nat BY DEF ToolsInv, ToolsTypeOK
  <2>4. file' > file BY <2>1, <2>3
  <2> QED BY <2>2, <2>4 DEF RunsDown
<1>6. CASE Judge
  <2>1. SameTest /\ step = "judge" /\ Go("test") BY <1>6 DEF Judge, SameTest
  <2> QED BY <1>2, <2>1, PlacesInOrder
<1>7. CASE Build \/ FindRuntime
  <2>1. SameTest BY <1>7 DEF Build, FindRuntime, counters, SameTest
  <2> QED BY <1>1, <1>2, <1>7, <2>1, PlacesInOrder DEF Build, FindRuntime
<1>8. CASE WriteObject
  <2>1. SameTest BY <1>8 DEF WriteObject, counters, SameTest
  <2> QED BY <1>1, <1>2, <1>8, <2>1, PlacesInOrder DEF WriteObject
<1>9. CASE RunLinker
  <2>1. SameTest /\ step = "link" BY <1>9 DEF RunLinker, counters, SameTest
  <2>2. Go("command") BY <1>9 DEF RunLinker, Execution, Launch
  <2> QED BY <1>2, <2>1, <2>2, PlacesInOrder
<1>10. CASE CheckLink \/ Uncaught
  BY <1>1, <1>10 DEF CheckLink, Uncaught
<1>11. CASE Finished
  <2>1. SameTest /\ step = "command" BY <1>11 DEF Finished, counters, SameTest
  <2>2. Go("judge") \/ Go("linked")
    BY <1>11, JudgingPlaces DEF Finished, ToolsInv, ToolsTypeOK
  <2> QED BY <1>2, <2>1, <2>2, PlacesInOrder
<1> QED BY <1>3, <1>4, <1>5, <1>6, <1>7, <1>8, <1>9, <1>10, <1>11 DEF Tool

(* Every step of starktest or starkc, or of a command of theirs, takes the *)
(* run down in an order without infinite descent: to the next file, to the *)
(* next test of this file, to a later place, or to less work left for the  *)
(* command.  With the theorem above, a tool whose commands print what fits *)
(* in a pipe comes to its end if only the processes are scheduled.         *)
THEOREM ToolsRunDown ==
  ASSUME CommandAssumption, ToolsAssumption PROVE ToolsSpec => [][RunsDown]_allVars
<1>1. ProgressInv => WorkInv
  BY ProgressCounts DEF WorkInv
<1>2. ToolsInv /\ WorkInv /\ WorkInv' /\ [ToolsNext]_allVars => [RunsDown]_allVars
  <2> SUFFICES ASSUME ToolsInv, WorkInv, WorkInv', ToolsNext PROVE RunsDown
    OBVIOUS
  <2>1. CASE Tool BY <2>1, ToolRunsDown
  <2>2. CASE During(Parent) \/ During(Child) \/ During(Kill)
    <3>1. SameTest /\ step' = step /\ step = "command" /\ (Parent \/ Child \/ Kill)
      BY <2>2 DEF During, SameTest
    <3>2. Work' < Work BY <3>1, ParentWorks, ChildWorks
    <3> QED BY <3>1, <3>2 DEF RunsDown
  <2> QED BY <2>1, <2>2 DEF ToolsNext
<1> QED BY <1>1, <1>2, ToolsInvariant, CommandsProgress, PTL DEF ToolsSpec
=============================================================================

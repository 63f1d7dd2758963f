-------------------------------- MODULE Tools --------------------------------
(***************************************************************************)
(* The two programs that run commands: starktest, which runs every test of *)
(* its files in an interpreter of its own and counts, and starkc when it   *)
(* makes an executable, whose last step is the system linker.  Both use    *)
(* Command::execute once per command, for as many commands as it takes.    *)
(*                                                                         *)
(* The pipeline of a test ends with the status of the interpreter, 0 when  *)
(* the test is satisfied; the linker ends with 0 when it has written the   *)
(* executable.  Both are external, and so is who kills the shell.          *)
(***************************************************************************)
EXTENDS Command, FiniteSets

CONSTANTS
  MaxFiles,    (* bound: files given to starktest                          *)
  MaxTests     (* bound: tests of a file                                   *)

ASSUME ToolsAssumption == MaxFiles \in Nat \ {0} /\ MaxTests \in Nat

VARIABLES
  tool,        (* which program runs                                       *)
  files,       (* starktest: the files it is given                         *)
  job,         (* starkc: the program it is given and its options          *)
  step,        (* what the tool does next                                  *)
  file,        (* starktest: index of the file                             *)
  test,        (* starktest: tests of this file that were run              *)
  passed,      (* testPassedCount                                          *)
  failed,      (* testFailedCount                                          *)
  exitCode,
  ending,      (* how the tool ended                                       *)
  disk,        (* starkc: the object file and the executable               *)
  results      (* auxiliary: how the command of each test really ended     *)

inputs == <<tool, files, job>>
counters == <<file, test, passed, failed, exitCode, results>>
toolVars == <<inputs, counters, step, ending, disk>>
allVars == <<vars, toolVars>>

File == [kind : {"unreadable", "illegal"}, tests : {0}]
          \cup [kind : {"legal"}, tests : 0..MaxTests]
Job == [sources : {"mixed", "illegal", "legal"}, runtime : {"none", "missing", "found"},
        linker : BOOLEAN]

Judging == [starktest |-> "judge", starkc |-> "linked"]

-----------------------------------------------------------------------------
(* No command is being executed: Command's variables wait for the first.   *)
ToolsInit ==
  /\ Init /\ command = [s \in Streams |-> 0] /\ ~reading
  /\ tool \in {"starktest", "starkc"}
  /\ files \in (IF tool = "starktest" THEN UNION {[1..n -> File] : n \in 1..MaxFiles}
                                      ELSE {[i \in {} |-> 0]})
  /\ job \in (IF tool = "starkc" THEN Job
                                 ELSE [sources : {"legal"}, runtime : {"none"}, linker : {FALSE}])
  /\ step = IF tool = "starktest" THEN "open" ELSE "build"
  /\ file = 1 /\ test = 0 /\ passed = 0 /\ failed = 0 /\ exitCode = 0
  /\ ending = "running"
  /\ disk = [object |-> "old", executable |-> "old"]
  /\ results = {}

Go(next) == step' = next /\ ending' = ending
Leave(how) == step' = "end" /\ ending' = how

(* A Command object is made and executed: its call of execute starts, with *)
(* the descriptors the process has.                                        *)
Launch(c, r) ==
  /\ parent' = "open in" /\ parentEnds' = parentEnds
  /\ child' = "none" /\ childEnds' = {}
  /\ command' = c /\ reading' = r
  /\ written' = [s \in Streams |-> 0] /\ collected' = [s \in Streams |-> 0]
  /\ verdict' = Running /\ exitStatus' = 0
  /\ Go("command")

Execution == \E c \in [Streams -> 0..MaxOutput], r \in BOOLEAN : Launch(c, r)

-----------------------------------------------------------------------------
(* starktest: the next file, or the summary after the last one             *)
OpenFile ==
  /\ step = "open"
  /\ IF file \in DOMAIN files
     THEN IF files[file].kind = "legal" THEN Go("test") ELSE Leave("exited")
     ELSE Leave("returned")
  /\ UNCHANGED <<vars, inputs, counters, disk>>

RunTest ==
  /\ step = "test" /\ test < files[file].tests
  /\ test' = test + 1
  /\ Execution
  /\ UNCHANGED <<inputs, file, passed, failed, exitCode, results, disk>>

CloseFile ==
  /\ step = "test" /\ test = files[file].tests
  /\ file' = file + 1 /\ test' = 0
  /\ Go("open")
  /\ UNCHANGED <<vars, inputs, passed, failed, exitCode, results, disk>>

LastStatus == exitStatus                                            \* mutant
AddStatus == exitCode + exitStatus                                  \* mutant
FinalCode == IF exitStatus # 0 THEN 1 ELSE exitCode

Judge ==
  /\ step = "judge"
  /\ IF exitStatus # 0 THEN failed' = failed + 1 /\ passed' = passed
                       ELSE passed' = passed + 1 /\ failed' = failed
  /\ exitCode' = FinalCode
  /\ Go("test")
  /\ UNCHANGED <<vars, inputs, file, test, results, disk>>

-----------------------------------------------------------------------------
(* starkc with a main module: what Declarations and ModuleBuild detail,    *)
(* then the search for the runtime library                                 *)
Build ==
  /\ step = "build"
  /\ IF job.sources = "legal" THEN Go("runtime") ELSE Leave("exited")
  /\ UNCHANGED <<vars, inputs, counters, disk>>

FindRuntime ==
  /\ step = "runtime"
  /\ IF job.runtime = "none" \/ (job.linker /\ job.runtime = "missing")
     THEN Leave("exited") ELSE Go("object")
  /\ UNCHANGED <<vars, inputs, counters, disk>>

(* The object file is opened, which may fail, then written, which may too. *)
WriteObject ==
  /\ step = "object"
  /\ \/ /\ disk' = [disk EXCEPT !.object = "new"]
        /\ IF job.linker THEN Go("link") ELSE Leave("returned")
     \/ /\ \E left \in {disk.object, "partial"} : disk' = [disk EXCEPT !.object = left]
        /\ Leave("exited")
  /\ UNCHANGED <<vars, inputs, counters>>

RunLinker ==
  /\ step = "link"
  /\ Execution
  /\ UNCHANGED <<inputs, counters, disk>>

IgnoreStatus == step = "linked" /\ Leave("returned") /\ UNCHANGED <<vars, inputs, counters, disk>> \* mutant
CheckLink ==
  /\ step = "linked"
  /\ IF exitStatus # 0 THEN Leave("exited") ELSE Leave("returned")
  /\ UNCHANGED <<vars, inputs, counters, disk>>

-----------------------------------------------------------------------------
(* A step of execute or of the command.  What the linker leaves is the new *)
(* executable if it says so, and anything if not.                          *)
Outcome(v) == IF v.how = "exited" THEN IF v.code = 0 THEN "ok" ELSE "not ok" ELSE "lost"

Recorded(v) == results \cup {[file |-> file, test |-> test, outcome |-> Outcome(v)]}

LeftBy(v) == CASE v = Exited(0) -> {"new"}
               [] v = NotExecuted -> {disk.executable}
               [] OTHER -> {disk.executable, "partial"}

Effects ==
  IF child # "ended" /\ child' = "ended"
  THEN IF tool = "starktest"
       THEN results' = Recorded(verdict') /\ disk' = disk
       ELSE /\ results' = results
            /\ \E left \in LeftBy(verdict') : disk' = [disk EXCEPT !.executable = left]
  ELSE UNCHANGED <<results, disk>>

During(Step) ==
  /\ step = "command" /\ ~Ended
  /\ Step /\ Effects
  /\ UNCHANGED <<inputs, file, test, passed, failed, exitCode, step, ending>>

(* execute returns, or its exception goes through main: the process ends,  *)
(* whether or not the command does                                         *)
Finished ==
  /\ step = "command" /\ parent = "done"
  /\ Go(Judging[tool])
  /\ UNCHANGED <<vars, inputs, counters, disk>>

Uncaught ==
  /\ step = "command" /\ parent = "threw"
  /\ Leave("aborted")
  /\ UNCHANGED <<vars, inputs, counters, disk>>

Tool == \/ OpenFile \/ RunTest \/ CloseFile \/ Judge
        \/ Build \/ FindRuntime \/ WriteObject \/ RunLinker \/ CheckLink
        \/ Finished \/ Uncaught

ToolsNext == Tool \/ During(Parent) \/ During(Child) \/ During(Kill)

ToolsSpec == ToolsInit /\ [][ToolsNext]_allVars

(* The tool and the two processes of a command are scheduled. *)
FairToolsSpec ==
  ToolsSpec /\ WF_allVars(Tool) /\ WF_allVars(During(Parent)) /\ WF_allVars(During(Child))

-----------------------------------------------------------------------------
Outcomes == {"ok", "not ok", "lost"}
Result == [file : Nat, test : Nat, outcome : Outcomes]

(* Types of the variables. *)
ToolsTypeOK ==
  /\ TypeOK
  /\ tool \in {"starktest", "starkc"}
  /\ files \in UNION {[1..n -> File] : n \in 0..MaxFiles}
  /\ job \in Job
  /\ step \in {"open", "test", "judge", "build", "runtime", "object", "link", "linked",
               "command", "end"}
  /\ file \in Nat /\ test \in Nat /\ passed \in Nat /\ failed \in Nat
  /\ exitCode \in {0, 1}
  /\ ending \in {"running", "returned", "exited", "aborted"}
  /\ disk \in [object : {"old", "partial", "new"}, executable : {"old", "partial", "new"}]
  /\ results \subseteq Result /\ IsFiniteSet(results)

(* starktest comes to its summary only after every test of every file was  *)
(* run once, and then its counters are those of the commands that really   *)
(* ended so, and it returns 0 exactly when none failed: it is judged by    *)
(* this status (src/tests/CMakeLists.txt:47).  A command whose shell was   *)
(* killed or could not be executed counts as passed (starktest.cpp:236).   *)
Tests == {t \in (DOMAIN files) \X (1..MaxTests) : t[2] <= files[t[1]].tests}
With(outcomes) == {r \in results : r.outcome \in outcomes}
SummaryIsTrue ==
  (tool = "starktest" /\ ending = "returned") =>
    /\ \A f \in DOMAIN files : files[f].kind = "legal"
    /\ {<<r.file, r.test>> : r \in results} = Tests
    /\ \A r, s \in results : (r.file = s.file /\ r.test = s.test) => r = s
    /\ passed = Cardinality(With({"ok", "lost"}))
    /\ failed = Cardinality(With({"not ok"}))
    /\ exitCode = 0 <=> With({"not ok"}) = {}

(* starkc returns 0 for a linked program only if the executable on disk is *)
(* the one just linked from the object just written, unless the linker was *)
(* killed or never executed; when linking is disabled it leaves the        *)
(* executable alone (CompilerSystemLinker.cpp:40-46).                      *)
LinkedMeansNew ==
  (tool = "starkc" /\ ending = "returned") =>
    /\ disk.object = "new"
    /\ (job.linker /\ verdict.how = "exited") => disk.executable = "new"
    /\ ~job.linker => disk.executable = "old"

(* A tool whose commands all print what fits in a pipe comes to its end:   *)
(* every command it waits for ends, and it runs finitely many.             *)
ToolsEnd == []Fits => <>(ending # "running")
=============================================================================

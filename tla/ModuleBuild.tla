----------------------------- MODULE ModuleBuild -----------------------------
(***************************************************************************)
(* Building and running programs made of modules: starkc (or the stark     *)
(* interpreter) loads the modules its sources import, generates code and,  *)
(* for a module, writes a directory other runs will load.  CompilerModule- *)
(* Loader::extractModules is recursive: "frames" holds its activation      *)
(* records.  The module directories are all that survives a run.           *)
(*                                                                         *)
(* What is kept of a source or a header is the set of modules it imports   *)
(* (order and repetition do not matter: the loader here takes the imports  *)
(* of a block in any order), and whether a source exports anything; of a   *)
(* bitcode file, what its source imported and the headers put before it.   *)
(* Programmers edit their sources at will: those of a run are chosen when  *)
(* it starts, among the ones they write.  One run happens at a time.       *)
(***************************************************************************)
EXTENDS Naturals, Sequences, SequencesExt

CONSTANTS
  Modules,      (* module names, as their ranks in alphabetical order      *)
  Main,         (* the module of an executable                             *)
  Script,       (* a program given to the interpreter                      *)
  Written,      (* the sources programmers ever write for each target      *)
  MaxDepth      (* calls of extractModules the process has a stack for     *)

Programs == {Main, Script}
Targets == Modules \cup Programs
Source == [imports : SUBSET Modules, exports : BOOLEAN]

ASSUME ModuleBuildAssumption ==
  /\ Modules \subseteq Nat
  /\ Programs \cap Modules = {}
  /\ Main # Script
  /\ Written \in [Targets -> SUBSET Source]
  /\ MaxDepth \in Nat \ {0}

VARIABLES
  dirs,      (* modules that have a directory in the search path           *)
  bitcodes,  (* complete .bc files: what their code was compiled from      *)
  headers,   (* complete .sth files: the imports they repeat               *)
  complete,  (* modules whose latest write went through (auxiliary)        *)
  sources,   (* the targets of the run not finished yet: what they are made of *)
  target,    (* the current one, Main between two runs                     *)
  phase,     (* its progress                                               *)
  frames,    (* calls of extractModules in progress                        *)
  loaded,    (* CompilerModuleLoader::modules                              *)
  outcome    (* how the last run ended                                     *)

vars == <<dirs, bitcodes, headers, complete, sources, target, phase, frames, loaded, outcome>>
store == <<dirs, bitcodes, headers, complete>>
run   == <<sources, target, phase, frames, loaded>>

(* The code of a module is compiled against the headers of all the modules *)
(* loaded, not only of those its sources import: "against" keeps what each *)
(* of them imported then.                                                  *)
Bitcode == [imports : SUBSET Modules,
            against : UNION {[S -> SUBSET Modules] : S \in SUBSET Modules}]

(* "of" is the block's owner, "pending" the imports still to be visited. *)
Call == [of : Targets, pending : SUBSET Modules]

Store(f, m, value) == [x \in DOMAIN f \cup {m} |-> IF x = m THEN value ELSE f[x]]
Without(f, m) == [x \in DOMAIN f \ {m} |-> f[x]]

(* Parsing the header of a module.  A missing or truncated .sth reads as   *)
(* an empty string: no import.                                             *)
HeaderImports(m) == IF m \in DOMAIN headers THEN headers[m] ELSE {}

-----------------------------------------------------------------------------
Init ==
  /\ dirs = {} /\ bitcodes = <<>> /\ headers = <<>> /\ complete = {}
  /\ sources = <<>> /\ target = Main
  /\ phase = "idle" /\ frames = <<>> /\ loaded = {}
  /\ outcome = "none"

(* the run is over; only the directories remain *)
End(how) ==
  /\ sources' = <<>> /\ target' = Main
  /\ phase' = "idle" /\ frames' = <<>> /\ loaded' = {}
  /\ outcome' = how

(* logError exits; what was written stays *)
Fail(why) == End(why) /\ UNCHANGED store

(* The next target is built by a fresh builder with a fresh loader; modules *)
(* are taken in the order of std::map.                                      *)
Extract(given, t) ==
  /\ t \in DOMAIN given
  /\ t \in Modules => \A u \in DOMAIN given : t <= u
  /\ sources' = given
  /\ target' = t
  /\ phase' = "extract"
  /\ frames' = <<[of |-> t, pending |-> given[t].imports]>>
  /\ loaded' = {}

GivenFor(targets) ==
  {given \in [targets -> UNION {Written[t] : t \in targets}] :
     \A t \in targets : given[t] \in Written[t]}

(* Sources are grouped by module; main is never compiled with modules, and *)
(* the interpreter takes a single program.                                 *)
Start ==
  /\ phase = "idle"
  /\ \E targets \in {{Main}, {Script}} \cup (SUBSET Modules \ {{}}) :
       \E given \in GivenFor(targets), t \in targets : Extract(given, t)
  /\ outcome' = "none"
  /\ UNCHANGED store

-----------------------------------------------------------------------------
(* CompilerModuleLoader::extractModules                                    *)

Top == Last(frames)

(* the recursive call's block is the header of m *)
StayPut(m) == Top.pending                                          \* mutant
Rest(m) == Top.pending \ {m}

DescendBlindly(m) == Append(frames, [of |-> m, pending |-> {}])    \* mutant
DescendAgain(m) ==                                                 \* mutant
  Append(frames, [of |-> m, pending |-> sources[target].imports])
Descend(m) == Append(frames, [of |-> m, pending |-> HeaderImports(m)])

(* One import: the resolver loads the directory of that name, the header   *)
(* is parsed and visited.  A process whose stack is full dies.             *)
Import(m) ==
  /\ phase = "extract" /\ m \in Top.pending
  /\ IF m \notin dirs THEN Fail("cannot find module")
     ELSE IF m \notin DOMAIN bitcodes THEN Fail("cannot load bitcode")
     ELSE IF Len(frames) = MaxDepth THEN Fail("stack overflow")
     ELSE /\ frames' = [Descend(m) EXCEPT ![Len(frames)].pending = Rest(m)]
          /\ UNCHANGED <<dirs, bitcodes, headers, complete, sources, target, phase, loaded, outcome>>

(* The header of a module is done: it enters the map unless it is there. *)
AddNothing(m) == loaded                                            \* mutant
Add(m) == loaded \cup {m}
Return ==
  /\ phase = "extract" /\ Top.pending = {} /\ Len(frames) > 1
  /\ loaded' = Add(Top.of)
  /\ frames' = Front(frames)
  /\ UNCHANGED <<dirs, bitcodes, headers, complete, sources, target, phase, outcome>>

(* the source itself is done *)
Extracted ==
  /\ phase = "extract" /\ Top.pending = {} /\ Len(frames) = 1
  /\ phase' = "generate" /\ frames' = <<>>
  /\ UNCHANGED <<dirs, bitcodes, headers, complete, sources, target, loaded, outcome>>

-----------------------------------------------------------------------------
(* any semantic error of the sources *)
Reject == phase = "generate" /\ Fail("rejected")

(* The code is generated.  A program is linked with every loaded module    *)
(* and ends the run (an executable is written, a script is run).  A module *)
(* without declarations has an empty header, so that its bitcode goes to   *)
(* the output directory as if it were a file, which is an error.           *)
HasHeader == sources[target].exports \/ sources[target].imports # {}

Generate ==
  /\ phase = "generate"
  /\ \/ target \in Programs /\ End("ok")
     \/ /\ target \in Modules /\ ~HasHeader
        /\ End("cannot write")
     \/ /\ target \in Modules /\ HasHeader
        /\ phase' = "open .bc"
        /\ UNCHANGED <<sources, target, frames, loaded, outcome>>
  /\ UNCHANGED store

-----------------------------------------------------------------------------
(* CompilerModule::write: both files are truncated when they are opened.   *)

NoDirectory(m) == dirs                                             \* mutant
MakeDirectory(m) == dirs \cup {m}

OpenBitcode ==
  /\ phase = "open .bc"
  /\ dirs' = MakeDirectory(target)
  /\ bitcodes' = Without(bitcodes, target)
  /\ complete' = complete \ {target}
  /\ phase' = "write .bc"
  /\ UNCHANGED <<headers, sources, target, frames, loaded, outcome>>

Compiled == [imports |-> sources[target].imports,
             against |-> [m \in loaded |-> HeaderImports(m)]]

WriteBitcode ==
  /\ phase = "write .bc"
  /\ bitcodes' = Store(bitcodes, target, Compiled)
  /\ phase' = "open .sth"
  /\ UNCHANGED <<dirs, headers, complete, sources, target, frames, loaded, outcome>>

OpenHeader ==
  /\ phase = "open .sth"
  /\ headers' = Without(headers, target)
  /\ phase' = "write .sth"
  /\ UNCHANGED <<dirs, bitcodes, complete, sources, target, frames, loaded, outcome>>

(* The declaration extractor copies the imports of a source to its header. *)
(* Then starkc goes on with the next module it was given.                  *)
NoImport(t) == {}                                                  \* mutant
ExtractedImports(t) == sources[t].imports

WriteHeader ==
  /\ phase = "write .sth"
  /\ headers' = Store(headers, target, ExtractedImports(target))
  /\ complete' = complete \cup {target}
  /\ IF DOMAIN sources = {target} THEN End("ok")
     ELSE /\ \E t \in DOMAIN sources : Extract(Without(sources, target), t)
          /\ UNCHANGED outcome
  /\ UNCHANGED <<dirs, bitcodes>>

-----------------------------------------------------------------------------
(* the process is killed, or a write fails *)
Die == phase # "idle" /\ Fail("killed")

Compiler ==
  \/ \E m \in Modules : Import(m)
  \/ Return \/ Extracted
  \/ Reject \/ Generate
  \/ OpenBitcode \/ WriteBitcode \/ OpenHeader \/ WriteHeader

Next == Start \/ Compiler \/ Die

Spec == Init /\ [][Next]_vars

(* A run is one sequential process: nothing it waits for can keep it from  *)
(* going on.                                                               *)
FairSpec == Spec /\ WF_vars(Compiler)

-----------------------------------------------------------------------------
(* Types of the variables; files lie in directories. *)
Phases == {"idle", "extract", "generate", "open .bc", "write .bc", "open .sth", "write .sth"}
Outcomes == {"none", "ok", "cannot find module", "cannot load bitcode", "stack overflow",
             "rejected", "cannot write", "killed"}
IsMap(f, S, T) == DOMAIN f \subseteq S /\ f \in [DOMAIN f -> T]

TypeOK ==
  /\ dirs \subseteq Modules
  /\ IsMap(bitcodes, dirs, Bitcode)
  /\ IsMap(headers, dirs, SUBSET Modules)
  /\ complete \subseteq DOMAIN bitcodes \cap DOMAIN headers
  /\ IsMap(sources, Targets, Source)
  /\ target \in Targets
  /\ phase \in Phases
  /\ frames \in Seq(Call)
  /\ loaded \subseteq dirs
  /\ outcome \in Outcomes
  /\ phase # "idle" => target \in DOMAIN sources
  /\ phase = "extract" <=> frames # <<>>

Closed(S) == \A m \in S : HeaderImports(m) \subseteq S

(* What the code generator gets is the imports of the sources, everything  *)
(* these import in turn, and nothing else, whatever the order of imports   *)
(* and however many ways lead to a module (CompilerModuleLoader.cpp:29-36). *)
LoadedIsClosure ==
  phase = "generate" =>
    /\ sources[target].imports \subseteq loaded
    /\ Closed(loaded)
    /\ \A S \in SUBSET Modules :
         (sources[target].imports \subseteq S /\ Closed(S)) => loaded \subseteq S

(* the headers the code of m was compiled against still say the same *)
UpToDate(m) ==
  \A k \in DOMAIN bitcodes[m].against : HeaderImports(k) = bitcodes[m].against[k]

(* A program is linked with every module the code of its modules may refer *)
(* to, though the compiler puts the headers of a whole closure before the  *)
(* sources, and the closure of the program is computed later from headers  *)
(* only (CompilerModuleBuilder.cpp:56-64,144).  Two histories can leave    *)
(* such a module out, and no other: the process that wrote a module died   *)
(* on the way (the module is not complete), or a header it was compiled    *)
(* against has other imports now (it is not up to date; what its own       *)
(* sources import is linked all the same).                                 *)
LinkIsComplete ==
  (phase = "generate" /\ target \in Programs) =>
    \A m \in loaded \cap complete :
      /\ bitcodes[m].imports \subseteq loaded
      /\ UpToDate(m) => DOMAIN bitcodes[m].against \subseteq loaded

(* no module reaches itself *)
Acyclic ==
  \A S \in (SUBSET DOMAIN headers) \ {{}} : \E m \in S : HeaderImports(m) \cap S = {}

(* extractModules keeps no trace of the modules it is in the course of     *)
(* visiting.  On acyclic headers it needs none: it goes no deeper than     *)
(* there are modules (MaxDepth is greater than their number).              *)
OverflowNeedsCycle == outcome = "stack overflow" => ~Acyclic

(* Cyclic headers appear by rebuilding modules in a legal order.  The build *)
(* that writes the header closing a cycle has always loaded the former      *)
(* version of its own target: what it needs to refuse is at hand.           *)
CycleIsVisible == [][(Acyclic /\ ~Acyclic') => target \in loaded]_vars

(* A run comes to an end, whatever is imported and however the imports of  *)
(* the directories are tangled.                                            *)
EveryRunEnds == phase # "idle" ~> phase = "idle"

-----------------------------------------------------------------------------
(* Claims of the documentation and of comments the code does not keep.     *)

(* "Call is recursive: all transitive modules are loaded"                  *)
(* (CompilerModuleLoader.h:37).                                            *)
TransitiveModulesAreLoaded == outcome # "stack overflow"
=============================================================================

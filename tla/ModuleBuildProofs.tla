-------------------------- MODULE ModuleBuildProofs --------------------------
(***************************************************************************)
(* What the module loader and the module directories guarantee, for any    *)
(* modules, any history of builds and interruptions, and any stack.        *)
(*                                                                         *)
(* The loader's invariant says of every call of extractModules in progress *)
(* that each of its block's imports is loaded already, still to be visited *)
(* or being visited by the next call; and that nothing is visited or loaded*)
(* that is not in every closed set around the source's imports.            *)
(*                                                                         *)
(* The calls in progress form a chain of imports; one longer than there    *)
(* are modules visits a module twice.                                      *)
(*                                                                         *)
(* Every step of a run leaves less to do.                                  *)
(***************************************************************************)
EXTENDS ModuleBuild, SequenceTheorems, FiniteSetTheorems, TLAPS

Writing == {"open .bc", "write .bc", "open .sth", "write .sth"}

(* Following b's imports through the headers b was compiled against leads  *)
(* to every one of them.                                                   *)
IsClosure(b) ==
  \A S \in SUBSET Modules :
    /\ b.imports \subseteq S
    /\ \A k \in S \cap DOMAIN b.against : b.against[k] \subseteq S
    => DOMAIN b.against \subseteq S

(* The directories, whoever uses them. *)
StoreInv ==
  /\ dirs \subseteq Modules
  /\ IsMap(bitcodes, dirs, Bitcode)
  /\ IsMap(headers, dirs, SUBSET Modules)
  /\ complete \subseteq DOMAIN bitcodes \cap DOMAIN headers
  /\ \A m \in complete : bitcodes[m].imports = headers[m]
  /\ \A m \in DOMAIN bitcodes : IsClosure(bitcodes[m])

(* The types of the run in progress. *)
RunTypes ==
  /\ IsMap(sources, Targets, Source)
  /\ target \in Targets
  /\ phase \in Phases
  /\ frames \in Seq(Call)
  /\ loaded \subseteq dirs
  /\ outcome \in Outcomes
  /\ phase # "idle" => target \in DOMAIN sources
  /\ phase = "extract" <=> frames # <<>>

(* The imports of the block the k-th call visits. *)
Imports(k) == IF k = 1 THEN sources[target].imports ELSE HeaderImports(frames[k].of)

(* The module the call above the k-th visits. *)
Visited(k) == IF k < Len(frames) THEN {frames[k + 1].of} ELSE {}

CallInv(k) ==
  /\ k > 1 => frames[k].of \in dirs
  /\ frames[k].pending \subseteq Imports(k)
  /\ Imports(k) \subseteq loaded \cup frames[k].pending \cup Visited(k)

(* S holds what a program with these imports needs. *)
Needs(S) == sources[target].imports \subseteq S /\ Closed(S)

LoaderInv ==
  phase = "extract" =>
    /\ Closed(loaded)
    /\ \A k \in 1..Len(frames) : CallInv(k)
    /\ \A S \in SUBSET Modules : Needs(S) =>
         loaded \subseteq S /\ \A k \in 2..Len(frames) : frames[k].of \in S

(* After the extraction; the target's own header may be open. *)
LoadedInv ==
  phase \in Writing \cup {"generate"} =>
    /\ sources[target].imports \subseteq loaded
    /\ \A m \in loaded \ {target} : HeaderImports(m) \subseteq loaded

(* The two files of the target while they are written; until its header is *)
(* opened, what was loaded is what the headers say.                        *)
WriterInv ==
  /\ phase \in Writing => target \in Modules
  /\ phase \in {"open .bc", "write .bc"} =>
       Closed(loaded) /\ \A S \in SUBSET Modules : Needs(S) => loaded \subseteq S
  /\ phase \in Writing \ {"open .bc"} => target \in dirs \ complete
  /\ phase \in {"open .sth", "write .sth"} =>
       target \in DOMAIN bitcodes /\ bitcodes[target].imports = sources[target].imports

BuildInv ==
  StoreInv /\ RunTypes /\ LoaderInv /\ LoadedInv /\ WriterInv /\ LoadedIsClosure

(* The invariant contains the types of the variables. *)
LEMMA BuildTypes == BuildInv => TypeOK
  BY DEF BuildInv, StoreInv, RunTypes, TypeOK

(* What the code of the target is compiled against is the closure of its   *)
(* imports: a set closed under the headers loaded may be cut down to them. *)
LEMMA CompiledIsClosure ==
  ASSUME ModuleBuildAssumption, BuildInv, phase = "write .bc"
  PROVE  Compiled \in Bitcode /\ IsClosure(Compiled)
<1> USE DEF BuildInv
<1>1. target \in DOMAIN sources /\ sources[target] \in Source
  BY DEF RunTypes, IsMap
<1>2. sources[target].imports \in SUBSET Modules /\ loaded \in SUBSET Modules
  BY <1>1 DEF Source, RunTypes, StoreInv
<1>3. \A k \in loaded : HeaderImports(k) \in SUBSET Modules
  BY DEF HeaderImports, StoreInv, IsMap
<1>4. [k \in loaded |-> HeaderImports(k)] \in [loaded -> SUBSET Modules]
  BY <1>3
<1>5. Compiled \in Bitcode
  BY <1>2, <1>4 DEF Compiled, Bitcode
<1>6. sources[target].imports \subseteq loaded
  BY DEF LoadedInv, Writing
<1>7. Closed(loaded) /\ \A S \in SUBSET Modules : Needs(S) => loaded \subseteq S
  BY DEF WriterInv
<1>8. ASSUME NEW S \in SUBSET Modules, sources[target].imports \subseteq S,
             \A k \in S \cap loaded : HeaderImports(k) \subseteq S
      PROVE  loaded \subseteq S
  <2>1. Needs(S \cap loaded)
    BY <1>6, <1>7, <1>8 DEF Needs, Closed
  <2> QED BY <1>7, <2>1
<1>9. IsClosure(Compiled)
  BY <1>8 DEF IsClosure, Compiled
<1> QED BY <1>5, <1>9

-----------------------------------------------------------------------------
(* The end of a run leaves nothing to be checked but the directories. *)
LEMMA EndInv ==
  ASSUME ModuleBuildAssumption, StoreInv', NEW how \in Outcomes, End(how)
  PROVE  BuildInv'
<1>1. RunTypes'
  <2>1. Main \in Targets
    BY DEF Targets, Programs
  <2>2. <<>> \in Seq(Call)
    OBVIOUS
  <2>3. IsMap(<<>>, Targets, Source)
    BY DEF IsMap
  <2> QED BY <2>1, <2>2, <2>3 DEF End, RunTypes, Phases, IsMap
<1>2. phase' = "idle"
  BY DEF End
<1>3. LoaderInv' /\ LoadedInv' /\ WriterInv' /\ LoadedIsClosure'
  BY <1>2 DEF LoaderInv, LoadedInv, WriterInv, LoadedIsClosure, Writing
<1> QED BY <1>1, <1>3 DEF BuildInv

(* The first call visits the source itself: all its imports are pending. *)
LEMMA ExtractInv ==
  ASSUME ModuleBuildAssumption, StoreInv', NEW given, NEW t,
         IsMap(given, Targets, Source), Extract(given, t), outcome' \in Outcomes
  PROVE  BuildInv'
<1>1. /\ t \in DOMAIN given /\ sources' = given /\ target' = t
      /\ phase' = "extract" /\ loaded' = {}
      /\ frames' = <<[of |-> t, pending |-> given[t].imports]>>
  BY DEF Extract
<1>2. t \in Targets /\ given[t] \in Source
  BY <1>1 DEF IsMap
<1>3. given[t].imports \in SUBSET Modules
  BY <1>2 DEF Source
<1>4. [of |-> t, pending |-> given[t].imports] \in Call
  BY <1>2, <1>3 DEF Call
<1>5. frames' \in Seq(Call) /\ Len(frames') = 1 /\ frames' # <<>>
      /\ frames'[1] = [of |-> t, pending |-> given[t].imports]
  BY <1>1, <1>4
<1>6. RunTypes'
  BY <1>1, <1>2, <1>5 DEF RunTypes, Phases
<1>7. LoaderInv'
  <2>1. Closed(loaded)'
    BY <1>1 DEF Closed
  <2>2. ASSUME NEW k \in (1..Len(frames))' PROVE CallInv(k)'
    <3>1. k = 1
      BY <1>5
    <3>2. frames'[1].pending = given[t].imports
      BY <1>5
    <3>3. Imports(1)' = given[t].imports
      BY <1>1 DEF Imports
    <3> QED BY <3>1, <3>2, <3>3 DEF CallInv
  <2>3. ASSUME NEW S \in (SUBSET Modules)', Needs(S)'
        PROVE  (loaded \subseteq S /\ \A k \in 2..Len(frames) : frames[k].of \in S)'
    BY <1>1, <1>5
  <2> QED BY <2>1, <2>2, <2>3 DEF LoaderInv
<1>8. LoadedInv' /\ WriterInv' /\ LoadedIsClosure'
  BY <1>1 DEF LoadedInv, WriterInv, LoadedIsClosure, Writing
<1> QED BY <1>6, <1>7, <1>8 DEF BuildInv

(* Nothing is there before the first run. *)
LEMMA InitBuildInv == ASSUME ModuleBuildAssumption PROVE Init => BuildInv
<1> SUFFICES ASSUME Init PROVE BuildInv
  OBVIOUS
<1>1. IsMap(<<>>, {}, SUBSET Modules) /\ IsMap(<<>>, {}, Bitcode) /\ IsMap(<<>>, Targets, Source)
  BY DEF IsMap
<1>2. StoreInv
  BY <1>1 DEF Init, StoreInv
<1>3. RunTypes
  BY <1>1 DEF Init, RunTypes, Phases, Outcomes, Targets, Programs
<1>4. LoaderInv /\ LoadedInv /\ WriterInv /\ LoadedIsClosure
  BY DEF Init, LoaderInv, LoadedInv, WriterInv, LoadedIsClosure, Writing
<1> QED BY <1>2, <1>3, <1>4 DEF BuildInv

-----------------------------------------------------------------------------
(* One import is visited: the call's own obligation passes to a new call. *)
LEMMA ImportInv ==
  ASSUME ModuleBuildAssumption, BuildInv, NEW m \in Modules, Import(m)
  PROVE  BuildInv'
<1> USE DEF BuildInv
<1>1. CASE Fail("cannot find module") \/ Fail("cannot load bitcode") \/ Fail("stack overflow")
  <2>1. StoreInv'
    BY <1>1 DEF Fail, store, StoreInv
  <2>2. \A how \in Outcomes : End(how) => BuildInv'
    BY <2>1, EndInv
  <2> QED BY <1>1, <2>2 DEF Fail, Outcomes
<1>2. CASE /\ m \in dirs /\ m \in DOMAIN bitcodes /\ Len(frames) # MaxDepth
           /\ frames' = [Descend(m) EXCEPT ![Len(frames)].pending = Rest(m)]
           /\ UNCHANGED <<dirs, bitcodes, headers, complete, sources, target, phase, loaded, outcome>>
  <2>0. PICK n \in Nat : n = Len(frames)
    BY DEF RunTypes
  <2>1. phase = "extract" /\ m \in frames[n].pending
    BY <2>0 DEF Import, Top, Last
  <2>2. frames \in Seq(Call) /\ frames # <<>> /\ n \in Nat /\ n >= 1
    BY <2>0, <2>1 DEF RunTypes
  <2>3. \A x : HeaderImports(x)' = HeaderImports(x)
    BY <1>2 DEF HeaderImports
  <2>4. HeaderImports(m) \in SUBSET Modules
    BY DEF HeaderImports, StoreInv, IsMap
  <2>5. [of |-> m, pending |-> HeaderImports(m)] \in Call
    BY <2>4 DEF Call, Targets
  <2>6. \A k \in 1..n : frames[k] \in Call
    BY <2>0, <2>2
  <2>7. Rest(m) \in SUBSET Modules
    BY <2>0, <2>2, <2>6 DEF Rest, Top, Last, Call
  <2>8. Descend(m) \in Seq(Call) /\ Len(Descend(m)) = n + 1
        /\ Descend(m)[n + 1] = [of |-> m, pending |-> HeaderImports(m)]
        /\ \A k \in 1..n : Descend(m)[k] = frames[k]
    BY <2>0, <2>2, <2>5 DEF Descend
  <2>9. [frames[n] EXCEPT !.pending = Rest(m)] \in Call
    BY <2>2, <2>6, <2>7 DEF Call
  <2>10. frames' = [Descend(m) EXCEPT ![n] = [frames[n] EXCEPT !.pending = Rest(m)]]
    <3>1. n \in DOMAIN Descend(m) /\ Descend(m)[n] = frames[n]
      BY <2>2, <2>8
    <3>2. frames' = [Descend(m) EXCEPT ![n] = [Descend(m)[n] EXCEPT !.pending = Rest(m)]]
      BY <1>2, <2>0, <3>1
    <3> QED BY <3>1, <3>2
  <2>11. frames' \in Seq(Call) /\ Len(frames') = n + 1
    BY <2>2, <2>8, <2>9, <2>10
  <2>12. /\ frames'[n + 1] = [of |-> m, pending |-> HeaderImports(m)]
         /\ frames'[n] = [frames[n] EXCEPT !.pending = Rest(m)]
         /\ \A k \in 1..(n - 1) : frames'[k] = frames[k]
    <3>1. DOMAIN Descend(m) = 1..(n + 1)
      BY <2>2, <2>8
    <3>2. \A k \in 1..(n + 1) :
            frames'[k] = IF k = n THEN [frames[n] EXCEPT !.pending = Rest(m)] ELSE Descend(m)[k]
      BY <2>10, <3>1
    <3>3. n + 1 \in 1..(n + 1) /\ n \in 1..(n + 1) /\ n + 1 # n
      BY <2>2
    <3>4. \A k \in 1..(n - 1) : k \in 1..(n + 1) /\ k \in 1..n /\ k # n
      BY <2>2
    <3>5. \A k \in 1..(n - 1) : frames'[k] = frames[k]
      BY <2>8, <3>2, <3>4
    <3> QED BY <2>8, <3>2, <3>3, <3>5
  <2>13. /\ \A k \in 1..n : frames'[k].of = frames[k].of
         /\ frames'[n + 1].of = m /\ frames'[n + 1].pending = HeaderImports(m)
         /\ frames'[n].pending = frames[n].pending \ {m}
    BY <2>0, <2>2, <2>6, <2>12 DEF Rest, Top, Last, Call
  <2>14. StoreInv'
    BY <1>2 DEF StoreInv
  <2>15. RunTypes'
    BY <1>2, <2>1, <2>11, <2>2 DEF RunTypes
  <2>16. \A k \in 1..n : CallInv(k)
    BY <2>0, <2>1 DEF LoaderInv
  <2>17. \A k \in 1..n : Imports(k)' = Imports(k)
    BY <1>2, <2>3, <2>13 DEF Imports
  <2>18. Imports(n + 1)' = HeaderImports(m)
    BY <2>2, <2>3, <2>13 DEF Imports
  <2>19. ASSUME NEW k \in (1..Len(frames))' PROVE CallInv(k)'
    <3>1. CASE k = n + 1
      <4>1. m \in dirs'
        BY <1>2
      <4>2. frames'[k].of = m /\ frames'[k].pending = Imports(k)'
        BY <2>13, <2>18, <3>1
      <4>3. frames'[k].of \in dirs'
        BY <4>1, <4>2
      <4>4. frames'[k].pending \subseteq Imports(k)'
        BY <4>2
      <4>5. Imports(k)' \subseteq loaded' \cup frames'[k].pending \cup Visited(k)'
        BY <4>2
      <4> HIDE DEF BuildInv
      <4> QED BY <4>3, <4>4, <4>5 DEF CallInv
    <3>2. CASE k = n
      <4>1. Visited(k)' = {m} /\ Visited(k) = {}
        BY <2>0, <2>2, <2>11, <2>13, <3>2 DEF Visited
      <4> QED BY SMTT(60), <1>2, <2>2, <2>13, <2>16, <2>17, <3>2, <4>1 DEF CallInv
    <3>3. CASE k \in 1..(n - 1)
      <4>0. k + 1 \in 1..n /\ k \in 1..n
        BY <2>2, <3>3
      <4>1. Visited(k)' = {frames[k + 1].of} /\ Visited(k) = {frames[k + 1].of}
        BY <2>0, <2>2, <2>11, <2>13, <3>3, <4>0 DEF Visited
      <4>2. frames'[k] = frames[k]
        BY <2>12, <3>3
      <4>3. CallInv(k) /\ Imports(k)' = Imports(k) /\ Visited(k)' = Visited(k)
        BY <2>16, <2>17, <4>0, <4>1
      <4>4. k > 1 => frames'[k].of \in dirs'
        <5>1. dirs' = dirs
          BY <1>2
        <5>2. k > 1 => frames[k].of \in dirs
          BY <4>3 DEF CallInv
        <5> QED BY <4>2, <5>1, <5>2
      <4>5. frames'[k].pending \subseteq Imports(k)'
        BY <4>2, <4>3 DEF CallInv
      <4>6. Imports(k)' \subseteq loaded' \cup frames'[k].pending \cup Visited(k)'
        BY <1>2, <4>2, <4>3 DEF CallInv
      <4> QED BY <4>4, <4>5, <4>6 DEF CallInv
    <3>4. k \in 1..(n + 1)
      BY <2>11
    <3>5. k = n + 1 \/ k = n \/ k \in 1..(n - 1)
      BY <2>2, <3>4
    <3> QED BY <3>1, <3>2, <3>3, <3>5
  <2>20. Closed(loaded)'
    BY <1>2, <2>1, <2>3 DEF LoaderInv, Closed
  <2>21. ASSUME NEW S \in (SUBSET Modules)', Needs(S)'
         PROVE  (loaded \subseteq S /\ \A k \in 2..Len(frames) : frames[k].of \in S)'
    <3>1. Needs(S)
      BY <1>2, <2>3, <2>21 DEF Needs, Closed
    <3>2. loaded \subseteq S /\ \A k \in 2..n : frames[k].of \in S
      BY <2>0, <2>1, <3>1 DEF LoaderInv
    <3>3. m \in Imports(n)
      BY <2>0, <2>1, <2>2, <2>16 DEF CallInv
    <3>4. Imports(n) \subseteq S
      <4>1. CASE n = 1
        BY <4>1, <3>1 DEF Imports, Needs
      <4>2. CASE n > 1
        <5>1. frames[n].of \in S
          BY <2>2, <3>2, <4>2
        <5>2. Imports(n) = HeaderImports(frames[n].of)
          BY <4>2 DEF Imports
        <5> QED BY <3>1, <5>1, <5>2 DEF Needs, Closed
      <4> QED BY <2>2, <4>1, <4>2
    <3>5. ASSUME NEW k \in 2..(n + 1) PROVE frames'[k].of \in S
      <4>1. CASE k = n + 1
        BY <2>13, <3>3, <3>4, <4>1
      <4>2. CASE k \in 2..n
        BY <2>13, <3>2, <4>2
      <4> QED BY <2>2, <4>1, <4>2
    <3> QED BY <1>2, <2>11, <3>2, <3>5
  <2>22. LoaderInv'
    BY <2>19, <2>20, <2>21 DEF LoaderInv
  <2>23. LoadedInv' /\ WriterInv' /\ LoadedIsClosure'
    BY <1>2, <2>1 DEF LoadedInv, WriterInv, LoadedIsClosure, Writing
  <2> QED BY <2>14, <2>15, <2>22, <2>23
<1> QED BY <1>1, <1>2 DEF Import

(* A call ends: all its imports are loaded, and its own module is now. *)
LEMMA ReturnInv ==
  ASSUME ModuleBuildAssumption, BuildInv, Return
  PROVE  BuildInv'
<1> USE DEF BuildInv
<1>0. PICK n \in Nat : n = Len(frames)
  BY DEF RunTypes
<1>1. /\ phase = "extract" /\ frames[n].pending = {} /\ n > 1
      /\ loaded' = loaded \cup {frames[n].of} /\ frames' = SubSeq(frames, 1, n - 1)
      /\ UNCHANGED <<dirs, bitcodes, headers, complete, sources, target, phase, outcome>>
  BY <1>0 DEF Return, Top, Last, Front, Add
<1>2. frames \in Seq(Call) /\ n \in Nat
  BY <1>0 DEF RunTypes
<1>3. /\ frames' \in Seq(Call) /\ Len(frames') = n - 1
      /\ \A k \in 1..(n - 1) : frames'[k] = frames[k]
  BY <1>0, <1>1, <1>2
<1>4. \A x : HeaderImports(x)' = HeaderImports(x)
  BY <1>1 DEF HeaderImports
<1>5. \A k \in 1..n : CallInv(k)
  BY <1>0, <1>1 DEF LoaderInv
<1>6. HeaderImports(frames[n].of) \subseteq loaded /\ frames[n].of \in dirs
  BY <1>0, <1>1, <1>2, <1>5 DEF CallInv, Imports, Visited
<1>7. StoreInv'
  BY <1>1 DEF StoreInv
<1>8. RunTypes'
  <2>1. Len(frames') # 0
    BY <1>1, <1>2, <1>3
  <2>2. frames' # <<>>
    BY <2>1
  <2> QED BY <1>1, <1>3, <1>6, <2>2 DEF RunTypes
<1>9. Closed(loaded)'
  BY <1>1, <1>4, <1>6 DEF Closed, LoaderInv
<1>10. ASSUME NEW k \in (1..Len(frames))' PROVE CallInv(k)'
  <2>1. k \in 1..(n - 1) /\ k \in 1..n /\ k + 1 \in 1..n
    BY <1>2, <1>3
  <2>2. frames'[k] = frames[k] /\ Imports(k)' = Imports(k)
    BY <1>1, <1>3, <1>4, <2>1 DEF Imports
  <2>3. Visited(k) = {frames[k + 1].of}
    BY <1>0, <1>2, <2>1 DEF Visited
  <2>4. CASE k = n - 1
    <3>1. CallInv(k) /\ Visited(k) = {frames[n].of}
      BY <1>2, <1>5, <2>1, <2>3, <2>4
    <3>2. k > 1 => frames'[k].of \in dirs'
      BY <1>1, <2>2, <3>1 DEF CallInv
    <3>3. frames'[k].pending \subseteq Imports(k)'
      BY <2>2, <3>1 DEF CallInv
    <3>4. Imports(k)' \subseteq loaded' \cup frames'[k].pending
      BY <1>1, <2>2, <3>1 DEF CallInv
    <3> QED BY <3>2, <3>3, <3>4 DEF CallInv
  <2>5. CASE k < n - 1
    <3>1. Visited(k)' = {frames[k + 1].of}
      BY <1>2, <1>3, <2>1, <2>5 DEF Visited
    <3> QED BY <1>1, <1>5, <2>1, <2>2, <2>3, <3>1 DEF CallInv
  <2> QED BY <1>2, <2>1, <2>4, <2>5
<1>11. ASSUME NEW S \in (SUBSET Modules)', Needs(S)'
       PROVE  (loaded \subseteq S /\ \A k \in 2..Len(frames) : frames[k].of \in S)'
  <2>1. Needs(S)
    BY <1>1, <1>4, <1>11 DEF Needs, Closed
  <2>2. loaded \subseteq S /\ \A k \in 2..n : frames[k].of \in S
    BY <1>0, <1>1, <2>1 DEF LoaderInv
  <2>3. loaded' \subseteq S
    <3>1. n \in 2..n
      BY <1>1, <1>2
    <3> QED BY <1>1, <2>2, <3>1
  <2>4. \A k \in 2..(n - 1) : frames'[k].of \in S
    BY <1>2, <1>3, <2>2
  <2> QED BY <1>3, <2>3, <2>4
<1>12. LoaderInv'
  BY <1>9, <1>10, <1>11 DEF LoaderInv
<1>13. LoadedInv' /\ WriterInv' /\ LoadedIsClosure'
  BY <1>1 DEF LoadedInv, WriterInv, LoadedIsClosure, Writing
<1> QED BY <1>7, <1>8, <1>12, <1>13

(* The first call ends: what is loaded is the closure of the imports. *)
LEMMA ExtractedInv ==
  ASSUME ModuleBuildAssumption, BuildInv, Extracted
  PROVE  BuildInv'
<1> USE DEF BuildInv
<1>1. /\ phase = "extract" /\ Len(frames) = 1 /\ frames[1].pending = {}
      /\ phase' = "generate" /\ frames' = <<>>
      /\ UNCHANGED <<dirs, bitcodes, headers, complete, sources, target, loaded, outcome>>
  BY DEF Extracted, Top, Last
<1>2. \A x : HeaderImports(x)' = HeaderImports(x)
  BY <1>1 DEF HeaderImports
<1>3. CallInv(1)
  BY <1>1 DEF LoaderInv
<1>4. sources[target].imports \subseteq loaded
  BY <1>1, <1>3 DEF CallInv, Imports, Visited
<1>5. Closed(loaded)
  BY <1>1 DEF LoaderInv
<1>6. \A S \in SUBSET Modules : Needs(S) => loaded \subseteq S
  BY <1>1 DEF LoaderInv
<1>7. StoreInv'
  BY <1>1 DEF StoreInv
<1>8. RunTypes'
  BY <1>1 DEF RunTypes, Phases
<1>9. LoadedIsClosure'
  BY <1>1, <1>2, <1>4, <1>5, <1>6 DEF LoadedIsClosure, Closed, Needs
<1>10. LoadedInv' /\ LoaderInv' /\ WriterInv'
  BY <1>1, <1>2, <1>4, <1>5 DEF LoadedInv, LoaderInv, WriterInv, Closed, Writing
<1> QED BY <1>7, <1>8, <1>9, <1>10

(* Code generation leaves the directories alone. *)
LEMMA GenerateInv ==
  ASSUME ModuleBuildAssumption, BuildInv, Generate
  PROVE  BuildInv'
<1> USE DEF BuildInv
<1>1. StoreInv'
  BY DEF Generate, store, StoreInv
<1>2. CASE \E how \in Outcomes : End(how)
  BY <1>1, <1>2, EndInv
<1>3. CASE /\ target \in Modules /\ phase' = "open .bc"
           /\ UNCHANGED <<sources, target, frames, loaded, outcome>>
  <2>1. phase = "generate" /\ UNCHANGED store
    BY DEF Generate
  <2>2. RunTypes'
    BY <1>3, <2>1 DEF RunTypes, Phases, store
  <2>3. LoadedInv'
    BY <1>3, <2>1 DEF LoadedInv, HeaderImports, Writing, store
  <2>4. WriterInv'
    BY <1>3, <2>1 DEF LoadedIsClosure, WriterInv, Writing, Needs, Closed, HeaderImports, store
  <2>5. LoaderInv' /\ LoadedIsClosure'
    BY <1>3 DEF LoaderInv, LoadedIsClosure, Writing
  <2> QED BY <1>1, <2>2, <2>3, <2>4, <2>5
<1> QED BY <1>2, <1>3 DEF Generate, Outcomes

-----------------------------------------------------------------------------
(* The three writes that leave the run where it is. *)
LEMMA WriteInv ==
  ASSUME ModuleBuildAssumption, BuildInv, OpenBitcode \/ WriteBitcode \/ OpenHeader
  PROVE  BuildInv'
<1> USE DEF BuildInv
<1>1. target \in Modules /\ phase \in Writing \ {"write .sth"} /\ target \in DOMAIN sources
  BY DEF OpenBitcode, WriteBitcode, OpenHeader, WriterInv, Writing, RunTypes
<1>2. sources[target].imports \in SUBSET Modules
  BY <1>1 DEF RunTypes, IsMap, Source
<1>3. /\ phase' \in Writing
      /\ UNCHANGED <<sources, target, frames, loaded, outcome>>
  BY DEF OpenBitcode, WriteBitcode, OpenHeader, Writing
<1>4. \A m \in Modules \ {target} : HeaderImports(m)' = HeaderImports(m)
  BY DEF OpenBitcode, WriteBitcode, OpenHeader, HeaderImports, Without
<1>5. StoreInv' /\ dirs \subseteq dirs'
  <2>1. CASE OpenBitcode
    <3>1. /\ dirs' = dirs \cup {target} /\ complete' = complete \ {target} /\ headers' = headers
          /\ bitcodes' = [x \in DOMAIN bitcodes \ {target} |-> bitcodes[x]]
      BY <2>1 DEF OpenBitcode, MakeDirectory, Without
    <3>2. IsMap(bitcodes, dirs, Bitcode)'
      BY <3>1 DEF IsMap, StoreInv
    <3>3. IsMap(headers, dirs, SUBSET Modules)'
      BY <3>1 DEF IsMap, StoreInv
    <3> QED BY <1>1, <3>1, <3>2, <3>3 DEF StoreInv
  <2>2. CASE WriteBitcode
    <3>1. /\ dirs' = dirs /\ complete' = complete /\ headers' = headers
          /\ bitcodes' = [x \in DOMAIN bitcodes \cup {target} |->
                            IF x = target THEN Compiled ELSE bitcodes[x]]
      BY <2>2 DEF WriteBitcode, Store
    <3>0. Compiled \in Bitcode /\ IsClosure(Compiled)
      BY <2>2, CompiledIsClosure DEF WriteBitcode
    <3>4. \A m \in DOMAIN bitcodes' : IsClosure(bitcodes'[m])
      BY <3>0, <3>1 DEF StoreInv
    <3>2. target \in dirs \ complete
      BY <2>2 DEF WriteBitcode, WriterInv, Writing
    <3>3. IsMap(bitcodes, dirs, Bitcode)'
      BY <3>0, <3>1, <3>2 DEF IsMap, StoreInv
    <3> QED BY <3>1, <3>2, <3>3, <3>4 DEF StoreInv, IsMap
  <2>3. CASE OpenHeader
    <3>1. /\ dirs' = dirs /\ complete' = complete /\ bitcodes' = bitcodes
          /\ headers' = [x \in DOMAIN headers \ {target} |-> headers[x]]
      BY <2>3 DEF OpenHeader, Without
    <3>2. target \in dirs \ complete
      BY <2>3 DEF OpenHeader, WriterInv, Writing
    <3>3. IsMap(headers, dirs, SUBSET Modules)'
      BY <3>1 DEF IsMap, StoreInv
    <3> QED BY <3>1, <3>2, <3>3 DEF StoreInv, IsMap
  <2> QED BY <2>1, <2>2, <2>3
<1>6. RunTypes'
  BY <1>1, <1>3, <1>5 DEF RunTypes, Phases, Writing
<1>7. LoadedInv'
  <2>1. loaded \subseteq Modules
    BY DEF RunTypes, StoreInv
  <2> QED BY <1>1, <1>3, <1>4, <2>1 DEF LoadedInv, Writing
<1>8. WriterInv'
  <2>1. CASE OpenBitcode
    <3>1. phase = "open .bc" /\ headers' = headers /\ target \in (dirs \ complete)'
      BY <1>1, <2>1 DEF OpenBitcode, MakeDirectory
    <3>2. \A m : HeaderImports(m)' = HeaderImports(m)
      BY <3>1 DEF HeaderImports
    <3>3. (Closed(loaded) /\ \A S \in SUBSET Modules : Needs(S) => loaded \subseteq S)'
      BY <1>3, <3>1, <3>2 DEF WriterInv, Needs, Closed
    <3> QED BY <1>1, <1>3, <2>1, <3>1, <3>3 DEF OpenBitcode, WriterInv, Writing
  <2>2. CASE WriteBitcode
    <3>1. target \in DOMAIN bitcodes' /\ bitcodes'[target].imports = sources[target].imports
      BY <2>2 DEF WriteBitcode, Store, Compiled
    <3> QED BY <1>1, <1>3, <2>2, <3>1 DEF WriteBitcode, WriterInv, Writing
  <2>3. CASE OpenHeader
    BY <1>1, <1>3, <2>3 DEF OpenHeader, WriterInv, Writing
  <2> QED BY <2>1, <2>2, <2>3
<1>9. LoaderInv' /\ LoadedIsClosure'
  BY <1>3 DEF LoaderInv, LoadedIsClosure, Writing
<1> QED BY <1>5, <1>6, <1>7, <1>8, <1>9

(* The last write completes a module and goes on with the next one. *)
LEMMA WriteHeaderInv ==
  ASSUME ModuleBuildAssumption, BuildInv, WriteHeader
  PROVE  BuildInv'
<1> USE DEF BuildInv
<1>1. /\ phase = "write .sth" /\ dirs' = dirs /\ bitcodes' = bitcodes
      /\ complete' = complete \cup {target}
      /\ headers' = [x \in DOMAIN headers \cup {target} |->
                       IF x = target THEN sources[target].imports ELSE headers[x]]
  BY DEF WriteHeader, Store, ExtractedImports
<1>2. /\ target \in Modules /\ target \in dirs /\ target \in DOMAIN sources
      /\ target \in DOMAIN bitcodes /\ bitcodes[target].imports = sources[target].imports
  BY <1>1 DEF WriterInv, Writing, RunTypes
<1>3. sources[target].imports \in SUBSET Modules
  BY <1>2 DEF RunTypes, IsMap, Source
<1>4. StoreInv'
  <2>1. IsMap(headers, dirs, SUBSET Modules)'
    BY <1>1, <1>2, <1>3 DEF IsMap, StoreInv
  <2>2. IsMap(bitcodes, dirs, Bitcode)'
    BY <1>1 DEF IsMap, StoreInv
  <2>3. (complete \subseteq DOMAIN bitcodes \cap DOMAIN headers)'
    BY <1>1, <1>2 DEF StoreInv
  <2>4. \A m \in complete' : bitcodes'[m].imports = headers'[m]
    BY <1>1, <1>2 DEF StoreInv
  <2> QED BY <1>1, <2>1, <2>2, <2>3, <2>4 DEF StoreInv
<1>5. CASE End("ok")
  BY <1>4, <1>5, EndInv DEF Outcomes
<1>6. CASE \E t \in DOMAIN sources : Extract(Without(sources, target), t) /\ UNCHANGED outcome
  <2>1. PICK t : Extract(Without(sources, target), t) /\ UNCHANGED outcome
    BY <1>6
  <2>2. IsMap(Without(sources, target), Targets, Source)
    BY DEF Without, IsMap, RunTypes
  <2>3. outcome' \in Outcomes
    BY <2>1 DEF RunTypes
  <2> QED BY <1>4, <2>1, <2>2, <2>3, ExtractInv
<1> QED BY <1>5, <1>6 DEF WriteHeader

(* A run starts. *)
LEMMA StartInv ==
  ASSUME ModuleBuildAssumption, BuildInv, Start
  PROVE  BuildInv'
<1>1. StoreInv'
  BY DEF BuildInv, Start, store, StoreInv
<1>2. PICK targets \in {{Main}, {Script}} \cup (SUBSET Modules \ {{}}) :
        \E given \in GivenFor(targets), t \in targets : Extract(given, t)
  BY DEF Start
<1>3. PICK given \in GivenFor(targets), t \in targets : Extract(given, t)
  BY <1>2
<1>4. IsMap(given, Targets, Source)
  <2>1. targets \subseteq Targets /\ DOMAIN given = targets
    BY <1>2, <1>3 DEF Targets, Programs, GivenFor
  <2>2. \A u \in targets : given[u] \in Source
    BY <1>3, <2>1 DEF GivenFor, ModuleBuildAssumption
  <2>3. given \in [targets -> UNION {Written[u] : u \in targets}]
    BY <1>3 DEF GivenFor
  <2> QED BY <2>1, <2>2, <2>3 DEF IsMap
<1>5. outcome' \in Outcomes
  BY DEF Start, Outcomes
<1> QED BY <1>1, <1>3, <1>4, <1>5, ExtractInv

(* Every step preserves the invariant. *)
LEMMA NextBuildInv ==
  ASSUME ModuleBuildAssumption, BuildInv, [Next]_vars
  PROVE  BuildInv'
<1>1. \A how \in Outcomes : Fail(how) => BuildInv'
  <2>1. UNCHANGED store => StoreInv'
    BY DEF BuildInv, store, StoreInv
  <2> QED BY <2>1, EndInv DEF Fail
<1>2. CASE Start
  BY <1>2, StartInv
<1>3. CASE \E m \in Modules : Import(m)
  BY <1>3, ImportInv
<1>4. CASE Return
  BY <1>4, ReturnInv
<1>5. CASE Extracted
  BY <1>5, ExtractedInv
<1>6. CASE Reject
  BY <1>1, <1>6 DEF Reject, Outcomes
<1>7. CASE Generate
  BY <1>7, GenerateInv
<1>8. CASE OpenBitcode \/ WriteBitcode \/ OpenHeader
  BY <1>8, WriteInv
<1>9. CASE WriteHeader
  BY <1>9, WriteHeaderInv
<1>10. CASE Die
  BY <1>1, <1>10 DEF Die, Outcomes
<1>11. CASE UNCHANGED vars
  BY <1>11 DEF vars, BuildInv, StoreInv, RunTypes, LoaderInv, LoadedInv, WriterInv, LoadedIsClosure,
       CallInv, Imports, Visited, Needs, Closed, HeaderImports, IsMap, IsClosure
<1> QED BY <1>2, <1>3, <1>4, <1>5, <1>6, <1>7, <1>8, <1>9, <1>10, <1>11 DEF Next, Compiler

(* The invariant holds in every state. *)
LEMMA BuildInvariant == ASSUME ModuleBuildAssumption PROVE Spec => []BuildInv
<1>1. Init => BuildInv
  BY InitBuildInv
<1>2. BuildInv /\ [Next]_vars => BuildInv'
  BY NextBuildInv
<1> QED BY <1>1, <1>2, PTL DEF Spec

-----------------------------------------------------------------------------
(* Every variable has its type: files lie in directories, what is loaded   *)
(* exists, a call is in progress exactly while imports are extracted.      *)
THEOREM BuildTypesInvariant == ASSUME ModuleBuildAssumption PROVE Spec => []TypeOK
<1>1. Spec => []BuildInv
  BY BuildInvariant
<1> QED BY <1>1, BuildTypes, PTL

(* The recursion of extractModules computes the transitive closure of the  *)
(* imports, however the headers are tangled.                               *)
THEOREM LoaderComputesClosure == ASSUME ModuleBuildAssumption PROVE Spec => []LoadedIsClosure
<1>1. Spec => []BuildInv
  BY BuildInvariant
<1>2. BuildInv => LoadedIsClosure
  BY DEF BuildInv
<1> QED BY <1>1, <1>2, PTL

(* A program is linked with all the modules the code of its modules was    *)
(* compiled against, for any modules and any history of rebuilds, unless a *)
(* writer died or a header has changed its imports since: the imports of   *)
(* the program and the headers then lead to the same modules as those the  *)
(* compiler went through.                                                  *)
THEOREM ProgramsAreLinkedCompletely ==
  ASSUME ModuleBuildAssumption PROVE Spec => []LinkIsComplete
<1>1. Spec => []BuildInv
  BY BuildInvariant
<1>2. BuildInv => LinkIsComplete
  <2> SUFFICES ASSUME BuildInv, phase = "generate", NEW m \in loaded \cap complete
               PROVE  /\ bitcodes[m].imports \subseteq loaded
                      /\ UpToDate(m) => DOMAIN bitcodes[m].against \subseteq loaded
    BY DEF LinkIsComplete
  <2>1. Closed(loaded) /\ loaded \in SUBSET Modules
    BY DEF BuildInv, LoadedIsClosure, StoreInv, RunTypes
  <2>2. /\ m \in DOMAIN bitcodes /\ bitcodes[m].imports = HeaderImports(m)
        /\ IsClosure(bitcodes[m])
    BY DEF BuildInv, StoreInv, HeaderImports
  <2>3. bitcodes[m].imports \subseteq loaded
    BY <2>1, <2>2 DEF Closed
  <2>4. ASSUME UpToDate(m) PROVE DOMAIN bitcodes[m].against \subseteq loaded
    <3>1. \A k \in loaded \cap DOMAIN bitcodes[m].against : bitcodes[m].against[k] \subseteq loaded
      BY <2>1, <2>4 DEF UpToDate, Closed
    <3> QED BY <2>1, <2>2, <2>3, <3>1 DEF IsClosure
  <2> QED BY <2>3, <2>4
<1> QED BY <1>1, <1>2, PTL

(* A step that closes a cycle of headers is the last write of a module     *)
(* whose former version its own build has loaded.                          *)
LEMMA CycleStep ==
  ASSUME ModuleBuildAssumption, BuildInv, [Next]_vars, Acyclic, ~Acyclic'
  PROVE  target \in loaded
<1> SUFFICES ASSUME target \notin loaded PROVE FALSE
  OBVIOUS
<1>1. PICK S \in SUBSET DOMAIN headers' :
        S # {} /\ \A m \in S : HeaderImports(m)' \cap S # {}
  BY DEF Acyclic
<1>2. ASSUME NEW T \in SUBSET DOMAIN headers, T # {},
             \A m \in T : HeaderImports(m) \cap T # {}
      PROVE FALSE
  BY <1>2 DEF Acyclic
<1>3. CASE headers' = headers
  BY <1>1, <1>2, <1>3 DEF HeaderImports
<1>4. CASE OpenHeader
  <2>1. headers' = [x \in DOMAIN headers \ {target} |-> headers[x]]
    BY <1>4 DEF OpenHeader, Without
  <2>2. \A m \in S : HeaderImports(m)' = HeaderImports(m)
    BY <2>1 DEF HeaderImports
  <2> QED BY <1>1, <1>2, <2>1, <2>2
<1>5. CASE WriteHeader
  <2>1. /\ headers' = [x \in DOMAIN headers \cup {target} |->
                         IF x = target THEN sources[target].imports ELSE headers[x]]
        /\ phase = "write .sth"
    BY <1>5 DEF WriteHeader, Store, ExtractedImports
  <2>2. \A m \in S \ {target} : m \in DOMAIN headers /\ HeaderImports(m)' = HeaderImports(m)
    BY <1>1, <2>1 DEF HeaderImports
  <2>3. CASE target \notin S
    BY <1>1, <1>2, <2>2, <2>3
  <2>4. CASE target \in S
    <3> DEFINE T == S \cap loaded
    <3>1. sources[target].imports \subseteq loaded
          /\ \A m \in loaded \ {target} : HeaderImports(m) \subseteq loaded
      BY <2>1 DEF BuildInv, LoadedInv, Writing
    <3>2. sources[target].imports \cap S # {}
      BY <1>1, <2>1, <2>4 DEF HeaderImports
    <3>3. T # {} /\ T \in SUBSET DOMAIN headers
      BY <2>2, <3>1, <3>2
    <3>4. \A m \in T : HeaderImports(m) \cap T # {}
      BY <1>1, <2>2, <3>1
    <3> QED BY <1>2, <3>3, <3>4
  <2> QED BY <2>3, <2>4
<1>6. CASE Start \/ Reject \/ Generate \/ Die \/ \E m \in Modules : Import(m)
  BY <1>3, <1>6 DEF Start, Reject, Generate, Die, Import, Fail, store
<1>7. CASE Return \/ Extracted \/ OpenBitcode \/ WriteBitcode \/ UNCHANGED vars
  BY <1>3, <1>7 DEF Return, Extracted, OpenBitcode, WriteBitcode, vars
<1> QED BY <1>4, <1>5, <1>6, <1>7 DEF Next, Compiler

(* Rebuilding modules can make their headers cyclic; whenever it does, the *)
(* module that closes the cycle was loaded by its own build.               *)
THEOREM CyclesAreVisible == ASSUME ModuleBuildAssumption PROVE Spec => CycleIsVisible
<1>1. Spec => []BuildInv
  BY BuildInvariant
<1>2. BuildInv /\ [Next]_vars => [(Acyclic /\ ~Acyclic') => target \in loaded]_vars
  BY CycleStep
<1> QED BY <1>1, <1>2, PTL DEF Spec, CycleIsVisible

-----------------------------------------------------------------------------
(* The calls in progress follow a chain of imports, and the run that dies  *)
(* of a full stack leaves the headers as the chain found them.             *)

Linked(k) == frames[k + 1].of \in HeaderImports(frames[k].of)
ChainInv == phase = "extract" => \A k \in 2..(Len(frames) - 1) : Linked(k)
OverflowEnds == phase # "idle" => outcome = "none"
DepthInv == BuildInv /\ ChainInv /\ OverflowEnds /\ OverflowNeedsCycle

(* A stack deep enough to visit every module once, below the source itself. *)
RoomForModules == IsFiniteSet(Modules) /\ Cardinality(Modules) < MaxDepth

(* A chain of imports longer than there are modules comes back to one.     *)
LEMMA LongChainsAreCyclic ==
  ASSUME RoomForModules, MaxDepth \in Nat, NEW c \in [1..MaxDepth -> Modules],
         \A k \in 1..(MaxDepth - 1) : c[k + 1] \in HeaderImports(c[k])
  PROVE  ~Acyclic
<1>1. Cardinality(Modules) \in Nat
  BY FS_CardinalityType DEF RoomForModules
<1>2. IsFiniteSet(1..MaxDepth) /\ Cardinality(1..MaxDepth) = MaxDepth
  <2>1. IsFiniteSet(1..MaxDepth) /\ Cardinality(1..MaxDepth) = IF 1 > MaxDepth THEN 0 ELSE MaxDepth - 1 + 1
    BY FS_Interval
  <2> QED BY <2>1, <1>1 DEF RoomForModules
<1>3. PICK x, y \in 1..MaxDepth : x # y /\ c[x] = c[y]
  BY <1>1, <1>2, FS_PigeonHole DEF RoomForModules
<1>4. PICK i, j \in 1..MaxDepth : i < j /\ c[i] = c[j]
  <2>1. x < y \/ y < x
    BY <1>3
  <2> QED BY <1>3, <2>1
<1> DEFINE S == {c[k] : k \in i..(j - 1)}
<1>5. S # {}
  <2>1. i \in i..(j - 1)
    BY <1>4
  <2>2. c[i] \in S
    BY <2>1
  <2> QED BY <2>2
<1>6. ASSUME NEW k \in i..(j - 1) PROVE c[k + 1] \in HeaderImports(c[k]) /\ c[k + 1] \in S
  <2>1. k \in 1..(MaxDepth - 1) /\ k + 1 \in (i + 1)..j
    BY <1>4
  <2>2. CASE k + 1 = j
    <3>1. i \in i..(j - 1)
      BY <1>4
    <3> QED BY <1>4, <2>1, <2>2, <3>1
  <2>3. CASE k + 1 # j
    <3>1. k + 1 \in i..(j - 1)
      BY <1>4, <2>1, <2>3
    <3> QED BY <2>1, <3>1
  <2> QED BY <2>2, <2>3
<1>7. \A m \in S : m \in DOMAIN headers /\ HeaderImports(m) \cap S # {}
  BY <1>6 DEF HeaderImports
<1> HIDE DEF S
<1>8. S \in (SUBSET DOMAIN headers) \ {{}}
  BY <1>5, <1>7
<1> QED BY <1>7, <1>8 DEF Acyclic

(* The import that needs one call too many closes such a chain.            *)
LEMMA OverflowClosesCycle ==
  ASSUME ModuleBuildAssumption, RoomForModules, DepthInv, NEW m \in Modules,
         phase = "extract", m \in Top.pending, Len(frames) = MaxDepth
  PROVE  ~Acyclic
<1>1. MaxDepth \in Nat /\ MaxDepth >= 1 /\ frames \in Seq(Call)
  BY DEF ModuleBuildAssumption, DepthInv, BuildInv, RunTypes
<1>2. \A k \in 1..MaxDepth : CallInv(k) /\ frames[k] \in Call
  BY <1>1 DEF DepthInv, BuildInv, LoaderInv
<1>3. m \in frames[MaxDepth].pending
  BY DEF Top, Last
<1>4. \A k \in 2..MaxDepth : frames[k].of \in Modules
  <2> SUFFICES ASSUME NEW k \in 2..MaxDepth PROVE frames[k].of \in Modules
    OBVIOUS
  <2>1. k \in 1..MaxDepth /\ k > 1
    BY <1>1
  <2>2. frames[k].of \in dirs
    BY <1>2, <2>1 DEF CallInv
  <2> QED BY <2>2 DEF DepthInv, BuildInv, StoreInv
<1>5. MaxDepth >= 2 => m \in HeaderImports(frames[MaxDepth].of)
  <2> SUFFICES ASSUME MaxDepth >= 2 PROVE m \in HeaderImports(frames[MaxDepth].of)
    OBVIOUS
  <2>1. MaxDepth \in 1..MaxDepth /\ MaxDepth # 1
    BY <1>1
  <2> QED BY <1>2, <1>3, <2>1 DEF CallInv, Imports
<1>6. \A k \in 2..(MaxDepth - 1) : frames[k + 1].of \in HeaderImports(frames[k].of)
  BY DEF DepthInv, ChainInv, Linked
<1> DEFINE c == [k \in 1..MaxDepth |-> IF k = MaxDepth THEN m ELSE frames[k + 1].of]
<1>7. c \in [1..MaxDepth -> Modules]
  <2>1. ASSUME NEW k \in 1..MaxDepth, k # MaxDepth PROVE frames[k + 1].of \in Modules
    <3>1. k + 1 \in 2..MaxDepth
      BY <1>1, <2>1
    <3> QED BY <1>4, <3>1
  <2> QED BY <2>1
<1>8. ASSUME NEW k \in 1..(MaxDepth - 1) PROVE c[k + 1] \in HeaderImports(c[k])
  <2>1. k \in 1..MaxDepth /\ k + 1 \in 1..MaxDepth /\ k # MaxDepth /\ MaxDepth >= 2
    BY <1>1
  <2>2. c[k] = frames[k + 1].of
    BY <2>1
  <2>3. CASE k + 1 = MaxDepth
    BY <1>5, <2>1, <2>2, <2>3
  <2>4. CASE k + 1 # MaxDepth
    <3>1. c[k + 1] = frames[k + 1 + 1].of /\ k + 1 \in 2..(MaxDepth - 1)
      BY <1>1, <2>1, <2>4
    <3> QED BY <1>6, <2>2, <3>1
  <2> QED BY <2>3, <2>4
<1> HIDE DEF c
<1> QED BY <1>1, <1>7, <1>8, LongChainsAreCyclic

(* The end of a run that did not run out of stack says nothing of cycles.  *)
LEMMA EndDepth ==
  ASSUME NEW how, End(how), how = "stack overflow" => ~Acyclic'
  PROVE  ChainInv' /\ OverflowEnds' /\ OverflowNeedsCycle'
BY DEF End, ChainInv, OverflowEnds, OverflowNeedsCycle

(* The first call has no call above it.                                    *)
LEMMA ExtractDepth ==
  ASSUME NEW given, NEW t, Extract(given, t), outcome' = "none"
  PROVE  ChainInv' /\ OverflowEnds' /\ OverflowNeedsCycle'
<1>1. Len(frames') = 1
  BY DEF Extract
<1>2. 2..(Len(frames') - 1) = {}
  BY <1>1
<1> QED BY <1>2 DEF ChainInv, OverflowEnds, OverflowNeedsCycle

(* An import adds to the chain the module it names.                        *)
LEMMA ImportDepth ==
  ASSUME ModuleBuildAssumption, RoomForModules, DepthInv, NEW m \in Modules, Import(m)
  PROVE  ChainInv' /\ OverflowEnds' /\ OverflowNeedsCycle'
<1>1. CASE Fail("cannot find module") \/ Fail("cannot load bitcode")
  BY <1>1, EndDepth DEF Fail
<1>2. CASE Fail("stack overflow") /\ Len(frames) = MaxDepth
  <2>1. ~Acyclic
    BY <1>2, OverflowClosesCycle DEF Import
  <2>2. headers' = headers
    BY <1>2 DEF Fail, store
  <2>3. ~Acyclic'
    BY <2>1, <2>2 DEF Acyclic, HeaderImports
  <2> QED BY <1>2, <2>3, EndDepth DEF Fail
<1>3. CASE /\ frames' = [Descend(m) EXCEPT ![Len(frames)].pending = Rest(m)]
           /\ UNCHANGED <<dirs, bitcodes, headers, complete, sources, target, phase, loaded, outcome>>
  <2>1. /\ phase = "extract" /\ m \in Top.pending /\ frames \in Seq(Call) /\ frames # <<>>
        /\ outcome = "none"
    BY DEF Import, DepthInv, BuildInv, RunTypes, OverflowEnds
  <2>2. PICK n \in Nat : n = Len(frames) /\ n >= 1
    BY <2>1
  <2>3. m \in frames[n].pending /\ \A k \in 1..n : CallInv(k)
    BY <2>1, <2>2 DEF Top, Last, DepthInv, BuildInv, LoaderInv
  <2>4. /\ Len(frames') = n + 1 /\ frames'[n + 1].of = m
        /\ \A k \in 1..n : frames'[k].of = frames[k].of
    <3> DEFINE new == [of |-> m, pending |-> HeaderImports(m)]
    <3>1. HeaderImports(m) \in SUBSET Modules
      BY DEF HeaderImports, DepthInv, BuildInv, StoreInv, IsMap
    <3>2. new \in Call
      BY <3>1 DEF Call, Targets
    <3>3. /\ Descend(m) \in Seq(Call) /\ Len(Descend(m)) = n + 1 /\ Descend(m)[n + 1] = new
          /\ \A k \in 1..n : Descend(m)[k] = frames[k] /\ frames[k] \in Call
      BY <2>1, <2>2, <3>2 DEF Descend
    <3>4. frames' = [Descend(m) EXCEPT ![n] = [frames[n] EXCEPT !.pending = Rest(m)]]
      <4>1. n \in DOMAIN Descend(m) /\ Descend(m)[n] = frames[n]
        BY <2>2, <3>3
      <4>2. frames' = [Descend(m) EXCEPT ![n] = [Descend(m)[n] EXCEPT !.pending = Rest(m)]]
        BY <1>3, <2>2, <4>1
      <4> QED BY <4>1, <4>2
    <3>5. [frames[n] EXCEPT !.pending = Rest(m)].of = frames[n].of
      BY <2>2, <3>3 DEF Call
    <3>6. Len(frames') = n + 1 /\ frames'[n + 1] = new
      BY <2>2, <3>3, <3>4
    <3>7. \A k \in 1..n : frames'[k].of = frames[k].of
      BY <2>2, <3>3, <3>4, <3>5
    <3> QED BY <3>6, <3>7
  <2>5. headers' = headers
    BY <1>3
  <2>6. ASSUME NEW k \in 2..n PROVE Linked(k)'
    <3>1. CASE k = n
      <4>1. k \in 1..n /\ k > 1
        BY <2>2
      <4>2. m \in HeaderImports(frames[k].of)
        BY <2>3, <3>1, <4>1 DEF CallInv, Imports
      <4>3. frames'[k + 1].of = m /\ frames'[k].of = frames[k].of
        BY <2>4, <3>1, <4>1
      <4> QED BY <2>5, <4>2, <4>3 DEF Linked, HeaderImports
    <3>2. CASE k # n
      <4>1. k \in 2..(n - 1) /\ k \in 1..n /\ k + 1 \in 1..n
        BY <2>2, <3>2
      <4>2. Linked(k)
        BY <2>1, <2>2, <4>1 DEF DepthInv, ChainInv
      <4>3. frames'[k + 1].of = frames[k + 1].of /\ frames'[k].of = frames[k].of
        BY <2>4, <4>1
      <4> QED BY <2>5, <4>2, <4>3 DEF Linked, HeaderImports
    <3> QED BY <3>1, <3>2
  <2>7. ChainInv'
    <3>1. Len(frames') - 1 = n
      BY <2>2, <2>4
    <3> QED BY <2>6, <3>1 DEF ChainInv
  <2> QED BY <1>3, <2>1, <2>7 DEF OverflowEnds, OverflowNeedsCycle
<1> QED BY <1>1, <1>2, <1>3 DEF Import

(* The end of a call takes its module from the end of the chain.           *)
LEMMA ReturnDepth ==
  ASSUME DepthInv, Return
  PROVE  ChainInv' /\ OverflowEnds' /\ OverflowNeedsCycle'
<1>1. /\ phase = "extract" /\ frames \in Seq(Call) /\ Len(frames) > 1 /\ outcome = "none"
      /\ frames' = SubSeq(frames, 1, Len(frames) - 1)
      /\ phase' = "extract" /\ outcome' = "none" /\ headers' = headers
  BY DEF Return, DepthInv, BuildInv, RunTypes, OverflowEnds, Front
<1>2. PICK n \in Nat : n = Len(frames)
  BY <1>1
<1>3. Len(frames') = n - 1 /\ \A k \in 1..(n - 1) : frames'[k] = frames[k]
  BY <1>1, <1>2
<1>4. headers' = headers
  BY <1>1
<1>5. ASSUME NEW k \in 2..(n - 2) PROVE Linked(k)'
  <2>1. k \in 1..(n - 1) /\ k + 1 \in 1..(n - 1) /\ k \in 2..(n - 1)
    BY <1>2
  <2>2. Linked(k)
    BY <1>1, <1>2, <2>1 DEF DepthInv, ChainInv
  <2>3. frames'[k + 1].of = frames[k + 1].of /\ frames'[k].of = frames[k].of
    BY <1>3, <2>1
  <2> QED BY <1>4, <2>2, <2>3 DEF Linked, HeaderImports
<1>6. ChainInv'
  <2>1. Len(frames') - 1 = n - 2
    BY <1>2, <1>3
  <2> QED BY <1>5, <2>1 DEF ChainInv
<1> QED BY <1>1, <1>6 DEF OverflowEnds, OverflowNeedsCycle

(* The next target begins with a call of its own.                          *)
LEMMA WriteHeaderDepth ==
  ASSUME DepthInv, WriteHeader
  PROVE  ChainInv' /\ OverflowEnds' /\ OverflowNeedsCycle'
<1>1. outcome = "none"
  BY DEF WriteHeader, DepthInv, OverflowEnds
<1>2. CASE End("ok")
  BY <1>2, EndDepth
<1>3. CASE (\E t \in DOMAIN sources : Extract(Without(sources, target), t)) /\ UNCHANGED outcome
  BY <1>1, <1>3, ExtractDepth
<1> QED BY <1>2, <1>3 DEF WriteHeader

(* Every step keeps what explains a full stack.                            *)
LEMMA NextDepth ==
  ASSUME ModuleBuildAssumption, RoomForModules, DepthInv, [Next]_vars
  PROVE  DepthInv'
<1>1. BuildInv'
  BY NextBuildInv DEF DepthInv
<1> SUFFICES ChainInv' /\ OverflowEnds' /\ OverflowNeedsCycle'
  BY <1>1 DEF DepthInv
<1>2. CASE Start
  BY <1>2, ExtractDepth DEF Start
<1>3. CASE \E m \in Modules : Import(m)
  BY <1>3, ImportDepth
<1>4. CASE Return
  BY <1>4, ReturnDepth
<1>5. CASE Extracted \/ OpenBitcode \/ WriteBitcode \/ OpenHeader
  <2>1. outcome = "none" /\ outcome' = "none" /\ phase' # "extract"
    BY <1>5 DEF Extracted, OpenBitcode, WriteBitcode, OpenHeader, DepthInv, OverflowEnds
  <2> QED BY <2>1 DEF ChainInv, OverflowEnds, OverflowNeedsCycle
<1>6. CASE Reject \/ Die
  BY <1>6, EndDepth DEF Reject, Die, Fail
<1>7. CASE Generate
  <2>1. CASE End("ok") \/ End("cannot write")
    BY <2>1, EndDepth
  <2>2. CASE phase' = "open .bc" /\ outcome' = outcome
    BY <1>7, <2>2 DEF Generate, DepthInv, OverflowEnds, ChainInv, OverflowNeedsCycle
  <2> QED BY <1>7, <2>1, <2>2 DEF Generate
<1>8. CASE WriteHeader
  BY <1>8, WriteHeaderDepth
<1>9. CASE UNCHANGED vars
  BY <1>9 DEF vars, DepthInv, ChainInv, Linked, OverflowEnds, OverflowNeedsCycle, Acyclic, HeaderImports
<1> QED BY <1>2, <1>3, <1>4, <1>5, <1>6, <1>7, <1>8, <1>9 DEF Next, Compiler

(* Visiting modules without a mark of those under way is harmless as long  *)
(* as no header is part of a cycle: a process that has the stack to visit  *)
(* every module once runs out of it only on a cycle of imports.            *)
THEOREM OnlyCyclesOverflow ==
  ASSUME ModuleBuildAssumption, RoomForModules PROVE Spec => []OverflowNeedsCycle
<1>1. Init => DepthInv
  BY InitBuildInv DEF Init, DepthInv, ChainInv, OverflowEnds, OverflowNeedsCycle
<1>2. DepthInv /\ [Next]_vars => DepthInv'
  BY NextDepth
<1>3. DepthInv => OverflowNeedsCycle
  BY DEF DepthInv
<1> QED BY <1>1, <1>2, <1>3, PTL DEF Spec

-----------------------------------------------------------------------------
(* Progress: a run cannot go on for ever                                   *)

(* how much of a target is still to be done *)
StepsLeft(p) ==
  CASE p = "extract"    -> 6
    [] p = "generate"   -> 5
    [] p = "open .bc"   -> 4
    [] p = "write .bc"  -> 3
    [] p = "open .sth"  -> 2
    [] p = "write .sth" -> 1
    [] OTHER            -> 0

(* The k-th call has returned or has fewer imports to visit, and those     *)
(* below it, which come first in a comparison, are as they were.           *)
Advances(k) ==
  /\ \A j \in 1..(k - 1) : j <= Len(frames') /\ frames'[j] = frames[j]
  /\ \/ k > Len(frames')
     \/ frames'[k].pending \subseteq frames[k].pending /\ frames'[k].pending # frames[k].pending

ComesCloser ==
  \/ phase' = "idle"
  \/ DOMAIN sources' \subseteq DOMAIN sources /\ DOMAIN sources' # DOMAIN sources
  \/ sources' = sources /\ StepsLeft(phase') < StepsLeft(phase)
  \/ /\ sources' = sources /\ StepsLeft(phase') = StepsLeft(phase)
     /\ Len(frames') <= MaxDepth /\ \E k \in 1..Len(frames) : Advances(k)

StackIsBounded == Len(frames) <= MaxDepth

LEMMA PhasesInOrder ==
  /\ StepsLeft("extract") = 6 /\ StepsLeft("generate") = 5 /\ StepsLeft("open .bc") = 4
  /\ StepsLeft("write .bc") = 3 /\ StepsLeft("open .sth") = 2 /\ StepsLeft("write .sth") = 1
BY DEF StepsLeft

LEMMA FewerSteps ==
  /\ StepsLeft("generate") < StepsLeft("extract") /\ StepsLeft("open .bc") < StepsLeft("generate")
  /\ StepsLeft("write .bc") < StepsLeft("open .bc") /\ StepsLeft("open .sth") < StepsLeft("write .bc")
  /\ StepsLeft("write .sth") < StepsLeft("open .sth")
<1>1. 5 < 6 /\ 4 < 5 /\ 3 < 4 /\ 2 < 3 /\ 1 < 2 OBVIOUS
<1> QED BY <1>1, PhasesInOrder

LEMMA ImportAdvances ==
  ASSUME ModuleBuildAssumption, BuildInv, StackIsBounded, NEW m \in Modules, Import(m)
  PROVE  StackIsBounded' /\ ComesCloser
<1>1. CASE phase' = "idle" /\ frames' = <<>>
  <2>1. Len(frames') = 0 BY <1>1
  <2> QED BY <1>1, <2>1 DEF ComesCloser, StackIsBounded, ModuleBuildAssumption
<1>2. CASE /\ Len(frames) # MaxDepth
           /\ frames' = [Descend(m) EXCEPT ![Len(frames)].pending = Rest(m)]
           /\ UNCHANGED <<sources, phase>>
  <2>1. PICK n \in Nat : n = Len(frames) BY DEF BuildInv, RunTypes
  <2>2. phase = "extract" /\ m \in frames[n].pending BY <2>1 DEF Import, Top, Last
  <2>3. frames \in Seq(Call) /\ n >= 1 BY <2>1, <2>2 DEF BuildInv, RunTypes
  <2>4. [of |-> m, pending |-> HeaderImports(m)] \in Call
    BY DEF HeaderImports, BuildInv, StoreInv, IsMap, Call, Targets
  <2>5. /\ Len(Descend(m)) = n + 1 /\ DOMAIN Descend(m) = 1..(n + 1)
        /\ \A k \in 1..n : Descend(m)[k] = frames[k]
    BY <2>1, <2>3, <2>4 DEF Descend
  <2>6. DOMAIN frames' = 1..(n + 1) /\ Len(frames') = n + 1
    <3>1. DOMAIN frames' = 1..(n + 1) BY <1>2, <2>5
    <3>2. frames' \in Seq(Call)
      <4>1. BuildInv' BY ImportInv
      <4> QED BY <4>1 DEF BuildInv, RunTypes
    <3> QED BY <3>1, <3>2
  <2>7. \A k \in 1..(n - 1) : frames'[k] = frames[k]
    BY <1>2, <2>1, <2>3, <2>5
  <2>8. frames'[n].pending = frames[n].pending \ {m}
    <3>1. frames'[n] = [frames[n] EXCEPT !.pending = Rest(m)] BY <1>2, <2>1, <2>3, <2>5
    <3>2. frames[n] \in Call BY <2>1, <2>3
    <3> QED BY <2>1, <3>1, <3>2 DEF Call, Rest, Top, Last
  <2>9. StackIsBounded' BY <1>2, <2>1, <2>6 DEF StackIsBounded, ModuleBuildAssumption
  <2>10. Advances(n) BY <2>1, <2>2, <2>3, <2>6, <2>7, <2>8 DEF Advances
  <2>11. StepsLeft(phase') = StepsLeft(phase) BY <1>2
  <2> QED BY <1>2, <2>1, <2>3, <2>9, <2>10, <2>11 DEF ComesCloser, StackIsBounded
<1> QED BY <1>1, <1>2 DEF Import, Fail, End

LEMMA ReturnAdvances ==
  ASSUME ModuleBuildAssumption, BuildInv, StackIsBounded, Return
  PROVE  StackIsBounded' /\ ComesCloser
<1>1. PICK n \in Nat : n = Len(frames) BY DEF BuildInv, RunTypes
<1>2. /\ n > 1 /\ frames' = SubSeq(frames, 1, n - 1) /\ UNCHANGED <<sources, phase>>
  BY <1>1 DEF Return, Front
<1>3. frames \in Seq(Call) BY DEF BuildInv, RunTypes
<1>4. Len(frames') = n - 1 /\ \A k \in 1..(n - 1) : frames'[k] = frames[k]
  BY <1>1, <1>2, <1>3
<1>5. StackIsBounded' BY <1>1, <1>4 DEF StackIsBounded, ModuleBuildAssumption
<1>6. Advances(n) BY <1>2, <1>4 DEF Advances
<1>7. StepsLeft(phase') = StepsLeft(phase) BY <1>2
<1> QED BY <1>1, <1>2, <1>5, <1>6, <1>7 DEF ComesCloser, StackIsBounded

LEMMA OneCallIsBounded ==
  ASSUME ModuleBuildAssumption, NEW given, NEW t, Extract(given, t)
  PROVE  StackIsBounded'
<1>1. Len(frames') = 1 BY DEF Extract
<1> QED BY <1>1 DEF StackIsBounded, ModuleBuildAssumption

LEMMA EveryStepAdvances ==
  ASSUME ModuleBuildAssumption, BuildInv, StackIsBounded, Next
  PROVE  StackIsBounded' /\ (phase # "idle" => ComesCloser)
<1>1. CASE Start BY <1>1, OneCallIsBounded DEF Start
<1>2. CASE \E m \in Modules : Import(m) BY <1>2, ImportAdvances
<1>3. CASE Return BY <1>3, ReturnAdvances
<1>4. ASSUME NEW how, End(how) PROVE StackIsBounded' /\ ComesCloser
  <2>1. Len(frames') = 0 /\ phase' = "idle" BY <1>4 DEF End
  <2> QED BY <2>1 DEF StackIsBounded, ComesCloser, ModuleBuildAssumption
<1>5. CASE Extracted
  <2>1. Len(frames') = 0 /\ phase = "extract" /\ phase' = "generate" /\ sources' = sources
    BY <1>5 DEF Extracted
  <2>2. StackIsBounded' BY <2>1 DEF StackIsBounded, ModuleBuildAssumption
  <2>3. StepsLeft(phase') < StepsLeft(phase) BY <2>1, FewerSteps
  <2> QED BY <2>1, <2>2, <2>3 DEF ComesCloser
<1>6. CASE Reject BY <1>6, <1>4 DEF Reject, Fail
<1>7. CASE Die BY <1>7, <1>4 DEF Die, Fail
<1>8. ASSUME sources' = sources, frames' = frames, StepsLeft(phase') < StepsLeft(phase)
      PROVE  StackIsBounded' /\ ComesCloser
  BY <1>8 DEF StackIsBounded, ComesCloser
<1>9. CASE Generate
  <2>1. CASE \E how : End(how) BY <2>1, <1>4
  <2>2. CASE phase' = "open .bc" /\ UNCHANGED <<sources, frames>>
    <3>1. StepsLeft(phase') < StepsLeft(phase) BY <1>9, <2>2, FewerSteps DEF Generate
    <3> QED BY <3>1, <2>2, <1>8
  <2> QED BY <1>9, <2>1, <2>2 DEF Generate
<1>10. CASE OpenBitcode \/ WriteBitcode \/ OpenHeader
  <2>1. StepsLeft(phase') < StepsLeft(phase)
    BY <1>10, FewerSteps DEF OpenBitcode, WriteBitcode, OpenHeader
  <2> QED BY <1>10, <2>1, <1>8 DEF OpenBitcode, WriteBitcode, OpenHeader
<1>11. CASE WriteHeader
  <2>1. CASE End("ok") BY <2>1, <1>4
  <2>2. CASE \E t \in DOMAIN sources : Extract(Without(sources, target), t)
    <3>1. PICK t : Extract(Without(sources, target), t) BY <2>2
    <3>2. StackIsBounded' BY <3>1, OneCallIsBounded
    <3>3. DOMAIN sources' = DOMAIN sources \ {target} BY <3>1 DEF Extract, Without
    <3>4. target \in DOMAIN sources BY <1>11 DEF WriteHeader, BuildInv, RunTypes
    <3> QED BY <3>2, <3>3, <3>4 DEF ComesCloser
  <2> QED BY <1>11, <2>1, <2>2 DEF WriteHeader
<1> QED BY <1>1, <1>2, <1>3, <1>5, <1>6, <1>7, <1>9, <1>10, <1>11 DEF Next, Compiler

(* Whatever the headers, cyclic or not: a step of a run leaves fewer       *)
(* targets, fewer phases of its target, or less to visit, comparing the    *)
(* calls of extractModules from the outermost on, of which there are never *)
(* more than the stack holds.  With finitely many modules no run descends  *)
(* in this order for ever (CompilerModuleLoader, CompilerModuleBuilder).   *)
THEOREM RunsComeCloserToTheEnd ==
  ASSUME ModuleBuildAssumption PROVE Spec => [][phase # "idle" => ComesCloser]_vars
<1>1. Init => BuildInv /\ StackIsBounded
  <2>1. Init => StackIsBounded BY DEF Init, StackIsBounded, ModuleBuildAssumption
  <2> QED BY <2>1, InitBuildInv
<1>2. BuildInv /\ StackIsBounded /\ [Next]_vars =>
        (BuildInv /\ StackIsBounded)' /\ [phase # "idle" => ComesCloser]_vars
  <2> SUFFICES ASSUME BuildInv, StackIsBounded, [Next]_vars
               PROVE  (BuildInv /\ StackIsBounded)' /\ [phase # "idle" => ComesCloser]_vars
    OBVIOUS
  <2>1. BuildInv' BY NextBuildInv
  <2>2. CASE Next BY <2>1, <2>2, EveryStepAdvances
  <2>3. CASE UNCHANGED vars BY <2>1, <2>3 DEF vars, StackIsBounded
  <2> QED BY <2>2, <2>3
<1> QED BY <1>1, <1>2, PTL DEF Spec
=============================================================================

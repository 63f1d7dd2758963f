------------------------- MODULE DeclarationsProofs -------------------------
(* Proofs about Declarations: types; what the order of statements gives;   *)
(* what a function sees, what a header says, that a file alone compiles,   *)
(* and that a linked program has what it calls.                            *)
EXTENDS Declarations, SequenceTheorems, FiniteSetTheorems, TLAPS

-----------------------------------------------------------------------------
(* Statements and files                                                    *)

(* Qualifying a name. *)
LEMMA Pair == ASSUME NEW a, NEW b PROVE <<a>> \o <<b>> = <<a, b>>
<1> DEFINE l == <<a>> \o <<b>>
<1> DEFINE r == <<a, b>>
<1>0. <<a>> \in Seq({a, b}) /\ <<b>> \in Seq({a, b}) /\ r \in Seq({a, b}) BY SMT
<1>1. l \in Seq({a, b}) /\ Len(l) = 2 BY <1>0
<1>2. l[1] = a /\ l[2] = b BY <1>0
<1>3. r[1] = a /\ r[2] = b /\ Len(r) = 2 OBVIOUS
<1>4. \A i \in 1 .. 2 : l[i] = r[i] BY <1>2, <1>3
<1> QED BY <1>0, <1>1, <1>3, <1>4, SeqEqual

(* Extraction turns statements into statements (ASTDeclarationExtractor). *)
LEMMA DeclarationIsStatement ==
  ASSUME NEW s \in Statement, IsExtracted(s), NEW owner \in Targets, NEW t \in Targets
  PROVE  /\ Declaration(s, owner, t) \in Statement
         /\ Declaration(s, owner, t).kind # "module"
         /\ Declaration(s, owner, t).kind = "import" => Declaration(s, owner, t) = s
<1>1. ASSUME NEW id \in TypeIds PROVE Qualified(owner, t, id) \in TypeIds
  <2>1. CASE id \in Simple(Names)
    <3>1. PICK n \in Names : id = <<n>> BY <2>1 DEF Simple
    <3>2. <<owner>> \o id = <<owner, n>> BY <3>1, Pair
    <3> QED BY <3>1, <3>2 DEF Qualified, TypeIds
  <2>2. CASE id \in Targets \X Names
    <3>1. Len(id) = 2 BY <2>2
    <3> QED BY <3>1 DEF Qualified
  <2> QED BY <2>1, <2>2 DEF TypeIds
<1>2. {Qualified(owner, t, u) : u \in s.uses} \in SUBSET TypeIds BY <1>1 DEF Statement
<1>3. /\ Retyped(s, owner, t) = [s EXCEPT !.uses = {Qualified(owner, t, u) : u \in s.uses}]
      /\ Retyped(s, owner, t) \in [kind : Kinds, id : Ids, uses : SUBSET TypeIds,
                                   calls : SUBSET Ids, line : Nat]
  BY <1>2 DEF Retyped, Statement
<1>4. TypeIds \subseteq Ids BY DEF TypeIds, Ids, Simple
<1>5. CASE s.kind \in {"struct", "forward"}
  <2>1. s.id \in TypeIds BY <1>5 DEF Statement, Named
  <2>2. Declaration(s, owner, t)
          = [Retyped(s, owner, t) EXCEPT !.id = Qualified(owner, t, s.id)]
    BY <1>5, <1>3 DEF Declaration, Statement
  <2>3. Qualified(owner, t, s.id) \in TypeIds BY <2>1, <1>1
  <2> QED BY <1>5, <2>2, <2>3, <1>3, <1>4 DEF Statement, Named
<1>6. CASE s.kind = "func"
  <2>1. PICK n \in Names : s.id = <<n>>
    BY <1>6 DEF Statement, Named, IsExtracted, Simple
  <2>2. <<owner>> \o s.id = <<owner, n>> BY <2>1, Pair
  <2>3. Declaration(s, owner, t)
          = [Retyped(s, owner, t) EXCEPT !.kind = "declare", !.id = <<owner, n>>, !.calls = {}]
    BY <1>6, <1>3, <2>2 DEF Declaration, Statement
  <2>4. <<owner, n>> \in TypeIds BY DEF TypeIds
  <2> QED BY <2>3, <2>4, <1>3, <1>4 DEF Statement, Named, Kinds
<1>7. CASE s.kind = "import" BY <1>7 DEF Declaration
<1> QED BY <1>5, <1>6, <1>7 DEF IsExtracted

(* The files of a target belong to it. *)
LEMMA FilesOfTarget ==
  ASSUME NEW t \in Targets, NEW files \in Units[t], NEW k \in DOMAIN files
  PROVE  /\ files \in Seq(Seq(Statement)) /\ files[k] \in Seq(Statement)
         /\ In(files[k]) \subseteq Statement
         /\ 1 \in DOMAIN files[k]
         /\ Owner(files[k]) = t
         /\ \A i \in DOMAIN files[k] : files[k][i].kind = "module" => i = 1 /\ t # Main
         /\ t # Main => files[k][1].kind = "module" /\ files[k][1].id = <<t>>
         /\ \A i \in DOMAIN files[k] : i > 1 => files[k][1].line < files[k][i].line
<1>1. files \in Seq(Seq(Statement)) /\ IsFile(t, files[k]) BY DeclarationsAssumption
<1>2. files[k] \in Seq(Statement) /\ files[k] # <<>> BY <1>1 DEF IsFile
<1>3. 1 \in DOMAIN files[k] /\ Head(files[k]) = files[k][1] BY <1>2
<1>4. In(files[k]) \subseteq Statement BY <1>2 DEF In
<1>5. Owner(files[k]) = t
  <2>1. CASE t = Main BY <2>1, <1>1, <1>3 DEF IsFile, Owner
  <2>2. CASE t # Main BY <2>2, <1>1, <1>3 DEF IsFile, Owner
  <2> QED BY <2>1, <2>2
<1>6. \A i \in DOMAIN files[k] : files[k][i].kind = "module" => i = 1 /\ t # Main
  BY <1>1 DEF IsFile
<1>7. t # Main => files[k][1].kind = "module" /\ files[k][1].id = <<t>>
  BY <1>1, <1>3 DEF IsFile
<1>8. \A i \in DOMAIN files[k] : i > 1 => files[k][1].line < files[k][i].line
  BY <1>1, <1>3 DEF IsFile
<1> QED BY <1>1, <1>2, <1>3, <1>4, <1>5, <1>6, <1>7, <1>8

(* Where a statement put before or after others comes from. *)
LEMMA MergedFrom ==
  ASSUME NEW files, NEW k, NEW t, NEW p \in Merged(files, k, t)
  PROVE  \/ \E s \in In(files[k]) : p = <<<<"file", k>>, s>>
         \/ \E j \in DOMAIN files \ {k} : \E s \in In(files[j]) :
              IsExtracted(s) /\ p[2] = Declaration(s, Owner(files[j]), t)
         \/ \E m \in Loaded(files) : p[2] \in In(headers[m])
         \/ p = AllocDeclaration
BY DEF Merged, From, DeclarationsOf, Extract, ExternalDeclarations

LEMMA AllocIsStatement == AllocDeclaration[2] \in Statement
<1>1. <<Alloc>> \in Ids BY DEF Ids, Simple
<1> QED BY <1>1 DEF AllocDeclaration, Statement, Named, Kinds, Simple

LEMMA LoadedHaveHeaders == \A files : Loaded(files) \subseteq DOMAIN headers
BY DEF Loaded

(* what a file is generated from is made of statements *)
LEMMA MergedAreStatements ==
  ASSUME TypeOK, NEW t \in Targets, NEW files \in Units[t], NEW k \in DOMAIN files
  PROVE  \A p \in Merged(files, k, t) : p[2] \in Statement
<1> SUFFICES ASSUME NEW p \in Merged(files, k, t) PROVE p[2] \in Statement OBVIOUS
<1>1. CASE \E s \in In(files[k]) : p = <<<<"file", k>>, s>> BY <1>1, FilesOfTarget
<1>2. CASE \E j \in DOMAIN files \ {k} : \E s \in In(files[j]) :
             IsExtracted(s) /\ p[2] = Declaration(s, Owner(files[j]), t)
  <2>1. PICK j \in DOMAIN files : \E s \in In(files[j]) :
          IsExtracted(s) /\ p[2] = Declaration(s, Owner(files[j]), t)
    BY <1>2
  <2>3. PICK s \in In(files[j]) :
          IsExtracted(s) /\ p[2] = Declaration(s, Owner(files[j]), t)
    BY <2>1
  <2>2. s \in Statement /\ Owner(files[j]) = t BY FilesOfTarget
  <2> QED BY <2>3, <2>2, DeclarationIsStatement
<1>3. CASE \E m \in Loaded(files) : p[2] \in In(headers[m])
  <2>1. PICK m \in DOMAIN headers : p[2] \in In(headers[m]) BY <1>3, LoadedHaveHeaders
  <2>2. headers[m] \in Seq(Statement) BY DEF TypeOK
  <2> QED BY <2>1, <2>2 DEF In
<1>4. CASE p = AllocDeclaration BY <1>4, AllocIsStatement
<1> QED BY <1>1, <1>2, <1>3, <1>4, MergedFrom

(* extraction of some files of a target gives statements, none "module" *)
LEMMA ExtractedAreDeclarations ==
  ASSUME NEW t \in Targets, NEW files \in Units[t], NEW others \in SUBSET DOMAIN files,
         NEW for \in Targets, NEW p \in DeclarationsOf(files, others, for)
  PROVE  p[2] \in Statement /\ p[2].kind # "module"
<1>1. PICK j \in others : \E s \in In(files[j]) :
        IsExtracted(s) /\ p[2] = Declaration(s, Owner(files[j]), for)
  BY DEF DeclarationsOf, From, Extract
<1>2. PICK s \in In(files[j]) :
        IsExtracted(s) /\ p[2] = Declaration(s, Owner(files[j]), for)
  BY <1>1
<1>3. s \in Statement /\ Owner(files[j]) = t BY FilesOfTarget
<1> QED BY <1>2, <1>3, DeclarationIsStatement

-----------------------------------------------------------------------------
(* Names and symbols                                                       *)

LEMMA ManglingGivesSymbols ==
  ASSUME NEW m \in Targets, NEW n \in Names \cup {Main}
  PROVE  Mangle(m, n) \in Symbols
BY DEF Mangle, Symbols, Ids, Simple, Targets

LEMMA ConstructorsAreSymbols ==
  ASSUME NEW m \in Targets, NEW id \in TypeIds
  PROVE  Constructor(m, id) \in Symbols
BY DEF Symbols

LEMMA IdsAreNames ==
  ASSUME NEW id \in Ids
  PROVE  \/ Len(id) = 1 /\ id = <<id[1]>> /\ id[1] \in Names \cup Targets \cup {Alloc}
         \/ Len(id) = 2 /\ id = <<id[1], id[2]>> /\ id[1] \in Targets /\ id[2] \in Names
<1>1. CASE id \in Simple(Names \cup Targets \cup {Alloc}) BY <1>1 DEF Simple
<1>2. CASE id \in Targets \X Names BY <1>2
<1> QED BY <1>1, <1>2 DEF Ids

(* The resolver only ever answers with a symbol (CodeGenIdentifierResolver). *)
LEMMA ResolvingGivesSymbols ==
  ASSUME TypeOK, NEW id \in Ids, NEW known \in SUBSET Symbols
  PROVE  Resolve(id, known) \in Symbols
<1>1. module \in Targets /\ DOMAIN types \subseteq TypeIds BY DEF TypeOK
<1>2. CASE id \in DOMAIN types /\ Len(id) = 1
  <2>1. Resolve(id, known) = Constructor(module, id) BY <1>2 DEF Resolve
  <2> QED BY <2>1, <1>1, <1>2, ConstructorsAreSymbols
<1>3. CASE Len(id) = 2
  <2>1. id[1] \in Targets /\ id[2] \in Names BY <1>3, IdsAreNames
  <2>2. <<id[2]>> \in TypeIds BY <2>1 DEF TypeIds, Simple
  <2>3. Resolve(id, known) \in {Constructor(id[1], <<id[2]>>), Mangle(id[1], id[2])}
    BY <1>3 DEF Resolve
  <2>4. Constructor(id[1], <<id[2]>>) \in Symbols BY <2>1, <2>2, ConstructorsAreSymbols
  <2>5. Mangle(id[1], id[2]) \in Symbols BY <2>1, ManglingGivesSymbols
  <2> QED BY <2>3, <2>4, <2>5
<1>4. CASE ~(id \in DOMAIN types /\ Len(id) = 1) /\ Len(id) # 2
  <2>1. Resolve(id, known)
          = IF Mangle(module, id[1]) \in known THEN Mangle(module, id[1]) ELSE id
    BY <1>4 DEF Resolve
  <2>2. id \in Symbols BY DEF Symbols
  <2> QED BY <2>1, <2>2
<1> QED BY <1>2, <1>3, <1>4

-----------------------------------------------------------------------------
(* Types                                                                   *)

LEMMA FailingKeepsTypes ==
  ASSUME TypeOK, NEW why, NEW what, NEW kind, phase # "idle",
         Fail(why, what, kind), pending' \subseteq pending
  PROVE  TypeOK'
<1>1. phase' = "failed" /\ UNCHANGED <<headers, bitcodes, sources, target, unit, file,
                                        module, types, symbols, objects, header>>
  BY DEF Fail, store, build, code
<1>2. phase # "idle" => unit \in Units[target] /\ file \in DOMAIN unit BY DEF TypeOK
<1> QED BY <1>1, <1>2 DEF TypeOK, Phases

(* what stays when a statement is generated *)
LEMMA ContinuingKeepsTypes ==
  ASSUME TypeOK, Continue, pending' \subseteq pending,
         types' \in [DOMAIN types' -> BOOLEAN], DOMAIN types' \subseteq TypeIds,
         symbols' \subseteq Symbols, objects' \in [DOMAIN unit -> Code]
  PROVE  TypeOK'
BY DEF TypeOK, Continue, store, build, Phases

LEMMA PuttingKeepsTypes ==
  ASSUME TypeOK, NEW id \in TypeIds, NEW b \in BOOLEAN
  PROVE  /\ Put(types, id, b) \in [DOMAIN Put(types, id, b) -> BOOLEAN]
         /\ DOMAIN Put(types, id, b) \subseteq TypeIds
BY DEF TypeOK, Put

LEMMA DeclaredAreSymbols ==
  ASSUME TypeOK, NEW id \in TypeIds
  PROVE  DeclaredSymbol(id) \in Symbols
<1>1. module \in Targets BY DEF TypeOK
<1>2. CASE id \in Simple(Names)
  <2>1. Len(id) = 1 /\ id[1] \in Names BY <1>2 DEF Simple
  <2> QED BY <2>1, <1>1, ManglingGivesSymbols DEF DeclaredSymbol
<1>3. CASE id \in Targets \X Names
  <2>1. Len(id) = 2 /\ id[1] \in Targets /\ id[2] \in Names BY <1>3
  <2> QED BY <2>1, ManglingGivesSymbols DEF DeclaredSymbol
<1> QED BY <1>2, <1>3 DEF TypeIds

LEMMA DeclaringKeepsTypes ==
  ASSUME TypeOK, phase # "idle", NEW s, NEW symbol \in Symbols, DeclareFunction(s, symbol),
         pending' \subseteq pending
  PROVE  TypeOK'
<1>1. CASE s.uses \subseteq DOMAIN types
  <2>1. symbols' \subseteq Symbols BY <1>1 DEF DeclareFunction, TypeOK
  <2> QED BY <1>1, <2>1, ContinuingKeepsTypes DEF DeclareFunction, TypeOK
<1>2. CASE ~(s.uses \subseteq DOMAIN types)
  BY <1>2, FailingKeepsTypes DEF DeclareFunction
<1> QED BY <1>1, <1>2

LEMMA VisitingKeepsTypes == ASSUME TypeOK, Visit PROVE TypeOK'
<1>1. PICK p \in Firsts(pending) :
        /\ pending' = pending \ {p}
        /\ \/ VisitModule(p[2]) \/ VisitImport(p[2]) \/ VisitExtern(p[2])
           \/ VisitForward(p[2]) \/ VisitStruct(p[2]) \/ VisitDeclare(p[2]) \/ VisitFunc(p[2])
  BY DEF Visit
<1> DEFINE s == p[2]
<1>2. s \in Statement BY DEF Firsts, TypeOK
<1>3. pending' \subseteq pending /\ phase # "idle" BY <1>1 DEF Visit
<1>4. /\ types \in [DOMAIN types -> BOOLEAN] /\ DOMAIN types \subseteq TypeIds
      /\ symbols \subseteq Symbols /\ objects \in [DOMAIN unit -> Code] /\ module \in Targets
  BY DEF TypeOK
<1>5. CASE VisitModule(s) BY <1>5, <1>3, FailingKeepsTypes DEF VisitModule
<1>6. CASE VisitImport(s) BY <1>6, <1>3, <1>4, ContinuingKeepsTypes DEF VisitImport
<1>7. CASE VisitExtern(s)
  <2>1. s.id \in Symbols BY <1>2 DEF Statement, Symbols
  <2> QED BY <1>7, <2>1, <1>3, DeclaringKeepsTypes DEF VisitExtern
<1>8. CASE VisitForward(s)
  <2>1. s.id \in TypeIds BY <1>2, <1>8 DEF Statement, Named, VisitForward
  <2>2. types' \in [DOMAIN types' -> BOOLEAN] /\ DOMAIN types' \subseteq TypeIds
    BY <1>8, <2>1, PuttingKeepsTypes DEF VisitForward
  <2> QED BY <1>8, <2>2, <1>3, <1>4, ContinuingKeepsTypes DEF VisitForward
<1>9. CASE VisitStruct(s)
  <2>1. s.id \in TypeIds BY <1>2, <1>9 DEF Statement, Named, VisitStruct
  <2>2. \/ \E why, what : Fail(why, what, "struct")
        \/ /\ types' = Put(types, s.id, TRUE)
           /\ symbols' = symbols \cup {Constructor(module, s.id)}
           /\ Continue /\ UNCHANGED objects
    BY <1>9 DEF VisitStruct
  <2>3. CASE \E why, what : Fail(why, what, "struct") BY <2>3, <1>3, FailingKeepsTypes
  <2>4. CASE /\ types' = Put(types, s.id, TRUE)
             /\ symbols' = symbols \cup {Constructor(module, s.id)}
             /\ Continue /\ UNCHANGED objects
    <3>1. types' \in [DOMAIN types' -> BOOLEAN] /\ DOMAIN types' \subseteq TypeIds
      BY <2>4, <2>1, PuttingKeepsTypes
    <3>2. symbols' \subseteq Symbols BY <2>4, <2>1, <1>4, ConstructorsAreSymbols
    <3> QED BY <2>4, <3>1, <3>2, <1>3, <1>4, ContinuingKeepsTypes
  <2> QED BY <2>2, <2>3, <2>4
<1>10. CASE VisitDeclare(s)
  <2>1. s.id \in TypeIds BY <1>2, <1>10 DEF Statement, Named, VisitDeclare
  <2>2. DeclaredSymbol(s.id) \in Symbols BY <2>1, DeclaredAreSymbols
  <2> QED BY <1>10, <2>2, <1>3, DeclaringKeepsTypes DEF VisitDeclare
<1>11. CASE VisitFunc(s)
  <2> DEFINE symbol == Mangle(module, s.id[1])
  <2> DEFINE known == symbols \cup {symbol}
  <2>1. \/ \E why, what : Fail(why, what, "func")
        \/ /\ symbols' = known
           /\ objects' = [objects EXCEPT
                ![file].defines = @ \cup {symbol},
                ![file].needs = @ \cup External({Resolve(c, known) : c \in s.calls})]
           /\ Continue /\ UNCHANGED types
    BY <1>11 DEF VisitFunc
  <2>2. CASE \E why, what : Fail(why, what, "func") BY <2>2, <1>3, FailingKeepsTypes
  <2>3. CASE /\ symbols' = known
             /\ objects' = [objects EXCEPT
                  ![file].defines = @ \cup {symbol},
                  ![file].needs = @ \cup External({Resolve(c, known) : c \in s.calls})]
             /\ Continue /\ UNCHANGED types
    <3>1. s.id[1] \in Names \cup {Main}
      <4>1. s.id \in Simple(Names \cup {Main}) BY <1>2, <1>11 DEF Statement, Named, VisitFunc
      <4> QED BY <4>1 DEF Simple
    <3>2. known \subseteq Symbols BY <3>1, <1>4, ManglingGivesSymbols
    <3>3. External({Resolve(c, known) : c \in s.calls}) \subseteq Symbols
      BY <3>2, <1>2, ResolvingGivesSymbols DEF External, Statement
    <3> HIDE DEF known, symbol
    <3>4. symbol \in Symbols BY <3>2 DEF known
    <3>5. objects' \in [DOMAIN unit -> Code]
      BY <2>3, <3>3, <3>4, <1>4 DEF Code
    <3> QED BY <2>3, <3>2, <3>5, <1>3, <1>4, ContinuingKeepsTypes
  <2> HIDE DEF known, symbol
  <2> QED BY <2>1, <2>2, <2>3
<1> QED BY <1>1, <1>5, <1>6, <1>7, <1>8, <1>9, <1>10, <1>11

LEMMA GeneratingKeepsTypes ==
  ASSUME TypeOK, NEW t \in Targets, NEW files \in Units[t], NEW k \in DOMAIN files,
         GenerateFile(files, k, t), target' = t, unit' = files,
         UNCHANGED <<headers, bitcodes, sources, header>>,
         objects' \in [DOMAIN files -> Code]
  PROVE  TypeOK'
<1>1. \A p \in pending' : p[2] \in Statement BY MergedAreStatements DEF GenerateFile
<1>2. Main \in Targets BY DEF Targets
<1> QED BY <1>1, <1>2 DEF GenerateFile, TypeOK, Phases

(* Only the files of a module are followed by a header. *)
WritesModule == phase = "write" => target \in Modules

LEMMA LinkingKeepsTypes == ASSUME TypeOK, Link PROVE TypeOK'
<1>1. CASE Shared # {}
  <2>1. PICK x \in Shared : Fail("multiply defined", x, "link") /\ UNCHANGED pending
    BY <1>1 DEF Link
  <2> QED BY <2>1, FailingKeepsTypes DEF Link
<1>2. CASE Shared = {}
  <2>1. /\ phase' \in {"linked", "write"} /\ phase # "idle"
        /\ pending' \in {pending, DeclarationsOf(unit, DOMAIN unit, Main)}
        /\ UNCHANGED <<headers, bitcodes, sources, target, unit, file,
                       module, types, symbols, objects, header>>
    BY <1>2 DEF Link, store, build, code
  <2>2. target \in Targets /\ unit \in Units[target] /\ file \in DOMAIN unit /\ Main \in Targets
    BY <2>1 DEF TypeOK, Targets
  <2>3. \A p \in DeclarationsOf(unit, DOMAIN unit, Main) : p[2] \in Statement
    BY <2>2, ExtractedAreDeclarations
  <2>4. \A p \in pending' : p[2] \in Statement BY <2>1, <2>3 DEF TypeOK
  <2> QED BY <2>1, <2>2, <2>4 DEF TypeOK, Phases
<1> QED BY <1>1, <1>2

LEMMA WritingKeepsTypes == ASSUME TypeOK, WriteDeclaration PROVE TypeOK'
<1>1. PICK p \in Firsts(pending) :
        /\ header' = Append(header, [p[2] EXCEPT !.line = Len(header) + 1])
        /\ pending' = pending \ {p}
  BY DEF WriteDeclaration
<1>2. p[2] \in Statement BY DEF Firsts, TypeOK
<1>3. header \in Seq(Statement) /\ Len(header) + 1 \in Nat BY DEF TypeOK
<1>4. [p[2] EXCEPT !.line = Len(header) + 1] \in Statement BY <1>2, <1>3 DEF Statement, Named
<1>5. header' \in Seq(Statement) BY <1>1, <1>3, <1>4
<1>6. /\ UNCHANGED <<headers, bitcodes, sources, target, unit, file, phase,
                     module, types, symbols, objects>>
      /\ phase = "write"
  BY DEF WriteDeclaration, store, build, code
<1> QED BY <1>1, <1>5, <1>6 DEF TypeOK

LEMMA FinishingKeepsTypes == ASSUME TypeOK, WritesModule, FinishModule PROVE TypeOK'
<1>1. CASE header = <<>>
  BY <1>1, FailingKeepsTypes DEF FinishModule
<1>2. CASE header # <<>>
  <2> DEFINE linked == [defines |-> UNION {objects[k].defines : k \in DOMAIN objects},
                        needs |-> UNION {objects[k].needs : k \in DOMAIN objects}]
  <2>1. /\ headers' = Put(headers, target, header)
        /\ bitcodes' = Put(bitcodes, target, linked)
        /\ sources' = Put(sources, target, unit)
        /\ target' = Main /\ unit' = <<>> /\ file' = 1 /\ phase' = "idle" /\ header' = <<>>
        /\ module' = Main /\ types' = <<>> /\ symbols' = {} /\ objects' = <<>>
        /\ UNCHANGED pending
    BY <1>2 DEF FinishModule
  <2>2. /\ headers \in [DOMAIN headers -> Seq(Statement)] /\ DOMAIN headers \subseteq Modules
        /\ bitcodes \in [DOMAIN headers -> Code] /\ DOMAIN sources = DOMAIN headers
        /\ header \in Seq(Statement) /\ objects \in [DOMAIN unit -> Code]
    BY DEF TypeOK
  <2>3. target \in Modules BY DEF WritesModule, FinishModule
  <2>4. linked \in Code
    <3>1. \A k \in DOMAIN objects : /\ objects[k].defines \subseteq Symbols
                                    /\ objects[k].needs \subseteq Symbols
      BY <2>2 DEF Code
    <3> QED BY <3>1 DEF Code
  <2> HIDE DEF linked
  <2>5. /\ headers' \in [DOMAIN headers' -> Seq(Statement)]
        /\ DOMAIN headers' = DOMAIN headers \cup {target}
    BY <2>1, <2>2 DEF Put
  <2>6. bitcodes' \in [DOMAIN headers' -> Code] BY <2>1, <2>2, <2>4, <2>5 DEF Put
  <2>7. DOMAIN sources' = DOMAIN headers' BY <2>1, <2>2, <2>5 DEF Put
  <2>8. Main \in Targets BY DEF Targets
  <2> QED BY <2>1, <2>2, <2>3, <2>5, <2>6, <2>7, <2>8 DEF TypeOK, Phases
<1> QED BY <1>1, <1>2

LEMMA StartingKeepsTypes == ASSUME TypeOK, NEW t \in Targets, Start(t) PROVE TypeOK'
<1>1. PICK files \in Units[t] :
        /\ target' = t /\ unit' = files
        /\ objects' = [k \in DOMAIN files |-> NoCode]
        /\ GenerateFile(files, 1, t)
  BY DEF Start
<1>2. 1 \in DOMAIN files
  <2>1. files \in Seq(Seq(Statement)) /\ files # <<>> BY DeclarationsAssumption
  <2> QED BY <2>1
<1>3. NoCode \in Code BY DEF NoCode, Code
<1>4. UNCHANGED <<headers, bitcodes, sources, header>> BY DEF Start, store
<1> QED BY <1>1, <1>2, <1>3, <1>4, GeneratingKeepsTypes

LEMMA EndingKeepsTypes == ASSUME TypeOK, EndFile PROVE TypeOK'
<1>1. target \in Targets /\ unit \in Units[target] /\ file \in DOMAIN unit
      /\ objects \in [DOMAIN unit -> Code]
  BY DEF TypeOK, EndFile
<1>2. UNCHANGED <<headers, bitcodes, sources, header>> BY DEF EndFile, store
<1>3. CASE file < Len(unit)
  <2>1. unit \in Seq(Seq(Statement)) BY <1>1, DeclarationsAssumption
  <2>2. file + 1 \in DOMAIN unit BY <2>1, <1>1, <1>3
  <2> QED BY <2>2, <1>1, <1>2, <1>3, GeneratingKeepsTypes DEF EndFile
<1>4. CASE ~(file < Len(unit))
  BY <1>4, <1>2 DEF EndFile, TypeOK, Phases, build, code
<1> QED BY <1>3, <1>4

LEMMA EnteringKeepsTypes == ASSUME TypeOK, EnterBlock PROVE TypeOK'
<1>1. PICK p \in Firsts(pending) :
        IF p[2].kind = "module"
        THEN module' = p[2].id[1] /\ pending' = pending \ {p}
        ELSE UNCHANGED <<module, pending>>
  BY DEF EnterBlock
<1>2. p[2] \in Statement BY DEF Firsts, TypeOK
<1>3. module' \in Targets /\ pending' \subseteq pending
  <2>1. CASE p[2].kind = "module"
    <3>1. p[2].id \in Simple(Modules) BY <2>1, <1>2 DEF Statement, Named
    <3> QED BY <3>1, <2>1, <1>1 DEF Simple, Targets
  <2>2. CASE p[2].kind # "module" BY <2>2, <1>1 DEF TypeOK
  <2> QED BY <2>1, <2>2
<1>4. /\ phase = "sorted" /\ phase' = "generate"
      /\ UNCHANGED <<headers, bitcodes, sources, target, unit, file, types, symbols,
                     objects, header>>
  BY DEF EnterBlock, store, build
<1> QED BY <1>3, <1>4 DEF TypeOK, Phases

LEMMA WritesModuleIsKept == ASSUME TypeOK, WritesModule, Next PROVE WritesModule'
<1>1. ASSUME phase' = "write" PROVE target' \in Modules
  <2>1. CASE \E t \in Targets : Start(t) BY <1>1, <2>1 DEF Start, GenerateFile
  <2>2. CASE EnterBlock BY <1>1, <2>2 DEF EnterBlock
  <2>3. CASE Visit
    BY <1>1, <2>3 DEF Visit, VisitModule, VisitImport, VisitExtern, VisitForward, VisitStruct,
                      VisitDeclare, VisitFunc, DeclareFunction, Fail, Continue
  <2>4. CASE EndFile BY <1>1, <2>4 DEF EndFile, GenerateFile
  <2>5. CASE Link
    <3>1. target # Main /\ UNCHANGED target BY <1>1, <2>5 DEF Link, Fail, build
    <3> QED BY <3>1 DEF TypeOK, Targets
  <2>6. CASE WriteDeclaration BY <1>1, <2>6 DEF WriteDeclaration, WritesModule, build
  <2>7. CASE FinishModule BY <1>1, <2>7 DEF FinishModule, Fail
  <2> QED BY <2>1, <2>2, <2>3, <2>4, <2>5, <2>6, <2>7 DEF Next
<1> QED BY <1>1 DEF WritesModule

(* Every statement, identifier and symbol the compiler makes is of the     *)
(* expected form, whatever files it is given (the build as a whole).       *)
THEOREM TypesAreCorrect == Spec => []TypeOK
<1>1. Init => TypeOK /\ WritesModule
  BY DEF Init, TypeOK, WritesModule, Targets, Phases
<1>2. TypeOK /\ WritesModule /\ [Next]_vars => TypeOK' /\ WritesModule'
  <2> SUFFICES ASSUME TypeOK, WritesModule, [Next]_vars PROVE TypeOK' /\ WritesModule'
    OBVIOUS
  <2>1. CASE Next
    <3>1. TypeOK'
      BY <2>1, StartingKeepsTypes, EnteringKeepsTypes, VisitingKeepsTypes, EndingKeepsTypes,
         LinkingKeepsTypes, WritingKeepsTypes, FinishingKeepsTypes DEF Next
    <3> QED BY <3>1, <2>1, WritesModuleIsKept
  <2>2. CASE UNCHANGED vars
    BY <2>2 DEF vars, store, build, code, TypeOK, WritesModule
  <2> QED BY <2>1, <2>2
<1> QED BY <1>1, <1>2, PTL DEF Spec

-----------------------------------------------------------------------------
(* What the order of statements gives                                      *)

(* A failure is the end: until then there was none. *)
NoFailureYet == phase # "failed" => failure = NoFailure

LEMMA NoFailureYetIsKept == ASSUME NoFailureYet, Next PROVE NoFailureYet'
<1>1. CASE \E t \in Targets : Start(t) BY <1>1 DEF Start, GenerateFile, NoFailureYet
<1>2. CASE EnterBlock BY <1>2 DEF EnterBlock, NoFailureYet
<1>3. CASE Visit
  BY <1>3 DEF Visit, VisitModule, VisitImport, VisitExtern, VisitForward, VisitStruct,
              VisitDeclare, VisitFunc, DeclareFunction, Fail, Continue,
              NoFailureYet
<1>4. CASE EndFile BY <1>4 DEF EndFile, GenerateFile, NoFailureYet
<1>5. CASE Link BY <1>5 DEF Link, Fail, NoFailureYet
<1>6. CASE WriteDeclaration BY <1>6 DEF WriteDeclaration, NoFailureYet
<1>7. CASE FinishModule BY <1>7 DEF FinishModule, Fail, NoFailureYet
<1> QED BY <1>1, <1>2, <1>3, <1>4, <1>5, <1>6, <1>7 DEF Next

(* Either the allocator is declared or its declaration is still to come,   *)
(* and then it comes before every type.                                    *)
AllocatorIsReady ==
  phase \in {"sorted", "generate"} => <<Alloc>> \in symbols \/ AllocDeclaration \in pending

LEMMA AllocatorPrecedesTypes ==
  ASSUME AllocDeclaration \in pending, NEW p \in Firsts(pending)
  PROVE  p[2].kind # "struct"
<1>1. ~Before(AllocDeclaration[2], p[2]) BY DEF Firsts
<1>2. Priority(AllocDeclaration[2]) = 1
  <2>1. AllocDeclaration[2].kind = "extern" /\ AllocDeclaration[2].id = <<Alloc>>
    BY DEF AllocDeclaration
  <2>2. \A s : s.kind = "extern" /\ s.id = <<Alloc>> => Priority(s) = 1 BY DEF Priority
  <2> QED BY <2>1, <2>2
<1>3. ASSUME p[2].kind = "struct" PROVE FALSE
  <2>1. Priority(p[2]) = 2 BY <1>3 DEF Priority
  <2> QED BY <2>1, <1>1, <1>2 DEF Before
<1> QED BY <1>3

LEMMA First == \A a, b : <<a, b>>[1] = a
OBVIOUS

LEMMA FailingKeepsAllocator ==
  ASSUME NEW why, NEW what, NEW kind, Fail(why, what, kind), why # "cannot allocate memory"
  PROVE  AllocatorIsReady' /\ AllocatorComesFirst'
<1>1. phase' = "failed" /\ failure'.why = why BY DEF Fail
<1> QED BY <1>1 DEF AllocatorIsReady, AllocatorComesFirst

LEMMA ContinuingKeepsAllocator ==
  ASSUME Continue, AllocatorComesFirst, <<Alloc>> \in symbols' \/ AllocDeclaration \in pending'
  PROVE  AllocatorIsReady' /\ AllocatorComesFirst'
BY DEF Continue, AllocatorIsReady, AllocatorComesFirst, AllocDeclaration

LEMMA DeclaringKeepsAllocator ==
  ASSUME NEW s, NEW symbol, DeclareFunction(s, symbol), AllocatorComesFirst,
         <<Alloc>> \in symbols \cup {symbol} \/ AllocDeclaration \in pending'
  PROVE  AllocatorIsReady' /\ AllocatorComesFirst'
<1>1. CASE s.uses \subseteq DOMAIN types
  BY <1>1, ContinuingKeepsAllocator DEF DeclareFunction
<1>2. CASE ~(s.uses \subseteq DOMAIN types)
  BY <1>2, FailingKeepsAllocator DEF DeclareFunction
<1> QED BY <1>1, <1>2

LEMMA AllocatorStaysReady ==
  ASSUME AllocatorIsReady, AllocatorComesFirst, Next
  PROVE  AllocatorIsReady' /\ AllocatorComesFirst'
<1>1. ASSUME NEW files, NEW k, NEW t, GenerateFile(files, k, t) PROVE AllocatorIsReady'
  <2>1. AllocDeclaration \in pending' BY <1>1 DEF GenerateFile, Merged
  <2> QED BY <2>1 DEF AllocatorIsReady, AllocDeclaration
<1>2. CASE \E t \in Targets : Start(t)
  BY <1>2, <1>1 DEF Start, AllocatorComesFirst
<1>3. CASE EnterBlock
  <2>1. PICK p \in Firsts(pending) :
          IF p[2].kind = "module" THEN pending' = pending \ {p} ELSE pending' = pending
    BY <1>3 DEF EnterBlock
  <2>2. AllocDeclaration[2].kind = "extern" BY DEF AllocDeclaration
  <2>3. AllocDeclaration \in pending => AllocDeclaration \in pending' BY <2>1, <2>2
  <2> QED BY <2>3, <1>3 DEF EnterBlock, AllocatorIsReady, AllocatorComesFirst, AllocDeclaration
<1>4. CASE Visit
  <2>1. PICK p \in Firsts(pending) :
          /\ pending' = pending \ {p}
          /\ \/ VisitModule(p[2]) \/ VisitImport(p[2]) \/ VisitExtern(p[2])
             \/ VisitForward(p[2]) \/ VisitStruct(p[2]) \/ VisitDeclare(p[2]) \/ VisitFunc(p[2])
    BY <1>4 DEF Visit
  <2>2. phase = "generate" BY <1>4 DEF Visit
  <2>3. <<Alloc>> \in symbols \/ AllocDeclaration \in pending BY <2>2 DEF AllocatorIsReady
  <2>4. p[2].kind = "struct" => <<Alloc>> \in symbols BY <2>3, AllocatorPrecedesTypes
  <2>5. CASE VisitStruct(p[2])
    <3>1. <<Alloc>> \in symbols BY <2>5, <2>4 DEF VisitStruct
    <3>2. CASE \E why, what : Fail(why, what, "struct") /\ why # "cannot allocate memory"
      BY <3>2, FailingKeepsAllocator
    <3>3. CASE symbols \subseteq symbols' /\ Continue BY <3>3, <3>1, ContinuingKeepsAllocator
    <3> DEFINE wrong ==
          IF HasMembers(p[2].id) THEN {<<"already declared", p[2].id>>}
          ELSE IF ~(p[2].uses \subseteq DOMAIN types \cup {p[2].id})
          THEN {<<"unknown type", u>> : u \in p[2].uses \ (DOMAIN types \cup {p[2].id})}
          ELSE {}
    <3>4. ASSUME NEW w \in wrong PROVE w[1] # "cannot allocate memory"
      <4>1. \E u : w = <<"already declared", u>> \/ w = <<"unknown type", u>> OBVIOUS
      <4> HIDE DEF wrong
      <4>2. w[1] \in {"already declared", "unknown type"} BY <4>1, First
      <4> QED BY <4>2
    <3>5. IF wrong # {} THEN \E w \in wrong : Fail(w[1], w[2], "struct")
          ELSE symbols \subseteq symbols' /\ Continue
      BY <2>5, <3>1 DEF VisitStruct
    <3> HIDE DEF wrong
    <3> QED BY <3>2, <3>3, <3>4, <3>5
  <2>6. CASE VisitExtern(p[2])
    <3>1. CASE p = AllocDeclaration
      <4>1. p[2].id = <<Alloc>> BY <3>1 DEF AllocDeclaration
      <4> QED BY <4>1, <2>6, DeclaringKeepsAllocator DEF VisitExtern
    <3>2. CASE p # AllocDeclaration
      <4>1. AllocDeclaration \in pending => AllocDeclaration \in pending' BY <2>1, <3>2
      <4> QED BY <4>1, <2>3, <2>6, DeclaringKeepsAllocator DEF VisitExtern
    <3> QED BY <3>1, <3>2
  <2>7. ASSUME \/ VisitModule(p[2]) \/ VisitImport(p[2]) \/ VisitForward(p[2])
               \/ VisitDeclare(p[2]) \/ VisitFunc(p[2])
        PROVE  AllocatorIsReady' /\ AllocatorComesFirst'
    <3>1. p[2].kind # "extern"
      BY <2>7 DEF VisitModule, VisitImport, VisitForward, VisitDeclare, VisitFunc
    <3>2. AllocDeclaration \in pending => AllocDeclaration \in pending'
      <4>1. AllocDeclaration[2].kind = "extern" BY DEF AllocDeclaration
      <4> QED BY <4>1, <3>1, <2>1
    <3>3. ASSUME symbols \subseteq symbols', Continue
          PROVE  AllocatorIsReady' /\ AllocatorComesFirst'
      BY <3>2, <3>3, <2>3, ContinuingKeepsAllocator
    <3>4. CASE VisitModule(p[2]) BY <3>4, FailingKeepsAllocator DEF VisitModule
    <3>5. CASE VisitImport(p[2]) BY <3>5, <3>3 DEF VisitImport
    <3>6. CASE VisitForward(p[2]) BY <3>6, <3>3 DEF VisitForward
    <3>7. CASE VisitDeclare(p[2]) BY <3>7, <3>2, <2>3, DeclaringKeepsAllocator DEF VisitDeclare
    <3>8. CASE VisitFunc(p[2])
      <4> DEFINE symbol == Mangle(module, p[2].id[1])
      <4> DEFINE known == symbols \cup {symbol}
      <4> DEFINE wrong ==
            IF symbol \in symbols THEN {<<"already declared", p[2].id>>}
            ELSE IF ~(p[2].uses \subseteq DOMAIN types)
            THEN {<<"unknown type", u>> : u \in p[2].uses \ DOMAIN types}
            ELSE {<<"undeclared function", c>> :
                    c \in {d \in p[2].calls : Resolve(d, known) \notin known}}
                   \cup {<<"not callable", c>> : c \in {d \in p[2].calls : ~Callable(d)}}
      <4>1. ASSUME NEW w \in wrong PROVE w[1] # "cannot allocate memory"
        <5>1. \E u : \/ w = <<"already declared", u>> \/ w = <<"unknown type", u>>
                    \/ w = <<"undeclared function", u>> \/ w = <<"not callable", u>>
          <6> HIDE DEF symbol, known
          <6> QED OBVIOUS
        <5> HIDE DEF wrong
        <5>2. w[1] \in {"already declared", "unknown type", "undeclared function",
                        "not callable"}
          BY <5>1, First
        <5> QED BY <5>2
      <4>2. IF wrong # {} THEN \E w \in wrong : Fail(w[1], w[2], "func")
            ELSE symbols \subseteq symbols' /\ Continue
        BY <3>8 DEF VisitFunc
      <4> HIDE DEF wrong
      <4> QED BY <4>1, <4>2, <3>3, FailingKeepsAllocator
    <3> QED BY <2>7, <3>4, <3>5, <3>6, <3>7, <3>8
  <2> QED BY <2>1, <2>5, <2>6, <2>7
<1>5. CASE EndFile
  BY <1>5, <1>1 DEF EndFile, AllocatorIsReady, AllocatorComesFirst
<1>6. CASE Link
  <2>1. \/ \E x : Fail("multiply defined", x, "link")
        \/ phase' \in {"linked", "write"} /\ UNCHANGED failure
    BY <1>6 DEF Link
  <2> QED BY <2>1, FailingKeepsAllocator DEF AllocatorIsReady, AllocatorComesFirst
<1>7. CASE WriteDeclaration
  BY <1>7 DEF WriteDeclaration, AllocatorIsReady, AllocatorComesFirst
<1>8. CASE FinishModule
  <2>1. \/ Fail("cannot write", <<target>>, "module")
        \/ phase' = "idle" /\ UNCHANGED failure
    BY <1>8 DEF FinishModule
  <2> QED BY <2>1, FailingKeepsAllocator DEF AllocatorIsReady, AllocatorComesFirst
<1> QED BY <1>2, <1>3, <1>4, <1>5, <1>6, <1>7, <1>8 DEF Next

(* No constructor is ever generated without an allocator to call: ordering *)
(* by priority puts its declaration first in every file (ASTNode.h:287).   *)
THEOREM AllocatorIsDeclaredFirst == Spec => []AllocatorComesFirst
<1>1. Init => AllocatorIsReady /\ AllocatorComesFirst
  BY DEF Init, AllocatorIsReady, AllocatorComesFirst, NoFailure
<1>2. AllocatorIsReady /\ AllocatorComesFirst /\ [Next]_vars
        => AllocatorIsReady' /\ AllocatorComesFirst'
  <2> SUFFICES ASSUME AllocatorIsReady, AllocatorComesFirst, [Next]_vars
               PROVE  AllocatorIsReady' /\ AllocatorComesFirst'
    OBVIOUS
  <2>1. CASE Next BY <2>1, AllocatorStaysReady
  <2>2. CASE UNCHANGED vars
    BY <2>2 DEF vars, store, build, code, AllocatorIsReady, AllocatorComesFirst,
                AllocDeclaration
  <2> QED BY <2>1, <2>2
<1> QED BY <1>1, <1>2, PTL DEF Spec

-----------------------------------------------------------------------------
(* What keeps the module statement of a file from being first              *)

Around == Statements(OtherFiles) \cup UNION {In(headers[m]) : m \in Loaded(unit)}
Displaced == \E s \in Around : s.kind = "import" /\ s.line <= unit[file][1].line

(* No header has a module statement, and one which is still there when     *)
(* statements are generated has an import before it.                       *)
ModuleIsFirstOrDisplaced ==
  /\ \A m \in DOMAIN headers : \A s \in In(headers[m]) : s.kind # "module"
  /\ \A s \in In(header) : s.kind # "module"
  /\ phase = "write" => \A p \in pending : p[2].kind # "module"
  /\ phase = "sorted" => pending = Merged(unit, file, target)
  /\ phase = "generate" => ((\E p \in pending : p[2].kind = "module") => Displaced)

LEMMA LoadedIsKept == ASSUME UNCHANGED headers PROVE \A files : Loaded(files)' = Loaded(files)
BY DEF Loaded

LEMMA MergedIsKept ==
  ASSUME UNCHANGED headers, NEW files, NEW k, NEW t
  PROVE  Merged(files, k, t)' = Merged(files, k, t)
BY LoadedIsKept DEF Merged, ExternalDeclarations

LEMMA DisplacedIsKept ==
  ASSUME UNCHANGED <<headers, unit, file>> PROVE Displaced' = Displaced
<1>1. Loaded(unit)' = Loaded(unit) BY DEF Loaded
<1>2. OtherFiles' = OtherFiles BY DEF OtherFiles
<1>3. Around' = Around BY <1>1, <1>2 DEF Around, Statements
<1> QED BY <1>3 DEF Displaced

(* The first statement of a file's block that is not its module statement  *)
(* is an import from elsewhere.                                            *)
LEMMA FirstIsModuleOrImport ==
  ASSUME TypeOK, ModuleIsFirstOrDisplaced, phase = "sorted", NEW p \in Firsts(pending)
  PROVE  \/ /\ p[2].kind = "module"
            /\ \A q \in pending : q[2].kind = "module" => q = p
         \/ (\E q \in pending : q[2].kind = "module") => Displaced
<1>1. /\ target \in Targets /\ unit \in Units[target] /\ file \in DOMAIN unit
      /\ pending = Merged(unit, file, target)
      /\ \A m \in DOMAIN headers : \A s \in In(headers[m]) : s.kind # "module"
  BY DEF TypeOK, ModuleIsFirstOrDisplaced
<1>2. ASSUME NEW q \in pending, q[2].kind = "module"
      PROVE  q = <<<<"file", file>>, unit[file][1]>>
  <2>1. CASE \E s \in In(unit[file]) : q = <<<<"file", file>>, s>>
    <3>1. PICK i \in DOMAIN unit[file] : q = <<<<"file", file>>, unit[file][i]>>
      BY <2>1 DEF In
    <3>2. unit[file][i].kind = "module" BY <3>1, <1>2
    <3>3. i = 1 BY <3>2, <1>1, FilesOfTarget
    <3> QED BY <3>1, <3>3
  <2>2. CASE \E j \in DOMAIN unit \ {file} : \E s \in In(unit[j]) :
               IsExtracted(s) /\ q[2] = Declaration(s, Owner(unit[j]), target)
    <3>1. PICK j \in DOMAIN unit \ {file} : \E s \in In(unit[j]) :
            IsExtracted(s) /\ q[2] = Declaration(s, Owner(unit[j]), target)
      BY <2>2
    <3>2. PICK s \in In(unit[j]) :
            IsExtracted(s) /\ q[2] = Declaration(s, Owner(unit[j]), target)
      BY <3>1
    <3>3. s \in Statement /\ Owner(unit[j]) = target BY <1>1, FilesOfTarget
    <3> QED BY <3>2, <3>3, <1>1, <1>2, DeclarationIsStatement
  <2>3. CASE \E m \in Loaded(unit) : q[2] \in In(headers[m])
    BY <2>3, <1>1, <1>2, LoadedHaveHeaders
  <2>4. CASE q = AllocDeclaration
    <3>1. q[2].kind = "extern" BY <2>4 DEF AllocDeclaration
    <3> QED BY <3>1, <1>2
  <2> QED BY <2>1, <2>2, <2>3, <2>4, <1>1, MergedFrom
<1>3. p \in pending BY DEF Firsts
<1>4. CASE p[2].kind = "module" BY <1>4, <1>2, <1>3
<1>5. ASSUME p[2].kind # "module", NEW q \in pending, q[2].kind = "module" PROVE Displaced
  <2>1. p[2] \in Statement /\ q[2] \in Statement BY <1>3 DEF TypeOK
  <2>2. ~Before(q[2], p[2]) BY DEF Firsts
  <2>3. Priority(q[2]) = 0 BY <1>5 DEF Priority
  <2>4. p[2].kind = "import"
    <3>1. ASSUME p[2].kind # "import" PROVE Priority(p[2]) > 0 BY <1>5, <3>1 DEF Priority
    <3> QED BY <3>1, <2>2, <2>3 DEF Before
  <2>5. Priority(p[2]) = 0 BY <2>4 DEF Priority
  <2>6. q[2] = unit[file][1] BY <1>2, <1>5
  <2>7. p[2].line <= unit[file][1].line
    <3>1. ~(q[2].line < p[2].line) BY <2>2, <2>3, <2>5 DEF Before
    <3>2. q[2].line \in Nat /\ p[2].line \in Nat BY <2>1 DEF Statement
    <3> QED BY <3>1, <3>2, <2>6
  <2>8. CASE \E s \in In(unit[file]) : p = <<<<"file", file>>, s>>
    <3>1. PICK i \in DOMAIN unit[file] : p[2] = unit[file][i] BY <2>8 DEF In
    <3>2. i # 1 BY <3>1, <2>6, <1>5
    <3>3. i > 1 BY <3>2, <1>1, FilesOfTarget
    <3>4. unit[file][1].line < unit[file][i].line BY <3>3, <1>1, FilesOfTarget
    <3>5. unit[file][1].line \in Nat /\ unit[file][i].line \in Nat
      BY <2>1, <2>6, <3>1 DEF Statement
    <3> QED BY <3>1, <3>4, <3>5, <2>7
  <2>9. CASE \E j \in DOMAIN unit \ {file} : \E s \in In(unit[j]) :
               IsExtracted(s) /\ p[2] = Declaration(s, Owner(unit[j]), target)
    <3>1. PICK j \in DOMAIN unit \ {file} : \E s \in In(unit[j]) :
            IsExtracted(s) /\ p[2] = Declaration(s, Owner(unit[j]), target)
      BY <2>9
    <3>2. PICK s \in In(unit[j]) :
            IsExtracted(s) /\ p[2] = Declaration(s, Owner(unit[j]), target)
      BY <3>1
    <3>3. s \in Statement /\ Owner(unit[j]) = target BY <1>1, FilesOfTarget
    <3>4. p[2] = s BY <3>2, <3>3, <2>4, <1>1, DeclarationIsStatement
    <3>5. j \in DOMAIN OtherFiles /\ OtherFiles[j] = unit[j] BY DEF OtherFiles
    <3>6. s \in Around BY <3>5 DEF Around, Statements
    <3> QED BY <3>6, <3>4, <2>4, <2>7 DEF Displaced
  <2>10. CASE \E m \in Loaded(unit) : p[2] \in In(headers[m])
    <3>1. p[2] \in Around BY <2>10 DEF Around
    <3> QED BY <3>1, <2>4, <2>7 DEF Displaced
  <2>11. CASE p = AllocDeclaration
    <3>1. p[2].kind = "extern" BY <2>11 DEF AllocDeclaration
    <3> QED BY <3>1, <2>4
  <2> QED BY <2>8, <2>9, <2>10, <2>11, <1>1, <1>3, MergedFrom
<1> QED BY <1>4, <1>5

OrderInv == NoFailureYet /\ ModuleIsFirstOrDisplaced /\ OnlyImportsDisplaceModule

LEMMA OnlyFailureMatters == NoFailureYet /\ phase # "failed" => OnlyImportsDisplaceModule
<1>1. NoFailure.why = "none" BY DEF NoFailure
<1>2. NoFailureYet /\ phase # "failed" => failure.why # "module declaration not first"
  BY <1>1 DEF NoFailureYet
<1> QED BY <1>2 DEF OnlyImportsDisplaceModule

LEMMA OrderIsKept == ASSUME TypeOK, OrderInv, Next PROVE OrderInv'
<1>1. NoFailureYet' BY NoFailureYetIsKept DEF OrderInv
<1>2. (NoFailureYet /\ phase # "failed" => OnlyImportsDisplaceModule)'
  BY OnlyFailureMatters, PTL
<1>3. /\ \A m \in DOMAIN headers : \A s \in In(headers[m]) : s.kind # "module"
      /\ \A s \in In(header) : s.kind # "module"
  BY DEF OrderInv, ModuleIsFirstOrDisplaced
<1>4. ASSUME NEW files, NEW k, NEW t, GenerateFile(files, k, t), UNCHANGED <<headers, header>>,
             unit' = files, target' = t
      PROVE  OrderInv'
  <2>1. Merged(files, k, t)' = Merged(files, k, t) BY <1>4, MergedIsKept
  <2>2. /\ phase' = "sorted" /\ pending' = Merged(files, k, t) /\ file' = k
    BY <1>4 DEF GenerateFile
  <2>3. Merged(files, k, t) = Merged(unit, file, target)'
    BY <2>2, <1>4, LoadedIsKept DEF Merged, ExternalDeclarations
  <2>4. ModuleIsFirstOrDisplaced' BY <2>2, <2>3, <1>3, <1>4 DEF ModuleIsFirstOrDisplaced
  <2> QED BY <2>4, <2>2, <1>1, <1>2 DEF OrderInv
<1>5. ASSUME NEW why, NEW what, NEW kind, Fail(why, what, kind),
             why # "module declaration not first"
      PROVE  OrderInv'
  <2>1. phase' = "failed" /\ failure'.why = why /\ UNCHANGED <<headers, header>>
    BY <1>5 DEF Fail, store
  <2> QED BY <2>1, <1>1, <1>3, <1>5 DEF OrderInv, ModuleIsFirstOrDisplaced,
                                       OnlyImportsDisplaceModule
<1>6. CASE \E t \in Targets : Start(t)
  <2>1. PICK t \in Targets, files \in UNION {Units[u] : u \in Targets} :
          /\ GenerateFile(files, 1, t) /\ UNCHANGED <<headers, header>>
          /\ target' = t /\ unit' = files
    BY <1>6 DEF Start, store
  <2> QED BY <2>1, <1>4
<1>7. CASE EnterBlock
  <2>1. PICK p \in Firsts(pending) :
          IF p[2].kind = "module" THEN pending' = pending \ {p} ELSE pending' = pending
    BY <1>7 DEF EnterBlock
  <2>2. /\ phase = "sorted" /\ phase' = "generate"
        /\ UNCHANGED <<headers, header, unit, file, failure>>
    BY <1>7 DEF EnterBlock, store, build
  <2>3. (\E q \in pending' : q[2].kind = "module") => Displaced
    BY <2>1, <2>2, FirstIsModuleOrImport DEF OrderInv
  <2>4. ModuleIsFirstOrDisplaced'
    BY <2>2, <2>3, <1>3, DisplacedIsKept DEF ModuleIsFirstOrDisplaced
  <2> QED BY <2>2, <2>4, <1>1, <1>2 DEF OrderInv
<1>8. CASE Visit
  <2>1. PICK p \in Firsts(pending) :
          /\ pending' = pending \ {p}
          /\ \/ VisitModule(p[2]) \/ VisitImport(p[2]) \/ VisitExtern(p[2])
             \/ VisitForward(p[2]) \/ VisitStruct(p[2]) \/ VisitDeclare(p[2]) \/ VisitFunc(p[2])
    BY <1>8 DEF Visit
  <2>2. phase = "generate" /\ p \in pending BY <1>8 DEF Visit, Firsts
  <2>3. ASSUME Continue PROVE OrderInv'
    <3>1. phase' = "generate" /\ UNCHANGED <<headers, header, unit, file, failure>>
      BY <2>3, <2>2 DEF Continue, store, build
    <3>2. (\E q \in pending' : q[2].kind = "module") => Displaced
      BY <2>1, <2>2 DEF OrderInv, ModuleIsFirstOrDisplaced
    <3>3. ModuleIsFirstOrDisplaced'
      BY <3>1, <3>2, <1>3, DisplacedIsKept DEF ModuleIsFirstOrDisplaced
    <3> QED BY <3>1, <3>3, <1>1, <1>2 DEF OrderInv
  <2>4. CASE VisitModule(p[2])
    <3>1. /\ phase' = "failed" /\ UNCHANGED <<headers, header, unit, file>>
          /\ p[2].kind = "module"
      BY <2>4 DEF VisitModule, Fail, store, build
    <3>2. Displaced BY <3>1, <2>2 DEF OrderInv, ModuleIsFirstOrDisplaced
    <3>3. Displaced' BY <3>1, <3>2, DisplacedIsKept
    <3>4. OnlyImportsDisplaceModule' BY <3>3 DEF OnlyImportsDisplaceModule, Displaced, Around
    <3> QED BY <3>1, <3>4, <1>1, <1>3 DEF OrderInv, ModuleIsFirstOrDisplaced
  <2>5. CASE VisitImport(p[2]) BY <2>5, <2>3 DEF VisitImport
  <2>6. CASE VisitExtern(p[2]) BY <2>6, <2>3, <1>5 DEF VisitExtern, DeclareFunction
  <2>7. CASE VisitForward(p[2]) BY <2>7, <2>3 DEF VisitForward
  <2>8. CASE VisitStruct(p[2])
    <3> DEFINE wrong ==
          IF HasMembers(p[2].id) THEN {<<"already declared", p[2].id>>}
          ELSE IF ~(p[2].uses \subseteq DOMAIN types \cup {p[2].id})
          THEN {<<"unknown type", u>> : u \in p[2].uses \ (DOMAIN types \cup {p[2].id})}
          ELSE IF <<Alloc>> \notin symbols
          THEN {<<"cannot allocate memory", p[2].id>>} ELSE {}
    <3>1. ASSUME NEW w \in wrong PROVE w[1] # "module declaration not first"
      <4>1. \E u : \/ w = <<"already declared", u>> \/ w = <<"unknown type", u>>
                   \/ w = <<"cannot allocate memory", u>>
        OBVIOUS
      <4> HIDE DEF wrong
      <4>2. w[1] \in {"already declared", "unknown type", "cannot allocate memory"}
        BY <4>1, First
      <4> QED BY <4>2
    <3>2. IF wrong # {} THEN \E w \in wrong : Fail(w[1], w[2], "struct") ELSE Continue
      BY <2>8 DEF VisitStruct
    <3> HIDE DEF wrong
    <3> QED BY <3>1, <3>2, <2>3, <1>5
  <2>9. CASE VisitDeclare(p[2]) BY <2>9, <2>3, <1>5 DEF VisitDeclare, DeclareFunction
  <2>10. CASE VisitFunc(p[2])
    <3> DEFINE symbol == Mangle(module, p[2].id[1])
    <3> DEFINE known == symbols \cup {symbol}
    <3> DEFINE wrong ==
          IF symbol \in symbols THEN {<<"already declared", p[2].id>>}
          ELSE IF ~(p[2].uses \subseteq DOMAIN types)
          THEN {<<"unknown type", u>> : u \in p[2].uses \ DOMAIN types}
          ELSE {<<"undeclared function", c>> :
                  c \in {d \in p[2].calls : Resolve(d, known) \notin known}}
                 \cup {<<"not callable", c>> : c \in {d \in p[2].calls : ~Callable(d)}}
    <3>1. ASSUME NEW w \in wrong PROVE w[1] # "module declaration not first"
      <4>1. \E u : \/ w = <<"already declared", u>> \/ w = <<"unknown type", u>>
                   \/ w = <<"undeclared function", u>> \/ w = <<"not callable", u>>
        <5> HIDE DEF symbol, known
        <5> QED OBVIOUS
      <4> HIDE DEF wrong
      <4>2. w[1] \in {"already declared", "unknown type", "undeclared function",
                      "not callable"}
        BY <4>1, First
      <4> QED BY <4>2
    <3>2. IF wrong # {} THEN \E w \in wrong : Fail(w[1], w[2], "func") ELSE Continue
      BY <2>10 DEF VisitFunc
    <3> HIDE DEF wrong
    <3> QED BY <3>1, <3>2, <2>3, <1>5
  <2> QED BY <2>1, <2>4, <2>5, <2>6, <2>7, <2>8, <2>9, <2>10
<1>9. CASE EndFile
  <2>1. UNCHANGED <<headers, header, failure>> BY <1>9 DEF EndFile, store
  <2>2. CASE file < Len(unit) BY <2>1, <2>2, <1>9, <1>4 DEF EndFile
  <2>3. CASE ~(file < Len(unit))
    <3>1. phase' = "link" BY <2>3, <1>9 DEF EndFile
    <3> QED BY <3>1, <2>1, <1>1, <1>2, <1>3 DEF OrderInv, ModuleIsFirstOrDisplaced
  <2> QED BY <2>2, <2>3
<1>10. CASE Link
  <2>1. CASE Shared # {}
    <3>1. \E x : Fail("multiply defined", x, "link") BY <2>1, <1>10 DEF Link
    <3> QED BY <3>1, <1>5
  <2>2. CASE Shared = {}
    <3>1. /\ phase = "link" /\ UNCHANGED <<headers, header, failure>>
          /\ \/ phase' = "linked"
             \/ phase' = "write" /\ pending' = DeclarationsOf(unit, DOMAIN unit, Main)
      BY <2>2, <1>10 DEF Link, store
    <3>2. target \in Targets /\ unit \in Units[target] /\ Main \in Targets
      BY <3>1 DEF TypeOK, Targets
    <3>3. \A p \in DeclarationsOf(unit, DOMAIN unit, Main) : p[2].kind # "module"
      BY <3>2, ExtractedAreDeclarations
    <3> QED BY <3>1, <3>3, <1>1, <1>2, <1>3 DEF OrderInv, ModuleIsFirstOrDisplaced
  <2> QED BY <2>1, <2>2
<1>11. CASE WriteDeclaration
  <2>1. PICK p \in Firsts(pending) :
          /\ header' = Append(header, [p[2] EXCEPT !.line = Len(header) + 1])
          /\ pending' = pending \ {p}
    BY <1>11 DEF WriteDeclaration
  <2>2. phase = "write" /\ phase' = "write" /\ UNCHANGED <<headers, failure>>
    BY <1>11 DEF WriteDeclaration, store
  <2>3. \A q \in pending : q[2].kind # "module" BY <2>2 DEF OrderInv, ModuleIsFirstOrDisplaced
  <2>4. p[2] \in Statement /\ p \in pending BY DEF Firsts, TypeOK
  <2>5. [p[2] EXCEPT !.line = Len(header) + 1].kind # "module" BY <2>3, <2>4 DEF Statement
  <2>6. \A s \in In(header') : s.kind # "module"
    <3>1. header \in Seq(Statement) BY DEF TypeOK
    <3> DEFINE d == [p[2] EXCEPT !.line = Len(header) + 1]
    <3>2. d.kind # "module" /\ header' = Append(header, d) BY <2>1, <2>5
    <3> HIDE DEF d
    <3>3. \A i \in DOMAIN header' : header'[i] = d \/ (i \in DOMAIN header /\ header'[i] = header[i])
      BY <3>1, <3>2
    <3> QED BY <3>2, <3>3, <1>3 DEF In
  <2>7. \A q \in pending' : q[2].kind # "module" BY <2>1, <2>3
  <2> QED BY <2>2, <2>6, <2>7, <1>1, <1>2, <1>3 DEF OrderInv, ModuleIsFirstOrDisplaced, In
<1>12. CASE FinishModule
  <2>1. CASE header = <<>> BY <2>1, <1>12, <1>5 DEF FinishModule
  <2>2. CASE header # <<>>
    <3>1. phase' = "idle" /\ header' = <<>> /\ headers' = Put(headers, target, header)
          /\ UNCHANGED failure
      BY <2>2, <1>12 DEF FinishModule
    <3>2. \A m \in DOMAIN headers' : \A s \in In(headers'[m]) : s.kind # "module"
      BY <3>1, <1>3 DEF Put
    <3> QED BY <3>1, <3>2, <1>1, <1>2 DEF OrderInv, ModuleIsFirstOrDisplaced, In
  <2> QED BY <2>1, <2>2
<1> QED BY <1>6, <1>7, <1>8, <1>9, <1>10, <1>11, <1>12 DEF Next

(* For every unit of every module: if a module statement is refused, it is *)
(* an import of another file or of a header that sorting put before it     *)
(* (CompilerModuleBuilder, ASTBlock::sort, CodeGenVisitor).                *)
THEOREM ModuleIsDisplacedByImports == Spec => []OnlyImportsDisplaceModule
<1>1. Init => OrderInv
  BY DEF Init, OrderInv, NoFailureYet, ModuleIsFirstOrDisplaced, OnlyImportsDisplaceModule,
         NoFailure, In
<1>2. TypeOK /\ OrderInv /\ [Next]_vars => OrderInv'
  <2> SUFFICES ASSUME TypeOK, OrderInv, [Next]_vars PROVE OrderInv' OBVIOUS
  <2>1. CASE Next BY <2>1, OrderIsKept
  <2>2. CASE UNCHANGED vars
    <3>1. UNCHANGED <<headers, unit, file, target, pending, phase, header, failure>>
      BY <2>2 DEF vars, store, build
    <3>2. Displaced' = Displaced BY <3>1, DisplacedIsKept
    <3>3. Merged(unit, file, target)' = Merged(unit, file, target)
      BY <3>1, LoadedIsKept DEF Merged, ExternalDeclarations
    <3>4. OnlyImportsDisplaceModule' = OnlyImportsDisplaceModule
      <4>1. Displaced <=> \E s \in Statements(OtherFiles) \cup UNION {In(headers[m]) : m \in Loaded(unit)} :
              s.kind = "import" /\ s.line <= unit[file][1].line
        BY DEF Displaced, Around
      <4> QED BY <3>1, <3>2 DEF OnlyImportsDisplaceModule, Displaced, Around
    <3> QED BY <3>1, <3>2, <3>3, <3>4 DEF OrderInv, NoFailureYet, ModuleIsFirstOrDisplaced
  <2> QED BY <2>1, <2>2
<1>3. OrderInv => OnlyImportsDisplaceModule BY DEF OrderInv
<1> QED BY <1>1, <1>2, <1>3, TypesAreCorrect, PTL DEF Spec

-----------------------------------------------------------------------------
(* What one statement does when it is generated                            *)

TypeKinds == {"struct", "forward"}
SymbolKinds == {"extern", "declare", "struct", "func"}

(* the name a statement gives to what it adds to the LLVM module           *)
SymbolOf(s) ==
  CASE s.kind = "extern"  -> s.id
    [] s.kind = "declare" -> DeclaredSymbol(s.id)
    [] s.kind = "struct"  -> Constructor(module, s.id)
    [] OTHER              -> Mangle(module, s.id[1])
KnownTo(s) == symbols \cup {SymbolOf(s)}

(* why a statement can be refused                                          *)
Reason(s, why, what) ==
  \/ s.kind = "module" /\ why = "module declaration not first"
  \/ /\ s.kind \in {"extern", "declare", "func"}
     /\ why = "unknown type" /\ what \in s.uses \ DOMAIN types
  \/ /\ s.kind = "struct"
     /\ \/ why = "already declared" /\ HasMembers(s.id)
        \/ why = "unknown type" /\ what \in s.uses \ (DOMAIN types \cup {s.id})
        \/ why = "cannot allocate memory" /\ <<Alloc>> \notin symbols
  \/ /\ s.kind = "func"
     /\ \/ why = "already declared" /\ SymbolOf(s) \in symbols
        \/ /\ why = "undeclared function"
           /\ what \in s.calls /\ Resolve(what, KnownTo(s)) \notin KnownTo(s)
        \/ why = "not callable" /\ what \in s.calls /\ ~Callable(what)

(* what it does otherwise                                                  *)
FunctionEffect(s) ==
  /\ SymbolOf(s) \notin symbols
  /\ \A c \in s.calls : Resolve(c, KnownTo(s)) \in KnownTo(s)
  /\ objects' = [objects EXCEPT
       ![file].defines = @ \cup {SymbolOf(s)},
       ![file].needs = @ \cup External({Resolve(c, KnownTo(s)) : c \in s.calls})]
Effect(s) ==
  /\ Continue /\ s.kind # "module"
  /\ types' = IF s.kind \in TypeKinds THEN Put(types, s.id, s.kind = "struct") ELSE types
  /\ symbols' = IF s.kind \in SymbolKinds THEN KnownTo(s) ELSE symbols
  /\ s.kind = "struct" => ~HasMembers(s.id)
  /\ IF s.kind = "func" THEN FunctionEffect(s) ELSE objects' = objects

LEMMA Second == \A a, b : <<a, b>>[2] = b
OBVIOUS

LEMMA StatementKinds ==
  ASSUME NEW s
  PROVE  /\ s.kind = "extern" => SymbolOf(s) = s.id
         /\ s.kind = "declare" => SymbolOf(s) = DeclaredSymbol(s.id)
         /\ s.kind = "struct" => SymbolOf(s) = Constructor(module, s.id)
         /\ s.kind = "func" => SymbolOf(s) = Mangle(module, s.id[1])
BY DEF SymbolOf

LEMMA StructOutcome ==
  ASSUME NEW s, VisitStruct(s)
  PROVE  Effect(s) \/ \E why, what : Fail(why, what, s.kind) /\ Reason(s, why, what)
<1> DEFINE wrong ==
      IF HasMembers(s.id) THEN {<<"already declared", s.id>>}
      ELSE IF ~(s.uses \subseteq DOMAIN types \cup {s.id})
      THEN {<<"unknown type", u>> : u \in s.uses \ (DOMAIN types \cup {s.id})}
      ELSE IF <<Alloc>> \notin symbols THEN {<<"cannot allocate memory", s.id>>} ELSE {}
<1>1. s.kind = "struct" BY DEF VisitStruct
<1>2. ASSUME NEW w \in wrong PROVE Reason(s, w[1], w[2])
  <2>1. CASE HasMembers(s.id)
    <3>1. w[1] = "already declared" BY <2>1, First
    <3> QED BY <3>1, <2>1, <1>1 DEF Reason
  <2>2. CASE ~HasMembers(s.id) /\ ~(s.uses \subseteq DOMAIN types \cup {s.id})
    <3>1. PICK u \in s.uses \ (DOMAIN types \cup {s.id}) : w = <<"unknown type", u>>
      BY <2>2
    <3>2. w[1] = "unknown type" /\ w[2] = u BY <3>1, First, Second
    <3> QED BY <3>1, <3>2, <1>1 DEF Reason
  <2>3. CASE ~HasMembers(s.id) /\ s.uses \subseteq DOMAIN types \cup {s.id}
    <3>1. <<Alloc>> \notin symbols /\ w = <<"cannot allocate memory", s.id>> BY <2>3
    <3>2. w[1] = "cannot allocate memory" BY <3>1, First
    <3> QED BY <3>1, <3>2, <1>1 DEF Reason
  <2> QED BY <2>1, <2>2, <2>3
<1>3. IF wrong # {} THEN \E w \in wrong : Fail(w[1], w[2], "struct")
      ELSE /\ types' = Put(types, s.id, TRUE)
           /\ symbols' = symbols \cup {Constructor(module, s.id)}
           /\ Continue /\ UNCHANGED objects
  BY DEF VisitStruct
<1>4. CASE wrong # {}
  <2>1. PICK w \in wrong : Fail(w[1], w[2], "struct") BY <1>3, <1>4
  <2> QED BY <2>1, <1>1, <1>2
<1>5. CASE wrong = {}
  <2>1. ~HasMembers(s.id) BY <1>5
  <2>2. SymbolOf(s) = Constructor(module, s.id) BY <1>1, StatementKinds
  <2> HIDE DEF wrong
  <2> QED BY <2>1, <2>2, <1>1, <1>3, <1>5 DEF Effect, KnownTo, TypeKinds, SymbolKinds
<1> QED BY <1>4, <1>5

LEMMA FuncOutcome ==
  ASSUME NEW s, VisitFunc(s)
  PROVE  Effect(s) \/ \E why, what : Fail(why, what, s.kind) /\ Reason(s, why, what)
<1> DEFINE symbol == Mangle(module, s.id[1])
           known == symbols \cup {symbol}
           lost == {<<"undeclared function", c>> :
                      c \in {d \in s.calls : Resolve(d, known) \notin known}}
           private == {<<"not callable", c>> : c \in {d \in s.calls : ~Callable(d)}}
           wrong ==
             IF symbol \in symbols THEN {<<"already declared", s.id>>}
             ELSE IF ~(s.uses \subseteq DOMAIN types)
             THEN {<<"unknown type", u>> : u \in s.uses \ DOMAIN types}
             ELSE lost \cup private
<1>1. s.kind = "func" BY DEF VisitFunc
<1>2. SymbolOf(s) = symbol /\ KnownTo(s) = known BY <1>1, StatementKinds DEF KnownTo
<1>3. IF wrong # {} THEN \E w \in wrong : Fail(w[1], w[2], "func")
      ELSE /\ symbols' = known
           /\ objects' = [objects EXCEPT
                ![file].defines = @ \cup {symbol},
                ![file].needs = @ \cup External({Resolve(c, known) : c \in s.calls})]
           /\ Continue /\ UNCHANGED types
  BY DEF VisitFunc
<1>4. ASSUME NEW w \in lost PROVE Reason(s, w[1], w[2])
  <2>1. PICK c \in s.calls : Resolve(c, known) \notin known /\ w = <<"undeclared function", c>>
    OBVIOUS
  <2> HIDE DEF known, symbol, lost
  <2>2. w[1] = "undeclared function" /\ w[2] = c BY <2>1, First, Second
  <2> QED BY <2>1, <2>2, <1>1, <1>2 DEF Reason
<1>5. ASSUME NEW w \in private PROVE Reason(s, w[1], w[2])
  <2>1. PICK c \in s.calls : ~Callable(c) /\ w = <<"not callable", c>> OBVIOUS
  <2> HIDE DEF private
  <2>2. w[1] = "not callable" /\ w[2] = c BY <2>1, First, Second
  <2> QED BY <2>1, <2>2, <1>1 DEF Reason
<1>6. ASSUME NEW w \in wrong PROVE Reason(s, w[1], w[2])
  <2> HIDE DEF known, symbol, lost, private
  <2>1. CASE symbol \in symbols
    <3>1. w[1] = "already declared" BY <2>1, First
    <3> QED BY <3>1, <2>1, <1>1, <1>2 DEF Reason
  <2>2. CASE symbol \notin symbols /\ ~(s.uses \subseteq DOMAIN types)
    <3>1. PICK u \in s.uses \ DOMAIN types : w = <<"unknown type", u>> BY <2>2
    <3>2. w[1] = "unknown type" /\ w[2] = u BY <3>1, First, Second
    <3> QED BY <3>1, <3>2, <1>1 DEF Reason
  <2>3. CASE symbol \notin symbols /\ s.uses \subseteq DOMAIN types
    <3>1. w \in lost \cup private BY <2>3
    <3> QED BY <3>1, <1>4, <1>5
  <2> QED BY <2>1, <2>2, <2>3
<1>7. CASE wrong # {}
  <2> HIDE DEF wrong
  <2>1. PICK w \in wrong : Fail(w[1], w[2], "func") BY <1>3, <1>7
  <2> QED BY <2>1, <1>1, <1>6
<1>8. CASE wrong = {}
  <2>1. symbol \notin symbols /\ lost = {}
    <3> HIDE DEF symbol, lost, private
    <3>1. symbol \notin symbols BY <1>8
    <3>2. s.uses \subseteq DOMAIN types
      <4> SUFFICES ASSUME NEW u \in s.uses \ DOMAIN types PROVE FALSE OBVIOUS
      <4>1. <<"unknown type", u>> \in wrong BY <3>1
      <4> QED BY <4>1, <1>8
    <3> QED BY <1>8, <3>1, <3>2
  <2>2. ASSUME NEW c \in s.calls PROVE Resolve(c, known) \in known
    <3>1. Resolve(c, known) \notin known => <<"undeclared function", c>> \in lost OBVIOUS
    <3> QED BY <3>1, <2>1
  <2> HIDE DEF wrong, lost, private
  <2> QED BY <1>1, <1>2, <1>3, <1>8, <2>1, <2>2
          DEF Effect, FunctionEffect, KnownTo, TypeKinds, SymbolKinds
<1> QED BY <1>7, <1>8

(* A statement among the first is generated, or refused for a reason.      *)
LEMMA VisitOutcome ==
  ASSUME Visit
  PROVE  \E p \in Firsts(pending) :
           /\ pending' = pending \ {p}
           /\ \/ Effect(p[2])
              \/ \E why, what : Fail(why, what, p[2].kind) /\ Reason(p[2], why, what)
<1>1. PICK p \in Firsts(pending) :
        /\ pending' = pending \ {p}
        /\ \/ VisitModule(p[2]) \/ VisitImport(p[2]) \/ VisitExtern(p[2])
           \/ VisitForward(p[2]) \/ VisitStruct(p[2]) \/ VisitDeclare(p[2]) \/ VisitFunc(p[2])
  BY DEF Visit
<1> DEFINE s == p[2]
<1> SUFFICES Effect(s) \/ \E why, what : Fail(why, what, s.kind) /\ Reason(s, why, what)
  BY <1>1
<1> HIDE DEF s
<1>2. CASE VisitModule(s) BY <1>2 DEF VisitModule, Reason
<1>3. CASE VisitImport(s) BY <1>3 DEF VisitImport, Effect, TypeKinds, SymbolKinds
<1>4. ASSUME s.kind \in {"extern", "declare"}, DeclareFunction(s, SymbolOf(s))
      PROVE  Effect(s) \/ \E why, what : Fail(why, what, s.kind) /\ Reason(s, why, what)
  <2>1. CASE s.uses \subseteq DOMAIN types
    BY <2>1, <1>4 DEF DeclareFunction, Effect, KnownTo, TypeKinds, SymbolKinds
  <2>2. CASE ~(s.uses \subseteq DOMAIN types)
    <3>1. PICK u \in s.uses \ DOMAIN types : Fail("unknown type", u, s.kind)
      BY <2>2, <1>4 DEF DeclareFunction
    <3> QED BY <3>1, <1>4 DEF Reason
  <2> QED BY <2>1, <2>2
<1>5. CASE VisitExtern(s) BY <1>4, <1>5, StatementKinds DEF VisitExtern
<1>6. CASE VisitDeclare(s) BY <1>4, <1>6, StatementKinds DEF VisitDeclare
<1>7. CASE VisitForward(s)
  <2>1. s.kind = "forward" /\ (s.kind = "struct") = FALSE BY <1>7 DEF VisitForward
  <2> QED BY <1>7, <2>1 DEF VisitForward, Effect, TypeKinds, SymbolKinds
<1>8. CASE VisitStruct(s) BY <1>8, StructOutcome
<1>9. CASE VisitFunc(s) BY <1>9, FuncOutcome
<1> QED BY <1>1, <1>2, <1>3, <1>5, <1>6, <1>7, <1>8, <1>9 DEF s

-----------------------------------------------------------------------------
(* What has been generated of a file's block, in which order               *)

Block == Merged(unit, file, target)
Seen == Block \ pending

(* Nothing that is still to come goes before something seen.               *)
InOrder == \A p \in Seen : \A q \in pending : ~Before(q[2], p[2])
TypesAreSeen == DOMAIN types = {p[2].id : p \in {q \in Seen : q[2].kind \in TypeKinds}}
SymbolsAreSeen == symbols = {SymbolOf(p[2]) : p \in {q \in Seen : q[2].kind \in SymbolKinds}}

(* A type has members exactly if its struct was seen, unless a forward     *)
(* declaration came after it.                                              *)
Reopens(r, p) == r[2].kind = "forward" /\ r[2].id = p[2].id /\ ~Before(r[2], p[2])
MembersAreSeen ==
  /\ \A id \in DOMAIN types : types[id] =>
       \E p \in Seen : p[2].kind = "struct" /\ p[2].id = id
  /\ \A p \in Seen : p[2].kind = "struct" =>
       types[p[2].id] \/ \E r \in Seen : Reopens(r, p)

FunctionsOnce ==
  \A p, q \in Seen :
    (p # q /\ p[2].kind = "func" /\ q[2].kind \in {"func", "declare"}) =>
      SymbolOf(p[2]) # SymbolOf(q[2])
StructsOnce ==
  \A p, q \in Seen :
    (p # q /\ p[2].kind = "struct" /\ q[2].kind = "struct" /\ p[2].id = q[2].id) =>
      \E r \in Seen : r[2].kind = "forward" /\ r[2].id = p[2].id
ModuleIsKnown == module = target \/ \E p \in pending : p[2].kind = "module"

SeenInv ==
  /\ phase = "sorted" => pending = Block /\ module = Main /\ types = <<>> /\ symbols = {}
  /\ phase = "generate" =>
       /\ pending \subseteq Block /\ InOrder
       /\ TypesAreSeen /\ SymbolsAreSeen /\ MembersAreSeen
       /\ FunctionsOnce /\ StructsOnce /\ ModuleIsKnown

LEMMA Priorities ==
  ASSUME NEW s \in Statement
  PROVE  /\ Priority(s) \in Nat
         /\ s.kind \in {"module", "import"} => Priority(s) = 0
         /\ s.kind \notin {"module", "import"} => Priority(s) > 0
         /\ s.kind \in TypeKinds => Priority(s) = 2
         /\ s.kind = "declare" => Priority(s) = 3
         /\ s.kind = "extern" => Priority(s) = IF s.id = <<Alloc>> THEN 1 ELSE 3
         /\ s.kind = "func" => Priority(s) = 10
BY DEF Statement, Kinds, Priority, TypeKinds

(* A first statement has the least priority of those to come.              *)
LEMMA FirstsAreLeast ==
  ASSUME TypeOK, NEW p \in Firsts(pending), NEW q \in pending
  PROVE  /\ p \in pending /\ p[2] \in Statement /\ q[2] \in Statement
         /\ Priority(p[2]) <= Priority(q[2])
         /\ Priority(p[2]) = Priority(q[2]) => p[2].line <= q[2].line
<1>1. p \in pending /\ p[2] \in Statement /\ q[2] \in Statement /\ ~Before(q[2], p[2])
  BY DEF Firsts, TypeOK
<1>2. Priority(p[2]) \in Nat /\ Priority(q[2]) \in Nat BY <1>1, Priorities
<1>3. p[2].line \in Nat /\ q[2].line \in Nat BY <1>1 DEF Statement
<1> QED BY <1>1, <1>2, <1>3 DEF Before

LEMMA BlockIsKept == ASSUME UNCHANGED <<headers, unit, file, target>> PROVE Block' = Block
BY LoadedIsKept DEF Block, Merged, ExternalDeclarations

LEMMA SymbolsAreKept == ASSUME UNCHANGED module PROVE \A s : SymbolOf(s)' = SymbolOf(s)
BY DEF SymbolOf, DeclaredSymbol

(* Generating p moves it from what is to come to what has been seen.       *)
LEMMA SeenGrows ==
  ASSUME TypeOK, SeenInv, phase = "generate", NEW p \in Firsts(pending),
         pending' = pending \ {p}, UNCHANGED <<headers, unit, file, target>>
  PROVE  /\ p \in pending /\ p \in Block /\ p \notin Seen /\ pending' \subseteq Block'
         /\ Seen' = Seen \cup {p} /\ InOrder'
<1>1. p \in pending /\ pending \subseteq Block BY DEF Firsts, SeenInv
<1>2. Block' = Block BY BlockIsKept
<1>3. Seen' = Seen \cup {p} BY <1>1, <1>2 DEF Seen
<1>4. \A q \in pending' : ~Before(q[2], p[2]) BY DEF Firsts
<1>5. InOrder' BY <1>3, <1>4 DEF InOrder, SeenInv
<1> QED BY <1>1, <1>2, <1>3, <1>5 DEF Seen

LEMMA EffectOnTypes ==
  ASSUME TypeOK, SeenInv, phase = "generate", NEW p \in Firsts(pending),
         pending' = pending \ {p}, Effect(p[2])
  PROVE  (TypesAreSeen /\ MembersAreSeen)'
<1>1. /\ types' = IF p[2].kind \in TypeKinds THEN Put(types, p[2].id, p[2].kind = "struct")
                  ELSE types
      /\ UNCHANGED <<headers, unit, file, target>>
  BY DEF Effect, Continue, store, build
<1>2. Seen' = Seen \cup {p} /\ p \in pending /\ p \notin Seen BY <1>1, SeenGrows
<1>3. TypesAreSeen /\ MembersAreSeen /\ InOrder BY DEF SeenInv
<1>4. CASE p[2].kind \notin TypeKinds
  <2>1. types' = types BY <1>1, <1>4
  <2>2. {q \in Seen' : q[2].kind \in TypeKinds} = {q \in Seen : q[2].kind \in TypeKinds}
    BY <1>2, <1>4
  <2>3. TypesAreSeen' BY <2>1, <2>2, <1>3 DEF TypesAreSeen
  <2>4. p[2].kind # "struct" /\ Seen \subseteq Seen' BY <1>2, <1>4 DEF TypeKinds
  <2>5. MembersAreSeen' BY <2>1, <2>4, <1>2, <1>3 DEF MembersAreSeen, Reopens
  <2> QED BY <2>3, <2>5
<1>5. CASE p[2].kind \in TypeKinds
  <2>1. PICK id : id = p[2].id OBVIOUS
  <2>2. PICK b \in BOOLEAN : b = (p[2].kind = "struct") OBVIOUS
  <2>3. types' = Put(types, id, b) BY <1>1, <1>5, <2>1, <2>2
  <2>4. /\ DOMAIN types' = DOMAIN types \cup {id} /\ types'[id] = b
        /\ \A x \in DOMAIN types : x # id => types'[x] = types[x]
    BY <2>3 DEF Put
  <2>5. TypesAreSeen'
    <3>1. {q[2].id : q \in {r \in Seen' : r[2].kind \in TypeKinds}}
            = {q[2].id : q \in {r \in Seen : r[2].kind \in TypeKinds}} \cup {id}
      BY <1>2, <1>5, <2>1
    <3> QED BY <3>1, <2>4, <1>3 DEF TypesAreSeen
  <2>6. ASSUME NEW x \in DOMAIN types', types'[x]
        PROVE  \E q \in Seen' : q[2].kind = "struct" /\ q[2].id = x
    <3>1. CASE x = id
      <4>1. p[2].kind = "struct" BY <3>1, <2>2, <2>4, <2>6
      <4> QED BY <4>1, <3>1, <2>1, <1>2
    <3>2. CASE x # id
      <4>1. x \in DOMAIN types /\ types[x] BY <3>2, <2>4, <2>6
      <4> QED BY <4>1, <1>2, <1>3 DEF MembersAreSeen
    <3> QED BY <3>1, <3>2
  <2>7. ASSUME NEW q \in Seen', q[2].kind = "struct"
        PROVE  types'[q[2].id] \/ \E r \in Seen' : Reopens(r, q)
    <3>1. CASE q[2].id = id /\ b BY <3>1, <2>4
    <3>2. CASE q[2].id = id /\ ~b
      <4>1. q # p /\ p[2].kind = "forward" BY <3>2, <2>2, <2>7, <1>5 DEF TypeKinds
      <4>2. q \in Seen BY <4>1, <1>2
      <4>3. ~Before(p[2], q[2]) BY <4>2, <1>2, <1>3 DEF InOrder
      <4> QED BY <4>1, <4>3, <3>2, <2>1, <1>2 DEF Reopens
    <3>3. CASE q[2].id # id
      <4>1. q \in Seen BY <3>3, <2>1, <1>2
      <4>2. q[2].id \in DOMAIN types BY <4>1, <2>7, <1>3 DEF TypesAreSeen, TypeKinds
      <4> QED BY <4>1, <4>2, <3>3, <2>4, <2>7, <1>2, <1>3 DEF MembersAreSeen
    <3> QED BY <3>1, <3>2, <3>3
  <2>8. MembersAreSeen' BY <2>6, <2>7 DEF MembersAreSeen, Reopens
  <2> QED BY <2>5, <2>8
<1> QED BY <1>4, <1>5

LEMMA EffectOnSymbols ==
  ASSUME TypeOK, SeenInv, phase = "generate", NEW p \in Firsts(pending),
         pending' = pending \ {p}, Effect(p[2])
  PROVE  (SymbolsAreSeen /\ FunctionsOnce /\ StructsOnce)'
<1>1. /\ symbols' = IF p[2].kind \in SymbolKinds THEN KnownTo(p[2]) ELSE symbols
      /\ UNCHANGED <<headers, unit, file, target, module>>
  BY DEF Effect, Continue, store, build
<1>2. Seen' = Seen \cup {p} /\ p \in pending /\ p \notin Seen BY <1>1, SeenGrows
<1>3. SymbolsAreSeen /\ FunctionsOnce /\ StructsOnce /\ InOrder /\ TypesAreSeen /\ MembersAreSeen
  BY DEF SeenInv
<1>4. \A s : SymbolOf(s)' = SymbolOf(s) BY <1>1, SymbolsAreKept
<1>5. SymbolsAreSeen'
  <2>1. CASE p[2].kind \in SymbolKinds
    <3>1. symbols' = symbols \cup {SymbolOf(p[2])} BY <2>1, <1>1 DEF KnownTo
    <3>2. {SymbolOf(q[2]) : q \in {r \in Seen' : r[2].kind \in SymbolKinds}}
            = {SymbolOf(q[2]) : q \in {r \in Seen : r[2].kind \in SymbolKinds}}
              \cup {SymbolOf(p[2])}
      BY <2>1, <1>2
    <3> QED BY <3>1, <3>2, <1>3, <1>4 DEF SymbolsAreSeen
  <2>2. CASE p[2].kind \notin SymbolKinds
    <3>1. {q \in Seen' : q[2].kind \in SymbolKinds} = {q \in Seen : q[2].kind \in SymbolKinds}
      BY <2>2, <1>2
    <3> QED BY <3>1, <2>2, <1>1, <1>3, <1>4 DEF SymbolsAreSeen
  <2> QED BY <2>1, <2>2
<1>6. ASSUME NEW q \in Seen, q[2].kind \in SymbolKinds PROVE SymbolOf(q[2]) \in symbols
  BY <1>6, <1>3 DEF SymbolsAreSeen
<1>7. FunctionsOnce'
  <2> SUFFICES ASSUME NEW q \in Seen', NEW r \in Seen', q # r,
                      q[2].kind = "func", r[2].kind \in {"func", "declare"}
               PROVE  SymbolOf(q[2]) # SymbolOf(r[2])
    BY <1>4 DEF FunctionsOnce
  <2>1. q[2].kind \in SymbolKinds /\ r[2].kind \in SymbolKinds BY DEF SymbolKinds
  <2>2. ASSUME NEW o \in Seen, o[2].kind \in SymbolKinds, p[2].kind = "func"
        PROVE  SymbolOf(o[2]) # SymbolOf(p[2])
    <3>1. SymbolOf(p[2]) \notin symbols BY <2>2 DEF Effect, FunctionEffect
    <3> QED BY <3>1, <2>2, <1>6
  <2>3. CASE q = p
    <3>1. r \in Seen BY <2>3, <1>2
    <3> QED BY <3>1, <2>1, <2>2, <2>3
  <2>4. CASE q # p /\ r = p
    <3>1. q \in Seen BY <2>4, <1>2
    <3>2. CASE r[2].kind = "func" BY <3>1, <3>2, <2>1, <2>2, <2>4
    <3>3. CASE r[2].kind = "declare"
      <4>1. p[2] \in Statement /\ q[2] \in Statement
        <5>1. Seen \subseteq Block /\ phase # "idle" BY DEF Seen
        <5>2. \A o \in Block : o[2] \in Statement
          BY <5>1, MergedAreStatements DEF Block, TypeOK
        <5> QED BY <5>1, <5>2, <3>1, <1>2 DEF TypeOK
      <4>2. Priority(p[2]) = 3 /\ Priority(q[2]) = 10 BY <4>1, <3>3, <2>4, Priorities
      <4>3. Before(p[2], q[2]) BY <4>2 DEF Before
      <4> QED BY <4>3, <3>1, <1>2, <1>3 DEF InOrder
    <3> QED BY <3>2, <3>3
  <2>5. CASE q # p /\ r # p
    <3>1. q \in Seen /\ r \in Seen BY <2>5, <1>2
    <3> QED BY <3>1, <1>3 DEF FunctionsOnce
  <2> QED BY <2>3, <2>4, <2>5
<1>8. StructsOnce'
  <2>1. ASSUME NEW q \in Seen, q[2].kind = "struct", p[2].kind = "struct", p[2].id = q[2].id
        PROVE  \E r \in Seen : r[2].kind = "forward" /\ r[2].id = q[2].id
    <3>1. ~HasMembers(q[2].id) BY <2>1 DEF Effect
    <3>2. q[2].id \in DOMAIN types BY <2>1, <1>3 DEF TypesAreSeen, TypeKinds
    <3>3. ~types[q[2].id] BY <3>1, <3>2 DEF HasMembers
    <3> QED BY <3>3, <2>1, <1>3 DEF MembersAreSeen, Reopens
  <2> SUFFICES ASSUME NEW q \in Seen', NEW r \in Seen', q # r,
                      q[2].kind = "struct", r[2].kind = "struct", q[2].id = r[2].id
               PROVE  \E o \in Seen' : o[2].kind = "forward" /\ o[2].id = q[2].id
    BY DEF StructsOnce
  <2>2. CASE q = p \/ r = p BY <2>1, <2>2, <1>2
  <2>3. CASE q # p /\ r # p
    <3>1. q \in Seen /\ r \in Seen BY <2>3, <1>2
    <3> QED BY <3>1, <1>2, <1>3 DEF StructsOnce
  <2> QED BY <2>2, <2>3
<1> QED BY <1>5, <1>7, <1>8

(* The only module statement of a block is its file's own.                 *)
LEMMA OnlyOwnModule ==
  ASSUME TypeOK, ModuleIsFirstOrDisplaced, target \in Targets, unit \in Units[target],
         file \in DOMAIN unit, NEW q \in Merged(unit, file, target), q[2].kind = "module"
  PROVE  q = <<<<"file", file>>, unit[file][1]>>
<1>1. \A m \in DOMAIN headers : \A s \in In(headers[m]) : s.kind # "module"
  BY DEF ModuleIsFirstOrDisplaced
<1>2. CASE \E s \in In(unit[file]) : q = <<<<"file", file>>, s>>
  <2>1. PICK i \in DOMAIN unit[file] : q = <<<<"file", file>>, unit[file][i]>>
    BY <1>2 DEF In
  <2>2. unit[file][i].kind = "module" BY <2>1
  <2>3. i = 1 BY <2>2, FilesOfTarget
  <2> QED BY <2>1, <2>3
<1>3. CASE \E j \in DOMAIN unit \ {file} : \E s \in In(unit[j]) :
             IsExtracted(s) /\ q[2] = Declaration(s, Owner(unit[j]), target)
  <2>1. PICK j \in DOMAIN unit \ {file} : \E s \in In(unit[j]) :
          IsExtracted(s) /\ q[2] = Declaration(s, Owner(unit[j]), target)
    BY <1>3
  <2>2. PICK s \in In(unit[j]) : IsExtracted(s) /\ q[2] = Declaration(s, Owner(unit[j]), target)
    BY <2>1
  <2>3. s \in Statement /\ Owner(unit[j]) = target BY FilesOfTarget
  <2> QED BY <2>2, <2>3, DeclarationIsStatement
<1>4. CASE \E m \in Loaded(unit) : q[2] \in In(headers[m])
  BY <1>1, <1>4, LoadedHaveHeaders
<1>5. CASE q = AllocDeclaration
  <2>1. q[2].kind = "extern" BY <1>5 DEF AllocDeclaration
  <2> QED BY <2>1
<1> QED BY <1>2, <1>3, <1>4, <1>5, MergedFrom

(* The module statement is taken off first, and nothing else has been seen *)
(* when statements begin to be generated.                                  *)
LEMMA EnteringSees ==
  ASSUME TypeOK, OrderInv, SeenInv, EnterBlock
  PROVE  SeenInv'
<1>1. PICK p \in Firsts(pending) :
        IF p[2].kind = "module"
        THEN module' = p[2].id[1] /\ pending' = pending \ {p}
        ELSE UNCHANGED <<module, pending>>
  BY DEF EnterBlock
<1>2. /\ phase = "sorted" /\ phase' = "generate"
      /\ UNCHANGED <<headers, unit, file, target, types, symbols>>
  BY DEF EnterBlock, store, build
<1>3. pending = Block /\ module = Main /\ types = <<>> /\ symbols = {}
  BY <1>2 DEF SeenInv
<1>4. /\ target \in Targets /\ unit \in Units[target] /\ file \in DOMAIN unit
  BY <1>2 DEF TypeOK
<1>5. Block' = Block BY <1>2, BlockIsKept
<1>6. p \in pending /\ pending' \subseteq Block' BY <1>1, <1>3, <1>5 DEF Firsts
<1>7. \A q \in Seen' : q = p /\ q[2].kind = "module" BY <1>1, <1>3, <1>5 DEF Seen
<1>8. InOrder'
  <2>1. \A q \in pending' : ~Before(q[2], p[2]) BY <1>1, <1>6 DEF Firsts
  <2> QED BY <2>1, <1>7 DEF InOrder
<1>9. {q \in Seen' : q[2].kind \in TypeKinds} = {} /\ {q \in Seen' : q[2].kind \in SymbolKinds} = {}
  BY <1>7 DEF TypeKinds, SymbolKinds
<1>10. types' = <<>> /\ DOMAIN types' = {} /\ symbols' = {} BY <1>2, <1>3
<1>11. TypesAreSeen' /\ SymbolsAreSeen'
  BY <1>9, <1>10 DEF TypesAreSeen, SymbolsAreSeen
<1>12. MembersAreSeen' BY <1>7, <1>10 DEF MembersAreSeen
<1>13. FunctionsOnce' /\ StructsOnce' BY <1>7 DEF FunctionsOnce, StructsOnce
<1>14. ASSUME NEW q \in Block, q[2].kind = "module"
       PROVE  q = <<<<"file", file>>, unit[file][1]>>
  BY <1>14, <1>4, OnlyOwnModule DEF Block, OrderInv
<1>15. ModuleIsKnown'
  <2>1. CASE \E q \in pending' : q[2].kind = "module" BY <2>1 DEF ModuleIsKnown
  <2>2. CASE \A q \in pending' : q[2].kind # "module"
    <3>1. CASE target = Main
      <4>1. unit[file][1].kind # "module" BY <1>4, <3>1, FilesOfTarget
      <4>2. p[2].kind # "module" BY <4>1, <1>3, <1>6, <1>14, Second
      <4> QED BY <4>2, <3>1, <1>1, <1>2, <1>3 DEF ModuleIsKnown
    <3>2. CASE target # Main
      <4>1. unit[file][1].kind = "module" /\ unit[file][1].id = <<target>> /\ 1 \in DOMAIN unit[file]
        BY <1>4, <3>2, FilesOfTarget
      <4>2. PICK q : q = <<<<"file", file>>, unit[file][1]>> OBVIOUS
      <4>3. q \in Block /\ q[2].kind = "module"
        BY <4>1, <4>2, Second DEF Block, Merged, From, In
      <4>4. q \in Seen' BY <4>3, <1>5, <2>2 DEF Seen
      <4>5. q = p /\ p[2].kind = "module" BY <4>4, <1>7
      <4>6. p[2].id = <<target>> BY <4>1, <4>2, <4>5, Second
      <4>7. module' = target BY <4>5, <4>6, <1>1
      <4> QED BY <4>7, <1>2 DEF ModuleIsKnown
    <3> QED BY <3>1, <3>2
  <2> QED BY <2>1, <2>2
<1> QED BY <1>2, <1>6, <1>8, <1>11, <1>12, <1>13, <1>15 DEF SeenInv

(* What is known of a block's statements holds at every step.              *)
LEMMA SeenIsKept ==
  ASSUME TypeOK, OrderInv, SeenInv, Next
  PROVE  SeenInv'
<1>1. ASSUME NEW files, NEW k, NEW t, GenerateFile(files, k, t), UNCHANGED headers,
             unit' = files, target' = t
      PROVE  SeenInv'
  <2>1. /\ phase' = "sorted" /\ pending' = Merged(files, k, t) /\ file' = k
        /\ module' = Main /\ types' = <<>> /\ symbols' = {}
    BY <1>1 DEF GenerateFile
  <2>2. Block' = Merged(files, k, t)
    <3>1. Merged(files, k, t)' = Merged(files, k, t) BY <1>1, MergedIsKept
    <3>2. file' = k /\ unit' = files /\ target' = t /\ UNCHANGED headers BY <2>1, <1>1
    <3>3. Loaded(files)' = Loaded(unit)' BY <3>2 DEF Loaded
    <3>4. Merged(files, k, t)' = Merged(unit, file, target)'
      BY <3>2, <3>3 DEF Merged, ExternalDeclarations
    <3> QED BY <3>1, <3>4 DEF Block
  <2> QED BY <2>1, <2>2 DEF SeenInv
<1>2. phase' \notin {"sorted", "generate"} => SeenInv' BY DEF SeenInv
<1>3. CASE \E t \in Targets : Start(t)
  <2>1. PICK t \in Targets, files \in UNION {Units[u] : u \in Targets} :
          /\ GenerateFile(files, 1, t) /\ UNCHANGED headers /\ target' = t /\ unit' = files
    BY <1>3 DEF Start, store
  <2> QED BY <2>1, <1>1
<1>4. CASE EnterBlock BY <1>4, EnteringSees
<1>5. CASE Visit
  <2>1. PICK p \in Firsts(pending) :
          /\ pending' = pending \ {p}
          /\ \/ Effect(p[2])
             \/ \E why, what : Fail(why, what, p[2].kind) /\ Reason(p[2], why, what)
    BY <1>5, VisitOutcome
  <2>2. phase = "generate" BY <1>5 DEF Visit
  <2>3. CASE Effect(p[2])
    <3>1. /\ UNCHANGED <<headers, unit, file, target, phase, module>> /\ p[2].kind # "module"
      BY <2>3 DEF Effect, Continue, store, build
    <3>2. pending' \subseteq Block' /\ InOrder' BY <2>1, <2>2, <3>1, SeenGrows
    <3>3. (TypesAreSeen /\ MembersAreSeen)' BY <2>1, <2>2, <2>3, EffectOnTypes
    <3>4. (SymbolsAreSeen /\ FunctionsOnce /\ StructsOnce)' BY <2>1, <2>2, <2>3, EffectOnSymbols
    <3>5. ModuleIsKnown' BY <2>1, <2>2, <3>1 DEF ModuleIsKnown, SeenInv
    <3> QED BY <2>2, <3>1, <3>2, <3>3, <3>4, <3>5 DEF SeenInv
  <2>4. CASE \E why, what : Fail(why, what, p[2].kind)
    <3>1. phase' = "failed" BY <2>4 DEF Fail
    <3> QED BY <3>1, <1>2
  <2> QED BY <2>1, <2>3, <2>4
<1>6. CASE EndFile
  <2>1. CASE file < Len(unit)
    <3>1. GenerateFile(unit, file + 1, target) /\ UNCHANGED <<headers, unit, target>>
      BY <1>6, <2>1 DEF EndFile, store
    <3> QED BY <3>1, <1>1
  <2>2. CASE ~(file < Len(unit)) BY <1>6, <2>2, <1>2 DEF EndFile
  <2> QED BY <2>1, <2>2
<1>7. CASE Link BY <1>7, <1>2 DEF Link, Fail
<1>8. CASE WriteDeclaration BY <1>8, <1>2 DEF WriteDeclaration
<1>9. CASE FinishModule BY <1>9, <1>2 DEF FinishModule, Fail
<1> QED BY <1>3, <1>4, <1>5, <1>6, <1>7, <1>8, <1>9 DEF Next

(* Seen statements are kept as an invariant of the whole build.            *)
GenerateInv == TypeOK /\ WritesModule /\ OrderInv /\ SeenInv

LEMMA InitGenerates == Init => GenerateInv
<1>1. Init => TypeOK /\ WritesModule BY DEF Init, TypeOK, WritesModule, Targets, Phases
<1>2. Init => OrderInv
  BY DEF Init, OrderInv, NoFailureYet, ModuleIsFirstOrDisplaced, OnlyImportsDisplaceModule,
         NoFailure, In
<1>3. Init => SeenInv BY DEF Init, SeenInv
<1> QED BY <1>1, <1>2, <1>3 DEF GenerateInv

LEMMA NextGenerates == ASSUME GenerateInv, Next PROVE GenerateInv'
<1>1. TypeOK'
  BY StartingKeepsTypes, EnteringKeepsTypes, VisitingKeepsTypes, EndingKeepsTypes,
     LinkingKeepsTypes, WritingKeepsTypes, FinishingKeepsTypes DEF Next, GenerateInv
<1>2. WritesModule' BY WritesModuleIsKept DEF GenerateInv
<1>3. OrderInv' BY OrderIsKept DEF GenerateInv
<1>4. SeenInv' BY SeenIsKept DEF GenerateInv
<1> QED BY <1>1, <1>2, <1>3, <1>4 DEF GenerateInv

LEMMA StutteringGenerates == ASSUME GenerateInv, UNCHANGED vars PROVE GenerateInv'
<1>1. UNCHANGED <<headers, bitcodes, sources, unit, file, target, pending, phase, header, failure,
                  module, types, symbols, objects>>
  BY DEF vars, store, build, code
<1>2. Displaced' = Displaced BY <1>1, DisplacedIsKept
<1>3. Merged(unit, file, target)' = Merged(unit, file, target)
  <2>1. UNCHANGED headers BY <1>1
  <2>2. UNCHANGED <<unit, file, target>> BY <1>1
  <2>3. Block' = Block BY <2>1, <2>2, BlockIsKept
  <2> QED BY <2>3 DEF Block
<1>4. OnlyImportsDisplaceModule' = OnlyImportsDisplaceModule
  BY <1>1, <1>2 DEF OnlyImportsDisplaceModule, Displaced, Around
<1>5. OrderInv'
  BY <1>1, <1>2, <1>3, <1>4 DEF GenerateInv, OrderInv, NoFailureYet, ModuleIsFirstOrDisplaced
<1>6. Block' = Block /\ Seen' = Seen BY <1>1, BlockIsKept DEF Seen
<1>7. \A s : SymbolOf(s)' = SymbolOf(s) BY <1>1, SymbolsAreKept
<1>8. SeenInv'
  BY <1>1, <1>6, <1>7 DEF GenerateInv, SeenInv, InOrder, TypesAreSeen, SymbolsAreSeen,
     MembersAreSeen, Reopens, FunctionsOnce, StructsOnce, ModuleIsKnown
<1>9. TypeOK' /\ WritesModule' BY <1>1 DEF GenerateInv, TypeOK, WritesModule
<1> QED BY <1>5, <1>8, <1>9 DEF GenerateInv

LEMMA Generates == Spec => []GenerateInv
<1>1. GenerateInv /\ [Next]_vars => GenerateInv' BY NextGenerates, StutteringGenerates
<1> QED BY <1>1, InitGenerates, PTL DEF Spec

-----------------------------------------------------------------------------
(* Which names a function finds                                            *)

(* What extraction makes of a statement of module owner for module t       *)
LEMMA DeclarationSays ==
  ASSUME NEW s \in Statement, IsExtracted(s), NEW owner \in Targets, NEW t \in Targets,
         NEW d, d = Declaration(s, owner, t)
  PROVE  /\ s.kind \in TypeKinds => /\ Len(s.id) = 1 /\ d.kind = s.kind
                                    /\ d.id = Qualified(owner, t, s.id)
         /\ s.kind = "func" => /\ d.kind = "declare" /\ s.id = <<s.id[1]>> /\ Len(s.id) = 1
                               /\ s.id[1] \in Names /\ d.id = <<owner, s.id[1]>>
         /\ s.kind = "import" => d = s
         /\ s.kind # "import" => d.uses = {Qualified(owner, t, u) : u \in s.uses}
         /\ s.kind \in TypeKinds \cup {"func", "import"}
<1>1. s.kind \in TypeKinds \cup {"func", "import"} BY DEF IsExtracted, TypeKinds
<1>2. PICK uses : uses = {Qualified(owner, t, u) : u \in s.uses} OBVIOUS
<1>3. Retyped(s, owner, t) = [s EXCEPT !.uses = uses] BY <1>2 DEF Retyped, Statement
<1>4. s \in [kind : Kinds, id : Ids, uses : SUBSET TypeIds, calls : SUBSET Ids, line : Nat]
  BY DEF Statement
<1>5. CASE s.kind \in TypeKinds
  <2>1. d = [Retyped(s, owner, t) EXCEPT !.id = Qualified(owner, t, s.id)]
    BY <1>3, <1>4, <1>5 DEF Declaration, TypeKinds
  <2>2. d.kind = s.kind /\ d.id = Qualified(owner, t, s.id) /\ d.uses = uses
    BY <2>1, <1>3, <1>4
  <2> QED BY <2>2, <1>1, <1>2, <1>5 DEF IsExtracted, TypeKinds
<1>6. CASE s.kind = "func"
  <2>1. PICK n \in Names : s.id = <<n>>
    BY <1>6 DEF Statement, Named, IsExtracted, Simple
  <2>2. <<owner>> \o s.id = <<owner, n>> BY <2>1, Pair
  <2>3. d = [Retyped(s, owner, t) EXCEPT !.kind = "declare", !.id = <<owner, n>>, !.calls = {}]
    BY <1>3, <1>4, <1>6, <2>2 DEF Declaration
  <2>4. d.kind = "declare" /\ d.id = <<owner, n>> /\ d.uses = uses BY <2>3, <1>3, <1>4
  <2>5. Len(s.id) = 1 /\ s.id[1] = n BY <2>1
  <2> QED BY <2>1, <2>4, <2>5, <1>1, <1>2, <1>6 DEF TypeKinds
<1>7. CASE s.kind = "import"
  <2>1. d = s BY <1>7 DEF Declaration
  <2> QED BY <2>1, <1>1, <1>7 DEF TypeKinds
<1> QED BY <1>1, <1>5, <1>6, <1>7

LEMMA OwnNamesAreSimple == \A t, id : Qualified(t, t, id) = id
BY DEF Qualified

(* What the other files declare is in the block.                           *)
LEMMA OthersAreMerged ==
  ASSUME TypeOK, phase # "idle", NEW x \in Statements(OtherFiles), IsExtracted(x)
  PROVE  /\ x \in Statement
         /\ \E k \in DOMAIN unit \ {file} : x \in In(unit[k])
         /\ \E q \in Block : q[2] = Declaration(x, target, target)
<1>1. target \in Targets /\ unit \in Units[target] BY DEF TypeOK
<1>2. PICK k \in DOMAIN OtherFiles : x \in In(OtherFiles[k]) BY DEF Statements
<1>3. k \in DOMAIN unit /\ OtherFiles[k] = IF k = file THEN <<>> ELSE unit[k]
  BY <1>2 DEF OtherFiles
<1>4. In(<<>>) = {} BY DEF In
<1>5. k # file /\ x \in In(unit[k]) BY <1>2, <1>3, <1>4
<1>6. Owner(unit[k]) = target /\ In(unit[k]) \subseteq Statement BY <1>1, <1>3, FilesOfTarget
<1>7. Declaration(x, target, target) \in Extract(unit[k], target) BY <1>5, <1>6 DEF Extract
<1>8. <<<<"file", k>>, Declaration(x, target, target)>> \in Block
  BY <1>3, <1>5, <1>7 DEF Block, Merged, DeclarationsOf, From
<1> QED BY <1>3, <1>5, <1>6, <1>8, Second

LEMMA OwnAreMerged ==
  ASSUME NEW x \in In(unit[file]) PROVE <<<<"file", file>>, x>> \in Block
BY DEF Block, Merged, From

LEMMA HeadersAreMerged ==
  ASSUME NEW kinds, NEW id \in InHeaders(kinds)
  PROVE  \E q \in Block : q[2].kind \in kinds /\ q[2].id = id
<1>1. PICK m \in Loaded(unit) : id \in NamesOf(In(headers[m]), kinds) BY DEF InHeaders
<1>2. PICK s \in In(headers[m]) : s.kind \in kinds /\ s.id = id BY <1>1 DEF NamesOf
<1>3. <<<<"header", m>>, s>> \in Block
  BY <1>1, <1>2 DEF Block, Merged, ExternalDeclarations, From
<1> QED BY <1>2, <1>3, Second

(* The types around a function are those of its block.                     *)
LEMMA TypesOfBlock ==
  ASSUME TypeOK, phase # "idle"
  PROVE  TypesAround = {q[2].id : q \in {r \in Block : r[2].kind \in TypeKinds}}
<1>1. target \in Targets /\ unit \in Units[target] /\ file \in DOMAIN unit BY DEF TypeOK
<1>2. ASSUME NEW id \in TypesAround
      PROVE  \E q \in Block : q[2].kind \in TypeKinds /\ q[2].id = id
  <2>1. CASE id \in NamesOf(In(unit[file]), {"struct", "forward"})
    <3>1. PICK x \in In(unit[file]) : x.kind \in TypeKinds /\ x.id = id
      BY <2>1 DEF NamesOf, TypeKinds
    <3> QED BY <3>1, OwnAreMerged, Second
  <2>2. CASE id \in NamesOf(Statements(OtherFiles), {"struct", "forward"}) /\ Len(id) = 1
    <3>1. PICK x \in Statements(OtherFiles) : x.kind \in TypeKinds /\ x.id = id
      BY <2>2 DEF NamesOf, TypeKinds
    <3>2. IsExtracted(x) BY <3>1, <2>2 DEF IsExtracted, TypeKinds
    <3>3. PICK q \in Block : q[2] = Declaration(x, target, target) BY <3>2, <1>1, OthersAreMerged
    <3>4. x \in Statement BY <3>2, <1>1, OthersAreMerged
    <3>5. q[2].kind = x.kind /\ q[2].id = x.id
      BY <3>1, <3>2, <3>3, <3>4, <1>1, DeclarationSays, OwnNamesAreSimple
    <3> QED BY <3>1, <3>5
  <2>3. CASE id \in InHeaders({"struct", "forward"})
    BY <2>3, HeadersAreMerged DEF TypeKinds
  <2> QED BY <2>1, <2>2, <2>3 DEF TypesAround
<1>3. ASSUME NEW q \in Block, q[2].kind \in TypeKinds PROVE q[2].id \in TypesAround
  <2>1. CASE \E s \in In(unit[file]) : q = <<<<"file", file>>, s>>
    <3>1. q[2] \in In(unit[file]) BY <2>1, Second
    <3> QED BY <3>1, <1>3 DEF TypesAround, NamesOf, TypeKinds
  <2>2. CASE \E j \in DOMAIN unit \ {file} : \E s \in In(unit[j]) :
               IsExtracted(s) /\ q[2] = Declaration(s, Owner(unit[j]), target)
    <3>1. PICK j \in DOMAIN unit \ {file} : \E s \in In(unit[j]) :
            IsExtracted(s) /\ q[2] = Declaration(s, Owner(unit[j]), target)
      BY <2>2
    <3>2. PICK s \in In(unit[j]) :
            IsExtracted(s) /\ q[2] = Declaration(s, Owner(unit[j]), target)
      BY <3>1
    <3>3. s \in Statement /\ Owner(unit[j]) = target BY <1>1, FilesOfTarget
    <3>4. s.kind \in TypeKinds /\ q[2].id = s.id /\ Len(s.id) = 1
      <4>1. s.kind = "func" => q[2].kind = "declare" BY <3>2, <3>3, <1>1, DeclarationSays
      <4>2. s.kind = "import" => q[2].kind = "import" BY <3>2, <3>3, <1>1, DeclarationSays
      <4>3. s.kind \in TypeKinds
        BY <4>1, <4>2, <3>2, <3>3, <1>1, <1>3, DeclarationSays DEF TypeKinds
      <4> QED BY <4>3, <3>2, <3>3, <1>1, DeclarationSays, OwnNamesAreSimple
    <3>5. j \in DOMAIN OtherFiles /\ OtherFiles[j] = unit[j] BY DEF OtherFiles
    <3>6. s \in Statements(OtherFiles) BY <3>5 DEF Statements
    <3> QED BY <3>4, <3>6 DEF TypesAround, NamesOf, TypeKinds
  <2>3. CASE \E m \in Loaded(unit) : q[2] \in In(headers[m])
    BY <2>3, <1>3 DEF TypesAround, InHeaders, NamesOf, TypeKinds
  <2>4. CASE q = AllocDeclaration
    <3>1. q[2].kind = "extern" BY <2>4 DEF AllocDeclaration
    <3> QED BY <3>1, <1>3 DEF TypeKinds
  <2> QED BY <2>1, <2>2, <2>3, <2>4, MergedFrom DEF Block
<1> QED BY <1>2, <1>3

(* Before a function or an ordinary declaration, all types are seen ...    *)
LEMMA TypesComeFirst ==
  ASSUME TypeOK, SeenInv, phase = "generate", NEW p \in Firsts(pending),
         \/ p[2].kind \in {"func", "declare"}
         \/ p[2].kind = "extern" /\ p[2].id # <<Alloc>>
  PROVE  DOMAIN types = TypesAround
<1>1. ASSUME NEW q \in pending, q[2].kind \in TypeKinds PROVE FALSE
  <2>1. /\ p[2] \in Statement /\ q[2] \in Statement /\ Priority(p[2]) <= Priority(q[2])
    BY FirstsAreLeast
  <2>2. Priority(q[2]) = 2 /\ Priority(p[2]) \in {3, 10} BY <2>1, <1>1, Priorities
  <2> QED BY <2>1, <2>2
<1>2. {q \in Seen : q[2].kind \in TypeKinds} = {r \in Block : r[2].kind \in TypeKinds}
  BY <1>1 DEF Seen
<1> QED BY <1>2, TypesOfBlock DEF SeenInv, TypesAreSeen

(* ... and before a function everything else.                              *)
LEMMA FunctionsComeLast ==
  ASSUME TypeOK, SeenInv, phase = "generate", NEW p \in Firsts(pending), p[2].kind = "func"
  PROVE  /\ module = target
         /\ \A q \in Block : q[2].kind \in {"extern", "declare", "struct"} =>
              SymbolOf(q[2]) \in symbols
<1>1. ASSUME NEW q \in pending, q[2].kind # "func" PROVE FALSE
  <2>1. /\ p[2] \in Statement /\ q[2] \in Statement /\ Priority(p[2]) <= Priority(q[2])
    BY FirstsAreLeast
  <2>2. Priority(p[2]) = 10 /\ Priority(q[2]) \in 0 .. 3
    <3>1. Priority(p[2]) = 10 BY <2>1, Priorities
    <3>2. q[2].kind \in {"module", "import", "extern", "forward", "struct", "declare"}
      BY <2>1, <1>1 DEF Statement, Kinds
    <3> QED BY <3>1, <3>2, <2>1, Priorities DEF TypeKinds
  <2> QED BY <2>1, <2>2
<1>2. module = target BY <1>1 DEF SeenInv, ModuleIsKnown
<1>3. ASSUME NEW q \in Block, q[2].kind \in {"extern", "declare", "struct"}
      PROVE  SymbolOf(q[2]) \in symbols
  <2>1. q \in Seen BY <1>1, <1>3 DEF Seen
  <2> QED BY <2>1, <1>3 DEF SeenInv, SymbolsAreSeen, SymbolKinds
<1> QED BY <1>2, <1>3

(* The cases of the resolver (CodeGenIdentifierResolver)                   *)
LEMMA Resolving ==
  ASSUME NEW id, NEW known
  PROVE  /\ id \in DOMAIN types /\ Len(id) = 1 => Resolve(id, known) = Constructor(module, id)
         /\ id \notin DOMAIN types /\ Len(id) = 2 => Resolve(id, known) = Mangle(id[1], id[2])
         /\ id \notin DOMAIN types /\ Len(id) = 1 =>
              Resolve(id, known) = IF Mangle(module, id[1]) \in known
                                   THEN Mangle(module, id[1]) ELSE id
BY DEF Resolve

(* A function that is around is found.                                     *)
LEMMA FunctionsAreFound ==
  ASSUME TypeOK, OrderInv, SeenInv, phase = "generate", NEW p \in Firsts(pending),
         p[2].kind = "func", NEW c \in FunctionsAround, NEW known, symbols \subseteq known
  PROVE  Resolve(c, known) \in known
<1>1. /\ target \in Targets /\ unit \in Units[target] /\ file \in DOMAIN unit BY DEF TypeOK
<1>2. DOMAIN types = TypesAround BY TypesComeFirst
<1>3. module = target BY FunctionsComeLast
<1>4. ASSUME NEW q \in Block, q[2].kind \in {"declare", "struct"}
      PROVE  q[2] \in Statement /\ SymbolOf(q[2]) \in known
  BY <1>1, <1>4, FunctionsComeLast, MergedAreStatements DEF Block
<1>5. CASE c \in NamesOf(Statements(OtherFiles), {"func"}) \ {<<Main>>} /\ c \notin TypesAround
  <2>1. PICK x \in Statements(OtherFiles) : x.kind = "func" /\ x.id = c BY <1>5 DEF NamesOf
  <2>2. IsExtracted(x) BY <1>5, <2>1 DEF IsExtracted
  <2>3. PICK q \in Block : q[2] = Declaration(x, target, target) BY <2>2, OthersAreMerged
  <2>4. x \in Statement BY <2>2, OthersAreMerged
  <2>5. q[2].kind = "declare" /\ q[2].id = <<target, c[1]>> /\ Len(c) = 1
    BY <2>1, <2>2, <2>3, <2>4, <1>1, DeclarationSays
  <2>6. SymbolOf(q[2]) = Mangle(target, c[1]) BY <2>5, StatementKinds DEF DeclaredSymbol
  <2> QED BY <2>5, <2>6, <1>2, <1>3, <1>4, <1>5, Resolving
<1>6. CASE c \in InHeaders({"declare"}) /\ c \notin TypesAround
  <2>1. PICK q \in Block : q[2].kind = "declare" /\ q[2].id = c BY <1>6, HeadersAreMerged
  <2>2. c \in Ids /\ DeclaredSymbol(c) \in known
    BY <2>1, <1>4, StatementKinds DEF Statement
  <2>3. CASE Len(c) = 1
    <3>1. DeclaredSymbol(c) = Mangle(module, c[1]) BY <2>3 DEF DeclaredSymbol
    <3> QED BY <2>2, <2>3, <3>1, <1>2, <1>6, Resolving
  <2>4. CASE Len(c) = 2
    <3>1. DeclaredSymbol(c) = Mangle(c[1], c[2]) BY <2>4 DEF DeclaredSymbol
    <3> QED BY <2>2, <2>4, <3>1, <1>2, <1>6, Resolving
  <2> QED BY <2>2, <2>3, <2>4, IdsAreNames
<1>7. CASE c \in NamesOf(Statements(unit), {"struct"}) /\ Len(c) = 1
  <2>1. PICK x \in Statements(unit) : x.kind = "struct" /\ x.id = c BY <1>7 DEF NamesOf
  <2>2. PICK k \in DOMAIN unit : x \in In(unit[k]) BY <2>1 DEF Statements
  <2>3. PICK q \in Block : q[2].kind = "struct" /\ q[2].id = c
    <3>1. CASE k = file BY <3>1, <2>1, <2>2, OwnAreMerged, Second
    <3>2. CASE k # file
      <4>1. k \in DOMAIN OtherFiles /\ OtherFiles[k] = unit[k] BY <3>2 DEF OtherFiles
      <4>2. x \in Statements(OtherFiles) BY <4>1, <2>2 DEF Statements
      <4>3. IsExtracted(x) BY <2>1, <1>7 DEF IsExtracted
      <4>4. PICK q \in Block : q[2] = Declaration(x, target, target)
        BY <4>2, <4>3, OthersAreMerged
      <4>5. x \in Statement BY <4>2, <4>3, OthersAreMerged
      <4>6. q[2].kind = "struct" /\ q[2].id = c
        BY <4>3, <4>4, <4>5, <2>1, <1>1, DeclarationSays, OwnNamesAreSimple DEF TypeKinds
      <4> QED BY <4>6
    <3> QED BY <3>1, <3>2
  <2>4. c \in DOMAIN types
    <3>1. c \in TypesAround BY <2>3, TypesOfBlock DEF TypeKinds
    <3> QED BY <3>1, <1>2
  <2>5. Constructor(module, c) \in known BY <2>3, <1>4, StatementKinds
  <2> QED BY <2>4, <2>5, <1>7, Resolving
<1> QED BY <1>5, <1>6, <1>7 DEF FunctionsAround

(* Headers are made of types, functions and imports only.                  *)
ExtractedKinds == {"struct", "forward", "declare", "import"}
HeadersAreDeclarations ==
  /\ \A m \in DOMAIN headers : \A s \in In(headers[m]) : s.kind \in ExtractedKinds
  /\ \A s \in In(header) : s.kind \in ExtractedKinds
  /\ phase = "write" => \A p \in pending : p[2].kind \in ExtractedKinds

LEMMA ExtractedKind ==
  ASSUME NEW s \in Statement, IsExtracted(s), NEW owner \in Targets, NEW t \in Targets
  PROVE  Declaration(s, owner, t).kind \in ExtractedKinds
<1>1. PICK d : d = Declaration(s, owner, t) OBVIOUS
<1> QED BY <1>1, DeclarationSays DEF ExtractedKinds, TypeKinds

LEMMA AppendedIn ==
  ASSUME NEW S, NEW q \in Seq(S), NEW d \in S
  PROVE  In(Append(q, d)) = In(q) \cup {d}
<1> DEFINE r == Append(q, d)
<1>1. r \in Seq(S) /\ DOMAIN r = DOMAIN q \cup {Len(q) + 1} /\ r[Len(q) + 1] = d
  OBVIOUS
<1>2. \A i \in DOMAIN q : r[i] = q[i] OBVIOUS
<1> HIDE DEF r
<1>3. In(r) = In(q) \cup {d} BY <1>1, <1>2 DEF In
<1> QED BY <1>3 DEF r

LEMMA HeadersStayDeclarations ==
  ASSUME TypeOK, HeadersAreDeclarations, Next PROVE HeadersAreDeclarations'
<1>1. /\ \A m \in DOMAIN headers : \A s \in In(headers[m]) : s.kind \in ExtractedKinds
      /\ \A s \in In(header) : s.kind \in ExtractedKinds
  BY DEF HeadersAreDeclarations
<1>2. ASSUME UNCHANGED <<headers, header>>, phase' # "write" PROVE HeadersAreDeclarations'
  BY <1>1, <1>2 DEF HeadersAreDeclarations, In
<1>3. ASSUME NEW why, NEW what, NEW kind, Fail(why, what, kind) PROVE HeadersAreDeclarations'
  BY <1>2, <1>3 DEF Fail, store
<1>4. CASE \E t \in Targets : Start(t) BY <1>2, <1>4 DEF Start, GenerateFile, store
<1>5. CASE EnterBlock BY <1>2, <1>5 DEF EnterBlock, store
<1>6. CASE Visit
  <2>1. PICK p \in Firsts(pending) :
          \/ Effect(p[2])
          \/ \E why, what : Fail(why, what, p[2].kind)
    BY <1>6, VisitOutcome
  <2>2. CASE Effect(p[2]) BY <2>2, <1>2, <1>6 DEF Visit, Effect, Continue, store
  <2> QED BY <2>1, <2>2, <1>3
<1>7. CASE EndFile BY <1>2, <1>7 DEF EndFile, GenerateFile, store
<1>8. CASE Link
  <2>1. CASE Shared # {} BY <2>1, <1>3, <1>8 DEF Link
  <2>2. CASE Shared = {}
    <3>1. /\ UNCHANGED <<headers, header>> /\ phase # "idle"
          /\ phase' = "write" => pending' = DeclarationsOf(unit, DOMAIN unit, Main)
      BY <2>2, <1>8 DEF Link, store
    <3>2. target \in Targets /\ unit \in Units[target] /\ Main \in Targets
      BY <3>1 DEF TypeOK, Targets
    <3>3. ASSUME NEW p \in DeclarationsOf(unit, DOMAIN unit, Main)
          PROVE  p[2].kind \in ExtractedKinds
      <4>1. PICK j \in DOMAIN unit : \E s \in In(unit[j]) :
              IsExtracted(s) /\ p[2] = Declaration(s, Owner(unit[j]), Main)
        BY <3>3 DEF DeclarationsOf, From, Extract
      <4>2. PICK s \in In(unit[j]) :
              IsExtracted(s) /\ p[2] = Declaration(s, Owner(unit[j]), Main)
        BY <4>1
      <4>3. s \in Statement /\ Owner(unit[j]) = target BY <3>2, FilesOfTarget
      <4> QED BY <4>2, <4>3, <3>2, ExtractedKind
    <3> QED BY <3>1, <3>3, <1>1 DEF HeadersAreDeclarations, In
  <2> QED BY <2>1, <2>2
<1>9. CASE WriteDeclaration
  <2>1. PICK p \in Firsts(pending) :
          /\ header' = Append(header, [p[2] EXCEPT !.line = Len(header) + 1])
          /\ pending' = pending \ {p}
    BY <1>9 DEF WriteDeclaration
  <2>2. phase = "write" /\ phase' = "write" /\ UNCHANGED headers
    BY <1>9 DEF WriteDeclaration, store
  <2>3. \A q \in pending : q[2].kind \in ExtractedKinds BY <2>2 DEF HeadersAreDeclarations
  <2>4. p[2] \in Statement /\ p \in pending BY DEF Firsts, TypeOK
  <2>5. header \in Seq(Statement) /\ Len(header) + 1 \in Nat BY DEF TypeOK
  <2>6. PICK d : d = [p[2] EXCEPT !.line = Len(header) + 1] OBVIOUS
  <2>7. d \in Statement /\ d.kind \in ExtractedKinds
    BY <2>3, <2>4, <2>5, <2>6 DEF Statement, Named
  <2>8. In(header') = In(header) \cup {d} BY <2>1, <2>5, <2>6, <2>7, AppendedIn
  <2>9. \A s \in In(header)' : s.kind \in ExtractedKinds BY <2>7, <2>8, <1>1 DEF In
  <2> QED BY <2>1, <2>2, <2>3, <2>9, <1>1 DEF HeadersAreDeclarations, In
<1>10. CASE FinishModule
  <2>1. CASE header = <<>> BY <2>1, <1>10, <1>3 DEF FinishModule
  <2>2. CASE header # <<>>
    <3>1. phase' = "idle" /\ header' = <<>> /\ headers' = Put(headers, target, header)
      BY <2>2, <1>10 DEF FinishModule
    <3>2. \A m \in DOMAIN headers' : \A s \in In(headers'[m]) : s.kind \in ExtractedKinds
      BY <3>1, <1>1 DEF Put
    <3> QED BY <3>1, <3>2 DEF HeadersAreDeclarations, In
  <2> QED BY <2>1, <2>2
<1> QED BY <1>4, <1>5, <1>6, <1>7, <1>8, <1>9, <1>10 DEF Next

LEMMA AroundIsKept ==
  ASSUME UNCHANGED <<headers, unit, file>>
  PROVE  /\ UNCHANGED TypesAround /\ UNCHANGED FunctionsAround /\ UNCHANGED AllocatorUses
         /\ \A kinds : InHeaders(kinds)' = InHeaders(kinds)
<1>1. \A kinds : InHeaders(kinds)' = InHeaders(kinds)
  BY DEF InHeaders, Loaded
<1>2. OtherFiles' = OtherFiles BY DEF OtherFiles
<1>3. TypesAround' = TypesAround BY <1>1, <1>2 DEF TypesAround, Statements
<1>4. FunctionsAround' = FunctionsAround BY <1>1, <1>2, <1>3 DEF FunctionsAround, Statements
<1>5. AllocatorUses' = AllocatorUses BY DEF AllocatorUses, Statements
<1> QED BY <1>1, <1>3, <1>4, <1>5

(* The type an own declaration of the allocator does not find is its own.  *)
LEMMA AllocatorsAreOwn ==
  ASSUME TypeOK, HeadersAreDeclarations, phase # "idle",
         NEW p \in Block, p[2].kind = "extern", p[2].id = <<Alloc>>
  PROVE  p[2].uses \subseteq AllocatorUses
<1>1. target \in Targets /\ unit \in Units[target] /\ file \in DOMAIN unit BY DEF TypeOK
<1>2. CASE \E s \in In(unit[file]) : p = <<<<"file", file>>, s>>
  <2>1. p[2] \in In(unit[file]) BY <1>2, Second
  <2>2. p[2] \in Statements(unit) BY <2>1, <1>1 DEF Statements
  <2> QED BY <2>2 DEF AllocatorUses
<1>3. CASE \E j \in DOMAIN unit \ {file} : \E s \in In(unit[j]) :
             IsExtracted(s) /\ p[2] = Declaration(s, Owner(unit[j]), target)
  <2>1. PICK j \in DOMAIN unit \ {file} : \E s \in In(unit[j]) :
          IsExtracted(s) /\ p[2] = Declaration(s, Owner(unit[j]), target)
    BY <1>3
  <2>2. PICK s \in In(unit[j]) : IsExtracted(s) /\ p[2] = Declaration(s, Owner(unit[j]), target)
    BY <2>1
  <2>3. s \in Statement /\ Owner(unit[j]) = target BY <1>1, FilesOfTarget
  <2>4. p[2].kind \in ExtractedKinds BY <2>2, <2>3, <1>1, ExtractedKind
  <2> QED BY <2>4 DEF ExtractedKinds
<1>4. CASE \E m \in Loaded(unit) : p[2] \in In(headers[m])
  BY <1>4, LoadedHaveHeaders DEF HeadersAreDeclarations, ExtractedKinds
<1>5. CASE p = AllocDeclaration
  <2>1. p[2].uses = {} BY <1>5, Second DEF AllocDeclaration
  <2> QED BY <2>1
<1> QED BY <1>2, <1>3, <1>4, <1>5, MergedFrom DEF Block

(* A statement is never refused for want of a name that is around.         *)
LEMMA RefusedForGoodReason ==
  ASSUME TypeOK, OrderInv, SeenInv, HeadersAreDeclarations, phase = "generate",
         NEW p \in Firsts(pending), NEW why, NEW what, Reason(p[2], why, what),
         p[2].kind \in {"func", "declare", "extern"}
  PROVE  /\ why = "unknown type" =>
              what \notin TypesAround \ (IF p[2].kind = "extern" THEN AllocatorUses ELSE {})
         /\ why = "undeclared function" => what \notin FunctionsAround
<1>1. p \in pending /\ p \in Block BY DEF Firsts, SeenInv
<1>2. ASSUME why = "unknown type"
      PROVE  what \notin TypesAround \ (IF p[2].kind = "extern" THEN AllocatorUses ELSE {})
  <2>1. what \in p[2].uses \ DOMAIN types BY <1>2 DEF Reason
  <2>2. CASE p[2].kind = "extern" /\ p[2].id = <<Alloc>> BY <2>1, <2>2, <1>1, AllocatorsAreOwn
  <2>3. CASE ~(p[2].kind = "extern" /\ p[2].id = <<Alloc>>)
    <3>1. DOMAIN types = TypesAround BY <2>3, TypesComeFirst
    <3> QED BY <3>1, <2>1
  <2> QED BY <2>2, <2>3
<1>3. ASSUME why = "undeclared function" PROVE what \notin FunctionsAround
  <2>1. p[2].kind = "func" /\ Resolve(what, KnownTo(p[2])) \notin KnownTo(p[2])
    BY <1>3 DEF Reason
  <2>2. PICK known : known = KnownTo(p[2]) OBVIOUS
  <2>3. symbols \subseteq known BY <2>2 DEF KnownTo
  <2> QED BY <2>1, <2>2, <2>3, FunctionsAreFound
<1> QED BY <1>2, <1>3

LEMMA NamesStayVisible ==
  ASSUME GenerateInv, HeadersAreDeclarations, Next PROVE NamesAreVisibleToFunctions'
<1>1. ASSUME phase' # "failed" PROVE NamesAreVisibleToFunctions'
  <2>1. NoFailureYet' BY NoFailureYetIsKept DEF GenerateInv, OrderInv
  <2>2. failure'.kind = "none" BY <2>1, <1>1 DEF NoFailureYet, NoFailure
  <2> QED BY <2>2 DEF NamesAreVisibleToFunctions
<1>2. ASSUME NEW why, NEW what, NEW kind, Fail(why, what, kind), kind \in {"link", "module"}
      PROVE  NamesAreVisibleToFunctions'
  <2>1. failure'.kind = kind BY <1>2 DEF Fail
  <2> QED BY <2>1, <1>2 DEF NamesAreVisibleToFunctions
<1>3. CASE \E t \in Targets : Start(t) BY <1>1, <1>3 DEF Start, GenerateFile
<1>4. CASE EnterBlock BY <1>1, <1>4 DEF EnterBlock
<1>5. CASE Visit
  <2>1. PICK p \in Firsts(pending) :
          \/ Effect(p[2])
          \/ \E why, what : Fail(why, what, p[2].kind) /\ Reason(p[2], why, what)
    BY <1>5, VisitOutcome
  <2>2. phase = "generate" BY <1>5 DEF Visit
  <2>3. CASE Effect(p[2]) BY <2>2, <2>3, <1>1 DEF Effect, Continue
  <2>4. CASE \E why, what : Fail(why, what, p[2].kind) /\ Reason(p[2], why, what)
    <3>1. PICK why, what : Fail(why, what, p[2].kind) /\ Reason(p[2], why, what) BY <2>4
    <3>2. UNCHANGED <<headers, unit, file>> /\ failure' = [why |-> why, what |-> what, kind |-> p[2].kind]
      BY <3>1 DEF Fail, store, build
    <3>3. UNCHANGED TypesAround /\ UNCHANGED FunctionsAround /\ UNCHANGED AllocatorUses
      BY <3>2, AroundIsKept
    <3>4. failure'.why = why /\ failure'.what = what /\ failure'.kind = p[2].kind BY <3>2
    <3>5. CASE p[2].kind \in {"func", "declare", "extern"}
      <4>1. /\ why = "unknown type" =>
                 what \notin TypesAround \ (IF p[2].kind = "extern" THEN AllocatorUses ELSE {})
            /\ why = "undeclared function" => what \notin FunctionsAround
        BY <3>1, <3>5, <2>2, RefusedForGoodReason DEF GenerateInv
      <4> QED BY <4>1, <3>3, <3>4 DEF NamesAreVisibleToFunctions
    <3>6. CASE p[2].kind \notin {"func", "declare", "extern"}
      BY <3>4, <3>6 DEF NamesAreVisibleToFunctions
    <3> QED BY <3>5, <3>6
  <2> QED BY <2>1, <2>3, <2>4
<1>6. CASE EndFile BY <1>1, <1>6 DEF EndFile, GenerateFile
<1>7. CASE Link BY <1>1, <1>2, <1>7 DEF Link
<1>8. CASE WriteDeclaration BY <1>1, <1>8 DEF WriteDeclaration
<1>9. CASE FinishModule BY <1>1, <1>2, <1>9 DEF FinishModule
<1> QED BY <1>3, <1>4, <1>5, <1>6, <1>7, <1>8, <1>9 DEF Next

LEMMA HeadersDeclare == Spec => []HeadersAreDeclarations
<1>1. Init => HeadersAreDeclarations BY DEF Init, HeadersAreDeclarations, In
<1>2. GenerateInv /\ HeadersAreDeclarations /\ [Next]_vars => HeadersAreDeclarations'
  <2> SUFFICES ASSUME GenerateInv, HeadersAreDeclarations, [Next]_vars
               PROVE  HeadersAreDeclarations'
    OBVIOUS
  <2>1. CASE Next BY <2>1, HeadersStayDeclarations DEF GenerateInv
  <2>2. CASE UNCHANGED vars
    <3>1. UNCHANGED <<headers, header, phase, pending>> BY <2>2 DEF vars, store
    <3> QED BY <3>1 DEF HeadersAreDeclarations, In
  <2> QED BY <2>1, <2>2
<1> QED BY <1>1, <1>2, Generates, PTL DEF Spec

(* For all files of all targets: no function is refused for want of a type *)
(* or a function that another file of its module or a loaded module has,   *)
(* however both sides are written and sorted (CodeGenIdentifierResolver,   *)
(* ASTBlock::sort, ASTDeclarationExtractor).                               *)
THEOREM FunctionsSeeNames == Spec => []NamesAreVisibleToFunctions
<1>1. Init => NamesAreVisibleToFunctions
  BY DEF Init, NamesAreVisibleToFunctions, NoFailure
<1>2. GenerateInv /\ HeadersAreDeclarations /\ NamesAreVisibleToFunctions /\ [Next]_vars
        => NamesAreVisibleToFunctions'
  <2> SUFFICES ASSUME GenerateInv, HeadersAreDeclarations, NamesAreVisibleToFunctions, [Next]_vars
               PROVE  NamesAreVisibleToFunctions'
    OBVIOUS
  <2>1. CASE Next BY <2>1, NamesStayVisible
  <2>2. CASE UNCHANGED vars
    <3>1. UNCHANGED <<headers, unit, file, failure>> BY <2>2 DEF vars, store, build
    <3>2. UNCHANGED TypesAround /\ UNCHANGED FunctionsAround /\ UNCHANGED AllocatorUses
      BY <3>1, AroundIsKept
    <3> QED BY <3>1, <3>2 DEF NamesAreVisibleToFunctions
  <2> QED BY <2>1, <2>2
<1> QED BY <1>1, <1>2, Generates, HeadersDeclare, PTL DEF Spec

-----------------------------------------------------------------------------
(* What a header says of the sources                                       *)

(* Header h is made of the declarations of S, each once, in some order,    *)
(* one to a line.                                                          *)
Written(h, S) ==
  \E g \in [DOMAIN h -> S] :
    /\ \A q \in S : \E i \in DOMAIN h : g[i] = q
    /\ \A i, j \in DOMAIN h : g[i] = g[j] => i = j
    /\ \A i \in DOMAIN h : h[i] = [g[i][2] EXCEPT !.line = i]

(* What the compilation of file k leaves true of a target's files          *)
DeclaredOnce(files, k) ==
  \A x \in In(files[k]) : \A j \in DOMAIN files : \A y \in In(files[j]) :
    (<<j, y>> # <<k, x>> /\ x.kind = y.kind /\ x.id = y.id /\ Len(x.id) = 1 /\ x.id # <<Main>>) =>
      /\ x.kind # "func"
      /\ x.kind = "struct" => \E z \in Statements(files) : z.kind = "forward" /\ z.id = x.id

Exports(files) == DeclarationsOf(files, DOMAIN files, Main)
DenoteInv ==
  /\ \A m \in DOMAIN headers :
       /\ sources[m] \in Units[m] /\ \A k \in DOMAIN sources[m] : DeclaredOnce(sources[m], k)
       /\ Written(headers[m], Exports(sources[m]))
  /\ phase \in {"sorted", "generate"} =>
       \A k \in DOMAIN unit : k < file => DeclaredOnce(unit, k)
  /\ phase \in {"link", "write"} => \A k \in DOMAIN unit : DeclaredOnce(unit, k)
  /\ phase = "write" =>
       pending \subseteq Exports(unit) /\ Written(header, Exports(unit) \ pending)
  /\ phase \notin {"write", "failed"} => header = <<>>

LEMMA NothingIsWritten == Written(<<>>, {})
<1>1. DOMAIN <<>> = {} OBVIOUS
<1>2. <<>> \in [{} -> {}] OBVIOUS
<1> QED BY <1>1, <1>2 DEF Written

LEMMA WritingGrows ==
  ASSUME NEW h \in Seq(Statement), NEW S, Written(h, S), NEW p, p \notin S, p[2] \in Statement
  PROVE  Written(Append(h, [p[2] EXCEPT !.line = Len(h) + 1]), S \cup {p})
<1>1. PICK g \in [DOMAIN h -> S] :
        /\ \A q \in S : \E i \in DOMAIN h : g[i] = q
        /\ \A i, j \in DOMAIN h : g[i] = g[j] => i = j
        /\ \A i \in DOMAIN h : h[i] = [g[i][2] EXCEPT !.line = i]
  BY DEF Written
<1>2. PICK n \in Nat : n = Len(h) OBVIOUS
<1>3. PICK d : d = [p[2] EXCEPT !.line = n + 1] OBVIOUS
<1>4. d \in Statement
  <2>1. PICK s \in Statement : s = p[2] OBVIOUS
  <2>2. d = [s EXCEPT !.line = n + 1] /\ n + 1 \in Nat BY <1>3, <2>1
  <2> QED BY <2>2 DEF Statement, Named
<1>5. PICK r : r = Append(h, d) OBVIOUS
<1>6. /\ DOMAIN r = DOMAIN h \cup {n + 1} /\ n + 1 \notin DOMAIN h /\ r[n + 1] = d
      /\ \A i \in DOMAIN h : r[i] = h[i]
  BY <1>2, <1>4, <1>5
<1>7. PICK f : f = [i \in DOMAIN r |-> IF i = n + 1 THEN p ELSE g[i]] OBVIOUS
<1>8. /\ f \in [DOMAIN r -> S \cup {p}] /\ f[n + 1] = p
      /\ \A i \in DOMAIN h : f[i] = g[i] /\ f[i] \in S
  BY <1>6, <1>7
<1>9. \A q \in S \cup {p} : \E i \in DOMAIN r : f[i] = q BY <1>1, <1>6, <1>8
<1>10. \A i, j \in DOMAIN r : f[i] = f[j] => i = j BY <1>1, <1>6, <1>8
<1>11. \A i \in DOMAIN r : r[i] = [f[i][2] EXCEPT !.line = i] BY <1>1, <1>3, <1>6, <1>8
<1>12. Written(r, S \cup {p}) BY <1>8, <1>9, <1>10, <1>11 DEF Written
<1> QED BY <1>2, <1>3, <1>5, <1>12

(* Where an exported declaration comes from                                *)
LEMMA ExportsFrom ==
  ASSUME NEW t \in Targets, NEW files \in Units[t], NEW q \in Exports(files)
  PROVE  \E k \in DOMAIN files : \E s \in In(files[k]) :
           /\ s \in Statement /\ IsExtracted(s)
           /\ q = <<<<"file", k>>, Declaration(s, t, Main)>> /\ q[2] = Declaration(s, t, Main)
<1>1. PICK k \in DOMAIN files : \E s \in In(files[k]) :
        IsExtracted(s) /\ q = <<<<"file", k>>, Declaration(s, Owner(files[k]), Main)>>
  BY DEF Exports, DeclarationsOf, From, Extract
<1>2. PICK s \in In(files[k]) :
        IsExtracted(s) /\ q = <<<<"file", k>>, Declaration(s, Owner(files[k]), Main)>>
  BY <1>1
<1>3. s \in Statement /\ Owner(files[k]) = t BY FilesOfTarget
<1>4. q[2] = Declaration(s, t, Main) BY <1>2, <1>3, Second
<1> QED BY <1>2, <1>3, <1>4

LEMMA ExportedFrom ==
  ASSUME NEW t \in Targets, NEW files \in Units[t], NEW k \in DOMAIN files,
         NEW s \in In(files[k]), IsExtracted(s)
  PROVE  <<<<"file", k>>, Declaration(s, t, Main)>> \in Exports(files)
<1>1. Owner(files[k]) = t BY FilesOfTarget
<1> QED BY <1>1 DEF Exports, DeclarationsOf, From, Extract

(* Outside its module a name has the module in front.                      *)
LEMMA NamesAreQualified ==
  ASSUME NEW m \in Modules, NEW id \in TypeIds
  PROVE  /\ Qualified(m, Main, id) = Meaning(m, id) /\ Len(Qualified(m, Main, id)) = 2
         /\ Len(id) = 1 => /\ id = <<id[1]>> /\ id[1] \in Names /\ id # <<Main>>
                           /\ Meaning(m, id) = <<m, id[1]>>
<1>1. m # Main BY DeclarationsAssumption
<1>2. CASE id \in Simple(Names)
  <2>1. PICK n \in Names : id = <<n>> BY <1>2 DEF Simple
  <2>2. <<m>> \o id = <<m, n>> BY <2>1, Pair
  <2>3. n # Main BY DeclarationsAssumption DEF Targets
  <2> QED BY <2>1, <2>2, <2>3, <1>1 DEF Qualified, Meaning
<1>3. CASE id \in Targets \X Names
  <2>1. Len(id) = 2 BY <1>3
  <2> QED BY <2>1 DEF Qualified, Meaning
<1> QED BY <1>2, <1>3 DEF TypeIds

(* What an exported declaration says                                       *)
LEMMA ExportsSay ==
  ASSUME NEW m \in Modules, NEW s \in Statement, IsExtracted(s)
  PROVE  LET d == Declaration(s, m, Main) IN
         /\ s.kind \in TypeKinds => d.kind = s.kind
         /\ s.kind = "func" => d.kind = "declare"
         /\ s.kind = "import" => d = s
         /\ s.kind # "import" => /\ Len(s.id) = 1 /\ s.id # <<Main>> /\ s.id = <<s.id[1]>>
                                 /\ d.id = Meaning(m, s.id) /\ d.id = <<m, s.id[1]>>
                                 /\ d.uses = {Meaning(m, u) : u \in s.uses}
         /\ s.kind \in TypeKinds \cup {"func", "import"} /\ d \in Statement
<1>1. PICK d : d = Declaration(s, m, Main) OBVIOUS
<1>2. m \in Targets /\ Main \in Targets BY DEF Targets
<1>3. /\ s.kind \in TypeKinds => /\ Len(s.id) = 1 /\ d.kind = s.kind
                                 /\ d.id = Qualified(m, Main, s.id)
      /\ s.kind = "func" => /\ d.kind = "declare" /\ s.id = <<s.id[1]>> /\ Len(s.id) = 1
                            /\ s.id[1] \in Names /\ d.id = <<m, s.id[1]>>
      /\ s.kind = "import" => d = s
      /\ s.kind # "import" => d.uses = {Qualified(m, Main, u) : u \in s.uses}
      /\ s.kind \in TypeKinds \cup {"func", "import"}
  BY <1>1, <1>2, DeclarationSays
<1>4. d \in Statement BY <1>1, <1>2, DeclarationIsStatement
<1>5. ASSUME s.kind # "import" PROVE d.uses = {Meaning(m, u) : u \in s.uses}
  <2>1. \A u \in s.uses : Qualified(m, Main, u) = Meaning(m, u)
    BY NamesAreQualified DEF Statement
  <2> QED BY <2>1, <1>3, <1>5
<1>6. ASSUME s.kind \in TypeKinds
      PROVE  /\ s.id # <<Main>> /\ s.id = <<s.id[1]>>
             /\ d.id = Meaning(m, s.id) /\ d.id = <<m, s.id[1]>>
  <2>1. s.id \in TypeIds BY <1>6 DEF Statement, Named, TypeKinds
  <2> QED BY <2>1, <1>3, <1>6, NamesAreQualified
<1>7. ASSUME s.kind = "func"
      PROVE  s.id # <<Main>> /\ d.id = Meaning(m, s.id)
  <2>1. s.id # <<Main>> BY <1>7 DEF IsExtracted
  <2>2. Len(s.id) = 1 /\ d.id = <<m, s.id[1]>> BY <1>3, <1>7
  <2> QED BY <2>1, <2>2 DEF Meaning
<1> QED BY <1>1, <1>3, <1>4, <1>5, <1>6, <1>7

(* Each line of a header says what some statement of its sources says.     *)
LEMMA LinesComeFromSources ==
  ASSUME NEW m \in Modules, NEW files \in Units[m], NEW h, NEW i \in DOMAIN h,
         NEW q \in Exports(files), h[i] = [q[2] EXCEPT !.line = i]
  PROVE  \E k \in DOMAIN files : \E s \in In(files[k]) :
           /\ s \in Statement /\ IsExtracted(s)
           /\ q = <<<<"file", k>>, Declaration(s, m, Main)>>
           /\ h[i].kind = Declaration(s, m, Main).kind /\ h[i].id = Declaration(s, m, Main).id
           /\ h[i].uses = Declaration(s, m, Main).uses
<1>1. m \in Targets BY DEF Targets
<1> DEFINE Source(k, s) ==
      /\ s \in Statement /\ IsExtracted(s)
      /\ q = <<<<"file", k>>, Declaration(s, m, Main)>> /\ q[2] = Declaration(s, m, Main)
<1>7. PICK k \in DOMAIN files : \E s \in In(files[k]) : Source(k, s) BY <1>1, ExportsFrom
<1>2. PICK s \in In(files[k]) : Source(k, s) BY <1>7
<1>3. PICK d : d = Declaration(s, m, Main) OBVIOUS
<1>4. d \in Statement BY <1>2, <1>3, ExportsSay
<1>5. h[i] = [d EXCEPT !.line = i] BY <1>2, <1>3
<1>6. h[i].kind = d.kind /\ h[i].id = d.id /\ h[i].uses = d.uses BY <1>4, <1>5 DEF Statement
<1> QED BY <1>2, <1>3, <1>6

(* Types in headers have the name of their module.                         *)
LEMMA HeaderTypesAreQualified ==
  ASSUME TypeOK, DenoteInv, NEW m \in DOMAIN headers, NEW s \in In(headers[m]),
         s.kind \in TypeKinds
  PROVE  Len(s.id) = 2
<1>1. m \in Modules /\ sources[m] \in Units[m] BY DEF TypeOK, DenoteInv
<1>2. PICK g \in [DOMAIN headers[m] -> Exports(sources[m])] :
        \A i \in DOMAIN headers[m] : headers[m][i] = [g[i][2] EXCEPT !.line = i]
  BY DEF DenoteInv, Written
<1>3. PICK i \in DOMAIN headers[m] : s = headers[m][i] BY DEF In
<1>4. g[i] \in Exports(sources[m]) BY <1>2, <1>3
<1>5. PICK x \in Statement :
        IsExtracted(x) /\ s.kind = Declaration(x, m, Main).kind /\ s.id = Declaration(x, m, Main).id
  BY <1>1, <1>2, <1>3, <1>4, LinesComeFromSources
<1>6. x.kind # "import" BY <1>1, <1>5, ExportsSay DEF TypeKinds
<1>7. s.id = <<m, x.id[1]>> BY <1>1, <1>5, <1>6, ExportsSay
<1> QED BY <1>7

(* A file that was generated to the end declares nothing twice.            *)
LEMMA GeneratedFilesDeclareOnce ==
  ASSUME TypeOK, SeenInv, DenoteInv, phase = "generate", pending = {}
  PROVE  DeclaredOnce(unit, file)
<1>1. /\ target \in Targets /\ unit \in Units[target] /\ file \in DOMAIN unit
  BY DEF TypeOK
<1>2. Seen = Block /\ module = target BY DEF Seen, SeenInv, ModuleIsKnown
<1> SUFFICES ASSUME NEW x \in In(unit[file]), NEW j \in DOMAIN unit, NEW y \in In(unit[j]),
                    <<j, y>> # <<file, x>>, x.kind = y.kind, x.id = y.id, Len(x.id) = 1,
                    x.id # <<Main>>
             PROVE  /\ x.kind # "func"
                    /\ x.kind = "struct" =>
                         \E z \in Statements(unit) : z.kind = "forward" /\ z.id = x.id
  BY DEF DeclaredOnce
<1>3. x \in Statement /\ y \in Statement BY <1>1, FilesOfTarget
<1>4. PICK p : p = <<<<"file", file>>, x>> OBVIOUS
<1>5. p \in Block /\ p[2] = x BY <1>4, OwnAreMerged, Second
<1>6. ASSUME IsExtracted(y)
      PROVE  \E q \in Block : /\ q # p
                              /\ q[2] = IF j = file THEN y ELSE Declaration(y, target, target)
  <2>1. CASE j = file
    <3>1. PICK q : q = <<<<"file", file>>, y>> OBVIOUS
    <3>2. q \in Block /\ q[2] = y BY <3>1, <2>1, OwnAreMerged, Second
    <3>3. y # x BY <2>1
    <3> QED BY <3>2, <3>3, <2>1, <1>5
  <2>2. CASE j # file
    <3>1. PICK q : q = <<<<"file", j>>, Declaration(y, target, target)>> OBVIOUS
    <3>2. Owner(unit[j]) = target BY <1>1, FilesOfTarget
    <3>3. Declaration(y, target, target) \in Extract(unit[j], target) BY <3>2, <1>6 DEF Extract
    <3>4. q \in Block BY <3>1, <3>3, <2>2 DEF Block, Merged, DeclarationsOf, From
    <3>5. q # p
      <4>1. q[1] = <<"file", j>> /\ p[1] = <<"file", file>> BY <3>1, <1>4, First
      <4>2. <<"file", j>>[2] = j /\ <<"file", file>>[2] = file BY Second
      <4> QED BY <4>1, <4>2, <2>2
    <3>6. q[2] = Declaration(y, target, target) BY <3>1, Second
    <3> QED BY <3>4, <3>5, <3>6, <2>2
  <2> QED BY <2>1, <2>2
<1>7. ASSUME x.kind = "func" PROVE FALSE
  <2>1. IsExtracted(y) BY <1>7 DEF IsExtracted
  <2>2. PICK q \in Block : /\ q # p
                           /\ q[2] = IF j = file THEN y ELSE Declaration(y, target, target)
    BY <2>1, <1>6
  <2>3. SymbolOf(p[2]) = Mangle(target, x.id[1]) BY <1>2, <1>5, <1>7, StatementKinds
  <2>4. q[2].kind \in {"func", "declare"} /\ SymbolOf(q[2]) = Mangle(target, x.id[1])
    <3>1. CASE j = file BY <3>1, <2>2, <1>2, <1>7, StatementKinds
    <3>2. CASE j # file
      <4>0. q[2] = Declaration(y, target, target) /\ y.kind = "func" BY <3>2, <2>2, <1>7
      <4>1. q[2].kind = "declare" /\ q[2].id = <<target, y.id[1]>>
        BY <4>0, <2>1, <1>1, <1>3, DeclarationSays
      <4>2. DeclaredSymbol(q[2].id) = Mangle(target, y.id[1]) BY <4>1 DEF DeclaredSymbol
      <4> QED BY <4>1, <4>2, StatementKinds
    <3> QED BY <3>1, <3>2
  <2>5. FunctionsOnce BY DEF SeenInv
  <2> QED BY <2>2, <2>3, <2>4, <2>5, <1>2, <1>5, <1>7 DEF FunctionsOnce
<1>8. ASSUME x.kind = "struct"
      PROVE  \E z \in Statements(unit) : z.kind = "forward" /\ z.id = x.id
  <2>1. IsExtracted(y) BY <1>8 DEF IsExtracted
  <2>2. PICK q \in Block : /\ q # p
                           /\ q[2] = IF j = file THEN y ELSE Declaration(y, target, target)
    BY <2>1, <1>6
  <2>3. q[2].kind = "struct" /\ q[2].id = x.id
    <3>1. CASE j = file BY <3>1, <2>2, <1>8
    <3>2. CASE j # file
      <4>1. q[2] = Declaration(y, target, target) /\ y.kind = "struct" /\ y.id = x.id
        BY <3>2, <2>2, <1>8
      <4> QED BY <4>1, <2>1, <1>1, <1>3, DeclarationSays, OwnNamesAreSimple DEF TypeKinds
    <3> QED BY <3>1, <3>2
  <2>4. PICK r \in Block : r[2].kind = "forward" /\ r[2].id = x.id
    BY <2>2, <2>3, <1>2, <1>5, <1>8 DEF SeenInv, StructsOnce
  <2>5. CASE \E s \in In(unit[file]) : r = <<<<"file", file>>, s>>
    <3>1. r[2] \in In(unit[file]) BY <2>5, Second
    <3> QED BY <3>1, <2>4, <1>1 DEF Statements
  <2>6. CASE \E i \in DOMAIN unit \ {file} : \E s \in In(unit[i]) :
               IsExtracted(s) /\ r[2] = Declaration(s, Owner(unit[i]), target)
    <3>1. PICK i \in DOMAIN unit \ {file} : \E s \in In(unit[i]) :
            IsExtracted(s) /\ r[2] = Declaration(s, Owner(unit[i]), target)
      BY <2>6
    <3>2. PICK s \in In(unit[i]) :
            IsExtracted(s) /\ r[2] = Declaration(s, Owner(unit[i]), target)
      BY <3>1
    <3>3. s \in Statement /\ Owner(unit[i]) = target BY <1>1, FilesOfTarget
    <3>4. s.kind \in TypeKinds
      <4>1. s.kind = "func" => r[2].kind = "declare" BY <3>2, <3>3, <1>1, DeclarationSays
      <4>2. s.kind = "import" => r[2].kind = "import" BY <3>2, <3>3, <1>1, DeclarationSays
      <4> QED BY <4>1, <4>2, <3>2, <3>3, <2>4, <1>1, DeclarationSays
    <3>5. r[2].kind = s.kind /\ r[2].id = s.id
      BY <3>2, <3>3, <3>4, <1>1, DeclarationSays, OwnNamesAreSimple
    <3>6. s \in Statements(unit) BY <3>1 DEF Statements
    <3> QED BY <3>5, <3>6, <2>4
  <2>7. CASE \E m \in Loaded(unit) : r[2] \in In(headers[m])
    BY <2>7, <2>4, LoadedHaveHeaders, HeaderTypesAreQualified DEF TypeKinds
  <2>8. CASE r = AllocDeclaration
    <3>1. r[2].kind = "extern" BY <2>8, Second DEF AllocDeclaration
    <3> QED BY <3>1, <2>4
  <2> QED BY <2>5, <2>6, <2>7, <2>8, MergedFrom DEF Block
<1> QED BY <1>7, <1>8

LEMMA DenoteIsKept ==
  ASSUME GenerateInv, DenoteInv, Next PROVE DenoteInv'
<1> DEFINE Stored(m) ==
      /\ sources[m] \in Units[m] /\ \A k \in DOMAIN sources[m] : DeclaredOnce(sources[m], k)
      /\ Written(headers[m], Exports(sources[m]))
<1>1. TypeOK /\ SeenInv /\ WritesModule BY DEF GenerateInv
<1>2. \A m \in DOMAIN headers : Stored(m) BY DEF DenoteInv
<1>3. ASSUME UNCHANGED <<headers, sources, header>>,
             phase \notin {"write", "failed"}, phase' \notin {"write", "failed"},
             phase' \in {"sorted", "generate"} =>
               \A k \in DOMAIN unit' : k < file' => DeclaredOnce(unit', k),
             phase' = "link" => \A k \in DOMAIN unit' : DeclaredOnce(unit', k)
      PROVE  DenoteInv'
  <2>1. header' = <<>> BY <1>3 DEF DenoteInv
  <2>2. \A m \in DOMAIN headers' : Stored(m)' BY <1>2, <1>3
  <2> QED BY <2>1, <2>2, <1>3 DEF DenoteInv
<1>4. ASSUME NEW why, NEW what, NEW kind, Fail(why, what, kind) PROVE DenoteInv'
  <2>1. phase' = "failed" /\ UNCHANGED <<headers, sources>> BY <1>4 DEF Fail, store
  <2>2. \A m \in DOMAIN headers' : Stored(m)' BY <1>2, <2>1
  <2> QED BY <2>1, <2>2 DEF DenoteInv
<1> HIDE DEF Stored
<1>5. \A t \in Targets : \A files \in Units[t] : DOMAIN files = 1 .. Len(files) /\ Len(files) \in Nat
  <2> SUFFICES ASSUME NEW t \in Targets, NEW files \in Units[t]
               PROVE  DOMAIN files = 1 .. Len(files) /\ Len(files) \in Nat
    OBVIOUS
  <2>1. files \in Seq(Seq(Statement)) BY DeclarationsAssumption
  <2> QED BY <2>1
<1>6. CASE \E t \in Targets : Start(t)
  <2>1. PICK t \in Targets : Start(t) BY <1>6
  <2>2. PICK files \in Units[t] : unit' = files /\ GenerateFile(files, 1, t) BY <2>1 DEF Start
  <2>3. /\ phase = "idle" /\ phase' = "sorted" /\ UNCHANGED <<headers, sources, header>>
        /\ file' = 1
    BY <2>1, <2>2 DEF Start, GenerateFile, store
  <2>4. \A k \in DOMAIN unit' : ~(k < file') BY <2>2, <2>3, <1>5
  <2> QED BY <2>3, <2>4, <1>3
<1>7. CASE EnterBlock
  <2>1. /\ phase = "sorted" /\ phase' = "generate"
        /\ UNCHANGED <<headers, sources, header, unit, file>>
    BY <1>7 DEF EnterBlock, store, build
  <2>2. \A k \in DOMAIN unit : k < file => DeclaredOnce(unit, k) BY <2>1 DEF DenoteInv
  <2> QED BY <2>1, <2>2, <1>3
<1>8. CASE Visit
  <2>1. PICK p \in Firsts(pending) :
          Effect(p[2]) \/ \E why, what : Fail(why, what, p[2].kind)
    BY <1>8, VisitOutcome
  <2>2. CASE Effect(p[2])
    <3>1. /\ phase = "generate" /\ phase' = "generate"
          /\ UNCHANGED <<headers, sources, header, unit, file>>
      BY <1>8, <2>2 DEF Visit, Effect, Continue, store, build
    <3>2. \A k \in DOMAIN unit : k < file => DeclaredOnce(unit, k) BY <3>1 DEF DenoteInv
    <3> QED BY <3>1, <3>2, <1>3
  <2> QED BY <2>1, <2>2, <1>4
<1>9. CASE EndFile
  <2>1. /\ phase = "generate" /\ pending = {} /\ UNCHANGED <<headers, sources, header>>
    BY <1>9 DEF EndFile, store
  <2>2. DeclaredOnce(unit, file) BY <2>1, <1>1, GeneratedFilesDeclareOnce
  <2>3. \A k \in DOMAIN unit : k < file => DeclaredOnce(unit, k) BY <2>1 DEF DenoteInv
  <2>4. file \in Nat /\ DOMAIN unit = 1 .. Len(unit) /\ Len(unit) \in Nat /\ file <= Len(unit)
    <3>1. target \in Targets /\ unit \in Units[target] /\ file \in DOMAIN unit
      BY <1>1, <2>1 DEF TypeOK
    <3> QED BY <3>1, <1>5
  <2>5. CASE file < Len(unit)
    <3>1. phase' = "sorted" /\ file' = file + 1 /\ unit' = unit
      BY <1>9, <2>5 DEF EndFile, GenerateFile
    <3>2. \A k \in DOMAIN unit : k < file + 1 => k < file \/ k = file BY <2>4
    <3>3. \A k \in DOMAIN unit' : k < file' => DeclaredOnce(unit', k)
      BY <3>1, <3>2, <2>2, <2>3
    <3> QED BY <3>1, <3>3, <2>1, <1>3
  <2>6. CASE ~(file < Len(unit))
    <3>1. phase' = "link" /\ unit' = unit BY <1>9, <2>6 DEF EndFile, build
    <3>2. \A k \in DOMAIN unit : k < file \/ k = file BY <2>4, <2>6
    <3>3. \A k \in DOMAIN unit' : DeclaredOnce(unit', k) BY <3>1, <3>2, <2>2, <2>3
    <3> QED BY <3>1, <3>3, <2>1, <1>3
  <2> QED BY <2>5, <2>6
<1>10. CASE Link
  <2>1. CASE Shared # {} BY <2>1, <1>4, <1>10 DEF Link
  <2>2. CASE Shared = {}
    <3>1. /\ phase = "link" /\ UNCHANGED <<headers, sources, header, unit>>
          /\ \/ phase' = "linked"
             \/ phase' = "write" /\ pending' = DeclarationsOf(unit, DOMAIN unit, Main)
      BY <2>2, <1>10 DEF Link, store, build
    <3>2. header' = <<>> BY <3>1 DEF DenoteInv
    <3>3. \A k \in DOMAIN unit' : DeclaredOnce(unit', k) BY <3>1 DEF DenoteInv
    <3>4. CASE phase' = "linked" BY <3>1, <3>4, <1>3
    <3>5. CASE phase' = "write"
      <4>1. pending' = Exports(unit') BY <3>1, <3>5 DEF Exports
      <4>2. Exports(unit') \ pending' = {} BY <4>1
      <4>3. Written(header', Exports(unit') \ pending') BY <4>2, <3>2, NothingIsWritten
      <4>4. \A m \in DOMAIN headers' : Stored(m)' BY <1>2, <3>1 DEF Stored
      <4> QED BY <4>1, <4>3, <4>4, <3>3, <3>5 DEF DenoteInv, Stored
    <3> QED BY <3>1, <3>4, <3>5
  <2> QED BY <2>1, <2>2
<1>11. CASE WriteDeclaration
  <2>1. PICK p \in Firsts(pending) :
          /\ header' = Append(header, [p[2] EXCEPT !.line = Len(header) + 1])
          /\ pending' = pending \ {p}
    BY <1>11 DEF WriteDeclaration
  <2>2. /\ phase = "write" /\ phase' = "write" /\ UNCHANGED <<headers, sources, unit>>
    BY <1>11 DEF WriteDeclaration, store, build
  <2>3. p \in pending /\ p[2] \in Statement /\ header \in Seq(Statement)
    BY <1>1 DEF Firsts, TypeOK
  <2>4. pending \subseteq Exports(unit) /\ Written(header, Exports(unit) \ pending)
    BY <2>2 DEF DenoteInv
  <2>5. Exports(unit') \ pending' = (Exports(unit) \ pending) \cup {p}
    BY <2>1, <2>2, <2>3, <2>4
  <2>6. p \notin Exports(unit) \ pending BY <2>3
  <2>7. Written(header', Exports(unit') \ pending')
    <3>1. PICK S : S = Exports(unit) \ pending OBVIOUS
    <3>2. Written(Append(header, [p[2] EXCEPT !.line = Len(header) + 1]), S \cup {p})
      BY <3>1, <2>3, <2>4, <2>6, WritingGrows
    <3> QED BY <3>1, <3>2, <2>1, <2>5
  <2>8. pending' \subseteq Exports(unit') BY <2>1, <2>2, <2>4
  <2>9. \A k \in DOMAIN unit' : DeclaredOnce(unit', k) BY <2>2 DEF DenoteInv
  <2>10. \A m \in DOMAIN headers' : Stored(m)' BY <1>2, <2>2 DEF Stored
  <2> QED BY <2>2, <2>7, <2>8, <2>9, <2>10 DEF DenoteInv, Stored
<1>12. CASE FinishModule
  <2>1. CASE header = <<>> BY <2>1, <1>4, <1>12 DEF FinishModule
  <2>2. CASE header # <<>>
    <3>1. /\ phase = "write" /\ pending = {} /\ phase' = "idle" /\ header' = <<>>
          /\ headers' = Put(headers, target, header) /\ sources' = Put(sources, target, unit)
      BY <1>12, <2>2 DEF FinishModule
    <3>2. unit \in Units[target] /\ \A k \in DOMAIN unit : DeclaredOnce(unit, k)
      BY <3>1, <1>1 DEF DenoteInv, TypeOK
    <3>3. Exports(unit) \ pending = Exports(unit) BY <3>1
    <3>4. Written(header, Exports(unit)) BY <3>1, <3>3 DEF DenoteInv
    <3>5. DOMAIN sources = DOMAIN headers BY <1>1 DEF TypeOK
    <3>6. ASSUME NEW m \in DOMAIN headers' PROVE Stored(m)'
      <4>1. CASE m = target
        <5>1. headers'[m] = header /\ sources'[m] = unit BY <4>1, <3>1 DEF Put
        <5> QED BY <5>1, <4>1, <3>2, <3>4 DEF Stored
      <4>2. CASE m # target
        <5>1. m \in DOMAIN headers /\ headers'[m] = headers[m] /\ sources'[m] = sources[m]
          BY <4>2, <3>1, <3>5, <3>6 DEF Put
        <5> QED BY <5>1, <1>2 DEF Stored
      <4> QED BY <4>1, <4>2
    <3> QED BY <3>1, <3>6 DEF DenoteInv, Stored
  <2> QED BY <2>1, <2>2
<1> QED BY <1>6, <1>7, <1>8, <1>9, <1>10, <1>11, <1>12 DEF Next

(* What was written from the sources of a module denotes them.             *)
LEMMA WrittenDenotes ==
  ASSUME TypeOK, DenoteInv, NEW m \in DOMAIN headers
  PROVE  /\ \A p \in {<<"struct", "struct">>, <<"forward", "forward">>, <<"func", "declare">>} :
              {Says(headers[m][i]) : i \in Declared(m, p[2])} = Exported(m, p[1], p[2])
         /\ SaysTwice(m, "declare") = {}
         /\ SaysTwice(m, "struct") \subseteq {headers[m][i].id : i \in Declared(m, "forward")}
         /\ Imports(headers[m]) = ImportsOf(sources[m])
<1>1. /\ m \in Modules /\ m \in Targets /\ sources[m] \in Units[m]
      /\ \A k \in DOMAIN sources[m] : DeclaredOnce(sources[m], k)
      /\ headers[m] \in Seq(Statement)
  BY DEF TypeOK, DenoteInv, Targets
<1>2. PICK g \in [DOMAIN headers[m] -> Exports(sources[m])] :
        /\ \A q \in Exports(sources[m]) : \E i \in DOMAIN headers[m] : g[i] = q
        /\ \A i, j \in DOMAIN headers[m] : g[i] = g[j] => i = j
        /\ \A i \in DOMAIN headers[m] : headers[m][i] = [g[i][2] EXCEPT !.line = i]
  BY DEF DenoteInv, Written
<1> DEFINE Source(i, k, s) ==
      /\ s \in Statement /\ IsExtracted(s)
      /\ g[i] = <<<<"file", k>>, Declaration(s, m, Main)>>
      /\ s.kind \in TypeKinds => headers[m][i].kind = s.kind
      /\ s.kind = "func" => headers[m][i].kind = "declare"
      /\ s.kind = "import" => headers[m][i].kind = "import" /\ headers[m][i].id = s.id
      /\ s.kind # "import" =>
           /\ Len(s.id) = 1 /\ s.id # <<Main>> /\ s.id = <<s.id[1]>>
           /\ headers[m][i].id = Meaning(m, s.id) /\ headers[m][i].id = <<m, s.id[1]>>
           /\ headers[m][i].uses = {Meaning(m, u) : u \in s.uses}
      /\ s.kind \in TypeKinds \cup {"func", "import"}
<1>3. ASSUME NEW i \in DOMAIN headers[m], NEW k, NEW s \in Statement, IsExtracted(s),
             g[i] = <<<<"file", k>>, Declaration(s, m, Main)>>
      PROVE  Source(i, k, s)
  <2>1. PICK d : d = Declaration(s, m, Main) OBVIOUS
  <2>2. /\ s.kind \in TypeKinds => d.kind = s.kind
        /\ s.kind = "func" => d.kind = "declare"
        /\ s.kind = "import" => d = s
        /\ s.kind # "import" => /\ Len(s.id) = 1 /\ s.id # <<Main>> /\ s.id = <<s.id[1]>>
                                /\ d.id = Meaning(m, s.id) /\ d.id = <<m, s.id[1]>>
                                /\ d.uses = {Meaning(m, u) : u \in s.uses}
        /\ s.kind \in TypeKinds \cup {"func", "import"} /\ d \in Statement
    BY <1>1, <1>3, <2>1, ExportsSay
  <2>3. g[i][2] = d BY <1>3, <2>1, Second
  <2>4. headers[m][i] = [d EXCEPT !.line = i] BY <1>2, <2>3
  <2>5. headers[m][i].kind = d.kind /\ headers[m][i].id = d.id /\ headers[m][i].uses = d.uses
    BY <2>2, <2>4 DEF Statement
  <2> QED BY <2>2, <2>5, <1>3
<1>4. ASSUME NEW i \in DOMAIN headers[m]
      PROVE  \E k \in DOMAIN sources[m] : \E s \in In(sources[m][k]) : Source(i, k, s)
  <2>1. g[i] \in Exports(sources[m]) BY <1>2
  <2>2. PICK k \in DOMAIN sources[m] : \E s \in In(sources[m][k]) :
          s \in Statement /\ IsExtracted(s) /\ g[i] = <<<<"file", k>>, Declaration(s, m, Main)>>
    BY <2>1, <1>1, ExportsFrom
  <2>3. PICK s \in In(sources[m][k]) :
          s \in Statement /\ IsExtracted(s) /\ g[i] = <<<<"file", k>>, Declaration(s, m, Main)>>
    BY <2>2
  <2> QED BY <2>3, <1>3
<1>5. ASSUME NEW k \in DOMAIN sources[m], NEW s \in In(sources[m][k]), IsExtracted(s)
      PROVE  \E i \in DOMAIN headers[m] : Source(i, k, s)
  <2>1. s \in Statement BY <1>1, FilesOfTarget
  <2>2. PICK i \in DOMAIN headers[m] : g[i] = <<<<"file", k>>, Declaration(s, m, Main)>>
    BY <1>1, <1>2, <1>5, ExportedFrom
  <2> QED BY <2>1, <2>2, <1>3, <1>5
<1> HIDE DEF Source
<1>6. ASSUME NEW kind, NEW as,
             \/ kind \in TypeKinds /\ as = kind
             \/ kind = "func" /\ as = "declare"
      PROVE  {Says(headers[m][i]) : i \in Declared(m, as)} = Exported(m, kind, as)
  <2>1. ASSUME NEW i \in Declared(m, as)
        PROVE  Says(headers[m][i]) \in Exported(m, kind, as)
    <3>1. i \in DOMAIN headers[m] /\ headers[m][i].kind = as BY <2>1 DEF Declared
    <3>2. PICK k \in DOMAIN sources[m] : \E s \in In(sources[m][k]) : Source(i, k, s)
      BY <3>1, <1>4
    <3>3. PICK s \in In(sources[m][k]) : Source(i, k, s) BY <3>2
    <3>4. s.kind = kind /\ s.kind # "import" BY <3>1, <3>3, <1>6 DEF Source, TypeKinds
    <3>5. /\ headers[m][i].id = Meaning(m, s.id)
          /\ headers[m][i].uses = {Meaning(m, u) : u \in s.uses}
          /\ Len(s.id) = 1 /\ s.id # <<Main>>
      BY <3>3, <3>4 DEF Source
    <3>6. s \in Statements(sources[m]) BY DEF Statements
    <3> QED BY <3>1, <3>4, <3>5, <3>6 DEF Says, Exported
  <2>2. ASSUME NEW e \in Exported(m, kind, as)
        PROVE  e \in {Says(headers[m][i]) : i \in Declared(m, as)}
    <3>1. PICK s \in Statements(sources[m]) :
            /\ s.kind = kind /\ Len(s.id) = 1 /\ s.id # <<Main>>
            /\ e = [kind |-> as, id |-> Meaning(m, s.id), uses |-> {Meaning(m, u) : u \in s.uses}]
      BY <2>2 DEF Exported
    <3>2. PICK k \in DOMAIN sources[m] : s \in In(sources[m][k]) BY DEF Statements
    <3>3. IsExtracted(s) BY <3>1, <1>6 DEF IsExtracted, TypeKinds
    <3>4. PICK i \in DOMAIN headers[m] : Source(i, k, s) BY <3>2, <3>3, <1>5
    <3>5. /\ headers[m][i].kind = as /\ headers[m][i].id = Meaning(m, s.id)
          /\ headers[m][i].uses = {Meaning(m, u) : u \in s.uses}
      BY <3>1, <3>4, <1>6 DEF Source, TypeKinds
    <3>6. i \in Declared(m, as) BY <3>5 DEF Declared
    <3>7. e = Says(headers[m][i]) BY <3>1, <3>5 DEF Says
    <3> QED BY <3>6, <3>7
  <2> QED BY <2>1, <2>2
<1>7. ASSUME NEW p \in {<<"struct", "struct">>, <<"forward", "forward">>, <<"func", "declare">>}
      PROVE  {Says(headers[m][i]) : i \in Declared(m, p[2])} = Exported(m, p[1], p[2])
  <2>1. \/ p[1] = "struct" /\ p[2] = "struct"
        \/ p[1] = "forward" /\ p[2] = "forward"
        \/ p[1] = "func" /\ p[2] = "declare"
    OBVIOUS
  <2> QED BY <2>1, <1>6 DEF TypeKinds
(* two lines with one name come from two statements with one name *)
<1>8. ASSUME NEW kind \in {"struct", "func"}, NEW as \in {"struct", "declare"},
             kind = "struct" <=> as = "struct",
             NEW i \in Declared(m, as), NEW j \in Declared(m, as), i # j,
             headers[m][i].id = headers[m][j].id
      PROVE  /\ kind # "func"
             /\ headers[m][i].id \in {headers[m][l].id : l \in Declared(m, "forward")}
  <2>1. /\ i \in DOMAIN headers[m] /\ headers[m][i].kind = as
        /\ j \in DOMAIN headers[m] /\ headers[m][j].kind = as
    BY <1>8 DEF Declared
  <2>2. PICK k \in DOMAIN sources[m] : \E s \in In(sources[m][k]) : Source(i, k, s)
    BY <2>1, <1>4
  <2>3. PICK s \in In(sources[m][k]) : Source(i, k, s) BY <2>2
  <2>4. PICK n \in DOMAIN sources[m] : \E s2 \in In(sources[m][n]) : Source(j, n, s2)
    BY <2>1, <1>4
  <2>5. PICK y \in In(sources[m][n]) : Source(j, n, y) BY <2>4
  <2>6. s.kind = kind /\ y.kind = kind /\ s.kind # "import" /\ y.kind # "import"
    BY <2>1, <2>3, <2>5, <1>8 DEF Source, TypeKinds
  <2>7. /\ headers[m][i].id = <<m, s.id[1]>> /\ s.id = <<s.id[1]>> /\ Len(s.id) = 1
        /\ s.id # <<Main>> /\ headers[m][i].id = Meaning(m, s.id)
        /\ headers[m][j].id = <<m, y.id[1]>> /\ y.id = <<y.id[1]>>
    BY <2>3, <2>5, <2>6 DEF Source
  <2>8. s.id = y.id
    <3>1. <<m, s.id[1]>>[2] = s.id[1] /\ <<m, y.id[1]>>[2] = y.id[1] BY Second
    <3>2. s.id[1] = y.id[1] BY <3>1, <2>7, <1>8
    <3> QED BY <3>2, <2>7
  <2>9. <<n, y>> # <<k, s>>
    <3>1. ASSUME <<n, y>> = <<k, s>> PROVE FALSE
      <4>1. n = k /\ y = s BY <3>1, First, Second
      <4>2. g[i] = g[j] BY <4>1, <2>3, <2>5 DEF Source
      <4> QED BY <4>2, <2>1, <1>2, <1>8
    <3> QED BY <3>1
  <2>10. /\ s.kind # "func"
         /\ s.kind = "struct" =>
              \E z \in Statements(sources[m]) : z.kind = "forward" /\ z.id = s.id
    BY <2>6, <2>7, <2>8, <2>9, <1>1 DEF DeclaredOnce
  <2>11. PICK z \in Statements(sources[m]) : z.kind = "forward" /\ z.id = s.id
    BY <2>6, <2>10
  <2>12. PICK o \in DOMAIN sources[m] : z \in In(sources[m][o]) BY DEF Statements
  <2>13. IsExtracted(z) BY <2>7, <2>11 DEF IsExtracted
  <2>14. PICK l \in DOMAIN headers[m] : Source(l, o, z) BY <2>12, <2>13, <1>5
  <2>15. headers[m][l].kind = "forward" /\ headers[m][l].id = Meaning(m, s.id)
    BY <2>11, <2>14 DEF Source, TypeKinds
  <2>16. l \in Declared(m, "forward") /\ headers[m][l].id = headers[m][i].id
    BY <2>7, <2>15 DEF Declared
  <2> QED BY <2>6, <2>10, <2>16
<1>9. SaysTwice(m, "declare") = {}
  <2> SUFFICES ASSUME NEW id \in SaysTwice(m, "declare") PROVE FALSE OBVIOUS
  <2>1. PICK i \in Declared(m, "declare") :
          \E j \in Declared(m, "declare") : j # i /\ headers[m][j].id = headers[m][i].id
    BY DEF SaysTwice
  <2> QED BY <2>1, <1>8
<1>10. ASSUME NEW id \in SaysTwice(m, "struct")
       PROVE  id \in {headers[m][i].id : i \in Declared(m, "forward")}
  <2>1. PICK i \in Declared(m, "struct") :
          /\ id = headers[m][i].id
          /\ \E j \in Declared(m, "struct") : j # i /\ headers[m][j].id = headers[m][i].id
    BY <1>10 DEF SaysTwice
  <2> QED BY <2>1, <1>8
<1>11. Imports(headers[m]) = ImportsOf(sources[m])
  <2>1. ASSUME NEW n \in Imports(headers[m]) PROVE n \in ImportsOf(sources[m])
    <3>1. PICK x \in In(headers[m]) : x.kind = "import" /\ n = x.id[1] BY <2>1 DEF Imports
    <3>2. PICK i \in DOMAIN headers[m] : x = headers[m][i] BY <3>1 DEF In
    <3>3. PICK k \in DOMAIN sources[m] : \E s \in In(sources[m][k]) : Source(i, k, s)
      BY <3>2, <1>4
    <3>4. PICK s \in In(sources[m][k]) : Source(i, k, s) BY <3>3
    <3>5. s.kind = "import" /\ s.id = x.id BY <3>1, <3>2, <3>4 DEF Source, TypeKinds
    <3>6. n \in Imports(sources[m][k]) BY <3>1, <3>5 DEF Imports
    <3> QED BY <3>6 DEF ImportsOf
  <2>2. ASSUME NEW n \in ImportsOf(sources[m]) PROVE n \in Imports(headers[m])
    <3>1. PICK k \in DOMAIN sources[m] : n \in Imports(sources[m][k]) BY <2>2 DEF ImportsOf
    <3>2. PICK s \in In(sources[m][k]) : s.kind = "import" /\ n = s.id[1] BY <3>1 DEF Imports
    <3>3. PICK i \in DOMAIN headers[m] : Source(i, k, s) BY <3>2, <1>5 DEF IsExtracted
    <3>4. headers[m][i].kind = "import" /\ headers[m][i].id = s.id BY <3>2, <3>3 DEF Source
    <3>5. headers[m][i] \in In(headers[m]) BY DEF In
    <3> QED BY <3>2, <3>4, <3>5 DEF Imports
  <2> QED BY <2>1, <2>2
<1> QED BY <1>7, <1>9, <1>10, <1>11

LEMMA Denotes == Spec => []DenoteInv
<1>1. Init => DenoteInv BY DEF Init, DenoteInv
<1>2. GenerateInv /\ DenoteInv /\ [Next]_vars => DenoteInv'
  <2> SUFFICES ASSUME GenerateInv, DenoteInv, [Next]_vars PROVE DenoteInv' OBVIOUS
  <2>1. CASE Next BY <2>1, DenoteIsKept
  <2>2. CASE UNCHANGED vars BY <2>2 DEF vars, store, build, DenoteInv
  <2> QED BY <2>1, <2>2
<1> QED BY <1>1, <1>2, Generates, PTL DEF Spec

(* For all files of all modules: the header of a module says everything    *)
(* its sources declare for others, and nothing else, with names that mean  *)
(* the same outside (ASTDeclarationExtractor, CompilerModuleBuilder).      *)
THEOREM HeadersDenoteSources == Spec => []HeaderDenotesSources
<1>1. GenerateInv /\ DenoteInv => HeaderDenotesSources
  BY WrittenDenotes DEF GenerateInv, HeaderDenotesSources
<1> QED BY <1>1, Generates, Denotes, PTL

-----------------------------------------------------------------------------
(* Files that stand alone                                                  *)

Own(i) == <<<<"file", 1>>, unit[1][i]>>

(* Only its own statements and the allocator are in the block of a file    *)
(* that stands alone.                                                      *)
LEMMA AloneBlock ==
  ASSUME TypeOK, phase # "idle", StandsAlone
  PROVE  /\ file = 1 /\ DOMAIN unit = {1} /\ Loaded(unit) = {} /\ ~Displaced
         /\ target \in Targets /\ unit \in Units[target] /\ 1 \in DOMAIN unit
         /\ \A q \in Block : q = AllocDeclaration \/ \E i \in DOMAIN unit[1] : q = Own(i)
         /\ \A i \in DOMAIN unit[1] : Own(i) \in Block /\ Own(i)[2] = unit[1][i]
<1>1. target \in Targets /\ unit \in Units[target] /\ file \in DOMAIN unit BY DEF TypeOK
<1>2. unit \in Seq(Seq(Statement)) /\ Len(unit) = 1 /\ ImportsOf(unit) = {}
  BY <1>1, DeclarationsAssumption DEF StandsAlone
<1>3. DOMAIN unit = {1} /\ file = 1 BY <1>1, <1>2
<1>4. Loaded(unit) = {}
  <2> SUFFICES ASSUME NEW m \in Loaded(unit) PROVE FALSE OBVIOUS
  <2>1. \A S \in SUBSET DOMAIN headers :
          (ImportsOf(unit) \subseteq S /\ \A n \in S : Imports(headers[n]) \subseteq S) => m \in S
    BY DEF Loaded
  <2>2. {} \in SUBSET DOMAIN headers OBVIOUS
  <2>3. m \in {} BY <2>1, <2>2, <1>2
  <2> QED BY <2>3
<1>5. ~Displaced
  <2>1. \A k \in DOMAIN OtherFiles : OtherFiles[k] = <<>> BY <1>3 DEF OtherFiles
  <2>2. In(<<>>) = {} BY DEF In
  <2>3. Statements(OtherFiles) = {} BY <2>1, <2>2 DEF Statements
  <2>4. Around = {} BY <2>3, <1>4 DEF Around
  <2> QED BY <2>4 DEF Displaced
<1>6. ASSUME NEW q \in Block
      PROVE  q = AllocDeclaration \/ \E i \in DOMAIN unit[1] : q = Own(i)
  <2>1. CASE \E s \in In(unit[file]) : q = <<<<"file", file>>, s>>
    <3>1. PICK i \in DOMAIN unit[file] : q = <<<<"file", file>>, unit[file][i]>>
      BY <2>1 DEF In
    <3>2. q = Own(i) /\ i \in DOMAIN unit[1] BY <3>1, <1>3 DEF Own
    <3> QED BY <3>2
  <2>2. CASE \E j \in DOMAIN unit \ {file} : \E s \in In(unit[j]) :
               IsExtracted(s) /\ q[2] = Declaration(s, Owner(unit[j]), target)
    BY <2>2, <1>3
  <2>3. CASE \E m \in Loaded(unit) : q[2] \in In(headers[m]) BY <2>3, <1>4
  <2>4. CASE q = AllocDeclaration BY <2>4
  <2> QED BY <2>1, <2>2, <2>3, <2>4, MergedFrom DEF Block
<1>7. ASSUME NEW i \in DOMAIN unit[1] PROVE Own(i) \in Block /\ Own(i)[2] = unit[1][i]
  <2>1. unit[1][i] \in In(unit[file]) BY <1>3 DEF In
  <2>2. Own(i) = <<<<"file", file>>, unit[1][i]>> BY <1>3 DEF Own
  <2> QED BY <2>1, <2>2, OwnAreMerged, Second
<1> QED BY <1>1, <1>3, <1>4, <1>5, <1>6, <1>7

(* What it is for a file to be legal, statement by statement               *)
LEMMA LegalStatements ==
  ASSUME NEW t \in Targets, NEW f, IsFile(t, f), LegalAsWritten(f), NEW i \in DOMAIN f
  PROVE  /\ f[i] \in Statement /\ f[i].kind # "declare" /\ f[i].id # <<Alloc>> /\ Len(f[i].id) = 1
         /\ \A u \in f[i].uses : \/ f[i].kind = "struct" /\ u = f[i].id
                                 \/ \E j \in DOMAIN f : /\ j < i /\ f[j].kind \in TypeKinds
                                                        /\ f[j].id = u
         /\ \A c \in f[i].calls :
              /\ c # <<Main>>
              /\ \E j \in DOMAIN f : /\ j <= i /\ f[j].kind \in {"struct", "func", "extern"}
                                     /\ (j = i => f[i].kind = "func") /\ f[j].id = c
         /\ \A j \in DOMAIN f :
              (/\ j < i /\ f[j].id = f[i].id
               /\ f[i].kind \in {"struct", "forward", "func", "extern"}
               /\ f[j].kind \in {"struct", "forward", "func", "extern"}) =>
                f[j].kind = "forward" /\ f[i].kind \in TypeKinds
         /\ \A j \in DOMAIN f : j < i => f[j].line < f[i].line
         /\ i \in Nat /\ f[i].line \in Nat
<1>1. f \in Seq(Statement) /\ \A j \in DOMAIN f : j < i => f[j].line < f[i].line BY DEF IsFile
<1>2. /\ i \in Nat /\ i \in 1 .. Len(f) /\ f[i] \in Statement /\ DOMAIN f = 1 .. Len(f)
      /\ \A j : j \in 1 .. i - 1 <=> (j \in DOMAIN f /\ j < i)
  BY <1>1
<1> DEFINE before(kinds) == {f[j].id : j \in {k \in 1 .. i - 1 : f[k].kind \in kinds}}
<1>3. /\ f[i].kind # "declare" /\ f[i].id # <<Alloc>> /\ Len(f[i].id) = 1
      /\ f[i].kind \in {"struct", "forward"} =>
           f[i].id \notin before({"struct", "func", "extern"})
      /\ f[i].kind \in {"func", "extern"} =>
           f[i].id \notin before({"struct", "forward", "func", "extern"})
      /\ f[i].uses \subseteq before({"struct", "forward"})
           \cup (IF f[i].kind = "struct" THEN {f[i].id} ELSE {})
      /\ f[i].calls \subseteq (before({"struct", "func", "extern"})
           \cup (IF f[i].kind = "func" THEN {f[i].id} ELSE {})) \ {<<Main>>}
  BY DEF LegalAsWritten
<1>4. \A kinds, id : id \in before(kinds) <=>
        \E j \in DOMAIN f : j < i /\ f[j].kind \in kinds /\ f[j].id = id
  BY <1>2
<1> HIDE DEF before
<1>5. \A u \in f[i].uses : \/ f[i].kind = "struct" /\ u = f[i].id
                           \/ \E j \in DOMAIN f : j < i /\ f[j].kind \in TypeKinds /\ f[j].id = u
  BY <1>3, <1>4 DEF TypeKinds
<1>6. ASSUME NEW c \in f[i].calls
      PROVE  /\ c # <<Main>>
             /\ \E j \in DOMAIN f : /\ j <= i /\ f[j].kind \in {"struct", "func", "extern"}
                                    /\ (j = i => f[i].kind = "func") /\ f[j].id = c
  <2>1. c # <<Main>> BY <1>3
  <2>2. CASE c \in before({"struct", "func", "extern"})
    <3>1. PICK j \in DOMAIN f :
            j < i /\ f[j].kind \in {"struct", "func", "extern"} /\ f[j].id = c
      BY <2>2, <1>4
    <3>2. j <= i /\ j # i BY <3>1, <1>2
    <3> QED BY <2>1, <3>1, <3>2
  <2>3. CASE f[i].kind = "func" /\ c = f[i].id BY <2>1, <2>3, <1>2
  <2> QED BY <2>2, <2>3, <1>3
<1>7. ASSUME NEW j \in DOMAIN f, j < i, f[j].id = f[i].id,
             f[i].kind \in {"struct", "forward", "func", "extern"},
             f[j].kind \in {"struct", "forward", "func", "extern"}
      PROVE  f[j].kind = "forward" /\ f[i].kind \in TypeKinds
  BY <1>3, <1>4, <1>7 DEF TypeKinds
<1>8. f[i].line \in Nat BY <1>2 DEF Statement
<1> QED BY <1>1, <1>2, <1>3, <1>5, <1>6, <1>7, <1>8

(* Names of a legal file: two statements that declare one name are types,  *)
(* and the first of them is a forward declaration.                         *)
LEMMA NamedOnce ==
  ASSUME NEW t \in Targets, NEW f, IsFile(t, f), LegalAsWritten(f),
         NEW i \in DOMAIN f, NEW j \in DOMAIN f, i # j, f[i].id = f[j].id,
         f[i].kind \in {"struct", "forward", "func", "extern"},
         f[j].kind \in {"struct", "forward", "func", "extern"}
  PROVE  /\ f[i].kind \in TypeKinds /\ f[j].kind \in TypeKinds
         /\ f[i].kind = "struct" => f[j].kind = "forward" /\ j < i
<1>1. i \in Nat /\ j \in Nat BY LegalStatements
<1>2. CASE j < i
  <2>1. f[j].kind = "forward" /\ f[i].kind \in TypeKinds BY <1>2, LegalStatements
  <2> QED BY <2>1, <1>2 DEF TypeKinds
<1>3. CASE i < j
  <2>1. f[i].kind = "forward" /\ f[j].kind \in TypeKinds BY <1>3, LegalStatements
  <2> QED BY <2>1 DEF TypeKinds
<1> QED BY <1>1, <1>2, <1>3

(* Different functions of a file have different symbols, and no constructor *)
(* or C function has one of theirs.                                        *)
LEMMA SymbolsDiffer ==
  ASSUME NEW m \in Targets, NEW x \in Names \cup {Main}
  PROVE  /\ \A y \in Names \cup {Main} : Mangle(m, y) = Mangle(m, x) => y = x
         /\ \A y \in Names \cup {Alloc} : Mangle(m, x) # <<y>>
         /\ \A y \in Names : Mangle(m, x) # Constructor(m, <<y>>)
<1>1. Main \notin Names /\ Alloc # Main BY DeclarationsAssumption DEF Targets
<1>2. CASE x = Main
  <2>1. Mangle(m, x) = <<Main>> BY <1>2 DEF Mangle
  <2>2. ASSUME NEW y \in Names \cup {Main}, Mangle(m, y) = Mangle(m, x) PROVE y = x
    <3>1. y # Main => Mangle(m, y) = <<m, y>> BY DEF Mangle
    <3>2. <<m, y>> # <<Main>>
      <4>1. Len(<<m, y>>) = 2 /\ Len(<<Main>>) = 1 OBVIOUS
      <4> QED BY <4>1
    <3> QED BY <3>1, <3>2, <2>1, <2>2, <1>2
  <2>3. ASSUME NEW y \in Names \cup {Alloc} PROVE Mangle(m, x) # <<y>>
    <3>1. <<y>>[1] = y /\ <<Main>>[1] = Main OBVIOUS
    <3> QED BY <3>1, <2>1, <1>1
  <2>4. ASSUME NEW y \in Names PROVE Mangle(m, x) # Constructor(m, <<y>>)
    <3>1. Constructor(m, <<y>>) = <<m, y>> \o <<"constructor">> BY Pair DEF Constructor
    <3>2. Len(<<m, y>> \o <<"constructor">>) = 3 /\ Len(<<Main>>) = 1 OBVIOUS
    <3> QED BY <3>1, <3>2, <2>1
  <2> QED BY <2>2, <2>3, <2>4
<1>3. CASE x # Main
  <2>1. Mangle(m, x) = <<m, x>> BY <1>3 DEF Mangle
  <2>2. Len(<<m, x>>) = 2 OBVIOUS
  <2>3. ASSUME NEW y \in Names \cup {Main}, Mangle(m, y) = Mangle(m, x) PROVE y = x
    <3>1. CASE y = Main
      <4>1. Mangle(m, y) = <<Main>> /\ Len(<<Main>>) = 1 BY <3>1 DEF Mangle
      <4> QED BY <4>1, <2>1, <2>2, <2>3
    <3>2. CASE y # Main
      <4>1. Mangle(m, y) = <<m, y>> BY <3>2 DEF Mangle
      <4>2. <<m, y>>[2] = y /\ <<m, x>>[2] = x BY Second
      <4> QED BY <4>1, <4>2, <2>1, <2>3
    <3> QED BY <3>1, <3>2
  <2>4. ASSUME NEW y PROVE Mangle(m, x) # <<y>>
    <3>1. Len(<<y>>) = 1 OBVIOUS
    <3> QED BY <3>1, <2>1, <2>2
  <2>5. ASSUME NEW y \in Names PROVE Mangle(m, x) # Constructor(m, <<y>>)
    <3>1. Constructor(m, <<y>>) = <<m, y>> \o <<"constructor">> BY Pair DEF Constructor
    <3>2. Len(<<m, y>> \o <<"constructor">>) = 3 OBVIOUS
    <3> QED BY <3>1, <3>2, <2>1, <2>2
  <2> QED BY <2>3, <2>4, <2>5
<1> QED BY <1>2, <1>3

(* Nothing is refused in a legal file that stands alone.                   *)
LEMMA LegalIsNotRefused ==
  ASSUME GenerateInv, AllocatorIsReady, phase = "generate", StandsAlone,
         LegalAsWritten(unit[1]), NEW p \in Firsts(pending), NEW why, NEW what,
         Reason(p[2], why, what)
  PROVE  FALSE
<1>1. TypeOK /\ OrderInv /\ SeenInv BY DEF GenerateInv
<1>2. /\ file = 1 /\ DOMAIN unit = {1} /\ ~Displaced
      /\ target \in Targets /\ unit \in Units[target] /\ 1 \in DOMAIN unit
      /\ \A q \in Block : q = AllocDeclaration \/ \E i \in DOMAIN unit[1] : q = Own(i)
      /\ \A i \in DOMAIN unit[1] : Own(i) \in Block /\ Own(i)[2] = unit[1][i]
  BY <1>1, AloneBlock
<1>3. PICK f : f = unit[1] OBVIOUS
<1>4. target \in Targets /\ IsFile(target, f) /\ LegalAsWritten(f)
  BY <1>2, <1>3, DeclarationsAssumption
<1>5. p \in pending /\ p \in Block /\ p \notin Seen BY <1>1 DEF Firsts, SeenInv, Seen
<1>6. \A q \in pending : ~Before(q[2], p[2]) BY DEF Firsts
<1>7. \A i \in DOMAIN f : Own(i) \in Block /\ Own(i)[2] = f[i] BY <1>2, <1>3
<1>8. AllocDeclaration[2].kind = "extern" /\ AllocDeclaration[2].uses = {}
  BY Second DEF AllocDeclaration
<1>9. p[2].kind # "module"
  <2>1. ~(\E q \in pending : q[2].kind = "module")
    BY <1>1, <1>2 DEF OrderInv, ModuleIsFirstOrDisplaced
  <2> QED BY <2>1, <1>5
<1>10. p # AllocDeclaration
  BY <1>8, <1>9 DEF Reason
<1>11. PICK i \in DOMAIN f : p = Own(i) BY <1>2, <1>3, <1>5, <1>10
<1>12. p[2] = f[i] /\ f[i] \in Statement BY <1>4, <1>7, <1>11, LegalStatements
(* what goes before p in the file and in the order has been seen *)
<1>13. ASSUME NEW j \in DOMAIN f, j < i, Priority(f[j]) = Priority(f[i]) PROVE Own(j) \in Seen
  <2>1. f[j].line < f[i].line BY <1>4, <1>13, LegalStatements
  <2>2. Before(f[j], f[i]) BY <2>1, <1>13 DEF Before
  <2>3. Own(j) \notin pending BY <2>2, <1>6, <1>7, <1>12
  <2> QED BY <2>3, <1>7 DEF Seen
<1>14. ASSUME NEW q \in Seen
       PROVE  q = AllocDeclaration \/ \E j \in DOMAIN f : q = Own(j) /\ j # i
  <2>1. q \in Block /\ q # p BY <1>5 DEF Seen
  <2> QED BY <2>1, <1>2, <1>3, <1>11
<1>15. \A q \in Seen : q[2].kind \in TypeKinds => q[2].id \in DOMAIN types
  BY <1>1 DEF SeenInv, TypesAreSeen
<1>16. CASE p[2].kind = "struct"
  <2>1. CASE HasMembers(p[2].id)
    <3>1. PICK q \in Seen : q[2].kind = "struct" /\ q[2].id = p[2].id
      BY <2>1, <1>1 DEF HasMembers, SeenInv, MembersAreSeen
    <3>2. PICK j \in DOMAIN f : q = Own(j) /\ j # i BY <3>1, <1>8, <1>14
    <3>3. f[j].kind = "struct" /\ f[i].kind = "struct" /\ f[j].id = f[i].id
      BY <3>1, <3>2, <1>7, <1>12, <1>16
    <3>4. f[i].kind = "struct" => f[j].kind = "forward"
      BY <3>2, <3>3, <1>4, NamedOnce
    <3> QED BY <3>3, <3>4
  <2>2. ASSUME what \in p[2].uses \ (DOMAIN types \cup {p[2].id}) PROVE FALSE
    <3>1. PICK j \in DOMAIN f : j < i /\ f[j].kind \in TypeKinds /\ f[j].id = what
      BY <2>2, <1>4, <1>12, LegalStatements
    <3>2. f[j] \in Statement BY <1>4, LegalStatements
    <3>3. Priority(f[j]) = 2 /\ Priority(f[i]) = 2
      BY <3>1, <3>2, <1>12, <1>16, Priorities DEF TypeKinds
    <3>4. Own(j) \in Seen BY <3>1, <3>3, <1>13
    <3>5. what \in DOMAIN types BY <3>1, <3>4, <1>7, <1>15
    <3> QED BY <3>5, <2>2
  <2>3. <<Alloc>> \in symbols BY <1>16, AllocatorPrecedesTypes DEF AllocatorIsReady
  <2> QED BY <2>1, <2>2, <2>3, <1>16 DEF Reason
<1>17. CASE p[2].kind \in {"extern", "declare", "func"}
  <2>1. DOMAIN types = TypesAround
    <3>1. p[2].id # <<Alloc>> BY <1>4, <1>12, LegalStatements
    <3> QED BY <3>1, <1>1, <1>17, TypesComeFirst
  <2>2. ASSUME NEW q \in Block, q[2].kind \in TypeKinds PROVE q[2].id \in DOMAIN types
    BY <2>1, <2>2, <1>1, TypesOfBlock
  <2>3. ASSUME what \in p[2].uses \ DOMAIN types PROVE FALSE
    <3>1. PICK j \in DOMAIN f : f[j].kind \in TypeKinds /\ f[j].id = what
      BY <2>3, <1>4, <1>12, <1>17, LegalStatements
    <3>2. what \in DOMAIN types BY <3>1, <2>2, <1>7
    <3> QED BY <3>2, <2>3
  <2>4. ASSUME p[2].kind = "func" PROVE FALSE
    <3>1. /\ module = target
          /\ \A q \in Block : q[2].kind \in {"extern", "declare", "struct"} =>
               SymbolOf(q[2]) \in symbols
      BY <2>4, <1>1, FunctionsComeLast
    <3>2. ASSUME NEW j \in DOMAIN f, f[j].kind = "func"
          PROVE  /\ SymbolOf(f[j]) = Mangle(target, f[j].id[1])
                 /\ f[j].id[1] \in Names \cup {Main} /\ f[j].id = <<f[j].id[1]>>
      <4>1. f[j].id \in Simple(Names \cup {Main})
        BY <3>2, <1>4, LegalStatements DEF Statement, Named
      <4> QED BY <4>1, <3>1, <3>2, StatementKinds DEF Simple
    <3>3. SymbolOf(f[i]) \notin symbols
      <4> SUFFICES ASSUME SymbolOf(f[i]) \in symbols PROVE FALSE OBVIOUS
      <4>1. PICK q \in Seen : q[2].kind \in SymbolKinds /\ SymbolOf(q[2]) = SymbolOf(f[i])
        BY <1>1 DEF SeenInv, SymbolsAreSeen
      <4>2. /\ SymbolOf(f[i]) = Mangle(target, f[i].id[1]) /\ f[i].id[1] \in Names \cup {Main}
            /\ f[i].id = <<f[i].id[1]>>
        BY <3>2, <2>4, <1>12
      <4>3. CASE q[2].kind = "extern"
        <5>1. q[2].id \in Simple(Names \cup {Alloc})
          <6>1. q[2] \in Statement BY <1>1, <1>2, MergedAreStatements DEF Seen, Block
          <6> QED BY <6>1, <4>3 DEF Statement, Named
        <5>2. PICK y \in Names \cup {Alloc} : q[2].id = <<y>> BY <5>1 DEF Simple
        <5>3. SymbolOf(q[2]) = <<y>> BY <5>2, <4>3, StatementKinds
        <5> QED BY <5>2, <5>3, <4>1, <4>2, <1>2, SymbolsDiffer
      <4>4. ASSUME q[2].kind # "extern"
            PROVE  \E j \in DOMAIN f : j # i /\ q[2] = f[j] /\ f[j] \in Statement
                                       /\ Len(f[j].id) = 1 /\ f[j].kind # "declare"
        <5>1. PICK j \in DOMAIN f : q = Own(j) /\ j # i BY <4>4, <1>8, <1>14
        <5> QED BY <5>1, <1>4, <1>7, LegalStatements
      <4>5. CASE q[2].kind = "struct"
        <5>1. q[2] \in Statement /\ Len(q[2].id) = 1 BY <4>4, <4>5
        <5>2. q[2].id \in TypeIds /\ q[2].id \in Ids BY <5>1, <4>5 DEF Statement, Named
        <5>3. q[2].id \in Simple(Names)
          <6>1. \A id \in Targets \X Names : Len(id) = 2 OBVIOUS
          <6> QED BY <6>1, <5>1, <5>2 DEF TypeIds
        <5>4. PICK y \in Names : q[2].id = <<y>> BY <5>3 DEF Simple
        <5>5. SymbolOf(q[2]) = Constructor(target, <<y>>) BY <5>4, <4>5, <3>1, StatementKinds
        <5> QED BY <5>4, <5>5, <4>1, <4>2, <1>2, SymbolsDiffer
      <4>6. CASE q[2].kind = "func"
        <5>1. PICK j \in DOMAIN f : j # i /\ q[2] = f[j] BY <4>4, <4>6
        <5>2. f[j].kind = "func" /\ f[i].kind = "func" BY <5>1, <4>6, <2>4, <1>12
        <5>3. /\ SymbolOf(f[j]) = Mangle(target, f[j].id[1])
              /\ f[j].id[1] \in Names \cup {Main} /\ f[j].id = <<f[j].id[1]>>
          BY <5>2, <3>2
        <5>4. f[j].id[1] = f[i].id[1] BY <5>1, <5>3, <4>1, <4>2, <1>2, SymbolsDiffer
        <5>5. f[i].id = f[j].id BY <5>3, <5>4, <4>2
        <5>6. f[i].kind \in TypeKinds BY <5>1, <5>2, <5>5, <1>4, NamedOnce
        <5> QED BY <5>2, <5>6 DEF TypeKinds
      <4>7. q[2].kind # "declare" BY <4>4
      <4> QED BY <4>1, <4>3, <4>5, <4>6, <4>7 DEF SymbolKinds
    <3>4. ASSUME NEW c \in f[i].calls
          PROVE  Resolve(c, KnownTo(f[i])) \in KnownTo(f[i]) /\ Callable(c)
      <4>1. PICK known : known = KnownTo(f[i]) OBVIOUS
      <4>2. symbols \subseteq known /\ SymbolOf(f[i]) \in known BY <4>1 DEF KnownTo
      <4>3. c # <<Main>> BY <1>4, LegalStatements
      <4>4. PICK j \in DOMAIN f : /\ j <= i /\ f[j].kind \in {"struct", "func", "extern"}
                                  /\ (j = i => f[i].kind = "func") /\ f[j].id = c
        BY <1>4, LegalStatements
      <4>5. /\ f[j] \in Statement /\ Len(c) = 1 /\ c # <<Alloc>> /\ j \in Nat /\ i \in Nat
        BY <4>4, <1>4, LegalStatements
      <4>6. c = <<c[1]>>
        <5>1. c \in Ids BY <4>4, <4>5 DEF Statement
        <5> QED BY <5>1, <4>5, IdsAreNames
      <4>7. Callable(c) BY <4>3, <4>5, <4>6 DEF Callable
      <4>8. CASE f[j].kind = "struct"
        <5>1. Own(j) \in Block /\ Own(j)[2].kind = "struct" /\ Own(j)[2].id = c
          BY <4>4, <4>8, <1>7
        <5>2. c \in DOMAIN types BY <5>1, <2>2 DEF TypeKinds
        <5>3. Constructor(module, c) \in known BY <5>1, <4>2, <3>1, StatementKinds
        <5> QED BY <5>2, <5>3, <4>1, <4>5, <4>7, Resolving
      <4>9. CASE f[j].kind \in {"func", "extern"}
        <5>1. c \notin DOMAIN types
          <6> SUFFICES ASSUME c \in DOMAIN types PROVE FALSE OBVIOUS
          <6>1. PICK q \in Block : q[2].kind \in TypeKinds /\ q[2].id = c
            BY <2>1, <1>1, TypesOfBlock
          <6>2. PICK l \in DOMAIN f : q = Own(l) BY <6>1, <1>2, <1>3, <1>8 DEF TypeKinds
          <6>3. f[l].kind \in TypeKinds /\ f[l].id = f[j].id BY <6>1, <6>2, <4>4, <1>7
          <6>4. l # j BY <6>3, <4>9 DEF TypeKinds
          <6>5. f[j].kind \in TypeKinds BY <6>3, <6>4, <4>9, <1>4, NamedOnce DEF TypeKinds
          <6> QED BY <6>5, <4>9 DEF TypeKinds
        <5>2. CASE f[j].kind = "func"
          <6>1. SymbolOf(f[j]) \in known
            <7>1. CASE j = i BY <7>1, <4>2
            <7>2. CASE j # i
              <8>1. j < i BY <7>2, <4>4, <4>5
              <8>2. Priority(f[j]) = 10 /\ Priority(f[i]) = 10
                BY <5>2, <4>5, <2>4, <1>12, Priorities
              <8>3. Own(j) \in Seen BY <8>1, <8>2, <1>13
              <8>4. SymbolOf(f[j]) \in symbols
                BY <8>3, <5>2, <1>1, <1>7 DEF SeenInv, SymbolsAreSeen, SymbolKinds
              <8> QED BY <8>4, <4>2
            <7> QED BY <7>1, <7>2
          <6>2. SymbolOf(f[j]) = Mangle(module, c[1]) BY <5>2, <4>4, <3>1, <3>2
          <6> QED BY <6>1, <6>2, <5>1, <4>1, <4>5, <4>7, Resolving
        <5>3. CASE f[j].kind = "extern"
          <6>1. Own(j) \in Block /\ Own(j)[2] = f[j] BY <1>7
          <6>2. c \in known BY <6>1, <5>3, <4>2, <4>4, <3>1, StatementKinds
          <6>3. Resolve(c, known) = IF Mangle(module, c[1]) \in known
                                    THEN Mangle(module, c[1]) ELSE c
            BY <5>1, <4>5, Resolving
          <6> QED BY <6>2, <6>3, <4>1, <4>7
        <5> QED BY <5>2, <5>3, <4>9
      <4> QED BY <4>4, <4>8, <4>9
    <3> QED BY <3>3, <3>4, <2>3, <2>4, <1>12 DEF Reason
  <2> QED BY <2>3, <2>4, <1>17 DEF Reason
<1> QED BY <1>9, <1>16, <1>17 DEF Reason

(* One file is linked with nothing else.                                   *)
LEMMA OneFileSharesNothing ==
  ASSUME TypeOK, phase # "idle", StandsAlone PROVE Shared = {}
<1>1. DOMAIN unit = {1} /\ Loaded(unit) = {} BY AloneBlock
<1>2. DOMAIN objects = {1} BY <1>1 DEF TypeOK
<1>3. DOMAIN Linked = {<<"file", 1>>} BY <1>1, <1>2 DEF Linked, From
<1> SUFFICES ASSUME NEW x \in Shared PROVE FALSE OBVIOUS
<1>4. Cardinality(Definers(x)) > 1 /\ Definers(x) \subseteq {<<"file", 1>>}
  BY <1>3 DEF Shared, Definers
<1>5. CASE Definers(x) = {} BY <1>4, <1>5, FS_EmptySet
<1>6. CASE Definers(x) = {<<"file", 1>>}
  <2>1. Cardinality(Definers(x)) = 1 BY <1>6, FS_Singleton
  <2> QED BY <2>1, <1>4
<1> QED BY <1>4, <1>5, <1>6

(* When only functions are left every struct has its members.              *)
LEMMA StructsKeepMembers ==
  ASSUME GenerateInv, phase = "generate", StandsAlone, LegalAsWritten(unit[1]),
         \A p \in pending : p[2].kind = "func",
         NEW i \in DOMAIN unit[1], unit[1][i].kind = "struct"
  PROVE  HasMembers(unit[1][i].id)
<1>1. TypeOK /\ SeenInv BY DEF GenerateInv
<1>2. /\ target \in Targets /\ unit \in Units[target] /\ 1 \in DOMAIN unit
      /\ \A q \in Block : q = AllocDeclaration \/ \E j \in DOMAIN unit[1] : q = Own(j)
      /\ \A j \in DOMAIN unit[1] : Own(j) \in Block /\ Own(j)[2] = unit[1][j]
  BY <1>1, AloneBlock
<1>3. PICK f : f = unit[1] OBVIOUS
<1>4. target \in Targets /\ IsFile(target, f) /\ LegalAsWritten(f)
  BY <1>2, <1>3, DeclarationsAssumption
<1>5. Own(i) \in Seen /\ Own(i)[2] = f[i] /\ f[i].kind = "struct" BY <1>2, <1>3 DEF Seen
<1>6. f[i].id \in DOMAIN types BY <1>1, <1>5 DEF SeenInv, TypesAreSeen, TypeKinds
<1>7. ASSUME NEW r \in Seen, Reopens(r, Own(i)) PROVE FALSE
  <2>1. r[2].kind = "forward" /\ r[2].id = f[i].id /\ ~Before(r[2], f[i])
    BY <1>5, <1>7 DEF Reopens
  <2>2. r # AllocDeclaration
    <3>1. AllocDeclaration[2].kind = "extern" BY Second DEF AllocDeclaration
    <3> QED BY <3>1, <2>1
  <2>3. PICK j \in DOMAIN f : r = Own(j) BY <2>2, <1>2, <1>3, <1>7 DEF Seen
  <2>4. r[2] = f[j] /\ j # i BY <2>1, <2>3, <1>2, <1>3, <1>5
  <2>5. j < i BY <2>1, <2>3, <2>4, <1>3, <1>4, <1>5, NamedOnce
  <2>6. f[j].line < f[i].line /\ f[j] \in Statement /\ f[i] \in Statement
    BY <2>5, <1>3, <1>4, LegalStatements
  <2>7. Priority(f[j]) = 2 /\ Priority(f[i]) = 2
    BY <2>1, <2>4, <2>6, <1>5, Priorities DEF TypeKinds
  <2> QED BY <2>1, <2>4, <2>6, <2>7 DEF Before
<1>8. types[f[i].id] BY <1>1, <1>5, <1>7 DEF SeenInv, MembersAreSeen
<1> QED BY <1>3, <1>6, <1>8 DEF HasMembers

MembersAreKept ==
  (/\ phase = "generate" /\ StandsAlone /\ LegalAsWritten(unit[1])
   /\ \A p \in pending : p[2].kind = "func") =>
    \A i \in DOMAIN unit[1] : unit[1][i].kind = "struct" => HasMembers(unit[1][i].id)

LEMMA MembersStay == GenerateInv => MembersAreKept
BY StructsKeepMembers DEF MembersAreKept

LEMMA StandaloneStays ==
  ASSUME GenerateInv, GenerateInv', AllocatorIsReady, Next
  PROVE  StandaloneFilesCompile'
<1> SUFFICES ASSUME (unit # <<>>)', StandsAlone', LegalAsWritten(unit[1])'
             PROVE  /\ phase' = "failed" => failure'.why = "cannot write"
                    /\ (phase = "generate" /\ \A p \in pending : p[2].kind = "func")' =>
                         (\A i \in DOMAIN unit[1] : unit[1][i].kind = "struct" => HasMembers(unit[1][i].id))'
  BY DEF StandaloneFilesCompile
<1>1. MembersAreKept' BY MembersStay, PTL
<1>2. ASSUME phase' = "failed", UNCHANGED unit
      PROVE  StandsAlone /\ LegalAsWritten(unit[1])
  BY <1>2 DEF StandsAlone
<1>3. ASSUME phase' = "failed" PROVE failure'.why = "cannot write"
  <2>1. CASE \E t \in Targets : Start(t) BY <2>1, <1>3 DEF Start, GenerateFile
  <2>2. CASE EnterBlock BY <2>2, <1>3 DEF EnterBlock
  <2>3. CASE Visit
    <3>1. PICK p \in Firsts(pending) :
            \/ Effect(p[2])
            \/ \E why, what : Fail(why, what, p[2].kind) /\ Reason(p[2], why, what)
      BY <2>3, VisitOutcome
    <3>2. phase = "generate" BY <2>3 DEF Visit
    <3>3. CASE Effect(p[2]) BY <3>2, <3>3, <1>3 DEF Effect, Continue
    <3>4. CASE \E why, what : Fail(why, what, p[2].kind) /\ Reason(p[2], why, what)
      <4>1. PICK why, what : Fail(why, what, p[2].kind) /\ Reason(p[2], why, what) BY <3>4
      <4>2. UNCHANGED unit BY <4>1 DEF Fail, build
      <4> QED BY <4>1, <4>2, <3>2, <1>2, <1>3, LegalIsNotRefused
    <3> QED BY <3>1, <3>3, <3>4
  <2>4. CASE EndFile BY <2>4, <1>3 DEF EndFile, GenerateFile
  <2>5. CASE Link
    <3>1. CASE Shared # {}
      <4>1. UNCHANGED unit /\ phase # "idle" BY <2>5, <3>1 DEF Link, Fail, build
      <4>2. StandsAlone BY <4>1, <1>2, <1>3
      <4> QED BY <4>1, <4>2, <3>1, OneFileSharesNothing DEF GenerateInv
    <3>2. CASE Shared = {} BY <2>5, <3>2, <1>3 DEF Link
    <3> QED BY <3>1, <3>2
  <2>6. CASE WriteDeclaration BY <2>6, <1>3 DEF WriteDeclaration
  <2>7. CASE FinishModule
    <3>1. CASE header = <<>>
      <4>1. Fail("cannot write", <<target>>, "module") BY <2>7, <3>1 DEF FinishModule
      <4> QED BY <4>1 DEF Fail
    <3>2. CASE header # <<>> BY <2>7, <3>2, <1>3 DEF FinishModule
    <3> QED BY <3>1, <3>2
  <2> QED BY <2>1, <2>2, <2>3, <2>4, <2>5, <2>6, <2>7 DEF Next
<1> QED BY <1>1, <1>3 DEF MembersAreKept

(* For every file that stands alone, of any length: if each name is        *)
(* declared before it is used and stands for one thing, sorting does not   *)
(* keep it from being compiled (ASTBlock::sort, CodeGenVisitor).           *)
THEOREM StandaloneFilesAreCompiled == Spec => []StandaloneFilesCompile
<1>1. Init => AllocatorIsReady /\ StandaloneFilesCompile
  BY DEF Init, AllocatorIsReady, StandaloneFilesCompile
<1>2. AllocatorIsReady /\ AllocatorComesFirst /\ [Next]_vars => AllocatorIsReady'
  <2> SUFFICES ASSUME AllocatorIsReady, AllocatorComesFirst, [Next]_vars PROVE AllocatorIsReady'
    OBVIOUS
  <2>1. CASE Next BY <2>1, AllocatorStaysReady
  <2>2. CASE UNCHANGED vars BY <2>2 DEF vars, store, build, code, AllocatorIsReady, AllocDeclaration
  <2> QED BY <2>1, <2>2
<1>3. GenerateInv /\ GenerateInv' /\ AllocatorIsReady /\ StandaloneFilesCompile /\ [Next]_vars
        => StandaloneFilesCompile'
  <2> SUFFICES ASSUME GenerateInv, GenerateInv', AllocatorIsReady, StandaloneFilesCompile,
                      [Next]_vars
               PROVE  StandaloneFilesCompile'
    OBVIOUS
  <2>1. CASE Next BY <2>1, StandaloneStays
  <2>2. CASE UNCHANGED vars
    BY <2>2 DEF vars, store, build, code, StandaloneFilesCompile, StandsAlone, HasMembers
  <2> QED BY <2>1, <2>2
<1> QED BY <1>1, <1>2, <1>3, Generates, AllocatorIsDeclaredFirst, PTL DEF Spec

-----------------------------------------------------------------------------
(* Symbols a program needs and symbols it defines                          *)

FunctionSymbols(t, files) ==
  {Mangle(t, s.id[1]) : s \in {x \in Statements(files) : x.kind = "func"}}
HeaderSymbols(S) ==
  UNION {{Mangle(s.id[1], s.id[2]) : s \in {x \in In(headers[m]) : x.kind = "declare"}} : m \in S}

(* What the functions of a target may be made to need                      *)
Promised(t, files) ==
  FunctionSymbols(t, files) \cup HeaderSymbols(Loaded(files)) \cup DeclaredBy(t, files)
NeedsPromised(needs, t, files) == \A x \in needs : Len(x) = 2 => x \in Promised(t, files)

FileDefines(k) ==
  \A s \in In(unit[k]) : s.kind = "func" => Mangle(target, s.id[1]) \in objects[k].defines

(* What was stored holds what it promises, and so does what is generated.  *)
StoreInv ==
  /\ IsFiniteSet(DOMAIN headers)
  /\ \A m \in DOMAIN headers :
       /\ ImportsOf(sources[m]) \subseteq DOMAIN headers
       /\ FunctionSymbols(m, sources[m]) \subseteq bitcodes[m].defines
       /\ NeedsPromised(bitcodes[m].needs, m, sources[m])
BuildInv ==
  phase # "idle" =>
    /\ target \notin DOMAIN headers /\ ImportsOf(unit) \subseteq DOMAIN headers
    /\ \A k \in DOMAIN unit : NeedsPromised(objects[k].needs, target, unit)
DefinesInv ==
  /\ phase \in {"sorted", "generate"} => \A k \in DOMAIN unit : k < file => FileDefines(k)
  /\ phase = "generate" =>
       \A q \in Seen : q[2].kind = "func" => SymbolOf(q[2]) \in objects[file].defines
  /\ phase \in {"link", "write", "linked"} => \A k \in DOMAIN unit : FileDefines(k)
  /\ phase = "linked" => target = Main /\ Shared = {}
LinkInv == StoreInv /\ BuildInv /\ DefinesInv

(* The names of functions and types have one or two parts.                 *)
LEMMA SymbolLengths ==
  ASSUME NEW id \in TypeIds, NEW m \in Targets
  PROVE  /\ Len(Constructor(m, id)) # 2
         /\ Len(id) = 1 => id[1] \in Names /\ Mangle(m, id[1]) = <<m, id[1]>>
         /\ Len(id) = 2 => Mangle(id[1], id[2]) = id
         /\ Len(id) \in {1, 2}
<1>1. Main \notin Names BY DeclarationsAssumption DEF Targets
<1>2. CASE id \in Simple(Names)
  <2>1. PICK n \in Names : id = <<n>> BY <1>2 DEF Simple
  <2>2. Len(id) = 1 /\ id[1] = n BY <2>1
  <2>3. Constructor(m, id) = <<m, n>> \o <<"constructor">> BY <2>1, Pair DEF Constructor
  <2>4. Len(<<m, n>> \o <<"constructor">>) = 3 OBVIOUS
  <2>5. Mangle(m, n) = <<m, n>> BY <1>1 DEF Mangle
  <2> QED BY <2>2, <2>3, <2>4, <2>5
<1>3. CASE id \in Targets \X Names
  <2>1. PICK a \in Targets, n \in Names : id = <<a, n>> BY <1>3
  <2>2. Len(id) = 2 /\ id[1] = a /\ id[2] = n BY <2>1
  <2>3. Len(Constructor(m, id)) = 4
    <3>1. Constructor(m, id) = <<m>> \o <<a, n>> \o <<"constructor">> BY <2>1 DEF Constructor
    <3>2. Len(<<m>> \o <<a, n>> \o <<"constructor">>) = 4 OBVIOUS
    <3> QED BY <3>1, <3>2
  <2>4. Mangle(a, n) = <<a, n>> BY <1>1 DEF Mangle
  <2> QED BY <2>1, <2>2, <2>3, <2>4
<1> QED BY <1>2, <1>3 DEF TypeIds

(* What a header declares is a function of the sources of its module.      *)
LEMMA HeaderFunctions ==
  ASSUME TypeOK, DenoteInv, NEW m \in DOMAIN headers, NEW s \in In(headers[m]),
         s.kind = "declare"
  PROVE  /\ Len(s.id) = 2 /\ s.id \in TypeIds
         /\ Mangle(s.id[1], s.id[2]) \in FunctionSymbols(m, sources[m])
<1>1. m \in Modules /\ sources[m] \in Units[m] BY DEF TypeOK, DenoteInv
<1>2. PICK g \in [DOMAIN headers[m] -> Exports(sources[m])] :
        \A i \in DOMAIN headers[m] : headers[m][i] = [g[i][2] EXCEPT !.line = i]
  BY DEF DenoteInv, Written
<1>3. PICK i \in DOMAIN headers[m] : s = headers[m][i] BY DEF In
<1>4. g[i] \in Exports(sources[m]) BY <1>2, <1>3
<1>5. PICK k \in DOMAIN sources[m] : \E x \in In(sources[m][k]) :
        /\ x \in Statement /\ IsExtracted(x)
        /\ s.kind = Declaration(x, m, Main).kind /\ s.id = Declaration(x, m, Main).id
  BY <1>1, <1>2, <1>3, <1>4, LinesComeFromSources
<1>6. PICK x \in In(sources[m][k]) :
        /\ x \in Statement /\ IsExtracted(x)
        /\ s.kind = Declaration(x, m, Main).kind /\ s.id = Declaration(x, m, Main).id
  BY <1>5
<1>7. x.kind = "func" BY <1>1, <1>6, ExportsSay DEF TypeKinds
<1>8. s.id = <<m, x.id[1]>> /\ x.id = <<x.id[1]>> BY <1>1, <1>6, <1>7, ExportsSay
<1>9. s.id[1] = m /\ s.id[2] = x.id[1] /\ Len(s.id) = 2 BY <1>8
<1>10. x \in Statements(sources[m]) BY DEF Statements
<1>11. Mangle(m, x.id[1]) \in FunctionSymbols(m, sources[m]) BY <1>7, <1>10 DEF FunctionSymbols
<1>12. s.id \in TypeIds
  <2>1. headers[m] \in Seq(Statement) BY DEF TypeOK
  <2>2. s \in Statement BY <2>1, <1>3
  <2> QED BY <2>2 DEF Statement, Named
<1> QED BY <1>9, <1>11, <1>12

(* Whatever is declared while a file is generated is promised.             *)
LEMMA DeclaredIsPromised ==
  ASSUME TypeOK, DenoteInv, HeadersAreDeclarations, phase # "idle", module = target,
         NEW q \in Block, q[2].kind \in SymbolKinds, Len(SymbolOf(q[2])) = 2
  PROVE  SymbolOf(q[2]) \in Promised(target, unit)
<1>1. target \in Targets /\ unit \in Units[target] /\ file \in DOMAIN unit BY DEF TypeOK
<1>2. q[2] \in Statement BY <1>1, MergedAreStatements DEF Block
<1>3. q[2].kind # "struct"
  <2> SUFFICES ASSUME q[2].kind = "struct" PROVE FALSE OBVIOUS
  <2>1. q[2].id \in TypeIds BY <1>2 DEF Statement, Named
  <2>2. SymbolOf(q[2]) = Constructor(target, q[2].id) BY StatementKinds
  <2> QED BY <2>1, <2>2, <1>1, SymbolLengths
<1>4. q[2].kind # "extern"
  <2> SUFFICES ASSUME q[2].kind = "extern" PROVE FALSE OBVIOUS
  <2>1. q[2].id \in Simple(Names \cup {Alloc}) BY <1>2 DEF Statement, Named
  <2>2. Len(q[2].id) = 1 BY <2>1 DEF Simple
  <2> QED BY <2>2, StatementKinds
<1>5. CASE \E s \in In(unit[file]) : q = <<<<"file", file>>, s>>
  <2>1. q[2] \in Statements(unit)
    <3>1. q[2] \in In(unit[file]) BY <1>5, Second
    <3> QED BY <3>1, <1>1 DEF Statements
  <2>2. CASE q[2].kind = "func"
    <3>1. SymbolOf(q[2]) = Mangle(target, q[2].id[1]) BY <2>2, StatementKinds
    <3> QED BY <3>1, <2>1, <2>2 DEF FunctionSymbols, Promised
  <2>3. CASE q[2].kind = "declare"
    <3>1. q[2].id \in TypeIds BY <2>3, <1>2 DEF Statement, Named
    <3>2. SymbolOf(q[2]) = IF Len(q[2].id) = 1 THEN <<target, q[2].id[1]>> ELSE q[2].id
      BY <3>1, <2>3, <1>1, StatementKinds, SymbolLengths DEF DeclaredSymbol
    <3>3. SymbolOf(q[2]) \in DeclaredBy(target, unit) BY <3>2, <2>1, <2>3 DEF DeclaredBy
    <3> QED BY <3>3 DEF Promised
  <2> QED BY <2>2, <2>3, <1>3, <1>4 DEF SymbolKinds
<1>6. CASE \E j \in DOMAIN unit \ {file} : \E s \in In(unit[j]) :
             IsExtracted(s) /\ q[2] = Declaration(s, Owner(unit[j]), target)
  <2>1. PICK j \in DOMAIN unit \ {file} : \E s \in In(unit[j]) :
          IsExtracted(s) /\ q[2] = Declaration(s, Owner(unit[j]), target)
    BY <1>6
  <2>2. PICK s \in In(unit[j]) :
          IsExtracted(s) /\ q[2] = Declaration(s, Owner(unit[j]), target)
    BY <2>1
  <2>3. s \in Statement /\ Owner(unit[j]) = target BY <1>1, FilesOfTarget
  <2>4. s.kind = "func"
    <3>1. s.kind \in TypeKinds => q[2].kind = s.kind BY <2>2, <2>3, <1>1, DeclarationSays
    <3>2. s.kind = "import" => q[2].kind = "import" BY <2>2, <2>3, <1>1, DeclarationSays
    <3> QED BY <3>1, <3>2, <2>2, <2>3, <1>1, <1>3, DeclarationSays DEF TypeKinds, SymbolKinds
  <2>5. q[2].kind = "declare" /\ q[2].id = <<target, s.id[1]>>
    BY <2>2, <2>3, <2>4, <1>1, DeclarationSays
  <2>6. SymbolOf(q[2]) = Mangle(target, s.id[1]) BY <2>5, StatementKinds DEF DeclaredSymbol
  <2>7. s \in Statements(unit) BY <2>1 DEF Statements
  <2> QED BY <2>4, <2>6, <2>7 DEF FunctionSymbols, Promised
<1>7. CASE \E m \in Loaded(unit) : q[2] \in In(headers[m])
  <2>1. PICK m \in Loaded(unit) : q[2] \in In(headers[m]) BY <1>7
  <2>2. m \in DOMAIN headers BY LoadedHaveHeaders
  <2>3. q[2].kind \in ExtractedKinds BY <2>1, <2>2 DEF HeadersAreDeclarations
  <2>4. q[2].kind = "declare" BY <2>3, <1>3 DEF ExtractedKinds, SymbolKinds
  <2>5. Len(q[2].id) = 2 BY <2>1, <2>2, <2>4, HeaderFunctions
  <2>6. SymbolOf(q[2]) = Mangle(q[2].id[1], q[2].id[2])
    BY <2>4, <2>5, StatementKinds DEF DeclaredSymbol
  <2> QED BY <2>1, <2>4, <2>6 DEF HeaderSymbols, Promised
<1>8. CASE q = AllocDeclaration
  <2>1. q[2].kind = "extern" BY <1>8, Second DEF AllocDeclaration
  <2> QED BY <2>1, <1>4
<1> QED BY <1>5, <1>6, <1>7, <1>8, MergedFrom DEF Block

-----------------------------------------------------------------------------
(* What is loaded                                                          *)

(* The modules a loaded module loads are loaded too (loader's closure).    *)
LEMMA LoadedIsClosed ==
  ASSUME TypeOK, DenoteInv, NEW files, NEW m \in Loaded(files)
  PROVE  Loaded(sources[m]) \subseteq Loaded(files)
<1>1. m \in DOMAIN headers BY LoadedHaveHeaders
<1>2. Imports(headers[m]) = ImportsOf(sources[m]) BY <1>1, WrittenDenotes
<1> SUFFICES ASSUME NEW n \in Loaded(sources[m]),
                    NEW S \in SUBSET DOMAIN headers, ImportsOf(files) \subseteq S,
                    \A k \in S : Imports(headers[k]) \subseteq S
             PROVE  n \in DOMAIN headers /\ n \in S
  <2>1. Loaded(sources[m]) \subseteq DOMAIN headers BY LoadedHaveHeaders
  <2> QED BY <2>1 DEF Loaded
<1>3. m \in S BY DEF Loaded
<1>4. ImportsOf(sources[m]) \subseteq S BY <1>2, <1>3
<1>5. n \in S BY <1>4 DEF Loaded
<1> QED BY <1>5

(* A new header takes nothing away from what is loaded.                    *)
LEMMA LoadingGrows ==
  ASSUME TypeOK, DenoteInv, NEW m, NEW h, m \notin DOMAIN headers, headers' = Put(headers, m, h),
         \A n \in DOMAIN headers : ImportsOf(sources[n]) \subseteq DOMAIN headers,
         NEW files, ImportsOf(files) \subseteq DOMAIN headers
  PROVE  /\ Loaded(files) \subseteq Loaded(files)'
         /\ \A t : Promised(t, files) \subseteq Promised(t, files)'
<1>1. /\ DOMAIN headers' = DOMAIN headers \cup {m}
      /\ \A n \in DOMAIN headers : headers'[n] = headers[n]
  BY DEF Put
<1>2. \A n \in DOMAIN headers : Imports(headers[n]) \subseteq DOMAIN headers BY WrittenDenotes
<1>3. Loaded(files) \subseteq Loaded(files)'
  <2> SUFFICES ASSUME NEW n \in Loaded(files) PROVE n \in Loaded(files)' OBVIOUS
  <2>1. n \in DOMAIN headers BY LoadedHaveHeaders
  <2>2. ASSUME NEW S \in SUBSET DOMAIN headers', ImportsOf(files) \subseteq S,
               \A k \in S : Imports(headers'[k]) \subseteq S
        PROVE  n \in S
    <3>1. PICK T : T = S \cap DOMAIN headers OBVIOUS
    <3>2. T \in SUBSET DOMAIN headers /\ ImportsOf(files) \subseteq T BY <2>2, <3>1
    <3>3. \A k \in T : Imports(headers[k]) \subseteq T BY <2>2, <3>1, <1>1, <1>2
    <3>4. n \in T BY <3>2, <3>3 DEF Loaded
    <3> QED BY <3>1, <3>4
  <2>3. Loaded(files)' =
          {k \in DOMAIN headers' : \A S \in SUBSET DOMAIN headers' :
             (ImportsOf(files) \subseteq S /\ \A j \in S : Imports(headers'[j]) \subseteq S)
               => k \in S}
    BY DEF Loaded
  <2>4. n \in DOMAIN headers' BY <2>1, <1>1
  <2> QED BY <2>2, <2>3, <2>4
<1>4. HeaderSymbols(Loaded(files)) \subseteq HeaderSymbols(Loaded(files))'
  <2> SUFFICES ASSUME NEW x \in HeaderSymbols(Loaded(files))
               PROVE  x \in HeaderSymbols(Loaded(files))'
    OBVIOUS
  <2>1. PICK n \in Loaded(files) :
          x \in {Mangle(s.id[1], s.id[2]) : s \in {y \in In(headers[n]) : y.kind = "declare"}}
    BY DEF HeaderSymbols
  <2>2. headers'[n] = headers[n] /\ n \in Loaded(files)' BY <1>1, <1>3, LoadedHaveHeaders
  <2> QED BY <2>1, <2>2 DEF HeaderSymbols
<1> QED BY <1>3, <1>4 DEF Promised

-----------------------------------------------------------------------------
(* What is stored and generated stays linked                               *)

LEMMA PromisedIsKept ==
  ASSUME UNCHANGED headers
  PROVE  \A needs, t, files : NeedsPromised(needs, t, files)' <=> NeedsPromised(needs, t, files)
BY LoadedIsKept DEF NeedsPromised, Promised, HeaderSymbols

LEMMA StoreIsKept ==
  ASSUME StoreInv, UNCHANGED <<headers, bitcodes, sources>> PROVE StoreInv'
BY PromisedIsKept DEF StoreInv

LEMMA BuildIsKept ==
  ASSUME BuildInv, phase # "idle", UNCHANGED <<headers, target, unit, objects>> PROVE BuildInv'
BY PromisedIsKept DEF BuildInv

LEMMA DefinedIsKept ==
  ASSUME UNCHANGED <<target, unit, objects>>
  PROVE  \A k : FileDefines(k)' <=> FileDefines(k)
BY DEF FileDefines

LEMMA SharedIsKept ==
  ASSUME UNCHANGED <<headers, bitcodes, target, unit, objects>>
  PROVE  UNCHANGED Linked /\ UNCHANGED Shared
<1>1. UNCHANGED Linked BY LoadedIsKept DEF Linked
<1>2. \A x : Definers(x)' = Definers(x) BY <1>1 DEF Definers
<1> QED BY <1>1, <1>2 DEF Shared

LEMMA FailingLinks ==
  ASSUME LinkInv, phase # "idle", NEW why, NEW what, NEW kind, Fail(why, what, kind)
  PROVE  LinkInv'
<1>1. /\ phase' = "failed"
      /\ UNCHANGED <<headers, bitcodes, sources, target, unit, objects>>
  BY DEF Fail, store, build, code
<1>2. StoreInv' /\ BuildInv' BY <1>1, StoreIsKept, BuildIsKept DEF LinkInv
<1>3. DefinesInv' BY <1>1 DEF DefinesInv
<1> QED BY <1>2, <1>3 DEF LinkInv

LEMMA StartingLinks ==
  ASSUME GenerateInv, LinkInv, NEW t \in Targets, Start(t) PROVE LinkInv'
<1>1. PICK files \in Units[t] :
        /\ ImportsOf(files) \subseteq DOMAIN headers
        /\ target' = t /\ unit' = files
        /\ objects' = [k \in DOMAIN files |-> NoCode]
        /\ GenerateFile(files, 1, t)
  BY DEF Start
<1>2. UNCHANGED <<headers, bitcodes, sources>> /\ t \notin DOMAIN headers BY DEF Start, store
<1>3. phase' = "sorted" /\ file' = 1 BY <1>1 DEF GenerateFile
<1>4. StoreInv' BY <1>2, StoreIsKept DEF LinkInv
<1>5. BuildInv'
  <2>1. \A k \in DOMAIN unit' : objects'[k].needs = {} BY <1>1 DEF NoCode
  <2>2. \A k \in DOMAIN unit' : NeedsPromised(objects[k].needs, target, unit)'
    BY <2>1 DEF NeedsPromised
  <2>3. target' \notin DOMAIN headers' /\ ImportsOf(unit)' \subseteq DOMAIN headers'
    <3>1. ImportsOf(unit)' = ImportsOf(files) BY <1>1 DEF ImportsOf
    <3> QED BY <3>1, <1>1, <1>2
  <2> QED BY <2>2, <2>3 DEF BuildInv
<1>6. DefinesInv'
  <2>1. unit' \in Seq(Seq(Statement)) BY <1>1, DeclarationsAssumption
  <2>2. \A k \in DOMAIN unit' : ~(k < file') BY <2>1, <1>3
  <2> QED BY <2>2, <1>3 DEF DefinesInv
<1> QED BY <1>4, <1>5, <1>6 DEF LinkInv

LEMMA EnteringLinks == ASSUME GenerateInv, LinkInv, EnterBlock PROVE LinkInv'
<1>1. PICK p \in Firsts(pending) :
        IF p[2].kind = "module"
        THEN module' = p[2].id[1] /\ pending' = pending \ {p}
        ELSE UNCHANGED <<module, pending>>
  BY DEF EnterBlock
<1>2. /\ phase = "sorted" /\ phase' = "generate"
      /\ UNCHANGED <<headers, bitcodes, sources, target, unit, file, objects>>
  BY DEF EnterBlock, store, build
<1>3. StoreInv' /\ BuildInv' BY <1>2, StoreIsKept, BuildIsKept DEF LinkInv
<1>4. pending = Block BY <1>2 DEF GenerateInv, SeenInv
<1>5. Block' = Block BY <1>2, BlockIsKept
<1>6. \A q \in Seen' : q[2].kind # "func" BY <1>1, <1>4, <1>5 DEF Seen
<1>7. \A k \in DOMAIN unit : k < file => FileDefines(k) BY <1>2 DEF LinkInv, DefinesInv
<1>8. DefinesInv' BY <1>2, <1>6, <1>7, DefinedIsKept DEF DefinesInv
<1> QED BY <1>3, <1>8 DEF LinkInv

(* A function needs what was declared before it.                           *)
LEMMA CallsArePromised ==
  ASSUME GenerateInv, DenoteInv, HeadersAreDeclarations, phase = "generate",
         NEW p \in Firsts(pending), p[2].kind = "func",
         NEW x \in KnownTo(p[2]), Len(x) = 2
  PROVE  x \in Promised(target, unit)
<1>1. TypeOK /\ SeenInv BY DEF GenerateInv
<1>2. module = target BY <1>1, FunctionsComeLast
<1>3. p \in Block /\ Seen \subseteq Block
  <2>1. pending \subseteq Block BY <1>1 DEF SeenInv
  <2>2. p \in pending BY DEF Firsts
  <2> QED BY <2>1, <2>2 DEF Seen
<1>4. PICK q \in Block : q[2].kind \in SymbolKinds /\ x = SymbolOf(q[2])
  <2>1. CASE x = SymbolOf(p[2]) BY <2>1, <1>3 DEF SymbolKinds
  <2>2. CASE x \in symbols
    <3>1. symbols = {SymbolOf(q[2]) : q \in {r \in Seen : r[2].kind \in SymbolKinds}}
      BY <1>1 DEF SeenInv, SymbolsAreSeen
    <3> QED BY <3>1, <2>2, <1>3
  <2> QED BY <2>1, <2>2 DEF KnownTo
<1> QED BY <1>1, <1>2, <1>4, DeclaredIsPromised

LEMMA FunctionLinks ==
  ASSUME GenerateInv, DenoteInv, HeadersAreDeclarations, LinkInv, phase = "generate",
         NEW p \in Firsts(pending), p[2].kind = "func", pending' = pending \ {p}, Effect(p[2])
  PROVE  BuildInv' /\ DefinesInv'
<1> DEFINE s == p[2]
           called == {Resolve(c, KnownTo(s)) : c \in s.calls}
<1>1. /\ phase' = "generate"
      /\ UNCHANGED <<headers, bitcodes, sources, target, unit, file, module>>
  BY DEF Effect, Continue, store, build
<1>2. /\ called \subseteq KnownTo(s)
      /\ objects' = [objects EXCEPT
           ![file].defines = @ \cup {SymbolOf(s)}, ![file].needs = @ \cup External(called)]
  BY DEF Effect, FunctionEffect
<1>3. file \in DOMAIN unit /\ objects \in [DOMAIN unit -> Code] BY DEF GenerateInv, TypeOK
<1>4. \A k \in DOMAIN unit :
        /\ objects'[k].needs \subseteq objects[k].needs \cup KnownTo(s)
        /\ objects[k].defines \subseteq objects'[k].defines
  <2> SUFFICES ASSUME NEW k \in DOMAIN unit
               PROVE  /\ objects'[k].needs \subseteq objects[k].needs \cup KnownTo(s)
                      /\ objects[k].defines \subseteq objects'[k].defines
    OBVIOUS
  <2>1. External(called) \subseteq KnownTo(s) BY <1>2 DEF External
  <2> QED BY <2>1, <1>2, <1>3 DEF Code
<1>5. SymbolOf(s) \in objects'[file].defines BY <1>2, <1>3 DEF Code
<1>6. BuildInv'
  <2>1. ASSUME NEW k \in DOMAIN unit, NEW x \in objects'[k].needs, Len(x) = 2
        PROVE  x \in Promised(target, unit)
    <3>1. CASE x \in objects[k].needs BY <3>1, <2>1 DEF LinkInv, BuildInv, NeedsPromised
    <3>2. CASE x \in KnownTo(s) BY <3>2, <2>1, CallsArePromised
    <3> QED BY <3>1, <3>2, <2>1, <1>4
  <2>2. \A k \in DOMAIN unit : NeedsPromised(objects'[k].needs, target, unit)
    BY <2>1 DEF NeedsPromised
  <2>3. \A k \in DOMAIN unit' : NeedsPromised(objects[k].needs, target, unit)'
    BY <2>2, <1>1, PromisedIsKept
  <2> QED BY <2>3, <1>1 DEF BuildInv, LinkInv
<1>7. DefinesInv'
  <2>1. \A k \in DOMAIN unit : k < file => FileDefines(k)'
    BY <1>1, <1>4 DEF LinkInv, DefinesInv, FileDefines
  <2>2. /\ p \in pending /\ Seen' = Seen \cup {p}
    BY <1>1, SeenGrows DEF GenerateInv
  <2>3. ASSUME NEW q \in Seen', q[2].kind = "func"
        PROVE  SymbolOf(q[2])' \in objects'[file].defines
    <3>1. SymbolOf(q[2])' = SymbolOf(q[2]) BY <1>1, SymbolsAreKept
    <3>2. CASE q = p BY <3>1, <3>2, <1>5
    <3>3. CASE q \in Seen
      <4>1. SymbolOf(q[2]) \in objects[file].defines BY <3>3, <2>3 DEF LinkInv, DefinesInv
      <4> QED BY <4>1, <3>1, <1>3, <1>4
    <3> QED BY <3>2, <3>3, <2>2, <2>3
  <2>4. \A k \in DOMAIN unit' : k < file' => FileDefines(k)' BY <2>1, <1>1
  <2>5. \A q \in Seen' : q[2].kind = "func" => SymbolOf(q[2])' \in objects'[file'].defines
    BY <2>3, <1>1
  <2> HIDE DEF s, called
  <2> QED BY <2>4, <2>5, <1>1 DEF DefinesInv
<1> QED BY <1>6, <1>7

LEMMA VisitingLinks ==
  ASSUME GenerateInv, DenoteInv, HeadersAreDeclarations, LinkInv, Visit PROVE LinkInv'
<1>1. PICK p \in Firsts(pending) :
        /\ pending' = pending \ {p}
        /\ \/ Effect(p[2])
           \/ \E why, what : Fail(why, what, p[2].kind) /\ Reason(p[2], why, what)
  BY VisitOutcome
<1>2. phase = "generate" BY DEF Visit
<1>3. CASE \E why, what : Fail(why, what, p[2].kind) BY <1>2, <1>3, FailingLinks
<1>4. CASE Effect(p[2])
  <2>1. /\ phase' = "generate"
        /\ UNCHANGED <<headers, bitcodes, sources, target, unit, file, module>>
    BY <1>2, <1>4 DEF Effect, Continue, store, build
  <2>2. StoreInv' BY <2>1, StoreIsKept DEF LinkInv
  <2>3. CASE p[2].kind = "func"
    BY <2>2, <2>3, <1>1, <1>2, <1>4, FunctionLinks DEF LinkInv
  <2>4. CASE p[2].kind # "func"
    <3>1. objects' = objects BY <2>4, <1>4 DEF Effect
    <3>2. BuildInv' BY <3>1, <2>1, <1>2, BuildIsKept DEF LinkInv
    <3>3. Seen' = Seen \cup {p} BY <1>1, <1>2, <2>1, SeenGrows DEF GenerateInv
    <3>4. \A q \in Seen' : q[2].kind = "func" => SymbolOf(q[2])' \in objects'[file'].defines
      <4>1. \A q \in Seen : q[2].kind = "func" => SymbolOf(q[2]) \in objects[file].defines
        BY <1>2 DEF LinkInv, DefinesInv
      <4>2. \A q \in Seen : SymbolOf(q[2])' = SymbolOf(q[2]) BY <2>1, SymbolsAreKept
      <4> QED BY <4>1, <4>2, <3>1, <3>3, <2>1, <2>4
    <3>5. \A k \in DOMAIN unit : k < file => FileDefines(k) BY <1>2 DEF LinkInv, DefinesInv
    <3>6. \A k \in DOMAIN unit' : k < file' => FileDefines(k)'
      BY <3>1, <3>5, <2>1, DefinedIsKept
    <3>7. DefinesInv' BY <3>4, <3>6, <2>1 DEF DefinesInv
    <3> QED BY <2>2, <3>2, <3>7 DEF LinkInv
  <2> QED BY <2>3, <2>4
<1> QED BY <1>1, <1>3, <1>4

(* A file that is generated defines its functions.                         *)
LEMMA FileIsDefined ==
  ASSUME GenerateInv, LinkInv, phase = "generate", pending = {}
  PROVE  FileDefines(file)
<1> SUFFICES ASSUME NEW s \in In(unit[file]), s.kind = "func"
             PROVE  Mangle(target, s.id[1]) \in objects[file].defines
  BY DEF FileDefines
<1>1. module = target BY DEF GenerateInv, SeenInv, ModuleIsKnown
<1>2. PICK q : q = <<<<"file", file>>, s>> OBVIOUS
<1>3. q \in Seen /\ q[2] = s BY <1>2, OwnAreMerged, Second DEF Seen
<1>4. SymbolOf(q[2]) \in objects[file].defines BY <1>3 DEF LinkInv, DefinesInv
<1>5. SymbolOf(s) = Mangle(target, s.id[1]) BY <1>1, StatementKinds
<1> QED BY <1>3, <1>4, <1>5

LEMMA EndingLinks == ASSUME GenerateInv, LinkInv, EndFile PROVE LinkInv'
<1>1. /\ phase = "generate" /\ pending = {}
      /\ UNCHANGED <<headers, bitcodes, sources, target, unit, objects>>
  BY DEF EndFile, store, build, code
<1>2. StoreInv' /\ BuildInv' BY <1>1, StoreIsKept, BuildIsKept DEF LinkInv
<1>3. file \in DOMAIN unit /\ unit \in Seq(Seq(Statement))
  BY <1>1, DeclarationsAssumption DEF GenerateInv, TypeOK
<1>4. \A k \in DOMAIN unit : k \in Nat /\ k <= Len(unit) BY <1>3
<1>5. \A k \in DOMAIN unit : k <= file => FileDefines(k)
  <2>1. \A k \in DOMAIN unit : k < file => FileDefines(k) BY <1>1 DEF LinkInv, DefinesInv
  <2>2. FileDefines(file) BY <1>1, FileIsDefined
  <2> QED BY <2>1, <2>2, <1>3, <1>4
<1>6. \A k \in DOMAIN unit : FileDefines(k)' <=> FileDefines(k) BY <1>1, DefinedIsKept
<1>7. CASE file < Len(unit)
  <2>1. phase' = "sorted" /\ file' = file + 1 BY <1>7 DEF EndFile, GenerateFile
  <2>2. \A k \in DOMAIN unit' : k < file' => FileDefines(k)'
    BY <2>1, <1>1, <1>3, <1>4, <1>5, <1>6
  <2>3. DefinesInv' BY <2>1, <2>2 DEF DefinesInv
  <2> QED BY <2>3, <1>2 DEF LinkInv
<1>8. CASE ~(file < Len(unit))
  <2>1. phase' = "link" BY <1>8 DEF EndFile
  <2>2. \A k \in DOMAIN unit' : FileDefines(k)' BY <1>1, <1>3, <1>4, <1>5, <1>6, <1>8
  <2>3. DefinesInv' BY <2>1, <2>2 DEF DefinesInv
  <2> QED BY <2>3, <1>2 DEF LinkInv
<1> QED BY <1>7, <1>8

LEMMA LinkingLinks == ASSUME GenerateInv, LinkInv, Link PROVE LinkInv'
<1>1. phase = "link" /\ (\A k \in DOMAIN unit : FileDefines(k)) BY DEF Link, LinkInv, DefinesInv
<1>2. CASE Shared # {} BY <1>1, <1>2, FailingLinks DEF Link
<1>3. CASE Shared = {}
  <2>1. /\ UNCHANGED <<headers, bitcodes, sources, target, unit, objects>>
        /\ phase' = IF target = Main THEN "linked" ELSE "write"
    BY <1>3 DEF Link, store, build, code
  <2>2. StoreInv' /\ BuildInv' BY <1>1, <2>1, StoreIsKept, BuildIsKept DEF LinkInv
  <2>3. \A k \in DOMAIN unit' : FileDefines(k)' BY <1>1, <2>1, DefinedIsKept
  <2>4. Shared' = {} BY <1>3, <2>1, SharedIsKept
  <2>5. DefinesInv' BY <2>1, <2>3, <2>4 DEF DefinesInv
  <2> QED BY <2>2, <2>5 DEF LinkInv
<1> QED BY <1>2, <1>3

LEMMA WritingLinks == ASSUME GenerateInv, LinkInv, WriteDeclaration PROVE LinkInv'
<1>1. /\ phase = "write" /\ phase' = "write"
      /\ UNCHANGED <<headers, bitcodes, sources, target, unit, objects>>
  BY DEF WriteDeclaration, store, build, code
<1>2. StoreInv' /\ BuildInv' BY <1>1, StoreIsKept, BuildIsKept DEF LinkInv
<1>3. \A k \in DOMAIN unit' : FileDefines(k)' BY <1>1, DefinedIsKept DEF LinkInv, DefinesInv
<1>4. DefinesInv' BY <1>1, <1>3 DEF DefinesInv
<1> QED BY <1>2, <1>4 DEF LinkInv

(* The sources and the bitcode of a stored module, once it is              *)
StoredWell(m) ==
  /\ ImportsOf(sources[m]) \subseteq DOMAIN headers
  /\ FunctionSymbols(m, sources[m]) \subseteq bitcodes[m].defines
  /\ NeedsPromised(bitcodes[m].needs, m, sources[m])

LEMMA StoredWellAfter ==
  ASSUME TypeOK, DenoteInv, StoreInv, NEW t, t \notin DOMAIN headers,
         NEW h, headers' = Put(headers, t, h),
         NEW m, NEW files, NEW code1, sources'[m] = files, bitcodes'[m] = code1,
         ImportsOf(files) \subseteq DOMAIN headers,
         FunctionSymbols(m, files) \subseteq code1.defines,
         NeedsPromised(code1.needs, m, files)
  PROVE  StoredWell(m)'
<1>1. Promised(m, files) \subseteq Promised(m, files)' BY LoadingGrows DEF StoreInv
<1>2. \A x \in code1.needs : Len(x) = 2 => x \in Promised(m, files)' BY <1>1 DEF NeedsPromised
<1>3. NeedsPromised(code1.needs, m, files)' BY <1>2 DEF NeedsPromised
<1>4. DOMAIN headers \subseteq DOMAIN headers' BY DEF Put
<1> QED BY <1>3, <1>4 DEF StoredWell

LEMMA FinishingLinks ==
  ASSUME GenerateInv, DenoteInv, LinkInv, FinishModule PROVE LinkInv'
<1>1. /\ phase = "write" /\ TypeOK /\ target \notin DOMAIN headers
      /\ ImportsOf(unit) \subseteq DOMAIN headers
      /\ \A k \in DOMAIN unit : NeedsPromised(objects[k].needs, target, unit)
      /\ \A k \in DOMAIN unit : FileDefines(k)
      /\ StoreInv
  BY DEF FinishModule, GenerateInv, LinkInv, BuildInv, DefinesInv
<1>2. CASE header = <<>> BY <1>1, <1>2, FailingLinks DEF FinishModule
<1>3. CASE header # <<>>
  <2>1. PICK t, files, code1 :
          /\ t = target /\ files = unit
          /\ code1 = [defines |-> UNION {objects[k].defines : k \in DOMAIN objects},
                      needs |-> UNION {objects[k].needs : k \in DOMAIN objects}]
    OBVIOUS
  <2>2. /\ headers' = Put(headers, t, header) /\ bitcodes' = Put(bitcodes, t, code1)
        /\ sources' = Put(sources, t, files) /\ phase' = "idle"
    BY <1>3, <2>1 DEF FinishModule
  <2>3. /\ DOMAIN bitcodes = DOMAIN headers /\ DOMAIN sources = DOMAIN headers
        /\ DOMAIN objects = DOMAIN unit
    BY <1>1 DEF TypeOK
  <2>4. /\ DOMAIN headers' = DOMAIN headers \cup {t}
        /\ sources'[t] = files /\ bitcodes'[t] = code1
        /\ \A m \in DOMAIN headers : sources'[m] = sources[m] /\ bitcodes'[m] = bitcodes[m]
    BY <1>1, <2>1, <2>2, <2>3 DEF Put
  <2>5. FunctionSymbols(t, files) \subseteq code1.defines
    <3> SUFFICES ASSUME NEW x \in FunctionSymbols(t, files) PROVE x \in code1.defines
      OBVIOUS
    <3>1. PICK s \in Statements(unit) : s.kind = "func" /\ x = Mangle(target, s.id[1])
      BY <2>1 DEF FunctionSymbols
    <3>2. PICK k \in DOMAIN unit : s \in In(unit[k]) BY <3>1 DEF Statements
    <3>3. x \in objects[k].defines BY <1>1, <3>1, <3>2 DEF FileDefines
    <3> QED BY <3>3, <2>1, <2>3
  <2>6. NeedsPromised(code1.needs, t, files)
    <3>1. \A x \in code1.needs : \E k \in DOMAIN unit : x \in objects[k].needs BY <2>1, <2>3
    <3> QED BY <3>1, <2>1, <1>1 DEF NeedsPromised
  <2>7. StoredWell(t)'
    <3>1. t \notin DOMAIN headers /\ ImportsOf(files) \subseteq DOMAIN headers BY <1>1, <2>1
    <3>2. PICK h : h = header OBVIOUS
    <3>3. headers' = Put(headers, t, h) BY <2>2, <3>2
    <3> QED BY <1>1, <2>4, <2>5, <2>6, <3>1, <3>3, StoredWellAfter
  <2>8. \A m \in DOMAIN headers : StoredWell(m)'
    <3> SUFFICES ASSUME NEW m \in DOMAIN headers PROVE StoredWell(m)' OBVIOUS
    <3>1. PICK own, bc, h : own = sources[m] /\ bc = bitcodes[m] /\ h = header OBVIOUS
    <3>2. sources'[m] = own /\ bitcodes'[m] = bc /\ headers' = Put(headers, t, h)
      BY <2>2, <2>4, <3>1
    <3>3. /\ ImportsOf(own) \subseteq DOMAIN headers
          /\ FunctionSymbols(m, own) \subseteq bc.defines
          /\ NeedsPromised(bc.needs, m, own)
      BY <3>1, <1>1 DEF StoreInv
    <3>4. t \notin DOMAIN headers BY <1>1, <2>1
    <3> QED BY <1>1, <3>2, <3>3, <3>4, StoredWellAfter
  <2>9. IsFiniteSet(DOMAIN headers)' BY <1>1, <2>4, FS_AddElement DEF StoreInv
  <2>10. StoreInv' BY <2>4, <2>7, <2>8, <2>9 DEF StoreInv, StoredWell
  <2>11. BuildInv' /\ DefinesInv' BY <2>2 DEF BuildInv, DefinesInv
  <2> QED BY <2>10, <2>11 DEF LinkInv
<1> QED BY <1>2, <1>3

LEMMA Links == Spec => []LinkInv
<1>1. Init => LinkInv
  <2> SUFFICES ASSUME Init PROVE LinkInv OBVIOUS
  <2>1. DOMAIN headers = {} /\ phase = "idle" BY DEF Init
  <2>2. StoreInv BY <2>1, FS_EmptySet DEF StoreInv
  <2> QED BY <2>1, <2>2 DEF LinkInv, BuildInv, DefinesInv
<1>2. GenerateInv /\ DenoteInv /\ HeadersAreDeclarations /\ LinkInv /\ [Next]_vars => LinkInv'
  <2> SUFFICES ASSUME GenerateInv, DenoteInv, HeadersAreDeclarations, LinkInv, [Next]_vars
               PROVE  LinkInv'
    OBVIOUS
  <2>1. CASE Next
    BY <2>1, StartingLinks, EnteringLinks, VisitingLinks, EndingLinks, LinkingLinks, WritingLinks,
       FinishingLinks DEF Next
  <2>2. CASE UNCHANGED vars
    <3>1. UNCHANGED <<headers, bitcodes, sources, target, unit, file, phase, pending, module,
                      objects>>
      BY <2>2 DEF vars, store, build, code
    <3>2. StoreInv' /\ (phase # "idle" => BuildInv')
      BY <3>1, StoreIsKept, BuildIsKept DEF LinkInv
    <3>3. BuildInv' BY <3>1, <3>2 DEF BuildInv
    <3>4. /\ \A k : FileDefines(k)' <=> FileDefines(k)
          /\ Seen' = Seen /\ Shared' = Shared /\ \A s : SymbolOf(s)' = SymbolOf(s)
      <4>1. Block' = Block BY <3>1, BlockIsKept
      <4> QED BY <4>1, <3>1, DefinedIsKept, SharedIsKept, SymbolsAreKept DEF Seen
    <3>5. DefinesInv' BY <3>1, <3>4 DEF DefinesInv, LinkInv
    <3> QED BY <3>2, <3>3, <3>5 DEF LinkInv
  <2> QED BY <2>1, <2>2
<1> QED BY <1>1, <1>2, Generates, Denotes, HeadersDeclare, PTL DEF Spec

(* What is linked: the files of the target, and the modules it loads       *)
LEMMA LinkedCode ==
  ASSUME target = Main, objects \in [DOMAIN unit -> Code]
  PROVE  /\ DOMAIN Linked = From("file", DOMAIN unit) \cup From("module", Loaded(unit))
         /\ \A k \in DOMAIN unit :
              <<"file", k>> \in DOMAIN Linked /\ Linked[<<"file", k>>] = objects[k]
         /\ \A m \in Loaded(unit) :
              <<"module", m>> \in DOMAIN Linked /\ Linked[<<"module", m>>] = bitcodes[m]
<1>1. DOMAIN objects = DOMAIN unit OBVIOUS
<1> DEFINE all == From("file", DOMAIN unit) \cup From("module", Loaded(unit))
<1>2. Linked = [l \in all |-> IF l[1] = "file" THEN objects[l[2]] ELSE bitcodes[l[2]]]
  BY <1>1 DEF Linked
<1>3. \A k \in DOMAIN unit : <<"file", k>> \in all BY DEF From
<1>4. \A m \in Loaded(unit) : <<"module", m>> \in all BY DEF From
<1> HIDE DEF all
<1>5. DOMAIN Linked = all BY <1>2
<1>6. \A k \in DOMAIN unit : Linked[<<"file", k>>] = objects[k]
  BY <1>2, <1>3, First, Second
<1>7. \A m \in Loaded(unit) : Linked[<<"module", m>>] = bitcodes[m]
  BY <1>2, <1>4, First, Second
<1> QED BY <1>3, <1>4, <1>5, <1>6, <1>7 DEF all

LEMMA OriginsAreFinite ==
  ASSUME NEW o, NEW S, IsFiniteSet(S) PROVE IsFiniteSet(From(o, S))
<1> DEFINE f == [s \in S |-> <<o, s>>]
<1>1. f \in Surjection(S, From(o, S)) BY DEF Surjection, From
<1> HIDE DEF f
<1> QED BY <1>1, FS_Surjection

(* Whatever is promised to a linked file or module is defined by one.      *)
LEMMA PromisesAreKept ==
  ASSUME TypeOK, DenoteInv, LinkInv, phase = "linked",
         NEW t, NEW files, NEW x \in Promised(t, files) \ DeclaredBy(t, files),
         Loaded(files) \subseteq Loaded(unit),
         \A y \in FunctionSymbols(t, files) : Definers(y) # {}
  PROVE  Definers(x) # {}
<1>1. CASE x \in FunctionSymbols(t, files) BY <1>1
<1>2. CASE x \in HeaderSymbols(Loaded(files))
  <2>1. PICK n \in Loaded(unit) :
          x \in {Mangle(s.id[1], s.id[2]) : s \in {y \in In(headers[n]) : y.kind = "declare"}}
    BY <1>2 DEF HeaderSymbols
  <2>2. PICK s \in In(headers[n]) : s.kind = "declare" /\ x = Mangle(s.id[1], s.id[2]) BY <2>1
  <2>3. n \in DOMAIN headers BY LoadedHaveHeaders
  <2>4. x \in FunctionSymbols(n, sources[n]) BY <2>2, <2>3, HeaderFunctions
  <2>5. x \in bitcodes[n].defines BY <2>3, <2>4 DEF LinkInv, StoreInv
  <2>6. <<"module", n>> \in DOMAIN Linked /\ Linked[<<"module", n>>] = bitcodes[n]
    BY LinkedCode DEF LinkInv, DefinesInv, TypeOK
  <2> QED BY <2>5, <2>6 DEF Definers
<1> QED BY <1>1, <1>2 DEF Promised

LEMMA DefinedOnce ==
  ASSUME TypeOK, LinkInv, phase = "linked", NEW x, Definers(x) # {}
  PROVE  Cardinality(Definers(x)) = 1
<1>1. target = Main /\ Shared = {} /\ IsFiniteSet(DOMAIN headers)
  BY DEF LinkInv, DefinesInv, StoreInv
<1>2. IsFiniteSet(DOMAIN Linked)
  <2>1. unit \in Seq(Seq(Statement)) BY DeclarationsAssumption DEF TypeOK
  <2>2. IsFiniteSet(DOMAIN unit)
    <3>1. DOMAIN unit = 1 .. Len(unit) /\ Len(unit) \in Nat BY <2>1
    <3>2. IsFiniteSet(1 .. Len(unit)) BY <3>1, FS_Interval
    <3> QED BY <3>1, <3>2
  <2>3. IsFiniteSet(Loaded(unit))
    <3>1. Loaded(unit) \in SUBSET DOMAIN headers BY LoadedHaveHeaders
    <3> QED BY <3>1, <1>1, FS_Subset
  <2>4. IsFiniteSet(From("file", DOMAIN unit)) /\ IsFiniteSet(From("module", Loaded(unit)))
    BY <2>2, <2>3, OriginsAreFinite
  <2>5. DOMAIN Linked = From("file", DOMAIN unit) \cup From("module", Loaded(unit))
    BY <1>1, LinkedCode DEF TypeOK
  <2> QED BY <2>4, <2>5, FS_Union
<1>3. Definers(x) \in SUBSET DOMAIN Linked BY DEF Definers
<1>4. IsFiniteSet(Definers(x)) BY <1>2, <1>3, FS_Subset
<1>5. Cardinality(Definers(x)) \in Nat /\ Cardinality(Definers(x)) # 0
  BY <1>4, FS_CardinalityType, FS_EmptySet
<1>6. ~(Cardinality(Definers(x)) > 1)
  <2>1. x \in UNION {Linked[l].defines : l \in DOMAIN Linked} BY DEF Definers
  <2> QED BY <2>1, <1>1 DEF Shared
<1> QED BY <1>5, <1>6

LEMMA LinkInvIsEnough ==
  ASSUME TypeOK, DenoteInv, LinkInv PROVE LinkedSymbolsAreDefined
<1> SUFFICES ASSUME phase = "linked", NEW l \in DOMAIN Linked,
                    NEW x \in Linked[l].needs \ Believed, Len(x) = 2
             PROVE  Cardinality(Definers(x)) = 1
  BY DEF LinkedSymbolsAreDefined
<1>1. target = Main /\ objects \in [DOMAIN unit -> Code] BY DEF LinkInv, DefinesInv, TypeOK
<1>2. CASE l \in From("file", DOMAIN unit)
  <2>1. PICK k \in DOMAIN unit : l = <<"file", k>> BY <1>2 DEF From
  <2>2. x \in objects[k].needs BY <1>1, <2>1, LinkedCode
  <2>3. x \in Promised(target, unit) BY <2>2 DEF LinkInv, BuildInv, NeedsPromised
  <2>4. x \notin DeclaredBy(target, unit) BY DEF Believed
  <2>5. ASSUME NEW y \in FunctionSymbols(target, unit) PROVE Definers(y) # {}
    <3>1. PICK s \in Statements(unit) : s.kind = "func" /\ y = Mangle(target, s.id[1])
      BY <2>5 DEF FunctionSymbols
    <3>2. PICK j \in DOMAIN unit : s \in In(unit[j]) BY DEF Statements
    <3>3. y \in objects[j].defines BY <3>1, <3>2 DEF LinkInv, DefinesInv, FileDefines
    <3>4. <<"file", j>> \in DOMAIN Linked /\ Linked[<<"file", j>>] = objects[j]
      BY <1>1, LinkedCode
    <3> QED BY <3>3, <3>4 DEF Definers
  <2>6. PICK t, files : t = target /\ files = unit OBVIOUS
  <2>7. Definers(x) # {} BY <2>3, <2>4, <2>5, <2>6, PromisesAreKept
  <2> QED BY <2>7, DefinedOnce
<1>3. CASE l \in From("module", Loaded(unit))
  <2>1. PICK m \in Loaded(unit) : l = <<"module", m>> BY <1>3 DEF From
  <2>2. m \in DOMAIN headers /\ DOMAIN sources = DOMAIN headers
    BY LoadedHaveHeaders DEF TypeOK
  <2>3. x \in bitcodes[m].needs BY <1>1, <2>1, LinkedCode
  <2>4. x \in Promised(m, sources[m]) BY <2>2, <2>3 DEF LinkInv, StoreInv, NeedsPromised
  <2>5. x \notin DeclaredBy(m, sources[m]) BY <2>2 DEF Believed
  <2>6. ASSUME NEW y \in FunctionSymbols(m, sources[m]) PROVE Definers(y) # {}
    <3>1. y \in bitcodes[m].defines BY <2>2, <2>6 DEF LinkInv, StoreInv
    <3>2. <<"module", m>> \in DOMAIN Linked /\ Linked[<<"module", m>>] = bitcodes[m]
      BY <1>1, LinkedCode
    <3> QED BY <3>1, <3>2 DEF Definers
  <2>7. PICK files : files = sources[m] OBVIOUS
  <2>8. Loaded(files) \subseteq Loaded(unit) BY <2>7, LoadedIsClosed
  <2>9. Definers(x) # {} BY <2>4, <2>5, <2>6, <2>7, <2>8, PromisesAreKept
  <2> QED BY <2>9, DefinedOnce
<1>4. DOMAIN Linked = From("file", DOMAIN unit) \cup From("module", Loaded(unit))
  BY <1>1, LinkedCode
<1> QED BY <1>2, <1>3, <1>4

(* For all files of all targets: every Stark function that a linked        *)
(* program calls, directly or from a module it loads, is defined in it     *)
(* exactly once, unless a source declared it by hand.  The caller's symbol *)
(* comes from a header or another file, the definer's from the source, in  *)
(* different builds (CodeGenMangler, CodeGenBitcode, CompilerModule).      *)
THEOREM LinkedProgramsAreComplete == Spec => []LinkedSymbolsAreDefined
<1>1. GenerateInv /\ DenoteInv /\ LinkInv => LinkedSymbolsAreDefined
  BY LinkInvIsEnough DEF GenerateInv
<1> QED BY <1>1, Generates, Denotes, Links, PTL
=============================================================================

---------------------------- MODULE Declarations ----------------------------
(***************************************************************************)
(* What CompilerModuleBuilder::build makes of the files of a module: the   *)
(* declarations extracted from each file are put before the others, those  *)
(* of the loaded modules before all, the result is sorted by priority and  *)
(* line and generated statement by statement; the declarations of a module *)
(* are merged, sorted and written as its header.                           *)
(*                                                                         *)
(* A statement is its kind, its identifier, the types its signature or its *)
(* members use, the functions and constructors its body calls, and a line. *)
(* Primary types, expressions and the names of members are left out.  An   *)
(* identifier is <<name>> or <<module, name>>.  A function named like Main *)
(* is the program's main function, as in the code.                         *)
(***************************************************************************)
EXTENDS Naturals, Sequences, FiniteSets

CONSTANTS
  Modules, Main,  (* names of modules; the module of programs, "main"      *)
  Names,          (* names of types and functions                          *)
  Alloc,          (* stark_runtime_priv_mm_alloc                           *)
  Units           (* the lists of files each target may be made of         *)

Targets == Modules \cup {Main}
Kinds == {"module", "import", "extern", "forward", "struct", "declare", "func"}
Simple(S) == {<<n>> : n \in S}
TypeIds == Simple(Names) \cup (Targets \X Names)
Ids == Simple(Names \cup Targets \cup {Alloc}) \cup (Targets \X Names)

(* which identifiers a statement of each kind has *)
Named(s) ==
  /\ s.kind \in {"module", "import"} => s.id \in Simple(Modules)
  /\ s.kind = "extern" => s.id \in Simple(Names \cup {Alloc})
  /\ s.kind \in {"forward", "struct", "declare"} => s.id \in TypeIds
  /\ s.kind = "func" => s.id \in Simple(Names \cup {Main})
Statement ==
  {s \in [kind : Kinds, id : Ids, uses : SUBSET TypeIds, calls : SUBSET Ids, line : Nat] :
     Named(s)}

(* Files as docs/modules.md asks for, the module statement first, if any;  *)
(* CompilerModuleMapper tells by it which target a file belongs to.  Every *)
(* statement is on a line of its own.                                      *)
IsFile(t, f) ==
  /\ f \in Seq(Statement) /\ f # <<>>
  /\ \A i \in DOMAIN f : (f[i].kind = "module") <=> (t # Main /\ i = 1)
  /\ t # Main => f[1].id = <<t>>
  /\ \A i, j \in DOMAIN f : i < j => f[i].line < f[j].line

ASSUME DeclarationsAssumption ==
  /\ Main \notin Modules /\ Alloc \notin Names \cup Targets
  /\ Names \cap Targets = {}
  /\ DOMAIN Units = Targets
  /\ \A t \in Targets : \A files \in Units[t] :
       /\ files \in Seq(Seq(Statement)) /\ files # <<>>
       /\ \A k \in DOMAIN files : IsFile(t, files[k])

VARIABLES
  headers,   (* module -> the declarations of its .sth file                *)
  bitcodes,  (* module -> the symbols its .bc file defines and needs       *)
  sources,   (* module -> what it was built from (auxiliary)               *)
  target, unit, file,  (* the build: its module, files, the current one    *)
  phase,
  pending,   (* statements, with their origins, still to be generated or written *)
  module,    (* CodeGenFileContext::moduleName                             *)
  types,     (* complexTypes: identifier -> has it members                 *)
  symbols,   (* names of functions in the LLVM module                      *)
  objects,   (* file -> its bitcode, the current one included              *)
  header,    (* declarations written so far                                *)
  failure    (* why logError ended the process, on what, in which statement *)

store == <<headers, bitcodes, sources>>
build == <<target, unit, file>>
code  == <<module, types, symbols, objects>>
vars  == <<store, build, phase, pending, code, header, failure>>

-----------------------------------------------------------------------------
(* ASTNode: priorities and order of statements                             *)

FunctionsByLine(s) ==                                              \* mutant
  CASE s.kind \in {"module", "import"} -> 0
    [] s.kind = "extern" /\ s.id = <<Alloc>> -> 1
    [] OTHER -> 2
AllocLast(s) ==                                                    \* mutant
  CASE s.kind \in {"module", "import"} -> 0
    [] s.kind \in {"struct", "forward"} -> 2
    [] s.kind \in {"extern", "declare"} -> 3
    [] OTHER -> 10
TypesFirst(s) ==                                                   \* mutant
  CASE s.kind \in {"module", "import", "struct", "forward"} -> 1
    [] s.kind = "extern" /\ s.id = <<Alloc>> -> 0
    [] s.kind = "declare" \/ (s.kind = "extern" /\ s.id # <<Alloc>>) -> 3
    [] OTHER -> 10
Priority(s) ==
  CASE s.kind \in {"module", "import"} -> 0
    [] s.kind = "extern" /\ s.id = <<Alloc>> -> 1
    [] s.kind \in {"struct", "forward"} -> 2
    [] s.kind = "declare" \/ (s.kind = "extern" /\ s.id # <<Alloc>>) -> 3
    [] OTHER -> 10

Backwards(s, t) ==                                                 \* mutant
  \/ Priority(s) < Priority(t)
  \/ Priority(s) = Priority(t) /\ s.line > t.line
Before(s, t) ==
  \/ Priority(s) < Priority(t)
  \/ Priority(s) = Priority(t) /\ s.line < t.line

(* A block is the set of its statements with the file or header they come  *)
(* from: prepending says where they are inserted, but sort follows, and    *)
(* std::sort leaves statements that compare equal in any order.            *)
Firsts(block) == {p \in block : \A q \in block : ~Before(q[2], p[2])}
From(origin, S) == {<<origin, s>> : s \in S}

-----------------------------------------------------------------------------
(* ASTDeclarationExtractor                                                 *)

Owner(f) == IF Head(f).kind = "module" THEN Head(f).id[1] ELSE Main

NeverQualified(owner, t, id) == id                                 \* mutant
QualifiedAgain(owner, t, id) == IF owner # t THEN <<owner>> \o id ELSE id  \* mutant
Qualified(owner, t, id) ==
  IF Len(id) = 1 /\ owner # t THEN <<owner>> \o id ELSE id

(* imports are copied, what is qualified already is left out *)
NoImport(s) ==                                                     \* mutant
  \/ s.kind \in {"struct", "forward"} /\ Len(s.id) = 1
  \/ s.kind = "func" /\ s.id # <<Main>>
IsExtracted(s) ==
  \/ s.kind \in {"struct", "forward"} /\ Len(s.id) = 1
  \/ s.kind = "func" /\ s.id # <<Main>>
  \/ s.kind = "import"

(* what statement s of module owner becomes for module t *)
Retyped(s, owner, t) == [s EXCEPT !.uses = {Qualified(owner, t, u) : u \in @}]
Declaration(s, owner, t) ==
  CASE s.kind \in {"struct", "forward"} ->
         [Retyped(s, owner, t) EXCEPT !.id = Qualified(owner, t, @)]
    [] s.kind = "func" ->
         [Retyped(s, owner, t) EXCEPT !.kind = "declare", !.id = <<owner>> \o @, !.calls = {}]
    [] OTHER -> s

In(f) == {f[i] : i \in DOMAIN f}
Extract(f, t) == {Declaration(s, Owner(f), t) : s \in {x \in In(f) : IsExtracted(x)}}

-----------------------------------------------------------------------------
(* CompilerModuleBuilder                                                   *)

Imports(f) == {s.id[1] : s \in {x \in In(f) : x.kind = "import"}}
ImportsOf(files) == UNION {Imports(files[k]) : k \in DOMAIN files}

(* The loader returns the transitive closure of the imports of all files   *)
(* (see ModuleBuild).                                                      *)
Loaded(files) ==
  {m \in DOMAIN headers : \A S \in SUBSET DOMAIN headers :
     (ImportsOf(files) \subseteq S /\ \A n \in S : Imports(headers[n]) \subseteq S) => m \in S}

ExternalDeclarations(files) ==
  UNION {From(<<"header", m>>, In(headers[m])) : m \in Loaded(files)}

(* of the declarations of the runtime only the allocator's place matters *)
AllocDeclaration ==
  <<<<"runtime", Alloc>>,
    [kind |-> "extern", id |-> <<Alloc>>, uses |-> {}, calls |-> {}, line |-> 2]>>

DeclarationsOf(files, others, t) ==
  UNION {From(<<"file", k>>, Extract(files[k], t)) : k \in others}

Merged(files, k, t) ==
  From(<<"file", k>>, In(files[k]))
    \cup DeclarationsOf(files, DOMAIN files \ {k}, t)
    \cup ExternalDeclarations(files)
    \cup {AllocDeclaration}

NoCode == [defines |-> {}, needs |-> {}]

(* a fresh CodeGenFileContext for file k *)
GenerateFile(files, k, t) ==
  /\ phase' = "sorted"
  /\ file' = k
  /\ pending' = Merged(files, k, t)
  /\ module' = Main /\ types' = <<>> /\ symbols' = {}

Fail(why, what, kind) ==
  /\ phase' = "failed"
  /\ failure' = [why |-> why, what |-> what, kind |-> kind]
  /\ UNCHANGED <<store, build, code, header>>

NoFailure == [why |-> "none", what |-> <<>>, kind |-> "none"]

Init ==
  /\ headers = <<>> /\ bitcodes = <<>> /\ sources = <<>>
  /\ target = Main /\ unit = <<>> /\ file = 1
  /\ phase = "idle" /\ pending = {}
  /\ module = Main /\ types = <<>> /\ symbols = {} /\ objects = <<>>
  /\ header = <<>> /\ failure = NoFailure

(* A module or a program is built once what it imports is.  Modules are    *)
(* built once, and only if a later source imports them: the others change  *)
(* nothing.  The first failure ends it all.                                *)
Start(t) ==
  /\ phase = "idle" /\ t \notin DOMAIN headers
  /\ \E files \in Units[t] :
       /\ ImportsOf(files) \subseteq DOMAIN headers
       /\ \A m \in DOMAIN headers :
            m \in ImportsOf(files) \cup UNION {ImportsOf(sources[n]) : n \in DOMAIN sources}
       /\ target' = t /\ unit' = files
       /\ objects' = [k \in DOMAIN files |-> NoCode]
       /\ GenerateFile(files, 1, t)
  /\ UNCHANGED <<store, header, failure>>

-----------------------------------------------------------------------------
(* CodeGenVisitor on the root block                                        *)

(* The module statement is taken off if it is the first one. *)
EnterBlock ==
  /\ phase = "sorted"
  /\ \E p \in Firsts(pending) :
       IF p[2].kind = "module"
       THEN module' = p[2].id[1] /\ pending' = pending \ {p}
       ELSE UNCHANGED <<module, pending>>
  /\ phase' = "generate"
  /\ UNCHANGED <<store, build, types, symbols, objects, header, failure>>

(* CodeGenMangler.  Symbols of constructors end in "constructor". *)
Mangle(m, f) == IF f = Main THEN <<Main>> ELSE <<m, f>>
Constructor(m, id) == <<m>> \o id \o <<"constructor">>

(* CodeGenIdentifierResolver: a type's name calls its constructor, a name  *)
(* without module is looked up in the current one, then taken as it is.    *)
Resolve(id, known) ==
  CASE id \in DOMAIN types /\ Len(id) = 1 -> Constructor(module, id)
    [] id \in DOMAIN types /\ Len(id) = 2 -> Constructor(id[1], <<id[2]>>)
    [] id \notin DOMAIN types /\ Len(id) = 2 -> Mangle(id[1], id[2])
    [] OTHER -> IF Mangle(module, id[1]) \in known THEN Mangle(module, id[1]) ELSE id

Put(f, x, value) == [y \in DOMAIN f \cup {x} |-> IF y = x THEN value ELSE f[y]]

Continue == UNCHANGED <<store, build, phase, module, header, failure>>

VisitModule(s) ==
  /\ s.kind = "module"
  /\ Fail("module declaration not first", s.id, "module")

VisitImport(s) ==
  /\ s.kind = "import"
  /\ Continue /\ UNCHANGED <<types, symbols, objects>>

DeclareFunction(s, symbol) ==
  IF s.uses \subseteq DOMAIN types
  THEN /\ symbols' = symbols \cup {symbol}
       /\ Continue /\ UNCHANGED <<types, objects>>
  ELSE \E u \in s.uses \ DOMAIN types : Fail("unknown type", u, s.kind)

VisitExtern(s) == s.kind = "extern" /\ DeclareFunction(s, s.id)

DeclaredSymbol(id) == IF Len(id) = 2 THEN Mangle(id[1], id[2]) ELSE Mangle(module, id[1])
VisitDeclare(s) == s.kind = "declare" /\ DeclareFunction(s, DeclaredSymbol(s.id))

(* Whatever the type was before, it has no member any more. *)
VisitForward(s) ==
  /\ s.kind = "forward"
  /\ types' = Put(types, s.id, FALSE)
  /\ Continue /\ UNCHANGED <<symbols, objects>>

HasMembers(id) == id \in DOMAIN types /\ types[id]

(* A struct may be made of itself, being declared before its members are   *)
(* looked up.  Its constructor allocates, and is named after the module    *)
(* being compiled.                                                         *)
VisitStruct(s) ==
  LET wrong ==
        IF HasMembers(s.id) THEN {<<"already declared", s.id>>}
        ELSE IF ~(s.uses \subseteq DOMAIN types \cup {s.id})
        THEN {<<"unknown type", u>> : u \in s.uses \ (DOMAIN types \cup {s.id})}
        ELSE IF <<Alloc>> \notin symbols THEN {<<"cannot allocate memory", s.id>>} ELSE {}
  IN  /\ s.kind = "struct"
      /\ IF wrong # {} THEN \E w \in wrong : Fail(w[1], w[2], "struct")
         ELSE /\ types' = Put(types, s.id, TRUE)
              /\ symbols' = symbols \cup {Constructor(module, s.id)}
              /\ Continue /\ UNCHANGED objects

(* Constructors are internal to a file: other symbols are left to the      *)
(* linker.                                                                 *)
External(S) == {x \in S : x[Len(x)] # "constructor"}

(* Neither main nor private functions of the runtime can be called, the    *)
(* check being on the first part of the name.                              *)
Callable(c) == c[1] \notin {Main, Alloc}

VisitFunc(s) ==
  LET symbol == Mangle(module, s.id[1])
      known == symbols \cup {symbol}
      wrong ==
        IF symbol \in symbols THEN {<<"already declared", s.id>>}
        ELSE IF ~(s.uses \subseteq DOMAIN types)
        THEN {<<"unknown type", u>> : u \in s.uses \ DOMAIN types}
        ELSE {<<"undeclared function", c>> : c \in {d \in s.calls : Resolve(d, known) \notin known}}
               \cup {<<"not callable", c>> : c \in {d \in s.calls : ~Callable(d)}}
  IN  /\ s.kind = "func"
      /\ IF wrong # {} THEN \E w \in wrong : Fail(w[1], w[2], "func")
         ELSE /\ symbols' = known
              /\ objects' = [objects EXCEPT
                   ![file].defines = @ \cup {symbol},
                   ![file].needs = @ \cup External({Resolve(c, known) : c \in s.calls})]
              /\ Continue /\ UNCHANGED types

Visit ==
  /\ phase = "generate"
  /\ \E p \in Firsts(pending) :
       /\ pending' = pending \ {p}
       /\ \/ VisitModule(p[2]) \/ VisitImport(p[2]) \/ VisitExtern(p[2])
          \/ VisitForward(p[2]) \/ VisitStruct(p[2]) \/ VisitDeclare(p[2]) \/ VisitFunc(p[2])

EndFile ==
  /\ phase = "generate" /\ pending = {}
  /\ IF file < Len(unit)
     THEN GenerateFile(unit, file + 1, target) /\ UNCHANGED <<target, unit, objects>>
     ELSE /\ phase' = "link"
          /\ UNCHANGED <<build, pending, code>>
  /\ UNCHANGED <<store, header, failure>>

-----------------------------------------------------------------------------
(* Linking, and the header of a module                                     *)

(* A program is linked with every loaded module. *)
Linked ==
  LET modules == IF target = Main THEN Loaded(unit) ELSE {}
  IN  [l \in From("file", DOMAIN objects) \cup From("module", modules) |->
         IF l[1] = "file" THEN objects[l[2]] ELSE bitcodes[l[2]]]
Definers(x) == {l \in DOMAIN Linked : x \in Linked[l].defines}
Shared ==
  {x \in UNION {Linked[l].defines : l \in DOMAIN Linked} : Cardinality(Definers(x)) > 1}

Link ==
  /\ phase = "link"
  /\ IF Shared # {}
     THEN /\ \E x \in Shared : Fail("multiply defined", x, "link")
          /\ UNCHANGED pending
     ELSE /\ IF target = Main
             THEN phase' = "linked" /\ UNCHANGED pending
             ELSE /\ phase' = "write"
                  /\ pending' = DeclarationsOf(unit, DOMAIN unit, Main)
          /\ UNCHANGED <<store, build, code, header, failure>>

(* The header is sorted too.  Each declaration gets a line of its own.     *)
WriteDeclaration ==
  /\ phase = "write"
  /\ \E p \in Firsts(pending) :
       /\ header' = Append(header, [p[2] EXCEPT !.line = Len(header) + 1])
       /\ pending' = pending \ {p}
  /\ UNCHANGED <<store, build, phase, code, failure>>

(* An empty header is not written (see ModuleBuild). *)
FinishModule ==
  /\ phase = "write" /\ pending = {}
  /\ IF header = <<>> THEN Fail("cannot write", <<target>>, "module")
     ELSE /\ headers' = Put(headers, target, header)
          /\ bitcodes' = Put(bitcodes, target,
               [defines |-> UNION {objects[k].defines : k \in DOMAIN objects},
                needs |-> UNION {objects[k].needs : k \in DOMAIN objects}])
          /\ sources' = Put(sources, target, unit)
          /\ target' = Main /\ unit' = <<>> /\ file' = 1
          /\ phase' = "idle" /\ header' = <<>>
          /\ module' = Main /\ types' = <<>> /\ symbols' = {} /\ objects' = <<>>
          /\ UNCHANGED failure
  /\ UNCHANGED pending

Next ==
  \/ \E t \in Targets : Start(t)
  \/ EnterBlock \/ Visit \/ EndFile
  \/ Link \/ WriteDeclaration \/ FinishModule

Spec == Init /\ [][Next]_vars

-----------------------------------------------------------------------------
(* Types of the variables; an identifier has at most a module and a name.  *)
Symbols == Ids \cup {Constructor(m, id) : m \in Targets, id \in TypeIds}
Code == [defines : SUBSET Symbols, needs : SUBSET Symbols]
Phases == {"idle", "sorted", "generate", "link", "write", "linked", "failed"}

TypeOK ==
  /\ headers \in [DOMAIN headers -> Seq(Statement)] /\ DOMAIN headers \subseteq Modules
  /\ bitcodes \in [DOMAIN headers -> Code]
  /\ DOMAIN sources = DOMAIN headers
  /\ target \in Targets
  /\ phase # "idle" => unit \in Units[target] /\ file \in DOMAIN unit
  /\ phase \in Phases
  /\ \A p \in pending : p[2] \in Statement
  /\ header \in Seq(Statement)
  /\ module \in Targets
  /\ types \in [DOMAIN types -> BOOLEAN] /\ DOMAIN types \subseteq TypeIds
  /\ symbols \subseteq Symbols
  /\ objects \in [DOMAIN unit -> Code]

Statements(files) == UNION {In(files[k]) : k \in DOMAIN files}

(* The header of a module says of every type and of every function but     *)
(* main, in whichever file it is, what the source says, once, with names   *)
(* that mean outside what they meant inside (ASTDeclarationExtractor).     *)
(* Only a forward declaration between them lets a type be declared twice.  *)
Meaning(m, id) == IF Len(id) = 1 THEN <<m, id[1]>> ELSE id
Exported(m, kind, as) ==
  {[kind |-> as, id |-> Meaning(m, s.id), uses |-> {Meaning(m, u) : u \in s.uses}] :
     s \in {x \in Statements(sources[m]) : x.kind = kind /\ Len(x.id) = 1 /\ x.id # <<Main>>}}
Says(s) == [kind |-> s.kind, id |-> s.id, uses |-> s.uses]
Declared(m, kind) == {i \in DOMAIN headers[m] : headers[m][i].kind = kind}
SaysTwice(m, kind) ==
  {headers[m][i].id : i \in {j \in Declared(m, kind) :
     \E k \in Declared(m, kind) : k # j /\ headers[m][k].id = headers[m][j].id}}
HeaderDenotesSources ==
  \A m \in DOMAIN headers :
    /\ \A p \in {<<"struct", "struct">>, <<"forward", "forward">>, <<"func", "declare">>} :
         {Says(headers[m][i]) : i \in Declared(m, p[2])} = Exported(m, p[1], p[2])
    /\ SaysTwice(m, "declare") = {}
    /\ SaysTwice(m, "struct") \subseteq {headers[m][i].id : i \in Declared(m, "forward")}
    /\ Imports(headers[m]) = ImportsOf(sources[m])

(* Compiler and linker agree on names across files, modules and builds: a  *)
(* Stark function a linked program calls is defined in it, once, though    *)
(* each side forms the symbol on its own (CodeGenMangler).  Names without  *)
(* module are those of C functions; a source that declares a function      *)
(* itself is believed, whether there is one or not.                        *)
DeclaredBy(m, files) ==
  {IF Len(s.id) = 1 THEN <<m, s.id[1]>> ELSE s.id :
     s \in {x \in Statements(files) : x.kind = "declare"}}
Believed ==
  DeclaredBy(target, unit) \cup UNION {DeclaredBy(m, sources[m]) : m \in DOMAIN sources}
LinkedSymbolsAreDefined ==
  phase = "linked" =>
    \A l \in DOMAIN Linked : \A x \in Linked[l].needs \ Believed :
      Len(x) = 2 => Cardinality(Definers(x)) = 1

(* The allocator is declared before the first constructor is generated     *)
(* ("runtime alloc function must be on top of the block", ASTNode.h:287).  *)
AllocatorComesFirst == failure.why # "cannot allocate memory"

(* A function may use any type and call any function of the other files of *)
(* its module and of the modules it loads, wherever they are declared:     *)
(* sorting puts functions after everything else.  A type hides a function  *)
(* of its name; what a file declares with a qualified name stays in it;    *)
(* and a file that declares the allocator itself declares it too early.    *)
OtherFiles == [k \in DOMAIN unit |-> IF k = file THEN <<>> ELSE unit[k]]
NamesOf(S, kinds) == {s.id : s \in {x \in S : x.kind \in kinds}}
InHeaders(kinds) == UNION {NamesOf(In(headers[m]), kinds) : m \in Loaded(unit)}
TypesAround ==
  NamesOf(In(unit[file]), {"struct", "forward"})
    \cup {id \in NamesOf(Statements(OtherFiles), {"struct", "forward"}) : Len(id) = 1}
    \cup InHeaders({"struct", "forward"})
FunctionsAround ==
  (((NamesOf(Statements(OtherFiles), {"func"}) \ {<<Main>>}) \cup InHeaders({"declare"}))
      \ TypesAround)
    \cup {id \in NamesOf(Statements(unit), {"struct"}) : Len(id) = 1}
AllocatorUses == UNION {s.uses : s \in {x \in Statements(unit) : x.id = <<Alloc>>}}
NamesAreVisibleToFunctions ==
  (failure.kind \in {"func", "declare", "extern"}) =>
    /\ failure.why = "unknown type" =>
         failure.what \notin TypesAround \ (IF failure.kind = "extern" THEN AllocatorUses ELSE {})
    /\ failure.why = "undeclared function" => failure.what \notin FunctionsAround

(* Sorting never hurts a file that stands alone: if every name is declared *)
(* before it is used and stands for one thing, it compiles, and its        *)
(* functions find the members of all its types.  (Statements "declare",    *)
(* names with a module and the allocator are what headers are made of.)    *)
StandsAlone == Len(unit) = 1 /\ ImportsOf(unit) = {}
LegalAsWritten(f) ==
  \A i \in DOMAIN f :
    LET before(kinds) == {f[j].id : j \in {k \in 1 .. i - 1 : f[k].kind \in kinds}}
    IN  /\ f[i].kind # "declare" /\ f[i].id # <<Alloc>> /\ Len(f[i].id) = 1
        /\ f[i].kind \in {"struct", "forward"} =>
             f[i].id \notin before({"struct", "func", "extern"})
        /\ f[i].kind \in {"func", "extern"} =>
             f[i].id \notin before({"struct", "forward", "func", "extern"})
        /\ f[i].uses \subseteq before({"struct", "forward"})
             \cup (IF f[i].kind = "struct" THEN {f[i].id} ELSE {})
        /\ f[i].calls \subseteq (before({"struct", "func", "extern"})
             \cup (IF f[i].kind = "func" THEN {f[i].id} ELSE {})) \ {<<Main>>}
StandaloneFilesCompile ==
  (unit # <<>> /\ StandsAlone /\ LegalAsWritten(unit[1])) =>
    /\ phase = "failed" => failure.why = "cannot write"
    /\ (phase = "generate" /\ \A p \in pending : p[2].kind = "func") =>
         \A i \in DOMAIN unit[1] : unit[1][i].kind = "struct" => HasMembers(unit[1][i].id)

(* The module statement of a file is only ever displaced by an import of   *)
(* another file or header, never by a type, a function or its own imports. *)
OnlyImportsDisplaceModule ==
  (failure.why = "module declaration not first") =>
    \E s \in Statements(OtherFiles)
         \cup UNION {In(headers[m]) : m \in Loaded(unit)} :
      s.kind = "import" /\ s.line <= unit[file][1].line

-----------------------------------------------------------------------------
(* "Once imported, types (structs) and functions from the other module are *)
(* accessible to the target module" (docs/modules.md): no type of a loaded *)
(* module is ever unknown, nor its constructor.                            *)
ImportedTypesAreAccessible ==
  failure.why \in {"unknown type", "undeclared function"} =>
    failure.what \notin InHeaders({"struct"})
=============================================================================

# Stark: a verification development

Stark (`src/`) is a small statically typed language: a parser, a code generator
that emits LLVM IR, a compiler (`starkc`) with modules, an interpreter (`stark`),
a test runner (`starktest`) and a C runtime. The modules here are TLA+
specifications translated from that code, TLC configurations that check them on
small instances, and proofs checked by TLAPS. Paths below are relative to `src/`.

## 1. Inventory

| component | code | state it keeps | operations | what makes it correct |
|---|---|---|---|---|
| parser, AST | `lang/parser`, `lang/ast/AST*.h` | an AST | parse | the grammar (bison) |
| control-flow code generation | `lang/codeGen/CodeGenVisitor.cpp`, `CodeGenFileContext.cpp` | the block stack (locals, merge flag, return value per entry), LLVM blocks, the recursion of the visitors | one visit per kind of statement, push/popBlock, declare/getLocal | the stack follows the nesting; nothing is written to a terminated block; well-formed function bodies; allocas dominate uses; lexical scoping |
| type registry | `codeGen/types/CodeGenComplexType.cpp`, `CodeGenFileContext.cpp` | declared struct types, array types, constructors | declare, define, look up, array of | a definition is never lost; a type is found wherever a use is legal |
| name resolution, checks | `CodeGenIdentifierResolver.cpp`, `CodeGenChecker.cpp`, `CodeGenMangler.cpp` | none (reads the registry and the LLVM module) | mangle, resolve, check | a name resolves to one function, its own module first |
| memory manager initialisation | `CodeGenFileContext.cpp`, `runtime/Memory.cpp` | a flag: the call was generated | insert the initialisation in main, allocate | what is allocated before it survives |
| declaration extraction, merging, sorting | `ASTDeclarationExtractor.cpp`, `ASTNode.cpp`, `ASTWriter.cpp` | lists of statements | extract, prepend, sort, write | a header declares what its module exports; declarations precede uses |
| module loader, directories | `compiler/CompilerModuleLoader.cpp`, `CompilerModuleResolver.cpp`, `CompilerModule.cpp` | the map of loaded modules; on disk, a `.bc` and a `.sth` per module | resolve, load, extract (recursive), write | the transitive closure of the imports; the two files agree |
| module builder, `starkc` | `compiler/CompilerModuleBuilder.cpp`, `tools/starkc.cpp` | sources by module, contexts | map, build, link, write | each target sees what earlier ones wrote |
| interpreter | `tools/stark.cpp`, `lang/interpreter/Interpreter.cpp` | an execution engine | load modules, link, run | what is declared is what is linked |
| command execution | `lang/util/SystemUtil.cpp` | three pipes, a child process, two strings and a status | execute | no leak, a faithful report, no deadlock |
| system linker | `compiler/CompilerSystemLinker.cpp`, `CodeGenBitcode.cpp` | none; on disk, an object file and an executable | write the object, link through a command | a failed link is a failure; success means a new executable |
| test runner | `tools/starktest.cpp` | counters, exit code | open each file, run every test through a command | every test is run and counted once; the exit code is about all of them |
| bitcode | `CodeGenBitcode.cpp`, `CodeGenBitcodeLinker.cpp` | an LLVM module | load, write, link | LLVM |
| primary, string and array types | `codeGen/types/*`, visitors of expressions | a type and an array flag per variable | literals, paths, operators, comparisons, conversions, assignments, calls | instructions get values of the types they take; what is documented is accepted |
| runtime | `runtime/*.cpp` | blocks of memory | strings, conversions, I/O, asserts, arguments | writes fit their blocks; strings behave as values |
| prototype interpreter | `newinterpreter/` | - | unfinished, unused | - |
| logger, strings | `util/Logger.cpp`, `StringUtil.cpp` | a flag | log; `logError` exits | - |

How they interact: calls only, within one process. `starkc` maps sources to
modules, then for each module in alphabetical order a builder calls the loader
(which recurses through headers on disk), prepends the headers, generates code
with a visitor over one `CodeGenFileContext` per file, links bitcode and writes a
directory that later runs load. Executables are linked by a child process;
`starktest` runs each test in one. The shared state is the block stack (all
visits of a file), the module directories (successive runs), and the pipes
(parent and child). A compiled program shares its memory with the collector,
which may take a block back whenever one is asked for.

What is hard here:
- *nesting*: every visit finds its way back on a stack that nested visits have
  left merge blocks on, guided by flags only (`CodeGenFileContext.cpp:245-261`);
- *staleness*: locals are copied into entries, return values stay in the entry
  they were set in, headers and bitcode are read from different builds;
- *recursion* over data that other runs change: headers that import each other;
- *order*: statements of several files are put together and sorted by priority
  and by line numbers that have nothing to do with each other;
- *names* formed by two sides of a build, each with rules of its own;
- *interruption* between the two files of a module;
- *two processes* that wait for each other, and four system calls that may fail;
- *types* compared in some positions only, and a flag that copies lose;
- *memory*: sizes counted without terminators, objects made in two allocations,
  a collector that runs between them, strings shared between variables.

`PROJECT.json` lists every hazard at its line with the properties about it.

## 2. Modules

| module | models | status |
|---|---|---|
| `LexicalScope` | what the documentation promises about variable names (abstract) | implemented by `CodeGen`: checked, proved |
| `CodeGen`, `MCCodeGen` | visitor and block stack | checked |
| `CodeGenProofs` | the stack invariant | proved |
| `BodyProofs` | finished function bodies, lexical scoping, dominance, loops | proved |
| `ModuleBuild`, `MCModuleBuild` | loader, builder, directories, script loading | checked |
| `ModuleBuildProofs` | closure, complete links, visible cycles, depth of the recursion, progress | proved |
| `Declarations`, `MCDeclarations` | extraction, merging and sorting of declarations; type registry, name resolution, linking | checked |
| `DeclarationsProofs` | order of statements, visible names, faithful headers, files alone, complete programs | proved |
| `Command`, `MCCommand` | `Command::execute` and its child | checked |
| `CommandProofs` | descriptors, faithful report, progress | proved |
| `Tools`, `MCTools` | `starktest` and the end of `starkc`, each composed with `Command` | checked |
| `ToolsProofs` | true summaries, new executables, reports of every command, progress | proved |
| `Expressions`, `MCExpressions` | types of expressions, variables and calls | checked |
| `ExpressionsProofs` | types lost, well-typed code, documented programs | proved |
| `StringValues` | strings as values (abstract) | implemented by `Runtime`: checked, proved |
| `Runtime`, `MCRuntime` | strings in collected memory, arguments of main | checked |
| `RuntimeProofs` | writes that fit, strings are values | proved |

### CodeGen
`bbs` are LLVM's basic blocks in creation order (function, whether inserted,
terminators), `stack` is `CodeGenFileContext::blocks` (`CodeGenBlock`: locals,
`isMergeBlock`, `returnValue`), `frames` the local variables of the recursive
`visit` methods (the block they generate into, the else or test block, the merge
block), `status` the process. An action is what a visitor does between two
`accept` calls: `DefineFunction`/`EndFunction` are the two halves of
`visit(ASTFunctionDefinition)`, `BeginIf`/`EndThen`/`EndElse` of
`visit(ASTIfElseStatement)`, `BeginWhile`/`EndWhile` of
`visit(ASTWhileStatement)`; simple statements are one action each. `logError`
ends the process, so every failure is `Exit`. The AST is not given: each step
chooses the next statement, so a behaviour is the generation of one program and
TLC explores all programs up to the bounds.

Abstractions. Types, operators and instructions are dropped; of a value only the
block that computes it stays, and `Garbage` is a read of `CodeGenVisitor::result`
before anything set it. Function names are fresh (redefinition belongs to name
resolution). Conditions are not statements here: an error in one is a
`Refer` or `Reject` just before. In compile mode, statements outside of functions
are not generated by legal programs and not modelled. `main(args)` of the
interpreter is the frame of kind "main".

### ModuleBuild
`dirs`, `bitcodes`, `headers` are the module directories: a map entry is a file
written to its end, a missing one is absent or truncated (the code opens with
truncation and reads a missing or empty `.sth` as no declaration; a truncated
`.bc` does not load). `frames` are the activation records of
`CompilerModuleLoader::extractModules`, `loaded` its map, `sources` the targets
left, `phase` the program point of the builder. `complete` is auxiliary.
`Start`, then `Import`/`Return`/`Extracted` are the loader, `Reject`/`Generate`
the generation and linking, `OpenBitcode`/`WriteBitcode`/`OpenHeader`/
`WriteHeader` the four file operations of `CompilerModule::write`, and `Die` a
kill between any two steps. A bitcode file keeps what it was compiled from
(`Compiled`): the imports of its sources, and `against`, every module loaded with
what its header imported then, since the builder puts the headers of the whole
closure before the sources (`CompilerModuleBuilder.cpp:56-64,144`). One module serves `starkc` and `stark`, which share
the loader.

Abstractions. The imports of a block are a set taken in any order, which covers
every order and repetition; a header is the set of imports it carries, and code may
use any module it was compiled against. `Written` are the sources programmers ever
write for a target: all of them for the theorems, some for a run. One search path. One run at a
time. A module whose header is empty is not written as a module
(`CompilerModule.cpp:23-33` chooses the file by it), hence "cannot write". A call
stack that is full ends the process: `MaxDepth` is its size.

### Declarations
What `ModuleBuild` takes as one step, the generation of a target: `Start` chooses
the files of a target among `Units`, each file gets a block (`Merged`: its own
statements, the declarations extracted from the other files, the headers of the
loaded modules, the runtime), `EnterBlock` and `Visit` generate it statement by
statement as `visit(ASTBlock)` does, `Link` links the files (and, for a program,
the modules), `WriteDeclaration` and `FinishModule` write the header. `types` is
`complexTypes`, `symbols` the functions of the LLVM module (a function's name is
a sequence, mangled as in the code), `objects` what each file's bitcode defines
and needs, `failure` the message of `logError`. `headers`, `bitcodes` are what
later targets see; `sources` is auxiliary.

Abstractions. A statement has a kind, an identifier, the struct types it uses,
the names it calls and a line. A block is a set: `preprend` puts statements at
places that `sort` overrides, and `std::sort` leaves statements that compare
equal in any order, so `Visit` takes any statement that none precedes. What is
loaded is the closure of the imports, as `ModuleBuildProofs` shows. Of the
runtime only the allocator counts, whose place the code treats specially. A
module is built once, and only if something imports it. Files start with their
module statement, if they have one, and have one statement a line. Arrays,
public runtime functions, argument checks and the interpreter's use of the same
visitors are left out.

### Command
`parent` and `child` are the program points of the two processes, `parentEnds`
and `childEnds` the pipe ends they hold, `written` and `collected` count units
per stream, `verdict` is how the child ended, `exitStatus` what
`getExitStatus` returns. Actions are the system calls of `execute` in their
order, each failing `pipe` and `fork` with the descriptors that path closes
(`ClosedOnFailure`, `Cleanup`), and the child's. A failing write of the input or read of
an output throws without closing anything, and without waiting for the child in the
first case. `waitpid` is assumed to succeed. The command run
by the shell is external: it may read its input, prints any amount on both
outputs, then exits with 0 or 1, or is killed. Nobody in the repository gives a
command an input, so none is written. Processes the command leaves behind are
not modelled, nor is what becomes of a child after its parent died of an exception.

### Tools
Extends `Command`: a tool makes a Command object and executes it (`Launch` resets
every variable of `Command` to the first system call, for a command that prints
any amount), the processes take their steps (`During`), and the tool goes on when
`execute` returns or throws (`Finished`, `Uncaught`). `step` is the program point of
`starktest` (`OpenFile`, `RunTest`, `Judge`, `CloseFile`, one per part of main's
loops) or of `starkc` once it has a main module (`Build`, `FindRuntime`,
`WriteObject`, `RunLinker`, `CheckLink`); `disk` is the object file and the
executable: of an earlier build, half written, or new. `results` is auxiliary, how
the command of each test really ended.

Abstractions. A file is unreadable, illegal or has a number of tests; a test is
its command. The pipeline of a test ends with the status of the interpreter; its
text is not modelled. What the linker leaves on disk depends on how it ended. As
in the code, an unreadable or illegal file ends `starktest` at once with 1 and
without a summary; a command whose shell was killed or could not be executed
leaves a status of 0, and counts as passed, or linked.

### Expressions
The visitor of expressions is recursive; the model is the same machine in postfix
order, with a `stack` of the results of visits and of marks for nodes that wait for
operands, so that a behaviour is the generation of the statements of one body, in
any combination. An entry has the type of its LLVM value, the type the source
gives it (`meant`), and for addresses what they are for. `locals` are the variables
of the function, `last` records the operands of the last step and the types its
instruction takes (`wants`) and is given (`gets`), `status` is "refused" for
`logError` and "crashed" for the use of a nullptr the code does not test. Each
action is one visit or one level of `getComplexTypeMemberValue`.

Abstractions. Values are left out, as are branches (`CodeGen`) and names
(`Declarations`); the `elements` member of arrays, a pointer whose type is none of the source's, is
neither documented nor used by any program or test, and left out of `Member`. The
array flag of results is always lost, because what is visited is a clone of the
parsed tree (`StarkParser.cpp:59`).

### Runtime
`heap` maps addresses to blocks: the size asked for, and what is written in it
(text, length, pointer, elements). `vars` are the string variables of a program,
`args` the array of arguments, `cstring` a C string the program holds, `call` the
runtime function in progress with its operands and the blocks it has made. Every
function that makes a string allocates twice, and each allocation is an action
(`MakeData` then `MakeObject`, or `MakeObjectFirst` then `MakeDataLast`, as each
function does) that may be given any block not reached from the variables and
from the frame of the call: that is the collector. The arguments are made before
`Initialise`, in compiled and in interpreted programs alike. `Capacity` is the
size of a block for each size asked for: the collector adds a byte and rounds up
to two pointers, and fills blocks with zeros.

Abstractions. A C string is the text before its terminator. The collector is
external and never fails. `fromCSubString` is called within its string. A null
operand ends the program. Writing to the members of a string is not modelled.

## 3. Runs

| run | configuration | result |
|---|---|---|
| `codegen` | 1 name, 2 functions, 6 blocks, 3 nested visits, both modes | passes, 664,397 states |
| `modules` | 3 modules, 11 sources, both program kinds, stack of 4 calls | passes, 360,967 states |
| `declarations` | 2 modules, 2 types, 2 functions, files of up to 4 statements, up to 2 files a target | passes, 272,825 states |
| `tools` | 2 files, 2 tests a file, pipes of 2 units, up to 3 units per stream | passes, 351,279 states |
| `expressions` | 2 bodies, 2 variables, 4 visits in progress | passes, 378,480 states |
| `runtime` | 2 variables, texts of up to 2 characters, 1 argument | passes, 72,933 states |
| `lost_return` | 5 blocks, 2 nested visits | violated, see findings |
| `import_cycle` | as `modules` | violated |
| `imported_types` | as `declarations` | violated |
| `blocked_command` | pipes of 2 units, 4 units of output | violated |
| `string_comparison`, `array_default` | as `expressions` | violated |

Bounds, and why they are enough:
- `Names = {args}`: the stack treats names alike and independently (maps of
  locals are copied whole, looked up by one name), so a fault about names shows
  with one of them. The name is `args`, which is both a parameter of the
  interpreter's main and any variable.
- `MaxBlocks = 6`, `MaxFrames = 3`, `MaxFunctions = 2`: two nested ifs, an if in
  a while, a while after an if, a function in a branch. Merge entries pile up
  (if, then if) and are popped at once. Smaller bounds leave out a second merge
  entry below a nested visit; the proofs cover the sizes above.
- `ReturnKinds = {"inst"}` in `codegen`: no property checked tells a constant from
  an instruction.
- `Modules = {1, 2, 3}`, `MCWritten`: the first two modules may import each other, or
  the second the third, so that a program and a module depend on modules they do not
  import; two ways to a module, rebuilds with and without each import, both
  alphabetical orders, a module without declarations. A module that imports itself is
  left to the theorems, as are more modules. `MaxDepth = 4` is one more than there are
  modules, the deepest acyclic extraction.
- `Units`: every file of up to four statements among structs with and without
  members that use themselves or each other, functions that call each other or a
  constructor, and main; every pair of short files with all orders of their
  lines; modules that import one another, and programs that use one or both.
  Four statements are needed for a forward declaration, two structs that need
  it, and a function; two modules give a module loaded through another, and
  lines decide between three sources of statements.
- `Capacity = 2`, `MaxOutput = 3` in `tools`: less than, exactly and more than a
  pipe holds. Two files of up to two tests: the first and the last test of a file,
  the first and the last file, a failure before or after a success.
- `MCExpressions` has a struct with a plain and an array member (of itself), a
  memberless one, functions with and without arrays, one only declared, and main.
  The constraint `Focus` gives the second variable the types that behave in
  different ways, and lets more than two visits be in progress only while a path is
  assigned to, which takes four; operators and calls of the instance take two. Calls
  with two arguments are covered by the theorems only.
- `Pointer = 1` in `runtime`: a string_t is then as long as two characters, so that
  blocks are asked for that are exactly one terminator too short. Two variables
  share strings; eleven addresses suffice for all that can be reached at once.
  `LowestFirst` gives the lowest free address and the view `UsedBlocks` makes one of
  states that differ by addresses or by blocks nothing leads to: no action depends
  on an address otherwise.

Deadlock is checked in `modules`. It is not in `codegen` (a finished compilation
stops, and a bound stops a program from growing; an if or a while without any
statement is `EmptyControl`, so that an empty frame must first get one), nor in
`declarations` (a linked program or a failure is the end), nor in `tools` (a tool
ends; the deadlock the code has is what `blocked_command` shows), nor in
`expressions` (a refused program stops) or `runtime` (a program may be stopped).

Fairness. `modules` assumes weak fairness of the compiler process: it is
sequential and waits for nothing; `Start` and `Die` are the user's. `tools`
and `blocked_command` assume it of the tool and of the two processes of a command,
scheduled by the operating system, and nothing of a kill. `codegen` has no liveness property: programs are finite.

### What the properties say
*codegen.* `StackMirrorsNesting`: popBlock always finds the entry the visit
pushed. `InsertionPointIsOpen`: never an instruction after a terminator.
`WellFormedBodies`: every block inserted, one terminator, branches stay in the
function. `LocalsDominateUses`: no copied map of locals leads to an alloca that
may not have been executed. `LoopsGoThroughTests`: no loop the source does not
have. `EnclosingEntriesUntouched`: a nested function leaves the stack below it
as it was. `ImplementsLexicalScope`: acceptance and refusal of names is the
documented scoping.

*modules.* `LoadedIsClosure`. `LinkIsComplete`: a program is linked with every module
the code of its modules was compiled against, imported or not, although which ones
they are is computed twice, at different times, from headers that are rebuilt in
between. Two histories are excepted, because they do leave a module out: the process
that wrote a module died on the way (`complete`), or a header it was compiled against
has other imports now (`UpToDate`); what a module's own sources import is linked in
the second case too. `OverflowNeedsCycle`, `CycleIsVisible` (a build that makes the
headers cyclic has loaded its own former version), `EveryRunEnds`.

*declarations.* `HeaderDenotesSources`: a header says of each type and function
what the sources say, once, in names valid outside. `LinkedSymbolsAreDefined`:
what a program calls is defined in it once, although caller and definer mangle
on their own; a source that declares a function by hand (`declare`) is believed, so
such symbols are left out (`Believed`). `AllocatorComesFirst`. `NamesAreVisibleToFunctions`: no function
misses a type or a function of another file or of a loaded module, unless a type
hides the function by having its name; an own declaration of the allocator comes
before every type, and so misses those it uses.
`StandaloneFilesCompile`: sorting never breaks a file that is legal as written
and stands alone. `OnlyImportsDisplaceModule`: a module statement that comes first
in its file is refused only if an import of another file or of a header has a
smaller or equal line; this does happen, for instance when the file begins with
a comment of a few lines, so that the documented rule (`docs/modules.md:13`) is
necessary but not sufficient.

*tools.* For each command of a tool, `NothingLeaks`: a call of `execute` that returns
has closed every descriptor and waited for its child, and one whose `pipe` or `fork`
fails leaves no descriptor, whichever it is and though each path closes a list of its
own (a failing write or read after the fork does leave some: the property does not
speak of it, and the tool ends with the exception). `ReportIsFaithful`: a command that
ran to its end is reported with its output and its status (one that is killed or never
executed is reported with 0).
`SummaryIsTrue`: the counters are those of the commands that really ended so, each
test of each file once, and the exit code is 0 exactly when none failed.
`LinkedMeansNew`: success means an object and an executable of this build, unless the
linker was killed or never executed, which is taken for success.
`ToolsEnd`: if outputs fit in pipes, the tool comes to its end.

*expressions.* `OnlyArrayResultsLoseTheirType`: the array flag is lost by results
of functions and by nothing else, through any number of variables.
`CodeIsWellTyped`: an instruction gets the types it takes, but at the positions
`Unchecked` lists. `AcceptsTheDocumented`: of operations on operands that kept their
type, no legal one is refused, and none that is not legal is accepted. `Legal` is
written from the documentation and the tests, not from the generator's checks: strings and values of type any are compared with their like,
whatever is nullable with null, and every complex value converts to any, among
others. Two kinds of legal operation are refused (`RefusedThoughLegal`: arithmetic on
bools, arrays given to functions that are only declared), and these that are not legal
are accepted (`AcceptedThoughNotLegal`: a string tested for equality with a value of another
type, any and void converted to themselves, the pointer in a string, null and void where
a primary value goes, an element where a function only declared takes an array).

*runtime.* `WritesFitTheirBlocks`: with what the collector adds, and only with
it, every copy fits. `StringsAreValues`: the runtime implements `StringValues`,
where each operation changes one variable.

### Findings
1. A `return` followed by an if or a while is lost (`CodeGenVisitor.cpp:590`).
2. Cyclic headers, which legal rebuilds produce, exhaust the stack
   (`CompilerModuleLoader.cpp:29`).
3. A command that prints more than a pipe holds blocks for ever
   (`SystemUtil.cpp:99`).
4. The constructor of an imported type is not found: it is defined under one name
   and looked up under another (`CodeGenComplexType.cpp:27`).
5. A string is compared with a value of any type (`CodeGenStringComplexType.cpp:73`).
6. The default value of an array of a primary type is that of its elements
   (`CodeGenVisitor.cpp:420`).

Each is a run of its own; `PROJECT.json` quotes the text each one disagrees with.

Other behaviours the models show, which no text of the repository contradicts
plainly: a second `return` in a block replaces the first (`CodeGenVisitor.cpp:709`);
a function that ends in an if returns a value computed in one branch
(`CodeGenVisitor.cpp:927`); modules of one command are built in alphabetical order
(`starkc.cpp:219`); `stark` declares only the modules a script imports itself,
`starkc` all (`stark.cpp:189`); null is let into primary variables, because it is
replaced by a null of the variable's type before `canAssign` looks at it; `array +
array` and an index or a member of a primary value dereference a nullptr; arithmetic
on booleans is refused; conditions, results and indexes are not checked; And and Or
of doubles make ill-typed instructions; a function returning an array returns a
single element for the generator.

## 4. Proofs

All theorems hold for every value of the constants allowed by the named
assumptions of the modules (`CodeGenAssumption`, `ModuleBuildAssumption`,
`DeclarationsAssumption`, `CommandAssumption`, `ToolsAssumption`,
`ExpressionsAssumption`, `RuntimeAssumption`), and nothing else is assumed but for
`OnlyCyclesOverflow`, whose hypothesis `RoomForModules` says that the stack holds a
call for each module and one for the source. Every invariant a run checks is the
property of a theorem.

`CodeGenProofs`. The stack mirroring the nesting is not inductive alone: pushing
a merge block preserves it only if the block is not on the stack already and is
open. `StackInv` adds that stack and frames are in creation order
(`BlocksInOrder`) and that blocks created but not yet inserted are empty, younger
than the visit's own block, older than anything pushed since, and of its function
(`ReservedBlocks`). Lemmas compute what `PopBlock` returns from the flags; there
is one lemma per group of actions. Theorems: `TypesPreserved`,
`StackDiscipline`, `BuilderWritesInOpenBlocks`, `NestedFunctionsAreIsolated`.

`BodyProofs` rests on `StackInv`. *Bodies*: `WellFormedBodies` speaks of finished
functions only, so `BodyInv` gives an account of every block at all times
(`Accounted`): it is placed and terminated once, or a visit in progress is in
charge of it (`Pending`), as the block on top of its part of the stack or as one
it has set aside. It adds that every branch goes to a block of the same function
other than its entry (`BranchesInside`), which the reserved blocks (`ReservedNames`)
and the test of a while (`WhileTests`) must have been ready for, and that the
function a visit generates into is one still being visited (`OwnFunctions`): a
finished function has no visit left to be in charge of one of its blocks.
`WherePending` follows a pending block through a step, `Assembled` reduces a step
to the frame and the entry it adds. *Scopes*: `ScopeInv` says of each frame that
what it sees in its last stack entry is what `LexicalScope` computes from the
scopes below it, which would take an induction over the scopes if it were not kept
as an invariant; `VisibleNext` is its one step. A step leaves what the frames below
see unchanged although it changes the entry they see it in (`KeptView`: a merge
block takes over the names of the entry it covers), and is then the step of
`LexicalScope` on the innermost scope. `BodyInv` and `ScopeInv` were checked with
TLC before they were proved. Theorems: `BodiesAreWellFormed`,
`NamesAreLexical`.

*Control flow*: `LocalsDominateUses` and `LoopsGoThroughTests` speak of all paths
from a block to another, and paths cannot be followed by induction here. Both are
stated with sets closed under edges, so it is enough to keep a fact about each edge
and to exhibit a set. For locals the fact is `DataFlowInv`: what a block resolves was
known in each block that branches to it or declared in it, and a test still in
progress knows what the code around its while does. For loops, `LoopInv` keeps
the statement about cycles for all blocks that are terminated already
(`CyclesHaveTests`): a block that gets its terminator branches to blocks that have
none yet, or back to a test, and so closes no cycle of other blocks. Around each test
`LoopsAreClosed` keeps a set that can be left through it only, which holds the
entry and everything in progress but not the block that branches back: the test
dominates that block (`AllocasDominateUses`, `OnlyWhilesLoop`). TLC checked the parts of both invariants
first.

`ModuleBuildProofs`. `BuildInv` says of each call of `extractModules` in progress
that every import of its block is loaded, pending, or being visited by the next
call (`CallInv`), that loaded headers are closed at all times because a module
enters the map after its imports, and that whatever is visited belongs to every
closed set around the source's imports. From this `LoaderComputesClosure`.
`StoreInv` says of each bitcode that any set around what its sources import that is
closed under the headers of its time has all it was compiled against (`IsClosure`, from
`LoadedIsClosure` when it is compiled); `WriterInv` carries the two files through the
four writes. Hence `ProgramsAreLinkedCompletely`: while those headers say the same, the
loaded modules are such a set. For `CyclesAreVisible`: if the target were not
loaded, the loaded part of the new cycle would already have been one. For
`OnlyCyclesOverflow`, `ChainInv` says that each call of `extractModules` visits a
module that the header of the call below imports; by the pigeonhole principle a
chain of `MaxDepth` calls visits some module twice, and the calls between are a
cycle of headers. `RunsComeCloserToTheEnd` is the half of `EveryRunEnds` that needs
no fairness: each step of a run leaves fewer targets, fewer phases of its target, or
less to visit, the calls compared from the outermost on (`ComesCloser`); there are
never more than `MaxDepth` of them, so finitely many modules allow no infinite descent.

`DeclarationsProofs`, for any modules, names and files. `TypesAreCorrect` rests on
lemmas about extraction (a statement becomes a statement), mangling and
resolution (they only make symbols), with one lemma per action; the invariant
adds that only modules write headers. `AllocatorIsDeclaredFirst`: either the
allocator is declared or its declaration is pending (`AllocatorIsReady`), and then
`AllocatorPrecedesTypes` says no type can be next. `ModuleIsDisplacedByImports`:
no header has a module statement, a block is what was merged until its first
statement is looked at, and a first statement that is not the module's must have
priority 0 and a line not larger, hence be an import of another file or header
(`FirstIsModuleOrImport`), the file's own imports having larger lines.

The other theorems need to know what has been generated at any moment, which no
variable records: `SeenInv` says it of `Seen`, the statements of the block (`Block`)
that are no longer pending. The types and symbols known are exactly those of what
was seen (`TypesAreSeen`, `SymbolsAreSeen`), and nothing pending goes before
something seen (`InOrder`). When a function is next, everything but functions has
been seen, so `FunctionsSeeNames` follows from what is in the block
(`TypesOfBlock`, `FunctionsAreFound`); it fails for own declarations of the
allocator, which come before types, and the property says so.

`HeadersDenoteSources`: `DenoteInv` says that a header is made of the declarations
extracted from the files it was built from, each once and in some order
(`Written`). That no function is declared twice comes from `SeenInv`: a block in which
two statements had one symbol would not have been generated to its end
(`DeclaredOnce`), and two files with such functions would see each other's.

`StandaloneFilesAreCompiled` examines each reason for which a statement can be refused
(`Reason`) and finds, in the file as written, a statement that must have been
generated before (`LegalIsNotRefused`); `SymbolsDiffer` shows that functions,
constructors and C functions of a legal file never share a symbol.

`LinkedProgramsAreComplete`: `LinkInv` says of each stored bitcode, and of each file
generated so far, that what it needs is `Promised`: defined by its own target,
declared in a header it loads, or declared by hand. It is kept because new headers
take nothing away from what is loaded (`LoadingGrows`) and because what a loaded
module loads is loaded (`LoadedIsClosed`); a promise in a header leads to a
definition by `DenoteInv` (`HeaderFunctions`, `PromisesAreKept`), and the linker has
checked that there is only one. TLC checked `LinkInv` over the states of
`declarations`.

`CommandProofs`. `ProcessInv` relates the two program points: the child is reaped
before the first read, so that an empty pipe stays empty; a stream is left only
when all that was written is collected. Theorems: `CommandTypes`,
`NothingEverLeaks`, `ReportsAreFaithful`. For progress, `EndsInv` adds which ends of
pipes are open where somebody waits, so that an end of file is never waited for in
vain: `OnlyOutputBlocks` says that either process has a step to take unless the
child fills a pipe while the parent waits for its end, the deadlock of
`blocked_command`, and that none of this happens to a command whose output fits in
its pipes. `CommandsRunDown` counts what is left of both processes and of the output
(`Work`), which every step decreases.

`ToolsProofs`. The invariant of a command starts again with each one: `ProcessInv`
holds whenever a command is being executed and its last state is kept while the
tool judges it, which carries the theorems of `CommandProofs` over
(`CommandsOfToolsAreReported`). `SummariesAreTrue` counts: the results are exactly
those of the tests before the current one, in the order of the loops, and each
counter is the cardinality of a part of them. `LinkedProgramsAreNew` follows the
two files through the steps of `starkc`. `OnlyOutputHoldsToolsUp` and `ToolsRunDown`
carry the progress of a command over to the tool, ordered by files, tests, places
and what is left of the command.

`ExpressionsProofs`. The invariant says that every entry and variable is `Faithful`,
and that an entry that is null has type any; each action's step is then examined
once for the properties of `last` (`LastInv`), which is why
`GeneratedCodeIsWellTyped` and `DocumentedIsAccepted` hold for any structs and
functions. For the latter each operation has a lemma that compares its checks with what
is legal (`BinaryChecks`, `ComparisonChecks`, `ConversionChecks`, `MemberChecks`,
`AssignmentChecks`), and each step shows besides that what is accepted though not legal
is indeed not legal, and what is refused though legal is refused (`DocumentedStep`).

`RuntimeProofs`. That strings are values is proved for any number of addresses,
texts, variables and arguments and any collector that gives more than it is asked
for (`RuntimeAssumption`), where a run has a few addresses. The refinement is not
inductive on its own: `RuntimeInv` adds that the length of every string the
program holds is that of its characters (`VarsInv`, `ArgsInv`, `CStringInv`), what
the extraction of the arguments has built so far (`ExtractInv`), and what the
operands and the first block of a call in progress are (`CallInv`), that block
being `Apart` from everything the program holds. Two facts carry the steps. A
block the collector gives leads to nothing held (`NotReached`, `Fresh`), since what
the program holds is at most three steps from the roots, which is how deep
`Reached` follows; and a heap changed only where nothing held leads keeps every
text (`ValuesKept`, `HeldKept`). Each action then changes one variable to the text
its operation is said to give (`Shown`), and `AbstractStep` maps that to a step of
`StringValues` or a stutter. TLC also checked `RuntimeInv` over the states of
`runtime`. Theorems: `RuntimeTypes`, `RuntimeWritesFit`, `RuntimeStringsAreValues`.

Only model-checked: liveness (`EveryRunEnds`, `ToolsEnd`), which needs ENABLED, and
the violated properties. Of both, the theorems above leave the scheduling to TLC:
every step comes closer to the end (`RunsComeCloserToTheEnd`, `CommandsRunDown`,
`ToolsRunDown`) and the tools always have a step to take (`OnlyOutputHoldsToolsUp`,
which spells out the guards; TLC found them equivalent to ENABLED).
Induction over data cannot be proved with the installed provers, and operators
declared RECURSIVE are kept out of these modules.

## 5. Plan

1. *Declarations* with rebuilds: its composition with ModuleBuild, where sources
   use modules they do not import and modules are rebuilt between two uses.
2. Abstract specifications: atomic command execution implemented by Command;
   a loader that computes the closure in one step implemented by ModuleBuild.
3. Proofs: the two refinements of point 2.

## 6. Not modelled

The parser (generated), option parsing, formatting, logging and escapes
(`StringUtil.cpp:52`, which replaces one kind of escape after another, so that an
escaped backslash followed by an n becomes a backslash and a new line), the
parsing of numbers and the digits of doubles (`PrimaryTypes.cpp:35`), the text of
command lines, LLVM's optimisation and execution, a failing allocation, the
unfinished prototype interpreter.

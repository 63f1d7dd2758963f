------------------------------- MODULE CodeGen -------------------------------
(***************************************************************************)
(* The control-flow half of the code generator: CodeGenVisitor walking one *)
(* AST while CodeGenFileContext keeps a stack of blocks.  One action is    *)
(* one piece of a visit between two recursive accept() calls.              *)
(*                                                                         *)
(* What is kept: the LLVM basic blocks and their terminators, the block    *)
(* stack (locals, merge flag, pending return value) and the activation     *)
(* records of the recursive visits.  What is abstracted: types, constants  *)
(* and instructions, of which only the block that computes a value stays.  *)
(* The AST is not fixed in advance: every step chooses the next statement, *)
(* so a behaviour is the generation of one program.                        *)
(***************************************************************************)
EXTENDS Naturals, Sequences, SequencesExt

CONSTANTS
  Names,            (* variable names a program may use                     *)
  Args,             (* the name "args", a local of the interpreter's main   *)
  ReturnKinds,      (* kinds of values its return statements have           *)
  MaxFunctions,     (* bound: functions one file may define                 *)
  MaxBlocks,        (* bound: basic blocks one file may need                *)
  MaxFrames         (* bound: nesting depth of functions and blocks         *)

ASSUME CodeGenAssumption ==
  /\ Args \in Names
  /\ ReturnKinds \subseteq {"const", "inst"}
  /\ MaxFunctions \in Nat
  /\ MaxBlocks \in Nat \ {0}
  /\ MaxFrames \in Nat \ {0}

VARIABLES
  bbs,      (* basic blocks, in creation order: a block is its index in bbs *)
  stack,    (* CodeGenFileContext::blocks                                   *)
  frames,   (* activation records of the visits in progress                 *)
  status    (* "running", "done", or the logError that stopped the compiler *)

vars == <<bbs, stack, frames, status>>

-----------------------------------------------------------------------------
(* Values: a null Value pointer, an indeterminate one, a constant (or a    *)
(* function) usable anywhere, and an instruction of block "at".            *)
NoValue     == [kind |-> "none",    at |-> 0]
Garbage     == [kind |-> "garbage", at |-> 0]
Constant    == [kind |-> "const",   at |-> 0]
Computed(b) == [kind |-> "inst",    at |-> b]
Value == [kind : {"none", "garbage", "const", "inst"}, at : Nat]

(* A name maps to the block holding its alloca, 0 when it is not declared. *)
Locals == [Names -> Nat]
LocalsOfPartial(declared, b) == [x \in declared |-> b]             \* mutant
LocalsOf(declared, b) == [x \in Names |-> IF x \in declared THEN b ELSE 0]

(* "locals" is what the terminated block could name: a record kept for the *)
(* dominance property, not part of the instruction.                        *)
Terminator == [op : {"br", "condbr", "ret"}, succ : SUBSET Nat,
               value : Value, locals : Locals]

BlockName == {"entry", "if", "else", "ifcont", "whiletest", "while", "whilecont"}
BasicBlock == [name : BlockName, fn : Nat, placed : BOOLEAN, terms : Seq(Terminator)]
StackEntry == [block : Nat, locals : Locals, isMergeBlock : BOOLEAN, returnValue : Value]

(* "block" is the basic block the visit generates into, "base" the height   *)
(* of the stack once it is pushed (auxiliary), "other" the else block of an *)
(* if (0 without else) or the test block of a while, "last" the result of   *)
(* the latest statement and "empty" whether there was none so far.          *)
FrameKind == {"main", "function", "if", "else", "while"}
Frame == [kind : FrameKind, block : Nat, base : Nat, other : Nat, merge : Nat,
          void : BOOLEAN, last : Value, empty : BOOLEAN]

-----------------------------------------------------------------------------
(* CodeGenFileContext                                                      *)

Top     == Last(stack)
Current == Top.block
IsDeclared(x) == Top.locals[x] # 0

Entry(b, locals) ==
  [block |-> b, locals |-> locals, isMergeBlock |-> FALSE, returnValue |-> NoValue]

(* pushBlock(b, true) copies the locals of the entry it covers *)
PushBare(s, b) == Append(s, Entry(b, LocalsOf({}, b)))             \* mutant
PushInheriting(s, b) == Append(s, Entry(b, Last(s).locals))

(* An if or a while leaves its merge block on the stack; popBlock removes  *)
(* those together with the entry below them.                               *)
LastPlainEntry(s) == SelectLastInSeq(s, LAMBDA e : ~e.isMergeBlock)
PopOne(s) == Front(s)                                              \* mutant
PopTooFar(s) ==                                                    \* mutant
  LET rest == SubSeq(s, 1, LastPlainEntry(s) - 1) IN SubSeq(rest, 1, LastPlainEntry(rest))
PopBlock(s) == SubSeq(s, 1, LastPlainEntry(s) - 1)

(* pushBlock(mergeBlock, true) followed by setMergeBlock(true) *)
PushNothing(s, b) == s                                             \* mutant
PushMerge(s, b) == Append(s, [Entry(b, Last(s).locals) EXCEPT !.isMergeBlock = TRUE])

-----------------------------------------------------------------------------
(* LLVM: blocks and terminators                                            *)

NewBlock(name, fn, placed) == [name |-> name, fn |-> fn, placed |-> placed, terms |-> <<>>]

Br(b)         == [op |-> "br",     succ |-> {b},    value |-> NoValue, locals |-> Top.locals]
CondBr(b, c)  == [op |-> "condbr", succ |-> {b, c}, value |-> NoValue, locals |-> Top.locals]
Ret(v)        == [op |-> "ret",    succ |-> {},     value |-> v,       locals |-> Top.locals]

(* the block the builder stands in receives a terminator *)
Terminate(t) == [bbs EXCEPT ![Current].terms = Append(@, t)]

PlaceNever(code, b) == code                                        \* mutant
Place(code, b) == [code EXCEPT ![b].placed = TRUE]

CurrentFunction == bbs[Current].fn

(* a nested statement list ends: return what was asked for, or go on at b *)
ReturnOrBranch(b) == IF Top.returnValue # NoValue THEN Ret(Top.returnValue) ELSE Br(b)

-----------------------------------------------------------------------------
(* Activation records                                                      *)

Innermost == Last(frames)

(* the statement just visited has v as its result *)
Visited(fs, v) ==
  IF fs = <<>> THEN fs
  ELSE [fs EXCEPT ![Len(fs)].last = v, ![Len(fs)].empty = FALSE]

(* logError: the process prints the message and exits *)
Exit(why) ==
  /\ status' = why
  /\ bbs' = <<>> /\ stack' = <<>> /\ frames' = <<>>

-----------------------------------------------------------------------------
(* generateCode: the interpreter has the file wrapped into main(args); the *)
(* compiler starts with an empty stack, which a function definition fills. *)
InitInterpreter ==
  /\ bbs = <<NewBlock("entry", 1, TRUE)>>
  /\ stack = <<Entry(1, LocalsOf({Args}, 1))>>
  /\ frames = <<[kind |-> "main", block |-> 1, base |-> 1, other |-> 0, merge |-> 0,
                 void |-> FALSE, last |-> NoValue, empty |-> TRUE]>>

InitCompiler == bbs = <<>> /\ stack = <<>> /\ frames = <<>>

Init == status = "running" /\ (InitInterpreter \/ InitCompiler)

Running == status = "running"
InsideFunction == Running /\ frames # <<>>

DefineFunction(params, void) ==
  LET b == Len(bbs) + 1 IN
  /\ Running
  /\ Cardinality({i \in 1..Len(bbs) : bbs[i].name = "entry"}) < MaxFunctions
  /\ Len(bbs) < MaxBlocks
  /\ Len(frames) < MaxFrames
  /\ bbs' = Append(bbs, NewBlock("entry", b, TRUE))
  /\ stack' = Append(stack, Entry(b, LocalsOf(params, b)))
  /\ frames' = Append(frames, [kind |-> "function", block |-> b, base |-> Len(stack) + 1,
                               other |-> 0, merge |-> 0, void |-> void,
                               last |-> NoValue, empty |-> TRUE])
  /\ UNCHANGED status

(* The block that is current at the closing brace returns the value stored *)
(* in its stack entry; failing that nothing in a void function, else the   *)
(* result of the last statement.                                           *)
EndFunction ==
  /\ InsideFunction /\ Innermost.kind = "function"
  /\ LET v == IF Top.returnValue # NoValue THEN Top.returnValue
              ELSE IF Innermost.void THEN NoValue ELSE Innermost.last
     IN bbs' = Terminate(Ret(v))
  /\ stack' = PopBlock(stack)
  /\ frames' = Visited(Front(frames), Constant)
  /\ UNCHANGED status

(* end of the file in interpreter mode *)
EndMain ==
  /\ InsideFunction /\ Innermost.kind = "main"
  /\ bbs' = Terminate(Ret(IF Top.returnValue # NoValue THEN Top.returnValue ELSE Constant))
  /\ stack' = PopBlock(stack)
  /\ frames' = Front(frames)
  /\ status' = "done"

(* end of the file when compiling *)
EndFile ==
  /\ Running /\ ~InsideFunction
  /\ status' = "done"
  /\ UNCHANGED <<bbs, stack, frames>>

-----------------------------------------------------------------------------
Declare(x) ==
  /\ IF IsDeclared(x) THEN Exit("redeclared")
     ELSE /\ stack' = [stack EXCEPT ![Len(stack)].locals[x] = Current]
          /\ frames' = Visited(frames, Computed(Current))
          /\ UNCHANGED <<bbs, status>>

(* a statement that reads or assigns a variable *)
Refer(x) ==
  /\ IF ~IsDeclared(x) THEN Exit("undeclared")
     ELSE /\ frames' = Visited(frames, Computed(Current))
          /\ UNCHANGED <<bbs, stack, status>>

(* a statement that names no variable: a call, an operation on constants *)
Compute ==
  /\ frames' = Visited(frames, Computed(Current))
  /\ UNCHANGED <<bbs, stack, status>>

(* the other semantic errors: types, unknown functions, bad identifiers *)
Reject == Running /\ Exit("rejected")

Return(v) ==
  /\ IF bbs[Current].terms # <<>> THEN Exit("rejected")
     ELSE /\ stack' = [stack EXCEPT ![Len(stack)].returnValue = v]
          /\ frames' = Visited(frames, v)
          /\ UNCHANGED <<bbs, status>>

(* an if or a while without any statement generates nothing, and leaves    *)
(* the result of its visitor unset                                         *)
EmptyControl ==
  /\ frames' = Visited(frames, Garbage)
  /\ UNCHANGED <<bbs, stack, status>>

-----------------------------------------------------------------------------
BeginIf(withElse) ==
  LET n     == Len(bbs)
      merge == IF withElse THEN n + 3 ELSE n + 2
      other == IF withElse THEN n + 2 ELSE 0
      fn    == CurrentFunction
      new   == <<NewBlock("if", fn, TRUE)>>
               \o (IF withElse THEN <<NewBlock("else", fn, FALSE)>> ELSE <<>>)
               \o <<NewBlock("ifcont", fn, FALSE)>>
  IN
  /\ merge <= MaxBlocks
  /\ Len(frames) < MaxFrames
  /\ bbs' = Terminate(CondBr(n + 1, IF withElse THEN other ELSE merge)) \o new
  /\ stack' = PushInheriting(stack, n + 1)
  /\ frames' = Append(frames, [kind |-> "if", block |-> n + 1, base |-> Len(stack) + 1,
                               other |-> other, merge |-> merge, void |-> Innermost.void,
                               last |-> NoValue, empty |-> TRUE])
  /\ UNCHANGED status

(* the result of an if in a function that returns something is the result  *)
(* of the branch generated last                                            *)
IfResult == IF Innermost.void THEN Garbage ELSE Innermost.last

EndThen ==
  /\ Innermost.kind = "if"
  /\ IF Innermost.other # 0
     THEN /\ bbs' = Place(Terminate(ReturnOrBranch(Innermost.merge)), Innermost.other)
          /\ stack' = PushInheriting(PopBlock(stack), Innermost.other)
          /\ frames' = [frames EXCEPT ![Len(frames)] =
                          [@ EXCEPT !.kind = "else", !.block = Innermost.other,
                                    !.last = NoValue, !.empty = TRUE]]
     ELSE /\ ~Innermost.empty
          /\ bbs' = Place(Terminate(ReturnOrBranch(Innermost.merge)), Innermost.merge)
          /\ stack' = PushMerge(PopBlock(stack), Innermost.merge)
          /\ frames' = Visited(Front(frames), IfResult)
  /\ UNCHANGED status

EndElse ==
  /\ Innermost.kind = "else"
  /\ ~Innermost.empty
  /\ bbs' = Place(Terminate(ReturnOrBranch(Innermost.merge)), Innermost.merge)
  /\ stack' = PushMerge(PopBlock(stack), Innermost.merge)
  /\ frames' = Visited(Front(frames), IfResult)
  /\ UNCHANGED status

(* The test block is pushed for the time of the condition and popped: its  *)
(* locals are those of the block that branches to it.                      *)
BeginWhile ==
  LET n  == Len(bbs)
      fn == CurrentFunction
      test == [NewBlock("whiletest", fn, TRUE) EXCEPT !.terms = <<CondBr(n + 2, n + 3)>>]
  IN
  /\ n + 3 <= MaxBlocks
  /\ Len(frames) < MaxFrames
  /\ bbs' = Terminate(Br(n + 1))
            \o <<test, NewBlock("while", fn, TRUE), NewBlock("whilecont", fn, FALSE)>>
  /\ stack' = PushInheriting(PopBlock(PushInheriting(stack, n + 1)), n + 2)
  /\ frames' = Append(frames, [kind |-> "while", block |-> n + 2, base |-> Len(stack) + 1,
                               other |-> n + 1, merge |-> n + 3, void |-> Innermost.void,
                               last |-> NoValue, empty |-> TRUE])
  /\ UNCHANGED status

RestartBody == Innermost.block                                     \* mutant
TestAgain   == Innermost.other

EndWhile ==
  /\ Innermost.kind = "while"
  /\ ~Innermost.empty
  /\ bbs' = Place(Terminate(ReturnOrBranch(TestAgain)), Innermost.merge)
  /\ stack' = PushMerge(PopBlock(stack), Innermost.merge)
  /\ frames' = Visited(Front(frames), Garbage)
  /\ UNCHANGED status

-----------------------------------------------------------------------------
Statement ==
  \/ \E x \in Names : Declare(x) \/ Refer(x)
  \/ Compute
  \/ \E v \in {Constant, Computed(Current)} : v.kind \in ReturnKinds /\ Return(v)
  \/ EmptyControl

Control ==
  \/ \E withElse \in BOOLEAN : BeginIf(withElse)
  \/ EndThen \/ EndElse
  \/ BeginWhile \/ EndWhile

Next ==
  \/ \E params \in SUBSET Names, void \in BOOLEAN : DefineFunction(params, void)
  \/ EndFunction \/ EndMain \/ EndFile
  \/ InsideFunction /\ (Statement \/ Control)
  \/ Reject

Spec == Init /\ [][Next]_vars

-----------------------------------------------------------------------------
(* Types of the four variables. *)
TypeOK ==
  /\ bbs \in Seq(BasicBlock)
  /\ stack \in Seq(StackEntry)
  /\ frames \in Seq(Frame)
  /\ status \in {"running", "done", "undeclared", "redeclared", "rejected"}

(* The block stack mirrors the nesting of the source: the entry a visit    *)
(* pushed is still at its place when the visit goes on, and everything     *)
(* above it, up to the entry of the visit it is waiting for, is the merge  *)
(* block of a finished if or while of the same function.  popBlock guesses *)
(* the height to come back to from the isMergeBlock flags                  *)
(* (CodeGenFileContext.cpp:256); this is why the guess is right.           *)
EndOfFrame(k) == IF k < Len(frames) THEN frames[k+1].base - 1 ELSE Len(stack)

StackMirrorsNesting ==
  /\ frames = <<>> => stack = <<>>
  /\ frames # <<>> => frames[1].base = 1
  /\ \A k \in 1..Len(frames) :
       /\ frames[k].base \in 1..EndOfFrame(k)
       /\ EndOfFrame(k) <= Len(stack)
       /\ stack[frames[k].base].block = frames[k].block
       /\ ~stack[frames[k].base].isMergeBlock
       /\ \A i \in (frames[k].base + 1)..EndOfFrame(k) : stack[i].isMergeBlock
       /\ \A i \in frames[k].base..EndOfFrame(k) :
            bbs[stack[i].block].fn = bbs[frames[k].block].fn

(* The builder only ever writes at the end of a block that is still open,  *)
(* and of those it has covered by a nested visit or by a merge block, only *)
(* the ones waiting for a nested function are open too.                    *)
InsertionPointIsOpen ==
  \A k \in 1..Len(frames) :
    LET last == EndOfFrame(k)
        waitsForFunction == k < Len(frames) /\ frames[k+1].kind = "function"
        open == k = Len(frames) \/ waitsForFunction
    IN \A i \in frames[k].base..last :
         bbs[stack[i].block].terms = <<>> <=> (i = last /\ open)

(* What the two invariants above rest on: frames and blocks lie on the     *)
(* stack in the order they were created in, and the blocks a visit created *)
(* without inserting them yet are empty, belong to its function and are    *)
(* older than whatever was pushed since.                                   *)
BlocksInOrder ==
  /\ \A i \in 1..Len(stack) : stack[i].block \in 1..Len(bbs)
  /\ \A i, j \in 1..Len(stack) : i < j => stack[i].block < stack[j].block
  /\ \A k, l \in 1..Len(frames) : k < l => frames[k].base < frames[l].base

Reserved(k) ==
  {r \in {frames[k].other, frames[k].merge} :
     /\ r # 0
     /\ \/ frames[k].kind = "if"
        \/ frames[k].kind \in {"else", "while"} /\ r = frames[k].merge}

ReservedBlocks ==
  \A k \in 1..Len(frames) :
    /\ frames[k].kind = "main" => k = 1
    /\ frames[k].kind \in {"if", "else", "while"} =>
         /\ k > 1 /\ frames[k].merge # 0
         /\ bbs[frames[k].block].fn = bbs[frames[k-1].block].fn
    /\ frames[k].kind = "if" => frames[k].other < frames[k].merge
    /\ frames[k].kind = "while" => frames[k].other < frames[k].block
    /\ \A r \in Reserved(k) :
         /\ r \in (frames[k].block + 1)..Len(bbs)
         /\ \A i \in (frames[k].base + 1)..Len(stack) : r < stack[i].block
         /\ bbs[r].terms = <<>>
         /\ bbs[r].fn = bbs[frames[k].block].fn

StackInv ==
  /\ TypeOK
  /\ StackMirrorsNesting
  /\ InsertionPointIsOpen
  /\ BlocksInOrder
  /\ ReservedBlocks

-----------------------------------------------------------------------------
(* The control-flow graph of the functions whose visit is over.            *)

Body(fn)  == {b \in 1..Len(bbs) : bbs[b].fn = fn}
Finished  == {b \in 1..Len(bbs) :
                /\ bbs[b].name = "entry"
                /\ \A k \in 1..Len(frames) :
                     frames[k].kind \in {"main", "function"} => frames[k].block # b}
Succ(b)   == UNION {bbs[b].terms[i].succ : i \in 1..Len(bbs[b].terms)}

(* no path from the entry of fn to u avoids d *)
Dominates(fn, d, u) ==
  \/ d = u
  \/ \E reached \in SUBSET (Body(fn) \ {u}) :
       /\ fn \in reached
       /\ \A b \in reached \ {d} : Succ(b) \subseteq reached

(* Every block of a finished function was inserted into it, ends with one  *)
(* terminator and branches to blocks of the same function other than its   *)
(* entry: what LLVM requires of a function body.                           *)
WellFormedBodies ==
  \A fn \in Finished : \A b \in Body(fn) :
    /\ bbs[b].placed
    /\ Len(bbs[b].terms) = 1
    /\ Succ(b) \subseteq Body(fn) \ {fn}

(* A name resolved in a block stands for an alloca that every path to the  *)
(* block executes first: copying the map of locals from entry to entry     *)
(* never lets a declaration of one branch reach the code after it, of the  *)
(* other branch, of a nested function.                                     *)
LocalsDominateUses ==
  \A fn \in Finished : \A b \in Body(fn) : \A i \in 1..Len(bbs[b].terms) :
    \A x \in Names :
      LET decl == bbs[b].terms[i].locals[x]
      IN decl # 0 => Dominates(fn, decl, b)

(* The generated code loops only where the source does: a cycle of blocks  *)
(* goes through the test of a while, and the test is in charge of the      *)
(* whole loop (the back edge comes from a block it dominates).             *)
LoopsGoThroughTests ==
  \A fn \in Finished :
    LET tests == {b \in Body(fn) : bbs[b].name = "whiletest"} IN
    /\ \A cycle \in SUBSET (Body(fn) \ tests) :
         cycle # {} => \E b \in cycle : Succ(b) \cap cycle = {}
    /\ \A t \in tests : \A b \in Body(fn) :
         (t \in Succ(b) /\ b > t) => Dominates(fn, t, b)

-----------------------------------------------------------------------------
(* A visit only works above the entry its function pushed: whatever the    *)
(* body contains, the code around a nested function finds its own entries  *)
(* as it left them.                                                        *)
EnclosingEntriesUntouched ==
  [][status' # "running" \/ \A k \in 1..Len(frames) :
       k > 1 /\ frames[k].kind = "function" =>
         /\ Len(stack') >= frames[k].base - 1
         /\ \A i \in 1..(frames[k].base - 1) : stack'[i] = stack[i]]_vars

(* The declared scopes: the names a frame can see and its parent cannot. *)
Visible(k) == {x \in Names : stack[EndOfFrame(k)].locals[x] # 0}
IsFunction(k) == frames[k].kind \in {"main", "function"}

Scopes == INSTANCE LexicalScope WITH
  scopes  <- [k \in 1..Len(frames) |->
               [own    |-> IF IsFunction(k) THEN Visible(k) ELSE Visible(k) \ Visible(k-1),
                opaque |-> IsFunction(k)]],
  verdict <- IF status = "running" THEN "ok" ELSE status

(* Copying the visible names into every new stack entry implements lexical *)
(* scoping: a name is accepted, refused as undeclared or refused as        *)
(* already declared exactly when the braces of the source say so.          *)
ImplementsLexicalScope == Scopes!Spec

-----------------------------------------------------------------------------
(* Claims of the source and the documentation that the code does not keep. *)

(* "Add return at the end. If no return : add a default one"               *)
(* (CodeGenVisitor.cpp:588-589): the default return is for bodies whose    *)
(* own statements contain no return.                                       *)
DefaultReturnMeansNoReturn ==
  [][(status' # "rejected" /\ frames # <<>> /\ Len(frames') < Len(frames)
        /\ IsFunction(Len(frames)) /\ Top.returnValue = NoValue)
      => \A i \in Innermost.base..Len(stack) : stack[i].returnValue = NoValue]_vars
=============================================================================

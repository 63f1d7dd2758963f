----------------------------- MODULE Expressions -----------------------------
(***************************************************************************)
(* The types of generated code: how CodeGenVisitor turns the expressions   *)
(* and the variables of one function body into typed LLVM values, what     *)
(* CodeGenChecker and the type objects refuse, and what they let through.  *)
(*                                                                         *)
(* The visitor is recursive; here it is a machine in postfix order whose   *)
(* stack holds the results of the visits in progress: values, addresses    *)
(* being resolved, and a mark for each node still waiting for operands.    *)
(* An entry has the type of the LLVM value and the type the source gives   *)
(* it ("meant"): they differ once an array flag is lost.  Branches and     *)
(* blocks are in CodeGen, names of functions and types in Declarations.    *)
(***************************************************************************)
EXTENDS Naturals, Sequences

CONSTANTS
  Structs,     (* name of a struct -> its members, in order                *)
  Functions,   (* name of a function -> its parameters and its result      *)
  Uncallable,  (* main and the private functions of the runtime            *)
  Bodies,      (* the functions a body is generated for                    *)
  Variables,   (* names of variables                                       *)
  MaxStack     (* bound: visits in progress                                *)

Primary == {"int", "double", "bool", "void", "any"}
Names == Primary \cup {"string"} \cup DOMAIN Structs
Type == [name : Names, array : BOOLEAN]
Plain(n) == [name |-> n, array |-> FALSE]
ArrayOf(n) == [name |-> n, array |-> TRUE]
IntType == Plain("int")
DoubleType == Plain("double")
BoolType == Plain("bool")
VoidType == Plain("void")
AnyType == Plain("any")
StringType == Plain("string")
AnyPointer == Plain("any*")    (* i8**: only ever a default value          *)
Complex(t) == t.array \/ t.name \notin Primary
Nullable(t) == Complex(t) \/ t = AnyType

ASSUME ExpressionsAssumption ==
  /\ MaxStack \in Nat \ {0}
  /\ Primary \cap DOMAIN Structs = {} /\ "string" \notin DOMAIN Structs
  /\ DOMAIN Structs \cap DOMAIN Functions = {}
  /\ \A s \in DOMAIN Structs : Structs[s] \in Seq([name : STRING, type : Type])
  /\ \A f \in DOMAIN Functions :
       /\ Functions[f].params \in Seq([name : Variables, type : Type])
       /\ Functions[f].result \in Type
       /\ Functions[f].foreign \in BOOLEAN
  /\ Bodies \subseteq DOMAIN Functions /\ \A f \in Bodies : ~Functions[f].foreign

VARIABLES
  body,     (* the function                                                *)
  stack,    (* visits in progress, the last one on top                     *)
  locals,   (* variables of the body                                       *)
  entered,  (* parameters of the body that were made variables             *)
  last,     (* the last step: its operands, what its code takes and gets   *)
  status    (* "running", "refused" by logError, or "crashed" on a nullptr *)

vars == <<body, stack, locals, entered, last, status>>

Callees == DOMAIN Structs \cup DOMAIN Functions
Declared == [type : Type, meant : Type]
Undeclared == [type |-> VoidType, meant |-> AnyPointer]

(* "of" says whose arguments a call waits for, and what an address is for. *)
Kinds == {"value", "null", "address", "indexed", "target", "call", "array", "elements"}
Entry == [kind : Kinds, type : Type, meant : Type, of : Callees \cup {"", "load", "store"}]
Mark(k, t, m, of) == [kind |-> k, type |-> t, meant |-> m, of |-> of]
Value(t, m) == Mark("value", t, m, "")
Null == Mark("null", AnyType, AnyType, "")

-----------------------------------------------------------------------------
(* How a step ends: the types its instruction takes, and those it is given *)
Accept(wants, gets) == [verdict |-> "running", wants |-> wants, gets |-> gets]
Refuse == [verdict |-> "refused", wants |-> <<>>, gets |-> <<>>]
Crash == [verdict |-> "crashed", wants |-> <<>>, gets |-> <<>>]

Logic == {"OR", "AND"}
Arithmetic == {"ADD", "SUB", "MUL", "DIV"}
Equality == {"EQ", "NE"}
Order == {"LT", "LE", "GT", "GE"}

(* createBinaryOperation of the type both operands have.  The visitor does *)
(* not look array types up where they are: it finds a nullptr.  Or and And *)
(* are instructions on integers, for doubles too.                          *)
BinaryOperation(t, op) ==
  CASE t.array -> Crash
    [] t = IntType -> Accept(<<t, t>>, <<t, t>>)
    [] t = DoubleType -> Accept(IF op \in Logic THEN <<IntType, IntType>> ELSE <<t, t>>, <<t, t>>)
    [] t = BoolType /\ op \in Logic -> Accept(<<t, t>>, <<t, t>>)
    [] t = StringType /\ op = "ADD" -> Accept(<<t, t>>, <<t, t>>)
    [] OTHER -> Refuse

PrimaryComparison(t, op) ==
  IF t \in {IntType, DoubleType, BoolType} \/ (t = AnyType /\ op \in Equality)
  THEN Accept(<<t, t>>, <<t, t>>) ELSE Refuse

(* Addresses are compared: one operand is null, the other is a pointer.    *)
NullComparison(l, op, r) ==
  IF /\ l.kind = "null" \/ r.kind = "null"
     /\ ~Complex(l.type) \/ ~Complex(r.type)
     /\ op \in Equality
  THEN Accept(<<l.type, r.type>>, <<l.type, r.type>>) ELSE Refuse

(* Mutant: strings have the comparison every complex type has.             *)
AddressesOnly(l, op, r) == NullComparison(l, op, r)

(* Both halves of the test on the operands are about the left one.         *)
StringComparison(l, op, r) ==
  IF l.type = StringType /\ r.kind # "null" /\ op \in Equality
  THEN Accept(<<StringType, StringType>>, <<l.type, r.type>>) ELSE NullComparison(l, op, r)

Comparison(l, op, r) ==
  IF ~Complex(l.type) /\ ~Complex(r.type)
  THEN IF l.type = r.type THEN PrimaryComparison(l.type, op) ELSE Refuse
  ELSE IF (IF Complex(l.type) THEN l.type ELSE r.type) = StringType
       THEN StringComparison(l, op, r) ELSE NullComparison(l, op, r)

(* Names of the types a value of type t can be converted to                *)
Conversions(t) ==
  CASE t = IntType -> {"int", "string", "double"}
    [] t = DoubleType -> {"double", "string"}
    [] t = BoolType -> {"bool", "string", "int", "double"}
    [] t = VoidType -> {"void"}
    [] t = StringType -> {"string", "any", "int", "double", "bool"}
    [] OTHER -> {"any"}

(* The null of the slot replaces a null before types are compared.         *)
Assigned(e, slot) == IF e.kind = "null" THEN slot ELSE e.type
AssignAnything(type, slot) == TRUE    \* mutant
CanAssign(type, slot) == type = slot

(* Default values go by the name of the type, arrays by that of elements   *)
DefaultType(t) == IF t.name = "any" THEN AnyPointer
                  ELSE IF t.name \in Primary THEN Plain(t.name) ELSE t

(* The type of member m of t: none or one, the first declared of that name *)
(* ("elements", the pointer inside an array, has no Type: see README.md).  *)
Member(t, m) ==
  IF t.array THEN {u \in {IntType} : m = "len"}
  ELSE IF t = StringType THEN {u \in {IntType} : m = "len"} \cup {u \in {AnyType} : m = "data"}
  ELSE IF t.name \in DOMAIN Structs
       THEN LET members == Structs[t.name]
                Named == {i \in DOMAIN members : members[i].name = m}
            IN {members[i].type : i \in {j \in Named : \A k \in Named : j <= k}}
  ELSE {}

(* What the source declares, and the LLVM signature made of it.  A clone   *)
(* of the tree is what is visited, and cloning an identifier drops its     *)
(* array flag: that of a result, always, and that of the parameters of a   *)
(* function that is only declared, which is read from the same place.      *)
Params(c) == IF c \in DOMAIN Structs THEN [i \in DOMAIN Structs[c] |-> Structs[c][i].type]
             ELSE [i \in DOMAIN Functions[c].params |-> Functions[c].params[i].type]
Result(c) == IF c \in DOMAIN Structs THEN Plain(c) ELSE Functions[c].result
Foreign(c) == c \in DOMAIN Functions /\ Functions[c].foreign
ClonedParams(c) == IF Foreign(c) THEN [i \in DOMAIN Params(c) |-> Plain(Params(c)[i].name)]
                                 ELSE Params(c)
ClonedResult(c) == Plain(Result(c).name)

-----------------------------------------------------------------------------
Top(k) == stack[Len(stack) - k + 1]
Operands(n) == SubSeq(stack, Len(stack) - n + 1, Len(stack))
Replace(n, e) == Append(SubSeq(stack, 1, Len(stack) - n), e)
Evaluated(n) == n <= Len(stack) /\ \A k \in 1..n : Top(k).kind \in {"value", "null"}
OnTop(k, kinds) == k <= Len(stack) /\ Top(k).kind \in kinds
Generating == status = "running" /\ entered = Len(Params(body))

Records(op, detail, operands, outcome) ==
  /\ status' = outcome.verdict
  /\ last' = [op |-> op, detail |-> detail, operands |-> operands,
              wants |-> outcome.wants, gets |-> outcome.gets, verdict |-> outcome.verdict]

(* A visit ends, or goes on: the n operands on top make way for entry e.   *)
Visit(op, detail, n, outcome, e) ==
  /\ Records(op, detail, Operands(n), outcome)
  /\ Len(stack) - n < MaxStack
  /\ stack' = IF outcome.verdict = "running" THEN Replace(n, e) ELSE stack
  /\ UNCHANGED <<body, locals, entered>>

(* A statement ends with the value of its expression.                      *)
Statement(op, detail, outcome) ==
  /\ Len(stack) = 1 /\ Evaluated(1)
  /\ Records(op, detail, stack, outcome)
  /\ stack' = <<>>
  /\ UNCHANGED <<body, entered>>

DeclareWithoutFlag(v, t, m) == locals' = [locals EXCEPT ![v] = [type |-> Plain(t.name), meant |-> m]]    \* mutant
Declare(v, t, m) == locals' = [locals EXCEPT ![v] = [type |-> t, meant |-> m]]

ExpressionsInit ==
  /\ body \in Bodies
  /\ stack = <<>>
  /\ locals = [v \in Variables |-> Undeclared]
  /\ entered = 0
  /\ last = [op |-> "none", detail |-> "", operands |-> <<>>, wants |-> <<>>, gets |-> <<>>,
             verdict |-> "running"]
  /\ status = "running"

SkipParameter == entered + 2    \* mutant
NextParameter == entered + 1

(* A parameter becomes a variable: declared without a value, so that its   *)
(* default is stored, and the argument is stored over it.  The only one of *)
(* main is made by the runtime, as an "any".                               *)
EnterParameter ==
  /\ status = "running" /\ entered < Len(Params(body))
  /\ LET p == Functions[body].params[entered + 1]
         args == body = "main" /\ Len(Params(body)) = 1 /\ p.type = ArrayOf("string")
     IN /\ Records("parameter", "", <<Value(p.type, p.type)>>,
                   IF args THEN Accept(<<p.type>>, <<AnyType>>)
                   ELSE IF locals[p.name] # Undeclared \/ p.type.name = "void" THEN Refuse
                   ELSE Accept(<<p.type, p.type>>, <<DefaultType(p.type), p.type>>))
        /\ Declare(p.name, p.type, p.type)
  /\ entered' = NextParameter
  /\ UNCHANGED <<body, stack>>

Literal(t) ==
  /\ Generating /\ t \in {IntType, DoubleType, BoolType, StringType}
  /\ Visit("literal", t.name, 0, Accept(<<>>, <<>>), Value(t, t))

NullLiteral == Generating /\ Visit("null", "", 0, Accept(<<>>, <<>>), Null)

(* [e1, e2, ...]: every element must have the type name of the one before  *)
StartArray == Generating /\ Visit("array", "", 0, Accept(<<>>, <<>>), Mark("array", VoidType, VoidType, ""))

Element ==
  /\ Generating /\ Evaluated(1) /\ OnTop(2, {"array", "elements"})
  /\ LET e == Top(1) IN
     Visit("element", "", 2,
           IF Top(2).kind = "elements" /\ e.type # Top(2).type THEN Refuse
           ELSE Accept(<<Plain(e.type.name)>>, <<e.type>>),
           Mark("elements", e.type, e.meant, ""))

(* The array of an array type is that type; an empty array is one of void. *)
FinishArray ==
  /\ Generating /\ OnTop(1, {"array", "elements"})
  /\ LET n == Top(1).type.name IN
     Visit("elements", "", 1,
           IF Top(1).kind = "array" THEN Accept(<<VoidType>>, <<VoidType>>) ELSE Accept(<<>>, <<>>),
           Value(ArrayOf(n), ArrayOf(n)))

-----------------------------------------------------------------------------
(* Paths: getComplexTypeMemberValue, one level per step                    *)
Variable(v) ==
  /\ Generating
  /\ Visit("variable", v, 0,
           IF locals[v] = Undeclared THEN Refuse ELSE Accept(<<>>, <<>>),
           Mark("address", locals[v].type, locals[v].meant, "load"))

StartIndex ==
  /\ Generating /\ OnTop(1, {"address"})
  /\ LET a == Top(1) IN
     Visit("array of index", "", 1,
           IF ~Complex(a.type) THEN Crash ELSE IF ~a.type.array THEN Refuse ELSE Accept(<<>>, <<>>),
           [a EXCEPT !.kind = "indexed"])

(* The cast of the index is made for integers of any width, bool included. *)
FinishIndex ==
  /\ Generating /\ Evaluated(1) /\ OnTop(2, {"indexed"})
  /\ LET i == Top(1).type  n == Top(2).type.name IN
     Visit("index", "", 2,
           Accept(<<IF i = BoolType THEN BoolType ELSE IntType>>, <<i>>),
           Mark("address", Plain(n), Plain(n), Top(2).of))

MemberOf(m) ==
  /\ Generating /\ OnTop(1, {"address"})
  /\ LET a == Top(1) IN
     IF ~Complex(a.type) \/ Member(a.type, m) = {}
     THEN Visit("member", m, 1, IF Complex(a.type) THEN Refuse ELSE Crash, a)
     ELSE \E t \in Member(a.type, m) :
            Visit("member", m, 1, Accept(<<>>, <<>>), Mark("address", t, t, a.of))

Load ==
  /\ Generating /\ OnTop(1, {"address"}) /\ Top(1).of = "load"
  /\ Visit("load", "", 1, Accept(<<Top(1).type>>, <<Top(1).type>>), Value(Top(1).type, Top(1).meant))

-----------------------------------------------------------------------------
(* Assignments: the variable, the right-hand side, the path, the store     *)
StartAssignment(v) ==
  /\ Generating
  /\ Visit("assignment", v, 0,
           IF locals[v] = Undeclared THEN Refuse ELSE Accept(<<>>, <<>>),
           Mark("target", locals[v].type, locals[v].meant, ""))

Target ==
  /\ Generating /\ Evaluated(1) /\ OnTop(2, {"target"})
  /\ Visit("target", "", 0, Accept(<<>>, <<>>), Mark("address", Top(2).type, Top(2).meant, "store"))

Store ==
  /\ Generating /\ OnTop(1, {"address"}) /\ Top(1).of = "store"
  /\ OnTop(2, {"value", "null"}) /\ OnTop(3, {"target"})
  /\ LET slot == Top(1).type  given == Assigned(Top(2), slot) IN
     Visit("store", "", 3,
           IF CanAssign(given, slot) THEN Accept(<<slot>>, <<given>>) ELSE Refuse,
           Value(VoidType, VoidType))

(* Operations                                                              *)
Binary(op) ==
  /\ Generating /\ Evaluated(2)
  /\ LET l == Top(2)  r == Top(1) IN
     Visit("binary", op, 2,
           IF l.type # r.type THEN Refuse ELSE BinaryOperation(l.type, op),
           Value(l.type, l.type))

Compare(op) ==
  /\ Generating /\ Evaluated(2)
  /\ Visit("comparison", op, 2, Comparison(Top(2), op, Top(1)), Value(BoolType, BoolType))

Convert(n) ==
  /\ Generating /\ Evaluated(1)
  /\ LET e == Top(1) IN
     Visit("conversion", n, 1,
           IF n \in Conversions(e.type) THEN Accept(<<>>, <<>>) ELSE Refuse,
           IF e.type = Plain(n) THEN e ELSE Value(Plain(n), Plain(n)))

(* Calls: a struct without members has no constructor to be found.         *)
StartCall(c, n) ==
  /\ Generating
  /\ Visit("call", c, 0,
           IF Len(Params(c)) # n \/ (c \in DOMAIN Structs /\ n = 0) THEN Refuse ELSE Accept(<<>>, <<>>),
           Mark("call", ClonedResult(c), Result(c), c))

FinishCall(c) ==
  /\ Generating
  /\ LET n == Len(Params(c))
         slots == ClonedParams(c)
         args == [i \in 1..n |-> Assigned(Top(n - i + 1), slots[i])]
     IN /\ Evaluated(n) /\ OnTop(n + 1, {"call"}) /\ Top(n + 1).of = c
        /\ Visit("arguments", c, n + 1,
                 IF c \notin Uncallable /\ \A i \in 1..n : CanAssign(args[i], slots[i])
                 THEN Accept(slots, args) ELSE Refuse,
                 Value(Top(n + 1).type, Top(n + 1).meant))

-----------------------------------------------------------------------------
(* Statements                                                              *)
Available(v) == locals[v] = Undeclared

(* x: T = e is the declaration, then the assignment x = e.                 *)
DeclareVariable(v, t, assigned) ==
  /\ Generating /\ stack = <<>>
  /\ IF ~Available(v)
     THEN Records("declaration", v, <<>>, Refuse) /\ UNCHANGED <<stack, locals>>
     ELSE IF assigned
     THEN /\ Records("declaration", v, <<>>, Accept(<<>>, <<>>))
          /\ Declare(v, t, t) /\ stack' = <<Mark("target", t, t, "")>>
     ELSE /\ Records("default", v, <<Value(t, t)>>,
                     IF t.name = "void" THEN Refuse ELSE Accept(<<t>>, <<DefaultType(t)>>))
          /\ Declare(v, t, t) /\ UNCHANGED stack
  /\ UNCHANGED <<body, entered>>

InferVariable(v) ==
  /\ Generating /\ Available(v)
  /\ Len(stack) = 1
  /\ Statement("inference", v, Accept(<<Top(1).type>>, <<Top(1).type>>))
  /\ Declare(v, Top(1).type, Top(1).meant)

Discard == Generating /\ Statement("expression", "", Accept(<<>>, <<>>)) /\ UNCHANGED locals

(* if and while take what the expression gives, and so does return.        *)
Condition ==
  /\ Generating /\ Len(stack) = 1
  /\ Statement("condition", "", Accept(<<BoolType>>, <<Top(1).type>>)) /\ UNCHANGED locals

Return ==
  /\ Generating /\ Len(stack) = 1
  /\ Statement("return", "", Accept(<<ClonedResult(body)>>, <<Top(1).type>>)) /\ UNCHANGED locals

MemberNames == {"len", "data"} \cup UNION {{Structs[s][i].name : i \in DOMAIN Structs[s]} : s \in DOMAIN Structs}

ExpressionsNext ==
  \/ EnterParameter
  \/ \E t \in Type : Literal(t)
  \/ NullLiteral \/ StartArray \/ Element \/ FinishArray
  \/ \E v \in Variables : Variable(v) \/ StartAssignment(v) \/ InferVariable(v)
  \/ StartIndex \/ FinishIndex \/ Load \/ Target \/ Store
  \/ \E m \in MemberNames : MemberOf(m)
  \/ \E op \in Logic \cup Arithmetic : Binary(op)
  \/ \E op \in Equality \cup Order : Compare(op)
  \/ \E n \in Names : Convert(n)
  \/ \E c \in Callees : FinishCall(c) \/ \E n \in 0..MaxStack : StartCall(c, n)
  \/ \E v \in Variables, t \in Type, assigned \in BOOLEAN : DeclareVariable(v, t, assigned)
  \/ Discard \/ Condition \/ Return

ExpressionsSpec == ExpressionsInit /\ [][ExpressionsNext]_vars

-----------------------------------------------------------------------------
(* Properties                                                              *)

ExpressionsTypeOK ==
  /\ body \in Bodies
  /\ stack \in Seq(Entry) /\ Len(stack) <= MaxStack
  /\ locals \in [Variables -> Declared \cup {Undeclared}]
  /\ entered \in 0..Len(Params(body))
  /\ status \in {"running", "refused", "crashed"}
  /\ last.operands \in Seq(Entry)
  /\ last.verdict = status

(* Only the array flag of a type is ever lost, and only by the result of a *)
(* function: an entry whose type is not what the source says holds what a  *)
(* function declared to return an array returned, however many variables   *)
(* it went through.  Cloning keeps everything else.                        *)
ArrayResults == {Result(f) : f \in DOMAIN Functions} \cap {ArrayOf(n) : n \in Names}
Faithful(d) == d.meant = d.type \/ (d.meant \in ArrayResults /\ d.type = Plain(d.meant.name))
OnlyArrayResultsLoseTheirType ==
  /\ \A k \in 1..Len(stack) : Faithful(stack[k])
  /\ \A v \in Variables : locals[v] # Undeclared => Faithful(locals[v])

Lost(l) == \E k \in DOMAIN l.operands :
             l.operands[k].kind # "call" /\ l.operands[k].type # l.operands[k].meant
WellTyped(l) == l.wants = l.gets /\ \A k \in DOMAIN l.gets : l.gets[k] # VoidType
NoType == Mark("value", VoidType, VoidType, "")
Left(l) == IF l.operands = <<>> THEN NoType ELSE l.operands[1]

(* Positions no check looks at: conditions, results and indexes; the right *)
(* operand of a string comparison; the default of an array whose elements  *)
(* are primary, and of "any"; an element that is an array; And and Or of   *)
(* doubles; the arguments of main; and whatever void gets into, a          *)
(* variable made of a call that returns nothing included.                  *)
Unchecked(l) ==
  \/ l.op \in {"condition", "return", "index"}
  \/ l.op = "comparison" /\ Left(l).type = StringType
  \/ l.op \in {"default", "parameter"} /\ (Left(l).type = AnyType \/ (Left(l).type.array /\ Left(l).type.name \in Primary))
  \/ l.op = "parameter" /\ body = "main"
  \/ l.op = "element" /\ l.operands[Len(l.operands)].type.array
  \/ l.op = "binary" /\ Left(l).type = DoubleType /\ l.detail \in Logic
  \/ \E k \in DOMAIN l.gets : l.gets[k] = VoidType

(* Every instruction generated is well typed, but at those positions: no   *)
(* sequence of declarations, paths, assignments and calls gets a value of  *)
(* one type where LLVM takes another.                                      *)
CodeIsWellTyped == last.verdict = "running" /\ ~WellTyped(last) => Unchecked(last)

(* What docs/common-concepts.md and the tests of tests/lang say is legal.  *)
(* Values of one type are compared; addresses have no order, and of the    *)
(* complex types only strings are compared with anything but null.  Any    *)
(* complex value is an "any", as what the tests give to assertNull.        *)
Numeric == {IntType, DoubleType, BoolType}
Fits(e, slot) == IF e.kind = "null" THEN Nullable(slot)
                                    ELSE e.meant = slot /\ slot # VoidType
DocumentedConversions(t) ==
  CASE t = IntType -> {"int", "double", "string"}
    [] t = DoubleType -> {"double", "string"}
    [] t = BoolType -> {"bool", "int", "double", "string"}
    [] t = StringType -> {"string", "int", "double", "bool", "any"}
    [] t \in {VoidType, AnyType} -> {}
    [] OTHER -> {"any"}

(* Arrays and strings have a length, a struct has what it declares.        *)
DocumentedMember(t, m) ==
  \/ m = "len" /\ (t.array \/ t = StringType)
  \/ ~t.array /\ t.name \in DOMAIN Structs /\ \E i \in DOMAIN Structs[t.name] : Structs[t.name][i].name = m

Legal(l) ==
  CASE l.op = "binary" ->
         LET m == l.operands[1].meant IN
           l.operands[2].meant = m /\ (m \in Numeric \/ (m = StringType /\ l.detail = "ADD"))
    [] l.op = "comparison" ->
         LET a == l.operands[1]  b == l.operands[2] IN
           \/ a.meant = b.meant /\ a.meant \in Numeric
           \/ l.detail \in Equality /\ a.meant = b.meant /\ a.meant \in {StringType, AnyType}
           \/ l.detail \in Equality /\ a.kind = "null" /\ Nullable(b.meant)
           \/ l.detail \in Equality /\ b.kind = "null" /\ Nullable(a.meant)
    [] l.op = "conversion" -> l.detail \in DocumentedConversions(l.operands[1].meant)
    [] l.op = "store" -> Fits(l.operands[2], l.operands[3].meant)
    [] l.op = "arguments" ->
         l.detail \notin Uncallable /\ \A i \in 1..Len(Params(l.detail)) : Fits(l.operands[i + 1], Params(l.detail)[i])
    [] l.op = "array of index" -> l.operands[1].meant.array
    [] l.op = "member" -> DocumentedMember(l.operands[1].meant, l.detail)
    [] OTHER -> TRUE

Described == {"binary", "comparison", "conversion", "store", "arguments", "array of index", "member"}

(* Legal, and refused: arithmetic on bools, and arrays given to functions  *)
(* that are only declared, whose cloned parameters have lost their flag.   *)
RefusedThoughLegal(l) ==
  \/ l.op = "binary" /\ Left(l).type = BoolType /\ l.detail \in Arithmetic
  \/ l.op = "arguments" /\ Foreign(l.detail) /\ \E i \in 1..Len(Params(l.detail)) :
        Params(l.detail)[i].array /\ l.operands[i + 1].type = Params(l.detail)[i]

(* Not legal, and accepted: a string tested for equality with a value of   *)
(* another type; "any" and void converted to themselves; the pointer in a  *)
(* string; null and void where a primary value goes; and what those        *)
(* functions take for an array, one element.                               *)
AcceptedThoughNotLegal(l) ==
  \/ /\ l.op = "comparison" /\ l.detail \in Equality /\ Left(l).type = StringType
     /\ l.operands[2].kind # "null" /\ l.operands[2].type # StringType
  \/ l.op = "conversion" /\ Left(l).type \in {VoidType, AnyType} /\ Plain(l.detail) = Left(l).type
  \/ l.op = "member" /\ Left(l).type = StringType /\ l.detail = "data"
  \/ l.op = "store" /\ ((l.operands[2].kind = "null" /\ ~Nullable(l.operands[3].type)) \/ l.operands[3].type = VoidType)
  \/ l.op = "arguments" /\ \E i \in 1..Len(Params(l.detail)) :
        LET slot == Params(l.detail)[i]  given == l.operands[i + 1] IN
        \/ slot = VoidType
        \/ given.kind = "null" /\ ~Nullable(slot)
        \/ Foreign(l.detail) /\ slot.array /\ given.kind = "value" /\ given.type = Plain(slot.name)

(* On operands that kept their types, no legal operation is refused but    *)
(* the two kinds above (so two strings compare, anything nullable compares *)
(* with null, and a complex value converts to "any"), and none that is not *)
(* legal is accepted but the kinds above.                                  *)
AcceptsTheDocumented ==
  last.op \in Described /\ ~Lost(last) =>
    /\ Legal(last) /\ ~RefusedThoughLegal(last) => last.verdict = "running"
    /\ last.verdict = "running" /\ ~AcceptedThoughNotLegal(last) => Legal(last)

-----------------------------------------------------------------------------
(* What the documentation and the source say, and the code does not do     *)

(* "Comparisons are only supported when both operand are of the same type" *)
(* and, for strings, "Only with null as other operand, or with 2 strings". *)
(* StringComplexType::createComparison tests the type of its left operand  *)
(* twice.                                                                  *)
ComparedOperandsHaveOneType ==
  last.op = "comparison" /\ last.verdict = "running" =>
    \/ last.operands[1].type = last.operands[2].type
    \/ \E k \in 1..2 : last.operands[k].kind = "null"

(* The default value of an array is an empty array of that type.  The one  *)
(* stored is the default of the type of its elements when that is primary. *)
DefaultArraysAreArrays ==
  last.op = "default" /\ last.verdict = "running" /\ Left(last).type.array => last.gets = last.wants
=============================================================================

-------------------------- MODULE ExpressionsProofs --------------------------
(***************************************************************************)
(* The types of generated code, for any structs, functions and variables   *)
(* and any number of visits in progress.                                   *)
(***************************************************************************)
EXTENDS Expressions, SequenceTheorems, WellFoundedInduction, TLAPS

(* What the visitor relies on: null, and only null, is an "any" that takes *)
(* another type when it is assigned.                                       *)
Sound(e) == Faithful(e) /\ (e.kind = "null" => e.type = AnyType /\ e.meant = AnyType)
StateInv == /\ ExpressionsTypeOK /\ OnlyArrayResultsLoseTheirType
            /\ \A k \in 1..Len(stack) : Sound(stack[k])
LastInv == CodeIsWellTyped /\ AcceptsTheDocumented

(* Types are told apart by their names and their array flags.              *)
LEMMA TypeNames ==
  /\ \A n \in Names : Plain(n) \in Type /\ ArrayOf(n) \in Type
  /\ \A t \in Type : t.name \in Names /\ t.array \in BOOLEAN
  /\ \A t \in Type, n \in STRING : t = Plain(n) <=> (t.name = n /\ ~t.array)
  /\ \A t \in Type, n \in STRING : t = ArrayOf(n) <=> (t.name = n /\ t.array)
  /\ {"int", "double", "bool", "void", "any", "string"} \subseteq Names
  /\ {IntType, DoubleType, BoolType, VoidType, AnyType, StringType} \subseteq Type
BY DEF Plain, ArrayOf, Type, Names, Primary, IntType, DoubleType, BoolType, VoidType, AnyType, StringType

LEMMA EntryTypes ==
  ASSUME NEW k \in Kinds, NEW t \in Type, NEW m \in Type, NEW of \in Callees \cup {"", "load", "store"}
  PROVE  /\ Mark(k, t, m, of) \in Entry
         /\ Mark(k, t, m, of).kind = k /\ Mark(k, t, m, of).type = t /\ Mark(k, t, m, of).meant = m
         /\ Mark(k, t, m, of).of = of
BY DEF Mark, Entry

LEMMA ValueTypes ==
  ASSUME NEW t \in Type, NEW m \in Type
  PROVE  /\ Value(t, m) \in Entry
         /\ Value(t, m).kind = "value" /\ Value(t, m).type = t /\ Value(t, m).meant = m
BY DEF Value, Mark, Entry, Kinds

Outcomes == {"running", "refused", "crashed"}

LEMMA OutcomeFields ==
  /\ \A w, g : Accept(w, g).verdict = "running" /\ Accept(w, g).wants = w /\ Accept(w, g).gets = g
  /\ Refuse.verdict = "refused" /\ Refuse.wants = <<>> /\ Refuse.gets = <<>>
  /\ Crash.verdict = "crashed" /\ Crash.wants = <<>> /\ Crash.gets = <<>>
BY DEF Accept, Refuse, Crash

(* The entries on top of the stack                                         *)
LEMMA TopEntries ==
  ASSUME StateInv, NEW n \in Nat, n <= Len(stack)
  PROVE  /\ \A k \in 1..n : Top(k) \in Entry /\ Sound(Top(k))
         /\ Operands(n) \in Seq(Entry) /\ Len(Operands(n)) = n
         /\ \A i \in 1..n : Operands(n)[i] = Top(n - i + 1)
<1>1. stack \in Seq(Entry) BY DEF StateInv, ExpressionsTypeOK
<1>2. Len(stack) \in Nat BY <1>1
<1>3. \A k \in 1..n : Len(stack) - k + 1 \in 1..Len(stack) BY <1>2
<1>4. \A k \in 1..n : Top(k) \in Entry
  BY <1>1, <1>3, ElementOfSeq DEF Top
<1>5. \A k \in 1..n : Sound(Top(k))
  BY <1>3 DEF Top, StateInv
<1>6. \A i \in (Len(stack) - n + 1)..Len(stack) : stack[i] \in Entry
  BY <1>1, <1>2, ElementOfSeq
<1> DEFINE low == Len(stack) - n + 1
<1>7. low \in Int /\ Len(stack) \in Int BY <1>2
<1>8. /\ SubSeq(stack, low, Len(stack)) \in Seq(Entry)
      /\ Len(SubSeq(stack, low, Len(stack))) = IF low <= Len(stack) THEN Len(stack) - low + 1 ELSE 0
      /\ \A i \in 1..(Len(stack) - low + 1) : SubSeq(stack, low, Len(stack))[i] = stack[low + i - 1]
  <2> HIDE DEF low
  <2> QED BY <1>6, <1>7, SubSeqProperties DEF low
<1>9. Len(stack) - low + 1 = n BY <1>2
<1>10. (IF low <= Len(stack) THEN Len(stack) - low + 1 ELSE 0) = n BY <1>2
<1>11. \A i \in 1..n : Len(stack) - (n - i + 1) + 1 = low + i - 1 BY <1>2
<1> HIDE DEF low
<1>12. \A i \in 1..n : Operands(n)[i] = Top(n - i + 1)
  BY <1>8, <1>9, <1>11 DEF Operands, Top, low
<1>13. Operands(n) = SubSeq(stack, low, Len(stack)) BY DEF Operands, low
<1>14. Operands(n) \in Seq(Entry) /\ Len(Operands(n)) = n BY <1>8, <1>10, <1>13
<1> QED BY <1>4, <1>5, <1>12, <1>14

LEMMA ReplaceProperties ==
  ASSUME StateInv, NEW n \in Nat, n <= Len(stack), NEW e \in Entry, Sound(e)
  PROVE  /\ Replace(n, e) \in Seq(Entry) /\ Len(Replace(n, e)) = Len(stack) - n + 1
         /\ \A k \in 1..Len(Replace(n, e)) : Sound(Replace(n, e)[k])
<1>1. stack \in Seq(Entry) /\ Len(stack) \in Nat BY DEF StateInv, ExpressionsTypeOK
<1>2. \A i \in 1..(Len(stack) - n) : stack[i] \in Entry
  BY <1>1, ElementOfSeq
<1> DEFINE low == SubSeq(stack, 1, Len(stack) - n)
<1>3. /\ low \in Seq(Entry)
      /\ Len(low) = IF 1 <= Len(stack) - n THEN Len(stack) - n - 1 + 1 ELSE 0
      /\ \A i \in 1..(Len(stack) - n - 1 + 1) : low[i] = stack[1 + i - 1]
  <2>1. 1 \in Int /\ Len(stack) - n \in Int BY <1>1
  <2> QED BY <1>2, <2>1, SubSeqProperties
<1>4. Len(low) = Len(stack) - n BY <1>1, <1>3
<1>5. \A i \in 1..Len(low) : low[i] = stack[i] /\ i \in 1..Len(stack)
  <2> SUFFICES ASSUME NEW i \in 1..(Len(stack) - n) PROVE low[i] = stack[i] /\ i \in 1..Len(stack)
    BY <1>4
  <2>1. i \in 1..(Len(stack) - n - 1 + 1) /\ 1 + i - 1 = i /\ i \in 1..Len(stack) BY <1>1
  <2> QED BY <1>3, <2>1
<1>6. \A i \in 1..Len(low) : Sound(low[i])
  BY <1>5 DEF StateInv
<1>7. /\ Append(low, e) \in Seq(Entry) /\ Len(Append(low, e)) = Len(low) + 1
      /\ \A i \in 1..Len(low) : Append(low, e)[i] = low[i]
      /\ Append(low, e)[Len(low) + 1] = e
  BY <1>3, AppendProperties
<1> HIDE DEF low
<1>8. \A k \in 1..(Len(low) + 1) : k \in 1..Len(low) \/ k = Len(low) + 1
  BY <1>1, <1>4
<1>9. \A k \in 1..(Len(low) + 1) : Sound(Append(low, e)[k])
  BY <1>6, <1>7, <1>8
<1> QED BY <1>1, <1>4, <1>7, <1>9 DEF Replace, low

(* What a step records                                                     *)
LEMMA RecordedFields ==
  ASSUME NEW op, NEW detail, NEW operands, NEW outcome, Records(op, detail, operands, outcome)
  PROVE  /\ status' = outcome.verdict
         /\ last'.op = op /\ last'.detail = detail /\ last'.operands = operands
         /\ last'.wants = outcome.wants /\ last'.gets = outcome.gets /\ last'.verdict = outcome.verdict
BY DEF Records

(* A visit keeps the stack typed, whatever it replaces.                    *)
LEMMA VisitKeepsState ==
  ASSUME StateInv, NEW op, NEW detail, NEW n \in Nat, n <= Len(stack), NEW outcome,
         outcome.verdict \in Outcomes, NEW e \in Entry, Sound(e),
         Visit(op, detail, n, outcome, e)
  PROVE  StateInv'
<1>1. /\ Records(op, detail, Operands(n), outcome)
      /\ Len(stack) - n < MaxStack
      /\ stack' = IF outcome.verdict = "running" THEN Replace(n, e) ELSE stack
      /\ body' = body /\ locals' = locals /\ entered' = entered
  BY DEF Visit
<1>2. Operands(n) \in Seq(Entry) BY TopEntries
<1>3. /\ Replace(n, e) \in Seq(Entry) /\ Len(Replace(n, e)) = Len(stack) - n + 1
      /\ \A k \in 1..Len(Replace(n, e)) : Sound(Replace(n, e)[k])
  BY ReplaceProperties
<1>4. stack \in Seq(Entry) /\ Len(stack) \in Nat /\ Len(stack) <= MaxStack /\ MaxStack \in Nat
  BY ExpressionsAssumption DEF StateInv, ExpressionsTypeOK
<1>5. stack' \in Seq(Entry) /\ Len(stack') <= MaxStack
  <2>1. CASE outcome.verdict = "running" BY <1>1, <1>3, <1>4, <2>1
  <2>2. CASE outcome.verdict # "running" BY <1>1, <1>4, <2>2
  <2> QED BY <2>1, <2>2
<1>6. \A k \in 1..Len(stack') : Sound(stack'[k])
  <2>1. CASE outcome.verdict = "running" BY <1>1, <1>3, <2>1
  <2>2. CASE outcome.verdict # "running" BY <1>1, <2>2 DEF StateInv
  <2> QED BY <2>1, <2>2
<1>7. last'.operands = Operands(n) /\ last'.verdict = status' /\ status' = outcome.verdict
  BY <1>1, RecordedFields
<1>8. ExpressionsTypeOK'
  BY <1>1, <1>2, <1>5, <1>7 DEF ExpressionsTypeOK, StateInv, Outcomes
<1>9. OnlyArrayResultsLoseTheirType'
  BY <1>1, <1>6 DEF OnlyArrayResultsLoseTheirType, StateInv, Sound, Faithful
<1> QED BY <1>6, <1>8, <1>9 DEF StateInv, Sound, Faithful

(* Nothing but the record of the step changes when it is refused.          *)
LEMMA RefusalKeepsState ==
  ASSUME StateInv, NEW op, NEW detail, NEW n \in Nat, n <= Len(stack), NEW outcome,
         outcome.verdict \in Outcomes, outcome.verdict # "running", NEW e,
         Visit(op, detail, n, outcome, e)
  PROVE  StateInv'
<1>1. /\ Records(op, detail, Operands(n), outcome)
      /\ stack' = stack /\ body' = body /\ locals' = locals /\ entered' = entered
  BY DEF Visit
<1>2. Operands(n) \in Seq(Entry) BY TopEntries
<1>3. last'.operands = Operands(n) /\ last'.verdict = status' /\ status' = outcome.verdict
  BY <1>1, RecordedFields
<1>4. ExpressionsTypeOK'
  BY <1>1, <1>2, <1>3 DEF ExpressionsTypeOK, StateInv, Outcomes
<1>5. OnlyArrayResultsLoseTheirType'
  BY <1>1 DEF OnlyArrayResultsLoseTheirType, StateInv, Faithful
<1> QED BY <1>1, <1>4, <1>5 DEF StateInv, Sound, Faithful

(* A statement leaves the stack empty and may declare a variable.          *)
LEMMA StatementKeepsState ==
  ASSUME StateInv, NEW op, NEW detail, NEW outcome, outcome.verdict \in Outcomes,
         Statement(op, detail, outcome),
         locals' \in [Variables -> Declared \cup {Undeclared}],
         \A v \in Variables : locals'[v] # Undeclared => Faithful(locals'[v])
  PROVE  StateInv'
<1>1. Records(op, detail, stack, outcome) /\ stack' = <<>> /\ body' = body /\ entered' = entered
  BY DEF Statement
<1>2. last'.operands = stack /\ last'.verdict = status' /\ status' = outcome.verdict
  BY <1>1, RecordedFields
<1>3. <<>> \in Seq(Entry) /\ Len(<<>>) = 0 BY EmptySeq
<1>4. ExpressionsTypeOK'
  <2>1. MaxStack \in Nat BY ExpressionsAssumption
  <2> QED BY <1>1, <1>2, <1>3, <2>1 DEF ExpressionsTypeOK, StateInv, Outcomes
<1>5. \A k \in 1..Len(stack') : Sound(stack'[k]) BY <1>1, <1>3
<1> QED BY <1>4, <1>5 DEF StateInv, OnlyArrayResultsLoseTheirType, Sound, Faithful

LEMMA FieldTypes ==
  ASSUME NEW N, NEW s \in Seq([name : N, type : Type])
  PROVE  /\ Len(s) \in Nat /\ DOMAIN s = 1..Len(s)
         /\ \A i \in 1..Len(s) : s[i] \in [name : N, type : Type]
         /\ \A i \in 1..Len(s) : s[i].type \in Type /\ s[i].name \in N
<1> DEFINE R == [name : N, type : Type]
<1>1. \A r \in R : r.type \in Type /\ r.name \in N OBVIOUS
<1>2. s \in Seq(R) OBVIOUS
<1> HIDE DEF R
<1>3. Len(s) \in Nat /\ DOMAIN s = 1..Len(s) BY <1>2, LenProperties
<1>4. \A i \in 1..Len(s) : s[i] \in R BY <1>2, ElementOfSeq
<1>5. \A i \in 1..Len(s) : s[i].type \in Type /\ s[i].name \in N BY <1>1, <1>4
<1> QED BY <1>3, <1>4, <1>5 DEF R

LEMMA SignatureTypes ==
  ASSUME NEW c \in Callees
  PROVE  /\ Len(Params(c)) \in Nat /\ DOMAIN Params(c) = 1..Len(Params(c))
         /\ \A i \in 1..Len(Params(c)) : Params(c)[i] \in Type
         /\ ClonedResult(c) \in Type /\ Result(c) \in Type
         /\ Faithful([type |-> ClonedResult(c), meant |-> Result(c)])
<1>1. CASE c \in DOMAIN Structs
  <2>1. Structs[c] \in Seq([name : STRING, type : Type]) BY <1>1, ExpressionsAssumption
  <2>2. /\ Len(Structs[c]) \in Nat /\ DOMAIN Structs[c] = 1..Len(Structs[c])
        /\ \A i \in 1..Len(Structs[c]) : Structs[c][i].type \in Type
    BY <2>1, FieldTypes
  <2>3. Params(c) = [i \in 1..Len(Structs[c]) |-> Structs[c][i].type] BY <1>1, <2>2 DEF Params
  <2>4. Len(Params(c)) = Len(Structs[c]) BY <2>2, <2>3
  <2>5. c \in Names BY <1>1 DEF Names
  <2>6. Plain(c) \in Type /\ Plain(c).name = c BY <2>5 DEF Plain, Type
  <2>7. Result(c) = Plain(c) /\ ClonedResult(c) = Plain(c) BY <1>1, <2>6 DEF Result, ClonedResult
  <2> QED BY <2>2, <2>3, <2>4, <2>6, <2>7 DEF Faithful
<1>2. CASE c \notin DOMAIN Structs
  <2>1. c \in DOMAIN Functions BY <1>2 DEF Callees
  <2>2. /\ Functions[c].params \in Seq([name : Variables, type : Type]) /\ Functions[c].result \in Type
    BY <2>1, ExpressionsAssumption
  <2>3. /\ Len(Functions[c].params) \in Nat /\ DOMAIN Functions[c].params = 1..Len(Functions[c].params)
        /\ \A i \in 1..Len(Functions[c].params) : Functions[c].params[i].type \in Type
    BY <2>2, FieldTypes
  <2>4. Params(c) = [i \in 1..Len(Functions[c].params) |-> Functions[c].params[i].type]
    BY <1>2, <2>3 DEF Params
  <2>5. Len(Params(c)) = Len(Functions[c].params) BY <2>3, <2>4
  <2>6. Result(c) \in Type /\ Result(c) = Functions[c].result BY <1>2, <2>2 DEF Result
  <2>7. Result(c).name \in Names /\ ClonedResult(c) \in Type
    BY <2>6, TypeNames DEF ClonedResult
  <2>8. Result(c) = Plain(Result(c).name) \/ Result(c) = ArrayOf(Result(c).name)
    BY <2>6 DEF Type, Plain, ArrayOf
  <2>9. Result(c) = ArrayOf(Result(c).name) => Result(c) \in ArrayResults
    BY <2>1, <2>7 DEF ArrayResults
  <2>10. Faithful([type |-> ClonedResult(c), meant |-> Result(c)])
    BY <2>8, <2>9 DEF Faithful, ClonedResult
  <2> QED BY <2>3, <2>4, <2>5, <2>6, <2>7, <2>10
<1> QED BY <1>1, <1>2

LEMMA MemberTypes ==
  ASSUME NEW t \in Type, NEW m
  PROVE  Member(t, m) \subseteq Type
<1>1. CASE t.array BY <1>1, TypeNames DEF Member
<1>2. CASE ~t.array /\ t = StringType BY <1>2, TypeNames DEF Member
<1>3. CASE ~t.array /\ t # StringType /\ t.name \in DOMAIN Structs
  <2>1. Structs[t.name] \in Seq([name : STRING, type : Type]) BY <1>3, ExpressionsAssumption
  <2>2. \A i \in DOMAIN Structs[t.name] : Structs[t.name][i].type \in Type
    BY <2>1, FieldTypes
  <2> QED BY <1>3, <2>2 DEF Member
<1>4. CASE ~t.array /\ t # StringType /\ t.name \notin DOMAIN Structs BY <1>4 DEF Member
<1> QED BY <1>1, <1>2, <1>3, <1>4

LEMMA SoundEntries ==
  /\ \A k, t, of : k # "null" => Sound(Mark(k, t, t, of))
  /\ \A t : Sound(Value(t, t))
  /\ Sound(Null) /\ Null \in Entry /\ Null.kind = "null" /\ Null.type = AnyType /\ Null.meant = AnyType
  /\ \A e, k, t, m, of : Faithful(e) /\ e.type = t /\ e.meant = m /\ k # "null" => Sound(Mark(k, t, m, of))
<1>1. Null \in Entry /\ Null.kind = "null" /\ Null.type = AnyType /\ Null.meant = AnyType
  BY TypeNames DEF Null, Mark, Entry, Kinds
<1> QED BY <1>1 DEF Sound, Faithful, Mark, Value

LEMMA OutcomesOfOperations ==
  /\ \A w, g : Accept(w, g).verdict \in Outcomes
  /\ Refuse.verdict \in Outcomes /\ Crash.verdict \in Outcomes
  /\ \A t, op : BinaryOperation(t, op).verdict \in Outcomes
  /\ \A l, op, r : Comparison(l, op, r).verdict \in Outcomes
<1>1. /\ \A w, g : Accept(w, g).verdict \in Outcomes
      /\ Refuse.verdict \in Outcomes /\ Crash.verdict \in Outcomes
  BY OutcomeFields DEF Outcomes
<1>2. \A t, op : BinaryOperation(t, op).verdict \in Outcomes
  BY <1>1 DEF BinaryOperation
<1>3. \A l, op, r : NullComparison(l, op, r).verdict \in Outcomes
  BY <1>1 DEF NullComparison
<1>4. \A l, op, r : StringComparison(l, op, r).verdict \in Outcomes
  BY <1>1, <1>3 DEF StringComparison
<1>5. \A t, op : PrimaryComparison(t, op).verdict \in Outcomes
  BY <1>1 DEF PrimaryComparison
<1>6. \A l, op, r : Comparison(l, op, r).verdict \in Outcomes
  BY <1>1, <1>3, <1>4, <1>5 DEF Comparison
<1> QED BY <1>1, <1>2, <1>6

(* Entries the visitor finds on top of the stack                           *)
LEMMA TopEntry ==
  ASSUME StateInv, NEW k \in Nat \ {0}, k <= Len(stack)
  PROVE  /\ Top(k) \in Entry /\ Sound(Top(k))
         /\ Top(k).type \in Type /\ Top(k).meant \in Type /\ Top(k).kind \in Kinds
         /\ Top(k).of \in Callees \cup {"", "load", "store"}
<1>1. Top(k) \in Entry /\ Sound(Top(k)) BY TopEntries
<1> QED BY <1>1 DEF Entry

Good(e) == /\ e \in Entry /\ Sound(e)
           /\ e.type \in Type /\ e.meant \in Type /\ e.kind \in Kinds
           /\ e.of \in Callees \cup {"", "load", "store"}

LEMMA LastEntries ==
  ASSUME StateInv
  PROVE  /\ Len(stack) \in Nat
         /\ 1 <= Len(stack) => Good(Top(1))
         /\ 2 <= Len(stack) => 1 <= Len(stack) /\ Good(Top(2))
         /\ 3 <= Len(stack) => 2 <= Len(stack) /\ Good(Top(3))
<1>1. Len(stack) \in Nat BY DEF StateInv, ExpressionsTypeOK
<1>2. 1 \in Nat \ {0} /\ 2 \in Nat \ {0} /\ 3 \in Nat \ {0} OBVIOUS
<1>3. ASSUME NEW k \in Nat \ {0}, k <= Len(stack) PROVE Good(Top(k))
  BY <1>3, TopEntry DEF Good
<1>4. 1 <= Len(stack) => Good(Top(1)) BY <1>2, <1>3
<1>5. 2 <= Len(stack) => Good(Top(2)) BY <1>2, <1>3
<1>6. 3 <= Len(stack) => Good(Top(3)) BY <1>2, <1>3
<1>7. (2 <= Len(stack) => 1 <= Len(stack)) /\ (3 <= Len(stack) => 2 <= Len(stack)) BY <1>1
<1> QED BY <1>1, <1>4, <1>5, <1>6, <1>7

(* The value at an address has the types of the address.                   *)
LEMMA ValueOfEntry ==
  ASSUME NEW a, Good(a)
  PROVE  Value(a.type, a.meant) \in Entry /\ Sound(Value(a.type, a.meant))
<1>1. Value(a.type, a.meant) \in Entry BY ValueTypes DEF Good
<1>2. Sound(Value(a.type, a.meant))
  BY DEF Good, Sound, Faithful, Value, Mark
<1> QED BY <1>1, <1>2

(* A visit that goes on keeps the types of the entry it goes on from.      *)
LEMMA MarkOfEntry ==
  ASSUME NEW a, Good(a), NEW k \in Kinds, k # "null", NEW of \in {"", "store"}
  PROVE  Mark(k, a.type, a.meant, of) \in Entry /\ Sound(Mark(k, a.type, a.meant, of))
BY DEF Good, Mark, Entry, Sound, Faithful

LEMMA LocalEntry ==
  ASSUME StateInv, NEW v \in Variables, locals[v] # Undeclared
  PROVE  locals[v].type \in Type /\ locals[v].meant \in Type /\ Faithful(locals[v])
BY DEF StateInv, ExpressionsTypeOK, OnlyArrayResultsLoseTheirType, Declared

-----------------------------------------------------------------------------
(* Each action keeps the stack and the variables typed                     *)

LEMMA LiteralState ==
  ASSUME StateInv, NEW t \in Type, Literal(t) PROVE StateInv'
<1>1. Visit("literal", t.name, 0, Accept(<<>>, <<>>), Value(t, t)) BY DEF Literal
<1>2. Value(t, t) \in Entry /\ Sound(Value(t, t)) BY ValueTypes, SoundEntries
<1>3. 0 \in Nat /\ 0 <= Len(stack) BY DEF StateInv, ExpressionsTypeOK
<1> QED BY <1>1, <1>2, <1>3, VisitKeepsState, OutcomesOfOperations

LEMMA NullState ==
  ASSUME StateInv, NullLiteral PROVE StateInv'
<1>1. Visit("null", "", 0, Accept(<<>>, <<>>), Null) BY DEF NullLiteral
<1>2. 0 \in Nat /\ 0 <= Len(stack) BY DEF StateInv, ExpressionsTypeOK
<1> QED BY <1>1, <1>2, VisitKeepsState, OutcomesOfOperations, SoundEntries

LEMMA StartArrayState ==
  ASSUME StateInv, StartArray PROVE StateInv'
<1> DEFINE e == Mark("array", VoidType, VoidType, "")
<1>1. Visit("array", "", 0, Accept(<<>>, <<>>), e) BY DEF StartArray
<1>2. e \in Entry /\ Sound(e) BY TypeNames, EntryTypes, SoundEntries DEF Kinds
<1>3. 0 \in Nat /\ 0 <= Len(stack) BY DEF StateInv, ExpressionsTypeOK
<1> QED BY <1>1, <1>2, <1>3, VisitKeepsState, OutcomesOfOperations

LEMMA ElementState ==
  ASSUME StateInv, Element PROVE StateInv'
<1> DEFINE e == Mark("elements", Top(1).type, Top(1).meant, "")
           o == IF Top(2).kind = "elements" /\ Top(1).type # Top(2).type THEN Refuse
                ELSE Accept(<<Plain(Top(1).type.name)>>, <<Top(1).type>>)
<1>1. Visit("element", "", 2, o, e) BY DEF Element
<1>2. 2 <= Len(stack) BY DEF Element, OnTop
<1>3. 1 <= Len(stack) BY <1>2 DEF StateInv, ExpressionsTypeOK
<1>4. e \in Entry /\ Sound(e) BY <1>3, LastEntries, MarkOfEntry DEF Kinds
<1>5. o.verdict \in Outcomes BY OutcomesOfOperations
<1> HIDE DEF e, o
<1> QED BY <1>1, <1>2, <1>4, <1>5, VisitKeepsState

LEMMA FinishArrayState ==
  ASSUME StateInv, FinishArray PROVE StateInv'
<1> DEFINE t == ArrayOf(Top(1).type.name)
           o == IF Top(1).kind = "array" THEN Accept(<<VoidType>>, <<VoidType>>) ELSE Accept(<<>>, <<>>)
<1>1. Visit("elements", "", 1, o, Value(t, t)) BY DEF FinishArray
<1>2. 1 <= Len(stack) BY DEF FinishArray, OnTop
<1>3. t \in Type BY <1>2, LastEntries, TypeNames DEF Good
<1>4. Value(t, t) \in Entry /\ Sound(Value(t, t)) BY <1>3, ValueTypes, SoundEntries
<1>5. o.verdict \in Outcomes BY OutcomesOfOperations
<1> HIDE DEF t, o
<1> QED BY <1>1, <1>2, <1>4, <1>5, VisitKeepsState

LEMMA UndeclaredEntry ==
  ASSUME StateInv, NEW v \in Variables
  PROVE  locals[v] = Undeclared \/ (locals[v].type \in Type /\ locals[v].meant \in Type)
BY LocalEntry

LEMMA VariableState ==
  ASSUME StateInv, NEW v \in Variables, Variable(v) PROVE StateInv'
<1> DEFINE e == Mark("address", locals[v].type, locals[v].meant, "load")
           o == IF locals[v] = Undeclared THEN Refuse ELSE Accept(<<>>, <<>>)
<1>1. Visit("variable", v, 0, o, e) BY DEF Variable
<1>2. 0 \in Nat /\ 0 <= Len(stack) BY DEF StateInv, ExpressionsTypeOK
<1>3. o.verdict \in Outcomes BY OutcomesOfOperations
<1>4. CASE locals[v] # Undeclared
  <2>1. e \in Entry /\ Sound(e) BY <1>4, LocalEntry, EntryTypes, SoundEntries DEF Kinds
  <2> HIDE DEF e, o
  <2> QED BY <1>1, <1>2, <1>3, <2>1, VisitKeepsState
<1>5. CASE locals[v] = Undeclared
  <2>1. o = Refuse BY <1>5
  <2> HIDE DEF e, o
  <2> QED BY <1>1, <1>2, <2>1, RefusalKeepsState, OutcomeFields, OutcomesOfOperations
<1> QED BY <1>4, <1>5

LEMMA StartIndexState ==
  ASSUME StateInv, StartIndex PROVE StateInv'
<1> DEFINE a == Top(1)
           e == [a EXCEPT !.kind = "indexed"]
           o == IF ~Complex(a.type) THEN Crash ELSE IF ~a.type.array THEN Refuse ELSE Accept(<<>>, <<>>)
<1>1. Visit("array of index", "", 1, o, e) BY DEF StartIndex
<1>2. 1 <= Len(stack) BY DEF StartIndex, OnTop
<1>3. a \in Entry /\ Sound(a) BY <1>2, LastEntries DEF Good
<1>4. e \in Entry /\ e.type = a.type /\ e.meant = a.meant BY <1>3 DEF Entry, Kinds
<1>5. Sound(e) BY <1>3, <1>4 DEF Sound, Faithful
<1>6. o.verdict \in Outcomes BY OutcomesOfOperations
<1> HIDE DEF a, e, o
<1> QED BY <1>1, <1>2, <1>4, <1>5, <1>6, VisitKeepsState

LEMMA FinishIndexState ==
  ASSUME StateInv, FinishIndex PROVE StateInv'
<1> DEFINE t == Plain(Top(2).type.name)
           i == Top(1).type
           e == Mark("address", t, t, Top(2).of)
           o == Accept(<<IF i = BoolType THEN BoolType ELSE IntType>>, <<i>>)
<1>1. Visit("index", "", 2, o, e) BY DEF FinishIndex
<1>2. 2 <= Len(stack) BY DEF FinishIndex, OnTop
<1>3. t \in Type /\ Top(2).of \in Callees \cup {"", "load", "store"} BY <1>2, LastEntries, TypeNames DEF Good
<1>4. e \in Entry /\ Sound(e) BY <1>3, EntryTypes, SoundEntries DEF Kinds
<1>5. o.verdict \in Outcomes BY OutcomesOfOperations
<1> HIDE DEF e, o
<1> QED BY <1>1, <1>2, <1>4, <1>5, VisitKeepsState

LEMMA MemberOfState ==
  ASSUME StateInv, NEW m, MemberOf(m) PROVE StateInv'
<1> DEFINE a == Top(1)
<1>1. 1 <= Len(stack) BY DEF MemberOf, OnTop
<1>2. a \in Entry /\ Sound(a) /\ a.type \in Type /\ a.of \in Callees \cup {"", "load", "store"}
  BY <1>1, LastEntries DEF Good
<1>3. CASE ~Complex(a.type) \/ Member(a.type, m) = {}
  <2> DEFINE o == IF Complex(a.type) THEN Refuse ELSE Crash
  <2>1. Visit("member", m, 1, o, a) BY <1>3 DEF MemberOf
  <2>2. o.verdict \in Outcomes BY OutcomesOfOperations
  <2> HIDE DEF o, a
  <2> QED BY <1>1, <1>2, <2>1, <2>2, VisitKeepsState
<1>4. CASE ~(~Complex(a.type) \/ Member(a.type, m) = {})
  <2>1. PICK t \in Member(a.type, m) : Visit("member", m, 1, Accept(<<>>, <<>>), Mark("address", t, t, a.of))
    BY <1>4 DEF MemberOf
  <2>2. t \in Type BY <1>2, MemberTypes
  <2> DEFINE e == Mark("address", t, t, a.of)
  <2>3. e \in Entry /\ Sound(e)
    <3>1. "address" \in Kinds BY DEF Kinds
    <3>2. e \in Entry BY <1>2, <2>2, <3>1 DEF Mark, Entry
    <3>3. Sound(e) BY SoundEntries
    <3> QED BY <3>2, <3>3
  <2> HIDE DEF e
  <2> QED BY <1>1, <2>1, <2>3, VisitKeepsState, OutcomesOfOperations DEF e
<1> QED BY <1>3, <1>4

LEMMA LoadState ==
  ASSUME StateInv, Load PROVE StateInv'
<1> DEFINE a == Top(1)
           o == Accept(<<a.type>>, <<a.type>>)
           e == Value(a.type, a.meant)
<1>1. Visit("load", "", 1, o, e) BY DEF Load
<1>2. 1 <= Len(stack) BY DEF Load, OnTop
<1>3. e \in Entry /\ Sound(e) BY <1>2, LastEntries, ValueOfEntry
<1>4. o.verdict \in Outcomes BY OutcomesOfOperations
<1> HIDE DEF e, o
<1> QED BY <1>1, <1>2, <1>3, <1>4, VisitKeepsState

LEMMA StartAssignmentState ==
  ASSUME StateInv, NEW v \in Variables, StartAssignment(v) PROVE StateInv'
<1> DEFINE e == Mark("target", locals[v].type, locals[v].meant, "")
           o == IF locals[v] = Undeclared THEN Refuse ELSE Accept(<<>>, <<>>)
<1>1. Visit("assignment", v, 0, o, e) BY DEF StartAssignment
<1>2. 0 \in Nat /\ 0 <= Len(stack) BY DEF StateInv, ExpressionsTypeOK
<1>3. o.verdict \in Outcomes BY OutcomesOfOperations
<1>4. CASE locals[v] # Undeclared
  <2>1. e \in Entry /\ Sound(e) BY <1>4, LocalEntry, EntryTypes, SoundEntries DEF Kinds
  <2> HIDE DEF e, o
  <2> QED BY <1>1, <1>2, <1>3, <2>1, VisitKeepsState
<1>5. CASE locals[v] = Undeclared
  <2>1. o = Refuse BY <1>5
  <2> HIDE DEF e, o
  <2> QED BY <1>1, <1>2, <2>1, RefusalKeepsState, OutcomeFields, OutcomesOfOperations
<1> QED BY <1>4, <1>5

LEMMA TargetState ==
  ASSUME StateInv, Target PROVE StateInv'
<1> DEFINE e == Mark("address", Top(2).type, Top(2).meant, "store")
<1>1. Visit("target", "", 0, Accept(<<>>, <<>>), e) BY DEF Target
<1>2. 2 <= Len(stack) BY DEF Target, OnTop
<1>3. e \in Entry /\ Sound(e) BY <1>2, LastEntries, MarkOfEntry DEF Kinds
<1>4. 0 \in Nat /\ 0 <= Len(stack) BY DEF StateInv, ExpressionsTypeOK
<1> HIDE DEF e
<1> QED BY <1>1, <1>3, <1>4, VisitKeepsState, OutcomesOfOperations

LEMMA StoreState ==
  ASSUME StateInv, Store PROVE StateInv'
<1> DEFINE slot == Top(1).type
           given == Assigned(Top(2), slot)
           o == IF CanAssign(given, slot) THEN Accept(<<slot>>, <<given>>) ELSE Refuse
           e == Value(VoidType, VoidType)
<1>1. Visit("store", "", 3, o, e) BY DEF Store
<1>2. 3 <= Len(stack) BY DEF Store, OnTop
<1>3. e \in Entry /\ Sound(e) BY TypeNames, ValueTypes, SoundEntries
<1>4. o.verdict \in Outcomes BY OutcomesOfOperations
<1> HIDE DEF e, o
<1> QED BY <1>1, <1>2, <1>3, <1>4, VisitKeepsState

LEMMA BinaryState ==
  ASSUME StateInv, NEW op, Binary(op) PROVE StateInv'
<1> DEFINE t == Top(2).type
           o == IF t # Top(1).type THEN Refuse ELSE BinaryOperation(t, op)
           e == Value(t, t)
<1>1. Visit("binary", op, 2, o, e) BY DEF Binary
<1>2. 2 <= Len(stack) BY DEF Binary, Evaluated
<1>3. e \in Entry /\ Sound(e) BY <1>2, LastEntries, ValueTypes, SoundEntries DEF Good
<1>4. o.verdict \in Outcomes BY OutcomesOfOperations
<1> HIDE DEF e, o
<1> QED BY <1>1, <1>2, <1>3, <1>4, VisitKeepsState

LEMMA CompareState ==
  ASSUME StateInv, NEW op, Compare(op) PROVE StateInv'
<1> DEFINE o == Comparison(Top(2), op, Top(1))
           e == Value(BoolType, BoolType)
<1>1. Visit("comparison", op, 2, o, e) BY DEF Compare
<1>2. 2 <= Len(stack) BY DEF Compare, Evaluated
<1>3. e \in Entry /\ Sound(e) BY TypeNames, ValueTypes, SoundEntries
<1>4. o.verdict \in Outcomes BY OutcomesOfOperations
<1> HIDE DEF e, o
<1> QED BY <1>1, <1>2, <1>3, <1>4, VisitKeepsState

LEMMA ConvertState ==
  ASSUME StateInv, NEW n \in Names, Convert(n) PROVE StateInv'
<1> DEFINE a == Top(1)
           o == IF n \in Conversions(a.type) THEN Accept(<<>>, <<>>) ELSE Refuse
           e == IF a.type = Plain(n) THEN a ELSE Value(Plain(n), Plain(n))
<1>1. Visit("conversion", n, 1, o, e) BY DEF Convert
<1>2. 1 <= Len(stack) BY DEF Convert, Evaluated
<1>3. Plain(n) \in Type BY TypeNames
<1>4. a \in Entry /\ Sound(a) BY <1>2, LastEntries DEF Good
<1>5. e \in Entry /\ Sound(e) BY <1>3, <1>4, ValueTypes, SoundEntries
<1>6. o.verdict \in Outcomes BY OutcomesOfOperations
<1> HIDE DEF e, o
<1> QED BY <1>1, <1>2, <1>5, <1>6, VisitKeepsState

LEMMA StartCallState ==
  ASSUME StateInv, NEW c \in Callees, NEW n \in Nat, StartCall(c, n) PROVE StateInv'
<1> DEFINE e == Mark("call", ClonedResult(c), Result(c), c)
           o == IF Len(Params(c)) # n \/ (c \in DOMAIN Structs /\ n = 0) THEN Refuse ELSE Accept(<<>>, <<>>)
<1>1. Visit("call", c, 0, o, e) BY DEF StartCall
<1>2. 0 \in Nat /\ 0 <= Len(stack) BY DEF StateInv, ExpressionsTypeOK
<1>3. e \in Entry /\ e.type = ClonedResult(c) /\ e.meant = Result(c)
  <2>1. "call" \in Kinds /\ c \in Callees \cup {"", "load", "store"} BY DEF Kinds
  <2>2. ClonedResult(c) \in Type /\ Result(c) \in Type BY SignatureTypes
  <2> QED BY <2>1, <2>2 DEF Mark, Entry
<1>4. Sound(e) BY <1>3, SignatureTypes DEF Sound, Faithful, Mark
<1>5. o.verdict \in Outcomes BY OutcomesOfOperations
<1> HIDE DEF e, o
<1> QED BY <1>1, <1>2, <1>3, <1>4, <1>5, VisitKeepsState

LEMMA FinishCallState ==
  ASSUME StateInv, NEW c \in Callees, FinishCall(c) PROVE StateInv'
<1> DEFINE n == Len(Params(c))
           slots == ClonedParams(c)
           args == [i \in 1..n |-> Assigned(Top(n - i + 1), slots[i])]
           o == IF c \notin Uncallable /\ \A i \in 1..n : CanAssign(args[i], slots[i])
                THEN Accept(slots, args) ELSE Refuse
           e == Value(Top(n + 1).type, Top(n + 1).meant)
<1>1. Visit("arguments", c, n + 1, o, e) BY DEF FinishCall
<1>2. n + 1 <= Len(stack) BY DEF FinishCall, OnTop
<1>3. n \in Nat /\ n + 1 \in Nat \ {0} BY SignatureTypes
<1>4. e \in Entry /\ Sound(e)
  <2>1. Good(Top(n + 1))
    <3> HIDE DEF n
    <3> QED BY <1>2, <1>3, TopEntry DEF Good
  <2> QED BY <2>1, ValueOfEntry
<1>5. o.verdict \in Outcomes BY OutcomesOfOperations
<1> HIDE DEF e, o, n
<1> QED BY <1>1, <1>2, <1>3, <1>4, <1>5, VisitKeepsState

(* Declared variables                                                      *)
LEMMA DeclareKeepsLocals ==
  ASSUME StateInv, NEW v \in Variables, NEW t \in Type, NEW m \in Type,
         Faithful([type |-> t, meant |-> m]), Declare(v, t, m)
  PROVE  /\ locals' \in [Variables -> Declared \cup {Undeclared}]
         /\ \A w \in Variables : locals'[w] # Undeclared => Faithful(locals'[w])
<1> DEFINE d == [type |-> t, meant |-> m]
<1>1. locals' = [locals EXCEPT ![v] = d] /\ d \in Declared BY DEF Declare, Declared
<1>2. locals \in [Variables -> Declared \cup {Undeclared}] BY DEF StateInv, ExpressionsTypeOK
<1>3. Faithful(d) OBVIOUS
<1> HIDE DEF d
<1>4. \A w \in Variables : locals'[w] = IF w = v THEN d ELSE locals[w] BY <1>1, <1>2
<1>5. locals' \in [Variables -> Declared \cup {Undeclared}] BY <1>1, <1>2
<1> QED BY <1>3, <1>4, <1>5 DEF StateInv, OnlyArrayResultsLoseTheirType

LEMMA EnterParameterState ==
  ASSUME StateInv, EnterParameter PROVE StateInv'
<1> DEFINE p == Functions[body].params[entered + 1]
           args == body = "main" /\ Len(Params(body)) = 1 /\ p.type = ArrayOf("string")
           o == IF args THEN Accept(<<p.type>>, <<AnyType>>)
                ELSE IF locals[p.name] # Undeclared \/ p.type.name = "void" THEN Refuse
                ELSE Accept(<<p.type, p.type>>, <<DefaultType(p.type), p.type>>)
<1>1. /\ Records("parameter", "", <<Value(p.type, p.type)>>, o)
      /\ Declare(p.name, p.type, p.type)
      /\ entered < Len(Params(body)) /\ entered' = entered + 1
      /\ body' = body /\ stack' = stack
  BY DEF EnterParameter, NextParameter
<1>2. o.verdict \in Outcomes BY OutcomesOfOperations
<1>3. body \in DOMAIN Functions /\ body \notin DOMAIN Structs /\ entered \in 0..Len(Params(body))
  BY ExpressionsAssumption DEF StateInv, ExpressionsTypeOK
<1>4. Functions[body].params \in Seq([name : Variables, type : Type])
  BY <1>3, ExpressionsAssumption
<1>5. Len(Params(body)) = Len(Functions[body].params) /\ Len(Params(body)) \in Nat
  <2>1. /\ Len(Functions[body].params) \in Nat /\ DOMAIN Functions[body].params = 1..Len(Functions[body].params)
    BY <1>4, FieldTypes
  <2>2. Params(body) = [i \in 1..Len(Functions[body].params) |-> Functions[body].params[i].type]
    BY <1>3, <2>1 DEF Params
  <2> QED BY <2>1, <2>2
<1>6. entered + 1 \in 1..Len(Functions[body].params) /\ entered' \in 0..Len(Params(body))
  <2> DEFINE n == Len(Params(body))
  <2>1. n \in Nat /\ entered \in 0..n /\ entered < n /\ entered' = entered + 1 BY <1>1, <1>3, <1>5
  <2> HIDE DEF n
  <2>2. entered + 1 \in 1..n /\ entered' \in 0..n BY <2>1
  <2> QED BY <1>5, <2>2 DEF n
<1>7. p.type \in Type /\ p.name \in Variables BY <1>4, <1>6, FieldTypes
<1> HIDE DEF p, o
<1>8. Value(p.type, p.type) \in Entry BY <1>7, ValueTypes
<1>9. <<Value(p.type, p.type)>> \in Seq(Entry) BY <1>8
<1>10. last'.operands \in Seq(Entry) /\ last'.verdict = status' /\ status' \in Outcomes
  <2>1. Records("parameter", "", <<Value(p.type, p.type)>>, o) BY <1>1
  <2>2. last'.operands = <<Value(p.type, p.type)>> /\ last'.verdict = o.verdict /\ status' = o.verdict
    BY <2>1, RecordedFields
  <2> QED BY <1>2, <1>9, <2>2
<1>11. Faithful([type |-> p.type, meant |-> p.type]) BY DEF Faithful
<1>12. /\ locals' \in [Variables -> Declared \cup {Undeclared}]
       /\ \A w \in Variables : locals'[w] # Undeclared => Faithful(locals'[w])
  BY <1>1, <1>7, <1>11, DeclareKeepsLocals
<1>13. ExpressionsTypeOK'
  BY <1>1, <1>6, <1>10, <1>12 DEF StateInv, ExpressionsTypeOK, Outcomes
<1> QED BY <1>1, <1>12, <1>13 DEF StateInv, OnlyArrayResultsLoseTheirType, Faithful, Sound

LEMMA DeclareVariableState ==
  ASSUME StateInv, NEW v \in Variables, NEW t \in Type, NEW assigned \in BOOLEAN,
         DeclareVariable(v, t, assigned)
  PROVE  StateInv'
<1>1. stack = <<>> /\ body' = body /\ entered' = entered BY DEF DeclareVariable
<1>2. Faithful([type |-> t, meant |-> t]) BY DEF Faithful
<1>3. <<>> \in Seq(Entry) /\ Len(<<>>) = 0 BY EmptySeq
<1>4. CASE locals[v] # Undeclared
  <2>1. Records("declaration", v, <<>>, Refuse) /\ stack' = stack /\ locals' = locals
    BY <1>4 DEF DeclareVariable, Available
  <2>2. last'.operands = <<>> /\ last'.verdict = status' /\ status' = Refuse.verdict BY <2>1, RecordedFields
  <2>3. status' \in Outcomes BY <2>2, OutcomesOfOperations
  <2>4. ExpressionsTypeOK' BY <1>1, <1>3, <2>1, <2>2, <2>3 DEF StateInv, ExpressionsTypeOK, Outcomes
  <2> QED BY <1>1, <2>1, <2>4 DEF StateInv, OnlyArrayResultsLoseTheirType, Faithful, Sound
<1>5. CASE locals[v] = Undeclared /\ assigned
  <2> DEFINE e == Mark("target", t, t, "")
  <2>1. Records("declaration", v, <<>>, Accept(<<>>, <<>>)) /\ Declare(v, t, t) /\ stack' = <<e>>
    BY <1>5 DEF DeclareVariable, Available
  <2>2. last'.operands = <<>> /\ last'.verdict = status' /\ status' = Accept(<<>>, <<>>).verdict
    BY <2>1 DEF Records
  <2>3. status' \in Outcomes BY <2>2, OutcomesOfOperations
  <2>4. e \in Entry /\ Sound(e) BY EntryTypes, SoundEntries DEF Kinds
  <2>5. /\ locals' \in [Variables -> Declared \cup {Undeclared}]
        /\ \A w \in Variables : locals'[w] # Undeclared => Faithful(locals'[w])
    BY <1>2, <2>1, DeclareKeepsLocals
  <2> HIDE DEF e
  <2>6. stack' \in Seq(Entry) /\ Len(stack') = 1 /\ stack'[1] = e BY <2>1, <2>4
  <2>7. 1 <= MaxStack BY ExpressionsAssumption
  <2>8. ExpressionsTypeOK'
    BY <1>1, <1>3, <2>2, <2>3, <2>5, <2>6, <2>7 DEF StateInv, ExpressionsTypeOK, Outcomes
  <2>9. \A k \in 1..Len(stack') : Sound(stack'[k]) BY <2>4, <2>6
  <2> QED BY <2>5, <2>8, <2>9 DEF StateInv, OnlyArrayResultsLoseTheirType, Sound, Faithful
<1>6. CASE locals[v] = Undeclared /\ ~assigned
  <2> DEFINE o == IF t.name = "void" THEN Refuse ELSE Accept(<<t>>, <<DefaultType(t)>>)
  <2>1. Records("default", v, <<Value(t, t)>>, o) /\ Declare(v, t, t) /\ stack' = stack
    BY <1>6 DEF DeclareVariable, Available
  <2>2. o.verdict \in Outcomes BY OutcomesOfOperations
  <2> HIDE DEF o
  <2>3. last'.operands = <<Value(t, t)>> /\ last'.verdict = status' /\ status' \in Outcomes
    BY <2>1, <2>2, RecordedFields
  <2>4. Value(t, t) \in Entry BY ValueTypes
  <2>5. <<Value(t, t)>> \in Seq(Entry) BY <2>4
  <2>6. /\ locals' \in [Variables -> Declared \cup {Undeclared}]
        /\ \A w \in Variables : locals'[w] # Undeclared => Faithful(locals'[w])
    BY <1>2, <2>1, DeclareKeepsLocals
  <2>7. ExpressionsTypeOK' BY <1>1, <2>1, <2>3, <2>5, <2>6 DEF StateInv, ExpressionsTypeOK, Outcomes
  <2> QED BY <2>1, <2>6, <2>7 DEF StateInv, OnlyArrayResultsLoseTheirType, Faithful, Sound
<1> QED BY <1>4, <1>5, <1>6

LEMMA InferVariableState ==
  ASSUME StateInv, NEW v \in Variables, InferVariable(v) PROVE StateInv'
<1> DEFINE a == Top(1)
           o == Accept(<<a.type>>, <<a.type>>)
<1>1. Statement("inference", v, o) /\ Declare(v, a.type, a.meant) /\ Len(stack) = 1 BY DEF InferVariable
<1>2. Good(a) BY <1>1, LastEntries
<1>3. Faithful([type |-> a.type, meant |-> a.meant]) BY <1>2 DEF Good, Sound, Faithful
<1>4. a.type \in Type /\ a.meant \in Type BY <1>2 DEF Good
<1>5. o.verdict \in Outcomes BY OutcomesOfOperations
<1> HIDE DEF a, o
<1>6. /\ locals' \in [Variables -> Declared \cup {Undeclared}]
      /\ \A w \in Variables : locals'[w] # Undeclared => Faithful(locals'[w])
  BY <1>1, <1>3, <1>4, DeclareKeepsLocals
<1> QED BY <1>1, <1>5, <1>6, StatementKeepsState

LEMMA StatementState ==
  ASSUME StateInv, Discard \/ Condition \/ Return PROVE StateInv'
<1>1. PICK op, w, g : Statement(op, "", Accept(w, g)) /\ locals' = locals
  BY DEF Discard, Condition, Return
<1>2. /\ locals' \in [Variables -> Declared \cup {Undeclared}]
      /\ \A v \in Variables : locals'[v] # Undeclared => Faithful(locals'[v])
  BY <1>1 DEF StateInv, ExpressionsTypeOK, OnlyArrayResultsLoseTheirType
<1>3. Accept(w, g).verdict \in Outcomes BY OutcomesOfOperations
<1> QED BY <1>1, <1>2, <1>3, StatementKeepsState

(* The three parts of the state are kept by every step.                    *)
LEMMA StepsKeepState ==
  ASSUME StateInv, [ExpressionsNext]_vars PROVE StateInv'
<1>1. ASSUME EnterParameter PROVE StateInv' BY <1>1, EnterParameterState
<1>2. ASSUME NEW t \in Type, Literal(t) PROVE StateInv' BY <1>2, LiteralState
<1>3. ASSUME NullLiteral \/ StartArray \/ Element \/ FinishArray PROVE StateInv'
  BY <1>3, NullState, StartArrayState, ElementState, FinishArrayState
<1>4. ASSUME NEW v \in Variables, Variable(v) \/ StartAssignment(v) \/ InferVariable(v) PROVE StateInv'
  BY <1>4, VariableState, StartAssignmentState, InferVariableState
<1>5. ASSUME StartIndex \/ FinishIndex \/ Load \/ Target \/ Store PROVE StateInv'
  BY <1>5, StartIndexState, FinishIndexState, LoadState, TargetState, StoreState
<1>6. ASSUME NEW m, MemberOf(m) PROVE StateInv' BY <1>6, MemberOfState
<1>7. ASSUME NEW op, Binary(op) PROVE StateInv' BY <1>7, BinaryState
<1>8. ASSUME NEW op, Compare(op) PROVE StateInv' BY <1>8, CompareState
<1>9. ASSUME NEW n \in Names, Convert(n) PROVE StateInv' BY <1>9, ConvertState
<1>10. ASSUME NEW c \in Callees, FinishCall(c) PROVE StateInv' BY <1>10, FinishCallState
<1>11. ASSUME NEW c \in Callees, NEW n \in 0..MaxStack, StartCall(c, n) PROVE StateInv'
  <2>1. n \in Nat OBVIOUS
  <2> QED BY <1>11, <2>1, StartCallState
<1>12. ASSUME NEW v \in Variables, NEW t \in Type, NEW assigned \in BOOLEAN, DeclareVariable(v, t, assigned)
       PROVE StateInv'
  BY <1>12, DeclareVariableState
<1>13. ASSUME Discard \/ Condition \/ Return PROVE StateInv' BY <1>13, StatementState
<1>14. ASSUME UNCHANGED vars PROVE StateInv'
  <2>1. /\ body' = body /\ stack' = stack /\ locals' = locals /\ entered' = entered
        /\ last' = last /\ status' = status
    BY <1>14 DEF vars
  <2> QED BY <2>1 DEF StateInv, ExpressionsTypeOK, OnlyArrayResultsLoseTheirType, Sound, Faithful
<1> QED BY <1>1, <1>2, <1>3, <1>4, <1>5, <1>6, <1>7, <1>8, <1>9, <1>10, <1>11, <1>12, <1>13, <1>14
        DEF ExpressionsNext

LEMMA InitialState ==
  ASSUME ExpressionsInit PROVE StateInv
<1>1. <<>> \in Seq(Entry) /\ Len(<<>>) = 0 BY EmptySeq
<1>2. body \in Bodies /\ Len(Params(body)) \in Nat
  <2>1. body \in Callees BY ExpressionsAssumption DEF ExpressionsInit, Callees
  <2> QED BY <2>1, SignatureTypes DEF ExpressionsInit
<1>3. last.operands = <<>> /\ last.verdict = "running" BY DEF ExpressionsInit
<1>4. MaxStack \in Nat /\ 0 <= MaxStack BY ExpressionsAssumption
<1>5. locals \in [Variables -> Declared \cup {Undeclared}]
      /\ \A v \in Variables : locals[v] = Undeclared
  BY DEF ExpressionsInit
<1>6. stack = <<>> /\ entered = 0 /\ status = "running" BY DEF ExpressionsInit
<1>7. ExpressionsTypeOK BY <1>1, <1>2, <1>3, <1>4, <1>5, <1>6 DEF ExpressionsTypeOK
<1> QED BY <1>1, <1>5, <1>6, <1>7 DEF StateInv, OnlyArrayResultsLoseTheirType

(* Every value and every variable has the types of the program, and the    *)
(* visitor never leaves its machine: whatever the program, its functions   *)
(* and its structs.                                                        *)
THEOREM ExpressionsTypes == ExpressionsSpec => []ExpressionsTypeOK
<1>1. ExpressionsInit => StateInv BY InitialState
<1>2. StateInv /\ [ExpressionsNext]_vars => StateInv' BY StepsKeepState
<1>3. StateInv => ExpressionsTypeOK BY DEF StateInv
<1> QED BY <1>1, <1>2, <1>3, PTL DEF ExpressionsSpec

(* However a program mixes declarations, paths, assignments, conversions   *)
(* and calls, the only type ever lost is the array flag of a result.       *)
THEOREM OnlyResultsLoseTheirType == ExpressionsSpec => []OnlyArrayResultsLoseTheirType
<1>1. ExpressionsInit => StateInv BY InitialState
<1>2. StateInv /\ [ExpressionsNext]_vars => StateInv' BY StepsKeepState
<1>3. StateInv => OnlyArrayResultsLoseTheirType BY DEF StateInv
<1> QED BY <1>1, <1>2, <1>3, PTL DEF ExpressionsSpec

-----------------------------------------------------------------------------
(* What each step checks, and what it lets through                         *)

(* An instruction given the types it takes is well typed, or void is one.  *)
LEMMA SameTypes ==
  ASSUME NEW op, NEW detail, NEW operands, NEW outcome, Records(op, detail, operands, outcome),
         outcome.wants = outcome.gets
  PROVE  CodeIsWellTyped'
<1>1. last'.wants = last'.gets BY RecordedFields
<1> QED BY <1>1 DEF CodeIsWellTyped, WellTyped, Unchecked

LEMMA Stopped ==
  ASSUME NEW op, NEW detail, NEW operands, NEW outcome, Records(op, detail, operands, outcome),
         outcome.verdict # "running"
  PROVE  CodeIsWellTyped'
<1>1. last'.verdict # "running" BY RecordedFields
<1> QED BY <1>1 DEF CodeIsWellTyped

LEMMA Undescribed ==
  ASSUME NEW op, NEW detail, NEW operands, NEW outcome, Records(op, detail, operands, outcome),
         op \notin Described
  PROVE  AcceptsTheDocumented'
<1>1. last'.op = op BY RecordedFields
<1> QED BY <1>1 DEF AcceptsTheDocumented

(* Where the documentation and the generator part                          *)
Departs(l) == RefusedThoughLegal(l) \/ AcceptedThoughNotLegal(l)

LEMMA DocumentedStep ==
  ASSUME ~Lost(last') =>
           /\ RefusedThoughLegal(last') => last'.verdict # "running"
           /\ AcceptedThoughNotLegal(last') => ~Legal(last'),
         ~Lost(last') /\ ~Departs(last') => (last'.verdict = "running" <=> Legal(last'))
  PROVE  AcceptsTheDocumented'
<1> SUFFICES ASSUME ~Lost(last')
             PROVE  /\ Legal(last') /\ ~RefusedThoughLegal(last') => last'.verdict = "running"
                    /\ last'.verdict = "running" /\ ~AcceptedThoughNotLegal(last') => Legal(last')
  BY DEF AcceptsTheDocumented
<1> QED BY DEF Departs

(* Steps that generate nothing a type could be wrong in                    *)
LEMMA QuietStep ==
  ASSUME NEW op, NEW detail, NEW operands, NEW outcome, Records(op, detail, operands, outcome),
         op \notin Described, outcome.wants = outcome.gets
  PROVE  LastInv'
BY SameTypes, Undescribed DEF LastInv

LEMMA SameTypesOfOutcomes ==
  /\ \A t : Accept(t, t).wants = Accept(t, t).gets
  /\ Refuse.wants = Refuse.gets /\ Crash.wants = Crash.gets
BY OutcomeFields

LEMMA QuietLast ==
  ASSUME \/ \E t \in Type : Literal(t)
         \/ NullLiteral \/ StartArray \/ FinishArray \/ Load \/ Target \/ Discard
         \/ \E v \in Variables : Variable(v) \/ StartAssignment(v) \/ InferVariable(v)
         \/ \E c \in Callees : \E n \in 0..MaxStack : StartCall(c, n)
  PROVE  LastInv'
<1> DEFINE quiet == {"literal", "null", "array", "elements", "load", "target", "expression", "variable",
                     "assignment", "inference", "call"}
<1>1. \A op \in quiet : op \notin Described BY DEF Described
<1>2. ASSUME NEW op \in quiet, NEW detail, NEW operands, NEW o, Records(op, detail, operands, o),
             o.wants = o.gets
      PROVE  LastInv'
  BY <1>1, <1>2, QuietStep
<1>3. ASSUME NEW t \in Type, Literal(t) PROVE LastInv'
  <2>1. Records("literal", t.name, Operands(0), Accept(<<>>, <<>>)) BY <1>3 DEF Literal, Visit
  <2> QED BY <1>2, <2>1, SameTypesOfOutcomes
<1>4. ASSUME NullLiteral PROVE LastInv'
  <2>1. Records("null", "", Operands(0), Accept(<<>>, <<>>)) BY <1>4 DEF NullLiteral, Visit
  <2> QED BY <1>2, <2>1, SameTypesOfOutcomes
<1>5. ASSUME StartArray PROVE LastInv'
  <2>1. Records("array", "", Operands(0), Accept(<<>>, <<>>)) BY <1>5 DEF StartArray, Visit
  <2> QED BY <1>2, <2>1, SameTypesOfOutcomes
<1>6. ASSUME FinishArray PROVE LastInv'
  <2> DEFINE o == IF Top(1).kind = "array" THEN Accept(<<VoidType>>, <<VoidType>>) ELSE Accept(<<>>, <<>>)
  <2>1. Records("elements", "", Operands(1), o) BY <1>6 DEF FinishArray, Visit
  <2>2. o.wants = o.gets BY SameTypesOfOutcomes
  <2> HIDE DEF o
  <2> QED BY <1>2, <2>1, <2>2
<1>7. ASSUME Load PROVE LastInv'
  <2>1. Records("load", "", Operands(1), Accept(<<Top(1).type>>, <<Top(1).type>>)) BY <1>7 DEF Load, Visit
  <2> QED BY <1>2, <2>1, SameTypesOfOutcomes
<1>8. ASSUME Target PROVE LastInv'
  <2>1. Records("target", "", Operands(0), Accept(<<>>, <<>>)) BY <1>8 DEF Target, Visit
  <2> QED BY <1>2, <2>1, SameTypesOfOutcomes
<1>9. ASSUME Discard PROVE LastInv'
  <2>1. Records("expression", "", stack, Accept(<<>>, <<>>)) BY <1>9 DEF Discard, Statement
  <2> QED BY <1>2, <2>1, SameTypesOfOutcomes
<1>10. ASSUME NEW v \in Variables, Variable(v) PROVE LastInv'
  <2> DEFINE o == IF locals[v] = Undeclared THEN Refuse ELSE Accept(<<>>, <<>>)
  <2>1. Records("variable", v, Operands(0), o) BY <1>10 DEF Variable, Visit
  <2>2. o.wants = o.gets BY SameTypesOfOutcomes
  <2> HIDE DEF o
  <2> QED BY <1>2, <2>1, <2>2
<1>11. ASSUME NEW v \in Variables, StartAssignment(v) PROVE LastInv'
  <2> DEFINE o == IF locals[v] = Undeclared THEN Refuse ELSE Accept(<<>>, <<>>)
  <2>1. Records("assignment", v, Operands(0), o) BY <1>11 DEF StartAssignment, Visit
  <2>2. o.wants = o.gets BY SameTypesOfOutcomes
  <2> HIDE DEF o
  <2> QED BY <1>2, <2>1, <2>2
<1>12. ASSUME NEW v \in Variables, InferVariable(v) PROVE LastInv'
  <2>1. Records("inference", v, stack, Accept(<<Top(1).type>>, <<Top(1).type>>))
    BY <1>12 DEF InferVariable, Statement
  <2> QED BY <1>2, <2>1, SameTypesOfOutcomes
<1>13. ASSUME NEW c \in Callees, NEW n \in 0..MaxStack, StartCall(c, n) PROVE LastInv'
  <2> DEFINE o == IF Len(Params(c)) # n \/ (c \in DOMAIN Structs /\ n = 0) THEN Refuse ELSE Accept(<<>>, <<>>)
  <2>1. Records("call", c, Operands(0), o) BY <1>13 DEF StartCall, Visit
  <2>2. o.wants = o.gets BY SameTypesOfOutcomes
  <2> HIDE DEF o
  <2> QED BY <1>2, <2>1, <2>2
<1> QED BY <1>3, <1>4, <1>5, <1>6, <1>7, <1>8, <1>9, <1>10, <1>11, <1>12, <1>13

(* Conditions, results and indexes are not looked at.                      *)
LEMMA UncheckedLast ==
  ASSUME Condition \/ Return \/ FinishIndex PROVE LastInv'
<1> DEFINE Recorded(op) == \E detail, operands, o : Records(op, detail, operands, o)
<1>1. PICK op \in {"condition", "return", "index"} : Recorded(op)
  <2>1. CASE Condition
    <3>1. Recorded("condition") BY <2>1 DEF Condition, Statement
    <3> QED BY <3>1
  <2>2. CASE Return
    <3>1. Recorded("return") BY <2>2 DEF Return, Statement
    <3> QED BY <3>1
  <2>3. CASE FinishIndex
    <3>1. Recorded("index") BY <2>3 DEF FinishIndex, Visit
    <3> QED BY <3>1
  <2> QED BY <2>1, <2>2, <2>3
<1>2. PICK detail, operands, o : Records(op, detail, operands, o) BY <1>1
<1>3. last'.op = op BY <1>2, RecordedFields
<1>4. CodeIsWellTyped' BY <1>3 DEF CodeIsWellTyped, Unchecked
<1>5. op \notin Described BY DEF Described
<1>6. AcceptsTheDocumented' BY <1>2, <1>5, Undescribed
<1> QED BY <1>4, <1>6 DEF LastInv

LEMMA ElementLast ==
  ASSUME StateInv, Element PROVE LastInv'
<1> DEFINE e == Top(1)
           o == IF Top(2).kind = "elements" /\ e.type # Top(2).type THEN Refuse
                ELSE Accept(<<Plain(e.type.name)>>, <<e.type>>)
<1>1. Records("element", "", Operands(2), o) BY DEF Element, Visit
<1>2. 2 <= Len(stack) BY DEF Element, OnTop
<1>3. Good(e) BY <1>2, LastEntries
<1>4. Len(Operands(2)) = 2 /\ Operands(2)[2] = e
  <2>1. 2 \in Nat /\ 2 \in 1..2 /\ 2 - 2 + 1 = 1 OBVIOUS
  <2> QED BY <1>2, <2>1, TopEntries
<1>5. e.type = Plain(e.type.name) \/ e.type.array BY <1>3, TypeNames DEF Good, Type, Plain
<1>6. CodeIsWellTyped'
  <2>1. CASE e.type = Plain(e.type.name)
    <3>1. o.wants = o.gets BY <2>1, SameTypesOfOutcomes
    <3> HIDE DEF o
    <3> QED BY <1>1, <3>1, SameTypes
  <2>2. CASE e.type.array
    <3>1. last'.op = "element" /\ last'.operands = Operands(2) BY <1>1, RecordedFields
    <3>2. last'.operands[Len(last'.operands)] = e BY <1>4, <3>1
    <3> HIDE DEF e
    <3> QED BY <2>2, <3>1, <3>2 DEF CodeIsWellTyped, Unchecked
  <2> QED BY <1>5, <2>1, <2>2
<1> HIDE DEF o
<1>7. "element" \notin Described BY DEF Described
<1>8. AcceptsTheDocumented' BY <1>1, <1>7, Undescribed
<1> QED BY <1>6, <1>8 DEF LastInv

(* The default of a type is a value of that type, but for "any" and for    *)
(* the arrays of primary types.                                            *)
LEMMA Defaults ==
  ASSUME NEW t \in Type
  PROVE  DefaultType(t) = t \/ t = AnyType \/ (t.array /\ t.name \in Primary)
<1>1. t = Plain(t.name) \/ t.array BY DEF Type, Plain
<1>2. t.name = "any" => t = AnyType \/ (t.array /\ t.name \in Primary)
  BY <1>1 DEF AnyType, Primary
<1>3. t.name # "any" /\ t.name \in Primary => DefaultType(t) = t \/ (t.array /\ t.name \in Primary)
  BY <1>1 DEF DefaultType
<1>4. t.name \notin Primary => DefaultType(t) = t BY DEF DefaultType, Primary
<1> QED BY <1>2, <1>3, <1>4

LEMMA EnterParameterLast ==
  ASSUME StateInv, EnterParameter PROVE LastInv'
<1> DEFINE p == Functions[body].params[entered + 1]
           t == p.type
           args == body = "main" /\ Len(Params(body)) = 1 /\ t = ArrayOf("string")
           o == IF args THEN Accept(<<t>>, <<AnyType>>)
                ELSE IF locals[p.name] # Undeclared \/ t.name = "void" THEN Refuse
                ELSE Accept(<<t, t>>, <<DefaultType(t), t>>)
<1>1. Records("parameter", "", <<Value(t, t)>>, o) /\ Declare(p.name, t, t) /\ body' = body
  BY DEF EnterParameter
<1>2. t \in Type
  <2>1. body \in DOMAIN Functions /\ body \notin DOMAIN Structs /\ entered \in 0..Len(Params(body))
    BY ExpressionsAssumption DEF StateInv, ExpressionsTypeOK
  <2>2. body \in Callees /\ entered < Len(Params(body)) BY <2>1 DEF Callees, EnterParameter
  <2>3. /\ Functions[body].params \in Seq([name : Variables, type : Type]) BY <2>1, ExpressionsAssumption
  <2>4. /\ Len(Params(body)) \in Nat /\ DOMAIN Params(body) = 1..Len(Params(body))
        /\ \A i \in 1..Len(Params(body)) : Params(body)[i] \in Type
    BY <2>2, SignatureTypes
  <2>5. entered + 1 \in DOMAIN Params(body)
    <3> DEFINE n == Len(Params(body))
    <3>1. n \in Nat /\ entered \in 0..n /\ entered < n BY <2>1, <2>2, <2>4
    <3> HIDE DEF n
    <3>2. entered + 1 \in 1..n BY <3>1
    <3> QED BY <2>4, <3>2 DEF n
  <2>6. Params(body) = [i \in DOMAIN Functions[body].params |-> Functions[body].params[i].type]
    BY <2>1 DEF Params
  <2>7. Params(body)[entered + 1] = t BY <2>5, <2>6
  <2> QED BY <2>4, <2>5, <2>7
<1>3. Value(t, t).type = t BY <1>2, ValueTypes
<1>4. /\ last'.op = "parameter" /\ last'.operands = <<Value(t, t)>>
      /\ last'.wants = o.wants /\ last'.gets = o.gets /\ last'.verdict = o.verdict
  BY <1>1 DEF Records
<1>6. CodeIsWellTyped'
  <2>1. CASE args BY <1>1, <1>4, <2>1 DEF CodeIsWellTyped, Unchecked
  <2>2. CASE ~args /\ DefaultType(t) = t
    <3>1. o.wants = o.gets BY <2>2, SameTypesOfOutcomes
    <3> HIDE DEF o
    <3> QED BY <1>4, <3>1 DEF CodeIsWellTyped, WellTyped, Unchecked
  <2>3. CASE t = AnyType \/ (t.array /\ t.name \in Primary)
    <3>1. last'.operands # <<>> /\ last'.operands[1] = Value(t, t) BY <1>4
    <3>2. Left(last').type = t BY <1>3, <3>1 DEF Left
    <3> HIDE DEF o, t
    <3> QED BY <1>4, <2>3, <3>2 DEF CodeIsWellTyped, Unchecked
  <2> QED BY <1>2, <2>1, <2>2, <2>3, Defaults
<1> HIDE DEF o, t
<1>7. AcceptsTheDocumented' BY <1>4 DEF AcceptsTheDocumented, Described
<1> QED BY <1>6, <1>7 DEF LastInv

LEMMA DeclareVariableLast ==
  ASSUME NEW v \in Variables, NEW t \in Type, NEW assigned \in BOOLEAN, DeclareVariable(v, t, assigned)
  PROVE  LastInv'
<1>1. CASE ~Available(v) \/ assigned
  <2>1. PICK o \in {Refuse, Accept(<<>>, <<>>)} : Records("declaration", v, <<>>, o)
    BY <1>1 DEF DeclareVariable
  <2>2. o.wants = o.gets BY SameTypesOfOutcomes
  <2>3. "declaration" \notin Described BY DEF Described
  <2> QED BY <2>1, <2>2, <2>3, QuietStep
<1>2. CASE Available(v) /\ ~assigned
  <2> DEFINE o == IF t.name = "void" THEN Refuse ELSE Accept(<<t>>, <<DefaultType(t)>>)
  <2>1. Records("default", v, <<Value(t, t)>>, o) BY <1>2 DEF DeclareVariable
  <2>2. "default" \notin Described BY DEF Described
  <2>3. CASE DefaultType(t) = t
    <3>1. o.wants = o.gets BY <2>3, SameTypesOfOutcomes
    <3> HIDE DEF o
    <3> QED BY <2>1, <2>2, <3>1, QuietStep
  <2>4. CASE t = AnyType \/ (t.array /\ t.name \in Primary)
    <3> HIDE DEF o
    <3>1. last'.op = "default" /\ last'.operands = <<Value(t, t)>> BY <2>1 DEF Records
    <3>2. last'.operands # <<>> /\ last'.operands[1].type = t BY <3>1, ValueTypes
    <3>3. Left(last').type = t BY <3>2 DEF Left
    <3>4. CodeIsWellTyped' BY <2>4, <3>1, <3>3 DEF CodeIsWellTyped, Unchecked
    <3>5. AcceptsTheDocumented' BY <2>1, <2>2, Undescribed
    <3> QED BY <3>4, <3>5 DEF LastInv
  <2> QED BY <2>3, <2>4, Defaults
<1> QED BY <1>1, <1>2

(* The operands of a step are the entries on top of the stack.             *)
LEMMA OneOperand ==
  ASSUME StateInv, 1 <= Len(stack)
  PROVE  Operands(1)[1] = Top(1) /\ DOMAIN Operands(1) = 1..1 /\ Operands(1) # <<>>
<1>1. 1 \in Nat /\ 1 \in 1..1 /\ 1 - 1 + 1 = 1 OBVIOUS
<1>2. Operands(1) \in Seq(Entry) /\ Len(Operands(1)) = 1 /\ Operands(1)[1] = Top(1)
  BY <1>1, TopEntries
<1> QED BY <1>2, LenProperties, EmptySeq

LEMMA TwoOperands ==
  ASSUME StateInv, 2 <= Len(stack)
  PROVE  /\ Operands(2)[1] = Top(2) /\ Operands(2)[2] = Top(1)
         /\ DOMAIN Operands(2) = 1..2 /\ Operands(2) # <<>>
<1>1. 2 \in Nat /\ 1 \in 1..2 /\ 2 \in 1..2 /\ 2 - 1 + 1 = 2 /\ 2 - 2 + 1 = 1 OBVIOUS
<1>2. /\ Operands(2) \in Seq(Entry) /\ Len(Operands(2)) = 2
      /\ Operands(2)[1] = Top(2) /\ Operands(2)[2] = Top(1)
  BY <1>1, TopEntries
<1> QED BY <1>2, LenProperties, EmptySeq

LEMMA ThreeOperands ==
  ASSUME StateInv, 3 <= Len(stack)
  PROVE  /\ Operands(3)[1] = Top(3) /\ Operands(3)[2] = Top(2) /\ Operands(3)[3] = Top(1)
         /\ DOMAIN Operands(3) = 1..3
<1>1. /\ 3 \in Nat /\ 1 \in 1..3 /\ 2 \in 1..3 /\ 3 \in 1..3
      /\ 3 - 1 + 1 = 3 /\ 3 - 2 + 1 = 2 /\ 3 - 3 + 1 = 1
  OBVIOUS
<1>2. /\ Operands(3) \in Seq(Entry) /\ Len(Operands(3)) = 3
      /\ Operands(3)[1] = Top(3) /\ Operands(3)[2] = Top(2) /\ Operands(3)[3] = Top(1)
  BY <1>1, TopEntries
<1> QED BY <1>2, LenProperties

(* The checks of each operation on operands that kept their types          *)
LEMMA KindsOfTypes ==
  /\ \A t \in Type : Complex(t) <=> t \notin {IntType, DoubleType, BoolType, VoidType, AnyType}
  /\ \A t \in Type : Nullable(t) <=> t \notin {IntType, DoubleType, BoolType, VoidType}
  /\ IntType # DoubleType /\ IntType # BoolType /\ IntType # VoidType /\ IntType # AnyType /\ IntType # StringType
  /\ DoubleType # BoolType /\ DoubleType # VoidType /\ DoubleType # AnyType /\ DoubleType # StringType
  /\ BoolType # VoidType /\ BoolType # AnyType /\ BoolType # StringType
  /\ VoidType # AnyType /\ VoidType # StringType /\ AnyType # StringType
BY DEF Type, Complex, Nullable, Primary, Names, IntType, DoubleType, BoolType, VoidType, AnyType, StringType, Plain

LEMMA BinaryChecks ==
  ASSUME NEW t \in Type, NEW op \in Logic \cup Arithmetic, ~(t = BoolType /\ op \in Arithmetic)
  PROVE  BinaryOperation(t, op).verdict = "running" <=> t \in Numeric \/ (t = StringType /\ op = "ADD")
<1>1. ~t.array \/ (t \notin Numeric /\ t # StringType)
  BY DEF Numeric, IntType, DoubleType, BoolType, StringType, Plain
<1>2. t = BoolType => op \in Logic OBVIOUS
<1>3. /\ IntType # DoubleType /\ IntType # BoolType /\ IntType # StringType
      /\ DoubleType # BoolType /\ DoubleType # StringType /\ BoolType # StringType
  BY KindsOfTypes
<1>4. CASE t.array
  <2>1. t # IntType /\ t # DoubleType /\ t # BoolType /\ t # StringType BY <1>1, <1>4 DEF Numeric
  <2>2. BinaryOperation(t, op) = Crash BY <1>4, <2>1 DEF BinaryOperation
  <2> QED BY <1>1, <1>4, <2>2, OutcomeFields
<1>5. CASE ~t.array /\ t = IntType BY <1>3, <1>5, OutcomeFields DEF BinaryOperation, Numeric
<1>6. CASE ~t.array /\ t = DoubleType BY <1>3, <1>6, OutcomeFields DEF BinaryOperation, Numeric
<1>7. CASE ~t.array /\ t = BoolType BY <1>2, <1>3, <1>7, OutcomeFields DEF BinaryOperation, Numeric
<1>8. CASE ~t.array /\ t \notin Numeric
  <2>1. t # IntType /\ t # DoubleType /\ t # BoolType BY <1>8 DEF Numeric
  <2>2. CASE t = StringType /\ op = "ADD" BY <1>8, <2>1, <2>2, OutcomeFields DEF BinaryOperation
  <2>3. CASE ~(t = StringType /\ op = "ADD") BY <1>8, <2>1, <2>3, OutcomeFields DEF BinaryOperation
  <2> QED BY <2>2, <2>3
<1> QED BY <1>1, <1>4, <1>5, <1>6, <1>7, <1>8 DEF Numeric

LEMMA BinaryTypes ==
  ASSUME NEW t \in Type, NEW op, ~(t = DoubleType /\ op \in Logic)
  PROVE  BinaryOperation(t, op).wants = BinaryOperation(t, op).gets
BY SameTypesOfOutcomes DEF BinaryOperation

LEMMA BoolArithmetic ==
  ASSUME NEW op \in Arithmetic
  PROVE  BinaryOperation(BoolType, op) = Refuse
<1>1. op \notin Logic BY DEF Arithmetic, Logic
<1>2. ~BoolType.array BY DEF BoolType, Plain
<1> QED BY <1>1, <1>2, KindsOfTypes DEF BinaryOperation

LEMMA BinaryLast ==
  ASSUME StateInv, NEW op \in Logic \cup Arithmetic, Binary(op) PROVE LastInv'
<1> DEFINE l == Top(2)
           r == Top(1)
           o == IF l.type # r.type THEN Refuse ELSE BinaryOperation(l.type, op)
<1>1. Records("binary", op, Operands(2), o) /\ Evaluated(2) BY DEF Binary, Visit
<1>2. 2 <= Len(stack) /\ l.kind # "call" /\ r.kind # "call"
  <2>1. 1 \in 1..2 /\ 2 \in 1..2 OBVIOUS
  <2> QED BY <1>1, <2>1 DEF Evaluated
<1>3. Good(l) /\ Good(r) BY <1>2, LastEntries
<1>4. l.type \in Type /\ r.type \in Type BY <1>3 DEF Good
<1>5. /\ Operands(2)[1] = l /\ Operands(2)[2] = r /\ DOMAIN Operands(2) = 1..2 /\ Operands(2) # <<>>
  BY <1>2, TwoOperands
<1>6. /\ last'.op = "binary" /\ last'.detail = op /\ last'.operands = Operands(2)
      /\ last'.verdict = o.verdict
  BY <1>1, RecordedFields
<1>7. Left(last') = l BY <1>5, <1>6 DEF Left
<1> HIDE DEF l, r
<1>8. CodeIsWellTyped'
  <2>1. CASE l.type = DoubleType /\ op \in Logic
    <3> HIDE DEF o
    <3> QED BY <1>6, <1>7, <2>1 DEF CodeIsWellTyped, Unchecked
  <2>2. CASE ~(l.type = DoubleType /\ op \in Logic)
    <3>1. o.wants = o.gets BY <1>4, <2>2, BinaryTypes, SameTypesOfOutcomes
    <3> HIDE DEF o
    <3> QED BY <1>1, <3>1, SameTypes
  <2> QED BY <2>1, <2>2
<1>9. ASSUME ~Lost(last'), ~Departs(last') PROVE last'.verdict = "running" <=> Legal(last')
  <2>1. l.type = l.meant /\ r.type = r.meant
    <3>1. 1 \in DOMAIN last'.operands /\ 2 \in DOMAIN last'.operands BY <1>5, <1>6
    <3>2. last'.operands[1] = l /\ last'.operands[2] = r BY <1>5, <1>6
    <3> QED BY <1>2, <1>9, <3>1, <3>2 DEF Lost
  <2>2. ~(l.type = BoolType /\ op \in Arithmetic) BY <1>6, <1>7, <1>9 DEF Departs, RefusedThoughLegal
  <2>3. o.verdict = "running" <=> l.type = r.type /\ (l.type \in Numeric \/ (l.type = StringType /\ op = "ADD"))
    BY <1>4, <2>2, BinaryChecks, OutcomeFields
  <2>4. Legal(last') <=> r.meant = l.meant /\ (l.meant \in Numeric \/ (l.meant = StringType /\ op = "ADD"))
    BY <1>5, <1>6 DEF Legal
  <2> QED BY <1>6, <2>1, <2>3, <2>4
<1>10. ASSUME RefusedThoughLegal(last') PROVE last'.verdict # "running"
  <2>1. l.type = BoolType /\ op \in Arithmetic BY <1>6, <1>7, <1>10 DEF RefusedThoughLegal
  <2>2. BinaryOperation(l.type, op) = Refuse BY <2>1, BoolArithmetic
  <2> QED BY <1>6, <2>2, OutcomeFields
<1>11. ~AcceptedThoughNotLegal(last') BY <1>6 DEF AcceptedThoughNotLegal
<1> HIDE DEF o
<1>12. AcceptsTheDocumented' BY <1>9, <1>10, <1>11, DocumentedStep
<1> QED BY <1>8, <1>12 DEF LastInv

LEMMA ComparisonTypes ==
  ASSUME NEW l, NEW r, NEW op, l.type # StringType
  PROVE  Comparison(l, op, r).wants = Comparison(l, op, r).gets
<1>1. NullComparison(l, op, r).wants = NullComparison(l, op, r).gets
  BY SameTypesOfOutcomes DEF NullComparison
<1>2. StringComparison(l, op, r).wants = StringComparison(l, op, r).gets
  BY <1>1 DEF StringComparison
<1>3. PrimaryComparison(l.type, op).wants = PrimaryComparison(l.type, op).gets
  BY SameTypesOfOutcomes DEF PrimaryComparison
<1> QED BY <1>1, <1>2, <1>3, SameTypesOfOutcomes DEF Comparison

(* What is compared, but for a string and a value of another type          *)
LEMMA ComparisonChecks ==
  ASSUME NEW l, NEW r, NEW op, Good(l), Good(r),
         l.kind \in {"value", "null"}, r.kind \in {"value", "null"},
         ~(op \in Equality /\ l.type = StringType /\ r.kind # "null" /\ r.type # StringType)
  PROVE  Comparison(l, op, r).verdict = "running" <=>
           \/ l.type = r.type /\ l.type \in Numeric
           \/ op \in Equality /\ l.type = r.type /\ l.type \in {StringType, AnyType}
           \/ op \in Equality /\ l.kind = "null" /\ Nullable(r.type)
           \/ op \in Equality /\ r.kind = "null" /\ Nullable(l.type)
<1>1. /\ l.type \in Type /\ r.type \in Type
      /\ l.kind = "null" => l.type = AnyType
      /\ r.kind = "null" => r.type = AnyType
  BY DEF Good, Sound
<1>2. /\ Complex(StringType) /\ ~Complex(AnyType) /\ StringType # AnyType
      /\ StringType \notin Numeric /\ AnyType \notin Numeric
  BY KindsOfTypes, TypeNames DEF Numeric
<1>3. CASE ~Complex(l.type) /\ ~Complex(r.type)
  <2>1. Comparison(l, op, r) = IF l.type = r.type THEN PrimaryComparison(l.type, op) ELSE Refuse
    BY <1>3 DEF Comparison
  <2>2. (Nullable(l.type) <=> l.type = AnyType) /\ (Nullable(r.type) <=> r.type = AnyType)
    BY <1>3 DEF Nullable
  <2>3. PrimaryComparison(l.type, op).verdict = "running"
          <=> l.type \in Numeric \/ (l.type = AnyType /\ op \in Equality)
    BY OutcomeFields DEF PrimaryComparison, Numeric
  <2>4. l.type # StringType BY <1>2, <1>3
  <2>5. CASE l.type = r.type BY <1>1, <2>1, <2>2, <2>3, <2>4, <2>5
  <2>6. CASE l.type # r.type BY <1>1, <2>1, <2>2, <2>6, OutcomeFields
  <2> QED BY <2>5, <2>6
<1>4. CASE Complex(l.type) \/ Complex(r.type)
  <2>1. /\ Complex(l.type) => l.kind # "null" /\ Nullable(l.type) /\ l.type \notin Numeric
        /\ Complex(r.type) => r.kind # "null" /\ Nullable(r.type) /\ r.type \notin Numeric
    BY <1>1, KindsOfTypes DEF Numeric
  <2>2. /\ l.kind = "null" => ~Complex(l.type)
        /\ r.kind = "null" => ~Complex(r.type)
    BY <1>1, <1>2
  <2>3. l.type = r.type => l.type \notin Numeric /\ l.type # AnyType BY <1>2, <1>4, <2>1
  <2>4. NullComparison(l, op, r).verdict = "running"
          <=> /\ l.kind = "null" \/ r.kind = "null"
              /\ ~Complex(l.type) \/ ~Complex(r.type)
              /\ op \in Equality
    BY OutcomeFields DEF NullComparison
  <2>5. CASE l.type = StringType /\ r.kind # "null" /\ op \in Equality
    <3>1. StringComparison(l, op, r) = Accept(<<StringType, StringType>>, <<l.type, r.type>>)
      BY <2>5 DEF StringComparison
    <3>2. Comparison(l, op, r) = StringComparison(l, op, r) BY <1>2, <2>5 DEF Comparison
    <3>3. r.type = StringType BY <2>5
    <3> QED BY <2>5, <3>1, <3>2, <3>3, OutcomeFields
  <2>6. CASE ~(l.type = StringType /\ r.kind # "null" /\ op \in Equality)
    <3>1. StringComparison(l, op, r) = NullComparison(l, op, r) BY <2>6 DEF StringComparison
    <3>2. Comparison(l, op, r) = NullComparison(l, op, r) BY <1>4, <3>1 DEF Comparison
    <3>3. ~(op \in Equality /\ l.type = r.type /\ l.type \in {StringType, AnyType})
      BY <1>2, <2>2, <2>3, <2>6
    <3>4. CASE l.kind = "null" BY <1>4, <2>1, <2>2, <2>3, <2>4, <3>2, <3>3, <3>4
    <3>5. CASE r.kind = "null" BY <1>4, <2>1, <2>2, <2>3, <2>4, <3>2, <3>3, <3>5
    <3>6. CASE l.kind # "null" /\ r.kind # "null" BY <2>3, <2>4, <3>2, <3>3, <3>6
    <3> QED BY <3>4, <3>5, <3>6
  <2> QED BY <2>5, <2>6
<1> QED BY <1>3, <1>4

LEMMA CompareLast ==
  ASSUME StateInv, NEW op, Compare(op) PROVE LastInv'
<1> DEFINE l == Top(2)
           r == Top(1)
           o == Comparison(l, op, r)
<1>1. Records("comparison", op, Operands(2), o) /\ Evaluated(2) BY DEF Compare, Visit
<1>2. 2 <= Len(stack) /\ l.kind \in {"value", "null"} /\ r.kind \in {"value", "null"}
  <2>1. 1 \in 1..2 /\ 2 \in 1..2 OBVIOUS
  <2> QED BY <1>1, <2>1 DEF Evaluated
<1>3. Good(l) /\ Good(r) BY <1>2, LastEntries
<1>4. /\ Operands(2)[1] = l /\ Operands(2)[2] = r /\ DOMAIN Operands(2) = 1..2 /\ Operands(2) # <<>>
  BY <1>2, TwoOperands
<1>5. /\ last'.op = "comparison" /\ last'.detail = op /\ last'.operands = Operands(2)
      /\ last'.verdict = o.verdict
  BY <1>1, RecordedFields
<1>6. Left(last') = l BY <1>4, <1>5 DEF Left
<1> HIDE DEF l, r
<1>7. CodeIsWellTyped'
  <2>1. CASE l.type = StringType
    <3> HIDE DEF o
    <3> QED BY <1>5, <1>6, <2>1 DEF CodeIsWellTyped, Unchecked
  <2>2. CASE l.type # StringType
    <3>1. o.wants = o.gets BY <2>2, ComparisonTypes
    <3> HIDE DEF o
    <3> QED BY <1>1, <3>1, SameTypes
  <2> QED BY <2>1, <2>2
<1>8. Legal(last') <=>
         \/ l.meant = r.meant /\ l.meant \in Numeric
         \/ op \in Equality /\ l.meant = r.meant /\ l.meant \in {StringType, AnyType}
         \/ op \in Equality /\ l.kind = "null" /\ Nullable(r.meant)
         \/ op \in Equality /\ r.kind = "null" /\ Nullable(l.meant)
  BY <1>4, <1>5 DEF Legal
<1>9. ASSUME ~Lost(last') PROVE l.type = l.meant /\ r.type = r.meant
  <2>1. last'.operands[1] = l /\ last'.operands[2] = r BY <1>4, <1>5
  <2>2. 1 \in DOMAIN last'.operands /\ 2 \in DOMAIN last'.operands BY <1>4, <1>5
  <2> QED BY <1>2, <1>9, <2>1, <2>2 DEF Lost
<1>10. ASSUME ~Lost(last'), ~Departs(last') PROVE last'.verdict = "running" <=> Legal(last')
  <2>1. last'.operands[1] = l /\ last'.operands[2] = r BY <1>4, <1>5
  <2>2. l.type = l.meant /\ r.type = r.meant BY <1>10, <1>9
  <2>3. ~(op \in Equality /\ l.type = StringType /\ r.kind # "null" /\ r.type # StringType)
    BY <1>5, <1>6, <1>10, <2>1 DEF Departs, AcceptedThoughNotLegal
  <2>4. o.verdict = "running" <=>
           \/ l.type = r.type /\ l.type \in Numeric
           \/ op \in Equality /\ l.type = r.type /\ l.type \in {StringType, AnyType}
           \/ op \in Equality /\ l.kind = "null" /\ Nullable(r.type)
           \/ op \in Equality /\ r.kind = "null" /\ Nullable(l.type)
    BY <1>2, <1>3, <2>3, ComparisonChecks
  <2> QED BY <1>5, <1>8, <2>2, <2>4
<1>11. ASSUME ~Lost(last'), AcceptedThoughNotLegal(last') PROVE ~Legal(last')
  <2>1. l.type = l.meant /\ r.type = r.meant BY <1>9, <1>11
  <2>2. op \in Equality /\ l.type = StringType /\ r.kind # "null" /\ r.type # StringType
    BY <1>4, <1>5, <1>6, <1>11 DEF AcceptedThoughNotLegal
  <2>3. l.kind # "null" BY <1>3, <2>2, KindsOfTypes DEF Good, Sound
  <2>4. StringType \notin Numeric BY KindsOfTypes DEF Numeric
  <2> QED BY <1>8, <2>1, <2>2, <2>3, <2>4
<1>12. ~RefusedThoughLegal(last') BY <1>5 DEF RefusedThoughLegal
<1> HIDE DEF o
<1>13. AcceptsTheDocumented' BY <1>10, <1>11, <1>12, DocumentedStep
<1> QED BY <1>7, <1>13 DEF LastInv

(* What is converted, but for "any" and void to themselves                 *)
LEMMA ConversionChecks ==
  ASSUME NEW t \in Type, NEW n, ~(t \in {VoidType, AnyType} /\ Plain(n) = t)
  PROVE  n \in Conversions(t) <=> n \in DocumentedConversions(t)
<1>1. CASE t = IntType BY <1>1, KindsOfTypes DEF Conversions, DocumentedConversions
<1>2. CASE t = DoubleType BY <1>2, KindsOfTypes DEF Conversions, DocumentedConversions
<1>3. CASE t = BoolType BY <1>3, KindsOfTypes DEF Conversions, DocumentedConversions
<1>4. CASE t = StringType BY <1>4, KindsOfTypes DEF Conversions, DocumentedConversions
<1>5. CASE t = VoidType
  <2>1. Conversions(t) = {"void"} /\ DocumentedConversions(t) = {}
    BY <1>5, KindsOfTypes DEF Conversions, DocumentedConversions
  <2>2. n # "void" BY <1>5 DEF VoidType
  <2> QED BY <2>1, <2>2
<1>6. CASE t = AnyType
  <2>1. Conversions(t) = {"any"} /\ DocumentedConversions(t) = {}
    BY <1>6, KindsOfTypes DEF Conversions, DocumentedConversions
  <2>2. n # "any" BY <1>6 DEF AnyType
  <2> QED BY <2>1, <2>2
<1>7. CASE t \notin {IntType, DoubleType, BoolType, StringType, VoidType, AnyType}
  BY <1>7 DEF Conversions, DocumentedConversions
<1> QED BY <1>1, <1>2, <1>3, <1>4, <1>5, <1>6, <1>7

LEMMA ConvertLast ==
  ASSUME StateInv, NEW n, Convert(n) PROVE LastInv'
<1> DEFINE e == Top(1)
           o == IF n \in Conversions(e.type) THEN Accept(<<>>, <<>>) ELSE Refuse
<1>1. Records("conversion", n, Operands(1), o) /\ Evaluated(1) BY DEF Convert, Visit
<1>2. 1 <= Len(stack) /\ e.kind # "call"
  <2>1. 1 \in 1..1 OBVIOUS
  <2> QED BY <1>1, <2>1 DEF Evaluated
<1>3. e.type \in Type BY <1>2, LastEntries DEF Good
<1>4. Operands(1)[1] = e /\ DOMAIN Operands(1) = 1..1 /\ Operands(1) # <<>> BY <1>2, OneOperand
<1>5. /\ last'.op = "conversion" /\ last'.detail = n /\ last'.operands = Operands(1)
      /\ last'.verdict = o.verdict
  BY <1>1, RecordedFields
<1>6. Left(last') = e BY <1>4, <1>5 DEF Left
<1>7. o.wants = o.gets BY SameTypesOfOutcomes
<1>8. o.verdict = "running" <=> n \in Conversions(e.type) BY OutcomeFields
<1> HIDE DEF e, o
<1>9. CodeIsWellTyped' BY <1>1, <1>7, SameTypes
<1>10. ASSUME ~Lost(last') PROVE Legal(last') <=> n \in DocumentedConversions(e.type)
  <2>1. last'.operands[1] = e /\ 1 \in DOMAIN last'.operands BY <1>4, <1>5
  <2>2. e.type = e.meant BY <1>2, <1>10, <2>1 DEF Lost
  <2>3. Legal(last') <=> n \in DocumentedConversions(e.meant) BY <1>5, <2>1 DEF Legal
  <2> QED BY <2>2, <2>3
<1>11. ASSUME ~Lost(last'), ~Departs(last') PROVE last'.verdict = "running" <=> Legal(last')
  <2>1. ~(e.type \in {VoidType, AnyType} /\ Plain(n) = e.type)
    BY <1>5, <1>6, <1>11 DEF Departs, AcceptedThoughNotLegal
  <2>2. n \in Conversions(e.type) <=> n \in DocumentedConversions(e.type) BY <1>3, <2>1, ConversionChecks
  <2> QED BY <1>5, <1>8, <1>10, <1>11, <2>2
<1>12. ASSUME ~Lost(last'), AcceptedThoughNotLegal(last') PROVE ~Legal(last')
  <2>1. e.type \in {VoidType, AnyType} BY <1>5, <1>6, <1>12 DEF AcceptedThoughNotLegal
  <2>2. DocumentedConversions(e.type) = {} BY <2>1, KindsOfTypes DEF DocumentedConversions
  <2> QED BY <1>10, <1>12, <2>2
<1>13. ~RefusedThoughLegal(last') BY <1>5 DEF RefusedThoughLegal
<1>14. AcceptsTheDocumented' BY <1>11, <1>12, <1>13, DocumentedStep
<1> QED BY <1>9, <1>14 DEF LastInv

LEMMA StartIndexLast ==
  ASSUME StateInv, StartIndex PROVE LastInv'
<1> DEFINE a == Top(1)
           o == IF ~Complex(a.type) THEN Crash ELSE IF ~a.type.array THEN Refuse ELSE Accept(<<>>, <<>>)
<1>1. Records("array of index", "", Operands(1), o) BY DEF StartIndex, Visit
<1>2. 1 <= Len(stack) /\ a.kind # "call" BY DEF StartIndex, OnTop
<1>3. a.type \in Type BY <1>2, LastEntries DEF Good
<1>4. Operands(1)[1] = a /\ DOMAIN Operands(1) = 1..1 BY <1>2, OneOperand
<1>5. /\ last'.op = "array of index" /\ last'.operands = Operands(1)
      /\ last'.verdict = o.verdict
  BY <1>1, RecordedFields
<1>6. o.wants = o.gets BY SameTypesOfOutcomes
<1>7. o.verdict = "running" <=> a.type.array
  <2>1. a.type.array => Complex(a.type) BY DEF Complex
  <2> QED BY <2>1, OutcomeFields
<1> HIDE DEF a, o
<1>8. CodeIsWellTyped' BY <1>1, <1>6, SameTypes
<1>9. ASSUME ~Lost(last') PROVE last'.verdict = "running" <=> Legal(last')
  <2>1. 1 \in 1..1 OBVIOUS
  <2>2. last'.operands[1] = a /\ 1 \in DOMAIN last'.operands BY <1>4, <1>5, <2>1
  <2>3. a.type = a.meant BY <1>2, <1>9, <2>2 DEF Lost
  <2>4. Legal(last') <=> a.meant.array BY <1>5, <2>2 DEF Legal
  <2> QED BY <1>5, <1>7, <2>3, <2>4
<1>10. ~RefusedThoughLegal(last') /\ ~AcceptedThoughNotLegal(last')
  BY <1>5 DEF RefusedThoughLegal, AcceptedThoughNotLegal
<1>11. AcceptsTheDocumented' BY <1>9, <1>10, DocumentedStep
<1> QED BY <1>8, <1>11 DEF LastInv

(* A primary value has no member.                                          *)
LEMMA OnlyComplexHaveMembers ==
  ASSUME NEW t \in Type, NEW m, Member(t, m) # {}
  PROVE  Complex(t)
<1>1. CASE t.array BY <1>1 DEF Complex
<1>2. CASE t = StringType BY <1>2, TypeNames, KindsOfTypes
<1>3. CASE ~t.array /\ t # StringType
  <2>1. t.name \in DOMAIN Structs BY <1>3 DEF Member
  <2> QED BY <2>1, ExpressionsAssumption DEF Complex
<1> QED BY <1>1, <1>2, <1>3

(* A set of indexes has a least one.                                       *)
LEMMA FirstIndex ==
  ASSUME NEW S, S \subseteq Nat, S # {}
  PROVE  \E i \in S : \A k \in S : i <= k
<1>1. IsWellFoundedOn({ss \in Nat \X Nat : ss[1] < ss[2]}, Nat) BY NatLessThanWellFounded DEF OpToRel
<1>2. PICK i \in S : \A k \in S : <<k, i>> \notin {ss \in Nat \X Nat : ss[1] < ss[2]}
  BY <1>1, WFMin, Zenon
<1>3. \A k \in S : ~(k < i) BY <1>2
<1> QED BY <1>2, <1>3

(* The generator finds the members the documentation speaks of, and the    *)
(* pointer in a string.                                                    *)
LEMMA MemberChecks ==
  ASSUME NEW t \in Type, NEW m, ~(t = StringType /\ m = "data")
  PROVE  Member(t, m) # {} <=> DocumentedMember(t, m)
<1>1. CASE t.array BY <1>1, TypeNames DEF Member, DocumentedMember
<1>2. CASE ~t.array /\ t = StringType
  <2>1. t.name \notin DOMAIN Structs BY <1>2, ExpressionsAssumption DEF StringType, Plain
  <2> QED BY <1>2, <2>1 DEF Member, DocumentedMember
<1>3. CASE ~t.array /\ t # StringType /\ t.name \in DOMAIN Structs
  <2> DEFINE members == Structs[t.name]
             named == {i \in DOMAIN members : members[i].name = m}
  <2>1. Member(t, m) = {members[i].type : i \in {j \in named : \A k \in named : j <= k}}
    BY <1>3 DEF Member
  <2>2. DocumentedMember(t, m) <=> named # {} BY <1>3 DEF DocumentedMember
  <2>3. named \subseteq Nat
    <3>1. members \in Seq([name : STRING, type : Type]) BY <1>3, ExpressionsAssumption
    <3>2. DOMAIN members = 1..Len(members) BY <3>1, LenProperties
    <3>3. 1..Len(members) \subseteq Nat OBVIOUS
    <3> QED BY <3>2, <3>3
  <2> HIDE DEF named, members
  <2>4. named # {} => \E i \in named : \A k \in named : i <= k BY <2>3, FirstIndex
  <2> QED BY <2>1, <2>2, <2>4
<1>4. CASE ~t.array /\ t # StringType /\ t.name \notin DOMAIN Structs
  BY <1>4 DEF Member, DocumentedMember
<1> QED BY <1>1, <1>2, <1>3, <1>4

LEMMA MemberOfLast ==
  ASSUME StateInv, NEW m, MemberOf(m) PROVE LastInv'
<1> DEFINE a == Top(1)
<1>1. 1 <= Len(stack) /\ a.kind # "call" BY DEF MemberOf, OnTop
<1>2. a.type \in Type BY <1>1, LastEntries DEF Good
<1>3. Operands(1)[1] = a /\ DOMAIN Operands(1) = 1..1 BY <1>1, OneOperand
<1>4. PICK o \in {Refuse, Crash, Accept(<<>>, <<>>)} :
        /\ Records("member", m, Operands(1), o)
        /\ o.verdict = "running" <=> Complex(a.type) /\ Member(a.type, m) # {}
  <2>1. CASE ~Complex(a.type) \/ Member(a.type, m) = {}
    <3>1. Visit("member", m, 1, IF Complex(a.type) THEN Refuse ELSE Crash, a) BY <2>1 DEF MemberOf
    <3>2. Records("member", m, Operands(1), IF Complex(a.type) THEN Refuse ELSE Crash) BY <3>1 DEF Visit
    <3> HIDE DEF a
    <3>3. CASE Complex(a.type) BY <2>1, <3>2, <3>3, OutcomeFields
    <3>4. CASE ~Complex(a.type) BY <2>1, <3>2, <3>4, OutcomeFields
    <3> QED BY <3>3, <3>4
  <2>2. CASE ~(~Complex(a.type) \/ Member(a.type, m) = {})
    <3>1. PICK t \in Member(a.type, m) : Visit("member", m, 1, Accept(<<>>, <<>>), Mark("address", t, t, a.of))
      BY <2>2 DEF MemberOf
    <3>2. Records("member", m, Operands(1), Accept(<<>>, <<>>)) BY <3>1 DEF Visit
    <3> QED BY <2>2, <3>2, OutcomeFields
  <2> QED BY <2>1, <2>2
<1>5. /\ last'.op = "member" /\ last'.detail = m /\ last'.operands = Operands(1)
      /\ last'.verdict = o.verdict
  BY <1>4, RecordedFields
<1>6. o.wants = o.gets BY SameTypesOfOutcomes
<1> HIDE DEF a
<1>7. CodeIsWellTyped' BY <1>4, <1>6, SameTypes
<1>8. last'.operands[1] = a /\ 1 \in DOMAIN last'.operands
  <2>1. last'.operands = Operands(1) /\ 1 \in 1..1 BY <1>5
  <2> HIDE DEF Operands
  <2> QED BY <1>3, <2>1
<1>9. Left(last') = a
  <2>1. last'.operands # <<>> BY <1>8
  <2> QED BY <1>8, <2>1 DEF Left
<1>10. ASSUME ~Lost(last') PROVE Legal(last') <=> DocumentedMember(a.type, m)
  <2>1. a.type = a.meant BY <1>1, <1>8, <1>10 DEF Lost
  <2>2. Legal(last') <=> DocumentedMember(a.meant, m) BY <1>5, <1>8 DEF Legal
  <2> QED BY <2>1, <2>2
<1>11. ASSUME ~Lost(last'), ~Departs(last') PROVE last'.verdict = "running" <=> Legal(last')
  <2>1. ~(a.type = StringType /\ m = "data") BY <1>5, <1>9, <1>11 DEF Departs, AcceptedThoughNotLegal
  <2>2. Member(a.type, m) # {} <=> DocumentedMember(a.type, m) BY <1>2, <2>1, MemberChecks
  <2>3. Member(a.type, m) # {} => Complex(a.type) BY <1>2, OnlyComplexHaveMembers
  <2> QED BY <1>4, <1>5, <1>10, <1>11, <2>2, <2>3
<1>12. ASSUME ~Lost(last'), AcceptedThoughNotLegal(last') PROVE ~Legal(last')
  <2>1. a.type = StringType /\ m = "data" BY <1>5, <1>9, <1>12 DEF AcceptedThoughNotLegal
  <2>2. "string" \notin DOMAIN Structs /\ a.type.name = "string" BY <2>1, ExpressionsAssumption DEF StringType, Plain
  <2>3. ~DocumentedMember(a.type, m) BY <2>1, <2>2 DEF DocumentedMember
  <2> QED BY <1>10, <1>12, <2>3
<1>13. ~RefusedThoughLegal(last') BY <1>5 DEF RefusedThoughLegal
<1>14. AcceptsTheDocumented' BY <1>11, <1>12, <1>13, DocumentedStep
<1> QED BY <1>7, <1>14 DEF LastInv

(* A value fits a slot when it has its type, and null when it is nullable. *)
LEMMA AssignmentChecks ==
  ASSUME NEW e, NEW slot \in Type, e.kind \in {"value", "null"}, e.type = e.meant,
         e.kind = "null" => Nullable(slot), slot # VoidType
  PROVE  CanAssign(Assigned(e, slot), slot) <=> Fits(e, slot)
BY DEF CanAssign, Assigned, Fits

LEMMA StoreLast ==
  ASSUME StateInv, Store PROVE LastInv'
<1> DEFINE a == Top(1)
           e == Top(2)
           slot == a.type
           given == Assigned(e, slot)
           o == IF CanAssign(given, slot) THEN Accept(<<slot>>, <<given>>) ELSE Refuse
<1>1. Records("store", "", Operands(3), o) BY DEF Store, Visit
<1>2. 3 <= Len(stack) /\ e.kind \in {"value", "null"} /\ a.kind # "call" BY DEF Store, OnTop
<1>3. slot \in Type BY <1>2, LastEntries DEF Good
<1>4. Operands(3)[2] = e /\ Operands(3)[3] = a /\ DOMAIN Operands(3) = 1..3 BY <1>2, ThreeOperands
<1>5. last'.op = "store" /\ last'.operands = Operands(3) /\ last'.verdict = o.verdict
  BY <1>1, RecordedFields
<1>6. o.wants = o.gets
  <2>1. CASE CanAssign(given, slot)
    <3>1. given = slot BY <2>1 DEF CanAssign
    <3> HIDE DEF given
    <3> QED BY <3>1, SameTypesOfOutcomes
  <2>2. CASE ~CanAssign(given, slot) BY <2>2, SameTypesOfOutcomes
  <2> QED BY <2>1, <2>2
<1>7. o.verdict = "running" <=> CanAssign(given, slot) BY OutcomeFields
<1> HIDE DEF a, e, o
<1>8. CodeIsWellTyped' BY <1>1, <1>6, SameTypes
<1>9. last'.operands[2] = e /\ last'.operands[3] = a BY <1>4, <1>5
<1>10. ASSUME ~Lost(last') PROVE e.type = e.meant /\ (Legal(last') <=> Fits(e, slot))
  <2>1. 2 \in DOMAIN last'.operands /\ 3 \in DOMAIN last'.operands BY <1>4, <1>5
  <2>2. e.type = e.meant BY <1>2, <1>9, <1>10, <2>1 DEF Lost
  <2>3. a.type = a.meant BY <1>2, <1>9, <1>10, <2>1 DEF Lost
  <2> QED BY <1>5, <1>9, <2>2, <2>3 DEF Legal
<1>11. ASSUME ~Lost(last'), ~Departs(last') PROVE last'.verdict = "running" <=> Legal(last')
  <2>1. (e.kind = "null" => Nullable(slot)) /\ slot # VoidType
    BY <1>5, <1>9, <1>11 DEF Departs, AcceptedThoughNotLegal
  <2>2. CanAssign(given, slot) <=> Fits(e, slot)
    <3> HIDE DEF slot
    <3> QED BY <1>2, <1>3, <1>10, <1>11, <2>1, AssignmentChecks
  <2> QED BY <1>5, <1>7, <1>10, <1>11, <2>2
<1>12. ASSUME ~Lost(last'), AcceptedThoughNotLegal(last') PROVE ~Legal(last')
  <2>1. (e.kind = "null" /\ ~Nullable(slot)) \/ slot = VoidType
    BY <1>5, <1>9, <1>12 DEF AcceptedThoughNotLegal
  <2>2. ~Fits(e, slot) BY <2>1, KindsOfTypes, TypeNames DEF Fits
  <2> QED BY <1>10, <1>12, <2>2
<1>13. ~RefusedThoughLegal(last') BY <1>5 DEF RefusedThoughLegal
<1>14. AcceptsTheDocumented' BY <1>11, <1>12, <1>13, DocumentedStep
<1> QED BY <1>8, <1>14 DEF LastInv

(* The parameters of a call, as cloned and as declared                     *)
LEMMA ClonedSignature ==
  ASSUME NEW c \in Callees
  PROVE  /\ ClonedParams(c) = [i \in 1..Len(Params(c)) |-> ClonedParams(c)[i]]
         /\ \A i \in 1..Len(Params(c)) :
              IF Foreign(c) /\ Params(c)[i].array THEN ClonedParams(c)[i] = Plain(Params(c)[i].name)
                                                  ELSE ClonedParams(c)[i] = Params(c)[i]
<1> DEFINE n == Len(Params(c))
<1>1. DOMAIN Params(c) = 1..n /\ \A i \in 1..n : Params(c)[i] \in Type BY SignatureTypes
<1>2. Params(c) = [i \in 1..n |-> Params(c)[i]]
  <2>1. CASE c \in DOMAIN Structs BY <1>1, <2>1 DEF Params
  <2>2. CASE c \notin DOMAIN Structs BY <1>1, <2>2 DEF Params
  <2> QED BY <2>1, <2>2
<1> HIDE DEF n
<1>3. CASE Foreign(c)
  <2>1. ClonedParams(c) = [i \in 1..n |-> Plain(Params(c)[i].name)] BY <1>1, <1>3 DEF ClonedParams
  <2>2. \A i \in 1..n : ~Params(c)[i].array => Plain(Params(c)[i].name) = Params(c)[i]
    BY <1>1 DEF Type, Plain
  <2> QED BY <1>3, <2>1, <2>2 DEF n
<1>4. CASE ~Foreign(c)
  <2>1. ClonedParams(c) = Params(c) BY <1>4 DEF ClonedParams
  <2> QED BY <1>2, <1>4, <2>1 DEF n
<1> QED BY <1>3, <1>4

LEMMA FinishCallLast ==
  ASSUME StateInv, NEW c \in Callees, FinishCall(c) PROVE LastInv'
<1> DEFINE n == Len(Params(c))
           slots == ClonedParams(c)
           arg(i) == Top(n - i + 1)
           args == [i \in 1..n |-> Assigned(arg(i), slots[i])]
           fit == c \notin Uncallable /\ \A i \in 1..n : CanAssign(args[i], slots[i])
           o == IF fit THEN Accept(slots, args) ELSE Refuse
<1>1. Records("arguments", c, Operands(n + 1), o) BY DEF FinishCall, Visit
<1>2. n + 1 <= Len(stack) /\ Evaluated(n) BY DEF FinishCall, OnTop
<1>3. n \in Nat /\ n + 1 \in Nat BY SignatureTypes
<1>4. \A i \in 1..n : arg(i).kind \in {"value", "null"}
  <2>1. \A i \in 1..n : n - i + 1 \in 1..n BY <1>3
  <2> QED BY <1>2, <2>1 DEF Evaluated
<1>5. /\ Operands(n + 1) \in Seq(Entry) /\ Len(Operands(n + 1)) = n + 1
      /\ \A k \in 1..(n + 1) : Operands(n + 1)[k] = Top((n + 1) - k + 1)
  <2> HIDE DEF n
  <2> QED BY <1>2, <1>3, TopEntries
<1>6. \A i \in 1..n : i + 1 \in DOMAIN Operands(n + 1) /\ Operands(n + 1)[i + 1] = arg(i)
  <2>1. \A i \in 1..n : i + 1 \in 1..(n + 1) /\ (n + 1) - (i + 1) + 1 = n - i + 1 BY <1>3
  <2>2. DOMAIN Operands(n + 1) = 1..(n + 1) BY <1>3, <1>5, LenProperties
  <2> QED BY <1>5, <2>1, <2>2
<1>7. /\ last'.op = "arguments" /\ last'.detail = c /\ last'.operands = Operands(n + 1)
      /\ last'.verdict = o.verdict
  BY <1>1, RecordedFields
<1>8. o.wants = o.gets
  <2>1. CASE fit
    <3>1. \A i \in 1..n : args[i] = slots[i] BY <2>1 DEF CanAssign
    <3>2. slots = [i \in 1..n |-> slots[i]] BY ClonedSignature
    <3>3. args = [i \in 1..n |-> args[i]] OBVIOUS
    <3> HIDE DEF args, slots, n
    <3>4. args = slots BY <3>1, <3>2, <3>3
    <3> QED BY <2>1, <3>4, SameTypesOfOutcomes
  <2>2. CASE ~fit
    <3> HIDE DEF fit
    <3> QED BY <2>2, SameTypesOfOutcomes
  <2> QED BY <2>1, <2>2
<1>9. o.verdict = "running" <=> fit
  <2> HIDE DEF fit
  <2> QED BY OutcomeFields
<1> HIDE DEF o, arg
<1>10. CodeIsWellTyped' BY <1>1, <1>8, SameTypes
<1>11. ASSUME NEW i \in 1..n
       PROVE  /\ last'.operands[i + 1] = arg(i) /\ arg(i).kind \in {"value", "null"}
              /\ arg(i).kind = "null" => arg(i).type = AnyType
              /\ ~Lost(last') => arg(i).type = arg(i).meant
              /\ args[i] = Assigned(arg(i), slots[i]) /\ Params(c)[i] \in Type
  <2>1. i + 1 \in DOMAIN last'.operands /\ last'.operands[i + 1] = arg(i) BY <1>6, <1>7
  <2>2. arg(i).kind \in {"value", "null"} BY <1>4
  <2>3. ~Lost(last') => arg(i).type = arg(i).meant BY <2>1, <2>2 DEF Lost
  <2>4. arg(i).kind = "null" => arg(i).type = AnyType
    <3>1. n - i + 1 \in Nat \ {0} /\ n - i + 1 <= Len(stack)
      <4>1. n - i + 1 \in Nat \ {0} /\ n - i + 1 <= n + 1 BY <1>3
      <4>2. Len(stack) \in Nat BY LastEntries
      <4> HIDE DEF n
      <4> QED BY <1>2, <1>3, <4>1, <4>2
    <3> QED BY <3>1, TopEntry DEF Sound, arg
  <2>5. args[i] = Assigned(arg(i), slots[i]) OBVIOUS
  <2>6. Params(c)[i] \in Type BY SignatureTypes
  <2> HIDE DEF args, slots
  <2> QED BY <2>1, <2>2, <2>3, <2>4, <2>5, <2>6
<1>12. Legal(last') <=> c \notin Uncallable /\ \A i \in 1..n : Fits(arg(i), Params(c)[i])
  <2>1. Legal(last') <=> c \notin Uncallable /\ \A i \in 1..n : Fits(last'.operands[i + 1], Params(c)[i])
    BY <1>7 DEF Legal
  <2> QED BY <1>6, <1>7, <2>1
<1> HIDE DEF args, slots
<1>13. ASSUME ~Lost(last'), ~Departs(last') PROVE last'.verdict = "running" <=> Legal(last')
  <2>1. ASSUME NEW i \in 1..n PROVE CanAssign(args[i], slots[i]) <=> Fits(arg(i), Params(c)[i])
    <3>1. /\ ~(Foreign(c) /\ Params(c)[i].array /\ arg(i).type = Params(c)[i])
          /\ Params(c)[i] # VoidType
          /\ arg(i).kind = "null" => Nullable(Params(c)[i])
          /\ ~(Foreign(c) /\ Params(c)[i].array /\ arg(i).kind = "value" /\ arg(i).type = Plain(Params(c)[i].name))
      BY <1>7, <1>11, <1>13 DEF Departs, RefusedThoughLegal, AcceptedThoughNotLegal
    <3>2. CASE Foreign(c) /\ Params(c)[i].array
      <4>1. slots[i] = Plain(Params(c)[i].name) BY <3>2, ClonedSignature DEF slots
      <4>2. CASE arg(i).kind = "null"
        <5>1. CanAssign(args[i], slots[i]) BY <1>11, <4>2 DEF CanAssign, Assigned
        <5> QED BY <3>1, <4>2, <5>1 DEF Fits
      <4>3. CASE arg(i).kind = "value"
        <5>1. arg(i).type # slots[i] /\ arg(i).meant # Params(c)[i] BY <1>11, <1>13, <3>1, <3>2, <4>1, <4>3
        <5> QED BY <1>11, <4>3, <5>1 DEF CanAssign, Assigned, Fits
      <4> QED BY <1>11, <4>2, <4>3
    <3>3. CASE ~(Foreign(c) /\ Params(c)[i].array)
      <4>1. slots[i] = Params(c)[i] BY <3>3, ClonedSignature DEF slots
      <4> QED BY <1>11, <1>13, <3>1, <4>1, AssignmentChecks
    <3> QED BY <3>2, <3>3
  <2>2. fit <=> c \notin Uncallable /\ \A i \in 1..n : Fits(arg(i), Params(c)[i]) BY <2>1
  <2> QED BY <1>7, <1>9, <1>12, <2>2
<1>14. ASSUME RefusedThoughLegal(last') PROVE last'.verdict # "running"
  <2>1. PICK i \in 1..n : Foreign(c) /\ Params(c)[i].array /\ arg(i).type = Params(c)[i]
    BY <1>7, <1>11, <1>14 DEF RefusedThoughLegal
  <2>2. slots[i] = Plain(Params(c)[i].name) BY <2>1, ClonedSignature DEF slots
  <2>3. ~slots[i].array /\ ~AnyType.array BY <2>2 DEF Plain, AnyType
  <2>4. args[i] = arg(i).type BY <1>11, <2>1, <2>3 DEF Assigned
  <2>5. ~CanAssign(args[i], slots[i]) BY <2>1, <2>3, <2>4 DEF CanAssign
  <2> QED BY <1>7, <1>9, <2>5
<1>15. ASSUME ~Lost(last'), AcceptedThoughNotLegal(last') PROVE ~Legal(last')
  <2>1. PICK i \in 1..n :
          \/ Params(c)[i] = VoidType
          \/ arg(i).kind = "null" /\ ~Nullable(Params(c)[i])
          \/ Params(c)[i].array /\ arg(i).kind = "value" /\ arg(i).type = Plain(Params(c)[i].name)
    BY <1>7, <1>11, <1>15 DEF AcceptedThoughNotLegal
  <2>2. ~Fits(arg(i), Params(c)[i])
    <3>1. CASE Params(c)[i] = VoidType BY <3>1, KindsOfTypes, TypeNames DEF Fits
    <3>2. CASE arg(i).kind = "null" /\ ~Nullable(Params(c)[i]) BY <3>2 DEF Fits
    <3>3. CASE Params(c)[i].array /\ arg(i).kind = "value" /\ arg(i).type = Plain(Params(c)[i].name)
      <4>1. ~arg(i).type.array BY <3>3 DEF Plain
      <4> QED BY <1>11, <1>15, <3>3, <4>1 DEF Fits
    <3> QED BY <2>1, <3>1, <3>2, <3>3
  <2> QED BY <1>12, <2>2
<1>16. AcceptsTheDocumented' BY <1>13, <1>14, <1>15, DocumentedStep
<1> QED BY <1>10, <1>16 DEF LastInv

-----------------------------------------------------------------------------
(* Every step is judged on what is on the stack, which is typed.           *)
LEMMA StepsAreJudged ==
  ASSUME StateInv, ExpressionsNext PROVE LastInv'
<1>1. CASE \/ \E t \in Type : Literal(t)
           \/ NullLiteral \/ StartArray \/ FinishArray \/ Load \/ Target \/ Discard
           \/ \E v \in Variables : Variable(v) \/ StartAssignment(v) \/ InferVariable(v)
           \/ \E c \in Callees : \E n \in 0..MaxStack : StartCall(c, n)
  BY <1>1, QuietLast
<1>2. CASE Condition \/ Return \/ FinishIndex BY <1>2, UncheckedLast
<1>3. CASE Element BY <1>3, ElementLast
<1>4. CASE EnterParameter BY <1>4, EnterParameterLast
<1>5. CASE StartIndex BY <1>5, StartIndexLast
<1>6. CASE Store BY <1>6, StoreLast
<1>7. ASSUME NEW m \in MemberNames, MemberOf(m) PROVE LastInv' BY <1>7, MemberOfLast
<1>8. ASSUME NEW op \in Logic \cup Arithmetic, Binary(op) PROVE LastInv' BY <1>8, BinaryLast
<1>9. ASSUME NEW op \in Equality \cup Order, Compare(op) PROVE LastInv' BY <1>9, CompareLast
<1>10. ASSUME NEW n \in Names, Convert(n) PROVE LastInv' BY <1>10, ConvertLast
<1>11. ASSUME NEW c \in Callees, FinishCall(c) PROVE LastInv' BY <1>11, FinishCallLast
<1>12. ASSUME NEW v \in Variables, NEW t \in Type, NEW assigned \in BOOLEAN, DeclareVariable(v, t, assigned)
       PROVE LastInv'
  BY <1>12, DeclareVariableLast
<1> QED BY <1>1, <1>2, <1>3, <1>4, <1>5, <1>6, <1>7, <1>8, <1>9, <1>10, <1>11, <1>12 DEF ExpressionsNext

LEMMA InductiveSteps ==
  ASSUME StateInv, LastInv, [ExpressionsNext]_vars PROVE StateInv' /\ LastInv'
<1>1. StateInv' BY StepsKeepState
<1>2. CASE ExpressionsNext BY <1>1, <1>2, StepsAreJudged
<1>3. CASE UNCHANGED vars
  <2>1. last' = last /\ body' = body BY <1>3 DEF vars
  <2>2. CodeIsWellTyped' BY <2>1 DEF LastInv, CodeIsWellTyped, Unchecked
  <2>3. AcceptsTheDocumented' BY <2>1 DEF LastInv, AcceptsTheDocumented
  <2> QED BY <1>1, <2>2, <2>3 DEF LastInv
<1> QED BY <1>1, <1>2, <1>3

LEMMA InitialJudgement ==
  ASSUME ExpressionsInit PROVE LastInv
<1>1. last.op = "none" /\ last.wants = last.gets BY DEF ExpressionsInit
<1> QED BY <1>1 DEF LastInv, CodeIsWellTyped, AcceptsTheDocumented, WellTyped, Unchecked, Described

(* The generator gives every instruction operands of the types it takes,   *)
(* but at the positions listed in Unchecked, for every program.            *)
THEOREM GeneratedCodeIsWellTyped == ExpressionsSpec => []CodeIsWellTyped
<1>1. ExpressionsInit => StateInv /\ LastInv BY InitialState, InitialJudgement
<1>2. StateInv /\ LastInv /\ [ExpressionsNext]_vars => StateInv' /\ LastInv' BY InductiveSteps
<1>3. StateInv /\ LastInv => CodeIsWellTyped BY DEF LastInv
<1> QED BY <1>1, <1>2, <1>3, PTL DEF ExpressionsSpec

(* Whatever the structs, the functions and the body, of the operations     *)
(* whose operands kept their types the generator refuses no legal one but  *)
(* the two kinds of RefusedThoughLegal, and accepts no other one but the   *)
(* kinds of AcceptedThoughNotLegal, none of which is legal.                *)
THEOREM DocumentedIsAccepted == ExpressionsSpec => []AcceptsTheDocumented
<1>1. ExpressionsInit => StateInv /\ LastInv BY InitialState, InitialJudgement
<1>2. StateInv /\ LastInv /\ [ExpressionsNext]_vars => StateInv' /\ LastInv' BY InductiveSteps
<1>3. StateInv /\ LastInv => AcceptsTheDocumented BY DEF LastInv
<1> QED BY <1>1, <1>2, <1>3, PTL DEF ExpressionsSpec
=============================================================================

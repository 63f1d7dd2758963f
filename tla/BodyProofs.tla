------------------------------ MODULE BodyProofs ------------------------------
(***************************************************************************)
(* What is left of a program once its visits are over, for any program.    *)
(*                                                                         *)
(* Bodies: an account of every basic block.  Either it is finished, placed *)
(* in its function and terminated once, or some visit in progress is in    *)
(* charge of it: the block it generates into, or one it created for later. *)
(* A function whose visit is over has no visit in progress left to be in   *)
(* charge of one of its blocks.                                            *)
(*                                                                         *)
(* Scopes: the names copied into the top entry of a visit are those the    *)
(* braces of the source make visible.  That equality is kept as an         *)
(* invariant, one frame at a time, instead of being computed.              *)
(*                                                                         *)
(* Control flow: an edge of the graph of blocks only carries names that    *)
(* were known where it starts (DataFlowInv), from which domination follows *)
(* without a word about paths; and the blocks that are no tests have no    *)
(* cycle, while a set that holds everything still in progress and that a   *)
(* loop cannot get out of shows that its test dominates it (LoopInv).      *)
(***************************************************************************)
EXTENDS CodeGenProofs

(* The visit k is not waiting for the end of a nested if or while.         *)
Open(k) == k = Len(frames) \/ frames[k+1].kind = "function"
PendingAt(k, b) == b \in Reserved(k) \/ (Open(k) /\ b = stack[EndOfFrame(k)].block)
Pending(b) == \E k \in 1..Len(frames) : PendingAt(k, b)

(* A block that code of the function fn may branch to                      *)
Joinable(s, fn) == s \in 1..Len(bbs) /\ bbs[s].fn = fn /\ bbs[s].name # "entry"

Accounted == \A b \in 1..Len(bbs) : Pending(b) \/ (bbs[b].placed /\ Len(bbs[b].terms) = 1)
StackPlaced == \A i \in 1..Len(stack) : bbs[stack[i].block].placed
BranchesInside ==
  \A b \in 1..Len(bbs) : \A i \in 1..Len(bbs[b].terms) :
    \A s \in bbs[b].terms[i].succ : Joinable(s, bbs[b].fn)
ReservedNames == \A k \in 1..Len(frames) : \A r \in Reserved(k) : bbs[r].name # "entry"
WhileTests ==
  \A k \in 1..Len(frames) :
    frames[k].kind = "while" => Joinable(frames[k].other, bbs[frames[k].block].fn)
OwnFunctions ==
  \A k \in 1..Len(frames) :
    \E j \in 1..k : IsFunction(j) /\ frames[j].block = bbs[frames[k].block].fn

BodyInv ==
  /\ Accounted /\ StackPlaced /\ BranchesInside
  /\ ReservedNames /\ WhileTests /\ OwnFunctions

-----------------------------------------------------------------------------
(* What a step keeps                                                       *)

(* The frames and entries that are left are the same as before.            *)
SameShape(p, h) ==
  /\ p <= Len(frames') /\ h <= Len(stack')
  /\ \A k \in 1..p : SameFrame(frames'[k], frames[k])
  /\ \A i \in 1..h : SameEntry(stack'[i], stack[i])

(* Blocks never change their function or their name and are never removed. *)
GoesOn ==
  /\ Len(bbs) <= Len(bbs')
  /\ \A b \in 1..Len(bbs) : /\ bbs'[b].fn = bbs[b].fn /\ bbs'[b].name = bbs[b].name
                            /\ bbs[b].placed => bbs'[b].placed

LEMMA Lengths ==
  ASSUME StackInv PROVE Len(bbs) \in Nat /\ Len(stack) \in Nat /\ Len(frames) \in Nat
BY LenProperties DEF StackInv, TypeOK

LEMMA LengthsAfter ==
  ASSUME StackInv' PROVE Len(bbs') \in Nat /\ Len(stack') \in Nat /\ Len(frames') \in Nat
BY LenProperties DEF StackInv, TypeOK

LEMMA KeptReserved ==
  ASSUME StackInv, StackInv', NEW p, NEW h, Keeps(p, h), SameShape(p, h), NEW k \in 1..p
  PROVE  /\ Reserved(k)' = Reserved(k)
         /\ k \in 1..Len(frames) /\ k \in 1..Len(frames')
         /\ SameFrame(frames'[k], frames[k])
<1>1. SameFrame(frames'[k], frames[k])
  BY DEF SameShape
<1>2. k \in 1..Len(frames) /\ p \in Nat
  BY KeptPart
<1>3. k \in 1..Len(frames')
  BY <1>2, LengthsAfter DEF SameShape
<1> QED BY <1>1, <1>2, <1>3 DEF SameFrame, Reserved

LEMMA KeptPending ==
  ASSUME StackInv, StackInv', NEW p, NEW h, Keeps(p, h), SameShape(p, h),
         NEW k \in 1..p, k # p, NEW b, PendingAt(k, b)
  PROVE  PendingAt(k, b)'
<1>1. /\ k \in 1..Len(frames) /\ p \in Nat /\ h \in Nat /\ p <= Len(frames)
      /\ EndOfFrame(k) \in Nat /\ EndOfFrame(k) <= h
      /\ frames[k].base \in Nat /\ 1 <= frames[k].base /\ frames[k].base <= EndOfFrame(k)
      /\ EndOfFrame(k) = frames[k+1].base - 1
  BY KeptPart
<1>2. k + 1 \in 1..p /\ k < Len(frames) /\ k < Len(frames') /\ k # Len(frames) /\ k # Len(frames')
  BY <1>1, LengthsAfter, Lengths DEF SameShape
<1>3. frames'[k+1].base = frames[k+1].base /\ frames'[k+1].kind = frames[k+1].kind
  BY <1>2 DEF SameShape, SameFrame
<1>4. EndOfFrame(k)' = EndOfFrame(k)
  BY <1>1, <1>2, <1>3 DEF EndOfFrame
<1>5. EndOfFrame(k) \in 1..h
  BY <1>1
<1>6. stack'[EndOfFrame(k)].block = stack[EndOfFrame(k)].block
  BY <1>5 DEF SameShape, SameEntry
<1>7. Reserved(k)' = Reserved(k)
  BY KeptReserved
<1>8. Open(k) => Open(k)'
  BY <1>2, <1>3 DEF Open
<1> QED BY <1>4, <1>6, <1>7, <1>8 DEF PendingAt

(* Where a pending block goes: it is still pending, or it is the one under *)
(* construction, or the visit that ends was in charge of it, or the visit  *)
(* that goes on again was.                                                 *)
LEMMA WherePending ==
  ASSUME StackInv, StackInv', NEW p, NEW h, Keeps(p, h), SameShape(p, h),
         NEW b, Pending(b)
  PROVE  \/ Pending(b)'
         \/ p = Len(frames) /\ frames # <<>> /\ b = Current
         \/ p = Len(frames) - 1 /\ frames # <<>> /\ PendingAt(Len(frames), b)
         \/ p = Len(frames) - 1 /\ p > 0 /\ Innermost.kind = "function" /\ b = stack[h].block
<1>1. PICK k \in 1..Len(frames) : PendingAt(k, b)
  BY DEF Pending
<1>2. /\ p \in Nat /\ h \in Nat /\ p <= Len(frames) /\ Len(frames) \in Nat /\ frames # <<>>
      /\ p <= Len(frames')
  BY <1>1, KeptPart, Lengths, EmptySeq DEF SameShape
<1>3. CASE k \in 1..p /\ k # p
  <2>1. PendingAt(k, b)'
    BY <1>1, <1>3, KeptPending
  <2>2. k \in 1..Len(frames')
    BY <1>3, KeptReserved
  <2> QED BY <2>1, <2>2 DEF Pending
<1>4. CASE k = p
  <2>1. k \in 1..p
    BY <1>1, <1>2, <1>4
  <2>2. Reserved(k)' = Reserved(k) /\ k \in 1..Len(frames')
    BY <2>1, KeptReserved
  <2>3. ASSUME b \in Reserved(k) PROVE Pending(b)'
    <3>1. PendingAt(k, b)'
      BY <2>2, <2>3 DEF PendingAt
    <3> QED BY <2>2, <3>1 DEF Pending
  <2>4. ASSUME Open(k), b = stack[EndOfFrame(k)].block
        PROVE  \/ p = Len(frames) /\ b = Current
               \/ p = Len(frames) - 1 /\ p > 0 /\ Innermost.kind = "function" /\ b = stack[h].block
    <3>1. EndOfFrame(k) = h
      BY <2>1, <1>4, KeptPart
    <3>2. CASE p = Len(frames)
      <4>1. h = Len(stack)
        BY <3>2, <1>2 DEF Keeps
      <4> QED BY <2>4, <3>1, <3>2, <4>1, <1>2, CurrentIsYoungest
    <3>3. CASE p # Len(frames)
      <4>1. p = Len(frames) - 1 /\ p + 1 = Len(frames) /\ p > 0
        BY <3>3, <2>1, <1>2 DEF Keeps
      <4>2. Innermost = frames[p + 1]
        BY <4>1, <1>2, Inside
      <4>3. Innermost.kind = "function"
        BY <4>2, <2>4, <1>4, <3>3 DEF Open
      <4> QED BY <4>1, <4>3, <3>1, <2>4
    <3> QED BY <3>2, <3>3
  <2> QED BY <1>1, <1>2, <2>3, <2>4 DEF PendingAt
<1>5. CASE k \notin 1..p
  <2>1. k = Len(frames) /\ p = Len(frames) - 1
    <3>1. p # Len(frames)
      BY <1>1, <1>5
    <3>2. p = Len(frames) - 1
      BY <3>1 DEF Keeps
    <3> QED BY <3>2, <1>1, <1>2, <1>5
  <2> QED BY <1>1, <1>2, <2>1
<1> QED BY <1>3, <1>4, <1>5

(* What is said of the frames and entries that are kept is still true.     *)
Joins(k) == frames[k].kind = "while" => Joinable(frames[k].other, bbs[frames[k].block].fn)
Named(k) == \A r \in Reserved(k) : bbs[r].name # "entry"
Owned(k) == \E j \in 1..k : IsFunction(j) /\ frames[j].block = bbs[frames[k].block].fn
BranchesOf(b) ==
  \A i \in 1..Len(bbs[b].terms) : \A s \in bbs[b].terms[i].succ : Joinable(s, bbs[b].fn)

LEMMA KeptJoinable ==
  ASSUME StackInv, StackInv', GoesOn, NEW s, NEW fn, Joinable(s, fn)
  PROVE  Joinable(s, fn)'
<1>1. s \in 1..Len(bbs) /\ s \in 1..Len(bbs')
  BY Lengths, LengthsAfter DEF Joinable, GoesOn
<1> QED BY <1>1 DEF Joinable, GoesOn

LEMMA KeptFrames ==
  ASSUME StackInv, StackInv', BodyInv, NEW p, NEW h, Keeps(p, h), SameShape(p, h), GoesOn,
         NEW k \in 1..p
  PROVE  Joins(k)' /\ Named(k)' /\ Owned(k)'
<1>1. /\ Reserved(k)' = Reserved(k) /\ k \in 1..Len(frames) /\ SameFrame(frames'[k], frames[k])
  BY KeptReserved
<1>2. /\ frames[k].block \in 1..Len(bbs) /\ p \in Nat /\ bbs'[frames[k].block].fn = bbs[frames[k].block].fn
      /\ frames'[k].block = frames[k].block
  BY <1>1, KeptPart DEF GoesOn, SameFrame
<1>3. Joins(k)'
  <2>1. SUFFICES ASSUME frames[k].kind = "while" PROVE Joinable(frames[k].other, bbs[frames[k].block].fn)'
    BY <1>1 DEF Joins, SameFrame
  <2> DEFINE o == frames[k].other
             fn == bbs[frames[k].block].fn
  <2>2. Joinable(o, fn)
    BY <1>1, <2>1 DEF BodyInv, WhileTests
  <2>3. frames'[k].other = o /\ bbs'[frames'[k].block].fn = fn
    BY <1>1, <1>2 DEF SameFrame
  <2>4. /\ o \in 1..Len(bbs) /\ bbs[o].fn = fn /\ bbs[o].name # "entry"
    BY <2>2 DEF Joinable
  <2>5. o \in 1..Len(bbs') /\ bbs'[o].fn = fn /\ bbs'[o].name # "entry"
    <3>1. Len(bbs) \in Nat /\ Len(bbs') \in Nat /\ Len(bbs) <= Len(bbs')
      BY Lengths, LengthsAfter DEF GoesOn
    <3>2. bbs'[o].fn = bbs[o].fn /\ bbs'[o].name = bbs[o].name
      BY <2>4 DEF GoesOn
    <3> QED BY <2>4, <3>1, <3>2
  <2> QED BY <2>3, <2>5 DEF Joinable
<1>4. Named(k)'
  <2>1. \A r \in Reserved(k) : r \in 1..Len(bbs)
    <3>1. \A r \in Reserved(k) : r \in (frames[k].block + 1)..Len(bbs)
      BY <1>1 DEF StackInv, ReservedBlocks
    <3>2. frames[k].block \in Nat
      BY <1>2
    <3> QED BY <3>1, <3>2, Lengths
  <2>2. \A r \in Reserved(k) : bbs[r].name # "entry"
    BY <1>1 DEF BodyInv, ReservedNames
  <2> QED BY <1>1, <2>1, <2>2 DEF Named, GoesOn
<1>5. Owned(k)'
  <2>1. PICK j \in 1..k : IsFunction(j) /\ frames[j].block = bbs[frames[k].block].fn
    BY <1>1 DEF BodyInv, OwnFunctions
  <2>2. j \in 1..p
    BY <1>2
  <2>3. SameFrame(frames'[j], frames[j])
    BY <2>2 DEF SameShape
  <2> QED BY <2>1, <2>3, <1>2 DEF Owned, IsFunction, SameFrame
<1> QED BY <1>3, <1>4, <1>5

(* So that only what a step adds is to be looked at.                       *)
LEMMA Assembled ==
  ASSUME StackInv, StackInv', BodyInv, NEW p, NEW h, Keeps(p, h), SameShape(p, h), GoesOn,
         Len(frames') = p \/ (Len(frames') = p + 1 /\ Joins(p+1)' /\ Named(p+1)' /\ Owned(p+1)'),
         Len(stack') = h \/ (Len(stack') = h + 1 /\ bbs'[stack'[h+1].block].placed),
         Accounted', BranchesInside'
  PROVE  BodyInv'
<1>1. p \in Nat /\ h \in Nat
  BY KeptPart
<1>2. ASSUME NEW k \in 1..Len(frames') PROVE Joins(k)' /\ Named(k)' /\ Owned(k)'
  <2>1. CASE k \in 1..p
    BY <2>1, KeptFrames
  <2>2. CASE k \notin 1..p
    <3>1. k = p + 1 /\ Len(frames') # p
      BY <2>2, <1>1
    <3> QED BY <3>1
  <2> QED BY <2>1, <2>2
<1>3. ASSUME NEW i \in 1..Len(stack') PROVE bbs'[stack'[i].block].placed
  <2>1. CASE i \in 1..h
    <3>1. i \in 1..Len(stack) /\ stack[i].block \in 1..Len(bbs)
      BY <2>1, KeptPart
    <3>2. bbs[stack[i].block].placed /\ stack'[i].block = stack[i].block
      BY <2>1, <3>1 DEF BodyInv, StackPlaced, SameShape, SameEntry
    <3> QED BY <3>1, <3>2 DEF GoesOn
  <2>2. CASE i \notin 1..h
    <3>1. i = h + 1 /\ Len(stack') # h
      BY <2>2, <1>1
    <3> QED BY <3>1
  <2> QED BY <2>1, <2>2
<1>4. ReservedNames'
  BY <1>2 DEF ReservedNames, Named
<1>5. WhileTests'
  BY <1>2 DEF WhileTests, Joins
<1>6. OwnFunctions'
  BY <1>2 DEF OwnFunctions, Owned
<1>7. StackPlaced'
  BY <1>3 DEF StackPlaced
<1> QED BY <1>4, <1>5, <1>6, <1>7 DEF BodyInv

(* A block whose terminators are kept still branches inside its function.  *)
LEMMA KeptBranches ==
  ASSUME StackInv, StackInv', BodyInv, GoesOn, NEW b \in 1..Len(bbs), bbs'[b].terms = bbs[b].terms
  PROVE  BranchesOf(b)'
<1> SUFFICES ASSUME NEW i \in 1..Len(bbs[b].terms), NEW s \in bbs[b].terms[i].succ
             PROVE  s \in 1..Len(bbs') /\ bbs'[s].fn = bbs'[b].fn /\ bbs'[s].name # "entry"
  BY DEF BranchesOf, Joinable
<1>1. s \in 1..Len(bbs) /\ bbs[s].fn = bbs[b].fn /\ bbs[s].name # "entry"
  BY DEF BodyInv, BranchesInside, Joinable
<1>2. s \in 1..Len(bbs')
  BY <1>1, Lengths, LengthsAfter DEF GoesOn
<1> QED BY <1>1, <1>2 DEF GoesOn

-----------------------------------------------------------------------------
(* Statements and the end of the process                                   *)

LEMMA ExitBody ==
  ASSUME StackInv', NEW why, Exit(why) PROVE BodyInv'
<1>1. bbs' = <<>> /\ stack' = <<>> /\ frames' = <<>>
  BY DEF Exit
<1>2. Len(bbs') = 0 /\ Len(stack') = 0 /\ Len(frames') = 0
  BY <1>1, EmptySeq
<1> QED BY <1>2 DEF BodyInv, Accounted, StackPlaced, BranchesInside, ReservedNames, WhileTests, OwnFunctions

(* A step that neither pushes nor pops and generates no block              *)
SameCode ==
  /\ bbs' = bbs /\ Len(stack') = Len(stack) /\ Len(frames') = Len(frames)
  /\ \A i \in 1..Len(stack) : SameEntry(stack'[i], stack[i])
  /\ \A k \in 1..Len(frames) : SameFrame(frames'[k], frames[k])

LEMMA SameCodeBody ==
  ASSUME StackInv, StackInv', BodyInv, SameCode PROVE BodyInv'
<1> DEFINE p == Len(frames)
           h == Len(stack)
<1>1. /\ Keeps(p, h) /\ SameShape(p, h) /\ GoesOn /\ p \in Nat /\ h \in Nat
      /\ Len(frames') = p /\ Len(stack') = h
  BY Lengths DEF Keeps, SameShape, GoesOn, SameCode
<1> HIDE DEF p, h
<1>2. ASSUME NEW b \in 1..Len(bbs), Pending(b) PROVE Pending(b)'
  <2>1. \/ Pending(b)'
        \/ p = Len(frames) /\ frames # <<>> /\ b = Current
        \/ p = Len(frames) - 1
    BY <1>1, <1>2, WherePending
  <2>2. p # Len(frames) - 1
    BY Lengths DEF p
  <2>3. ASSUME frames # <<>>, b = Current PROVE Pending(b)'
    <3>1. Len(frames') \in 1..Len(frames') /\ Len(frames') \in Nat /\ Len(stack') \in 1..Len(stack')
      BY <2>3, Inside DEF SameCode
    <3>2. stack'[Len(stack')].block = b
      BY <2>3, CurrentIsYoungest, Inside DEF SameCode, SameEntry
    <3>3. PendingAt(Len(frames), b)'
      BY <3>1, <3>2 DEF PendingAt, Open, EndOfFrame, SameCode
    <3> QED BY <3>1, <3>3 DEF Pending, SameCode
  <2> QED BY <2>1, <2>2, <2>3
<1>3. Accounted'
  BY <1>2 DEF Accounted, BodyInv, SameCode
<1>4. BranchesInside'
  BY KeptBranches, <1>1 DEF BranchesInside, BranchesOf, SameCode
<1> QED BY <1>1, <1>3, <1>4, Assembled

LEMMA VisitedShape ==
  ASSUME StackInv, NEW v \in Value, frames' = Visited(frames, v)
  PROVE  /\ Len(frames') = Len(frames)
         /\ \A k \in 1..Len(frames) : SameFrame(frames'[k], frames[k])
<1>1. frames \in Seq(Frame)
  BY DEF StackInv, TypeOK
<1> QED BY <1>1, VisitedFrames

(* The top entry is replaced by one that stands for the same block.        *)
LEMMA TopReplaced ==
  ASSUME StackInv, frames # <<>>, NEW e \in StackEntry, SameEntry(e, Top),
         stack' = [stack EXCEPT ![Len(stack)] = e]
  PROVE  /\ Len(stack') = Len(stack)
         /\ \A i \in 1..Len(stack) : /\ stack'[i] = IF i = Len(stack) THEN e ELSE stack[i]
                                     /\ SameEntry(stack'[i], stack[i])
<1>1. /\ stack \in Seq(StackEntry) /\ Len(stack) \in 1..Len(stack) /\ Top = stack[Len(stack)]
  BY Inside DEF StackInv, TypeOK
<1>2. /\ Len(stack') = Len(stack)
      /\ \A i \in 1..Len(stack) : stack'[i] = IF i = Len(stack) THEN e ELSE stack[i]
  BY <1>1, ExceptSeq
<1> QED BY <1>1, <1>2 DEF SameEntry

(* The entry a declaration leaves on top, and the one a return leaves      *)
Declared(x) == [Top EXCEPT !.locals[x] = Current]
Returning(v) == [Top EXCEPT !.returnValue = v]

LEMMA DeclaredTop ==
  ASSUME StackInv, frames # <<>>, NEW x \in Names
  PROVE  /\ Declared(x) \in StackEntry /\ SameEntry(Declared(x), Top)
         /\ Declared(x).locals = [Top.locals EXCEPT ![x] = Current]
<1>1. Top \in StackEntry /\ Current \in Nat
  BY Inside, CurrentIsYoungest
<1>2. Top.locals \in Locals
  BY <1>1 DEF StackEntry
<1>3. [Top.locals EXCEPT ![x] = Current] \in Locals
  BY <1>1, <1>2 DEF Locals
<1> QED BY <1>1, <1>3 DEF Declared, StackEntry, SameEntry

LEMMA ReturningTop ==
  ASSUME StackInv, frames # <<>>, NEW v \in Value
  PROVE  /\ Returning(v) \in StackEntry /\ SameEntry(Returning(v), Top)
         /\ Returning(v).locals = Top.locals
<1>1. Top \in StackEntry
  BY Inside
<1> QED BY <1>1 DEF Returning, StackEntry, SameEntry

LEMMA StatementBody ==
  ASSUME StackInv, StackInv', BodyInv, InsideFunction, Statement
  PROVE  BodyInv'
<1>0. frames # <<>> /\ Current \in Nat /\ Top = stack[Len(stack)]
  BY CurrentIsYoungest, Inside DEF InsideFunction
<1>1. \A v \in {Constant, Garbage, Computed(Current)} : v \in Value
  BY <1>0, ValueTypes
<1>2. ASSUME NEW v \in Value, frames' = Visited(frames, v), UNCHANGED <<bbs, stack>>
      PROVE  BodyInv'
  <2>1. SameCode
    BY <1>2, VisitedShape DEF SameCode, SameEntry
  <2> QED BY <2>1, SameCodeBody
<1>3. ASSUME NEW x \in Names, Declare(x) PROVE BodyInv'
  <2>1. CASE IsDeclared(x)
    BY <1>3, <2>1, ExitBody DEF Declare
  <2>2. CASE ~IsDeclared(x)
    <3>1. /\ bbs' = bbs /\ frames' = Visited(frames, Computed(Current))
          /\ stack' = [stack EXCEPT ![Len(stack)] = Declared(x)]
      BY <1>0, <1>3, <2>2 DEF Declare, Declared
    <3>2. SameCode
      BY <1>0, <1>1, <3>1, DeclaredTop, TopReplaced, VisitedShape DEF SameCode
    <3> QED BY <3>2, SameCodeBody
  <2> QED BY <2>1, <2>2
<1>4. ASSUME NEW x \in Names, Refer(x) PROVE BodyInv'
  BY <1>1, <1>2, <1>4, ExitBody DEF Refer
<1>5. ASSUME Compute \/ EmptyControl PROVE BodyInv'
  BY <1>1, <1>2, <1>5 DEF Compute, EmptyControl
<1>6. ASSUME NEW v \in {Constant, Computed(Current)}, Return(v) PROVE BodyInv'
  <2>1. CASE bbs[Current].terms # <<>>
    BY <1>6, <2>1, ExitBody DEF Return
  <2>2. CASE bbs[Current].terms = <<>>
    <3>1. /\ bbs' = bbs /\ frames' = Visited(frames, v) /\ v \in Value
          /\ stack' = [stack EXCEPT ![Len(stack)] = Returning(v)]
      BY <1>0, <1>1, <1>6, <2>2 DEF Return, Returning
    <3>2. SameCode
      BY <1>0, <3>1, ReturningTop, TopReplaced, VisitedShape DEF SameCode
    <3> QED BY <3>2, SameCodeBody
  <2> QED BY <2>1, <2>2
<1> QED BY <1>3, <1>4, <1>5, <1>6 DEF Statement

-----------------------------------------------------------------------------
(* Terminators                                                             *)

(* The block under construction gets its terminator, the other blocks keep *)
(* theirs.                                                                 *)
StepEnds(t) ==
  /\ GoesOn
  /\ \A b \in 1..Len(bbs) : b # Current => bbs'[b].terms = bbs[b].terms
  /\ Len(bbs'[Current].terms) = 1 /\ bbs'[Current].terms[1] = t

Ended(code, t) ==
  /\ code \in Seq(BasicBlock) /\ Len(code) = Len(bbs)
  /\ \A b \in 1..Len(bbs) : /\ code[b].fn = bbs[b].fn /\ code[b].name = bbs[b].name
                            /\ code[b].placed = bbs[b].placed
                            /\ b # Current => code[b].terms = bbs[b].terms
  /\ Len(code[Current].terms) = 1 /\ code[Current].terms[1] = t

LEMMA FirstTerminator ==
  ASSUME NEW t \in Terminator
  PROVE  /\ Append(<<>>, t) \in Seq(Terminator)
         /\ Len(Append(<<>>, t)) = 1 /\ Append(<<>>, t)[1] = t
<1> DEFINE e == <<>>
<1>1. e \in Seq(Terminator) /\ Len(e) = 0
  BY EmptySeq
<1> HIDE DEF e
<1>2. Append(e, t) \in Seq(Terminator) /\ Len(Append(e, t)) = 1 /\ Append(e, t)[1] = t
  BY <1>1, AppendProperties
<1> QED BY <1>2 DEF e

LEMMA EndedCode ==
  ASSUME StackInv, frames # <<>>, NEW t \in Terminator
  PROVE  Ended(Terminate(t), t)
<1> DEFINE old == bbs[Current]
           one == Append(<<>>, t)
           new == [old EXCEPT !.terms = one]
<1>1. Current \in 1..Len(bbs) /\ bbs \in Seq(BasicBlock) /\ old.terms = <<>>
  BY Inside DEF StackInv, TypeOK
<1>2. old \in BasicBlock
  BY <1>1, ElementOfSeq
<1>3. one \in Seq(Terminator) /\ Len(one) = 1 /\ one[1] = t
  BY FirstTerminator
<1>4. Terminate(t) = [bbs EXCEPT ![Current] = new]
  BY <1>1 DEF Terminate
<1> HIDE DEF one
<1>5. /\ new \in BasicBlock /\ new.fn = old.fn /\ new.name = old.name
      /\ new.placed = old.placed /\ new.terms = one
  BY <1>2, <1>3 DEF BasicBlock
<1> HIDE DEF new
<1> DEFINE code == [bbs EXCEPT ![Current] = new]
<1>6. /\ code \in Seq(BasicBlock) /\ Len(code) = Len(bbs)
      /\ \A b \in 1..Len(bbs) : code[b] = IF b = Current THEN new ELSE bbs[b]
  BY <1>1, <1>5, ExceptSeq
<1> HIDE DEF code
<1>7. Ended(code, t)
  BY <1>1, <1>3, <1>5, <1>6 DEF Ended
<1> QED BY <1>4, <1>7 DEF code

LEMMA PlacedBlock ==
  ASSUME NEW code \in Seq(BasicBlock), NEW b \in 1..Len(code)
  PROVE  /\ Len(Place(code, b)) = Len(code)
         /\ \A c \in 1..Len(code) :
              /\ Place(code, b)[c].fn = code[c].fn /\ Place(code, b)[c].name = code[c].name
              /\ Place(code, b)[c].terms = code[c].terms
              /\ Place(code, b)[c].placed = (c = b \/ code[c].placed)
<1> DEFINE new == [code[b] EXCEPT !.placed = TRUE]
<1>1. code[b] \in BasicBlock
  BY ElementOfSeq
<1>2. /\ new \in BasicBlock /\ new.fn = code[b].fn /\ new.name = code[b].name
      /\ new.terms = code[b].terms /\ new.placed = TRUE
  BY <1>1 DEF BasicBlock
<1>3. \A c \in 1..Len(code) : code[c].placed \in BOOLEAN
  <2>1. \A c \in 1..Len(code) : code[c] \in BasicBlock
    BY ElementOfSeq
  <2> QED BY <2>1 DEF BasicBlock
<1>4. Place(code, b) = [code EXCEPT ![b] = new]
  BY DEF Place
<1> HIDE DEF new
<1>5. /\ Len([code EXCEPT ![b] = new]) = Len(code)
      /\ \A c \in 1..Len(code) : [code EXCEPT ![b] = new][c] = IF c = b THEN new ELSE code[c]
  BY <1>2, ExceptSeq
<1> QED BY <1>2, <1>3, <1>4, <1>5

LEMMA BranchesAfter ==
  ASSUME StackInv, StackInv', BodyInv, frames # <<>>, NEW t, StepEnds(t),
         NEW fn, fn = CurrentFunction, \A s \in t.succ : Joinable(s, fn)',
         \A b \in (Len(bbs) + 1)..Len(bbs') : BranchesOf(b)'
  PROVE  BranchesInside'
<1>1. Current \in 1..Len(bbs) /\ bbs'[Current].fn = fn /\ Len(bbs) \in Nat /\ Len(bbs') \in Nat
  BY Inside, Lengths, LengthsAfter DEF StepEnds, GoesOn, CurrentFunction
<1> DEFINE cur == Current
<1>2. ASSUME NEW b \in 1..Len(bbs') PROVE BranchesOf(b)'
  <2>1. CASE b \in 1..Len(bbs) /\ b # cur
    BY <2>1, KeptBranches DEF StepEnds
  <2>2. CASE b = cur
    <3>1. Len(bbs'[b].terms) = 1 /\ bbs'[b].terms[1] = t /\ bbs'[b].fn = fn
      BY <2>2, <1>1 DEF StepEnds
    <3> QED BY <3>1 DEF BranchesOf
  <2>3. CASE b \notin 1..Len(bbs)
    <3>1. b \in (Len(bbs) + 1)..Len(bbs')
      BY <2>3, <1>1
    <3> QED BY <3>1
  <2> QED BY <2>1, <2>2, <2>3
<1> QED BY <1>2 DEF BranchesInside, BranchesOf

LEMMA AccountedAfter ==
  ASSUME StackInv, StackInv', BodyInv, NEW p, NEW h, Keeps(p, h), SameShape(p, h),
         frames # <<>>, NEW t, StepEnds(t),
         \A b \in (Len(bbs) + 1)..Len(bbs') : Pending(b)' \/ (bbs'[b].placed /\ Len(bbs'[b].terms) = 1),
         \/ p = Len(frames)
         \/ /\ p = Len(frames) - 1 /\ \A r \in Reserved(Len(frames)) : Pending(r)'
            /\ \A b : p > 0 /\ Innermost.kind = "function" /\ b = stack[h].block => Pending(b)'
  PROVE  Accounted'
<1>1. /\ Current \in 1..Len(bbs) /\ Len(bbs) \in Nat /\ Len(bbs') \in Nat /\ Len(frames) \in Nat
      /\ Current = stack[Len(stack)].block /\ Len(stack) \in 1..Len(stack) /\ Len(stack) \in Nat
  BY Inside, CurrentIsYoungest, Lengths, LengthsAfter
<1>2. bbs'[Current].placed /\ Len(bbs'[Current].terms) = 1
  BY <1>1 DEF StepEnds, GoesOn, BodyInv, StackPlaced
<1>3. ASSUME NEW b \in 1..Len(bbs), b # Current
      PROVE  Pending(b)' \/ (bbs'[b].placed /\ Len(bbs'[b].terms) = 1)
  <2>1. CASE bbs[b].placed /\ Len(bbs[b].terms) = 1
    BY <1>3, <2>1 DEF StepEnds, GoesOn
  <2>2. CASE Pending(b)
    <3>1. ASSUME p = Len(frames) - 1, PendingAt(Len(frames), b) PROVE b \in Reserved(Len(frames))
      <4>1. EndOfFrame(Len(frames)) = Len(stack)
        BY <1>1 DEF EndOfFrame
      <4> QED BY <3>1, <4>1, <1>1, <1>3 DEF PendingAt
    <3>2. p = Len(frames) => p # Len(frames) - 1
      BY <1>1
    <3>3. \/ Pending(b)'
          \/ p = Len(frames) - 1 /\ PendingAt(Len(frames), b)
          \/ p = Len(frames) - 1 /\ p > 0 /\ Innermost.kind = "function" /\ b = stack[h].block
      BY <1>3, <2>2, WherePending
    <3> QED BY <3>1, <3>2, <3>3
  <2> QED BY <2>1, <2>2 DEF BodyInv, Accounted
<1>4. ASSUME NEW b \in 1..Len(bbs')
      PROVE  Pending(b)' \/ (bbs'[b].placed /\ Len(bbs'[b].terms) = 1)
  <2>1. CASE b \in 1..Len(bbs)
    BY <2>1, <1>2, <1>3
  <2>2. CASE b \notin 1..Len(bbs)
    <3>1. b \in (Len(bbs) + 1)..Len(bbs')
      BY <2>2, <1>1
    <3> QED BY <3>1
  <2> QED BY <2>1, <2>2
<1> QED BY <1>4 DEF Accounted

-----------------------------------------------------------------------------
(* The end of a visit                                                      *)

(* The stack's top belongs to the function of the innermost visit.         *)
LEMMA CurrentOwner ==
  ASSUME StackInv, frames # <<>>
  PROVE  /\ bbs[Innermost.block].fn = CurrentFunction
         /\ Innermost.block \in 1..Len(bbs)
<1>1. /\ Len(frames) \in 1..Len(frames) /\ Innermost = frames[Len(frames)]
      /\ Len(stack) \in Nat /\ Len(frames) \in Nat
      /\ Innermost.base \in 1..Len(stack) /\ Current = stack[Len(stack)].block
  BY Inside, CurrentIsYoungest, Lengths
<1>2. EndOfFrame(Len(frames)) = Len(stack)
  BY <1>1 DEF EndOfFrame
<1>3. Len(stack) \in Innermost.base..Len(stack)
  BY <1>1
<1>4. bbs[Current].fn = bbs[Innermost.block].fn
  BY <1>1, <1>2, <1>3 DEF StackInv, StackMirrorsNesting
<1>5. stack[Innermost.base].block = Innermost.block
  BY <1>1 DEF StackInv, StackMirrorsNesting
<1> QED BY <1>1, <1>4, <1>5 DEF CurrentFunction, StackInv, BlocksInOrder

(* The visit that goes on is in charge of the block on top.                *)
LEMMA TopPending ==
  ASSUME StackInv', Len(frames') > 0, NEW b, b = stack'[Len(stack')].block
  PROVE  Pending(b)'
<1> DEFINE n == Len(frames)
<1>1. Len(frames') \in 1..Len(frames')
  BY LengthsAfter
<1>2. PendingAt(n, b)'
  BY <1>1 DEF PendingAt, Open, EndOfFrame
<1> QED BY <1>1, <1>2 DEF Pending

LEMMA CloseFunctionBody ==
  ASSUME StackInv, StackInv', BodyInv, frames # <<>>, Innermost.kind \in {"function", "main"},
         NEW t \in Terminator, t.succ = {}, bbs' = Terminate(t), stack' = PopBlock(stack),
         Len(frames') = Len(Front(frames)),
         \A k \in 1..Len(Front(frames)) : SameFrame(frames'[k], Front(frames)[k])
  PROVE  BodyInv'
<1> DEFINE p == Len(frames) - 1
           h == Innermost.base - 1
<1>1. /\ Keeps(p, h) /\ p \in Nat /\ h \in Nat /\ Len(frames) = p + 1
      /\ Len(stack') = h /\ \A i \in 1..h : stack'[i] = stack[i]
      /\ Len(frames') = p /\ \A k \in 1..p : SameFrame(frames'[k], frames[k])
  <2>1. /\ Len(Front(frames)) = p /\ \A k \in 1..p : Front(frames)[k] = frames[k]
    BY Dropped
  <2> QED BY <2>1, Dropped
<1>2. Len(frames) \in 1..Len(frames) /\ Innermost = frames[Len(frames)]
  BY Inside
<1>3. Reserved(Len(frames)) = {}
  BY <1>2 DEF Reserved
<1> HIDE DEF p, h
<1>4. SameShape(p, h)
  BY <1>1 DEF SameShape, SameEntry
<1>5. Ended(bbs', t)
  BY EndedCode
<1>6. StepEnds(t) /\ Len(bbs') = Len(bbs) /\ Len(bbs) \in Nat
  BY <1>5, Lengths DEF StepEnds, GoesOn, Ended
<1>7. ASSUME NEW b, p > 0, Innermost.kind = "function", b = stack[h].block
      PROVE  Pending(b)'
  <2>1. p \in 1..p
    BY <1>1, <1>7
  <2>2. EndOfFrame(p) = h /\ EndOfFrame(p) \in Nat /\ frames[p].base \in Nat
        /\ 1 <= frames[p].base /\ frames[p].base <= EndOfFrame(p)
    BY <1>1, <2>1, KeptPart
  <2>3. h \in 1..h
    BY <2>2, <1>1
  <2>4. b = stack'[Len(stack')].block /\ Len(frames') > 0
    BY <1>1, <1>7, <2>3
  <2> QED BY <2>4, TopPending
<1>8. Accounted'
  <2>1. p = Len(frames) - 1 /\ \A r \in Reserved(Len(frames)) : Pending(r)'
    BY <1>3 DEF p
  <2>2. \A b \in (Len(bbs) + 1)..Len(bbs') : FALSE
    BY <1>6
  <2>3. \A b \in (Len(bbs) + 1)..Len(bbs') : Pending(b)' \/ (bbs'[b].placed /\ Len(bbs'[b].terms) = 1)
    BY <2>2
  <2> QED BY <1>1, <1>4, <1>6, <1>7, <2>1, <2>3, AccountedAfter
<1>9. BranchesInside'
  <2>1. \A b \in (Len(bbs) + 1)..Len(bbs') : BranchesOf(b)'
    BY <1>6
  <2>2. PICK fn : fn = CurrentFunction
    OBVIOUS
  <2>3. \A s \in t.succ : Joinable(s, fn)'
    OBVIOUS
  <2> QED BY <1>6, <2>1, <2>2, <2>3, BranchesAfter
<1>10. GoesOn
  BY <1>6 DEF StepEnds
<1> QED BY <1>1, <1>4, <1>8, <1>9, <1>10, Assembled

(* What the innermost visit created for later is in its own function.      *)
LEMMA ReservedJoin ==
  ASSUME StackInv, BodyInv, frames # <<>>, NEW r \in Reserved(Len(frames))
  PROVE  /\ r \in 1..Len(bbs) /\ bbs[r].fn = CurrentFunction /\ bbs[r].name # "entry"
         /\ Joinable(r, CurrentFunction)
<1>1. /\ Len(frames) \in 1..Len(frames) /\ Innermost = frames[Len(frames)]
  BY Inside
<1>2. /\ r \in (Innermost.block + 1)..Len(bbs) /\ bbs[r].fn = bbs[Innermost.block].fn
  BY <1>1 DEF StackInv, ReservedBlocks
<1>3. Innermost.block \in Nat /\ bbs[Innermost.block].fn = CurrentFunction
  BY CurrentOwner, Lengths
<1>4. r \in 1..Len(bbs)
  BY <1>2, <1>3, Lengths
<1>5. bbs[r].name # "entry"
  BY <1>1 DEF BodyInv, ReservedNames
<1> QED BY <1>2, <1>3, <1>4, <1>5 DEF Joinable

LEMMA TestJoin ==
  ASSUME StackInv, BodyInv, frames # <<>>, Innermost.kind = "while"
  PROVE  Joinable(Innermost.other, CurrentFunction)
<1>1. Len(frames) \in 1..Len(frames) /\ Innermost = frames[Len(frames)]
  BY Inside
<1> QED BY <1>1, CurrentOwner DEF BodyInv, WhileTests

(* The code after the end of a branch or of a loop                         *)
LEMMA PlacedEnd ==
  ASSUME StackInv, StackInv', BodyInv, frames # <<>>, NEW t \in Terminator,
         NEW m \in 1..Len(bbs), bbs' = Place(Terminate(t), m),
         NEW fn, fn = CurrentFunction, \A s \in t.succ : Joinable(s, fn)
  PROVE  /\ StepEnds(t) /\ Len(bbs') = Len(bbs) /\ bbs'[m].placed
         /\ BranchesInside'
<1> DEFINE code == Terminate(t)
<1>1. Ended(code, t)
  BY EndedCode
<1> HIDE DEF code
<1>2. code \in Seq(BasicBlock) /\ Len(code) = Len(bbs) /\ Current \in 1..Len(bbs)
  BY <1>1, Inside DEF Ended
<1>3. /\ Len(Place(code, m)) = Len(code)
      /\ \A c \in 1..Len(code) :
           /\ Place(code, m)[c].fn = code[c].fn /\ Place(code, m)[c].name = code[c].name
           /\ Place(code, m)[c].terms = code[c].terms
           /\ Place(code, m)[c].placed = (c = m \/ code[c].placed)
  BY <1>2, PlacedBlock
<1>4. bbs' = Place(code, m)
  BY DEF code
<1>5. /\ Len(bbs') = Len(bbs) /\ bbs'[m].placed
      /\ \A c \in 1..Len(bbs) : bbs'[c].fn = code[c].fn /\ bbs'[c].name = code[c].name
                               /\ bbs'[c].terms = code[c].terms /\ (code[c].placed => bbs'[c].placed)
  BY <1>2, <1>3, <1>4
<1>6. StepEnds(t)
  BY <1>1, <1>2, <1>5, Lengths DEF StepEnds, GoesOn, Ended
<1>7. \A s \in t.succ : Joinable(s, fn)'
  BY <1>6, KeptJoinable DEF StepEnds
<1>8. \A b \in (Len(bbs) + 1)..Len(bbs') : BranchesOf(b)'
  BY <1>5, Lengths
<1> QED BY <1>5, <1>6, <1>7, <1>8, BranchesAfter

LEMMA CloseConstructBody ==
  ASSUME StackInv, StackInv', BodyInv, frames # <<>>,
         Innermost.kind \in {"if", "else", "while"}, Innermost.kind = "if" => Innermost.other = 0,
         NEW t \in Terminator,
         \A s \in t.succ : s = Innermost.merge \/ (Innermost.kind = "while" /\ s = Innermost.other),
         NEW v \in Value,
         bbs' = Place(Terminate(t), Innermost.merge),
         stack' = PushMerge(PopBlock(stack), Innermost.merge),
         frames' = Visited(Front(frames), v)
  PROVE  BodyInv'
<1> DEFINE p == Len(frames) - 1
           h == Innermost.base - 1
<1>0. /\ Len(frames) \in 1..Len(frames) /\ Innermost = frames[Len(frames)]
      /\ StackMirrorsNesting /\ ReservedBlocks
  BY Inside DEF StackInv
<1>1. /\ Keeps(p, h) /\ p \in Nat /\ h \in Nat /\ Len(frames) = p + 1
      /\ PopBlock(stack) \in Seq(StackEntry) /\ Len(PopBlock(stack)) = h
      /\ \A i \in 1..h : PopBlock(stack)[i] = stack[i]
      /\ Front(frames) \in Seq(Frame) /\ Len(Front(frames)) = p
      /\ \A k \in 1..p : Front(frames)[k] = frames[k]
  BY Dropped
<1>2. /\ p > 0 /\ Innermost.merge # 0
  BY <1>0, <1>1 DEF ReservedBlocks
<1>3. PICK m : m = Innermost.merge
  OBVIOUS
<1>4. Reserved(Len(frames)) = {m}
  BY <1>0, <1>2, <1>3 DEF Reserved
<1>5. PICK fn : fn = CurrentFunction
  OBVIOUS
<1>6. m \in 1..Len(bbs) /\ m \in Nat /\ Joinable(m, fn)
  BY <1>4, <1>5, ReservedJoin, Lengths
<1>7. \A s \in t.succ : Joinable(s, fn)
  BY <1>3, <1>5, <1>6, TestJoin
<1>8. h > 0
  BY <1>1, <1>2, KeptPart
<1> HIDE DEF p, h
<1>9. StepEnds(t) /\ Len(bbs') = Len(bbs) /\ bbs'[m].placed /\ BranchesInside'
  BY <1>3, <1>5, <1>6, <1>7, PlacedEnd
<1>10. /\ Len(stack') = h + 1 /\ stack'[h+1].block = m
       /\ \A i \in 1..h : stack'[i] = stack[i]
  <2> DEFINE q == PopBlock(stack)
  <2>1. /\ q \in Seq(StackEntry) /\ Len(q) = h /\ \A i \in 1..h : q[i] = stack[i]
        /\ stack' = PushMerge(q, m) /\ q # <<>>
    BY <1>1, <1>3, <1>8, EmptySeq
  <2> HIDE DEF q
  <2>2. Pushed(PushMerge(q, m), q, m)
    BY <2>1, <1>6, PushedMerge
  <2> QED BY <2>1, <2>2 DEF Pushed
<1>11. Len(frames') = p /\ \A k \in 1..p : SameFrame(frames'[k], frames[k])
  BY <1>1, VisitedFrames
<1>12. SameShape(p, h)
  BY <1>1, <1>10, <1>11 DEF SameShape, SameEntry
<1>13. Pending(m)'
  BY <1>2, <1>10, <1>11, TopPending
<1>14. Accounted'
  <2>1. p = Len(frames) - 1 /\ \A r \in Reserved(Len(frames)) : Pending(r)'
    BY <1>4, <1>13 DEF p
  <2>2. \A b : ~(p > 0 /\ Innermost.kind = "function" /\ b = stack[h].block)
    OBVIOUS
  <2>3. \A b \in (Len(bbs) + 1)..Len(bbs') : Pending(b)' \/ (bbs'[b].placed /\ Len(bbs'[b].terms) = 1)
    BY <1>9, Lengths
  <2> QED BY <1>1, <1>12, <1>9, <2>1, <2>2, <2>3, AccountedAfter
<1>15. GoesOn
  BY <1>9 DEF StepEnds
<1> QED BY <1>1, <1>9, <1>10, <1>11, <1>12, <1>14, <1>15, Assembled

(* A nested visit generates into the function around it.                   *)
LEMMA NestedOwner ==
  ASSUME StackInv, StackInv', BodyInv, frames # <<>>, NEW p, NEW h, Keeps(p, h), SameShape(p, h),
         p = Len(frames) \/ Innermost.kind \notin {"main", "function"},
         Len(frames') = p + 1, bbs'[frames'[p+1].block].fn = CurrentFunction
  PROVE  Owned(p + 1)'
<1>1. /\ Len(frames) \in 1..Len(frames) /\ Innermost = frames[Len(frames)]
      /\ bbs[Innermost.block].fn = CurrentFunction /\ Len(frames) \in Nat
      /\ p = Len(frames) \/ (p = Len(frames) - 1 /\ p \in Nat)
  BY Inside, CurrentOwner, Lengths, KeptPart DEF Keeps
<1>2. PICK j \in 1..Len(frames) : IsFunction(j) /\ frames[j].block = CurrentFunction
  BY <1>1 DEF BodyInv, OwnFunctions
<1>3. j \in 1..p
  <2>1. CASE p = Len(frames)
    BY <2>1
  <2>2. CASE p # Len(frames)
    <3>1. j # Len(frames)
      BY <1>1, <1>2, <2>2 DEF IsFunction
    <3> QED BY <3>1, <1>1
  <2> QED BY <2>1, <2>2
<1>4. SameFrame(frames'[j], frames[j])
  BY <1>3 DEF SameShape
<1>5. IsFunction(j)' /\ frames'[j].block = bbs'[frames'[p+1].block].fn
  BY <1>2, <1>4 DEF IsFunction, SameFrame
<1>6. j \in 1..(p + 1)
  BY <1>1, <1>3
<1> QED BY <1>5, <1>6 DEF Owned

LEMMA SwitchBody ==
  ASSUME StackInv, StackInv', BodyInv, frames # <<>>, EndThen, Innermost.other # 0
  PROVE  BodyInv'
<1>0. /\ Len(frames) \in 1..Len(frames) /\ Innermost = frames[Len(frames)] /\ Innermost.kind = "if"
      /\ Innermost \in Frame /\ Innermost.base \in Nat /\ Top \in StackEntry
      /\ StackMirrorsNesting /\ ReservedBlocks /\ frames \in Seq(Frame)
  BY Inside DEF StackInv, TypeOK, EndThen, Frame
<1>1. PICK p : p = Len(frames) - 1
  OBVIOUS
<1>2. PICK h : h = Innermost.base - 1
  OBVIOUS
<1>3. PICK o : o = Innermost.other
  OBVIOUS
<1>4. PICK m : m = Innermost.merge
  OBVIOUS
<1>5. PICK fn : fn = CurrentFunction
  OBVIOUS
<1>6. PICK g : g = [Innermost EXCEPT !.kind = "else", !.block = Innermost.other,
                                     !.last = NoValue, !.empty = TRUE]
  OBVIOUS
<1>7. /\ Keeps(p, h) /\ p \in Nat /\ h \in Nat /\ Len(frames) = p + 1
      /\ PopBlock(stack) \in Seq(StackEntry) /\ Len(PopBlock(stack)) = h
      /\ \A i \in 1..h : PopBlock(stack)[i] = stack[i]
  BY <1>1, <1>2, Dropped
<1>8. p > 0 /\ m # 0
  BY <1>0, <1>4, <1>7 DEF ReservedBlocks
<1>9. Reserved(Len(frames)) = {o, m}
  BY <1>0, <1>3, <1>4, <1>8 DEF Reserved
<1>10. /\ o \in 1..Len(bbs) /\ o \in Nat /\ bbs[o].fn = fn /\ Joinable(o, fn)
       /\ m \in 1..Len(bbs) /\ m \in Nat /\ bbs[m].name # "entry" /\ Joinable(m, fn)
  BY <1>5, <1>9, ReservedJoin, Lengths
<1>11. PICK t : t = ReturnOrBranch(m)
  OBVIOUS
<1>12. t \in Terminator /\ \A s \in t.succ : Joinable(s, fn)
  <2>1. t \in Terminator
    BY <1>0, <1>10, <1>11, TerminatorTypes
  <2>2. \A s \in t.succ : s = m
    BY <1>11 DEF ReturnOrBranch, Ret, Br
  <2> QED BY <2>1, <2>2, <1>10
<1>13. /\ bbs' = Place(Terminate(t), o) /\ stack' = PushInheriting(PopBlock(stack), o)
       /\ frames' = [frames EXCEPT ![Len(frames)] = g]
  BY <1>0, <1>3, <1>4, <1>6, <1>11 DEF EndThen
<1>14. StepEnds(t) /\ Len(bbs') = Len(bbs) /\ bbs'[o].placed /\ BranchesInside'
  BY <1>5, <1>10, <1>12, <1>13, PlacedEnd
<1>15. g \in Frame /\ g.kind = "else" /\ g.block = o /\ g.merge = m /\ g.other = o
  BY <1>0, <1>3, <1>4, <1>6, ValueTypes DEF Frame, FrameKind
<1>16. /\ Len(frames') = p + 1 /\ frames'[p+1] = g
       /\ \A k \in 1..p : SameFrame(frames'[k], frames[k])
  <2>1. /\ Len(frames') = Len(frames)
        /\ \A k \in 1..Len(frames) : frames'[k] = IF k = Len(frames) THEN g ELSE frames[k]
    BY <1>0, <1>13, <1>15, ExceptSeq
  <2>2. \A k \in 1..p : k \in 1..Len(frames) /\ k # Len(frames)
    BY <1>7
  <2> QED BY <2>1, <2>2, <1>0, <1>7 DEF SameFrame
<1>17. /\ Len(stack') = h + 1 /\ stack'[h+1].block = o /\ \A i \in 1..h : stack'[i] = stack[i]
  <2> DEFINE q == PopBlock(stack)
  <2>0. h > 0
    BY <1>7, <1>8, KeptPart
  <2>1. /\ q \in Seq(StackEntry) /\ Len(q) = h /\ \A i \in 1..h : q[i] = stack[i]
        /\ stack' = PushInheriting(q, o) /\ q # <<>>
    BY <1>7, <1>13, <2>0, EmptySeq
  <2> HIDE DEF q
  <2>2. Pushed(PushInheriting(q, o), q, o)
    BY <2>1, <1>10, PushedInheriting
  <2> QED BY <2>1, <2>2 DEF Pushed
<1>18. SameShape(p, h)
  BY <1>7, <1>16, <1>17 DEF SameShape, SameEntry
<1>19. Reserved(p + 1)' = {m}
  BY <1>8, <1>15, <1>16 DEF Reserved
<1>20. Pending(o)' /\ Pending(m)'
  <2>1. Pending(o)'
    BY <1>7, <1>16, <1>17, TopPending
  <2>2. PendingAt(p + 1, m)' /\ p + 1 \in 1..Len(frames')
    BY <1>7, <1>16, <1>19 DEF PendingAt
  <2> QED BY <2>1, <2>2 DEF Pending
<1>21. Accounted'
  <2>1. p = Len(frames) - 1 /\ \A r \in Reserved(Len(frames)) : Pending(r)'
    BY <1>1, <1>9, <1>20
  <2>2. \A b : ~(p > 0 /\ Innermost.kind = "function" /\ b = stack[h].block)
    BY <1>0
  <2>3. \A b \in (Len(bbs) + 1)..Len(bbs') : Pending(b)' \/ (bbs'[b].placed /\ Len(bbs'[b].terms) = 1)
    BY <1>14, Lengths
  <2> QED BY <1>7, <1>18, <1>14, <2>1, <2>2, <2>3, AccountedAfter
<1>22. GoesOn
  BY <1>14 DEF StepEnds
<1>23. Joins(p+1)' /\ Named(p+1)'
  BY <1>10, <1>15, <1>16, <1>19, <1>22 DEF Joins, Named, GoesOn
<1>24. Owned(p+1)'
  <2>1. bbs'[frames'[p+1].block].fn = CurrentFunction
    BY <1>5, <1>10, <1>15, <1>16, <1>22 DEF GoesOn
  <2> QED BY <1>0, <1>7, <1>16, <1>18, <2>1, NestedOwner
<1> QED BY <1>7, <1>14, <1>16, <1>17, <1>18, <1>21, <1>22, <1>23, <1>24, Assembled

-----------------------------------------------------------------------------
(* The beginning of a visit                                                *)

LEMMA ExtendedEnd ==
  ASSUME StackInv, frames # <<>>, NEW t \in Terminator, NEW new \in Seq(BasicBlock),
         bbs' = Terminate(t) \o new
  PROVE  /\ StepEnds(t) /\ Len(bbs') = Len(bbs) + Len(new)
         /\ \A j \in 1..Len(new) : bbs'[Len(bbs) + j] = new[j]
<1> DEFINE old == Terminate(t)
<1>1. Ended(old, t)
  BY EndedCode
<1>2. /\ Len(bbs) \in Nat /\ Len(new) \in Nat /\ Current \in 1..Len(bbs)
      /\ old \in Seq(BasicBlock) /\ Len(old) = Len(bbs)
  BY <1>1, Lengths, Inside, LenProperties DEF Ended
<1> HIDE DEF old
<1>3. /\ Len(old \o new) = Len(old) + Len(new)
      /\ \A i \in 1..Len(old) + Len(new) :
           (old \o new)[i] = IF i <= Len(old) THEN old[i] ELSE new[i - Len(old)]
  BY <1>2, ConcatProperties
<1>4. bbs' = old \o new
  BY DEF old
<1>5. /\ Len(bbs') = Len(bbs) + Len(new)
      /\ \A b \in 1..Len(bbs) : bbs'[b] = old[b]
      /\ \A j \in 1..Len(new) : bbs'[Len(bbs) + j] = new[j]
  BY <1>2, <1>3, <1>4
<1>6. StepEnds(t)
  BY <1>1, <1>2, <1>5 DEF StepEnds, GoesOn, Ended
<1> QED BY <1>5, <1>6

(* A new block of the function under construction: the first block of the  *)
(* visit, one set aside, or one that is finished from the start            *)
NewVisit(f, new) ==
  LET added == (Len(bbs) + 1)..(Len(bbs) + Len(new)) IN
  f.block \in added /\ f.kind \in {"if", "while"} /\ (f.kind = "while" => f.other \in added)
NewBlocks(f, new) ==
  LET added == (Len(bbs) + 1)..(Len(bbs) + Len(new)) IN
  /\ \A j \in 1..Len(new) :
       /\ new[j].fn = CurrentFunction /\ new[j].name # "entry"
       /\ \A i \in 1..Len(new[j].terms) : new[j].terms[i].succ \subseteq added
       /\ Len(bbs) + j = f.block => new[j].placed
       /\ \/ Len(bbs) + j = f.block
          \/ SetAside(f, Len(bbs) + j)
          \/ new[j].placed /\ Len(new[j].terms) = 1

LEMMA OpenBody ==
  ASSUME StackInv, StackInv', BodyInv, frames # <<>>,
         NEW t \in Terminator, NEW f \in Frame, NEW new \in Seq(BasicBlock),
         t.succ \subseteq (Len(bbs) + 1)..(Len(bbs) + Len(new)),
         NewVisit(f, new), NewBlocks(f, new),
         bbs' = Terminate(t) \o new, frames' = Append(frames, f),
         Len(stack') = Len(stack) + 1, \A i \in 1..Len(stack) : stack'[i] = stack[i],
         stack'[Len(stack)+1].block = f.block
  PROVE  BodyInv'
<1>1. PICK p : p = Len(frames)
  OBVIOUS
<1>2. PICK h : h = Len(stack)
  OBVIOUS
<1>3. PICK n : n = Len(bbs)
  OBVIOUS
<1>4. PICK k : k = Len(new)
  OBVIOUS
<1>5. PICK fn : fn = CurrentFunction
  OBVIOUS
<1>6. /\ Keeps(p, h) /\ p \in Nat /\ h \in Nat /\ n \in Nat /\ k \in Nat /\ frames \in Seq(Frame)
  BY <1>1, <1>2, <1>3, <1>4, Lengths, LenProperties DEF Keeps, StackInv, TypeOK
<1>7. /\ StepEnds(t) /\ Len(bbs') = n + k /\ \A j \in 1..k : bbs'[n + j] = new[j]
  BY <1>3, <1>4, ExtendedEnd
<1>8. /\ Len(frames') = p + 1 /\ frames'[p+1] = f /\ \A l \in 1..p : frames'[l] = frames[l]
  BY <1>1, <1>6, AppendProperties
<1>9. Len(stack') = h + 1 /\ stack'[h+1].block = f.block /\ \A i \in 1..h : stack'[i] = stack[i]
  BY <1>2
<1>10. SameShape(p, h) /\ GoesOn
  BY <1>6, <1>7, <1>8, <1>9 DEF SameShape, SameEntry, SameFrame, StepEnds
<1>11. ASSUME NEW b \in (n + 1)..(n + k)
       PROVE  /\ b - n \in 1..k /\ bbs'[b] = new[b - n] /\ n + (b - n) = b
              /\ Joinable(b, fn)' /\ bbs'[b].fn = fn
  <2>1. b - n \in 1..k /\ n + (b - n) = b /\ b \in 1..Len(bbs')
    BY <1>6, <1>7
  <2>2. bbs'[b] = new[b - n]
    BY <2>1, <1>7
  <2>3. bbs'[b].fn = fn /\ bbs'[b].name # "entry"
    BY <2>1, <2>2, <1>4, <1>5 DEF NewBlocks
  <2> QED BY <2>1, <2>2, <2>3 DEF Joinable
<1>12. Reserved(p + 1)' = {r \in {f.other, f.merge} : SetAside(f, r)}
  BY <1>8 DEF Reserved, SetAside, NewVisit
<1>13. Pending(f.block)'
  <2>1. PICK b : b = f.block
    OBVIOUS
  <2>2. Pending(b)'
    BY <1>6, <1>8, <1>9, <2>1, TopPending
  <2> QED BY <2>1, <2>2
<1>14. ASSUME NEW b, SetAside(f, b) PROVE Pending(b)'
  <2>1. b \in Reserved(p + 1)'
    BY <1>12, <1>14 DEF SetAside
  <2>2. PendingAt(p + 1, b)' /\ p + 1 \in 1..Len(frames')
    BY <2>1, <1>6, <1>8 DEF PendingAt
  <2> QED BY <2>2 DEF Pending
<1>15. Accounted'
  <2>1. ASSUME NEW b \in (n + 1)..(n + k)
        PROVE  Pending(b)' \/ (bbs'[b].placed /\ Len(bbs'[b].terms) = 1)
    <3>1. PICK j : j = b - n
      OBVIOUS
    <3>2. j \in 1..k /\ bbs'[b] = new[j] /\ n + j = b
      BY <3>1, <1>11
    <3>3. \/ b = f.block \/ SetAside(f, b) \/ (new[j].placed /\ Len(new[j].terms) = 1)
      BY <3>2, <1>3, <1>4 DEF NewBlocks
    <3> QED BY <3>2, <3>3, <1>13, <1>14
  <2>2. p = Len(frames)
    BY <1>1
  <2> QED BY <2>1, <2>2, <1>3, <1>6, <1>7, <1>10, AccountedAfter
<1>16. BranchesInside'
  <2>1. \A s \in t.succ : Joinable(s, fn)'
    BY <1>3, <1>4, <1>11
  <2>2. ASSUME NEW b \in (n + 1)..(n + k) PROVE BranchesOf(b)'
    <3>1. PICK j : j = b - n
      OBVIOUS
    <3>2. j \in 1..k /\ bbs'[b] = new[j] /\ bbs'[b].fn = fn
      BY <3>1, <2>2, <1>11
    <3>3. \A i \in 1..Len(new[j].terms) : new[j].terms[i].succ \subseteq (n + 1)..(n + k)
      BY <3>2, <1>3, <1>4 DEF NewBlocks
    <3>4. \A i \in 1..Len(new[j].terms) : \A s \in new[j].terms[i].succ : Joinable(s, fn)'
      BY <3>3, <1>11
    <3> QED BY <3>2, <3>4 DEF BranchesOf
  <2> QED BY <2>1, <2>2, <1>3, <1>5, <1>7, BranchesAfter
<1>17. f.block \in (n + 1)..(n + k)
  BY <1>3, <1>4 DEF NewVisit
<1>18. bbs'[stack'[h+1].block].placed
  <2>1. PICK b : b = f.block
    OBVIOUS
  <2>2. PICK j : j = b - n
    OBVIOUS
  <2>3. j \in 1..k /\ bbs'[b] = new[j] /\ n + j = b
    BY <2>1, <2>2, <1>11, <1>17
  <2>4. new[j].placed
    BY <2>1, <2>3, <1>3, <1>4 DEF NewBlocks
  <2> QED BY <2>1, <2>3, <2>4, <1>9
<1>19. Joins(p + 1)'
  <2>1. f.kind = "while" => f.other \in (n + 1)..(n + k)
    BY <1>3, <1>4 DEF NewVisit
  <2>2. f.kind = "while" => Joinable(f.other, fn)'
    <3>1. PICK b : b = f.other
      OBVIOUS
    <3> QED BY <3>1, <2>1, <1>11
  <2>3. bbs'[f.block].fn = fn
    <3>1. PICK b : b = f.block
      OBVIOUS
    <3> QED BY <3>1, <1>11, <1>17
  <2> QED BY <2>2, <2>3, <1>8 DEF Joins, Joinable
<1>20. Named(p + 1)'
  <2>1. ASSUME NEW r \in Reserved(p + 1)' PROVE bbs'[r].name # "entry"
    <3>1. r \in (f.block + 1)..Len(bbs') /\ f.block \in Nat
      <4>1. p + 1 \in 1..Len(frames')
        BY <1>6, <1>8
      <4> QED BY <4>1, <1>8 DEF StackInv, ReservedBlocks, Frame
    <3>2. r \in (n + 1)..(n + k)
      BY <3>1, <1>6, <1>7, <1>17
    <3> QED BY <3>2, <1>11 DEF Joinable
  <2> QED BY <2>1 DEF Named
<1>21. Owned(p + 1)'
  <2>1. bbs'[frames'[p+1].block].fn = CurrentFunction
    <3>1. PICK b : b = f.block
      OBVIOUS
    <3> QED BY <3>1, <1>5, <1>8, <1>11, <1>17
  <2> QED BY <1>1, <1>6, <1>8, <1>10, <2>1, NestedOwner
<1> QED BY <1>6, <1>8, <1>9, <1>10, <1>15, <1>16, <1>18, <1>19, <1>20, <1>21, Assembled

LEMMA BeginIfBody ==
  ASSUME StackInv, StackInv', BodyInv, frames # <<>>, NEW withElse \in BOOLEAN, BeginIf(withElse)
  PROVE  BodyInv'
<1>1. PICK n : n = Len(bbs)
  OBVIOUS
<1>2. PICK fn : fn = CurrentFunction
  OBVIOUS
<1> DEFINE merge == IF withElse THEN n + 3 ELSE n + 2
           other == IF withElse THEN n + 2 ELSE 0
           a     == NewBlock("if", fn, TRUE)
           b     == NewBlock("else", fn, FALSE)
           c     == NewBlock("ifcont", fn, FALSE)
           new   == <<a>> \o (IF withElse THEN <<b>> ELSE <<>>) \o <<c>>
           t     == CondBr(n + 1, IF withElse THEN other ELSE merge)
           f     == [kind |-> "if", block |-> n + 1, base |-> Len(stack) + 1,
                     other |-> other, merge |-> merge, void |-> Innermost.void,
                     last |-> NoValue, empty |-> TRUE]
<1>3. /\ bbs' = Terminate(t) \o new /\ stack' = PushInheriting(stack, n + 1)
      /\ frames' = Append(frames, f)
  BY <1>1, <1>2 DEF BeginIf
<1>4. /\ Len(stack) \in Nat /\ n \in Nat /\ stack # <<>> /\ stack \in Seq(StackEntry)
      /\ Top \in StackEntry /\ Innermost \in Frame
  BY <1>1, Inside, Lengths, EmptySeq DEF StackInv, TypeOK
<1>5. fn \in Nat
  <2>1. bbs[Current] \in BasicBlock
    BY Inside, ElementOfSeq DEF StackInv, TypeOK
  <2> QED BY <2>1, <1>2 DEF CurrentFunction, BasicBlock
<1>6. /\ a \in BasicBlock /\ a.terms = <<>> /\ a.fn = fn /\ a.name # "entry" /\ a.placed
      /\ b \in BasicBlock /\ b.terms = <<>> /\ b.fn = fn /\ b.name # "entry"
      /\ c \in BasicBlock /\ c.terms = <<>> /\ c.fn = fn /\ c.name # "entry"
  <2>1. {"if", "else", "ifcont"} \subseteq BlockName
    BY DEF BlockName
  <2>2. a \in BasicBlock /\ a.terms = <<>> /\ a.fn = fn /\ a.name # "entry" /\ a.placed
    BY <1>5, <2>1, NewBlockType
  <2>3. b \in BasicBlock /\ b.terms = <<>> /\ b.fn = fn /\ b.name # "entry"
    BY <1>5, <2>1, NewBlockType
  <2>4. c \in BasicBlock /\ c.terms = <<>> /\ c.fn = fn /\ c.name # "entry"
    BY <1>5, <2>1, NewBlockType
  <2> QED BY <2>2, <2>3, <2>4
<1>7. t \in Terminator /\ t.succ = {n + 1, n + 2}
  <2>1. n + 1 \in Nat /\ n + 2 \in Nat
    BY <1>4
  <2>2. t = CondBr(n + 1, n + 2)
    OBVIOUS
  <2> HIDE DEF t
  <2>3. t \in Terminator
    BY <1>4, <2>1, <2>2, TerminatorTypes
  <2> QED BY <2>2, <2>3 DEF CondBr
<1>8. /\ f \in Frame /\ f.kind = "if" /\ f.block = n + 1 /\ f.other = other /\ f.merge = merge
  BY <1>4, ValueTypes DEF Frame, FrameKind
<1>9. Pushed(stack', stack, n + 1)
  <2>1. n + 1 \in Nat
    BY <1>4
  <2> QED BY <1>3, <1>4, <2>1, PushedInheriting
<1> HIDE DEF a, b, c, t, f
<1>10. /\ new \in Seq(BasicBlock) /\ Len(new) = IF withElse THEN 3 ELSE 2
       /\ \A i \in 1..Len(new) : new[i] \in {a, b, c}
       /\ new[1] = a
  <2>1. /\ new \in Seq(BasicBlock) /\ Len(new) = IF withElse THEN 3 ELSE 2
        /\ \A i \in 1..Len(new) : new[i] \in {a, b, c}
    BY <1>6, IfBlocks
  <2>2. new[1] = a
    OBVIOUS
  <2> QED BY <2>1, <2>2
<1> HIDE DEF new
<1>11. NewVisit(f, new)
  BY <1>1, <1>4, <1>8, <1>10 DEF NewVisit
<1>12. NewBlocks(f, new)
  <2>1. ASSUME NEW j \in 1..Len(new)
        PROVE  /\ new[j].fn = fn /\ new[j].name # "entry" /\ Len(new[j].terms) = 0
               /\ n + j = f.block => new[j].placed
               /\ n + j = f.block \/ SetAside(f, n + j)
    <3>1. /\ new[j].fn = fn /\ new[j].name # "entry" /\ new[j].terms = <<>>
      BY <1>6, <1>10
    <3>2. n + j = f.block => new[j].placed
      <4>1. n + j = f.block => j = 1
        BY <1>4, <1>8, <1>10
      <4> QED BY <4>1, <1>6, <1>10
    <3>3. n + j = n + 1 \/ n + j \in {other, merge}
      BY <1>4, <1>10
    <3>4. n + j # 0
      BY <1>4, <1>10
    <3>5. Len(new[j].terms) = 0
      BY <3>1, EmptySeq
    <3>6. n + j = f.block \/ SetAside(f, n + j)
      <4>1. n + j = n + 1 => n + j = f.block
        BY <1>8
      <4>2. n + j \in {other, merge} => SetAside(f, n + j)
        BY <3>4, <1>8 DEF SetAside
      <4> QED BY <3>3, <4>1, <4>2
    <3> QED BY <3>1, <3>2, <3>5, <3>6
  <2>2. \A j \in 1..Len(new) : \A i \in 1..Len(new[j].terms) : FALSE
    BY <2>1
  <2> QED BY <2>1, <2>2, <1>1, <1>2 DEF NewBlocks
<1>13. t.succ \subseteq (Len(bbs) + 1)..(Len(bbs) + Len(new))
  BY <1>1, <1>4, <1>7, <1>10
<1>14. /\ Len(stack') = Len(stack) + 1 /\ \A i \in 1..Len(stack) : stack'[i] = stack[i]
       /\ stack'[Len(stack)+1].block = f.block
  BY <1>8, <1>9 DEF Pushed
<1> HIDE DEF merge, other
<1> QED BY <1>3, <1>7, <1>8, <1>10, <1>11, <1>12, <1>13, <1>14, OpenBody

LEMMA BeginWhileBody ==
  ASSUME StackInv, StackInv', BodyInv, frames # <<>>, BeginWhile
  PROVE  BodyInv'
<1>1. PICK n : n = Len(bbs)
  OBVIOUS
<1>2. PICK fn : fn = CurrentFunction
  OBVIOUS
<1> DEFINE t     == CondBr(n + 2, n + 3)
           u     == Br(n + 1)
           a     == [NewBlock("whiletest", fn, TRUE) EXCEPT !.terms = <<t>>]
           b     == NewBlock("while", fn, TRUE)
           c     == NewBlock("whilecont", fn, FALSE)
           new   == <<a, b, c>>
           f     == [kind |-> "while", block |-> n + 2, base |-> Len(stack) + 1,
                     other |-> n + 1, merge |-> n + 3, void |-> Innermost.void,
                     last |-> NoValue, empty |-> TRUE]
<1>3. /\ bbs' = Terminate(u) \o new
      /\ stack' = PushInheriting(PopBlock(PushInheriting(stack, n + 1)), n + 2)
      /\ frames' = Append(frames, f)
  BY <1>1, <1>2 DEF BeginWhile
<1>4. /\ Len(stack) \in Nat /\ n \in Nat /\ stack # <<>> /\ stack \in Seq(StackEntry)
      /\ Top \in StackEntry /\ Innermost \in Frame
      /\ n + 1 \in Nat /\ n + 2 \in Nat /\ n + 3 \in Nat
  BY <1>1, Inside, Lengths, EmptySeq DEF StackInv, TypeOK
<1>5. fn \in Nat
  <2>1. bbs[Current] \in BasicBlock
    BY Inside, ElementOfSeq DEF StackInv, TypeOK
  <2> QED BY <2>1, <1>2 DEF CurrentFunction, BasicBlock
<1>6. t \in Terminator /\ t.succ = {n + 2, n + 3} /\ u \in Terminator /\ u.succ = {n + 1}
  <2>1. t \in Terminator /\ u \in Terminator
    BY <1>4, TerminatorTypes
  <2> QED BY <2>1 DEF CondBr, Br
<1> HIDE DEF t, u
<1>7. /\ a \in BasicBlock /\ a.terms = <<t>> /\ a.fn = fn /\ a.name # "entry" /\ a.placed
      /\ b \in BasicBlock /\ b.terms = <<>> /\ b.fn = fn /\ b.name # "entry" /\ b.placed
      /\ c \in BasicBlock /\ c.terms = <<>> /\ c.fn = fn /\ c.name # "entry"
  <2>1. {"whiletest", "while", "whilecont"} \subseteq BlockName
    BY DEF BlockName
  <2> DEFINE d == NewBlock("whiletest", fn, TRUE)
  <2>2. /\ d \in BasicBlock /\ d.fn = fn /\ d.name # "entry" /\ d.placed
        /\ b \in BasicBlock /\ b.terms = <<>> /\ b.fn = fn /\ b.name # "entry" /\ b.placed
        /\ c \in BasicBlock /\ c.terms = <<>> /\ c.fn = fn /\ c.name # "entry"
    BY <1>5, <2>1, NewBlockType
  <2>3. <<t>> \in Seq(Terminator)
    BY <1>6
  <2> HIDE DEF d
  <2>4. [d EXCEPT !.terms = <<t>>] \in BasicBlock
    BY <2>2, <2>3 DEF BasicBlock
  <2>5. /\ [d EXCEPT !.terms = <<t>>].terms = <<t>> /\ [d EXCEPT !.terms = <<t>>].fn = fn
        /\ [d EXCEPT !.terms = <<t>>].name # "entry" /\ [d EXCEPT !.terms = <<t>>].placed
    BY <2>2 DEF BasicBlock
  <2> QED BY <2>2, <2>4, <2>5 DEF d
<1>8. /\ f \in Frame /\ f.kind = "while" /\ f.block = n + 2 /\ f.other = n + 1 /\ f.merge = n + 3
  BY <1>4, ValueTypes DEF Frame, FrameKind
<1>9. Pushed(stack', stack, n + 2)
  BY <1>3, <1>4, PopPushed, PushedInheriting
<1> HIDE DEF a, b, c, f
<1>10. /\ new \in Seq(BasicBlock) /\ Len(new) = 3 /\ new[1] = a /\ new[2] = b /\ new[3] = c
  BY <1>7
<1> HIDE DEF new
<1>11. NewVisit(f, new)
  BY <1>1, <1>4, <1>8, <1>10 DEF NewVisit
<1>12. Len(a.terms) = 1 /\ a.terms[1] = t /\ Len(b.terms) = 0 /\ Len(c.terms) = 0
  BY <1>7, EmptySeq
<1>13. NewBlocks(f, new)
  <2>1. ASSUME NEW j \in 1..Len(new)
        PROVE  /\ new[j].fn = fn /\ new[j].name # "entry"
               /\ \A i \in 1..Len(new[j].terms) : new[j].terms[i].succ \subseteq (n + 1)..(n + 3)
               /\ n + j = f.block => new[j].placed
               /\ \/ n + j = f.block \/ SetAside(f, n + j)
                  \/ new[j].placed /\ Len(new[j].terms) = 1
    <3>1. j = 1 \/ j = 2 \/ j = 3
      BY <1>10
    <3>2. CASE j = 1
      <4>1. \A i \in 1..Len(new[j].terms) : new[j].terms[i].succ = {n + 2, n + 3}
        BY <3>2, <1>6, <1>10, <1>12
      <4>2. {n + 2, n + 3} \subseteq (n + 1)..(n + 3)
        BY <1>4
      <4> QED BY <3>2, <4>1, <4>2, <1>7, <1>10, <1>12
    <3>3. CASE j = 2
      BY <3>3, <1>7, <1>8, <1>10, <1>12
    <3>4. CASE j = 3
      <4>1. SetAside(f, n + j) /\ n + j # f.block
        BY <3>4, <1>4, <1>8 DEF SetAside
      <4> QED BY <3>4, <4>1, <1>7, <1>10, <1>12
    <3> QED BY <3>1, <3>2, <3>3, <3>4
  <2> QED BY <2>1, <1>1, <1>2, <1>10 DEF NewBlocks
<1>14. u.succ \subseteq (Len(bbs) + 1)..(Len(bbs) + Len(new))
  BY <1>1, <1>4, <1>6, <1>10
<1>15. /\ Len(stack') = Len(stack) + 1 /\ \A i \in 1..Len(stack) : stack'[i] = stack[i]
       /\ stack'[Len(stack)+1].block = f.block
  BY <1>8, <1>9 DEF Pushed
<1> QED BY <1>3, <1>6, <1>8, <1>10, <1>11, <1>13, <1>14, <1>15, OpenBody

LEMMA DefineFunctionBody ==
  ASSUME StackInv, StackInv', BodyInv, NEW params, NEW void \in BOOLEAN,
         DefineFunction(params, void)
  PROVE  BodyInv'
<1>1. PICK p : p = Len(frames)
  OBVIOUS
<1>2. PICK h : h = Len(stack)
  OBVIOUS
<1>3. PICK n : n = Len(bbs)
  OBVIOUS
<1>4. PICK c : c = n + 1
  OBVIOUS
<1> DEFINE new == NewBlock("entry", c, TRUE)
           e == Entry(c, LocalsOf(params, c))
           f == [kind |-> "function", block |-> c, base |-> h + 1,
                 other |-> 0, merge |-> 0, void |-> void,
                 last |-> NoValue, empty |-> TRUE]
<1>5. /\ bbs' = Append(bbs, new) /\ stack' = Append(stack, e) /\ frames' = Append(frames, f)
  BY <1>2, <1>3, <1>4 DEF DefineFunction
<1>6. /\ p \in Nat /\ h \in Nat /\ n \in Nat /\ c \in Nat /\ Keeps(p, h)
      /\ bbs \in Seq(BasicBlock) /\ stack \in Seq(StackEntry) /\ frames \in Seq(Frame)
  BY <1>1, <1>2, <1>3, <1>4, Lengths DEF StackInv, TypeOK, Keeps
<1>7. new \in BasicBlock /\ new.fn = c /\ new.placed /\ new.terms = <<>>
  <2>1. "entry" \in BlockName
    BY DEF BlockName
  <2> QED BY <2>1, <1>6, NewBlockType
<1>8. e \in StackEntry /\ e.block = c
  BY <1>6, LocalsType, EntryType
<1>9. f \in Frame /\ f.kind = "function" /\ f.block = c /\ f.base = h + 1
  BY <1>6, ValueTypes DEF Frame, FrameKind
<1> HIDE DEF new, e, f
<1>10. /\ Len(bbs') = n + 1 /\ bbs'[c] = new /\ \A b \in 1..n : bbs'[b] = bbs[b]
       /\ Len(stack') = h + 1 /\ stack'[h+1] = e /\ \A i \in 1..h : stack'[i] = stack[i]
       /\ Len(frames') = p + 1 /\ frames'[p+1] = f /\ \A k \in 1..p : frames'[k] = frames[k]
  BY <1>1, <1>2, <1>3, <1>4, <1>5, <1>6, <1>7, <1>8, <1>9, AppendProperties
<1>11. SameShape(p, h) /\ GoesOn
  <2>1. SameShape(p, h)
    BY <1>6, <1>10 DEF SameShape, SameFrame, SameEntry
  <2>2. GoesOn
    BY <1>3, <1>6, <1>10 DEF GoesOn
  <2> QED BY <2>1, <2>2
<1>12. Pending(c)'
  BY <1>6, <1>8, <1>10, TopPending
<1>13. ASSUME NEW b \in 1..n, Pending(b) PROVE Pending(b)'
  <2>1. \/ Pending(b)'
        \/ p = Len(frames) /\ frames # <<>> /\ b = Current
        \/ p = Len(frames) - 1
    BY <1>6, <1>11, <1>13, WherePending
  <2>2. p # Len(frames) - 1
    BY <1>1, <1>6
  <2>3. ASSUME frames # <<>>, b = Current PROVE Pending(b)'
    <3>1. p \in 1..p /\ p \in 1..Len(frames') /\ p # Len(frames') /\ p < Len(frames')
      BY <2>3, <1>1, <1>6, <1>10, Inside
    <3>2. EndOfFrame(p)' = h
      <4>1. frames'[p+1].base = h + 1
        BY <1>9, <1>10
      <4>2. EndOfFrame(p)' = frames'[p+1].base - 1
        BY <3>1 DEF EndOfFrame
      <4> QED BY <4>1, <4>2, <1>6
    <3>3. h \in 1..h /\ b = stack[h].block
      BY <2>3, <1>2, CurrentIsYoungest, Inside
    <3>4. b = stack'[EndOfFrame(p)'].block /\ Open(p)'
      BY <3>1, <3>2, <3>3, <1>9, <1>10 DEF Open
    <3>5. PendingAt(p, b)'
      BY <3>4 DEF PendingAt
    <3> QED BY <3>1, <3>5 DEF Pending
  <2> QED BY <2>1, <2>2, <2>3
<1>14. ASSUME NEW b \in 1..Len(bbs') PROVE b \in 1..n \/ b = c
  BY <1>4, <1>6, <1>10
<1>15. Accounted'
  <2>1. ASSUME NEW b \in 1..n PROVE Pending(b)' \/ (bbs'[b].placed /\ Len(bbs'[b].terms) = 1)
    <3>1. Pending(b) \/ (bbs[b].placed /\ Len(bbs[b].terms) = 1)
      BY <1>3 DEF BodyInv, Accounted
    <3> QED BY <3>1, <1>10, <1>13
  <2> QED BY <2>1, <1>12, <1>14 DEF Accounted
<1>16. BranchesInside'
  <2>1. ASSUME NEW b \in 1..n PROVE BranchesOf(b)'
    BY <1>3, <1>10, <1>11, KeptBranches
  <2>2. BranchesOf(c)'
    <3>1. Len(bbs'[c].terms) = 0
      BY <1>7, <1>10, EmptySeq
    <3> QED BY <3>1 DEF BranchesOf
  <2> QED BY <2>1, <2>2, <1>14 DEF BranchesInside, BranchesOf
<1>17. Joins(p+1)' /\ Named(p+1)'
  BY <1>9, <1>10 DEF Joins, Named, Reserved
<1>18. Owned(p+1)'
  <2>1. p + 1 \in 1..(p + 1)
    BY <1>6
  <2> QED BY <2>1, <1>7, <1>9, <1>10 DEF Owned, IsFunction
<1>19. bbs'[stack'[h+1].block].placed
  BY <1>7, <1>8, <1>10
<1> QED BY <1>6, <1>10, <1>11, <1>15, <1>16, <1>17, <1>18, <1>19, Assembled

-----------------------------------------------------------------------------
(* Every step                                                              *)

LEMMA CloseBody ==
  ASSUME StackInv, StackInv', BodyInv, frames # <<>>,
         \/ EndThen /\ Innermost.other = 0
         \/ EndElse
         \/ EndWhile
  PROVE  BodyInv'
<1>1. Innermost \in Frame /\ Top \in StackEntry
  BY Inside
<1>2. /\ Innermost.other \in Nat /\ Innermost.merge \in Nat /\ Innermost.last \in Value
  BY <1>1 DEF Frame
<1>3. \A m \in Nat : ReturnOrBranch(m) \in Terminator /\ ReturnOrBranch(m).succ \subseteq {m}
  <2>1. \A m \in Nat : ReturnOrBranch(m) \in Terminator
    BY <1>1, TerminatorTypes
  <2> QED BY <2>1 DEF ReturnOrBranch, Ret, Br
<1>4. IfResult \in Value /\ Garbage \in Value
  BY <1>2, ValueTypes DEF IfResult
<1>5. CASE EndThen /\ Innermost.other = 0
  <2>1. /\ Innermost.kind = "if"
        /\ bbs' = Place(Terminate(ReturnOrBranch(Innermost.merge)), Innermost.merge)
        /\ stack' = PushMerge(PopBlock(stack), Innermost.merge)
        /\ frames' = Visited(Front(frames), IfResult)
    BY <1>5 DEF EndThen
  <2> QED BY <2>1, <1>2, <1>3, <1>4, <1>5, CloseConstructBody
<1>6. CASE EndElse
  <2>1. /\ Innermost.kind = "else"
        /\ bbs' = Place(Terminate(ReturnOrBranch(Innermost.merge)), Innermost.merge)
        /\ stack' = PushMerge(PopBlock(stack), Innermost.merge)
        /\ frames' = Visited(Front(frames), IfResult)
    BY <1>6 DEF EndElse
  <2> QED BY <2>1, <1>2, <1>3, <1>4, CloseConstructBody
<1>7. CASE EndWhile
  <2>1. /\ Innermost.kind = "while"
        /\ bbs' = Place(Terminate(ReturnOrBranch(Innermost.other)), Innermost.merge)
        /\ stack' = PushMerge(PopBlock(stack), Innermost.merge)
        /\ frames' = Visited(Front(frames), Garbage)
    BY <1>7 DEF EndWhile, TestAgain
  <2> QED BY <2>1, <1>2, <1>3, <1>4, CloseConstructBody
<1> QED BY <1>5, <1>6, <1>7

LEMMA EndFunctionBody ==
  ASSUME StackInv, StackInv', BodyInv, EndFunction \/ EndMain
  PROVE  BodyInv'
<1>0. frames # <<>>
  BY DEF EndFunction, EndMain, InsideFunction
<1>1. /\ Innermost \in Frame /\ Top \in StackEntry
  BY <1>0, Inside
<1>2. Innermost.last \in Value /\ Top.returnValue \in Value
  BY <1>1 DEF Frame, StackEntry
<1>3. Front(frames) \in Seq(Frame)
  BY <1>0, Dropped
<1>4. \A v \in Value : Ret(v) \in Terminator /\ Ret(v).succ = {}
  <2>1. \A v \in Value : Ret(v) \in Terminator
    BY <1>1, TerminatorTypes
  <2> QED BY <2>1 DEF Ret
<1>5. CASE EndFunction
  <2> DEFINE v == IF Top.returnValue # NoValue THEN Top.returnValue
                  ELSE IF Innermost.void THEN NoValue ELSE Innermost.last
  <2>1. /\ Innermost.kind = "function" /\ bbs' = Terminate(Ret(v)) /\ stack' = PopBlock(stack)
        /\ frames' = Visited(Front(frames), Constant)
    BY <1>5 DEF EndFunction
  <2>2. v \in Value
    BY <1>2, ValueTypes
  <2> HIDE DEF v
  <2>3. /\ Len(frames') = Len(Front(frames))
        /\ \A k \in 1..Len(Front(frames)) : SameFrame(frames'[k], Front(frames)[k])
    BY <2>1, <1>3, ValueTypes, VisitedFrames
  <2> QED BY <1>0, <1>4, <2>1, <2>2, <2>3, CloseFunctionBody
<1>6. CASE EndMain
  <2> DEFINE v == IF Top.returnValue # NoValue THEN Top.returnValue ELSE Constant
  <2>1. /\ Innermost.kind = "main" /\ bbs' = Terminate(Ret(v)) /\ stack' = PopBlock(stack)
        /\ frames' = Front(frames)
    BY <1>6 DEF EndMain
  <2>2. v \in Value
    BY <1>2, ValueTypes
  <2> HIDE DEF v
  <2>3. /\ Len(frames') = Len(Front(frames))
        /\ \A k \in 1..Len(Front(frames)) : SameFrame(frames'[k], Front(frames)[k])
    BY <2>1 DEF SameFrame
  <2> QED BY <1>0, <1>4, <2>1, <2>2, <2>3, CloseFunctionBody
<1> QED BY <1>5, <1>6

LEMMA UnchangedBody ==
  ASSUME StackInv, StackInv', BodyInv, UNCHANGED <<bbs, stack, frames>>
  PROVE  BodyInv'
<1>1. SameCode
  BY DEF SameCode, SameEntry, SameFrame
<1> QED BY <1>1, SameCodeBody

LEMMA NextBody == StackInv /\ BodyInv /\ [Next]_vars => BodyInv'
<1> SUFFICES ASSUME StackInv, BodyInv, [Next]_vars PROVE BodyInv'
  OBVIOUS
<1>0. StackInv'
  BY NextStackInv
<1>1. ASSUME NEW params \in SUBSET Names, NEW void \in BOOLEAN, DefineFunction(params, void)
      PROVE  BodyInv'
  BY <1>0, <1>1, DefineFunctionBody
<1>2. CASE EndFunction \/ EndMain
  BY <1>0, <1>2, EndFunctionBody
<1>3. CASE EndFile \/ UNCHANGED vars
  BY <1>0, <1>3, UnchangedBody DEF EndFile, vars
<1>4. CASE InsideFunction /\ Statement
  BY <1>0, <1>4, StatementBody
<1>5. CASE InsideFunction /\ Control
  <2>0. frames # <<>>
    BY <1>5 DEF InsideFunction
  <2>1. ASSUME NEW withElse \in BOOLEAN, BeginIf(withElse) PROVE BodyInv'
    BY <1>0, <2>0, <2>1, BeginIfBody
  <2>2. CASE EndThen
    BY <1>0, <2>0, <2>2, SwitchBody, CloseBody
  <2>3. CASE EndElse \/ EndWhile
    BY <1>0, <2>0, <2>3, CloseBody
  <2>4. CASE BeginWhile
    BY <1>0, <2>0, <2>4, BeginWhileBody
  <2> QED BY <1>5, <2>1, <2>2, <2>3, <2>4 DEF Control
<1>6. CASE Reject
  BY <1>0, <1>6, ExitBody DEF Reject
<1> QED BY <1>1, <1>2, <1>3, <1>4, <1>5, <1>6 DEF Next

LEMMA InitBody == Init => BodyInv
<1> SUFFICES ASSUME Init PROVE BodyInv
  OBVIOUS
<1>1. CASE InitCompiler
  <2>1. Len(bbs) = 0 /\ Len(stack) = 0 /\ Len(frames) = 0
    BY <1>1, EmptySeq DEF InitCompiler
  <2> QED BY <2>1 DEF BodyInv, Accounted, StackPlaced, BranchesInside, ReservedNames, WhileTests, OwnFunctions
<1>2. CASE InitInterpreter
  <2> DEFINE b == NewBlock("entry", 1, TRUE)
             e == Entry(1, LocalsOf({Args}, 1))
             f == [kind |-> "main", block |-> 1, base |-> 1, other |-> 0, merge |-> 0,
                   void |-> FALSE, last |-> NoValue, empty |-> TRUE]
  <2>1. bbs = <<b>> /\ stack = <<e>> /\ frames = <<f>>
    BY <1>2 DEF InitInterpreter
  <2>2. b.terms = <<>> /\ b.placed /\ b.fn = 1 /\ b.name = "entry"
    BY DEF NewBlock
  <2>3. e.block = 1
    BY DEF Entry
  <2>4. f.kind = "main" /\ f.block = 1
    OBVIOUS
  <2> HIDE DEF b, e, f
  <2>5. /\ Len(bbs) = 1 /\ bbs[1] = b /\ Len(stack) = 1 /\ stack[1] = e
        /\ Len(frames) = 1 /\ frames[1] = f
    BY <2>1
  <2>6. \A k \in 1..1 : k = 1
    OBVIOUS
  <2>7. Reserved(1) = {}
    BY <2>4, <2>5 DEF Reserved
  <2>8. Pending(1)
    BY <2>3, <2>5 DEF Pending, PendingAt, Open, EndOfFrame
  <2>9. Accounted /\ StackPlaced
    BY <2>2, <2>3, <2>5, <2>6, <2>8 DEF Accounted, StackPlaced
  <2>10. BranchesInside
    BY <2>2, <2>5, <2>6, EmptySeq DEF BranchesInside
  <2>11. ReservedNames /\ WhileTests
    BY <2>4, <2>5, <2>6, <2>7 DEF ReservedNames, WhileTests
  <2>12. OwnFunctions
    BY <2>2, <2>4, <2>5, <2>6 DEF OwnFunctions, IsFunction
  <2> QED BY <2>9, <2>10, <2>11, <2>12 DEF BodyInv
<1> QED BY <1>1, <1>2 DEF Init

(* A visit in charge of a block is in the function of the block.           *)
LEMMA PendingOwner ==
  ASSUME StackInv, BodyInv, NEW b, Pending(b)
  PROVE  \E j \in 1..Len(frames) : IsFunction(j) /\ frames[j].block = bbs[b].fn
<1>1. PICK k \in 1..Len(frames) : PendingAt(k, b)
  BY DEF Pending
<1>2. bbs[b].fn = bbs[frames[k].block].fn
  <2>1. CASE b \in Reserved(k)
    BY <2>1 DEF StackInv, ReservedBlocks
  <2>2. CASE b = stack[EndOfFrame(k)].block
    <3>1. EndOfFrame(k) \in Nat /\ frames[k].base \in Nat /\ frames[k].base <= EndOfFrame(k)
      BY FrameEnds, FrameBases, Lengths
    <3>2. EndOfFrame(k) \in frames[k].base..EndOfFrame(k)
      BY <3>1
    <3> QED BY <3>2, <2>2 DEF StackInv, StackMirrorsNesting
  <2> QED BY <1>1, <2>1, <2>2 DEF PendingAt
<1>3. PICK j \in 1..k : IsFunction(j) /\ frames[j].block = bbs[frames[k].block].fn
  BY DEF BodyInv, OwnFunctions
<1>4. j \in 1..Len(frames)
  BY Lengths
<1> QED BY <1>2, <1>3, <1>4

LEMMA BodiesAreFinished == StackInv /\ BodyInv => WellFormedBodies
<1> SUFFICES ASSUME StackInv, BodyInv, NEW fn \in Finished, NEW b \in Body(fn)
             PROVE  /\ bbs[b].placed /\ Len(bbs[b].terms) = 1
                    /\ Succ(b) \subseteq Body(fn) \ {fn}
  BY DEF WellFormedBodies
<1>1. b \in 1..Len(bbs) /\ bbs[b].fn = fn
  BY DEF Body
<1>2. ~Pending(b)
  <2>1. \A j \in 1..Len(frames) : ~(IsFunction(j) /\ frames[j].block = fn)
    BY DEF Finished, IsFunction
  <2> QED BY <2>1, <1>1, PendingOwner
<1>3. bbs[b].placed /\ Len(bbs[b].terms) = 1
  BY <1>1, <1>2 DEF BodyInv, Accounted
<1>4. ASSUME NEW s \in Succ(b) PROVE s \in Body(fn) \ {fn}
  <2>1. PICK i \in 1..Len(bbs[b].terms) : s \in bbs[b].terms[i].succ
    BY DEF Succ
  <2>2. Joinable(s, fn)
    BY <1>1, <2>1 DEF BodyInv, BranchesInside
  <2> QED BY <2>2 DEF Joinable, Body, Finished
<1> QED BY <1>3, <1>4

(* Whatever the program, every block of a function whose visit is over has *)
(* been inserted into it, ends with exactly one terminator and branches to *)
(* blocks of the same function other than its entry.                       *)
THEOREM BodiesAreWellFormed == Spec => []WellFormedBodies
<1>1. Init => StackInv /\ BodyInv
  BY InitStackInv, InitBody
<1>2. StackInv /\ BodyInv /\ [Next]_vars => StackInv' /\ BodyInv'
  BY NextStackInv, NextBody
<1>3. StackInv /\ BodyInv => WellFormedBodies
  BY BodiesAreFinished
<1> QED BY <1>1, <1>2, <1>3, PTL DEF Spec

-----------------------------------------------------------------------------
(* Scopes: what a frame can see is what the braces around it declare.      *)

Level(k) == [own    |-> IF IsFunction(k) THEN Visible(k) ELSE Visible(k) \ Visible(k-1),
             opaque |-> IsFunction(k)]
Levels  == [k \in 1..Len(frames) |-> Level(k)]
Verdict == IF status = "running" THEN "ok" ELSE status

Nested(k) == ~IsFunction(k) => k > 1 /\ Visible(k-1) \subseteq Visible(k)
Seen(k)   == \A x \in Names : Scopes!Visible(Levels, k, x) <=> x \in Visible(k)
ScopeInv  == \A k \in 1..Len(frames) : Nested(k) /\ Seen(k)

LEMMA VisiblePrefix ==
  ASSUME NEW s, NEW u, NEW k \in Nat, \A j \in 1..k : s[j] = u[j], NEW x
  PROVE  Scopes!Visible(s, k, x) <=> Scopes!Visible(u, k, x)
<1>1. \A j \in 1..k : \A i \in (j+1)..k : i \in 1..k
  OBVIOUS
<1> QED BY <1>1 DEF Scopes!Visible

LEMMA VisibleNext ==
  ASSUME NEW s, NEW k \in Nat, NEW x
  PROVE  Scopes!Visible(s, k + 1, x)
           <=> x \in s[k+1].own \/ (~s[k+1].opaque /\ Scopes!Visible(s, k, x))
<1>1. ASSUME Scopes!Visible(s, k + 1, x)
      PROVE  x \in s[k+1].own \/ (~s[k+1].opaque /\ Scopes!Visible(s, k, x))
  <2>1. PICK j \in 1..(k+1) : x \in s[j].own /\ \A i \in (j+1)..(k+1) : ~s[i].opaque
    BY <1>1 DEF Scopes!Visible
  <2>2. CASE j = k + 1
    BY <2>1, <2>2
  <2>3. CASE j # k + 1
    <3>1. j \in 1..k /\ k + 1 \in (j+1)..(k+1) /\ \A i \in (j+1)..k : i \in (j+1)..(k+1)
      BY <2>3
    <3> QED BY <2>1, <3>1 DEF Scopes!Visible
  <2> QED BY <2>2, <2>3
<1>2. ASSUME x \in s[k+1].own PROVE Scopes!Visible(s, k + 1, x)
  <2>1. k + 1 \in 1..(k+1) /\ \A i \in (k+1+1)..(k+1) : FALSE
    OBVIOUS
  <2> QED BY <1>2, <2>1 DEF Scopes!Visible
<1>3. ASSUME ~s[k+1].opaque, Scopes!Visible(s, k, x) PROVE Scopes!Visible(s, k + 1, x)
  <2>1. PICK j \in 1..k : x \in s[j].own /\ \A i \in (j+1)..k : ~s[i].opaque
    BY <1>3 DEF Scopes!Visible
  <2>2. j \in 1..(k+1) /\ \A i \in (j+1)..(k+1) : i = k + 1 \/ i \in (j+1)..k
    OBVIOUS
  <2>3. \A i \in (j+1)..(k+1) : ~s[i].opaque
    BY <1>3, <2>1, <2>2
  <2> QED BY <2>1, <2>2, <2>3 DEF Scopes!Visible
<1> QED BY <1>1, <1>2, <1>3

(* The q oldest frames see what they saw.                                  *)
SameView(q) ==
  /\ q \in Nat /\ q <= Len(frames) /\ q <= Len(frames')
  /\ \A k \in 1..q : Visible(k)' = Visible(k) /\ IsFunction(k)' = IsFunction(k)

LEMMA SameLevels ==
  ASSUME StackInv, StackInv', ScopeInv, NEW q, SameView(q)
  PROVE  /\ \A k \in 1..q : Level(k)' = Level(k) /\ Levels'[k] = Levels[k]
         /\ \A k \in 1..q : Nested(k)' /\ Seen(k)'
<1>1. q \in Nat /\ \A k \in 1..q : k \in 1..Len(frames) /\ k \in 1..Len(frames')
  BY Lengths, LengthsAfter DEF SameView
<1>2. ASSUME NEW k \in 1..q PROVE Level(k)' = Level(k) /\ Nested(k)'
  <2>1. Nested(k) /\ k \in 1..Len(frames)
    BY <1>1 DEF ScopeInv
  <2>2. Visible(k)' = Visible(k) /\ IsFunction(k)' = IsFunction(k)
    BY DEF SameView
  <2>3. CASE IsFunction(k)
    BY <2>2, <2>3 DEF Level, Nested
  <2>4. CASE ~IsFunction(k)
    <3>1. k > 1 /\ k - 1 \in 1..q
      BY <2>1, <2>4, <1>1 DEF Nested
    <3>2. Visible(k-1)' = Visible(k-1)
      BY <3>1 DEF SameView
    <3> QED BY <2>1, <2>2, <2>4, <3>1, <3>2 DEF Level, Nested
  <2> QED BY <2>3, <2>4
<1>3. ASSUME NEW k \in 1..q PROVE Levels'[k] = Levels[k]
  BY <1>1, <1>2 DEF Levels
<1>4. ASSUME NEW k \in 1..q PROVE Seen(k)'
  <2>1. PICK s : s = Levels
    OBVIOUS
  <2>2. PICK u : u = Levels'
    OBVIOUS
  <2>3. \A j \in 1..k : s[j] = u[j]
    BY <1>1, <1>3, <2>1, <2>2
  <2>4. \A x : Scopes!Visible(s, k, x) <=> Scopes!Visible(u, k, x)
    BY <1>1, <2>3, VisiblePrefix
  <2>5. \A x \in Names : Scopes!Visible(s, k, x) <=> x \in Visible(k)
    BY <1>1, <2>1 DEF ScopeInv, Seen
  <2>6. Visible(k)' = Visible(k)
    BY DEF SameView
  <2>7. \A x \in Names : Scopes!Visible(u, k, x) <=> x \in Visible(k)'
    BY <2>4, <2>5, <2>6
  <2>8. Seen(k)' <=> \A x \in Names : Scopes!Visible(u, k, x) <=> x \in Visible(k)'
    BY <2>2 DEF Seen
  <2> QED BY <2>7, <2>8
<1> QED BY <1>2, <1>3, <1>4

(* So that only the innermost frame is to be looked at.                    *)
LEMMA ScopesAfter ==
  ASSUME StackInv, StackInv', ScopeInv, NEW q, SameView(q),
         Len(frames') = q \/ (Len(frames') = q + 1 /\ Nested(q+1)')
  PROVE  ScopeInv'
<1>1. q \in Nat
  BY DEF SameView
<1>2. ASSUME NEW k \in 1..Len(frames') PROVE Nested(k)' /\ Seen(k)'
  <2>1. CASE k \in 1..q
    BY <2>1, SameLevels
  <2>2. CASE k \notin 1..q
    <3>1. k = q + 1 /\ Nested(q+1)' /\ q + 1 \in 1..Len(frames')
      BY <2>2, <1>1
    <3>2. PICK u : u = Levels'
      OBVIOUS
    <3>3. PICK V : V = Visible(q+1)'
      OBVIOUS
    <3>4. u[q+1] = Level(q+1)'
      BY <3>1, <3>2 DEF Levels
    <3>5. ASSUME NEW x \in Names PROVE Scopes!Visible(u, q + 1, x) <=> x \in V
      <4>1. Scopes!Visible(u, q + 1, x) <=> x \in u[q+1].own \/ (~u[q+1].opaque /\ Scopes!Visible(u, q, x))
        BY <1>1, VisibleNext
      <4>2. CASE IsFunction(q+1)'
        <5>1. u[q+1].own = V /\ u[q+1].opaque
          BY <3>3, <3>4, <4>2 DEF Level
        <5> QED BY <4>1, <5>1
      <4>3. CASE ~IsFunction(q+1)'
        <5>1. q \in 1..q /\ Visible(q)' \subseteq V
          BY <3>1, <3>3, <1>1, <4>3 DEF Nested
        <5>2. Seen(q)'
          BY <5>1, SameLevels
        <5>3. Scopes!Visible(u, q, x) <=> x \in Visible(q)'
          BY <5>2, <3>2 DEF Seen
        <5>4. u[q+1].own = V \ Visible(q)' /\ ~u[q+1].opaque
          BY <3>3, <3>4, <4>3, <1>1 DEF Level
        <5> QED BY <4>1, <5>1, <5>3, <5>4
      <4> QED BY <4>2, <4>3
    <3>6. Seen(q+1)'
      BY <3>2, <3>3, <3>5 DEF Seen
    <3> QED BY <3>1, <3>6
  <2> QED BY <2>1, <2>2
<1> QED BY <1>2 DEF ScopeInv

-----------------------------------------------------------------------------
(* The steps of LexicalScope, on the scopes the frames stand for           *)

LevelSet == [own : SUBSET Names, opaque : BOOLEAN]

LEMMA LevelTypes ==
  ASSUME StackInv
  PROVE  /\ Levels \in Seq(LevelSet) /\ Len(Levels) = Len(frames)
         /\ \A k \in 1..Len(frames) : Levels[k] = Level(k)
<1>1. \A k : Level(k) \in LevelSet
  BY DEF Level, LevelSet, IsFunction, Visible
<1>2. Levels \in [1..Len(frames) -> LevelSet] /\ Len(frames) \in Nat
  BY <1>1, Lengths DEF Levels
<1> QED BY <1>2, SeqDef DEF Levels

LEMMA LevelTypesAfter ==
  ASSUME StackInv'
  PROVE  /\ Levels' \in Seq(LevelSet) /\ Len(Levels') = Len(frames')
         /\ \A k \in 1..Len(frames') : Levels'[k] = Level(k)'
<1>1. \A k : Level(k)' \in LevelSet
  BY DEF Level, LevelSet, IsFunction, Visible
<1>2. Levels' \in [1..Len(frames') -> LevelSet] /\ Len(frames') \in Nat
  BY <1>1, LengthsAfter DEF Levels
<1> QED BY <1>2, SeqDef DEF Levels

LEMMA LevelAdded ==
  ASSUME StackInv, StackInv', ScopeInv, NEW n, n = Len(frames), SameView(n),
         Len(frames') = n + 1, NEW l, l = Level(n+1)'
  PROVE  Levels' = Append(Levels, l)
<1>1. PICK s : s = Levels
  OBVIOUS
<1>2. PICK u : u = Levels'
  OBVIOUS
<1>3. /\ s \in Seq(LevelSet) /\ Len(s) = n /\ u \in Seq(LevelSet) /\ Len(u) = n + 1
      /\ n \in Nat
  BY <1>1, <1>2, LevelTypes, LevelTypesAfter, Lengths
<1>4. u[n+1] = l /\ l \in LevelSet
  <2>1. n + 1 \in 1..Len(frames')
    BY <1>3
  <2>2. u[n+1] = l
    BY <2>1, <1>2, LevelTypesAfter
  <2> QED BY <2>1, <2>2, <1>3, ElementOfSeq
<1>5. \A k \in 1..n : u[k] = s[k]
  BY <1>1, <1>2, SameLevels
<1>6. /\ Append(s, l) \in Seq(LevelSet) /\ Len(Append(s, l)) = n + 1
      /\ \A k \in 1..n : Append(s, l)[k] = s[k]
      /\ Append(s, l)[n+1] = l
  BY <1>3, <1>4, AppendProperties
<1>7. \A k \in 1..(n+1) : u[k] = Append(s, l)[k]
  <2>1. \A k \in 1..(n+1) : k \in 1..n \/ k = n + 1
    BY <1>3
  <2> QED BY <2>1, <1>4, <1>5, <1>6
<1>8. u = Append(s, l)
  BY <1>3, <1>6, <1>7, SeqEqual
<1> QED BY <1>1, <1>2, <1>8

LEMMA LevelDropped ==
  ASSUME StackInv, StackInv', ScopeInv, NEW p, Len(frames) = p + 1, SameView(p), Len(frames') = p
  PROVE  Levels' = Front(Levels) /\ Levels # <<>>
<1>1. PICK s : s = Levels
  OBVIOUS
<1>2. PICK u : u = Levels'
  OBVIOUS
<1>3. /\ s \in Seq(LevelSet) /\ Len(s) = p + 1 /\ u \in Seq(LevelSet) /\ Len(u) = p
      /\ p \in Nat
  BY <1>1, <1>2, LevelTypes, LevelTypesAfter, Lengths
<1>4. \A k \in 1..p : u[k] = s[k]
  BY <1>1, <1>2, SameLevels
<1>5. /\ Front(s) \in Seq(LevelSet) /\ Len(Front(s)) = p
      /\ \A k \in 1..p : Front(s)[k] = s[k]
  BY <1>3, Prefix DEF Front
<1>6. u = Front(s)
  BY <1>3, <1>4, <1>5, SeqEqual
<1>7. s # <<>>
  BY <1>3, EmptySeq
<1> QED BY <1>1, <1>2, <1>6, <1>7

LEMMA LevelReplaced ==
  ASSUME StackInv, StackInv', ScopeInv, NEW n, n = Len(frames), n > 0, SameView(n - 1),
         Len(frames') = n, NEW l, l = Level(n)'
  PROVE  /\ Levels' = [Levels EXCEPT ![n] = l] /\ Levels # <<>>
         /\ Len(Levels) = n /\ Last(Levels) = Level(n) /\ Levels[n] = Level(n)
<1>1. PICK s : s = Levels
  OBVIOUS
<1>2. PICK u : u = Levels'
  OBVIOUS
<1>3. /\ s \in Seq(LevelSet) /\ Len(s) = n /\ u \in Seq(LevelSet) /\ Len(u) = n
      /\ n \in Nat /\ n \in 1..n
  BY <1>1, <1>2, LevelTypes, LevelTypesAfter, Lengths
<1>4. u[n] = l /\ l \in LevelSet /\ s[n] = Level(n)
  <2>1. u[n] = l
    BY <1>2, <1>3, LevelTypesAfter
  <2>2. s[n] = Level(n)
    BY <1>1, <1>3, LevelTypes
  <2> QED BY <2>1, <2>2, <1>3, ElementOfSeq
<1>5. \A k \in 1..(n-1) : u[k] = s[k]
  BY <1>1, <1>2, SameLevels
<1>6. /\ [s EXCEPT ![n] = l] \in Seq(LevelSet) /\ Len([s EXCEPT ![n] = l]) = n
      /\ \A k \in 1..n : [s EXCEPT ![n] = l][k] = IF k = n THEN l ELSE s[k]
  BY <1>3, <1>4, ExceptSeq
<1>7. \A k \in 1..n : u[k] = [s EXCEPT ![n] = l][k]
  <2>1. \A k \in 1..n : k \in 1..(n-1) \/ k = n
    BY <1>3
  <2> QED BY <2>1, <1>4, <1>5, <1>6
<1>8. u = [s EXCEPT ![n] = l]
  BY <1>3, <1>6, <1>7, SeqEqual
<1>9. s # <<>> /\ Last(s) = s[n]
  BY <1>3, EmptySeq DEF Last
<1> QED BY <1>1, <1>2, <1>3, <1>4, <1>8, <1>9

LEMMA AbstractFunction ==
  ASSUME NEW params \in SUBSET Names, Verdict = "ok", Verdict' = Verdict,
         Levels' = Append(Levels, [own |-> params, opaque |-> TRUE])
  PROVE  Scopes!Next
<1>1. Scopes!EnterFunction(params)
  BY DEF Scopes!EnterFunction, Levels, Level, Verdict
<1> QED BY <1>1 DEF Scopes!Next, Levels, Level, Verdict

LEMMA AbstractBlock ==
  ASSUME Verdict = "ok", Verdict' = Verdict, Levels # <<>>,
         Levels' = Append(Levels, [own |-> {}, opaque |-> FALSE])
  PROVE  Scopes!Next
<1>1. Scopes!EnterBlock
  BY DEF Scopes!EnterBlock, Levels, Level, Verdict
<1> QED BY <1>1 DEF Scopes!Next, Levels, Level, Verdict

LEMMA AbstractLeave ==
  ASSUME Verdict = "ok", Verdict' = Verdict, Levels # <<>>, Levels' = Front(Levels)
  PROVE  Scopes!Next
<1>1. Scopes!LeaveBlock
  BY DEF Scopes!LeaveBlock, Scopes!Front, Front, Levels, Level, Verdict
<1> QED BY <1>1 DEF Scopes!Next, Levels, Level, Verdict

LEMMA AbstractBranch ==
  ASSUME Verdict = "ok", Verdict' = Verdict, Levels # <<>>, ~Last(Levels).opaque,
         Levels' = [Levels EXCEPT ![Len(Levels)].own = {}]
  PROVE  Scopes!Next
<1>1. Scopes!NextBranch
  BY DEF Scopes!NextBranch, Scopes!Last, Last, Levels, Level, Verdict
<1> QED BY <1>1 DEF Scopes!Next, Levels, Level, Verdict

LEMMA AbstractDeclare ==
  ASSUME NEW x \in Names, Verdict = "ok", Verdict' = Verdict, Levels # <<>>,
         ~Scopes!Visible(Levels, Len(Levels), x),
         Levels' = [Levels EXCEPT ![Len(Levels)].own = @ \cup {x}]
  PROVE  Scopes!Next
<1>1. Scopes!Declare(x)
  BY DEF Scopes!Declare, Levels, Level, Verdict
<1> QED BY <1>1 DEF Scopes!Next, Levels, Level, Verdict

LEMMA AbstractFail ==
  ASSUME Verdict = "ok", Levels' = <<>>,
         \/ Verdict' \in {"rejected", "done"}
         \/ Levels # <<>> /\ \E x \in Names :
              \/ Verdict' = "redeclared" /\ Scopes!Visible(Levels, Len(Levels), x)
              \/ Verdict' = "undeclared" /\ ~Scopes!Visible(Levels, Len(Levels), x)
  PROVE  Scopes!Next
<1>1. CASE Verdict' \in {"rejected", "done"}
  <2>1. Scopes!Stop
    BY <1>1 DEF Scopes!Stop, Scopes!Fail, Levels, Level, Verdict
  <2> QED BY <2>1 DEF Scopes!Next, Levels, Level, Verdict
<1>2. CASE Levels # <<>> /\ \E x \in Names :
              \/ Verdict' = "redeclared" /\ Scopes!Visible(Levels, Len(Levels), x)
              \/ Verdict' = "undeclared" /\ ~Scopes!Visible(Levels, Len(Levels), x)
  <2>1. PICK x \in Names :
              \/ Verdict' = "redeclared" /\ Scopes!Visible(Levels, Len(Levels), x)
              \/ Verdict' = "undeclared" /\ ~Scopes!Visible(Levels, Len(Levels), x)
    BY <1>2
  <2>2. Scopes!Redeclare(x) \/ Scopes!ReferToUnknown(x)
    BY <1>2, <2>1 DEF Scopes!Redeclare, Scopes!ReferToUnknown, Scopes!Fail, Levels, Level, Verdict
  <2> QED BY <2>2 DEF Scopes!Next, Levels, Level, Verdict
<1> QED BY <1>1, <1>2

LEMMA AbstractStutter ==
  ASSUME Levels' = Levels, Verdict' = Verdict
  PROVE  UNCHANGED Scopes!vars
BY DEF Scopes!vars, Levels, Level, Verdict

-----------------------------------------------------------------------------
(* The steps of the code generator, seen as steps of LexicalScope          *)

(* A frame sees what the last of its entries sees.                         *)
LEMMA KeptView ==
  ASSUME StackInv, StackInv', NEW p, NEW h, Keeps(p, h), SameShape(p, h),
         \A i \in 1..h : stack'[i].locals = stack[i].locals,
         \/ Len(frames') = p + 1 /\ frames'[p+1].base = h + 1
         \/ /\ Len(frames') = p
            /\ Len(stack') = h \/ (Len(stack') = h + 1 /\ stack'[h+1].locals = stack[h].locals)
  PROVE  SameView(p)
<1>1. p \in Nat /\ h \in Nat /\ p <= Len(frames) /\ p <= Len(frames')
  BY KeptPart DEF SameShape
<1>2. ASSUME NEW k \in 1..p
      PROVE  stack'[EndOfFrame(k)'].locals = stack[EndOfFrame(k)].locals
  <2>1. /\ EndOfFrame(k) \in Nat /\ EndOfFrame(k) \in 1..h
        /\ k = p => EndOfFrame(k) = h
        /\ k # p => EndOfFrame(k) = frames[k+1].base - 1
    <3>1. /\ frames[k].base \in Nat /\ 1 <= frames[k].base
          /\ EndOfFrame(k) \in Nat /\ frames[k].base <= EndOfFrame(k) /\ EndOfFrame(k) <= h
          /\ k = p => EndOfFrame(k) = h
          /\ k # p => EndOfFrame(k) = frames[k+1].base - 1
      BY KeptPart
    <3> QED BY <3>1, <1>1
  <2>2. stack'[EndOfFrame(k)].locals = stack[EndOfFrame(k)].locals
    BY <2>1
  <2>3. CASE k # p
    <3>1. k + 1 \in 1..p /\ k < Len(frames')
      BY <2>3, <1>1, LengthsAfter
    <3>2. frames'[k+1].base = frames[k+1].base
      BY <3>1 DEF SameShape, SameFrame
    <3>3. EndOfFrame(k)' = EndOfFrame(k)
      BY <2>1, <2>3, <3>1, <3>2 DEF EndOfFrame
    <3> QED BY <2>2, <3>3
  <2>4. CASE k = p /\ Len(frames') = p + 1 /\ frames'[p+1].base = h + 1
    <3>1. p < Len(frames')
      BY <2>4, <1>1
    <3>2. EndOfFrame(k)' = frames'[p+1].base - 1
      BY <2>4, <3>1 DEF EndOfFrame
    <3>3. EndOfFrame(k)' = EndOfFrame(k)
      BY <2>1, <2>4, <3>2, <1>1
    <3> QED BY <2>2, <3>3
  <2>5. CASE k = p /\ Len(frames') = p
    <3>1. EndOfFrame(k)' = Len(stack') /\ EndOfFrame(k) = h
      BY <2>1, <2>5, <1>1 DEF EndOfFrame
    <3>2. CASE Len(stack') = h
      BY <3>1, <3>2, <2>2
    <3>3. CASE Len(stack') = h + 1 /\ stack'[h+1].locals = stack[h].locals
      BY <3>1, <3>3
    <3>4. Len(frames') # p + 1
      BY <2>5, <1>1
    <3> QED BY <3>2, <3>3, <3>4
  <2> QED BY <2>3, <2>4, <2>5
<1>3. ASSUME NEW k \in 1..p PROVE Visible(k)' = Visible(k) /\ IsFunction(k)' = IsFunction(k)
  <2>1. Visible(k)' = Visible(k)
    BY <1>2 DEF Visible
  <2>2. frames'[k].kind = frames[k].kind
    BY DEF SameShape, SameFrame
  <2> QED BY <2>1, <2>2 DEF IsFunction
<1> QED BY <1>1, <1>3 DEF SameView

LEMMA SameScopes ==
  ASSUME StackInv, StackInv', ScopeInv, SameCode, Verdict' = Verdict,
         \A i \in 1..Len(stack) : stack'[i].locals = stack[i].locals
  PROVE  ScopeInv' /\ UNCHANGED Scopes!vars
<1>1. PICK p : p = Len(frames)
  OBVIOUS
<1>2. PICK h : h = Len(stack)
  OBVIOUS
<1>3. /\ Keeps(p, h) /\ SameShape(p, h) /\ p \in Nat /\ h \in Nat
      /\ Len(frames') = p /\ Len(stack') = h
  BY <1>1, <1>2, Lengths DEF Keeps, SameShape, SameCode
<1>4. SameView(p)
  BY <1>2, <1>3, KeptView
<1>5. ScopeInv'
  BY <1>3, <1>4, ScopesAfter
<1>6. Levels' = Levels
  <2>1. PICK s : s = Levels
    OBVIOUS
  <2>2. PICK u : u = Levels'
    OBVIOUS
  <2>3. /\ s \in Seq(LevelSet) /\ Len(s) = p /\ u \in Seq(LevelSet) /\ Len(u) = p
    BY <1>1, <1>3, <2>1, <2>2, LevelTypes, LevelTypesAfter
  <2>4. \A k \in 1..p : u[k] = s[k]
    BY <1>4, <2>1, <2>2, SameLevels
  <2>5. u = s
    BY <2>3, <2>4, SeqEqual
  <2> QED BY <2>1, <2>2, <2>5
<1> QED BY <1>5, <1>6, AbstractStutter

(* The generator stops: no frame is left.                                  *)
LEMMA NoScope ==
  ASSUME frames' = <<>>
  PROVE  ScopeInv' /\ Levels' = <<>>
<1>1. Len(frames') = 0
  BY EmptySeq
<1>2. ScopeInv'
  BY <1>1 DEF ScopeInv
<1>3. Levels' = <<>>
  BY <1>1 DEF Levels
<1> QED BY <1>2, <1>3

(* What the innermost frame sees is what the generator accepts.            *)
LEMMA Looked ==
  ASSUME StackInv, ScopeInv, frames # <<>>, NEW x \in Names
  PROVE  /\ IsDeclared(x) <=> Scopes!Visible(Levels, Len(Levels), x)
         /\ Visible(Len(frames)) = {y \in Names : Top.locals[y] # 0}
         /\ Levels # <<>> /\ Len(Levels) = Len(frames)
<1>1. Len(frames) \in 1..Len(frames) /\ Len(frames) \in Nat /\ Top = stack[Len(stack)]
  BY Inside, Lengths
<1>2. EndOfFrame(Len(frames)) = Len(stack)
  BY <1>1 DEF EndOfFrame
<1>3. Visible(Len(frames)) = {y \in Names : Top.locals[y] # 0}
  BY <1>1, <1>2 DEF Visible
<1>4. Seen(Len(frames))
  BY <1>1 DEF ScopeInv
<1>5. Len(Levels) = Len(frames) /\ Levels # <<>>
  BY <1>1, LevelTypes, EmptySeq
<1> QED BY <1>3, <1>4, <1>5 DEF Seen, IsDeclared

(* A step of the generator is a step of LexicalScope, or none.             *)
ScopeStep == ScopeInv' /\ (Scopes!Next \/ UNCHANGED Scopes!vars)

LEMMA RunningVerdict ==
  /\ status = "running" => Verdict = "ok"
  /\ status' = status => Verdict' = Verdict
  /\ status' \in {"undeclared", "redeclared", "rejected", "done"} => Verdict' = status'
BY DEF Verdict

LEMMA RejectScope ==
  ASSUME status = "running", Exit("rejected") PROVE ScopeStep
<1>1. frames' = <<>> /\ Verdict = "ok" /\ Verdict' = "rejected"
  BY RunningVerdict DEF Exit
<1>2. ScopeInv' /\ Levels' = <<>>
  BY <1>1, NoScope
<1> QED BY <1>1, <1>2, AbstractFail DEF ScopeStep

LEMMA Widened ==
  ASSUME NEW own, NEW opaque, NEW x, NEW l, NEW m,
         l = [own |-> own, opaque |-> opaque], m = [own |-> own \cup {x}, opaque |-> opaque]
  PROVE  m = [l EXCEPT !.own = @ \cup {x}]
OBVIOUS

LEMMA Emptied ==
  ASSUME NEW own, NEW opaque, NEW d, d = [own |-> own, opaque |-> opaque]
  PROVE  [d EXCEPT !.own = {}] = [own |-> {}, opaque |-> opaque] /\ d.opaque = opaque
OBVIOUS

LEMMA DeclareScope ==
  ASSUME StackInv, StackInv', ScopeInv, InsideFunction, NEW x \in Names, Declare(x)
  PROVE  ScopeStep
<1>0. /\ frames # <<>> /\ status = "running" /\ Verdict = "ok"
      /\ Current \in Nat /\ Current \in 1..Len(bbs) /\ Top = stack[Len(stack)]
  BY CurrentIsYoungest, Inside, RunningVerdict DEF InsideFunction, Running
<1>1. CASE IsDeclared(x)
  <2>1. frames' = <<>> /\ Verdict' = "redeclared"
    BY <1>1, RunningVerdict DEF Declare, Exit
  <2>2. ScopeInv' /\ Levels' = <<>>
    BY <2>1, NoScope
  <2>3. Levels # <<>> /\ Scopes!Visible(Levels, Len(Levels), x)
    BY <1>0, <1>1, Looked
  <2> QED BY <1>0, <2>1, <2>2, <2>3, AbstractFail DEF ScopeStep
<1>2. CASE ~IsDeclared(x)
  <2>1. /\ bbs' = bbs /\ frames' = Visited(frames, Computed(Current))
        /\ stack' = [stack EXCEPT ![Len(stack)] = Declared(x)] /\ Verdict' = Verdict
    BY <1>0, <1>2, RunningVerdict DEF Declare, Declared
  <2>2. /\ Len(frames') = Len(frames)
        /\ \A k \in 1..Len(frames) : SameFrame(frames'[k], frames[k])
    BY <1>0, <2>1, ValueTypes, VisitedShape
  <2>3. /\ Len(stack') = Len(stack)
        /\ \A i \in 1..Len(stack) : /\ stack'[i] = IF i = Len(stack) THEN Declared(x) ELSE stack[i]
                                    /\ SameEntry(stack'[i], stack[i])
    BY <1>0, <2>1, DeclaredTop, TopReplaced
  <2>4. Declared(x).locals = [Top.locals EXCEPT ![x] = Current] /\ Top.locals \in Locals
    BY <1>0, Inside, DeclaredTop DEF StackEntry
  <2>5. PICK n : n = Len(frames)
    OBVIOUS
  <2>6. PICK h : h = Innermost.base - 1
    OBVIOUS
  <2>7. /\ n \in Nat /\ n > 0 /\ n \in 1..n /\ h \in Nat /\ h < Len(stack) /\ Len(stack) \in Nat
        /\ Len(stack) \in 1..Len(stack) /\ Keeps(n - 1, h)
        /\ frames'[n].base = h + 1 /\ n - 1 + 1 = n
    <3>1. /\ n \in 1..Len(frames) /\ n \in Nat /\ Innermost = frames[n] /\ Innermost.base \in 1..Len(stack)
          /\ Len(stack) \in Nat
      BY <1>0, <2>5, Inside, Lengths
    <3>2. frames'[n].base = Innermost.base
      BY <3>1, <2>2 DEF SameFrame
    <3>3. h \in Nat /\ h < Len(stack) /\ Innermost.base = h + 1 /\ Len(stack) \in 1..Len(stack)
      BY <3>1, <2>6
    <3>4. Keeps(n - 1, h)
      BY <1>0, <2>5, <2>6, <3>1 DEF Keeps
    <3> QED BY <3>1, <3>2, <3>3, <3>4, <2>5
  <2>8. SameView(n - 1)
    <3>1. SameShape(n - 1, h)
      BY <2>2, <2>3, <2>5, <2>7 DEF SameShape
    <3>2. \A i \in 1..h : stack'[i].locals = stack[i].locals
      BY <2>3, <2>7
    <3>3. Len(frames') = n - 1 + 1 /\ frames'[n - 1 + 1].base = h + 1
      BY <2>2, <2>5, <2>7
    <3> QED BY <2>7, <3>1, <3>2, <3>3, KeptView
  <2>9. Visible(n)' = Visible(n) \cup {x} /\ x \notin Visible(n) /\ IsFunction(n)' = IsFunction(n)
    <3>1. EndOfFrame(n)' = Len(stack)
      BY <2>2, <2>3, <2>5, <2>7 DEF EndOfFrame
    <3>2. Visible(n)' = {y \in Names : [Top.locals EXCEPT ![x] = Current][y] # 0}
      BY <3>1, <2>3, <2>4, <2>7 DEF Visible
    <3>3. Visible(n) = {y \in Names : Top.locals[y] # 0}
      BY <1>0, <2>5, Looked
    <3>4. \A y \in Names : [Top.locals EXCEPT ![x] = Current][y] # 0 <=> y = x \/ Top.locals[y] # 0
      BY <1>0, <2>4 DEF Locals
    <3>5. x \notin Visible(n)
      BY <1>2, <3>3 DEF IsDeclared
    <3>6. frames'[n].kind = frames[n].kind
      BY <2>2, <2>5, <2>7 DEF SameFrame
    <3> QED BY <3>2, <3>3, <3>4, <3>5, <3>6 DEF IsFunction
  <2>10. Nested(n)
    BY <2>5, <2>7 DEF ScopeInv
  <2>11. ~IsFunction(n) => n > 1 /\ Visible(n-1)' = Visible(n-1) /\ Visible(n-1) \subseteq Visible(n)
    <3>1. ~IsFunction(n) => n > 1 /\ n - 1 \in 1..(n-1)
      BY <2>7, <2>10 DEF Nested
    <3> QED BY <3>1, <2>8, <2>10 DEF SameView, Nested
  <2>12. Nested(n)'
    BY <2>9, <2>11 DEF Nested
  <2>13. ScopeInv'
    <3>1. PICK q : q = n - 1
      OBVIOUS
    <3>2. Len(frames') = q + 1 /\ q + 1 = n
      BY <3>1, <2>2, <2>5, <2>7
    <3>3. Nested(q + 1)'
      BY <3>2, <2>12
    <3> QED BY <3>1, <3>2, <3>3, <2>8, ScopesAfter
  <2>14. Level(n)' = [Level(n) EXCEPT !.own = @ \cup {x}]
    <3>1. CASE IsFunction(n)
      <4>1. Level(n)' = [own |-> Visible(n) \cup {x}, opaque |-> IsFunction(n)]
        BY <3>1, <2>9 DEF Level
      <4>2. Level(n) = [own |-> Visible(n), opaque |-> IsFunction(n)]
        BY <3>1 DEF Level
      <4>3. PICK own : own = Visible(n)
        OBVIOUS
      <4>4. PICK opaque : opaque = IsFunction(n)
        OBVIOUS
      <4>5. PICK l : l = Level(n)
        OBVIOUS
      <4>6. PICK m : m = Level(n)'
        OBVIOUS
      <4>7. m = [l EXCEPT !.own = @ \cup {x}]
        BY <4>1, <4>2, <4>3, <4>4, <4>5, <4>6, Widened
      <4> QED BY <4>5, <4>6, <4>7
    <3>2. CASE ~IsFunction(n)
      <4>1. Visible(n)' \ Visible(n-1)' = (Visible(n) \ Visible(n-1)) \cup {x}
        BY <3>2, <2>9, <2>11
      <4>2. Level(n)' = [own |-> (Visible(n) \ Visible(n-1)) \cup {x}, opaque |-> IsFunction(n)]
        BY <3>2, <4>1, <2>9 DEF Level
      <4>3. Level(n) = [own |-> Visible(n) \ Visible(n-1), opaque |-> IsFunction(n)]
        BY <3>2 DEF Level
      <4> QED BY <4>2, <4>3
    <3> QED BY <3>1, <3>2
  <2>15. Levels' = [Levels EXCEPT ![Len(Levels)].own = @ \cup {x}] /\ Levels # <<>>
    <3>1. PICK l : l = Level(n)'
      OBVIOUS
    <3>2. /\ Levels' = [Levels EXCEPT ![n] = l] /\ Levels # <<>>
          /\ Len(Levels) = n /\ Levels[n] = Level(n)
      BY <2>2, <2>5, <2>7, <2>8, <3>1, LevelReplaced
    <3>3. l = [Levels[n] EXCEPT !.own = @ \cup {x}]
      BY <3>1, <3>2, <2>14
    <3> QED BY <3>2, <3>3
  <2>16. ~Scopes!Visible(Levels, Len(Levels), x)
    BY <1>0, <1>2, Looked
  <2>17. Scopes!Next
    BY <1>0, <2>1, <2>15, <2>16, AbstractDeclare
  <2> QED BY <2>13, <2>17 DEF ScopeStep
<1> QED BY <1>1, <1>2

LEMMA StatementScope ==
  ASSUME StackInv, StackInv', ScopeInv, InsideFunction, Statement
  PROVE  ScopeStep
<1>0. /\ frames # <<>> /\ status = "running" /\ Verdict = "ok"
      /\ Current \in Nat /\ Top = stack[Len(stack)]
  BY CurrentIsYoungest, Inside, RunningVerdict DEF InsideFunction, Running
<1>1. \A v \in {Constant, Garbage, Computed(Current)} : v \in Value
  BY <1>0, ValueTypes
<1>2. ASSUME NEW v \in Value, frames' = Visited(frames, v), UNCHANGED <<bbs, stack, status>>
      PROVE  ScopeStep
  <2>1. SameCode
    BY <1>2, VisitedShape DEF SameCode, SameEntry
  <2> QED BY <2>1, <1>2, RunningVerdict, SameScopes DEF ScopeStep
<1>3. ASSUME NEW x \in Names, Declare(x) PROVE ScopeStep
  BY <1>3, DeclareScope
<1>4. ASSUME NEW x \in Names, Refer(x) PROVE ScopeStep
  <2>1. CASE IsDeclared(x)
    BY <1>1, <1>2, <1>4, <2>1 DEF Refer
  <2>2. CASE ~IsDeclared(x)
    <3>1. frames' = <<>> /\ Verdict' = "undeclared"
      BY <1>4, <2>2, RunningVerdict DEF Refer, Exit
    <3>2. ScopeInv' /\ Levels' = <<>>
      BY <3>1, NoScope
    <3>3. Levels # <<>> /\ ~Scopes!Visible(Levels, Len(Levels), x)
      BY <1>0, <2>2, Looked
    <3> QED BY <1>0, <3>1, <3>2, <3>3, AbstractFail DEF ScopeStep
  <2> QED BY <2>1, <2>2
<1>5. ASSUME Compute \/ EmptyControl PROVE ScopeStep
  BY <1>1, <1>2, <1>5 DEF Compute, EmptyControl
<1>6. ASSUME NEW v \in {Constant, Computed(Current)}, Return(v) PROVE ScopeStep
  <2>1. CASE bbs[Current].terms # <<>>
    BY <1>0, <1>6, <2>1, RejectScope DEF Return
  <2>2. CASE bbs[Current].terms = <<>>
    <3>1. /\ bbs' = bbs /\ frames' = Visited(frames, v) /\ v \in Value /\ Verdict' = Verdict
          /\ stack' = [stack EXCEPT ![Len(stack)] = Returning(v)]
      BY <1>0, <1>1, <1>6, <2>2, RunningVerdict DEF Return, Returning
    <3>2. /\ Len(stack') = Len(stack)
          /\ \A i \in 1..Len(stack) : /\ stack'[i] = IF i = Len(stack) THEN Returning(v) ELSE stack[i]
                                      /\ SameEntry(stack'[i], stack[i])
      BY <1>0, <3>1, ReturningTop, TopReplaced
    <3>3. SameCode
      BY <3>1, <3>2, VisitedShape DEF SameCode
    <3>4. Returning(v).locals = Top.locals
      BY <1>0, <3>1, ReturningTop
    <3>5. \A i \in 1..Len(stack) : stack'[i].locals = stack[i].locals
      BY <1>0, <3>2, <3>4
    <3> QED BY <3>1, <3>3, <3>5, SameScopes DEF ScopeStep
  <2> QED BY <2>1, <2>2
<1> QED BY <1>3, <1>4, <1>5, <1>6 DEF Statement

(* A visit ends: the one around it sees what it saw.                       *)
LEMMA LeaveScope ==
  ASSUME StackInv, StackInv', ScopeInv, frames # <<>>,
         NEW p, NEW h, p = Len(frames) - 1, h = Innermost.base - 1,
         Len(frames') = p, \A k \in 1..p : SameFrame(frames'[k], frames[k]),
         \A i \in 1..h : stack'[i] = stack[i],
         \/ Len(stack') = h
         \/ Len(stack') = h + 1 /\ stack'[h+1].locals = stack[h].locals
  PROVE  ScopeInv' /\ Levels' = Front(Levels) /\ Levels # <<>>
<1>1. Keeps(p, h) /\ p \in Nat /\ h \in Nat /\ Len(frames) = p + 1
  BY Dropped
<1>2. SameShape(p, h)
  BY <1>1 DEF SameShape, SameEntry
<1>3. SameView(p)
  BY <1>1, <1>2, KeptView
<1>4. ScopeInv'
  BY <1>3, ScopesAfter
<1>5. Levels' = Front(Levels) /\ Levels # <<>>
  BY <1>1, <1>3, LevelDropped
<1> QED BY <1>4, <1>5

(* A visit begins, with names of its own or with those of the one around.  *)
LEMMA EnterScope ==
  ASSUME StackInv, StackInv', ScopeInv, NEW n, n = Len(frames), NEW f,
         Len(frames') = n + 1, frames'[n+1] = f, \A k \in 1..n : frames'[k] = frames[k],
         f.base = Len(stack) + 1, Len(stack') = Len(stack) + 1,
         \A i \in 1..Len(stack) : stack'[i] = stack[i],
         NEW l, l = stack'[Len(stack)+1].locals,
         f.kind = "function" \/ (f.kind \in {"if", "while"} /\ frames # <<>> /\ l = Top.locals)
  PROVE  /\ ScopeInv'
         /\ f.kind = "function" =>
              Levels' = Append(Levels, [own |-> {x \in Names : l[x] # 0}, opaque |-> TRUE])
         /\ f.kind \in {"if", "while"} =>
              Levels' = Append(Levels, [own |-> {}, opaque |-> FALSE]) /\ Levels # <<>>
<1>1. PICK h : h = Len(stack)
  OBVIOUS
<1>2. n \in Nat /\ h \in Nat /\ Keeps(n, h) /\ n + 1 \in 1..(n + 1)
  BY <1>1, Lengths DEF Keeps
<1>3. SameShape(n, h)
  BY <1>1, <1>2 DEF SameShape, SameFrame, SameEntry
<1>4. SameView(n)
  <2>1. \A i \in 1..h : stack'[i].locals = stack[i].locals
    BY <1>1
  <2>2. Len(frames') = n + 1 /\ frames'[n+1].base = h + 1
    BY <1>1
  <2> QED BY <1>2, <1>3, <2>1, <2>2, KeptView
<1>5. Visible(n+1)' = {x \in Names : l[x] # 0}
  <2>1. EndOfFrame(n+1)' = h + 1
    BY <1>1, <1>2 DEF EndOfFrame
  <2> QED BY <2>1, <1>1 DEF Visible
<1>6. IsFunction(n+1)' <=> f.kind = "function"
  <2>1. f.kind \in {"function", "if", "while"} /\ frames'[n+1].kind = f.kind
    OBVIOUS
  <2> QED BY <2>1 DEF IsFunction
<1>7. f.kind \in {"if", "while"} => n > 0 /\ Visible(n)' = Visible(n+1)' /\ Levels # <<>>
  <2> SUFFICES ASSUME f.kind \in {"if", "while"}
               PROVE  n > 0 /\ Visible(n)' = Visible(n+1)' /\ Levels # <<>>
    OBVIOUS
  <2>1. frames # <<>> /\ l = Top.locals
    OBVIOUS
  <2>2. n \in 1..n /\ n > 0 /\ Levels # <<>>
    BY <2>1, <1>2, Inside, LevelTypes, EmptySeq
  <2>3. Visible(n) = {x \in Names : l[x] # 0}
    <3>1. EndOfFrame(n) = Len(stack)
      BY <1>2 DEF EndOfFrame
    <3> QED BY <2>1, <3>1, Inside DEF Visible
  <2>4. Visible(n)' = Visible(n)
    BY <2>2, <1>4 DEF SameView
  <2> QED BY <2>2, <2>3, <2>4, <1>5
<1>8. Nested(n+1)'
  <2>1. CASE f.kind = "function"
    BY <2>1, <1>6 DEF Nested
  <2>2. CASE f.kind \in {"if", "while"}
    <3>1. n + 1 > 1 /\ n + 1 - 1 = n
      BY <2>2, <1>2, <1>7
    <3>2. Visible(n + 1 - 1)' = Visible(n)'
      BY <3>1
    <3> QED BY <2>2, <3>1, <3>2, <1>7 DEF Nested
  <2> QED BY <2>1, <2>2
<1>9. ScopeInv'
  BY <1>4, <1>8, ScopesAfter
<1>10. PICK g : g = Level(n+1)'
  OBVIOUS
<1>11. Levels' = Append(Levels, g)
  BY <1>4, <1>10, LevelAdded
<1>12. f.kind = "function" => g = [own |-> {x \in Names : l[x] # 0}, opaque |-> TRUE]
  BY <1>5, <1>6, <1>10 DEF Level
<1>13. f.kind \in {"if", "while"} => g = [own |-> {}, opaque |-> FALSE]
  <2> SUFFICES ASSUME f.kind \in {"if", "while"} PROVE g = [own |-> {}, opaque |-> FALSE]
    OBVIOUS
  <2>1. n + 1 - 1 = n /\ Visible(n + 1 - 1)' = Visible(n)'
    BY <1>2
  <2>2. Visible(n+1)' \ Visible(n + 1 - 1)' = {}
    BY <2>1, <1>7
  <2>3. ~IsFunction(n+1)'
    BY <1>6
  <2>4. g = [own |-> Visible(n+1)' \ Visible(n + 1 - 1)', opaque |-> IsFunction(n+1)']
    BY <2>3, <1>10 DEF Level
  <2>5. IsFunction(n+1)' = FALSE
    BY <2>3 DEF IsFunction
  <2> QED BY <2>2, <2>4, <2>5
<1> QED BY <1>7, <1>9, <1>11, <1>12, <1>13

(* pushBlock(b, true) and the push of a merge block copy the locals.       *)
LEMMA InheritedLocals ==
  ASSUME NEW s \in Seq(StackEntry), s # <<>>, NEW b \in Nat
  PROVE  /\ PushInheriting(s, b)[Len(s)+1].locals = s[Len(s)].locals
         /\ PushMerge(s, b)[Len(s)+1].locals = s[Len(s)].locals
<1> DEFINE e == Entry(b, Last(s).locals)
           f == [e EXCEPT !.isMergeBlock = TRUE]
<1>1. e \in StackEntry
  BY InheritedEntry
<1>2. e.locals = s[Len(s)].locals
  BY DEF Entry, Last
<1>3. f \in StackEntry /\ f.locals = e.locals
  BY <1>1 DEF StackEntry
<1>4. PushInheriting(s, b) = Append(s, e) /\ PushMerge(s, b) = Append(s, f)
  BY DEF PushInheriting, PushMerge
<1> HIDE DEF e, f
<1>5. Append(s, e)[Len(s)+1] = e /\ Append(s, f)[Len(s)+1] = f
  BY <1>1, <1>3, AppendProperties
<1> QED BY <1>2, <1>3, <1>4, <1>5

LEMMA DefineFunctionScope ==
  ASSUME StackInv, StackInv', ScopeInv, NEW params \in SUBSET Names, NEW void \in BOOLEAN,
         DefineFunction(params, void)
  PROVE  ScopeStep
<1>1. PICK n : n = Len(frames)
  OBVIOUS
<1>2. PICK b : b = Len(bbs) + 1
  OBVIOUS
<1> DEFINE e == Entry(b, LocalsOf(params, b))
           f == [kind |-> "function", block |-> b, base |-> Len(stack) + 1,
                 other |-> 0, merge |-> 0, void |-> void,
                 last |-> NoValue, empty |-> TRUE]
<1>3. /\ stack' = Append(stack, e) /\ frames' = Append(frames, f)
      /\ status = "running" /\ status' = status
  BY <1>2 DEF DefineFunction, Running
<1>4. /\ n \in Nat /\ b \in Nat /\ b # 0 /\ Len(stack) \in Nat
      /\ stack \in Seq(StackEntry) /\ frames \in Seq(Frame)
  BY <1>1, <1>2, Lengths DEF StackInv, TypeOK
<1>5. PICK l : l = LocalsOf(params, b)
  OBVIOUS
<1>6. e \in StackEntry /\ e.locals = l
  BY <1>4, <1>5, LocalsType, EntryType
<1>7. f \in Frame /\ f.kind = "function" /\ f.base = Len(stack) + 1
  BY <1>4, ValueTypes DEF Frame, FrameKind
<1>8. {x \in Names : l[x] # 0} = params
  BY <1>4, <1>5 DEF LocalsOf
<1> HIDE DEF e, f
<1>9. /\ Len(stack') = Len(stack) + 1 /\ stack'[Len(stack)+1] = e
      /\ \A i \in 1..Len(stack) : stack'[i] = stack[i]
      /\ Len(frames') = n + 1 /\ frames'[n+1] = f /\ \A k \in 1..n : frames'[k] = frames[k]
  BY <1>1, <1>3, <1>4, <1>6, <1>7, AppendProperties
<1>10. /\ ScopeInv'
       /\ Levels' = Append(Levels, [own |-> {x \in Names : l[x] # 0}, opaque |-> TRUE])
  <2>1. l = stack'[Len(stack)+1].locals
    BY <1>6, <1>9
  <2>2. PICK g : g = f
    OBVIOUS
  <2>3. /\ Len(frames') = n + 1 /\ frames'[n+1] = g /\ \A k \in 1..n : frames'[k] = frames[k]
        /\ g.base = Len(stack) + 1 /\ g.kind = "function"
    BY <1>7, <1>9, <2>2
  <2>4. /\ Len(stack') = Len(stack) + 1
        /\ \A i \in 1..Len(stack) : stack'[i] = stack[i]
    BY <1>9
  <2> QED BY <1>1, <2>1, <2>3, <2>4, EnterScope
<1>11. Levels' = Append(Levels, [own |-> params, opaque |-> TRUE])
  BY <1>8, <1>10
<1>12. Scopes!Next
  BY <1>3, <1>11, RunningVerdict, AbstractFunction
<1> QED BY <1>10, <1>12 DEF ScopeStep

(* The visit of an if or of a while begins                                 *)
LEMMA OpenScope ==
  ASSUME StackInv, StackInv', ScopeInv, InsideFunction, NEW b \in Nat, NEW f \in Frame,
         f.kind \in {"if", "while"}, f.base = Len(stack) + 1,
         stack' = PushInheriting(stack, b), frames' = Append(frames, f), status' = status
  PROVE  ScopeStep
<1>1. PICK n : n = Len(frames)
  OBVIOUS
<1>2. /\ frames # <<>> /\ status = "running" /\ n \in Nat /\ Len(stack) \in Nat
      /\ stack \in Seq(StackEntry) /\ frames \in Seq(Frame) /\ stack # <<>>
      /\ Top = stack[Len(stack)]
  BY <1>1, Lengths, Inside, EmptySeq DEF InsideFunction, Running, StackInv, TypeOK
<1>3. PICK l : l = stack'[Len(stack)+1].locals
  OBVIOUS
<1>4. Pushed(stack', stack, b) /\ l = Top.locals
  BY <1>2, <1>3, PushedInheriting, InheritedLocals
<1>5. /\ Len(stack') = Len(stack) + 1 /\ \A i \in 1..Len(stack) : stack'[i] = stack[i]
      /\ Len(frames') = n + 1 /\ frames'[n+1] = f /\ \A k \in 1..n : frames'[k] = frames[k]
  BY <1>1, <1>2, <1>4, AppendProperties DEF Pushed
<1>6. /\ ScopeInv' /\ Levels # <<>>
      /\ Levels' = Append(Levels, [own |-> {}, opaque |-> FALSE])
  BY <1>1, <1>2, <1>3, <1>4, <1>5, EnterScope
<1>7. Scopes!Next
  BY <1>2, <1>6, RunningVerdict, AbstractBlock
<1> QED BY <1>6, <1>7 DEF ScopeStep

LEMMA BeginIfScope ==
  ASSUME StackInv, StackInv', ScopeInv, InsideFunction, NEW withElse \in BOOLEAN, BeginIf(withElse)
  PROVE  ScopeStep
<1>1. PICK n : n = Len(bbs)
  OBVIOUS
<1> DEFINE merge == IF withElse THEN n + 3 ELSE n + 2
           other == IF withElse THEN n + 2 ELSE 0
           f     == [kind |-> "if", block |-> n + 1, base |-> Len(stack) + 1,
                     other |-> other, merge |-> merge, void |-> Innermost.void,
                     last |-> NoValue, empty |-> TRUE]
<1>2. /\ stack' = PushInheriting(stack, n + 1) /\ frames' = Append(frames, f) /\ status' = status
  BY <1>1 DEF BeginIf
<1>3. n \in Nat /\ n + 1 \in Nat /\ Len(stack) \in Nat /\ Innermost \in Frame
  BY <1>1, Lengths, Inside DEF InsideFunction
<1>4. f \in Frame /\ f.kind = "if" /\ f.base = Len(stack) + 1
  BY <1>3, ValueTypes DEF Frame, FrameKind
<1> HIDE DEF f
<1> QED BY <1>2, <1>3, <1>4, OpenScope

LEMMA BeginWhileScope ==
  ASSUME StackInv, StackInv', ScopeInv, InsideFunction, BeginWhile
  PROVE  ScopeStep
<1>1. PICK n : n = Len(bbs)
  OBVIOUS
<1> DEFINE f == [kind |-> "while", block |-> n + 2, base |-> Len(stack) + 1,
                 other |-> n + 1, merge |-> n + 3, void |-> Innermost.void,
                 last |-> NoValue, empty |-> TRUE]
<1>2. /\ stack' = PushInheriting(PopBlock(PushInheriting(stack, n + 1)), n + 2)
      /\ frames' = Append(frames, f) /\ status' = status
  BY <1>1 DEF BeginWhile
<1>3. /\ n \in Nat /\ n + 1 \in Nat /\ n + 2 \in Nat /\ Len(stack) \in Nat /\ Innermost \in Frame
      /\ stack \in Seq(StackEntry) /\ stack # <<>>
  BY <1>1, Lengths, Inside, EmptySeq DEF InsideFunction, StackInv, TypeOK
<1>4. f \in Frame /\ f.kind = "while" /\ f.base = Len(stack) + 1
  BY <1>3, ValueTypes DEF Frame, FrameKind
<1> HIDE DEF f
<1>5. stack' = PushInheriting(stack, n + 2)
  BY <1>2, <1>3, PopPushed
<1> QED BY <1>2, <1>3, <1>4, <1>5, OpenScope

(* The visit of an if or of a while ends                                   *)
LEMMA CloseScope ==
  ASSUME StackInv, StackInv', ScopeInv, InsideFunction,
         Innermost.kind \in {"if", "else", "while"}, NEW v \in Value,
         stack' = PushMerge(PopBlock(stack), Innermost.merge),
         frames' = Visited(Front(frames), v), status' = status
  PROVE  ScopeStep
<1>1. PICK p : p = Len(frames) - 1
  OBVIOUS
<1>2. PICK h : h = Innermost.base - 1
  OBVIOUS
<1>3. PICK m : m = Innermost.merge
  OBVIOUS
<1>4. /\ frames # <<>> /\ status = "running" /\ Innermost \in Frame /\ m \in Nat
      /\ Len(frames) \in 1..Len(frames) /\ Innermost = frames[Len(frames)]
  BY <1>3, Inside DEF InsideFunction, Running, Frame
<1>5. /\ Keeps(p, h) /\ p \in Nat /\ h \in Nat /\ Len(frames) = p + 1
      /\ PopBlock(stack) \in Seq(StackEntry) /\ Len(PopBlock(stack)) = h
      /\ \A i \in 1..h : PopBlock(stack)[i] = stack[i]
      /\ Front(frames) \in Seq(Frame) /\ Len(Front(frames)) = p
      /\ \A k \in 1..p : Front(frames)[k] = frames[k]
  BY <1>1, <1>2, <1>4, Dropped
<1>6. p > 0
  BY <1>4, <1>5 DEF StackInv, ReservedBlocks
<1>7. h > 0 /\ h \in 1..h
  BY <1>5, <1>6, KeptPart
<1>8. /\ Len(stack') = h + 1 /\ stack'[h+1].locals = stack[h].locals
      /\ \A i \in 1..h : stack'[i] = stack[i]
  <2>1. PICK q : q = PopBlock(stack)
    OBVIOUS
  <2>2. /\ q \in Seq(StackEntry) /\ Len(q) = h /\ \A i \in 1..h : q[i] = stack[i]
        /\ stack' = PushMerge(q, m) /\ q # <<>>
    BY <2>1, <1>3, <1>5, <1>7, EmptySeq
  <2>3. Pushed(PushMerge(q, m), q, m) /\ PushMerge(q, m)[Len(q)+1].locals = q[Len(q)].locals
    BY <2>2, <1>4, PushedMerge, InheritedLocals
  <2> QED BY <2>2, <2>3, <1>7 DEF Pushed
<1>9. Len(frames') = p /\ \A k \in 1..p : SameFrame(frames'[k], frames[k])
  BY <1>5, VisitedFrames
<1>10. ScopeInv' /\ Levels' = Front(Levels) /\ Levels # <<>>
  BY <1>1, <1>2, <1>4, <1>8, <1>9, LeaveScope
<1>11. Scopes!Next
  BY <1>4, <1>10, RunningVerdict, AbstractLeave
<1> QED BY <1>10, <1>11 DEF ScopeStep

(* From the braces of an if to those of its else                           *)
LEMMA SwitchScope ==
  ASSUME StackInv, StackInv', ScopeInv, InsideFunction, EndThen, Innermost.other # 0
  PROVE  ScopeStep
<1>1. PICK p : p = Len(frames) - 1
  OBVIOUS
<1>2. PICK h : h = Innermost.base - 1
  OBVIOUS
<1>3. PICK n : n = p + 1
  OBVIOUS
<1>4. PICK o : o = Innermost.other
  OBVIOUS
<1>5. PICK g : g = [Innermost EXCEPT !.kind = "else", !.block = Innermost.other,
                                     !.last = NoValue, !.empty = TRUE]
  OBVIOUS
<1>6. /\ frames # <<>> /\ status = "running" /\ Innermost \in Frame /\ o \in Nat
      /\ Len(frames) \in 1..Len(frames) /\ Innermost = frames[Len(frames)]
      /\ Innermost.base \in Nat /\ Innermost.kind = "if" /\ frames \in Seq(Frame)
  BY <1>4, Inside DEF InsideFunction, Running, Frame, EndThen, StackInv, TypeOK
<1>7. /\ Keeps(p, h) /\ p \in Nat /\ h \in Nat /\ Len(frames) = n /\ n \in Nat /\ n \in 1..n
      /\ PopBlock(stack) \in Seq(StackEntry) /\ Len(PopBlock(stack)) = h
      /\ \A i \in 1..h : PopBlock(stack)[i] = stack[i]
  BY <1>1, <1>2, <1>3, <1>6, Dropped
<1>8. p > 0 /\ p \in 1..p /\ n > 1
  <2>1. p > 0
    BY <1>3, <1>6, <1>7 DEF StackInv, ReservedBlocks
  <2> QED BY <2>1, <1>3, <1>7
<1>9. h > 0 /\ h \in 1..h
  BY <1>7, <1>8, KeptPart
<1>10. /\ stack' = PushInheriting(PopBlock(stack), o) /\ status' = status
       /\ frames' = [frames EXCEPT ![Len(frames)] = g]
  BY <1>4, <1>5, <1>6 DEF EndThen
<1>11. g \in Frame /\ g.kind = "else" /\ g.base = h + 1
  <2>1. g \in Frame /\ g.kind = "else" /\ g.base = Innermost.base
    BY <1>4, <1>5, <1>6, ValueTypes DEF Frame, FrameKind
  <2> QED BY <2>1, <1>2, <1>6
<1>12. /\ Len(frames') = n /\ frames'[n] = g
       /\ \A k \in 1..p : SameFrame(frames'[k], frames[k])
  <2>1. /\ Len(frames') = Len(frames)
        /\ \A k \in 1..Len(frames) : frames'[k] = IF k = Len(frames) THEN g ELSE frames[k]
    BY <1>6, <1>10, <1>11, ExceptSeq
  <2>2. \A k \in 1..p : k \in 1..Len(frames) /\ k # Len(frames)
    BY <1>3, <1>7
  <2> QED BY <2>1, <2>2, <1>7 DEF SameFrame
<1>13. /\ Len(stack') = h + 1 /\ stack'[h+1].locals = stack[h].locals
       /\ \A i \in 1..h : stack'[i] = stack[i]
  <2>1. PICK q : q = PopBlock(stack)
    OBVIOUS
  <2>2. /\ q \in Seq(StackEntry) /\ Len(q) = h /\ \A i \in 1..h : q[i] = stack[i]
        /\ stack' = PushInheriting(q, o) /\ q # <<>>
    BY <2>1, <1>7, <1>9, <1>10, EmptySeq
  <2>3. Pushed(PushInheriting(q, o), q, o) /\ PushInheriting(q, o)[Len(q)+1].locals = q[Len(q)].locals
    BY <2>2, <1>6, PushedInheriting, InheritedLocals
  <2> QED BY <2>2, <2>3, <1>9 DEF Pushed
<1>14. SameView(p)
  <2>1. SameShape(p, h)
    BY <1>3, <1>7, <1>12, <1>13 DEF SameShape, SameEntry
  <2>2. Len(frames') = p + 1 /\ frames'[p+1].base = h + 1
    BY <1>3, <1>11, <1>12
  <2>3. \A i \in 1..h : stack'[i].locals = stack[i].locals
    BY <1>13
  <2> QED BY <1>7, <2>1, <2>2, <2>3, KeptView
<1>15. Visible(n)' = Visible(p)'
  <2>1. EndOfFrame(n)' = h + 1
    BY <1>7, <1>12, <1>13 DEF EndOfFrame
  <2>2. EndOfFrame(p) = h
    BY <1>7, <1>8, KeptPart
  <2>3. Visible(n)' = Visible(p)
    BY <2>1, <2>2, <1>13 DEF Visible
  <2> QED BY <2>3, <1>8, <1>14 DEF SameView
<1>16. ~IsFunction(n)' /\ ~IsFunction(n)
  BY <1>6, <1>7, <1>11, <1>12 DEF IsFunction
<1>17. n - 1 = p /\ Visible(n-1)' = Visible(p)'
  BY <1>3, <1>7
<1>18. ScopeInv'
  <2>1. Nested(n)'
    BY <1>8, <1>15, <1>16, <1>17 DEF Nested
  <2>2. Nested(p+1)' /\ Len(frames') = p + 1
    BY <2>1, <1>3, <1>12
  <2> QED BY <2>2, <1>14, ScopesAfter
<1>19. PICK l : l = Level(n)'
  OBVIOUS
<1>20. l = [own |-> {}, opaque |-> FALSE]
  <2>1. l = [own |-> Visible(n)' \ Visible(n-1)', opaque |-> IsFunction(n)']
    BY <1>16, <1>19 DEF Level
  <2>2. IsFunction(n)' = FALSE
    BY <1>16 DEF IsFunction
  <2>3. Visible(n)' \ Visible(n-1)' = {}
    BY <1>15, <1>17
  <2> QED BY <2>1, <2>2, <2>3
<1>21. PICK d : d = Level(n)
  OBVIOUS
<1>22. d = [own |-> Visible(n) \ Visible(n-1), opaque |-> FALSE]
  <2>1. d = [own |-> Visible(n) \ Visible(n-1), opaque |-> IsFunction(n)]
    BY <1>16, <1>21 DEF Level
  <2>2. IsFunction(n) = FALSE
    BY <1>16 DEF IsFunction
  <2> QED BY <2>1, <2>2
<1>23. l = [d EXCEPT !.own = {}] /\ ~d.opaque
  <2>1. PICK f : f = FALSE
    OBVIOUS
  <2>2. PICK own : own = Visible(n) \ Visible(n-1)
    OBVIOUS
  <2>3. d = [own |-> own, opaque |-> f] /\ l = [own |-> {}, opaque |-> f]
    BY <1>20, <1>22, <2>1, <2>2
  <2>4. [d EXCEPT !.own = {}] = [own |-> {}, opaque |-> f] /\ d.opaque = f
    BY <2>3, Emptied
  <2> QED BY <2>1, <2>3, <2>4
<1>24. /\ Levels' = [Levels EXCEPT ![n] = l] /\ Levels # <<>>
       /\ Len(Levels) = n /\ Last(Levels) = d /\ Levels[n] = d
  <2>1. n = Len(frames) /\ n > 0 /\ SameView(n - 1) /\ Len(frames') = n
    BY <1>7, <1>12, <1>14, <1>17
  <2> QED BY <2>1, <1>19, <1>21, LevelReplaced
<1>25. Levels' = [Levels EXCEPT ![Len(Levels)].own = {}]
  BY <1>23, <1>24
<1>26. Scopes!Next
  BY <1>6, <1>10, <1>23, <1>24, <1>25, RunningVerdict, AbstractBranch
<1> QED BY <1>18, <1>26 DEF ScopeStep

LEMMA ControlScope ==
  ASSUME StackInv, StackInv', ScopeInv, InsideFunction, Control
  PROVE  ScopeStep
<1>1. IfResult \in Value /\ Garbage \in Value
  <2>1. Innermost.last \in Value
    BY Inside DEF InsideFunction, Frame
  <2> QED BY <2>1, ValueTypes DEF IfResult
<1>2. ASSUME NEW withElse \in BOOLEAN, BeginIf(withElse) PROVE ScopeStep
  BY <1>2, BeginIfScope
<1>3. CASE EndThen
  <2>1. CASE Innermost.other # 0
    BY <1>3, <2>1, SwitchScope
  <2>2. CASE Innermost.other = 0
    <3>1. /\ Innermost.kind = "if" /\ stack' = PushMerge(PopBlock(stack), Innermost.merge)
          /\ frames' = Visited(Front(frames), IfResult) /\ status' = status
      BY <1>3, <2>2 DEF EndThen
    <3> QED BY <1>1, <3>1, CloseScope
  <2> QED BY <2>1, <2>2
<1>4. CASE EndElse
  <2>1. /\ Innermost.kind = "else" /\ stack' = PushMerge(PopBlock(stack), Innermost.merge)
        /\ frames' = Visited(Front(frames), IfResult) /\ status' = status
    BY <1>4 DEF EndElse
  <2> QED BY <1>1, <2>1, CloseScope
<1>5. CASE EndWhile
  <2>1. /\ Innermost.kind = "while" /\ stack' = PushMerge(PopBlock(stack), Innermost.merge)
        /\ frames' = Visited(Front(frames), Garbage) /\ status' = status
    BY <1>5 DEF EndWhile
  <2> QED BY <1>1, <2>1, CloseScope
<1>6. CASE BeginWhile
  BY <1>6, BeginWhileScope
<1> QED BY <1>2, <1>3, <1>4, <1>5, <1>6 DEF Control

LEMMA EndFunctionScope ==
  ASSUME StackInv, StackInv', ScopeInv, EndFunction \/ EndMain
  PROVE  ScopeStep
<1>1. PICK p : p = Len(frames) - 1
  OBVIOUS
<1>2. PICK h : h = Innermost.base - 1
  OBVIOUS
<1>3. /\ frames # <<>> /\ status = "running" /\ stack' = PopBlock(stack)
      /\ Len(frames) \in 1..Len(frames) /\ Innermost = frames[Len(frames)]
  <2>1. frames # <<>> /\ status = "running" /\ stack' = PopBlock(stack)
    BY DEF EndFunction, EndMain, InsideFunction, Running
  <2> QED BY <2>1, Inside
<1>4. /\ p \in Nat /\ Len(frames) = p + 1 /\ Len(stack') = h
      /\ \A i \in 1..h : stack'[i] = stack[i]
      /\ Front(frames) \in Seq(Frame) /\ Len(Front(frames)) = p
      /\ \A k \in 1..p : Front(frames)[k] = frames[k]
  BY <1>1, <1>2, <1>3, Dropped
<1>5. CASE EndFunction
  <2>1. frames' = Visited(Front(frames), Constant) /\ status' = status
    BY <1>5 DEF EndFunction
  <2>2. Len(frames') = p /\ \A k \in 1..p : SameFrame(frames'[k], frames[k])
    BY <2>1, <1>4, ValueTypes, VisitedFrames
  <2>3. ScopeInv' /\ Levels' = Front(Levels) /\ Levels # <<>>
    BY <1>1, <1>2, <1>3, <1>4, <2>2, LeaveScope
  <2>4. Scopes!Next
    BY <1>3, <2>1, <2>3, RunningVerdict, AbstractLeave
  <2> QED BY <2>3, <2>4 DEF ScopeStep
<1>6. CASE EndMain
  <2>1. frames' = Front(frames) /\ status' = "done" /\ Innermost.kind = "main"
    BY <1>6 DEF EndMain
  <2>2. p = 0
    BY <2>1, <1>3, <1>4 DEF StackInv, ReservedBlocks
  <2>3. frames' = <<>>
    BY <2>1, <2>2, <1>4, EmptySeq
  <2>4. ScopeInv' /\ Levels' = <<>>
    BY <2>3, NoScope
  <2>5. Scopes!Next
    BY <1>3, <2>1, <2>4, RunningVerdict, AbstractFail
  <2> QED BY <2>4, <2>5 DEF ScopeStep
<1> QED BY <1>5, <1>6

LEMMA NextScope == StackInv /\ ScopeInv /\ [Next]_vars => ScopeStep
<1> SUFFICES ASSUME StackInv, ScopeInv, [Next]_vars PROVE ScopeStep
  OBVIOUS
<1>0. StackInv'
  BY NextStackInv
<1>1. ASSUME NEW params \in SUBSET Names, NEW void \in BOOLEAN, DefineFunction(params, void)
      PROVE  ScopeStep
  BY <1>0, <1>1, DefineFunctionScope
<1>2. CASE EndFunction \/ EndMain
  BY <1>0, <1>2, EndFunctionScope
<1>3. CASE EndFile
  <2>1. frames' = <<>> /\ status = "running" /\ status' = "done"
    BY <1>3 DEF EndFile, InsideFunction, Running
  <2>2. ScopeInv' /\ Levels' = <<>>
    BY <2>1, NoScope
  <2>3. Scopes!Next
    BY <2>1, <2>2, RunningVerdict, AbstractFail
  <2> QED BY <2>2, <2>3 DEF ScopeStep
<1>4. CASE InsideFunction /\ Statement
  BY <1>0, <1>4, StatementScope
<1>5. CASE InsideFunction /\ Control
  BY <1>0, <1>5, ControlScope
<1>6. CASE Reject
  BY <1>6, RejectScope DEF Reject, Running
<1>7. CASE UNCHANGED vars
  <2>1. SameCode /\ status' = status /\ stack' = stack
    BY <1>7 DEF vars, SameCode, SameEntry, SameFrame
  <2> QED BY <1>0, <2>1, RunningVerdict, SameScopes DEF ScopeStep
<1> QED BY <1>1, <1>2, <1>3, <1>4, <1>5, <1>6, <1>7 DEF Next

LEMMA InitScope == Init => ScopeInv /\ Scopes!Init
<1> SUFFICES ASSUME Init PROVE ScopeInv /\ Scopes!Init
  OBVIOUS
<1>0. StackInv /\ Verdict = "ok"
  BY InitStackInv DEF Init, Verdict
<1>1. CASE InitCompiler
  <2>1. frames = <<>> /\ Len(frames) = 0
    BY <1>1, EmptySeq DEF InitCompiler
  <2>2. Levels = <<>>
    BY <2>1 DEF Levels
  <2>3. Scopes!Init
    BY <1>0, <2>2 DEF Scopes!Init, Levels, Level, Verdict
  <2> QED BY <2>1, <2>3 DEF ScopeInv
<1>2. CASE InitInterpreter
  <2>1. PICK g : g = Level(1)
    OBVIOUS
  <2>2. Len(frames) = 1 /\ frames[1].kind = "main"
    BY <1>2 DEF InitInterpreter
  <2>3. IsFunction(1)
    BY <2>2 DEF IsFunction
  <2>4. g = [own |-> Visible(1), opaque |-> IsFunction(1)]
    BY <2>1, <2>3 DEF Level
  <2>5. IsFunction(1) = TRUE
    BY <2>3 DEF IsFunction
  <2>6. g = [own |-> Visible(1), opaque |-> TRUE] /\ Visible(1) \in SUBSET Names
    BY <2>4, <2>5 DEF Visible
  <2>7. PICK s : s = Levels
    OBVIOUS
  <2>8. s \in Seq(LevelSet) /\ Len(s) = 1 /\ s[1] = g
    <3>1. 1 \in 1..Len(frames)
      BY <2>2
    <3> QED BY <3>1, <2>1, <2>2, <2>7, <1>0, LevelTypes
  <2>9. s = <<g>>
    <3>1. g \in LevelSet
      BY <2>8, ElementOfSeq
    <3>2. <<g>> \in Seq(LevelSet) /\ Len(<<g>>) = 1 /\ <<g>>[1] = g
      BY <3>1
    <3>3. \A i \in 1..1 : i = 1
      OBVIOUS
    <3> QED BY <2>8, <3>2, <3>3, SeqEqual
  <2>10. Scopes!Init
    <3>1. Levels = <<[own |-> Visible(1), opaque |-> TRUE]>>
      BY <2>6, <2>7, <2>9
    <3>2. \E top \in SUBSET Names : Levels = <<[own |-> top, opaque |-> TRUE]>>
      BY <2>6, <3>1
    <3> QED BY <1>0, <3>2 DEF Scopes!Init, Levels, Level, Verdict
  <2>11. ASSUME NEW x \in Names PROVE Scopes!Visible(s, 1, x) <=> x \in Visible(1)
    <3>1. \A j \in 1..1 : j = 1
      OBVIOUS
    <3>2. \A i \in (1+1)..1 : FALSE
      OBVIOUS
    <3>3. s[1].own = Visible(1)
      BY <2>6, <2>8
    <3> QED BY <3>1, <3>2, <3>3 DEF Scopes!Visible
  <2>12. ScopeInv
    <3>1. Nested(1) /\ Seen(1)
      BY <2>3, <2>7, <2>11 DEF Nested, Seen
    <3>2. \A k \in 1..1 : k = 1
      OBVIOUS
    <3> QED BY <3>1, <3>2, <2>2 DEF ScopeInv
  <2> QED BY <2>10, <2>12
<1> QED BY <1>1, <1>2 DEF Init

(* For every program the generator accepts a name, refuses it as unknown   *)
(* or refuses it as declared twice exactly when the braces of the source   *)
(* say so, though it copies maps of locals and never searches a scope.     *)
THEOREM NamesAreLexical == Spec => ImplementsLexicalScope
<1>1. Init => StackInv /\ ScopeInv /\ Scopes!Init
  BY InitStackInv, InitScope
<1>2. StackInv /\ ScopeInv /\ [Next]_vars => StackInv' /\ ScopeInv' /\ [Scopes!Next]_(Scopes!vars)
  BY NextStackInv, NextScope DEF ScopeStep
<1> QED BY <1>1, <1>2, PTL DEF Spec, ImplementsLexicalScope, Scopes!Spec

-----------------------------------------------------------------------------
(* Control flow: where a value may come from, and what a loop consists of. *)

Done(b)   == Len(bbs[b].terms) = 1
Known(b)  == bbs[b].terms[1].locals
IsTest(b) == bbs[b].name = "whiletest"

(* The names l resolved in block s are those known in b, which branches to *)
(* s, or are declared in s itself.                                         *)
Inherits(s, b, l) == \A x \in Names : l[x] \in {0, s, Known(b)[x]}
OnlyOwn(s, l)     == \A x \in Names : l[x] \in {0, s}
Extends(l, m)     == \A x \in Names : l[x] # 0 => m[x] = l[x]

(* what the code around the visit k could name when the visit began        *)
Around(k)   == stack[frames[k].base - 1].locals
IsNested(k) == frames[k].kind \in {"if", "else", "while"}

EdgesInherit == \A b \in 1..Len(bbs) : \A s \in Succ(b) : Done(s) => Inherits(s, b, Known(s))
StackInherits ==
  \A i \in 1..Len(stack) : \A b \in 1..Len(bbs) :
    stack[i].block \in Succ(b) => Inherits(stack[i].block, b, stack[i].locals)
ReservedInherit ==
  \A k \in 1..Len(frames) : \A r \in Reserved(k) : \A b \in 1..Len(bbs) :
    r \in Succ(b) => Inherits(r, b, Around(k))
EntriesInherit ==
  /\ \A b \in 1..Len(bbs) : bbs[b].name = "entry" => bbs[b].fn = b
  /\ \A b \in 1..Len(bbs) : bbs[b].name = "entry" /\ Done(b) => OnlyOwn(b, Known(b))
  /\ \A i \in 1..Len(stack) :
       bbs[stack[i].block].name = "entry" => OnlyOwn(stack[i].block, stack[i].locals)
ScopesGrow ==
  \A k \in 1..Len(frames) : IsNested(k) =>
    \A i \in frames[k].base..EndOfFrame(k) : Extends(Around(k), stack[i].locals)

(* A test of a while in progress: it knows what the code around the while  *)
(* does, and nothing older than it branches past it.                       *)
TestOf(k) ==
  LET t == frames[k].other IN
  /\ Done(t) /\ IsTest(t) /\ Known(t) = Around(k) /\ frames[k].block = t + 1
  /\ \A i \in 1..(frames[k].base - 1) : stack[i].block < t
OpenTests == \A k \in 1..Len(frames) : frames[k].kind = "while" => TestOf(k)

DataFlowInv ==
  /\ EdgesInherit /\ StackInherits /\ ReservedInherit /\ EntriesInherit
  /\ ScopesGrow /\ OpenTests

NoWayPast(t) == \A b \in 1..(t - 1) : Succ(b) \subseteq 1..t
TestsCannotBePassed ==
  \A k \in 1..Len(frames) : frames[k].kind = "while" => NoWayPast(frames[k].other)
ReservedAreNoTests == \A k \in 1..Len(frames) : \A r \in Reserved(k) : ~IsTest(r)
CyclesHaveTests ==
  \A cycle \in SUBSET {b \in 1..Len(bbs) : Done(b) /\ ~IsTest(b)} :
    cycle # {} => \E b \in cycle : Succ(b) \cap cycle = {}

(* A set that can only be left through t and that has all the blocks the   *)
(* visits in progress are in charge of.                                    *)
Outside(t, R) ==
  /\ R \subseteq 1..Len(bbs) /\ bbs[t].fn \in R
  /\ \A c \in R \ {t} : Succ(c) \subseteq R
  /\ \A i \in 1..Len(stack) : stack[i].block \in R
  /\ \A k \in 1..Len(frames) : Reserved(k) \subseteq R
  /\ \A k \in 1..Len(frames) : frames[k].kind = "while" => frames[k].other \in R
LoopsAreClosed ==
  \A t, b \in 1..Len(bbs) : IsTest(t) /\ t \in Succ(b) /\ t < b =>
    \E R \in SUBSET (1..Len(bbs)) : b \notin R /\ Outside(t, R)

LoopInv ==
  /\ TestsCannotBePassed /\ ReservedAreNoTests /\ CyclesHaveTests /\ LoopsAreClosed


-----------------------------------------------------------------------------
(* Successors                                                              *)

LEMMA PendingIsOpen ==
  ASSUME StackInv, NEW b, Pending(b) PROVE bbs[b].terms = <<>>
<1>1. PICK k \in 1..Len(frames) : PendingAt(k, b)
  BY DEF Pending
<1>2. CASE b \in Reserved(k)
  BY <1>2 DEF StackInv, ReservedBlocks
<1>3. CASE Open(k) /\ b = stack[EndOfFrame(k)].block
  <2>1. /\ EndOfFrame(k) \in Nat /\ frames[k].base \in Nat /\ frames[k].base <= EndOfFrame(k)
        /\ Len(frames) \in Nat
    BY FrameEnds, FrameBases, Lengths
  <2>2. EndOfFrame(k) \in frames[k].base..EndOfFrame(k)
    BY <2>1
  <2>3. k = Len(frames) \/ (k < Len(frames) /\ frames[k+1].kind = "function")
    BY <1>3, <2>1 DEF Open
  <2> QED BY <1>3, <2>2, <2>3 DEF StackInv, InsertionPointIsOpen
<1> QED BY <1>1, <1>2, <1>3 DEF PendingAt

LEMMA Successors ==
  ASSUME StackInv, BodyInv, NEW b \in 1..Len(bbs)
  PROVE  /\ \/ Done(b) /\ bbs[b].terms # <<>> /\ Succ(b) = bbs[b].terms[1].succ
            \/ ~Done(b) /\ bbs[b].terms = <<>> /\ Succ(b) = {}
         /\ Succ(b) \subseteq 1..Len(bbs)
<1>1. Done(b) \/ bbs[b].terms = <<>>
  BY PendingIsOpen DEF BodyInv, Accounted, Done
<1>2. bbs[b].terms = <<>> => Len(bbs[b].terms) = 0
  BY EmptySeq
<1>3. Done(b) => Succ(b) = bbs[b].terms[1].succ
  BY DEF Done, Succ
<1>4. bbs[b].terms = <<>> => Succ(b) = {}
  BY <1>2 DEF Succ
<1>5. Succ(b) \subseteq 1..Len(bbs)
  <2>1. \A s \in Succ(b) : \E i \in 1..Len(bbs[b].terms) : s \in bbs[b].terms[i].succ
    BY DEF Succ
  <2> QED BY <2>1 DEF BodyInv, BranchesInside, Joinable
<1>6. bbs[b].terms = <<>> => ~Done(b)
  BY <1>2 DEF Done
<1> QED BY <1>1, <1>3, <1>4, <1>5, <1>6

(* The step that terminates the current block changes no other one. *)
LEMMA TerminatedSuccessors ==
  ASSUME StackInv, StackInv', BodyInv, BodyInv', frames # <<>>, NEW t, StepEnds(t),
         NEW c, c = Current
  PROVE  /\ c \in 1..Len(bbs) /\ ~Done(c) /\ Succ(c) = {}
         /\ Done(c)' /\ Succ(c)' = t.succ /\ Known(c)' = t.locals
         /\ \A b \in 1..Len(bbs) :
              /\ b \in 1..Len(bbs') /\ IsTest(b)' = IsTest(b) /\ bbs'[b].fn = bbs[b].fn
              /\ bbs'[b].name = bbs[b].name
              /\ b # c => /\ Done(b)' = Done(b) /\ Succ(b)' = Succ(b)
                                /\ Known(b)' = Known(b) /\ bbs'[b].terms = bbs[b].terms
<1>2. c \in 1..Len(bbs) /\ bbs[c].terms = <<>>
  BY Inside
<1>3. Len(bbs) \in Nat /\ Len(bbs') \in Nat /\ Len(bbs) <= Len(bbs')
  BY Lengths, LengthsAfter DEF StepEnds, GoesOn
<1>4. ~Done(c) /\ Succ(c) = {}
  BY <1>2, Successors
<1>5. Len(bbs'[c].terms) = 1 /\ bbs'[c].terms[1] = t
  BY DEF StepEnds
<1>6. Done(c)' /\ Known(c)' = t.locals /\ Succ(c)' = t.succ
  BY <1>5 DEF Done, Known, Succ
<1>7. ASSUME NEW b \in 1..Len(bbs)
      PROVE  /\ b \in 1..Len(bbs') /\ IsTest(b)' = IsTest(b) /\ bbs'[b].fn = bbs[b].fn
             /\ bbs'[b].name = bbs[b].name
             /\ b # c => /\ Done(b)' = Done(b) /\ Succ(b)' = Succ(b)
                         /\ Known(b)' = Known(b) /\ bbs'[b].terms = bbs[b].terms
  <2>1. b \in 1..Len(bbs') /\ bbs'[b].name = bbs[b].name /\ bbs'[b].fn = bbs[b].fn
    BY <1>3 DEF StepEnds, GoesOn
  <2>2. b # c => bbs'[b].terms = bbs[b].terms
    BY DEF StepEnds
  <2>3. IsTest(b)' = IsTest(b)
    BY <2>1 DEF IsTest
  <2>4. b # c => Done(b)' = Done(b) /\ Succ(b)' = Succ(b) /\ Known(b)' = Known(b)
    BY <2>2 DEF Done, Succ, Known
  <2> QED BY <2>1, <2>2, <2>3, <2>4
<1> QED BY <1>2, <1>4, <1>6, <1>7


(* A block that has no terminator goes nowhere. *)
LEMMA OpenBlockAfter ==
  ASSUME NEW b, bbs'[b].terms = <<>> PROVE Succ(b)' = {} /\ ~Done(b)'
<1>1. Len(bbs'[b].terms) = 0
  BY EmptySeq
<1> QED BY <1>1 DEF Succ, Done

-----------------------------------------------------------------------------
(* What a visit that begins or ends does to the code: the current block is *)
(* terminated; the blocks it branches to are new, were set aside by the    *)
(* visit that ends, or are the test of the while that ends.                *)

Fresh == (Len(bbs) + 1)..Len(bbs')
Given(p, b) == b \in Fresh \/ (p = Len(frames) - 1 /\ b \in Reserved(Len(frames)))
NewTest(b) ==
  /\ Done(b)' /\ IsTest(b)' /\ Known(b)' = Top.locals
  /\ \A s \in Succ(b)' : s \in Fresh /\ ~IsTest(s)' /\ bbs'[s].terms = <<>>
NewTarget(b) == bbs'[b].terms = <<>> /\ ~IsTest(b)'

PushesGiven(p, h) ==
  /\ h > 0 /\ Len(stack') = h + 1
  /\ stack'[h+1].locals = stack[h].locals /\ Given(p, stack'[h+1].block)
BeginsVisit(p, h) ==
  /\ Len(frames') = p + 1 /\ h > 0
  /\ frames'[p+1].base = h + 1 /\ IsNested(p+1)'
  /\ \A r \in Reserved(p+1)' : Given(p, r)
  /\ frames'[p+1].kind = "while" =>
       /\ p = Len(frames) /\ NewTest(Len(bbs) + 1)
       /\ frames'[p+1].other = Len(bbs) + 1 /\ frames'[p+1].block = Len(bbs) + 2

Generates(p, h, t) ==
  /\ Keeps(p, h) /\ SameShape(p, h) /\ StepEnds(t)
  /\ \A i \in 1..h : stack'[i] = stack[i]
  /\ p = Len(frames) \/ Len(bbs') = Len(bbs)
  /\ t.locals = Top.locals
  /\ \A s \in t.succ :
       Given(p, s) \/ (p = Len(frames) - 1 /\ Innermost.kind = "while" /\ s = Innermost.other)
  /\ \A b \in Fresh : bbs'[b].name # "entry" /\ (NewTest(b) \/ NewTarget(b))
  /\ Len(stack') = h \/ PushesGiven(p, h)
  /\ \/ Len(frames') = p
     \/ /\ BeginsVisit(p, h) /\ Len(stack') = h + 1
        /\ frames'[p+1].kind = "while" => t.succ = {Len(bbs) + 1}

(* What the visits that go on keep *)
LEMMA KeptVisit ==
  ASSUME StackInv, StackInv', NEW p, NEW h, Keeps(p, h), SameShape(p, h),
         NEW k \in 1..p
  PROVE  /\ k \in 1..Len(frames) /\ k \in 1..Len(frames') /\ SameFrame(frames'[k], frames[k])
         /\ Reserved(k)' = Reserved(k) /\ IsNested(k)' = IsNested(k)
         /\ frames[k].base \in Nat /\ EndOfFrame(k) \in Nat
         /\ frames[k].base <= EndOfFrame(k) /\ EndOfFrame(k) <= h /\ h \in Nat
         /\ IsNested(k) => frames[k].base - 1 \in 1..h
<1>1. /\ k \in 1..Len(frames) /\ k \in 1..Len(frames') /\ SameFrame(frames'[k], frames[k])
      /\ Reserved(k)' = Reserved(k)
  BY KeptReserved
<1>2. IsNested(k)' = IsNested(k)
  BY <1>1 DEF IsNested, SameFrame
<1>3. /\ frames[k].base \in Nat /\ EndOfFrame(k) \in Nat /\ h \in Nat
      /\ frames[k].base <= EndOfFrame(k) /\ EndOfFrame(k) <= h
  BY KeptPart
<1>4. ASSUME IsNested(k) PROVE frames[k].base > 1
  <2>1. k > 1
    BY <1>1, <1>4 DEF StackInv, ReservedBlocks, IsNested
  <2>2. 1 \in 1..Len(frames) /\ 1 < k
    BY <1>1, <2>1, Lengths
  <2>3. frames[1].base < frames[k].base
    BY <1>1, <2>2 DEF StackInv, BlocksInOrder
  <2>4. frames[1].base \in 1..Len(stack)
    BY <2>2, FrameBases
  <2> QED BY <2>3, <2>4, <1>3, Lengths
<1>5. IsNested(k) => frames[k].base - 1 \in 1..h
  BY <1>3, <1>4
<1> QED BY <1>1, <1>2, <1>3, <1>5

(* The entries below the blocks of a visit that goes on are not touched. *)
LEMMA KeptAround ==
  ASSUME StackInv, StackInv', NEW p, NEW h, Keeps(p, h), SameShape(p, h),
         \A i \in 1..h : i # Len(stack) => stack'[i].locals = stack[i].locals,
         NEW k \in 1..p, IsNested(k)
  PROVE  Around(k)' = Around(k)
<1>1. /\ SameFrame(frames'[k], frames[k]) /\ k \in 1..Len(frames)
      /\ frames[k].base - 1 \in 1..h /\ frames[k].base \in Nat
      /\ frames[k].base <= EndOfFrame(k) /\ EndOfFrame(k) <= h /\ h \in Nat /\ EndOfFrame(k) \in Nat
  BY KeptVisit
<1>2. h <= Len(stack)
  BY KeptPart
<1>3. frames[k].base - 1 # Len(stack)
  BY <1>1, <1>2, Lengths
<1>4. frames'[k].base = frames[k].base
  BY <1>1 DEF SameFrame
<1> QED BY <1>1, <1>3, <1>4 DEF Around

(* The innermost visit, when it ends *)
LEMMA InnermostVisit ==
  ASSUME StackInv, frames # <<>>, NEW n, n = Len(frames)
  PROVE  /\ n \in 1..Len(frames) /\ n \in Nat /\ Innermost = frames[n]
         /\ EndOfFrame(n) = Len(stack) /\ Len(stack) \in frames[n].base..EndOfFrame(n)
         /\ Len(stack) \in 1..Len(stack) /\ Top = stack[Len(stack)]
         /\ Current = stack[Len(stack)].block
         /\ frames[n].base \in 1..Len(stack)
<1>1. /\ n \in 1..Len(frames) /\ Innermost = frames[n] /\ Innermost.base \in 1..Len(stack)
      /\ Len(stack) \in 1..Len(stack) /\ Top = stack[Len(stack)]
  BY Inside
<1>2. EndOfFrame(n) = Len(stack)
  BY <1>1, Lengths DEF EndOfFrame
<1>3. Len(stack) \in frames[n].base..EndOfFrame(n)
  BY <1>1, <1>2, Lengths
<1>4. n \in Nat
  BY Lengths
<1> QED BY <1>1, <1>2, <1>3, <1>4, CurrentIsYoungest


(* Where the blocks a step branches to stand: apart from those it creates, *)
(* they are above all that is left.                                        *)
LEMMA TargetsAreAbove ==
  ASSUME StackInv, StackInv', BodyInv, BodyInv', DataFlowInv, frames # <<>>,
         NEW p, NEW h, NEW t, Generates(p, h, t),
         NEW s \in t.succ, s \notin Fresh
  PROVE  /\ p = Len(frames) - 1 /\ s \in 1..Len(bbs) /\ s # Current
         /\ \/ s \in Reserved(Len(frames)) /\ bbs[s].terms = <<>>
            \/ Innermost.kind = "while" /\ s = Innermost.other /\ TestOf(Len(frames))
         /\ \A i \in 1..h : stack[i].block # s
         /\ \A k \in 1..p : s \notin Reserved(k)
<1>1. PICK n : n = Len(frames)
  OBVIOUS
<1>2. /\ n \in 1..Len(frames) /\ n \in Nat /\ Innermost = frames[n] /\ n = Len(frames)
  BY <1>1, InnermostVisit
<1>3. /\ p = n - 1
      /\ s \in Reserved(n) \/ (Innermost.kind = "while" /\ s = Innermost.other)
  BY <1>1 DEF Generates, Given
<1>4. h = Innermost.base - 1
  <2>1. p # Len(frames)
    BY <1>2, <1>3
  <2> QED BY <2>1, <1>2 DEF Generates, Keeps
<1>5. /\ \A i \in 1..h : stack[i].block \in Nat /\ stack[i].block < Innermost.block
      /\ \A k \in 1..p : \A r \in Reserved(k) : r \in Nat /\ r < Innermost.block
  BY <1>1, <1>3, <1>4, KeptIsOlder
<1>6. Innermost.block \in Nat /\ Len(bbs) \in Nat
  BY CurrentOwner, Lengths
<1>7. CASE s \in Reserved(n)
  <2>1. s \in (Innermost.block + 1)..Len(bbs) /\ bbs[s].terms = <<>>
    BY <1>2, <1>7 DEF StackInv, ReservedBlocks
  <2>2. s # Current
    BY <1>2, <1>7, CurrentIsYoungest
  <2>3. s \in 1..Len(bbs) /\ s > Innermost.block
    BY <2>1, <1>6
  <2>4. \A i \in 1..h : stack[i].block # s
    BY <2>3, <1>5, <1>6
  <2>5. \A k \in 1..p : s \notin Reserved(k)
    <3>1. \A k \in 1..p : \A r \in Reserved(k) : r # s
      BY <2>3, <1>5, <1>6
    <3> QED BY <3>1
  <2> QED BY <1>1, <1>3, <1>7, <2>1, <2>2, <2>3, <2>4, <2>5
<1>8. CASE Innermost.kind = "while" /\ s = Innermost.other
  <2>1. TestOf(n) /\ s = frames[n].other
    BY <1>2, <1>8 DEF DataFlowInv, OpenTests
  <2>2. s \in 1..Len(bbs) /\ Done(s)
    BY <1>2, <1>8, <2>1 DEF BodyInv, WhileTests, Joinable, TestOf
  <2>3. s # Current
    <3>1. Current \in 1..Len(bbs) /\ bbs[Current].terms = <<>>
      BY Inside
    <3>2. ~Done(Current)
      BY <3>1, Successors
    <3> QED BY <2>2, <3>2
  <2>4. \A i \in 1..h : stack[i].block # s
    <3>1. \A i \in 1..h : stack[i].block < s
      BY <2>1, <1>2, <1>4 DEF TestOf
    <3> QED BY <3>1, <1>5, <2>2, <1>6
  <2>5. \A k \in 1..p : s \notin Reserved(k)
    <3>1. \A k \in 1..p : \A r \in Reserved(k) : bbs[r].terms = <<>>
      BY <1>2, <1>3 DEF StackInv, ReservedBlocks
    <3>2. bbs[s].terms # <<>>
      BY <2>2, Successors
    <3> QED BY <3>1, <3>2
  <2> QED BY <1>1, <1>2, <1>3, <1>8, <2>1, <2>2, <2>3, <2>4, <2>5
<1> QED BY <1>3, <1>7, <1>8

(* What a new block branches to, if anything, is new and open. *)
LEMMA FreshSuccessors ==
  ASSUME StackInv, NEW p, NEW h, NEW t, Generates(p, h, t), NEW b \in Fresh
  PROVE  /\ bbs'[b].name # "entry"
         /\ \A s \in Succ(b)' :
              /\ NewTest(b) /\ s \in Fresh /\ bbs'[s].terms = <<>> /\ ~Done(s)' /\ ~IsTest(s)'
              /\ s \notin 1..Len(bbs)
         /\ Done(b)' => NewTest(b)
<1>1. bbs'[b].name # "entry" /\ (NewTest(b) \/ NewTarget(b))
  BY DEF Generates
<1>2. NewTarget(b) => Succ(b)' = {} /\ ~Done(b)'
  BY OpenBlockAfter DEF NewTarget
<1>3. ASSUME NewTest(b), NEW s \in Succ(b)'
      PROVE  s \in Fresh /\ bbs'[s].terms = <<>> /\ ~Done(s)' /\ ~IsTest(s)'
  BY <1>3, OpenBlockAfter DEF NewTest
<1>4. \A s \in Fresh : s \notin 1..Len(bbs)
  BY Lengths DEF Fresh
<1> QED BY <1>1, <1>2, <1>3, <1>4

LEMMA FreshOrOld ==
  ASSUME StackInv, StackInv', NEW b \in 1..Len(bbs')
  PROVE  b \in 1..Len(bbs) \/ b \in Fresh
BY Lengths, LengthsAfter DEF Fresh

(* The locals that are left on top are known in every block that branches  *)
(* to a new block or to one that was set aside.                            *)
LEMMA GivenInherit ==
  ASSUME StackInv, StackInv', BodyInv, BodyInv', DataFlowInv, frames # <<>>,
         NEW p, NEW h, NEW t, Generates(p, h, t), h > 0,
         NEW e, Given(p, e), NEW b \in 1..Len(bbs'), e \in Succ(b)',
         NEW l, l = stack[h].locals
  PROVE  Inherits(e, b, l)'
<1>1. PICK c : c = Current
  OBVIOUS
<1>2. PICK n : n = Len(frames)
  OBVIOUS
<1>3. /\ n \in 1..Len(frames) /\ n \in Nat /\ Innermost = frames[n]
      /\ Len(stack) \in frames[n].base..EndOfFrame(n) /\ Top = stack[Len(stack)]
  BY <1>2, InnermostVisit
<1>4. /\ c \in 1..Len(bbs) /\ Known(c)' = Top.locals
      /\ \A a \in 1..Len(bbs) : a # c => Succ(a)' = Succ(a) /\ Known(a)' = Known(a)
  BY <1>1, TerminatedSuccessors DEF Generates
<1>5. CASE e \in Fresh
  <2>1. p = Len(frames) /\ h = Len(stack)
    <3>1. Len(bbs') # Len(bbs)
      BY <1>5, Lengths DEF Fresh
    <3>2. p = Len(frames) /\ n = Len(frames)
      BY <3>1, <1>2 DEF Generates
    <3> QED BY <3>2, <1>3 DEF Generates, Keeps
  <2>2. l = Top.locals
    BY <2>1, <1>3
  <2>3. CASE b \in 1..Len(bbs)
    <3>1. e \notin 1..Len(bbs)
      BY <1>5, Lengths DEF Fresh
    <3>2. b = c
      BY <3>1, <2>3, <1>4, Successors
    <3>3. Known(b)' = l
      BY <3>2, <1>4, <2>2
    <3> QED BY <3>3 DEF Inherits
  <2>4. CASE b \in Fresh
    <3>1. NewTest(b)
      BY <2>4, FreshSuccessors
    <3>2. Known(b)' = l
      BY <3>1, <2>2 DEF NewTest
    <3> QED BY <3>2 DEF Inherits
  <2> QED BY <2>3, <2>4, FreshOrOld
<1>6. CASE e \notin Fresh
  <2>1. p = n - 1 /\ e \in Reserved(n) /\ p # Len(frames)
    BY <1>2, <1>3, <1>6 DEF Given
  <2>2. Len(bbs') = Len(bbs) /\ h = frames[n].base - 1
    BY <2>1, <1>2, <1>3 DEF Generates, Keeps
  <2>3. Around(n) = l
    BY <2>2 DEF Around
  <2>4. b \in 1..Len(bbs)
    BY <2>2
  <2>5. CASE b # c
    <3>1. e \in Succ(b) /\ Known(b)' = Known(b)
      BY <2>4, <2>5, <1>4
    <3>2. Inherits(e, b, l)
      BY <3>1, <2>1, <2>3, <2>4, <1>3 DEF DataFlowInv, ReservedInherit
    <3> QED BY <3>1, <3>2 DEF Inherits
  <2>6. CASE b = c
    <3>1. IsNested(n)
      BY <2>1 DEF Reserved, IsNested
    <3>2. Extends(l, stack[Len(stack)].locals)
      BY <3>1, <2>3, <1>3 DEF DataFlowInv, ScopesGrow
    <3>3. \A x \in Names : l[x] # 0 => Known(b)'[x] = l[x]
      BY <3>2, <2>6, <1>3, <1>4 DEF Extends
    <3> QED BY <3>3 DEF Inherits
  <2> QED BY <2>5, <2>6
<1> QED BY <1>5, <1>6


LEMMA EdgesAfter ==
  ASSUME StackInv, StackInv', BodyInv, BodyInv', DataFlowInv, frames # <<>>,
         NEW p, NEW h, NEW t, Generates(p, h, t)
  PROVE  EdgesInherit'
<1> SUFFICES ASSUME NEW b \in 1..Len(bbs'), NEW s \in Succ(b)', Done(s)', NEW l, l = Known(s)'
             PROVE  Inherits(s, b, l)'
  BY DEF EdgesInherit, Inherits
<1>1. PICK c : c = Current
  OBVIOUS
<1>2. PICK n : n = Len(frames)
  OBVIOUS
<1>3. /\ n \in 1..Len(frames) /\ n \in Nat /\ Innermost = frames[n] /\ Top = stack[Len(stack)]
      /\ Len(stack) \in frames[n].base..EndOfFrame(n) /\ Len(stack) \in 1..Len(stack)
      /\ c = stack[Len(stack)].block
  BY <1>1, <1>2, InnermostVisit
<1>4. /\ c \in 1..Len(bbs) /\ Known(c)' = Top.locals /\ Succ(c)' = t.succ
      /\ \A a \in 1..Len(bbs) : a # c => /\ Succ(a)' = Succ(a) /\ Known(a)' = Known(a)
                                         /\ Done(a)' = Done(a) /\ bbs'[a].terms = bbs[a].terms
  BY <1>1, TerminatedSuccessors DEF Generates
<1>5. b \notin Fresh
  BY FreshSuccessors
<1>6. b \in 1..Len(bbs)
  BY <1>5, FreshOrOld
<1>7. CASE b = c
  <2>1. CASE s \in Fresh
    <3>1. NewTest(s)
      BY <2>1, FreshSuccessors
    <3>2. l = Known(b)'
      BY <3>1, <1>4, <1>7 DEF NewTest
    <3> QED BY <3>2 DEF Inherits
  <2>2. CASE s \notin Fresh
    <3>1. /\ s \in 1..Len(bbs) /\ s # c
          /\ \/ bbs[s].terms = <<>>
             \/ Innermost.kind = "while" /\ s = Innermost.other /\ TestOf(n)
      BY <2>2, <1>1, <1>2, <1>4, <1>7, TargetsAreAbove
    <3>2. Done(s) /\ Known(s)' = Known(s)
      BY <3>1, <1>4
    <3>3. TestOf(n) /\ Innermost.kind = "while" /\ s = frames[n].other
      BY <3>1, <3>2, <1>3, Successors
    <3>4. Known(s) = Around(n) /\ IsNested(n)
      BY <3>3, <1>3 DEF TestOf, IsNested
    <3>5. Extends(Around(n), stack[Len(stack)].locals)
      BY <3>4, <1>3 DEF DataFlowInv, ScopesGrow
    <3>6. \A x \in Names : l[x] # 0 => Known(b)'[x] = l[x]
      BY <3>2, <3>4, <3>5, <1>3, <1>4, <1>7 DEF Extends
    <3> QED BY <3>6 DEF Inherits
  <2> QED BY <2>1, <2>2
<1>8. CASE b # c
  <2>1. s \in Succ(b) /\ Known(b)' = Known(b) /\ s \in 1..Len(bbs)
    BY <1>4, <1>6, <1>8, Successors
  <2>2. CASE s = c
    <3>1. Inherits(s, b, stack[Len(stack)].locals)
      BY <2>1, <2>2, <1>3, <1>6 DEF DataFlowInv, StackInherits
    <3>2. l = stack[Len(stack)].locals
      BY <2>2, <1>3, <1>4
    <3> QED BY <2>1, <3>1, <3>2 DEF Inherits
  <2>3. CASE s # c
    <3>1. Done(s) /\ Known(s)' = Known(s)
      BY <2>1, <2>3, <1>4
    <3>2. Inherits(s, b, Known(s))
      BY <3>1, <2>1, <1>6 DEF DataFlowInv, EdgesInherit
    <3> QED BY <2>1, <3>1, <3>2 DEF Inherits
  <2> QED BY <2>2, <2>3
<1> QED BY <1>7, <1>8

LEMMA StackAfter ==
  ASSUME StackInv, StackInv', BodyInv, BodyInv', DataFlowInv, frames # <<>>,
         NEW p, NEW h, NEW t, Generates(p, h, t)
  PROVE  StackInherits'
<1> SUFFICES ASSUME NEW i \in 1..Len(stack'), NEW b \in 1..Len(bbs'),
                    NEW e, e = stack'[i].block, NEW l, l = stack'[i].locals, e \in Succ(b)'
             PROVE  Inherits(e, b, l)'
  BY DEF StackInherits, Inherits
<1>1. PICK c : c = Current
  OBVIOUS
<1>2. e = stack'[i].block /\ e \in Succ(b)'
  OBVIOUS
<1>3. l = stack'[i].locals
  OBVIOUS
<1>5. /\ c \in 1..Len(bbs) /\ Succ(c)' = t.succ
      /\ \A a \in 1..Len(bbs) : a # c => Succ(a)' = Succ(a) /\ Known(a)' = Known(a)
  BY <1>1, TerminatedSuccessors DEF Generates
<1>6. h \in Nat /\ \A j \in 1..h : j \in 1..Len(stack) /\ stack[j].block \in 1..Len(bbs)
  BY KeptPart DEF Generates
<1>7. CASE i \in 1..h
  <2>1. stack'[i] = stack[i] /\ i \in 1..Len(stack) /\ e \in 1..Len(bbs)
    BY <1>2, <1>6, <1>7 DEF Generates
  <2>2. b \notin Fresh
    BY <2>1, <1>2, FreshSuccessors
  <2>3. b \in 1..Len(bbs)
    BY <2>2, FreshOrOld
  <2>4. b # c
    <3>1. ASSUME e \in t.succ PROVE FALSE
      <4>1. e \notin Fresh
        BY <2>1, Lengths DEF Fresh
      <4> QED BY <3>1, <4>1, <2>1, <1>2, <1>7, TargetsAreAbove
    <3> QED BY <3>1, <1>2, <1>5
  <2>5. e \in Succ(b) /\ Known(b)' = Known(b)
    BY <2>3, <2>4, <1>2, <1>5
  <2>6. Inherits(e, b, l)
    BY <2>1, <2>3, <2>5, <1>2, <1>3 DEF DataFlowInv, StackInherits
  <2> QED BY <2>5, <2>6 DEF Inherits
<1>8. CASE i \notin 1..h
  <2>1. Len(stack') = h + 1 /\ PushesGiven(p, h) /\ i = h + 1
    <3>1. Len(stack') # h /\ i > h
      BY <1>6, <1>8
    <3>2. PushesGiven(p, h)
      BY <3>1 DEF Generates
    <3> QED BY <3>1, <3>2, <1>6 DEF PushesGiven
  <2>2. h > 0 /\ Given(p, e) /\ l = stack[h].locals
    BY <2>1, <1>2, <1>3 DEF PushesGiven
  <2> QED BY <2>2, <1>2, GivenInherit
<1> QED BY <1>7, <1>8

LEMMA ReservedAfter ==
  ASSUME StackInv, StackInv', BodyInv, BodyInv', DataFlowInv, frames # <<>>,
         NEW p, NEW h, NEW t, Generates(p, h, t)
  PROVE  ReservedInherit'
<1> SUFFICES ASSUME NEW k \in 1..Len(frames'), NEW r \in Reserved(k)', NEW b \in 1..Len(bbs'),
                    r \in Succ(b)', NEW l, l = Around(k)'
             PROVE  Inherits(r, b, l)'
  BY DEF ReservedInherit, Inherits
<1>1. PICK c : c = Current
  OBVIOUS
<1>2. l = Around(k)'
  OBVIOUS
<1>4. /\ c \in 1..Len(bbs) /\ Succ(c)' = t.succ
      /\ \A a \in 1..Len(bbs) : a # c => Succ(a)' = Succ(a) /\ Known(a)' = Known(a)
  BY <1>1, TerminatedSuccessors DEF Generates
<1>5. p \in Nat /\ h \in Nat /\ Keeps(p, h) /\ SameShape(p, h)
  BY KeptPart DEF Generates
<1>6. CASE k \in 1..p
  <2>1. /\ k \in 1..Len(frames) /\ r \in Reserved(k)
    BY <1>5, <1>6, KeptVisit
  <2>2. IsNested(k)
    BY <2>1 DEF Reserved, IsNested
  <2>3. Around(k)' = Around(k)
    <3>1. \A i \in 1..h : i # Len(stack) => stack'[i].locals = stack[i].locals
      BY DEF Generates
    <3> QED BY <3>1, <2>2, <1>5, <1>6, KeptAround
  <2>4. r \in 1..Len(bbs)
    <3>1. r \in (frames[k].block + 1)..Len(bbs)
      BY <2>1 DEF StackInv, ReservedBlocks
    <3>2. frames[k].block \in Nat
      BY <1>5, <1>6, KeptPart
    <3> QED BY <3>1, <3>2, Lengths
  <2>5. b \notin Fresh
    BY <2>4, FreshSuccessors
  <2>6. b \in 1..Len(bbs)
    BY <2>5, FreshOrOld
  <2>7. b # c
    <3>1. ASSUME r \in t.succ PROVE FALSE
      <4>1. r \notin Fresh
        BY <2>4, Lengths DEF Fresh
      <4> QED BY <3>1, <4>1, <2>1, <1>6, TargetsAreAbove
    <3> QED BY <3>1, <1>4
  <2>8. r \in Succ(b) /\ Known(b)' = Known(b)
    BY <2>6, <2>7, <1>4
  <2>9. Inherits(r, b, l)
    BY <2>1, <2>3, <2>6, <2>8, <1>2 DEF DataFlowInv, ReservedInherit
  <2> QED BY <2>8, <2>9 DEF Inherits
<1>7. CASE k \notin 1..p
  <2>1. k = p + 1 /\ BeginsVisit(p, h)
    <3>1. Len(frames') # p /\ k > p
      BY <1>5, <1>7
    <3>2. BeginsVisit(p, h)
      BY <3>1 DEF Generates
    <3> QED BY <3>1, <3>2, <1>5 DEF BeginsVisit
  <2>2. h > 0 /\ Given(p, r) /\ frames'[k].base - 1 = h
    BY <2>1, <1>5 DEF BeginsVisit
  <2>3. l = stack[h].locals
    <3>1. stack'[h] = stack[h]
      BY <2>2, <1>5 DEF Generates
    <3> QED BY <2>2, <3>1, <1>2 DEF Around
  <2> QED BY <2>2, <2>3, GivenInherit
<1> QED BY <1>6, <1>7

LEMMA EntriesAfter ==
  ASSUME StackInv, StackInv', BodyInv, BodyInv', DataFlowInv, frames # <<>>,
         NEW p, NEW h, NEW t, Generates(p, h, t)
  PROVE  EntriesInherit'
<1>1. PICK c : c = Current
  OBVIOUS
<1>2. /\ c \in 1..Len(bbs) /\ Known(c)' = Top.locals
      /\ \A a \in 1..Len(bbs) : bbs'[a].name = bbs[a].name
      /\ \A a \in 1..Len(bbs) : a # c => Done(a)' = Done(a) /\ Known(a)' = Known(a)
  BY <1>1, TerminatedSuccessors DEF Generates
<1>3. Len(stack) \in 1..Len(stack) /\ Top = stack[Len(stack)] /\ c = stack[Len(stack)].block
  BY <1>1, InnermostVisit
<1>4. ASSUME NEW b \in 1..Len(bbs'), bbs'[b].name = "entry", Done(b)'
      PROVE  OnlyOwn(b, Known(b)')
  <2>1. b \notin Fresh
    BY <1>4, FreshSuccessors
  <2>2. b \in 1..Len(bbs)
    BY <2>1, FreshOrOld
  <2>3. CASE b = c
    BY <2>3, <1>2, <1>3, <1>4 DEF DataFlowInv, EntriesInherit
  <2>4. CASE b # c
    BY <2>2, <2>4, <1>2, <1>4 DEF DataFlowInv, EntriesInherit
  <2> QED BY <2>3, <2>4
<1>5. ASSUME NEW i \in 1..Len(stack'), bbs'[stack'[i].block].name = "entry"
      PROVE  OnlyOwn(stack'[i].block, stack'[i].locals)
  <2>1. h \in Nat /\ \A j \in 1..h : j \in 1..Len(stack) /\ stack[j].block \in 1..Len(bbs)
    BY KeptPart DEF Generates
  <2>2. CASE i \in 1..h
    <3>1. stack'[i] = stack[i] /\ i \in 1..Len(stack) /\ stack[i].block \in 1..Len(bbs)
      BY <2>1, <2>2 DEF Generates
    <3>2. bbs[stack[i].block].name = "entry"
      BY <3>1, <1>2, <1>5
    <3> QED BY <3>1, <3>2 DEF DataFlowInv, EntriesInherit
  <2>3. CASE i \notin 1..h
    <3>1. i = h + 1 /\ PushesGiven(p, h)
      <4>1. Len(stack') # h
        BY <2>1, <2>3
      <4>2. PushesGiven(p, h)
        BY <4>1 DEF Generates
      <4> QED BY <4>2, <2>1, <2>3 DEF PushesGiven
    <3>2. PICK e : e = stack'[i].block
      OBVIOUS
    <3>3. Given(p, e)
      BY <3>1, <3>2 DEF PushesGiven
    <3>4. e \notin Fresh
      BY <3>2, <1>5, FreshSuccessors
    <3>5. e \in Reserved(Len(frames))
      BY <3>3, <3>4 DEF Given
    <3>6. e \in 1..Len(bbs) /\ bbs[e].name # "entry"
      BY <3>5, ReservedJoin
    <3> QED BY <3>2, <3>6, <1>2, <1>5
  <2> QED BY <2>2, <2>3
<1>6. ASSUME NEW b \in 1..Len(bbs'), bbs'[b].name = "entry" PROVE bbs'[b].fn = b
  <2>1. b \notin Fresh
    BY <1>6, FreshSuccessors
  <2>2. b \in 1..Len(bbs)
    BY <2>1, FreshOrOld
  <2>3. bbs'[b].fn = bbs[b].fn
    BY <2>2, <1>1, TerminatedSuccessors DEF Generates
  <2> QED BY <2>2, <2>3, <1>2, <1>6 DEF DataFlowInv, EntriesInherit
<1> QED BY <1>4, <1>5, <1>6 DEF EntriesInherit, OnlyOwn

LEMMA ScopesAfterStep ==
  ASSUME StackInv, StackInv', BodyInv, BodyInv', DataFlowInv, frames # <<>>,
         NEW p, NEW h, NEW t, Generates(p, h, t)
  PROVE  ScopesGrow'
<1> SUFFICES ASSUME NEW k \in 1..Len(frames'), IsNested(k)', NEW i \in frames'[k].base..EndOfFrame(k)'
             PROVE  Extends(Around(k)', stack'[i].locals)
  BY DEF ScopesGrow, Extends
<1>1. p \in Nat /\ h \in Nat /\ Keeps(p, h) /\ SameShape(p, h)
  BY KeptPart DEF Generates
<1>2. \A j \in 1..h : stack'[j] = stack[j]
  BY DEF Generates
<1>3. Len(stack') = h \/ (h > 0 /\ Len(stack') = h + 1 /\ stack'[h+1].locals = stack[h].locals)
  BY DEF Generates, PushesGiven
<1>4. CASE k \in 1..p
  <2>1. /\ k \in 1..Len(frames) /\ k \in 1..Len(frames') /\ IsNested(k)
        /\ frames'[k].base = frames[k].base /\ frames[k].base \in Nat
        /\ EndOfFrame(k) \in Nat /\ frames[k].base <= EndOfFrame(k) /\ EndOfFrame(k) <= h
        /\ frames[k].base - 1 \in 1..h
    BY <1>1, <1>4, KeptVisit DEF SameFrame
  <2>2. Around(k)' = Around(k)
    <3>1. \A j \in 1..h : j # Len(stack) => stack'[j].locals = stack[j].locals
      BY <1>2
    <3> QED BY <3>1, <2>1, <1>1, <1>4, KeptAround
  <2>3. ASSUME NEW j \in frames[k].base..EndOfFrame(k) PROVE Extends(Around(k), stack[j].locals)
    BY <2>1, <2>3 DEF DataFlowInv, ScopesGrow
  <2>4. ASSUME k # p PROVE EndOfFrame(k)' = EndOfFrame(k)
    <3>1. k + 1 \in 1..p /\ k < Len(frames')
      BY <2>1, <2>4, <1>1, <1>4 DEF SameShape
    <3>2. frames'[k+1].base = frames[k+1].base
      BY <3>1, <1>1, KeptVisit DEF SameFrame
    <3>3. EndOfFrame(k) = frames[k+1].base - 1
      BY <2>4, <1>1, <1>4, KeptPart
    <3> QED BY <3>1, <3>2, <3>3 DEF EndOfFrame
  <2>5. k = p => EndOfFrame(k) = h
    BY <1>1, <1>4, KeptPart
  <2>6. EndOfFrame(k)' \in Nat /\ EndOfFrame(k)' <= Len(stack')
    <3>1. EndOfFrame(k)' <= Len(stack') /\ frames'[k].base \in 1..EndOfFrame(k)'
      BY DEF StackInv, StackMirrorsNesting
    <3>2. CASE k # p
      BY <2>1, <2>4, <3>1, <3>2
    <3>3. CASE k = p
      <4>1. EndOfFrame(k)' = Len(stack') \/ (Len(frames') = p + 1 /\ EndOfFrame(k)' = frames'[p+1].base - 1)
        <5>1. k = Len(frames') \/ (k < Len(frames') /\ Len(frames') # p)
          BY <2>1, <3>3, <1>1
        <5>2. Len(frames') # p => Len(frames') = p + 1
          BY DEF Generates, BeginsVisit
        <5> QED BY <5>1, <5>2, <3>3, <1>1 DEF EndOfFrame
      <4>2. Len(frames') = p + 1 => frames'[p+1].base = h + 1
        BY <1>1 DEF Generates, BeginsVisit
      <4> QED BY <4>1, <4>2, <3>1, <1>1, LengthsAfter
    <3> QED BY <3>2, <3>3
  <2>7. CASE i \in frames[k].base..EndOfFrame(k)
    <3>1. i \in 1..h
      BY <2>1, <2>7, <1>1
    <3> QED BY <3>1, <2>2, <2>3, <2>7, <1>2
  <2>8. CASE i \notin frames[k].base..EndOfFrame(k)
    <3>1. k = p /\ EndOfFrame(k) = h
      BY <2>1, <2>4, <2>5, <2>8
    <3>2. i = h + 1 /\ stack'[i].locals = stack[h].locals
      BY <3>1, <2>1, <2>6, <2>8, <1>1, <1>3
    <3>3. h \in frames[k].base..EndOfFrame(k)
      BY <3>1, <2>1, <1>1
    <3> QED BY <3>2, <3>3, <2>2, <2>3
  <2> QED BY <2>7, <2>8
<1>5. CASE k \notin 1..p
  <2>1. k = p + 1 /\ BeginsVisit(p, h) /\ Len(stack') = h + 1 /\ k = Len(frames')
    <3>1. Len(frames') # p /\ k > p
      BY <1>1, <1>5
    <3>2. BeginsVisit(p, h) /\ Len(stack') = h + 1
      BY <3>1 DEF Generates
    <3> QED BY <3>1, <3>2, <1>1 DEF BeginsVisit
  <2>2. h > 0 /\ frames'[k].base = h + 1 /\ EndOfFrame(k)' = h + 1
    BY <2>1, <1>1 DEF BeginsVisit, EndOfFrame
  <2>3. i = h + 1 /\ h \in 1..h /\ frames'[k].base - 1 = h
    BY <2>2, <1>1
  <2>4. Around(k)' = stack[h].locals
    BY <2>3, <1>2 DEF Around
  <2>5. stack'[i].locals = stack[h].locals
    BY <2>1, <2>3, <1>1, <1>3
  <2> QED BY <2>4, <2>5 DEF Extends
<1> QED BY <1>4, <1>5

LEMMA TestsAfter ==
  ASSUME StackInv, StackInv', BodyInv, BodyInv', DataFlowInv, frames # <<>>,
         NEW p, NEW h, NEW t, Generates(p, h, t)
  PROVE  OpenTests'
<1> SUFFICES ASSUME NEW k \in 1..Len(frames'), frames'[k].kind = "while" PROVE TestOf(k)'
  BY DEF OpenTests
<1>1. p \in Nat /\ h \in Nat /\ Keeps(p, h) /\ SameShape(p, h)
  BY KeptPart DEF Generates
<1>2. PICK c : c = Current
  OBVIOUS
<1>3. /\ ~Done(c)
      /\ \A a \in 1..Len(bbs) : /\ IsTest(a)' = IsTest(a)
                                /\ a # c => Done(a)' = Done(a) /\ Known(a)' = Known(a)
  BY <1>2, TerminatedSuccessors DEF Generates
<1>4. CASE k \in 1..p
  <2>1. /\ k \in 1..Len(frames) /\ SameFrame(frames'[k], frames[k]) /\ frames[k].kind = "while"
        /\ frames[k].base \in Nat /\ IsNested(k) /\ frames[k].base - 1 \in 1..h
    BY <1>1, <1>4, KeptVisit DEF SameFrame, IsNested
  <2>2. Around(k)' = Around(k)
    <3>1. \A j \in 1..h : j # Len(stack) => stack'[j].locals = stack[j].locals
      BY DEF Generates
    <3> QED BY <3>1, <2>1, <1>1, <1>4, KeptAround
  <2>3. PICK o : o = frames[k].other
    OBVIOUS
  <2>4. /\ o \in 1..Len(bbs) /\ Done(o) /\ IsTest(o) /\ Known(o) = Around(k)
        /\ \A i \in 1..(frames[k].base - 1) : stack[i].block < o
        /\ frames[k].block = o + 1
    BY <2>1, <2>3 DEF DataFlowInv, OpenTests, TestOf, BodyInv, WhileTests, Joinable
  <2>5. Done(o)' /\ IsTest(o)' /\ Known(o)' = Around(k)'
    BY <2>2, <2>4, <1>3
  <2>6. \A i \in 1..(frames[k].base - 1) : stack'[i].block < o
    <3>1. \A i \in 1..(frames[k].base - 1) : i \in 1..h
      BY <2>1, <1>1
    <3> QED BY <3>1, <2>4 DEF Generates
  <2>7. /\ frames'[k].other = o /\ frames'[k].base = frames[k].base
        /\ frames'[k].block = o + 1
    BY <2>1, <2>3, <2>4 DEF SameFrame
  <2> QED BY <2>5, <2>6, <2>7 DEF TestOf
<1>5. CASE k \notin 1..p
  <2>1. k = p + 1 /\ BeginsVisit(p, h)
    <3>1. Len(frames') # p /\ k > p
      BY <1>1, <1>5
    <3>2. BeginsVisit(p, h)
      BY <3>1 DEF Generates
    <3> QED BY <3>1, <3>2, <1>1 DEF BeginsVisit
  <2>2. PICK o : o = Len(bbs) + 1
    OBVIOUS
  <2>3. /\ p = Len(frames) /\ frames'[k].other = o /\ NewTest(o) /\ frames'[k].base - 1 = h
        /\ frames'[k].block = o + 1 /\ h > 0
    BY <2>1, <2>2, <1>1, Lengths DEF BeginsVisit
  <2>4. h = Len(stack) /\ stack'[h] = stack[h] /\ Top = stack[h]
    <3>1. h = Len(stack)
      BY <2>3, <1>1, Lengths DEF Keeps
    <3> QED BY <3>1, <2>3, <1>1, InnermostVisit DEF Generates
  <2>5. Around(k)' = Top.locals
    BY <2>3, <2>4 DEF Around
  <2>6. \A i \in 1..h : stack'[i].block < o
    <3>1. \A i \in 1..h : stack[i].block \in 1..Len(bbs)
      BY <1>1, KeptPart
    <3> QED BY <3>1, <2>2, Lengths DEF Generates
  <2> QED BY <2>3, <2>5, <2>6 DEF TestOf, NewTest
<1> QED BY <1>4, <1>5

LEMMA GeneratesDataFlow ==
  ASSUME StackInv, StackInv', BodyInv, BodyInv', DataFlowInv, frames # <<>>,
         NEW p, NEW h, NEW t, Generates(p, h, t)
  PROVE  DataFlowInv'
BY EdgesAfter, StackAfter, ReservedAfter, EntriesAfter, ScopesAfterStep, TestsAfter DEF DataFlowInv


-----------------------------------------------------------------------------
(* Loops                                                                   *)

(* The visits in progress generate into blocks that are not younger than   *)
(* the current one.                                                        *)
LEMMA FrameBlocks ==
  ASSUME StackInv, NEW k \in 1..Len(frames)
  PROVE  /\ frames[k].block \in 1..Len(bbs) /\ frames[k].block \in Nat
         /\ stack[frames[k].base].block = frames[k].block
         /\ frames[k].block <= Current
<1>1. Len(frames) \in Nat /\ Len(stack) \in Nat /\ Len(bbs) \in Nat
  BY Lengths
<1>2. frames # <<>>
  BY <1>1, EmptySeq
<1>3. PICK c : c = Current
  OBVIOUS
<1>4. /\ frames[k].base \in 1..Len(stack) /\ stack[frames[k].base].block = frames[k].block
      /\ c = stack[Len(stack)].block /\ c \in Nat
      /\ \A i \in 1..(Len(stack) - 1) : stack[i].block < c
  BY <1>2, <1>3, FrameBases, CurrentIsYoungest DEF StackInv, StackMirrorsNesting
<1>5. frames[k].block \in 1..Len(bbs)
  BY <1>4 DEF StackInv, BlocksInOrder
<1>6. frames[k].block \in Nat
  BY <1>1, <1>5
<1>7. frames[k].base = Len(stack) \/ frames[k].base \in 1..(Len(stack) - 1)
  BY <1>1, <1>4
<1>8. frames[k].block <= c
  BY <1>4, <1>6, <1>7
<1> QED BY <1>3, <1>4, <1>5, <1>6, <1>8

LEMMA NoWayPastAfter ==
  ASSUME StackInv, StackInv', BodyInv, BodyInv', DataFlowInv, LoopInv, frames # <<>>,
         NEW p, NEW h, NEW t, Generates(p, h, t)
  PROVE  TestsCannotBePassed'
<1> SUFFICES ASSUME NEW k \in 1..Len(frames'), frames'[k].kind = "while",
                    NEW o, o = frames'[k].other,
                    NEW b \in 1..(o - 1)
             PROVE  Succ(b)' \subseteq 1..o
  BY DEF TestsCannotBePassed, NoWayPast
<1>1. p \in Nat /\ h \in Nat /\ Keeps(p, h) /\ SameShape(p, h) /\ Len(bbs) \in Nat
  BY KeptPart, Lengths DEF Generates
<1>2. PICK c : c = Current
  OBVIOUS
<1>3. /\ c \in 1..Len(bbs) /\ Succ(c)' = t.succ
      /\ \A a \in 1..Len(bbs) : a # c => Succ(a)' = Succ(a)
  BY <1>2, TerminatedSuccessors DEF Generates
<1>4. CASE k \in 1..p
  <2>1. /\ k \in 1..Len(frames) /\ frames[k].kind = "while" /\ o = frames[k].other
    BY <1>1, <1>4, KeptVisit DEF SameFrame
  <2>2. o \in 1..Len(bbs) /\ o < frames[k].block
    BY <2>1 DEF BodyInv, WhileTests, Joinable, StackInv, ReservedBlocks
  <2>3. frames[k].block \in 1..Len(bbs) /\ frames[k].block <= c
    BY <2>1, <1>2, FrameBlocks
  <2>4. b \in 1..Len(bbs) /\ b # c
    BY <2>2, <2>3, <1>1, <1>3
  <2>5. Succ(b) \subseteq 1..o
    BY <2>1 DEF LoopInv, TestsCannotBePassed, NoWayPast
  <2> QED BY <2>4, <2>5, <1>3
<1>5. CASE k \notin 1..p
  <2>1. k = p + 1 /\ BeginsVisit(p, h) /\ t.succ = {Len(bbs) + 1}
    <3>1. Len(frames') # p /\ k > p
      BY <1>1, <1>5
    <3>2. BeginsVisit(p, h)
      BY <3>1 DEF Generates
    <3>3. k = p + 1
      BY <3>1, <3>2, <1>1 DEF BeginsVisit
    <3> QED BY <3>1, <3>2, <3>3 DEF Generates
  <2>2. o = Len(bbs) + 1
    BY <2>1 DEF BeginsVisit
  <2>3. b \in 1..Len(bbs)
    BY <2>2, <1>1
  <2>4. b # c => Succ(b)' \subseteq 1..Len(bbs)
    BY <2>3, <1>3, Successors
  <2>5. 1..Len(bbs) \subseteq 1..o /\ o \in 1..o
    BY <2>2, <1>1
  <2> QED BY <2>1, <2>2, <2>4, <2>5, <1>3
<1> QED BY <1>4, <1>5

LEMMA ReservedTestsAfter ==
  ASSUME StackInv, StackInv', BodyInv, BodyInv', DataFlowInv, LoopInv, frames # <<>>,
         NEW p, NEW h, NEW t, Generates(p, h, t)
  PROVE  ReservedAreNoTests'
<1> SUFFICES ASSUME NEW k \in 1..Len(frames'), NEW r \in Reserved(k)' PROVE ~IsTest(r)'
  BY DEF ReservedAreNoTests
<1>1. p \in Nat /\ h \in Nat /\ Keeps(p, h) /\ SameShape(p, h)
  BY KeptPart DEF Generates
<1>2. PICK c : c = Current
  OBVIOUS
<1>3. \A a \in 1..Len(bbs) : IsTest(a)' = IsTest(a)
  BY <1>2, TerminatedSuccessors DEF Generates
<1>4. ASSUME NEW l \in 1..Len(frames), r \in Reserved(l) PROVE ~IsTest(r)'
  <2>1. ~IsTest(r)
    BY <1>4 DEF LoopInv, ReservedAreNoTests
  <2>2. r \in (frames[l].block + 1)..Len(bbs)
    BY <1>4 DEF StackInv, ReservedBlocks
  <2>3. frames[l].block \in Nat
    BY FrameBlocks
  <2>4. r \in 1..Len(bbs)
    BY <2>2, <2>3, Lengths
  <2> QED BY <2>1, <2>4, <1>3
<1>5. CASE k \in 1..p
  BY <1>1, <1>4, <1>5, KeptVisit
<1>6. CASE k \notin 1..p
  <2>1. k = p + 1 /\ BeginsVisit(p, h)
    <3>1. Len(frames') # p /\ k > p
      BY <1>1, <1>6
    <3>2. BeginsVisit(p, h)
      BY <3>1 DEF Generates
    <3> QED BY <3>1, <3>2, <1>1 DEF BeginsVisit
  <2>2. Given(p, r)
    BY <2>1 DEF BeginsVisit
  <2>3. CASE r \in Fresh
    <3>1. bbs'[r].terms = <<>>
      BY DEF StackInv, ReservedBlocks
    <3>2. ~Done(r)'
      BY <3>1, OpenBlockAfter
    <3>3. NewTest(r) \/ NewTarget(r)
      BY <2>3 DEF Generates
    <3> QED BY <3>2, <3>3 DEF NewTest, NewTarget
  <2>4. CASE r \in Reserved(Len(frames))
    BY <2>4, <1>4, InnermostVisit
  <2> QED BY <2>2, <2>3, <2>4 DEF Given
<1> QED BY <1>5, <1>6

LEMMA CyclesAfter ==
  ASSUME StackInv, StackInv', BodyInv, BodyInv', DataFlowInv, LoopInv, frames # <<>>,
         NEW p, NEW h, NEW t, Generates(p, h, t)
  PROVE  CyclesHaveTests'
<1> SUFFICES ASSUME NEW cycle, \A b \in cycle : b \in 1..Len(bbs') /\ Done(b)' /\ ~IsTest(b)',
                    cycle # {}
             PROVE  \E b \in cycle : Succ(b)' \cap cycle = {}
  BY DEF CyclesHaveTests
<1>1. PICK c : c = Current
  OBVIOUS
<1>2. /\ c \in 1..Len(bbs) /\ Succ(c)' = t.succ
      /\ \A a \in 1..Len(bbs) : IsTest(a)' = IsTest(a) /\ (a # c => Done(a)' = Done(a) /\ Succ(a)' = Succ(a))
  BY <1>1, TerminatedSuccessors DEF Generates
<1>3. ASSUME NEW b \in cycle PROVE b \in 1..Len(bbs)
  <2>1. b \notin Fresh
    <3>1. ASSUME b \in Fresh PROVE FALSE
      <4>1. NewTest(b)
        BY <1>3, <3>1, FreshSuccessors
      <4> QED BY <4>1, <1>3 DEF NewTest
    <3> QED BY <3>1
  <2> QED BY <2>1, <1>3, FreshOrOld
<1>4. CASE c \in cycle
  <2>1. ASSUME NEW s \in t.succ, s \in cycle PROVE FALSE
    <3>1. s \in 1..Len(bbs) /\ s \notin Fresh
      BY <2>1, <1>3, Lengths DEF Fresh
    <3>2. /\ s # c
          /\ \/ bbs[s].terms = <<>>
             \/ TestOf(Len(frames)) /\ s = frames[Len(frames)].other
      BY <2>1, <3>1, <1>1, TargetsAreAbove, InnermostVisit
    <3>3. Done(s) /\ ~IsTest(s)
      BY <2>1, <3>1, <3>2, <1>2
    <3> QED BY <3>1, <3>2, <3>3, Successors DEF TestOf
  <2> QED BY <2>1, <1>2, <1>4
<1>5. CASE c \notin cycle
  <2>1. \A b \in cycle : b \in 1..Len(bbs) /\ Done(b) /\ ~IsTest(b) /\ Succ(b)' = Succ(b)
    BY <1>2, <1>3, <1>5
  <2>2. cycle \in SUBSET {b \in 1..Len(bbs) : Done(b) /\ ~IsTest(b)}
    BY <2>1
  <2>3. PICK b \in cycle : Succ(b) \cap cycle = {}
    BY <2>2 DEF LoopInv, CyclesHaveTests
  <2> QED BY <2>1, <2>3
<1> QED BY <1>4, <1>5

(* A set the code under construction is closed in stays so if the new      *)
(* blocks are added.                                                       *)
LEMMA OutsideGrows ==
  ASSUME StackInv, StackInv', BodyInv, BodyInv', DataFlowInv, LoopInv, frames # <<>>,
         NEW p, NEW h, NEW t, Generates(p, h, t),
         NEW q \in 1..Len(bbs), NEW R, Outside(q, R), NEW Q, Q = R \cup Fresh
  PROVE  Outside(q, Q)'
<1>1. p \in Nat /\ h \in Nat /\ Keeps(p, h) /\ SameShape(p, h) /\ Len(bbs) \in Nat
      /\ Len(bbs') \in Nat /\ Len(bbs) <= Len(bbs')
  BY KeptPart, Lengths, LengthsAfter DEF Generates, StepEnds, GoesOn
<1>2. PICK c : c = Current
  OBVIOUS
<1>3. /\ c \in 1..Len(bbs) /\ Succ(c)' = t.succ
      /\ \A a \in 1..Len(bbs) : bbs'[a].fn = bbs[a].fn /\ (a # c => Succ(a)' = Succ(a))
  BY <1>2, TerminatedSuccessors DEF Generates
<1>4. PICK n : n = Len(frames)
  OBVIOUS
<1>5. n \in 1..Len(frames) /\ Innermost = frames[n]
  BY <1>4, InnermostVisit
<1>6. ASSUME NEW r, Given(p, r) PROVE r \in Q
  BY <1>4, <1>5, <1>6 DEF Given, Outside
<1>7. Q \subseteq 1..Len(bbs')
  <2>1. 1..Len(bbs) \subseteq 1..Len(bbs') /\ Fresh \subseteq 1..Len(bbs')
    BY <1>1 DEF Fresh
  <2>2. R \subseteq 1..Len(bbs)
    BY DEF Outside
  <2> QED BY <2>1, <2>2
<1>8. bbs'[q].fn \in Q
  BY <1>3 DEF Outside
<1>9. ASSUME NEW a \in Q \ {q} PROVE Succ(a)' \subseteq Q
  <2>1. CASE a \in Fresh
    BY <2>1, FreshSuccessors
  <2>2. CASE a \in R /\ a # c
    <3>1. a \in 1..Len(bbs) /\ Succ(a) \subseteq R
      BY <2>2, <1>9 DEF Outside
    <3> QED BY <2>2, <3>1, <1>3
  <2>3. CASE a = c
    <3>1. ASSUME NEW s \in t.succ PROVE s \in Q
      <4>1. Given(p, s) \/ (Innermost.kind = "while" /\ s = Innermost.other)
        BY DEF Generates
      <4>2. Innermost.kind = "while" => Innermost.other \in R
        BY <1>5 DEF Outside
      <4> QED BY <4>1, <4>2, <1>6
    <3> QED BY <2>3, <3>1, <1>3
  <2> QED BY <1>9, <2>1, <2>2, <2>3
<1>10. ASSUME NEW i \in 1..Len(stack') PROVE stack'[i].block \in Q
  <2>1. CASE i \in 1..h
    <3>1. stack'[i] = stack[i] /\ i \in 1..Len(stack)
      BY <2>1, <1>1, KeptPart DEF Generates
    <3> QED BY <3>1 DEF Outside
  <2>2. CASE i \notin 1..h
    <3>1. Len(stack') # h /\ i > h
      BY <2>2, <1>1
    <3>2. PushesGiven(p, h)
      BY <3>1 DEF Generates
    <3>3. i = h + 1
      BY <3>1, <3>2, <1>1 DEF PushesGiven
    <3> QED BY <3>2, <3>3, <1>6 DEF PushesGiven
  <2> QED BY <2>1, <2>2
<1>11. ASSUME NEW k \in 1..Len(frames')
       PROVE  Reserved(k)' \subseteq Q /\ (frames'[k].kind = "while" => frames'[k].other \in Q)
  <2>1. CASE k \in 1..p
    <3>1. k \in 1..Len(frames) /\ Reserved(k)' = Reserved(k) /\ SameFrame(frames'[k], frames[k])
      BY <2>1, <1>1, KeptVisit
    <3> QED BY <3>1 DEF Outside, SameFrame
  <2>2. CASE k \notin 1..p
    <3>1. Len(frames') # p /\ k > p
      BY <2>2, <1>1
    <3>2. BeginsVisit(p, h)
      BY <3>1 DEF Generates
    <3>3. k = p + 1
      BY <3>1, <3>2, <1>1 DEF BeginsVisit
    <3>4. Reserved(k)' \subseteq Q
      BY <3>2, <3>3, <1>6 DEF BeginsVisit
    <3>5. ASSUME frames'[k].kind = "while" PROVE frames'[k].other \in Q
      <4>1. frames'[k].other = Len(bbs) + 1
        BY <3>2, <3>3, <3>5 DEF BeginsVisit
      <4>2. frames'[k].other \in 1..Len(bbs')
        BY <3>5 DEF BodyInv, WhileTests, Joinable
      <4> QED BY <4>1, <4>2, <1>1 DEF Fresh
    <3> QED BY <3>4, <3>5
  <2> QED BY <2>1, <2>2
<1> QED BY <1>7, <1>8, <1>9, <1>10, <1>11 DEF Outside

(* The branch back to the test: everything that is not older than the test *)
(* belongs to the loop, except the block after it.                         *)
LEMMA LoopIsClosed ==
  ASSUME StackInv, StackInv', BodyInv, BodyInv', DataFlowInv, LoopInv, frames # <<>>,
         NEW p, NEW h, NEW t, Generates(p, h, t),
         p = Len(frames) - 1, Innermost.kind = "while",
         NEW q, q = Innermost.other
  PROVE  \E R \in SUBSET (1..Len(bbs')) : Current \notin R /\ Outside(q, R)'
<1>1. /\ p \in Nat /\ h \in Nat /\ Keeps(p, h) /\ SameShape(p, h) /\ Len(bbs) \in Nat
      /\ \A i \in 1..h : i \in 1..Len(stack)
      /\ \A k \in 1..p : k \in 1..Len(frames)
  BY KeptPart, Lengths DEF Generates
<1>2. PICK n : n = Len(frames)
  OBVIOUS
<1>3. /\ n \in 1..Len(frames) /\ n \in Nat /\ Innermost = frames[n]
      /\ p = n - 1 /\ p # n /\ n \notin 1..p
  BY <1>1, <1>2, InnermostVisit
<1>4. Len(bbs') = Len(bbs) /\ h = frames[n].base - 1 /\ frames[n].base \in 1..Len(stack)
  BY <1>1, <1>2, <1>3, InnermostVisit DEF Generates, Keeps
<1>5. PICK c : c = Current
  OBVIOUS
<1>6. /\ c \in 1..Len(bbs) /\ ~Done(c)
      /\ \A a \in 1..Len(bbs) : bbs'[a].fn = bbs[a].fn /\ (a # c => Succ(a)' = Succ(a))
  BY <1>5, TerminatedSuccessors DEF Generates
<1>7. /\ q \in 1..Len(bbs) /\ bbs[q].fn = bbs[frames[n].block].fn
      /\ Done(q) /\ frames[n].block = q + 1
      /\ \A i \in 1..h : stack[i].block < q
  BY <1>3, <1>4 DEF BodyInv, WhileTests, Joinable, DataFlowInv, OpenTests, TestOf
<1>8. /\ \A k \in 1..p : \A r \in Reserved(k) : r \in Nat /\ r < frames[n].block
      /\ \A r \in Reserved(n) : r # c /\ r \in 1..Len(bbs) /\ bbs[r].terms = <<>>
      /\ q < c
  <2>1. \A k \in 1..p : \A r \in Reserved(k) : r \in Nat /\ r < frames[n].block
    BY <1>2, <1>3, <1>4, KeptIsOlder
  <2>2. ASSUME NEW r \in Reserved(n) PROVE r # c /\ r \in 1..Len(bbs) /\ bbs[r].terms = <<>>
    BY <1>2, <1>3, <1>5, ReservedJoin, CurrentIsYoungest DEF StackInv, ReservedBlocks
  <2>3. frames[n].block <= c /\ c \in Nat
    BY <1>3, <1>5, <1>6, FrameBlocks, CurrentIsYoungest
  <2>4. q < c
    BY <2>3, <1>1, <1>7
  <2> QED BY <2>1, <2>2, <2>4
<1>18. PICK R : R = 1..q \cup Reserved(n)
  OBVIOUS
<1>9. R \subseteq 1..Len(bbs) /\ c \notin R
  BY <1>1, <1>6, <1>7, <1>8, <1>18
<1>10. ASSUME NEW j \in 1..n, j # n PROVE frames[j].block \in 1..q /\ frames[j].block < q
  <2>1. /\ j \in 1..Len(frames) /\ frames[j].base \in 1..Len(stack)
        /\ stack[frames[j].base].block = frames[j].block
        /\ frames[j].base < frames[n].base /\ frames[j].block \in 1..Len(bbs)
    <3>1. j \in 1..Len(frames) /\ j < n
      BY <1>2, <1>3, <1>10
    <3>2. frames[j].base < frames[n].base
      BY <3>1, <1>3 DEF StackInv, BlocksInOrder
    <3>3. frames[j].base \in 1..Len(stack) /\ stack[frames[j].base].block = frames[j].block
      BY <3>1, FrameBases DEF StackInv, StackMirrorsNesting
    <3> QED BY <3>1, <3>2, <3>3 DEF StackInv, BlocksInOrder
  <2>2. frames[j].base \in 1..h
    BY <2>1, <1>1, <1>4
  <2> QED BY <2>1, <2>2, <1>7
<1>11. bbs'[q].fn \in R
  <2>1. PICK j \in 1..n : IsFunction(j) /\ frames[j].block = bbs[q].fn
    BY <1>3, <1>7 DEF BodyInv, OwnFunctions
  <2>2. j # n
    BY <2>1, <1>3 DEF IsFunction
  <2> QED BY <2>1, <2>2, <1>6, <1>7, <1>10, <1>18
<1>12. ASSUME NEW a \in R \ {q} PROVE Succ(a)' \subseteq R
  <2>1. a \in 1..Len(bbs) /\ a # c /\ Succ(a)' = Succ(a)
    BY <1>6, <1>9, <1>12
  <2>2. CASE a \in 1..q
    <3>1. a \in 1..(q - 1)
      BY <2>2, <1>7, <1>12
    <3>2. Succ(a) \subseteq 1..q
      BY <3>1, <1>3 DEF LoopInv, TestsCannotBePassed, NoWayPast
    <3> QED BY <2>1, <3>2, <1>18
  <2>3. CASE a \in Reserved(n)
    <3>1. Succ(a) = {}
      BY <2>1, <2>3, <1>8, Successors
    <3> QED BY <2>1, <3>1
  <2> QED BY <1>12, <1>18, <2>2, <2>3
<1>13. ASSUME NEW r, Given(p, r) PROVE r \in R
  <2>1. r \notin Fresh
    BY <1>1, <1>4 DEF Fresh
  <2> QED BY <2>1, <1>2, <1>13, <1>18 DEF Given
<1>14. ASSUME NEW i \in 1..Len(stack') PROVE stack'[i].block \in R
  <2>1. CASE i \in 1..h
    <3>1. stack'[i] = stack[i] /\ stack[i].block \in 1..Len(bbs)
      BY <2>1, <1>1 DEF Generates, StackInv, BlocksInOrder
    <3> QED BY <2>1, <3>1, <1>1, <1>7, <1>18
  <2>2. CASE i \notin 1..h
    <3>1. Len(stack') # h /\ i > h
      BY <2>2, <1>1
    <3>2. PushesGiven(p, h)
      BY <3>1 DEF Generates
    <3>3. i = h + 1
      BY <3>1, <3>2, <1>1 DEF PushesGiven
    <3> QED BY <3>2, <3>3, <1>13 DEF PushesGiven
  <2> QED BY <2>1, <2>2
<1>15. ASSUME NEW k \in 1..Len(frames')
       PROVE  Reserved(k)' \subseteq R /\ (frames'[k].kind = "while" => frames'[k].other \in R)
  <2>1. CASE k \in 1..p
    <3>1. k \in 1..Len(frames) /\ Reserved(k)' = Reserved(k) /\ SameFrame(frames'[k], frames[k])
      BY <2>1, <1>1, KeptVisit
    <3>2. ASSUME NEW r \in Reserved(k) PROVE r \in 1..q
      <4>1. r \in Nat /\ r < q + 1
        BY <2>1, <1>7, <1>8
      <4>2. r \in (frames[k].block + 1)..Len(bbs) /\ frames[k].block \in Nat
        BY <3>1, FrameBlocks DEF StackInv, ReservedBlocks
      <4> QED BY <4>1, <4>2, <1>7
    <3>3. ASSUME frames[k].kind = "while" PROVE frames[k].other \in 1..q
      <4>1. frames[k].other \in 1..Len(bbs) /\ frames[k].other < frames[k].block
        BY <3>1, <3>3 DEF BodyInv, WhileTests, Joinable, StackInv, ReservedBlocks
      <4>2. frames[k].block \in 1..q /\ frames[k].block < q
        BY <2>1, <1>3, <1>10
      <4> QED BY <4>1, <4>2, <1>7
    <3> QED BY <3>1, <3>2, <3>3, <1>18 DEF SameFrame
  <2>2. CASE k \notin 1..p
    <3>1. Len(frames') # p /\ k > p
      BY <2>2, <1>1
    <3>2. BeginsVisit(p, h)
      BY <3>1 DEF Generates
    <3>3. k = p + 1
      BY <3>1, <3>2, <1>1 DEF BeginsVisit
    <3>4. Reserved(k)' \subseteq R
      BY <3>2, <3>3, <1>13 DEF BeginsVisit
    <3>5. frames'[k].kind # "while"
      BY <3>2, <3>3, <1>2, <1>3 DEF BeginsVisit
    <3> QED BY <3>4, <3>5
  <2> QED BY <2>1, <2>2
<1>16. Outside(q, R)'
  BY <1>4, <1>9, <1>11, <1>12, <1>14, <1>15 DEF Outside
<1>17. R \in SUBSET (1..Len(bbs'))
  BY <1>4, <1>9
<1> QED BY <1>5, <1>9, <1>16, <1>17

LEMMA ClosedAfter ==
  ASSUME StackInv, StackInv', BodyInv, BodyInv', DataFlowInv, LoopInv, frames # <<>>,
         NEW p, NEW h, NEW t, Generates(p, h, t)
  PROVE  LoopsAreClosed'
<1> SUFFICES ASSUME NEW q \in 1..Len(bbs'), NEW b \in 1..Len(bbs'),
                    IsTest(q)', q \in Succ(b)', q < b
             PROVE  \E R \in SUBSET (1..Len(bbs')) : b \notin R /\ Outside(q, R)'
  BY DEF LoopsAreClosed
<1>1. PICK c : c = Current
  OBVIOUS
<1>2. /\ c \in 1..Len(bbs) /\ Succ(c)' = t.succ /\ Len(bbs) \in Nat
      /\ \A a \in 1..Len(bbs) : IsTest(a)' = IsTest(a) /\ (a # c => Succ(a)' = Succ(a))
  BY <1>1, Lengths, TerminatedSuccessors DEF Generates
<1>3. b \notin Fresh
  BY FreshSuccessors
<1>4. b \in 1..Len(bbs)
  BY <1>3, FreshOrOld
<1>5. q \in 1..Len(bbs) /\ q \notin Fresh /\ IsTest(q)
  BY <1>2, <1>4 DEF Fresh
<1>6. CASE b # c
  <2>1. q \in Succ(b)
    BY <1>2, <1>4, <1>6
  <2>2. PICK R \in SUBSET (1..Len(bbs)) : b \notin R /\ Outside(q, R)
    BY <2>1, <1>4, <1>5 DEF LoopInv, LoopsAreClosed
  <2>3. PICK Q : Q = R \cup Fresh
    OBVIOUS
  <2>4. Outside(q, Q)'
    BY <2>2, <2>3, <1>5, OutsideGrows
  <2>5. Q \in SUBSET (1..Len(bbs'))
    BY <2>4 DEF Outside
  <2> QED BY <2>2, <2>3, <2>4, <2>5, <1>3
<1>7. CASE b = c
  <2>1. /\ p = Len(frames) - 1
        /\ q \in Reserved(Len(frames)) \/ (Innermost.kind = "while" /\ q = Innermost.other)
    BY <1>2, <1>5, <1>7, TargetsAreAbove
  <2>2. q \notin Reserved(Len(frames))
    BY <1>5, InnermostVisit DEF LoopInv, ReservedAreNoTests
  <2> QED BY <2>1, <2>2, <1>1, <1>7, LoopIsClosed
<1> QED BY <1>6, <1>7

LEMMA GeneratesFlow ==
  ASSUME StackInv, StackInv', BodyInv, BodyInv', DataFlowInv, LoopInv, frames # <<>>,
         NEW p, NEW h, NEW t, Generates(p, h, t)
  PROVE  DataFlowInv' /\ LoopInv'
<1>1. DataFlowInv'
  BY GeneratesDataFlow
<1>2. LoopInv'
  BY NoWayPastAfter, ReservedTestsAfter, CyclesAfter, ClosedAfter DEF LoopInv
<1> QED BY <1>1, <1>2


-----------------------------------------------------------------------------
(* Statements: only the locals of the block under construction may change, *)
(* by a name that was not declared before.                                 *)

NewName(l, m, c) == \A x \in Names : m[x] = l[x] \/ (l[x] = 0 /\ m[x] = c)
Declares ==
  /\ SameCode
  /\ \A i \in 1..Len(stack) : i # Len(stack) => stack'[i].locals = stack[i].locals
  /\ frames # <<>> => NewName(stack[Len(stack)].locals, stack'[Len(stack)].locals, Current)

LEMMA SameCodeKeeps ==
  ASSUME StackInv, StackInv', SameCode, NEW p, p = Len(frames), NEW h, h = Len(stack)
  PROVE  Keeps(p, h) /\ SameShape(p, h) /\ p \in Nat /\ h \in Nat
         /\ Len(frames') = p /\ Len(stack') = h /\ bbs' = bbs
BY Lengths DEF Keeps, SameShape, SameCode

LEMMA SameBlocks ==
  ASSUME bbs' = bbs, NEW b
  PROVE  /\ Done(b)' = Done(b) /\ Known(b)' = Known(b) /\ Succ(b)' = Succ(b)
         /\ IsTest(b)' = IsTest(b)
BY DEF Done, Known, Succ, IsTest

LEMMA SameFrames ==
  ASSUME StackInv, StackInv', SameCode, NEW k \in 1..Len(frames')
  PROVE  /\ k \in 1..Len(frames) /\ SameFrame(frames'[k], frames[k])
         /\ Reserved(k)' = Reserved(k) /\ EndOfFrame(k)' = EndOfFrame(k)
         /\ frames[k].base \in Nat /\ EndOfFrame(k) \in 1..Len(stack)
<1>1. k \in 1..Len(frames) /\ SameFrame(frames'[k], frames[k]) /\ Len(frames) \in Nat
  BY Lengths DEF SameCode
<1>2. Reserved(k)' = Reserved(k)
  BY <1>1 DEF Reserved, SameFrame
<1>3. k < Len(frames) => k + 1 \in 1..Len(frames)
  BY <1>1
<1>4. k < Len(frames) => frames'[k+1].base = frames[k+1].base
  BY <1>3 DEF SameCode, SameFrame
<1>5. EndOfFrame(k)' = EndOfFrame(k)
  BY <1>4 DEF EndOfFrame, SameCode
<1> QED BY <1>1, <1>2, <1>5, FrameBases, FrameEnds, Lengths

LEMMA DeclaresFlow ==
  ASSUME StackInv, StackInv', DataFlowInv, LoopInv, Declares
  PROVE  DataFlowInv' /\ LoopInv'
<1>1. PICK p : p = Len(frames)
  OBVIOUS
<1>2. PICK h : h = Len(stack)
  OBVIOUS
<1>3. /\ Keeps(p, h) /\ SameShape(p, h) /\ p \in Nat /\ h \in Nat
      /\ Len(frames') = p /\ Len(stack') = h /\ bbs' = bbs
  BY <1>1, <1>2, SameCodeKeeps DEF Declares
<1>4. PICK c : c = Current
  OBVIOUS
<1>5. ASSUME NEW i \in 1..h
      PROVE  /\ i \in 1..Len(stack) /\ stack'[i].block = stack[i].block /\ frames # <<>>
             /\ i = h => c = stack[i].block
             /\ i # h => stack'[i].locals = stack[i].locals
             /\ NewName(stack[i].locals, stack'[i].locals, stack[i].block)
  <2>1. i \in 1..Len(stack) /\ stack'[i].block = stack[i].block
    BY <1>2, <1>5 DEF Declares, SameCode, SameEntry
  <2>2. frames # <<>>
    <3>1. stack # <<>>
      BY <2>1, EmptySeq
    <3> QED BY <3>1 DEF StackInv, StackMirrorsNesting
  <2>3. i = h => c = stack[i].block
    BY <2>2, <1>2, <1>4, CurrentIsYoungest
  <2>4. i # h => stack'[i].locals = stack[i].locals
    BY <2>1, <1>2 DEF Declares
  <2>5. i = h => NewName(stack[i].locals, stack'[i].locals, c)
    BY <2>2, <1>2, <1>4 DEF Declares
  <2> QED BY <2>1, <2>2, <2>3, <2>4, <2>5 DEF NewName
<1>6. ASSUME NEW k \in 1..Len(frames')
      PROVE  /\ k \in 1..Len(frames) /\ SameFrame(frames'[k], frames[k])
             /\ Reserved(k)' = Reserved(k) /\ EndOfFrame(k)' = EndOfFrame(k)
             /\ IsNested(k)' = IsNested(k)
             /\ IsNested(k) => Around(k)' = Around(k) /\ frames[k].base - 1 \in 1..h
  <2>1. /\ k \in 1..Len(frames) /\ SameFrame(frames'[k], frames[k])
        /\ Reserved(k)' = Reserved(k) /\ EndOfFrame(k)' = EndOfFrame(k)
    BY <1>6, SameFrames DEF Declares
  <2>2. k \in 1..p
    BY <2>1, <1>1
  <2>3. \A i \in 1..h : i # Len(stack) => stack'[i].locals = stack[i].locals
    BY <1>2, <1>5
  <2>4. IsNested(k)' = IsNested(k)
    BY <2>1 DEF IsNested, SameFrame
  <2> QED BY <2>1, <2>2, <2>3, <2>4, <1>3, KeptAround, KeptVisit
<1>7. EdgesInherit'
  BY <1>3, SameBlocks DEF EdgesInherit, Inherits, DataFlowInv
<1>8. StackInherits'
  <2> SUFFICES ASSUME NEW i \in 1..Len(stack'), NEW b \in 1..Len(bbs'),
                      NEW e, e = stack'[i].block, NEW l, l = stack'[i].locals, e \in Succ(b)'
               PROVE  Inherits(e, b, l)'
    BY DEF StackInherits, Inherits
  <2>1. /\ i \in 1..h /\ i \in 1..Len(stack) /\ e = stack[i].block
        /\ NewName(stack[i].locals, l, e)
    BY <1>3, <1>5
  <2>2. b \in 1..Len(bbs) /\ e \in Succ(b) /\ Known(b)' = Known(b)
    BY <1>3, SameBlocks
  <2>3. Inherits(e, b, stack[i].locals)
    BY <2>1, <2>2 DEF DataFlowInv, StackInherits
  <2> QED BY <2>1, <2>2, <2>3 DEF Inherits, NewName
<1>9. ReservedInherit'
  <2> SUFFICES ASSUME NEW k \in 1..Len(frames'), NEW r \in Reserved(k)', NEW b \in 1..Len(bbs'),
                      r \in Succ(b)', NEW l, l = Around(k)'
               PROVE  Inherits(r, b, l)'
    BY DEF ReservedInherit, Inherits
  <2>1. k \in 1..Len(frames) /\ r \in Reserved(k) /\ IsNested(k) /\ l = Around(k)
    BY <1>6 DEF Reserved, IsNested
  <2>2. b \in 1..Len(bbs) /\ r \in Succ(b) /\ Known(b)' = Known(b)
    BY <1>3, SameBlocks
  <2>3. Inherits(r, b, l)
    BY <2>1, <2>2 DEF DataFlowInv, ReservedInherit
  <2> QED BY <2>2, <2>3 DEF Inherits
<1>10. EntriesInherit'
  <2>1. ASSUME NEW b \in 1..Len(bbs'), bbs'[b].name = "entry", Done(b)'
        PROVE  OnlyOwn(b, Known(b)')
    BY <2>1, <1>3, SameBlocks DEF DataFlowInv, EntriesInherit
  <2>2. ASSUME NEW i \in 1..Len(stack'), bbs'[stack'[i].block].name = "entry"
        PROVE  OnlyOwn(stack'[i].block, stack'[i].locals)
    <3>1. /\ i \in 1..Len(stack) /\ stack'[i].block = stack[i].block
          /\ NewName(stack[i].locals, stack'[i].locals, stack[i].block)
      BY <1>3, <1>5
    <3>2. OnlyOwn(stack[i].block, stack[i].locals)
      BY <2>2, <3>1, <1>3 DEF DataFlowInv, EntriesInherit
    <3> QED BY <3>1, <3>2 DEF OnlyOwn, NewName
  <2>3. ASSUME NEW b \in 1..Len(bbs'), bbs'[b].name = "entry" PROVE bbs'[b].fn = b
    BY <2>3, <1>3 DEF DataFlowInv, EntriesInherit
  <2> QED BY <2>1, <2>2, <2>3 DEF EntriesInherit, OnlyOwn
<1>11. ScopesGrow'
  <2> SUFFICES ASSUME NEW k \in 1..Len(frames'), IsNested(k)',
                      NEW i \in frames'[k].base..EndOfFrame(k)'
               PROVE  Extends(Around(k)', stack'[i].locals)
    BY DEF ScopesGrow, Extends
  <2>1. /\ k \in 1..Len(frames) /\ IsNested(k) /\ Around(k)' = Around(k)
        /\ i \in frames[k].base..EndOfFrame(k)
    BY <1>6 DEF SameFrame
  <2>2. Extends(Around(k), stack[i].locals)
    BY <2>1 DEF DataFlowInv, ScopesGrow
  <2>3. i \in 1..h
    BY <2>1, <1>2, <1>3, FrameBases, FrameEnds
  <2>4. NewName(stack[i].locals, stack'[i].locals, stack[i].block)
    BY <2>3, <1>5
  <2> QED BY <2>1, <2>2, <2>4 DEF Extends, NewName
<1>12. OpenTests'
  <2> SUFFICES ASSUME NEW k \in 1..Len(frames'), frames'[k].kind = "while" PROVE TestOf(k)'
    BY DEF OpenTests
  <2>1. /\ k \in 1..Len(frames) /\ frames[k].kind = "while" /\ SameFrame(frames'[k], frames[k])
        /\ Around(k)' = Around(k) /\ frames[k].base - 1 \in 1..h
    BY <1>6 DEF SameFrame, IsNested
  <2>2. PICK o : o = frames[k].other
    OBVIOUS
  <2>3. /\ Done(o)' = Done(o) /\ Known(o)' = Known(o) /\ IsTest(o)' = IsTest(o)
    BY <1>3, SameBlocks
  <2>4. /\ Done(o) /\ IsTest(o) /\ Known(o) = Around(k) /\ frames[k].block = o + 1
        /\ \A i \in 1..(frames[k].base - 1) : stack[i].block < o
    BY <2>1, <2>2 DEF DataFlowInv, OpenTests, TestOf
  <2>5. \A i \in 1..(frames[k].base - 1) : stack'[i].block < o
    BY <2>1, <2>4, <1>3, <1>5
  <2>6. frames'[k].other = o /\ frames'[k].base = frames[k].base /\ frames'[k].block = o + 1
    BY <2>1, <2>2, <2>4 DEF SameFrame
  <2> QED BY <2>1, <2>3, <2>4, <2>5, <2>6 DEF TestOf
<1>13. TestsCannotBePassed'
  BY <1>3, <1>6, SameBlocks DEF LoopInv, TestsCannotBePassed, NoWayPast, SameFrame
<1>14. ReservedAreNoTests'
  BY <1>3, <1>6, SameBlocks DEF LoopInv, ReservedAreNoTests
<1>15. CyclesHaveTests'
  BY <1>3 DEF LoopInv, CyclesHaveTests, Done, IsTest, Succ
<1>16. LoopsAreClosed'
  <2> SUFFICES ASSUME NEW q \in 1..Len(bbs'), NEW b \in 1..Len(bbs'),
                      IsTest(q)', q \in Succ(b)', q < b
               PROVE  \E R \in SUBSET (1..Len(bbs')) : b \notin R /\ Outside(q, R)'
    BY DEF LoopsAreClosed
  <2>1. PICK R : R \in SUBSET (1..Len(bbs)) /\ b \notin R /\ Outside(q, R)
    BY <1>3, SameBlocks DEF LoopInv, LoopsAreClosed
  <2>2. ASSUME NEW i \in 1..Len(stack') PROVE stack'[i].block \in R
    BY <2>1, <1>3, <1>5 DEF Outside
  <2>3. ASSUME NEW k \in 1..Len(frames')
        PROVE  Reserved(k)' \subseteq R /\ (frames'[k].kind = "while" => frames'[k].other \in R)
    BY <2>1, <1>6 DEF Outside, SameFrame
  <2>4. ASSUME NEW a \in R \ {q} PROVE Succ(a)' \subseteq R
    BY <2>1, <1>3, SameBlocks DEF Outside
  <2>5. R \subseteq 1..Len(bbs') /\ bbs'[q].fn \in R /\ b \notin R
    BY <2>1, <1>3 DEF Outside
  <2>6. Outside(q, R)'
    BY <2>2, <2>3, <2>4, <2>5 DEF Outside
  <2>7. R \in SUBSET (1..Len(bbs'))
    BY <2>5
  <2> QED BY <2>5, <2>6, <2>7
<1> QED BY <1>7, <1>8, <1>9, <1>10, <1>11, <1>12, <1>13, <1>14, <1>15, <1>16
        DEF DataFlowInv, LoopInv

LEMMA NothingFlows ==
  ASSUME bbs = <<>>, stack = <<>>, frames = <<>>
  PROVE  DataFlowInv /\ LoopInv
<1>1. Len(bbs) = 0 /\ Len(stack) = 0 /\ Len(frames) = 0
  BY EmptySeq
<1>2. DataFlowInv
  BY <1>1 DEF DataFlowInv, EdgesInherit, StackInherits, ReservedInherit, EntriesInherit, ScopesGrow, OpenTests
<1>3. CyclesHaveTests
  <2>1. 1..Len(bbs) = {}
    BY <1>1
  <2> QED BY <2>1 DEF CyclesHaveTests
<1>4. TestsCannotBePassed /\ ReservedAreNoTests /\ LoopsAreClosed
  BY <1>1 DEF TestsCannotBePassed, ReservedAreNoTests, LoopsAreClosed
<1> QED BY <1>2, <1>3, <1>4 DEF LoopInv

LEMMA ExitFlow ==
  ASSUME NEW why, Exit(why) PROVE DataFlowInv' /\ LoopInv'
<1>1. Len(bbs') = 0 /\ Len(stack') = 0 /\ Len(frames') = 0
  BY EmptySeq DEF Exit
<1>2. DataFlowInv'
  BY <1>1 DEF DataFlowInv, EdgesInherit, StackInherits, ReservedInherit, EntriesInherit, ScopesGrow, OpenTests
<1>3. CyclesHaveTests'
  <2>1. 1..Len(bbs') = {}
    BY <1>1
  <2> QED BY <2>1 DEF CyclesHaveTests
<1>4. TestsCannotBePassed' /\ ReservedAreNoTests' /\ LoopsAreClosed'
  BY <1>1 DEF TestsCannotBePassed, ReservedAreNoTests, LoopsAreClosed
<1> QED BY <1>2, <1>3, <1>4 DEF LoopInv

LEMMA StatementFlow ==
  ASSUME StackInv, StackInv', DataFlowInv, LoopInv, InsideFunction, Statement
  PROVE  DataFlowInv' /\ LoopInv'
<1>0. /\ frames # <<>> /\ Current \in Nat /\ Top = stack[Len(stack)]
      /\ Len(stack) \in 1..Len(stack)
  BY CurrentIsYoungest, Inside DEF InsideFunction
<1>1. \A v \in {Constant, Garbage, Computed(Current)} : v \in Value
  BY <1>0, ValueTypes
<1>2. ASSUME NEW v \in Value, frames' = Visited(frames, v), UNCHANGED <<bbs, stack>>
      PROVE  DataFlowInv' /\ LoopInv'
  <2>1. Declares
    BY <1>2, VisitedShape DEF Declares, SameCode, SameEntry, NewName
  <2> QED BY <2>1, DeclaresFlow
<1>3. ASSUME NEW x \in Names, Declare(x) PROVE DataFlowInv' /\ LoopInv'
  <2>1. CASE IsDeclared(x)
    BY <1>3, <2>1, ExitFlow DEF Declare
  <2>2. CASE ~IsDeclared(x)
    <3>1. /\ bbs' = bbs /\ frames' = Visited(frames, Computed(Current))
          /\ stack' = [stack EXCEPT ![Len(stack)] = Declared(x)]
      BY <1>0, <1>3, <2>2 DEF Declare, Declared
    <3>2. SameCode /\ \A i \in 1..Len(stack) : stack'[i] = IF i = Len(stack) THEN Declared(x) ELSE stack[i]
      BY <1>0, <1>1, <3>1, DeclaredTop, TopReplaced, VisitedShape DEF SameCode
    <3>3. stack'[Len(stack)].locals = [Top.locals EXCEPT ![x] = Current]
      BY <1>0, <3>2, DeclaredTop
    <3>4. Top.locals[x] = 0 /\ DOMAIN Top.locals = Names
      BY <1>0, <2>2, Inside DEF IsDeclared, StackEntry, Locals
    <3>5. NewName(stack[Len(stack)].locals, stack'[Len(stack)].locals, Current)
      BY <1>0, <3>3, <3>4 DEF NewName
    <3> QED BY <3>2, <3>5, DeclaresFlow DEF Declares
  <2> QED BY <2>1, <2>2
<1>4. ASSUME NEW x \in Names, Refer(x) PROVE DataFlowInv' /\ LoopInv'
  BY <1>1, <1>2, <1>4, ExitFlow DEF Refer
<1>5. ASSUME Compute \/ EmptyControl PROVE DataFlowInv' /\ LoopInv'
  BY <1>1, <1>2, <1>5 DEF Compute, EmptyControl
<1>6. ASSUME NEW v \in {Constant, Computed(Current)}, Return(v) PROVE DataFlowInv' /\ LoopInv'
  <2>1. CASE bbs[Current].terms # <<>>
    BY <1>6, <2>1, ExitFlow DEF Return
  <2>2. CASE bbs[Current].terms = <<>>
    <3>1. /\ bbs' = bbs /\ frames' = Visited(frames, v) /\ v \in Value
          /\ stack' = [stack EXCEPT ![Len(stack)] = Returning(v)]
      BY <1>0, <1>1, <1>6, <2>2 DEF Return, Returning
    <3>2. SameCode /\ \A i \in 1..Len(stack) : stack'[i] = IF i = Len(stack) THEN Returning(v) ELSE stack[i]
      BY <1>0, <3>1, ReturningTop, TopReplaced, VisitedShape DEF SameCode
    <3>3. stack'[Len(stack)].locals = stack[Len(stack)].locals
      BY <1>0, <3>1, <3>2, ReturningTop
    <3>4. Declares
      BY <3>2, <3>3 DEF Declares, NewName
    <3> QED BY <3>4, DeclaresFlow
  <2> QED BY <2>1, <2>2
<1> QED BY <1>3, <1>4, <1>5, <1>6 DEF Statement


-----------------------------------------------------------------------------
(* The steps that begin or end a visit generate code in that way.          *)

LEMMA CloseFunctionFlow ==
  ASSUME StackInv, StackInv', BodyInv, BodyInv', DataFlowInv, LoopInv, frames # <<>>,
         Innermost.kind \in {"function", "main"},
         NEW t \in Terminator, t.succ = {}, t.locals = Top.locals,
         bbs' = Terminate(t), stack' = PopBlock(stack),
         Len(frames') = Len(Front(frames)),
         \A k \in 1..Len(Front(frames)) : SameFrame(frames'[k], Front(frames)[k])
  PROVE  DataFlowInv' /\ LoopInv'
<1>1. PICK p : p = Len(frames) - 1
  OBVIOUS
<1>2. PICK h : h = Innermost.base - 1
  OBVIOUS
<1>3. /\ Keeps(p, h) /\ p \in Nat /\ h \in Nat
      /\ Len(stack') = h /\ \A i \in 1..h : stack'[i] = stack[i]
      /\ Len(frames') = p /\ \A k \in 1..p : SameFrame(frames'[k], frames[k])
  <2>1. Len(Front(frames)) = p /\ \A k \in 1..p : Front(frames)[k] = frames[k]
    BY <1>1, <1>2, Dropped
  <2> QED BY <1>1, <1>2, <2>1, Dropped
<1>4. SameShape(p, h)
  BY <1>3 DEF SameShape, SameEntry
<1>5. Ended(bbs', t)
  BY EndedCode
<1>6. StepEnds(t) /\ Len(bbs') = Len(bbs) /\ Len(bbs) \in Nat
  BY <1>5, Lengths DEF StepEnds, GoesOn, Ended
<1>7. Fresh = {}
  BY <1>6 DEF Fresh
<1>8. Generates(p, h, t)
  BY <1>3, <1>4, <1>6, <1>7 DEF Generates
<1> QED BY <1>8, GeneratesFlow

LEMMA CloseConstructFlow ==
  ASSUME StackInv, StackInv', BodyInv, BodyInv', DataFlowInv, LoopInv, frames # <<>>,
         Innermost.kind \in {"if", "else", "while"},
         NEW t \in Terminator, t.locals = Top.locals,
         \A s \in t.succ : s = Innermost.merge \/ (Innermost.kind = "while" /\ s = Innermost.other),
         NEW v \in Value,
         bbs' = Place(Terminate(t), Innermost.merge),
         stack' = PushMerge(PopBlock(stack), Innermost.merge),
         frames' = Visited(Front(frames), v)
  PROVE  DataFlowInv' /\ LoopInv'
<1>1. PICK p : p = Len(frames) - 1
  OBVIOUS
<1>2. PICK h : h = Innermost.base - 1
  OBVIOUS
<1>3. PICK m : m = Innermost.merge
  OBVIOUS
<1>4. /\ Len(frames) \in 1..Len(frames) /\ Innermost = frames[Len(frames)]
      /\ Keeps(p, h) /\ p \in Nat /\ h \in Nat /\ Len(frames) = p + 1
      /\ PopBlock(stack) \in Seq(StackEntry) /\ Len(PopBlock(stack)) = h
      /\ \A i \in 1..h : PopBlock(stack)[i] = stack[i]
      /\ Front(frames) \in Seq(Frame) /\ Len(Front(frames)) = p
      /\ \A k \in 1..p : Front(frames)[k] = frames[k]
  BY <1>1, <1>2, Dropped, Inside
<1>5. p > 0 /\ m # 0
  BY <1>3, <1>4 DEF StackInv, ReservedBlocks
<1>6. m \in Reserved(Len(frames))
  BY <1>3, <1>4, <1>5 DEF Reserved
<1>7. h > 0 /\ h \in 1..h
  BY <1>4, <1>5, KeptPart
<1>8. m \in 1..Len(bbs) /\ m \in Nat
  BY <1>6, ReservedJoin, Lengths
<1>9. StepEnds(t) /\ Len(bbs') = Len(bbs)
  <2>1. PICK fn : fn = CurrentFunction
    OBVIOUS
  <2>2. \A s \in t.succ : Joinable(s, fn)
    BY <2>1, <1>3, <1>6, ReservedJoin, TestJoin
  <2> QED BY <2>1, <2>2, <1>3, <1>8, PlacedEnd
<1>10. /\ Len(stack') = h + 1 /\ stack'[h+1].block = m /\ stack'[h+1].locals = stack[h].locals
       /\ \A i \in 1..h : stack'[i] = stack[i]
  <2>1. PICK q : q = PopBlock(stack)
    OBVIOUS
  <2>2. /\ q \in Seq(StackEntry) /\ Len(q) = h /\ \A i \in 1..h : q[i] = stack[i]
        /\ stack' = PushMerge(q, m) /\ q # <<>>
    BY <2>1, <1>3, <1>4, <1>7, EmptySeq
  <2>3. Pushed(PushMerge(q, m), q, m) /\ PushMerge(q, m)[Len(q)+1].locals = q[Len(q)].locals
    BY <2>2, <1>8, PushedMerge, InheritedLocals
  <2> QED BY <2>2, <2>3, <1>7 DEF Pushed
<1>11. Len(frames') = p /\ \A k \in 1..p : SameFrame(frames'[k], frames[k])
  BY <1>4, VisitedFrames
<1>12. SameShape(p, h)
  BY <1>4, <1>10, <1>11 DEF SameShape, SameEntry
<1>13. Fresh = {}
  BY <1>9, Lengths DEF Fresh
<1>14. PushesGiven(p, h)
  BY <1>1, <1>6, <1>7, <1>10 DEF PushesGiven, Given
<1>15. \A s \in t.succ :
         Given(p, s) \/ (p = Len(frames) - 1 /\ Innermost.kind = "while" /\ s = Innermost.other)
  BY <1>1, <1>3, <1>6 DEF Given
<1>16. Generates(p, h, t)
  BY <1>4, <1>9, <1>10, <1>11, <1>12, <1>13, <1>14, <1>15 DEF Generates
<1> QED BY <1>16, GeneratesFlow

LEMMA SwitchFlow ==
  ASSUME StackInv, StackInv', BodyInv, BodyInv', DataFlowInv, LoopInv, frames # <<>>,
         EndThen, Innermost.other # 0
  PROVE  DataFlowInv' /\ LoopInv'
<1>0. /\ Len(frames) \in 1..Len(frames) /\ Innermost = frames[Len(frames)] /\ Innermost.kind = "if"
      /\ Innermost \in Frame /\ Innermost.base \in Nat /\ Top \in StackEntry
      /\ frames \in Seq(Frame)
  BY Inside DEF StackInv, TypeOK, EndThen, Frame
<1>1. PICK p : p = Len(frames) - 1
  OBVIOUS
<1>2. PICK h : h = Innermost.base - 1
  OBVIOUS
<1>3. PICK o : o = Innermost.other
  OBVIOUS
<1>4. PICK m : m = Innermost.merge
  OBVIOUS
<1>5. PICK g : g = [Innermost EXCEPT !.kind = "else", !.block = Innermost.other,
                                     !.last = NoValue, !.empty = TRUE]
  OBVIOUS
<1>6. /\ Keeps(p, h) /\ p \in Nat /\ h \in Nat /\ Len(frames) = p + 1
      /\ PopBlock(stack) \in Seq(StackEntry) /\ Len(PopBlock(stack)) = h
      /\ \A i \in 1..h : PopBlock(stack)[i] = stack[i]
  BY <1>1, <1>2, Dropped
<1>7. p > 0 /\ m # 0
  BY <1>0, <1>4, <1>6 DEF StackInv, ReservedBlocks
<1>8. Reserved(Len(frames)) = {o, m}
  BY <1>0, <1>3, <1>4, <1>7 DEF Reserved
<1>9. o \in 1..Len(bbs) /\ o \in Nat /\ m \in Nat
  BY <1>8, ReservedJoin, Lengths
<1>10. PICK t : t = ReturnOrBranch(m)
  OBVIOUS
<1>11. t \in Terminator /\ t.locals = Top.locals /\ \A s \in t.succ : s = m
  <2>1. t \in Terminator
    BY <1>0, <1>9, <1>10, TerminatorTypes
  <2>2. t.locals = Top.locals /\ \A s \in t.succ : s = m
    BY <1>10 DEF ReturnOrBranch, Ret, Br
  <2> QED BY <2>1, <2>2
<1>12. /\ bbs' = Place(Terminate(t), o) /\ stack' = PushInheriting(PopBlock(stack), o)
       /\ frames' = [frames EXCEPT ![Len(frames)] = g]
  BY <1>0, <1>3, <1>4, <1>5, <1>10 DEF EndThen
<1>13. StepEnds(t) /\ Len(bbs') = Len(bbs)
  <2>1. PICK fn : fn = CurrentFunction
    OBVIOUS
  <2>2. \A s \in t.succ : Joinable(s, fn)
    BY <2>1, <1>8, <1>11, ReservedJoin
  <2> QED BY <2>1, <2>2, <1>9, <1>11, <1>12, PlacedEnd
<1>14. g \in Frame /\ g.kind = "else" /\ g.block = o /\ g.merge = m /\ g.other = o /\ g.base = Innermost.base
  BY <1>0, <1>3, <1>4, <1>5, ValueTypes DEF Frame, FrameKind
<1>15. /\ Len(frames') = p + 1 /\ frames'[p+1] = g
       /\ \A k \in 1..p : SameFrame(frames'[k], frames[k])
  <2>1. /\ Len(frames') = Len(frames)
        /\ \A k \in 1..Len(frames) : frames'[k] = IF k = Len(frames) THEN g ELSE frames[k]
    BY <1>0, <1>12, <1>14, ExceptSeq
  <2>2. \A k \in 1..p : k \in 1..Len(frames) /\ k # Len(frames)
    BY <1>6
  <2> QED BY <2>1, <2>2, <1>0, <1>6 DEF SameFrame
<1>16. h > 0 /\ h \in 1..h
  BY <1>6, <1>7, KeptPart
<1>17. /\ Len(stack') = h + 1 /\ stack'[h+1].block = o /\ stack'[h+1].locals = stack[h].locals
       /\ \A i \in 1..h : stack'[i] = stack[i]
  <2>1. PICK q : q = PopBlock(stack)
    OBVIOUS
  <2>2. /\ q \in Seq(StackEntry) /\ Len(q) = h /\ \A i \in 1..h : q[i] = stack[i]
        /\ stack' = PushInheriting(q, o) /\ q # <<>>
    BY <2>1, <1>6, <1>12, <1>16, EmptySeq
  <2>3. Pushed(PushInheriting(q, o), q, o) /\ PushInheriting(q, o)[Len(q)+1].locals = q[Len(q)].locals
    BY <2>2, <1>9, PushedInheriting, InheritedLocals
  <2> QED BY <2>2, <2>3, <1>16 DEF Pushed
<1>18. SameShape(p, h)
  BY <1>6, <1>15, <1>17 DEF SameShape, SameEntry
<1>19. Reserved(p + 1)' = {m}
  BY <1>7, <1>14, <1>15 DEF Reserved
<1>20. Given(p, o) /\ Given(p, m)
  BY <1>1, <1>8 DEF Given
<1>21. Fresh = {}
  BY <1>13, Lengths DEF Fresh
<1>22. PushesGiven(p, h)
  BY <1>16, <1>17, <1>20 DEF PushesGiven
<1>23. BeginsVisit(p, h)
  <2>1. frames'[p+1].base = h + 1
    BY <1>0, <1>2, <1>14, <1>15
  <2>2. IsNested(p+1)' /\ frames'[p+1].kind # "while"
    BY <1>14, <1>15 DEF IsNested
  <2> QED BY <2>1, <2>2, <1>15, <1>16, <1>19, <1>20 DEF BeginsVisit
<1>24. frames'[p+1].kind # "while"
  BY <1>14, <1>15
<1>25. \A s \in t.succ : Given(p, s)
  BY <1>11, <1>20
<1>26. Generates(p, h, t)
  BY <1>6, <1>11, <1>13, <1>17, <1>18, <1>21, <1>22, <1>23, <1>24, <1>25 DEF Generates
<1> QED BY <1>26, GeneratesFlow

(* A visit that begins: its blocks are all new, and open except for the    *)
(* test of a while.                                                        *)
LEMMA Offset ==
  ASSUME NEW n \in Nat, NEW k \in Nat, NEW b \in (n + 1)..(n + k)
  PROVE  b - n \in 1..k /\ n + (b - n) = b
OBVIOUS

LEMMA OpenFlow ==
  ASSUME StackInv, StackInv', BodyInv, BodyInv', DataFlowInv, LoopInv, frames # <<>>,
         NEW t \in Terminator, t.locals = Top.locals, NEW f \in Frame, NEW new \in Seq(BasicBlock),
         t.succ \subseteq (Len(bbs) + 1)..(Len(bbs) + Len(new)),
         NewVisit(f, new), NewBlocks(f, new), f.base = Len(stack) + 1,
         f.kind = "while" => /\ t.succ = {Len(bbs) + 1} /\ f.other = Len(bbs) + 1
                             /\ f.block = Len(bbs) + 2
                             /\ NewTest(Len(bbs) + 1),
         \A b \in Fresh : NewTest(b) \/ NewTarget(b),
         bbs' = Terminate(t) \o new, frames' = Append(frames, f),
         Len(stack') = Len(stack) + 1, \A i \in 1..Len(stack) : stack'[i] = stack[i],
         stack'[Len(stack)+1].block = f.block, stack'[Len(stack)+1].locals = stack[Len(stack)].locals
  PROVE  DataFlowInv' /\ LoopInv'
<1>1. PICK p : p = Len(frames)
  OBVIOUS
<1>2. PICK h : h = Len(stack)
  OBVIOUS
<1>3. PICK n : n = Len(bbs)
  OBVIOUS
<1>4. PICK k : k = Len(new)
  OBVIOUS
<1>5. /\ Keeps(p, h) /\ p \in Nat /\ h \in Nat /\ n \in Nat /\ k \in Nat /\ frames \in Seq(Frame)
      /\ h > 0
  BY <1>1, <1>2, <1>3, <1>4, Lengths, LenProperties, Inside DEF Keeps, StackInv, TypeOK
<1>6. /\ StepEnds(t) /\ Len(bbs') = n + k /\ \A j \in 1..k : bbs'[n + j] = new[j]
  BY <1>3, <1>4, ExtendedEnd
<1>7. Fresh = (n + 1)..(n + k)
  BY <1>3, <1>6 DEF Fresh
<1>8. /\ Len(frames') = p + 1 /\ frames'[p+1] = f /\ \A l \in 1..p : frames'[l] = frames[l]
  BY <1>1, <1>5, AppendProperties
<1>9. SameShape(p, h)
  BY <1>2, <1>5, <1>8 DEF SameShape, SameEntry, SameFrame
<1>10. \A b \in Fresh : bbs'[b].name # "entry"
  <2> SUFFICES ASSUME NEW b \in Fresh PROVE bbs'[b].name # "entry"
    OBVIOUS
  <2>1. PICK j : j = b - n
    OBVIOUS
  <2>2. j \in 1..k /\ n + j = b
    <3>1. b \in (n + 1)..(n + k) /\ n \in Nat /\ k \in Nat
      BY <1>5, <1>7
    <3> QED BY ONLY <2>1, <3>1, Offset
  <2>3. bbs'[b] = new[j]
    BY <2>2, <1>6
  <2> QED BY <2>2, <2>3, <1>4 DEF NewBlocks
<1>11. Given(p, f.block) /\ \A s \in t.succ : Given(p, s)
  BY <1>3, <1>4, <1>7 DEF Given, NewVisit
<1>12. PushesGiven(p, h)
  BY <1>2, <1>5, <1>11 DEF PushesGiven
<1>13. \A r \in Reserved(p+1)' : Given(p, r)
  <2> SUFFICES ASSUME NEW r \in Reserved(p+1)' PROVE r \in Fresh
    BY DEF Given
  <2>1. r \in (f.block + 1)..Len(bbs') /\ f.block \in Nat
    <3>1. p + 1 \in 1..Len(frames')
      BY <1>5, <1>8
    <3> QED BY <3>1, <1>8 DEF StackInv, ReservedBlocks, Frame
  <2>2. f.block \in (n + 1)..(n + k)
    BY <1>3, <1>4 DEF NewVisit
  <2> QED BY <2>1, <2>2, <1>5, <1>6, <1>7
<1>14. IsNested(p+1)'
  BY <1>8 DEF IsNested, NewVisit
<1>15. BeginsVisit(p, h)
  BY <1>1, <1>2, <1>5, <1>8, <1>13, <1>14 DEF BeginsVisit
<1>16. frames'[p+1].kind = "while" => t.succ = {Len(bbs) + 1}
  BY <1>8
<1>17. \A i \in 1..h : stack'[i] = stack[i]
  BY <1>2
<1>18. Len(stack') = h + 1
  BY <1>2
<1>19. Generates(p, h, t)
  BY <1>1, <1>5, <1>6, <1>8, <1>9, <1>10, <1>11, <1>12, <1>15, <1>16, <1>17, <1>18 DEF Generates
<1> QED BY <1>19, GeneratesFlow


LEMMA BeginIfFlow ==
  ASSUME StackInv, StackInv', BodyInv, BodyInv', DataFlowInv, LoopInv, frames # <<>>,
         NEW withElse \in BOOLEAN, BeginIf(withElse)
  PROVE  DataFlowInv' /\ LoopInv'
<1>1. PICK n : n = Len(bbs)
  OBVIOUS
<1>2. PICK fn : fn = CurrentFunction
  OBVIOUS
<1> DEFINE merge == IF withElse THEN n + 3 ELSE n + 2
           other == IF withElse THEN n + 2 ELSE 0
           a     == NewBlock("if", fn, TRUE)
           b     == NewBlock("else", fn, FALSE)
           c     == NewBlock("ifcont", fn, FALSE)
           new   == <<a>> \o (IF withElse THEN <<b>> ELSE <<>>) \o <<c>>
           t     == CondBr(n + 1, IF withElse THEN other ELSE merge)
           f     == [kind |-> "if", block |-> n + 1, base |-> Len(stack) + 1,
                     other |-> other, merge |-> merge, void |-> Innermost.void,
                     last |-> NoValue, empty |-> TRUE]
<1>3. /\ bbs' = Terminate(t) \o new /\ stack' = PushInheriting(stack, n + 1)
      /\ frames' = Append(frames, f)
  BY <1>1, <1>2 DEF BeginIf
<1>4. /\ Len(stack) \in Nat /\ n \in Nat /\ stack # <<>> /\ stack \in Seq(StackEntry)
      /\ Top \in StackEntry /\ Innermost \in Frame
  BY <1>1, Inside, Lengths, EmptySeq DEF StackInv, TypeOK
<1>5. fn \in Nat
  <2>1. bbs[Current] \in BasicBlock
    BY Inside, ElementOfSeq DEF StackInv, TypeOK
  <2> QED BY <2>1, <1>2 DEF CurrentFunction, BasicBlock
<1>6. \A d \in {a, b, c} : /\ d \in BasicBlock /\ d.terms = <<>> /\ d.fn = fn
                           /\ d.name # "entry" /\ d.name # "whiletest"
  <2>1. {"if", "else", "ifcont"} \subseteq BlockName
    BY DEF BlockName
  <2>2. ASSUME NEW name \in {"if", "else", "ifcont"}, NEW placed \in BOOLEAN,
               NEW d, d = NewBlock(name, fn, placed)
        PROVE  /\ d \in BasicBlock /\ d.terms = <<>> /\ d.fn = fn
               /\ d.name # "entry" /\ d.name # "whiletest"
    <3>1. d \in BasicBlock /\ d.terms = <<>> /\ d.fn = fn /\ d.name = name
      BY <1>5, <2>1, <2>2, NewBlockType DEF NewBlock
    <3> QED BY <3>1, <2>2
  <2> QED BY <2>2
<1>7. a.placed
  BY DEF NewBlock
<1>8. t \in Terminator /\ t.succ = {n + 1, n + 2} /\ t.locals = Top.locals
  <2>1. n + 1 \in Nat /\ n + 2 \in Nat
    BY <1>4
  <2>2. t = CondBr(n + 1, n + 2)
    OBVIOUS
  <2> HIDE DEF t
  <2>3. t \in Terminator
    BY <1>4, <2>1, <2>2, TerminatorTypes
  <2> QED BY <2>2, <2>3 DEF CondBr
<1>9. /\ f \in Frame /\ f.kind = "if" /\ f.block = n + 1 /\ f.other = other /\ f.merge = merge
      /\ f.base = Len(stack) + 1
  BY <1>4, ValueTypes DEF Frame, FrameKind
<1>10. Pushed(stack', stack, n + 1) /\ stack'[Len(stack)+1].locals = stack[Len(stack)].locals
  <2>1. n + 1 \in Nat
    BY <1>4
  <2> QED BY <1>3, <1>4, <2>1, PushedInheriting, InheritedLocals
<1> HIDE DEF a, b, c, t, f
<1>11. /\ new \in Seq(BasicBlock) /\ Len(new) = IF withElse THEN 3 ELSE 2
       /\ \A i \in 1..Len(new) : new[i] \in {a, b, c}
       /\ new[1] = a
  <2>1. a \in BasicBlock /\ b \in BasicBlock /\ c \in BasicBlock
    BY <1>6
  <2>2. /\ new \in Seq(BasicBlock) /\ Len(new) = IF withElse THEN 3 ELSE 2
        /\ \A i \in 1..Len(new) : new[i] \in {a, b, c}
    BY <2>1, IfBlocks
  <2>3. new[1] = a
    OBVIOUS
  <2> QED BY <2>2, <2>3
<1> HIDE DEF new
<1>12. NewVisit(f, new)
  BY <1>1, <1>4, <1>9, <1>11 DEF NewVisit
<1>13. ASSUME NEW j \in 1..Len(new)
       PROVE  /\ new[j].fn = fn /\ new[j].name # "entry" /\ new[j].name # "whiletest"
              /\ new[j].terms = <<>> /\ Len(new[j].terms) = 0
              /\ n + j = f.block => new[j].placed
              /\ n + j = f.block \/ SetAside(f, n + j)
  <2>1. /\ new[j].fn = fn /\ new[j].name # "entry" /\ new[j].name # "whiletest"
        /\ new[j].terms = <<>>
    BY <1>6, <1>11
  <2>2. n + j = f.block => new[j].placed
    <3>1. n + j = f.block => j = 1
      BY <1>4, <1>9, <1>11
    <3> QED BY <3>1, <1>7, <1>11
  <2>3. n + j = n + 1 \/ n + j \in {other, merge}
    BY <1>4, <1>11
  <2>4. n + j # 0
    BY <1>4, <1>11
  <2>5. Len(new[j].terms) = 0
    BY <2>1, EmptySeq
  <2>6. n + j = f.block \/ SetAside(f, n + j)
    <3>1. n + j = n + 1 => n + j = f.block
      BY <1>9
    <3>2. n + j \in {other, merge} => SetAside(f, n + j)
      BY <2>4, <1>9 DEF SetAside
    <3> QED BY <2>3, <3>1, <3>2
  <2> QED BY <2>1, <2>2, <2>5, <2>6
<1>14. NewBlocks(f, new)
  <2>1. \A j \in 1..Len(new) : \A i \in 1..Len(new[j].terms) : FALSE
    BY <1>13
  <2> QED BY <2>1, <1>1, <1>2, <1>13 DEF NewBlocks
<1>15. t.succ \subseteq (Len(bbs) + 1)..(Len(bbs) + Len(new))
  BY <1>1, <1>4, <1>8, <1>11
<1>16. \A d \in Fresh : NewTest(d) \/ NewTarget(d)
  <2> SUFFICES ASSUME NEW d \in Fresh PROVE NewTarget(d)
    OBVIOUS
  <2>1. /\ Len(bbs') = n + Len(new) /\ \A j \in 1..Len(new) : bbs'[n + j] = new[j]
        /\ Len(new) \in Nat
    BY <1>1, <1>3, <1>8, <1>11, ExtendedEnd, LenProperties
  <2>2. PICK j : j = d - n
    OBVIOUS
  <2>3. j \in 1..Len(new) /\ n + j = d
    <3>1. d \in (n + 1)..(n + Len(new))
      BY <1>1, <2>1 DEF Fresh
    <3> QED BY <2>1, <2>2, <3>1, <1>4
  <2>4. bbs'[d] = new[j]
    BY <2>1, <2>3
  <2> QED BY <2>3, <2>4, <1>13 DEF NewTarget, IsTest
<1>17. /\ Len(stack') = Len(stack) + 1 /\ \A i \in 1..Len(stack) : stack'[i] = stack[i]
       /\ stack'[Len(stack)+1].block = f.block
  BY <1>9, <1>10 DEF Pushed
<1>18. f.kind # "while"
  BY <1>9
<1> HIDE DEF merge, other
<1> QED BY <1>3, <1>8, <1>9, <1>10, <1>11, <1>12, <1>14, <1>15, <1>16, <1>17, <1>18, OpenFlow

LEMMA BeginWhileFlow ==
  ASSUME StackInv, StackInv', BodyInv, BodyInv', DataFlowInv, LoopInv, frames # <<>>, BeginWhile
  PROVE  DataFlowInv' /\ LoopInv'
<1>1. PICK n : n = Len(bbs)
  OBVIOUS
<1>2. PICK fn : fn = CurrentFunction
  OBVIOUS
<1> DEFINE t     == CondBr(n + 2, n + 3)
           u     == Br(n + 1)
           a     == [NewBlock("whiletest", fn, TRUE) EXCEPT !.terms = <<t>>]
           b     == NewBlock("while", fn, TRUE)
           c     == NewBlock("whilecont", fn, FALSE)
           new   == <<a, b, c>>
           f     == [kind |-> "while", block |-> n + 2, base |-> Len(stack) + 1,
                     other |-> n + 1, merge |-> n + 3, void |-> Innermost.void,
                     last |-> NoValue, empty |-> TRUE]
<1>3. /\ bbs' = Terminate(u) \o new
      /\ stack' = PushInheriting(PopBlock(PushInheriting(stack, n + 1)), n + 2)
      /\ frames' = Append(frames, f)
  BY <1>1, <1>2 DEF BeginWhile
<1>4. /\ Len(stack) \in Nat /\ n \in Nat /\ stack # <<>> /\ stack \in Seq(StackEntry)
      /\ Top \in StackEntry /\ Innermost \in Frame
      /\ n + 1 \in Nat /\ n + 2 \in Nat /\ n + 3 \in Nat
  BY <1>1, Inside, Lengths, EmptySeq DEF StackInv, TypeOK
<1>5. fn \in Nat
  <2>1. bbs[Current] \in BasicBlock
    BY Inside, ElementOfSeq DEF StackInv, TypeOK
  <2> QED BY <2>1, <1>2 DEF CurrentFunction, BasicBlock
<1>6. /\ t \in Terminator /\ t.succ = {n + 2, n + 3} /\ t.locals = Top.locals
      /\ u \in Terminator /\ u.succ = {n + 1} /\ u.locals = Top.locals
  <2>1. t \in Terminator /\ u \in Terminator
    BY <1>4, TerminatorTypes
  <2> QED BY <2>1 DEF CondBr, Br
<1> HIDE DEF t, u
<1>7. /\ a \in BasicBlock /\ a.terms = <<t>> /\ a.fn = fn /\ a.name = "whiletest" /\ a.placed
      /\ b \in BasicBlock /\ b.terms = <<>> /\ b.fn = fn /\ b.name = "while" /\ b.placed
      /\ c \in BasicBlock /\ c.terms = <<>> /\ c.fn = fn /\ c.name = "whilecont"
  <2>1. {"whiletest", "while", "whilecont"} \subseteq BlockName
    BY DEF BlockName
  <2> DEFINE d == NewBlock("whiletest", fn, TRUE)
  <2>2. /\ d \in BasicBlock /\ d.fn = fn /\ d.name = "whiletest" /\ d.placed
        /\ b \in BasicBlock /\ b.terms = <<>> /\ b.fn = fn /\ b.name = "while" /\ b.placed
        /\ c \in BasicBlock /\ c.terms = <<>> /\ c.fn = fn /\ c.name = "whilecont"
    BY <1>5, <2>1, NewBlockType DEF NewBlock
  <2>3. <<t>> \in Seq(Terminator)
    BY <1>6
  <2> HIDE DEF d
  <2>4. [d EXCEPT !.terms = <<t>>] \in BasicBlock
    BY <2>2, <2>3 DEF BasicBlock
  <2>5. /\ [d EXCEPT !.terms = <<t>>].terms = <<t>> /\ [d EXCEPT !.terms = <<t>>].fn = fn
        /\ [d EXCEPT !.terms = <<t>>].name = "whiletest" /\ [d EXCEPT !.terms = <<t>>].placed
    BY <2>2, <2>3 DEF BasicBlock
  <2> QED BY <2>2, <2>4, <2>5 DEF d
<1>8. /\ f \in Frame /\ f.kind = "while" /\ f.block = n + 2 /\ f.other = n + 1 /\ f.merge = n + 3
      /\ f.base = Len(stack) + 1
  BY <1>4, ValueTypes DEF Frame, FrameKind
<1>9. Pushed(stack', stack, n + 2) /\ stack'[Len(stack)+1].locals = stack[Len(stack)].locals
  <2>1. stack' = PushInheriting(stack, n + 2)
    BY <1>3, <1>4, PopPushed
  <2> QED BY <2>1, <1>4, PushedInheriting, InheritedLocals
<1> HIDE DEF a, b, c, f
<1>10. /\ new \in Seq(BasicBlock) /\ Len(new) = 3 /\ new[1] = a /\ new[2] = b /\ new[3] = c
  BY <1>7
<1> HIDE DEF new
<1>11. NewVisit(f, new)
  BY <1>1, <1>4, <1>8, <1>10 DEF NewVisit
<1>12. Len(a.terms) = 1 /\ a.terms[1] = t /\ Len(b.terms) = 0 /\ Len(c.terms) = 0
  BY <1>7, EmptySeq
<1>13. NewBlocks(f, new)
  <2>1. ASSUME NEW j \in 1..Len(new)
        PROVE  /\ new[j].fn = fn /\ new[j].name # "entry"
               /\ \A i \in 1..Len(new[j].terms) : new[j].terms[i].succ \subseteq (n + 1)..(n + 3)
               /\ n + j = f.block => new[j].placed
               /\ \/ n + j = f.block \/ SetAside(f, n + j)
                  \/ new[j].placed /\ Len(new[j].terms) = 1
    <3>1. j = 1 \/ j = 2 \/ j = 3
      BY <1>10
    <3>2. CASE j = 1
      <4>1. \A i \in 1..Len(new[j].terms) : new[j].terms[i].succ = {n + 2, n + 3}
        BY <3>2, <1>6, <1>10, <1>12
      <4>2. {n + 2, n + 3} \subseteq (n + 1)..(n + 3)
        BY <1>4
      <4> QED BY <3>2, <4>1, <4>2, <1>7, <1>10, <1>12
    <3>3. CASE j = 2
      BY <3>3, <1>7, <1>8, <1>10, <1>12
    <3>4. CASE j = 3
      <4>1. SetAside(f, n + j) /\ n + j # f.block
        BY <3>4, <1>4, <1>8 DEF SetAside
      <4> QED BY <3>4, <4>1, <1>7, <1>10, <1>12
    <3> QED BY <3>1, <3>2, <3>3, <3>4
  <2> QED BY <2>1, <1>1, <1>2, <1>10 DEF NewBlocks
<1>14. u.succ \subseteq (Len(bbs) + 1)..(Len(bbs) + Len(new))
  BY <1>1, <1>4, <1>6, <1>10
<1>15. /\ Len(stack') = Len(stack) + 1 /\ \A i \in 1..Len(stack) : stack'[i] = stack[i]
       /\ stack'[Len(stack)+1].block = f.block
  BY <1>8, <1>9 DEF Pushed
<1>16. /\ Len(bbs') = n + 3 /\ bbs'[n + 1] = a /\ bbs'[n + 2] = b /\ bbs'[n + 3] = c
  <2>1. Len(bbs') = n + 3 /\ \A j \in 1..3 : bbs'[n + j] = new[j]
    BY <1>1, <1>3, <1>6, <1>10, ExtendedEnd
  <2>2. 1 \in 1..3 /\ 2 \in 1..3 /\ 3 \in 1..3
    OBVIOUS
  <2> QED BY <2>1, <2>2, <1>10
<1>17. n + 2 \in Fresh /\ n + 3 \in Fresh /\ \A d \in Fresh : d \in {n + 1, n + 2, n + 3}
  BY <1>1, <1>4, <1>16 DEF Fresh
<1>18. NewTarget(n + 2) /\ NewTarget(n + 3)
  BY <1>7, <1>16 DEF NewTarget, IsTest
<1>19. NewTest(n + 1)
  <2>1. Done(n + 1)' /\ IsTest(n + 1)' /\ Known(n + 1)' = Top.locals
    BY <1>6, <1>7, <1>12, <1>16 DEF Done, IsTest, Known
  <2>2. Succ(n + 1)' = {n + 2, n + 3}
    BY <1>6, <1>12, <1>16 DEF Succ
  <2> QED BY <2>1, <2>2, <1>17, <1>18 DEF NewTest, NewTarget
<1>20. \A d \in Fresh : NewTest(d) \/ NewTarget(d)
  BY <1>17, <1>18, <1>19
<1>21. f.kind = "while" => /\ u.succ = {Len(bbs) + 1} /\ f.other = Len(bbs) + 1
                           /\ f.block = Len(bbs) + 2
                           /\ NewTest(Len(bbs) + 1)
  BY <1>1, <1>6, <1>8, <1>19
<1> QED BY <1>3, <1>6, <1>8, <1>9, <1>10, <1>11, <1>13, <1>14, <1>15, <1>20, <1>21, OpenFlow


(* A function definition adds an entry block that nothing branches to.     *)
LEMMA DefineFunctionFlow ==
  ASSUME StackInv, StackInv', BodyInv, DataFlowInv, LoopInv, NEW params, NEW void \in BOOLEAN,
         DefineFunction(params, void)
  PROVE  DataFlowInv' /\ LoopInv'
<1>1. PICK p : p = Len(frames)
  OBVIOUS
<1>2. PICK h : h = Len(stack)
  OBVIOUS
<1>3. PICK n : n = Len(bbs)
  OBVIOUS
<1>4. PICK c : c = n + 1
  OBVIOUS
<1> DEFINE new == NewBlock("entry", c, TRUE)
           e == Entry(c, LocalsOf(params, c))
           f == [kind |-> "function", block |-> c, base |-> h + 1,
                 other |-> 0, merge |-> 0, void |-> void,
                 last |-> NoValue, empty |-> TRUE]
<1>5. /\ bbs' = Append(bbs, new) /\ stack' = Append(stack, e) /\ frames' = Append(frames, f)
  BY <1>2, <1>3, <1>4 DEF DefineFunction
<1>6. /\ p \in Nat /\ h \in Nat /\ n \in Nat /\ c \in Nat /\ Keeps(p, h)
      /\ bbs \in Seq(BasicBlock) /\ stack \in Seq(StackEntry) /\ frames \in Seq(Frame)
  BY <1>1, <1>2, <1>3, <1>4, Lengths DEF StackInv, TypeOK, Keeps
<1>7. new \in BasicBlock /\ new.fn = c /\ new.terms = <<>> /\ new.name = "entry"
  <2>1. "entry" \in BlockName
    BY DEF BlockName
  <2> QED BY <2>1, <1>6, NewBlockType DEF NewBlock
<1>8. e \in StackEntry /\ e.block = c /\ OnlyOwn(c, e.locals)
  <2>1. e \in StackEntry /\ e.block = c
    BY <1>6, LocalsType, EntryType
  <2>2. OnlyOwn(c, e.locals)
    BY DEF Entry, LocalsOf, OnlyOwn
  <2> QED BY <2>1, <2>2
<1>9. f \in Frame /\ f.kind = "function" /\ f.block = c /\ f.base = h + 1
  BY <1>6, ValueTypes DEF Frame, FrameKind
<1> HIDE DEF new, e, f
<1>10. /\ Len(bbs') = n + 1 /\ bbs'[c] = new /\ \A b \in 1..n : bbs'[b] = bbs[b]
       /\ Len(stack') = h + 1 /\ stack'[h+1] = e /\ \A i \in 1..h : stack'[i] = stack[i]
       /\ Len(frames') = p + 1 /\ frames'[p+1] = f /\ \A k \in 1..p : frames'[k] = frames[k]
  BY <1>1, <1>2, <1>3, <1>4, <1>5, <1>6, <1>7, <1>8, <1>9, AppendProperties
<1>11. SameShape(p, h)
  BY <1>6, <1>10 DEF SameShape, SameFrame, SameEntry
<1>12. ASSUME NEW b \in 1..n
       PROVE  /\ Done(b)' = Done(b) /\ Known(b)' = Known(b) /\ Succ(b)' = Succ(b)
              /\ IsTest(b)' = IsTest(b) /\ Succ(b) \subseteq 1..n /\ b # c
  <2>1. bbs'[b] = bbs[b]
    BY <1>10
  <2> QED BY <2>1, <1>3, <1>4, <1>6, Successors DEF Done, Known, Succ, IsTest
<1>13. ~Done(c)' /\ Succ(c)' = {} /\ ~IsTest(c)'
  <2>1. bbs'[c].terms = <<>> /\ bbs'[c].name = "entry"
    BY <1>7, <1>10
  <2> QED BY <2>1, OpenBlockAfter DEF IsTest
<1>14. ASSUME NEW b \in 1..Len(bbs') PROVE b \in 1..n \/ b = c
  BY <1>4, <1>6, <1>10
<1>15. ASSUME NEW i \in 1..Len(stack') PROVE i \in 1..h \/ i = h + 1
  BY <1>6, <1>10
<1>16. ASSUME NEW k \in 1..Len(frames') PROVE k \in 1..p \/ k = p + 1
  BY <1>6, <1>10
<1>17. ASSUME NEW k \in 1..p
       PROVE  /\ k \in 1..Len(frames) /\ frames'[k] = frames[k] /\ Reserved(k)' = Reserved(k)
              /\ IsNested(k)' = IsNested(k) /\ EndOfFrame(k)' = EndOfFrame(k)
              /\ frames[k].base \in Nat /\ EndOfFrame(k) \in Nat /\ EndOfFrame(k) <= h
              /\ 1 <= frames[k].base
              /\ IsNested(k) => Around(k)' = Around(k) /\ frames[k].base - 1 \in 1..h
  <2>1. /\ k \in 1..Len(frames) /\ Reserved(k)' = Reserved(k) /\ IsNested(k)' = IsNested(k)
        /\ frames[k].base \in Nat /\ EndOfFrame(k) \in Nat /\ EndOfFrame(k) <= h
        /\ IsNested(k) => frames[k].base - 1 \in 1..h
    BY <1>6, <1>11, KeptVisit
  <2>2. frames'[k] = frames[k] /\ k # p + 1 /\ k < p + 1
    BY <1>6, <1>10
  <2>3. IsNested(k) => Around(k)' = Around(k)
    BY <2>1, <2>2, <1>10 DEF Around
  <2>4. EndOfFrame(k)' = EndOfFrame(k)
    <3>1. EndOfFrame(k)' = frames'[k+1].base - 1
      BY <2>2, <1>10 DEF EndOfFrame
    <3>2. CASE k = p
      <4>1. EndOfFrame(k) = h
        BY <3>2, <1>6, KeptPart
      <4>2. frames'[k+1].base = h + 1
        BY <3>2, <1>9, <1>10
      <4>3. h \in Nat
        BY <1>6
      <4>4. EndOfFrame(k)' = (h + 1) - 1
        BY <3>1, <4>2
      <4> QED BY <4>1, <4>3, <4>4
    <3>3. CASE k # p
      <4>1. k + 1 \in 1..p
        BY <3>3, <1>6
      <4>2. EndOfFrame(k) = frames[k+1].base - 1
        BY <3>3, <1>6, KeptPart
      <4> QED BY <3>1, <4>1, <4>2, <1>10
    <3> QED BY <3>2, <3>3
  <2>5. 1 <= frames[k].base
    BY <1>6, KeptPart
  <2> QED BY <2>1, <2>2, <2>3, <2>4, <2>5
<1>18. Reserved(p+1)' = {} /\ ~IsNested(p+1)' /\ frames'[p+1].kind # "while"
  BY <1>9, <1>10 DEF Reserved, IsNested
<1>19. EdgesInherit'
  <2> SUFFICES ASSUME NEW b \in 1..Len(bbs'), NEW s \in Succ(b)', Done(s)', NEW l, l = Known(s)'
               PROVE  Inherits(s, b, l)'
    BY DEF EdgesInherit, Inherits
  <2>1. b \in 1..n
    BY <1>13, <1>14
  <2>2. s \in Succ(b) /\ s \in 1..n /\ Known(b)' = Known(b)
    BY <2>1, <1>12
  <2>3. Done(s) /\ l = Known(s)
    BY <2>2, <1>12
  <2>4. Inherits(s, b, l)
    BY <2>1, <2>2, <2>3, <1>3 DEF DataFlowInv, EdgesInherit
  <2> QED BY <2>2, <2>4 DEF Inherits
<1>20. StackInherits'
  <2> SUFFICES ASSUME NEW i \in 1..Len(stack'), NEW b \in 1..Len(bbs'),
                      NEW a, a = stack'[i].block, NEW l, l = stack'[i].locals, a \in Succ(b)'
               PROVE  Inherits(a, b, l)'
    BY DEF StackInherits, Inherits
  <2>1. b \in 1..n
    BY <1>13, <1>14
  <2>2. a \in Succ(b) /\ a # c /\ Known(b)' = Known(b)
    BY <2>1, <1>12
  <2>3. i \in 1..h
    BY <2>2, <1>8, <1>10, <1>15
  <2>4. i \in 1..Len(stack) /\ stack'[i] = stack[i]
    BY <2>3, <1>2, <1>10
  <2>5. Inherits(a, b, l)
    BY <2>1, <2>2, <2>4, <1>3 DEF DataFlowInv, StackInherits
  <2> QED BY <2>2, <2>5 DEF Inherits
<1>21. ReservedInherit'
  <2> SUFFICES ASSUME NEW k \in 1..Len(frames'), NEW r \in Reserved(k)', NEW b \in 1..Len(bbs'),
                      r \in Succ(b)', NEW l, l = Around(k)'
               PROVE  Inherits(r, b, l)'
    BY DEF ReservedInherit, Inherits
  <2>1. b \in 1..n /\ k \in 1..p
    BY <1>13, <1>14, <1>16, <1>18
  <2>2. r \in Succ(b) /\ Known(b)' = Known(b)
    BY <2>1, <1>12
  <2>3. r \in Reserved(k) /\ k \in 1..Len(frames)
    BY <2>1, <1>17
  <2>4. IsNested(k)
    BY <2>3 DEF Reserved, IsNested
  <2>5. Inherits(r, b, l)
    BY <2>1, <2>2, <2>3, <2>4, <1>3, <1>17 DEF DataFlowInv, ReservedInherit
  <2> QED BY <2>2, <2>5 DEF Inherits
<1>22. EntriesInherit'
  <2>1. ASSUME NEW b \in 1..Len(bbs'), bbs'[b].name = "entry" PROVE bbs'[b].fn = b
    BY <2>1, <1>3, <1>7, <1>10, <1>14 DEF DataFlowInv, EntriesInherit
  <2>2. ASSUME NEW b \in 1..Len(bbs'), bbs'[b].name = "entry", Done(b)'
        PROVE  OnlyOwn(b, Known(b)')
    <3>1. b \in 1..n
      BY <2>2, <1>13, <1>14
    <3>2. bbs[b].name = "entry" /\ Done(b) /\ Known(b)' = Known(b)
      BY <2>2, <3>1, <1>10, <1>12
    <3> QED BY <3>1, <3>2, <1>3 DEF DataFlowInv, EntriesInherit
  <2>3. ASSUME NEW i \in 1..Len(stack'), bbs'[stack'[i].block].name = "entry"
        PROVE  OnlyOwn(stack'[i].block, stack'[i].locals)
    <3>1. CASE i \in 1..h
      <4>1. i \in 1..Len(stack) /\ stack'[i] = stack[i] /\ stack[i].block \in 1..n
        BY <3>1, <1>2, <1>3, <1>10 DEF StackInv, BlocksInOrder
      <4>2. bbs[stack[i].block].name = "entry"
        BY <2>3, <4>1, <1>10
      <4> QED BY <4>1, <4>2 DEF DataFlowInv, EntriesInherit
    <3>2. CASE i = h + 1
      BY <3>2, <1>8, <1>10
    <3> QED BY <3>1, <3>2, <1>15
  <2> QED BY <2>1, <2>2, <2>3 DEF EntriesInherit, OnlyOwn
<1>23. ScopesGrow'
  <2> SUFFICES ASSUME NEW k \in 1..Len(frames'), IsNested(k)',
                      NEW i \in frames'[k].base..EndOfFrame(k)'
               PROVE  Extends(Around(k)', stack'[i].locals)
    BY DEF ScopesGrow, Extends
  <2>1. k \in 1..p
    BY <1>16, <1>18
  <2>2. /\ k \in 1..Len(frames) /\ IsNested(k) /\ Around(k)' = Around(k)
        /\ i \in frames[k].base..EndOfFrame(k) /\ i \in 1..h
    BY <2>1, <1>6, <1>17
  <2> QED BY <2>2, <1>10 DEF DataFlowInv, ScopesGrow
<1>24. OpenTests'
  <2> SUFFICES ASSUME NEW k \in 1..Len(frames'), frames'[k].kind = "while" PROVE TestOf(k)'
    BY DEF OpenTests
  <2>1. k \in 1..p
    BY <1>16, <1>18
  <2>2. PICK o : o = frames[k].other
    OBVIOUS
  <2>3. /\ k \in 1..Len(frames) /\ frames'[k] = frames[k] /\ frames[k].kind = "while"
    BY <2>1, <1>17
  <2>4. IsNested(k)
    BY <2>3 DEF IsNested
  <2>5. Around(k)' = Around(k) /\ frames[k].base - 1 \in 1..h /\ frames[k].base \in Nat
    BY <2>1, <2>4, <1>17
  <2>6. /\ Done(o) /\ IsTest(o) /\ Known(o) = Around(k) /\ frames[k].block = o + 1
        /\ \A i \in 1..(frames[k].base - 1) : stack[i].block < o
        /\ o \in 1..n
    BY <2>2, <2>3, <1>3 DEF DataFlowInv, OpenTests, TestOf, BodyInv, WhileTests, Joinable
  <2>7. Done(o)' /\ IsTest(o)' /\ Known(o)' = Around(k)'
    BY <2>5, <2>6, <1>12
  <2>8. \A i \in 1..(frames[k].base - 1) : stack'[i].block < o
    <3>1. \A i \in 1..(frames[k].base - 1) : i \in 1..h
      BY <2>5, <1>6
    <3> QED BY <3>1, <2>6, <1>10
  <2> QED BY <2>2, <2>3, <2>6, <2>7, <2>8 DEF TestOf
<1>25. TestsCannotBePassed'
  <2> SUFFICES ASSUME NEW k \in 1..Len(frames'), frames'[k].kind = "while",
                      NEW o, o = frames'[k].other,
                      NEW b \in 1..(o - 1)
               PROVE  Succ(b)' \subseteq 1..o
    BY DEF TestsCannotBePassed, NoWayPast
  <2>1. k \in 1..p
    BY <1>16, <1>18
  <2>2. k \in 1..Len(frames) /\ frames[k].kind = "while" /\ o = frames[k].other
    BY <2>1, <1>17
  <2>3. o \in 1..n
    BY <2>2, <1>3 DEF BodyInv, WhileTests, Joinable
  <2>4. b \in 1..n /\ Succ(b) \subseteq 1..o
    BY <2>2, <2>3, <1>6 DEF LoopInv, TestsCannotBePassed, NoWayPast
  <2> QED BY <2>4, <1>12
<1>26. ReservedAreNoTests'
  <2> SUFFICES ASSUME NEW k \in 1..Len(frames'), NEW r \in Reserved(k)' PROVE ~IsTest(r)'
    BY DEF ReservedAreNoTests
  <2>1. k \in 1..p
    BY <1>16, <1>18
  <2>2. k \in 1..Len(frames) /\ r \in Reserved(k)
    BY <2>1, <1>17
  <2>3. r \in 1..n
    <3>1. r \in (frames[k].block + 1)..Len(bbs)
      BY <2>2 DEF StackInv, ReservedBlocks
    <3> QED BY <2>2, <3>1, <1>3, <1>6, FrameBlocks
  <2> QED BY <2>2, <2>3, <1>12 DEF LoopInv, ReservedAreNoTests
<1>27. CyclesHaveTests'
  <2> SUFFICES ASSUME NEW cycle, \A b \in cycle : b \in 1..Len(bbs') /\ Done(b)' /\ ~IsTest(b)',
                      cycle # {}
               PROVE  \E b \in cycle : Succ(b)' \cap cycle = {}
    BY DEF CyclesHaveTests
  <2>1. \A b \in cycle : b \in 1..n
    BY <1>13, <1>14
  <2>2. \A b \in cycle : b \in 1..n /\ Done(b) /\ ~IsTest(b) /\ Succ(b)' = Succ(b)
    BY <2>1, <1>12
  <2>3. cycle \in SUBSET {b \in 1..Len(bbs) : Done(b) /\ ~IsTest(b)}
    BY <2>2, <1>3
  <2>4. PICK b \in cycle : Succ(b) \cap cycle = {}
    BY <2>3 DEF LoopInv, CyclesHaveTests
  <2> QED BY <2>2, <2>4
<1>28. LoopsAreClosed'
  <2> SUFFICES ASSUME NEW q \in 1..Len(bbs'), NEW b \in 1..Len(bbs'),
                      IsTest(q)', q \in Succ(b)', q < b
               PROVE  \E R \in SUBSET (1..Len(bbs')) : b \notin R /\ Outside(q, R)'
    BY DEF LoopsAreClosed
  <2>1. q \in 1..n /\ b \in 1..n
    BY <1>13, <1>14
  <2>2. IsTest(q) /\ q \in Succ(b)
    BY <2>1, <1>12
  <2>3. PICK R : R \in SUBSET (1..Len(bbs)) /\ b \notin R /\ Outside(q, R)
    BY <2>1, <2>2, <1>3 DEF LoopInv, LoopsAreClosed
  <2>4. PICK Q : Q = R \cup {c}
    OBVIOUS
  <2>5. Q \subseteq 1..Len(bbs') /\ b \notin Q /\ Q \in SUBSET (1..Len(bbs'))
    <3>1. c \in 1..Len(bbs') /\ 1..n \subseteq 1..Len(bbs') /\ b # c
      BY <2>1, <1>4, <1>6, <1>10
    <3> QED BY <2>3, <2>4, <3>1, <1>3
  <2>6. bbs'[q].fn \in Q
    BY <2>1, <2>3, <2>4, <1>10 DEF Outside
  <2>7. ASSUME NEW a \in Q \ {q} PROVE Succ(a)' \subseteq Q
    <3>1. CASE a = c
      BY <3>1, <1>13
    <3>2. CASE a \in R
      <4>1. a \in 1..n /\ Succ(a) \subseteq R
        BY <2>3, <2>7, <3>2, <1>3 DEF Outside
      <4> QED BY <2>4, <4>1, <1>12
    <3> QED BY <2>4, <2>7, <3>1, <3>2
  <2>8. ASSUME NEW i \in 1..Len(stack') PROVE stack'[i].block \in Q
    <3>1. CASE i \in 1..h
      BY <2>3, <2>4, <3>1, <1>2, <1>10 DEF Outside
    <3>2. CASE i = h + 1
      BY <2>4, <3>2, <1>8, <1>10
    <3> QED BY <3>1, <3>2, <1>15
  <2>9. ASSUME NEW k \in 1..Len(frames')
        PROVE  Reserved(k)' \subseteq Q /\ (frames'[k].kind = "while" => frames'[k].other \in Q)
    <3>1. CASE k \in 1..p
      BY <2>3, <2>4, <3>1, <1>17 DEF Outside
    <3>2. CASE k = p + 1
      BY <3>2, <1>18
    <3> QED BY <3>1, <3>2, <1>16
  <2>10. Outside(q, Q)'
    BY <2>5, <2>6, <2>7, <2>8, <2>9 DEF Outside
  <2> QED BY <2>5, <2>10
<1> QED BY <1>19, <1>20, <1>21, <1>22, <1>23, <1>24, <1>25, <1>26, <1>27, <1>28
        DEF DataFlowInv, LoopInv

LEMMA EndFunctionFlow ==
  ASSUME StackInv, StackInv', BodyInv, BodyInv', DataFlowInv, LoopInv, EndFunction \/ EndMain
  PROVE  DataFlowInv' /\ LoopInv'
<1>0. frames # <<>>
  BY DEF EndFunction, EndMain, InsideFunction
<1>1. /\ Innermost \in Frame /\ Top \in StackEntry
  BY <1>0, Inside
<1>2. Innermost.last \in Value /\ Top.returnValue \in Value
  BY <1>1 DEF Frame, StackEntry
<1>3. Front(frames) \in Seq(Frame)
  BY <1>0, Dropped
<1>4. \A v \in Value : Ret(v) \in Terminator /\ Ret(v).succ = {} /\ Ret(v).locals = Top.locals
  <2>1. \A v \in Value : Ret(v) \in Terminator
    BY <1>1, TerminatorTypes
  <2> QED BY <2>1 DEF Ret
<1>5. CASE EndFunction
  <2> DEFINE v == IF Top.returnValue # NoValue THEN Top.returnValue
                  ELSE IF Innermost.void THEN NoValue ELSE Innermost.last
  <2>1. /\ Innermost.kind = "function" /\ bbs' = Terminate(Ret(v)) /\ stack' = PopBlock(stack)
        /\ frames' = Visited(Front(frames), Constant)
    BY <1>5 DEF EndFunction
  <2>2. v \in Value
    BY <1>2, ValueTypes
  <2> HIDE DEF v
  <2>3. /\ Len(frames') = Len(Front(frames))
        /\ \A k \in 1..Len(Front(frames)) : SameFrame(frames'[k], Front(frames)[k])
    BY <2>1, <1>3, ValueTypes, VisitedFrames
  <2> QED BY <1>0, <1>4, <2>1, <2>2, <2>3, CloseFunctionFlow
<1>6. CASE EndMain
  <2> DEFINE v == IF Top.returnValue # NoValue THEN Top.returnValue ELSE Constant
  <2>1. /\ Innermost.kind = "main" /\ bbs' = Terminate(Ret(v)) /\ stack' = PopBlock(stack)
        /\ frames' = Front(frames)
    BY <1>6 DEF EndMain
  <2>2. v \in Value
    BY <1>2, ValueTypes
  <2> HIDE DEF v
  <2>3. /\ Len(frames') = Len(Front(frames))
        /\ \A k \in 1..Len(Front(frames)) : SameFrame(frames'[k], Front(frames)[k])
    BY <2>1 DEF SameFrame
  <2> QED BY <1>0, <1>4, <2>1, <2>2, <2>3, CloseFunctionFlow
<1> QED BY <1>5, <1>6

LEMMA CloseFlow ==
  ASSUME StackInv, StackInv', BodyInv, BodyInv', DataFlowInv, LoopInv, frames # <<>>,
         \/ EndThen /\ Innermost.other = 0
         \/ EndElse
         \/ EndWhile
  PROVE  DataFlowInv' /\ LoopInv'
<1>1. Innermost \in Frame /\ Top \in StackEntry
  BY Inside
<1>2. /\ Innermost.other \in Nat /\ Innermost.merge \in Nat /\ Innermost.last \in Value
  BY <1>1 DEF Frame
<1>3. \A m \in Nat : /\ ReturnOrBranch(m) \in Terminator /\ ReturnOrBranch(m).succ \subseteq {m}
                     /\ ReturnOrBranch(m).locals = Top.locals
  <2>1. \A m \in Nat : ReturnOrBranch(m) \in Terminator
    BY <1>1, TerminatorTypes
  <2> QED BY <2>1 DEF ReturnOrBranch, Ret, Br
<1>4. IfResult \in Value /\ Garbage \in Value
  BY <1>2, ValueTypes DEF IfResult
<1>5. CASE EndThen /\ Innermost.other = 0
  <2>1. /\ Innermost.kind = "if"
        /\ bbs' = Place(Terminate(ReturnOrBranch(Innermost.merge)), Innermost.merge)
        /\ stack' = PushMerge(PopBlock(stack), Innermost.merge)
        /\ frames' = Visited(Front(frames), IfResult)
    BY <1>5 DEF EndThen
  <2> QED BY <2>1, <1>2, <1>3, <1>4, CloseConstructFlow
<1>6. CASE EndElse
  <2>1. /\ Innermost.kind = "else"
        /\ bbs' = Place(Terminate(ReturnOrBranch(Innermost.merge)), Innermost.merge)
        /\ stack' = PushMerge(PopBlock(stack), Innermost.merge)
        /\ frames' = Visited(Front(frames), IfResult)
    BY <1>6 DEF EndElse
  <2> QED BY <2>1, <1>2, <1>3, <1>4, CloseConstructFlow
<1>7. CASE EndWhile
  <2>1. /\ Innermost.kind = "while"
        /\ bbs' = Place(Terminate(ReturnOrBranch(Innermost.other)), Innermost.merge)
        /\ stack' = PushMerge(PopBlock(stack), Innermost.merge)
        /\ frames' = Visited(Front(frames), Garbage)
    BY <1>7 DEF EndWhile, TestAgain
  <2> QED BY <2>1, <1>2, <1>3, <1>4, CloseConstructFlow
<1> QED BY <1>5, <1>6, <1>7

LEMMA UnchangedFlow ==
  ASSUME StackInv, StackInv', DataFlowInv, LoopInv, UNCHANGED <<bbs, stack, frames>>
  PROVE  DataFlowInv' /\ LoopInv'
<1>1. Declares
  BY DEF Declares, SameCode, SameEntry, SameFrame, NewName
<1> QED BY <1>1, DeclaresFlow

LEMMA NextFlow == StackInv /\ BodyInv /\ DataFlowInv /\ LoopInv /\ [Next]_vars => DataFlowInv' /\ LoopInv'
<1> SUFFICES ASSUME StackInv, BodyInv, DataFlowInv, LoopInv, [Next]_vars
             PROVE  DataFlowInv' /\ LoopInv'
  OBVIOUS
<1>0. StackInv' /\ BodyInv'
  BY NextStackInv, NextBody
<1>1. ASSUME NEW params \in SUBSET Names, NEW void \in BOOLEAN, DefineFunction(params, void)
      PROVE  DataFlowInv' /\ LoopInv'
  BY <1>0, <1>1, DefineFunctionFlow
<1>2. CASE EndFunction \/ EndMain
  BY <1>0, <1>2, EndFunctionFlow
<1>3. CASE EndFile \/ UNCHANGED vars
  BY <1>0, <1>3, UnchangedFlow DEF EndFile, vars
<1>4. CASE InsideFunction /\ Statement
  BY <1>0, <1>4, StatementFlow
<1>5. CASE InsideFunction /\ Control
  <2>0. frames # <<>>
    BY <1>5 DEF InsideFunction
  <2>1. ASSUME NEW withElse \in BOOLEAN, BeginIf(withElse) PROVE DataFlowInv' /\ LoopInv'
    BY <1>0, <2>0, <2>1, BeginIfFlow
  <2>2. CASE EndThen
    BY <1>0, <2>0, <2>2, SwitchFlow, CloseFlow
  <2>3. CASE EndElse \/ EndWhile
    BY <1>0, <2>0, <2>3, CloseFlow
  <2>4. CASE BeginWhile
    BY <1>0, <2>0, <2>4, BeginWhileFlow
  <2> QED BY <1>5, <2>1, <2>2, <2>3, <2>4 DEF Control
<1>6. CASE Reject
  BY <1>6, ExitFlow DEF Reject
<1> QED BY <1>1, <1>2, <1>3, <1>4, <1>5, <1>6 DEF Next

LEMMA InitFlow == Init => DataFlowInv /\ LoopInv
<1> SUFFICES ASSUME Init PROVE DataFlowInv /\ LoopInv
  OBVIOUS
<1>1. CASE InitCompiler
  BY <1>1, NothingFlows DEF InitCompiler
<1>2. CASE InitInterpreter
  <2> DEFINE b == NewBlock("entry", 1, TRUE)
             e == Entry(1, LocalsOf({Args}, 1))
             f == [kind |-> "main", block |-> 1, base |-> 1, other |-> 0, merge |-> 0,
                   void |-> FALSE, last |-> NoValue, empty |-> TRUE]
  <2>1. bbs = <<b>> /\ stack = <<e>> /\ frames = <<f>>
    BY <1>2 DEF InitInterpreter
  <2>2. b.terms = <<>> /\ b.fn = 1 /\ b.name = "entry"
    BY DEF NewBlock
  <2>3. OnlyOwn(1, e.locals) /\ e.block = 1
    BY DEF Entry, LocalsOf, OnlyOwn
  <2>4. f.kind = "main"
    OBVIOUS
  <2> HIDE DEF b, e, f
  <2>5. /\ Len(bbs) = 1 /\ bbs[1] = b /\ Len(stack) = 1 /\ stack[1] = e
        /\ Len(frames) = 1 /\ frames[1] = f
    BY <2>1
  <2>6. \A k \in 1..1 : k = 1
    OBVIOUS
  <2>7. Reserved(1) = {} /\ ~IsNested(1) /\ frames[1].kind # "while"
    BY <2>4, <2>5 DEF Reserved, IsNested
  <2>8. Len(bbs[1].terms) = 0
    BY <2>2, <2>5, EmptySeq
  <2>9. Succ(1) = {} /\ ~Done(1) /\ ~IsTest(1)
    <3>1. 1..Len(bbs[1].terms) = {}
      BY <2>8
    <3>2. Succ(1) = {}
      BY <3>1 DEF Succ
    <3>3. ~Done(1)
      BY <2>8 DEF Done
    <3>4. ~IsTest(1)
      BY <2>2, <2>5 DEF IsTest
    <3> QED BY <3>2, <3>3, <3>4
  <2>10. EdgesInherit /\ StackInherits /\ ReservedInherit
    BY <2>5, <2>6, <2>9 DEF EdgesInherit, StackInherits, ReservedInherit
  <2>11. EntriesInherit
    BY <2>2, <2>3, <2>5, <2>6, <2>9 DEF EntriesInherit
  <2>12. ScopesGrow /\ OpenTests
    BY <2>5, <2>6, <2>7 DEF ScopesGrow, OpenTests
  <2>13. TestsCannotBePassed /\ ReservedAreNoTests
    BY <2>5, <2>6, <2>7 DEF TestsCannotBePassed, ReservedAreNoTests
  <2>14. CyclesHaveTests
    <3>1. {d \in 1..Len(bbs) : Done(d) /\ ~IsTest(d)} = {}
      BY <2>5, <2>6, <2>9
    <3> QED BY <3>1 DEF CyclesHaveTests
  <2>15. LoopsAreClosed
    BY <2>5, <2>6, <2>9 DEF LoopsAreClosed
  <2> QED BY <2>10, <2>11, <2>12, <2>13, <2>14, <2>15 DEF DataFlowInv, LoopInv
<1> QED BY <1>1, <1>2 DEF Init

-----------------------------------------------------------------------------
(* What follows for the functions whose visit is over                      *)

LEMMA FinishedEntry ==
  ASSUME DataFlowInv, NEW fn \in Finished PROVE fn \in Body(fn) /\ bbs[fn].name = "entry"
BY DEF DataFlowInv, EntriesInherit, Finished, Body

LEMMA LocalsDominate == StackInv /\ BodyInv /\ DataFlowInv => LocalsDominateUses
<1> SUFFICES ASSUME StackInv, BodyInv, DataFlowInv,
                    NEW fn \in Finished, NEW b \in Body(fn), NEW i \in 1..Len(bbs[b].terms),
                    NEW x \in Names, NEW d, d = bbs[b].terms[i].locals[x], d # 0, d # b
             PROVE  \E reached \in SUBSET (Body(fn) \ {b}) :
                      /\ fn \in reached
                      /\ \A u \in reached \ {d} : Succ(u) \subseteq reached
  BY DEF LocalsDominateUses, Dominates
<1>1. \A u \in Body(fn) : u \in 1..Len(bbs) /\ Done(u) /\ Succ(u) \subseteq Body(fn)
  BY BodiesAreFinished DEF WellFormedBodies, Body, Done
<1>2. Known(b)[x] = d
  <2>1. i = 1
    BY <1>1 DEF Done
  <2> QED BY <2>1 DEF Known
<1>3. PICK reached : reached = {u \in Body(fn) : u = d \/ Known(u)[x] # d}
  OBVIOUS
<1>4. reached \in SUBSET (Body(fn) \ {b})
  BY <1>2, <1>3
<1>5. fn \in reached
  <2>1. fn \in Body(fn) /\ bbs[fn].name = "entry" /\ Done(fn) /\ fn \in 1..Len(bbs)
    BY <1>1, FinishedEntry
  <2>2. Known(fn)[x] \in {0, fn}
    BY <2>1 DEF DataFlowInv, EntriesInherit, OnlyOwn
  <2> QED BY <2>1, <2>2, <1>3
<1>6. ASSUME NEW u \in reached \ {d}, NEW s \in Succ(u) PROVE s \in reached
  <2>1. u \in Body(fn) /\ Known(u)[x] # d
    BY <1>3, <1>6
  <2>2. s \in Body(fn) /\ Done(s) /\ u \in 1..Len(bbs)
    BY <2>1, <1>1, <1>6
  <2>3. Known(s)[x] \in {0, s, Known(u)[x]}
    BY <2>2, <1>6 DEF DataFlowInv, EdgesInherit, Inherits
  <2> QED BY <2>1, <2>2, <2>3, <1>3
<1> QED BY <1>4, <1>5, <1>6

LEMMA LoopsHaveTests == StackInv /\ BodyInv /\ DataFlowInv /\ LoopInv => LoopsGoThroughTests
<1> SUFFICES ASSUME StackInv, BodyInv, DataFlowInv, LoopInv, NEW fn \in Finished
             PROVE  /\ \A cycle \in SUBSET {b \in Body(fn) : ~IsTest(b)} :
                         cycle # {} => \E b \in cycle : Succ(b) \cap cycle = {}
                    /\ \A t \in {b \in Body(fn) : IsTest(b)} : \A b \in Body(fn) :
                         (t \in Succ(b) /\ b > t) => Dominates(fn, t, b)
  BY DEF LoopsGoThroughTests, IsTest
<1>1. \A u \in Body(fn) : u \in 1..Len(bbs) /\ Done(u) /\ Succ(u) \subseteq Body(fn)
  BY BodiesAreFinished DEF WellFormedBodies, Body, Done
<1>2. ASSUME NEW cycle \in SUBSET {b \in Body(fn) : ~IsTest(b)}, cycle # {}
      PROVE  \E b \in cycle : Succ(b) \cap cycle = {}
  <2>1. cycle \in SUBSET {b \in 1..Len(bbs) : Done(b) /\ ~IsTest(b)}
    BY <1>1
  <2> QED BY <2>1, <1>2 DEF LoopInv, CyclesHaveTests
<1>3. ASSUME NEW t \in Body(fn), IsTest(t), NEW b \in Body(fn), t \in Succ(b), b > t
      PROVE  Dominates(fn, t, b)
  <2>1. t \in 1..Len(bbs) /\ b \in 1..Len(bbs) /\ t < b
    BY <1>1, <1>3, Lengths
  <2>2. PICK R \in SUBSET (1..Len(bbs)) : b \notin R /\ Outside(t, R)
    BY <2>1, <1>3 DEF LoopInv, LoopsAreClosed
  <2>3. PICK reached : reached = R \cap Body(fn)
    OBVIOUS
  <2>4. reached \in SUBSET (Body(fn) \ {b})
    BY <2>2, <2>3
  <2>5. fn \in reached
    <3>1. bbs[t].fn = fn
      BY DEF Body
    <3> QED BY <2>2, <2>3, <3>1, FinishedEntry DEF Outside
  <2>6. \A u \in reached \ {t} : Succ(u) \subseteq reached
    BY <2>2, <2>3, <1>1 DEF Outside
  <2> QED BY <2>4, <2>5, <2>6 DEF Dominates
<1> QED BY <1>2, <1>3

LEMMA FlowInvariant == Spec => [](StackInv /\ BodyInv /\ DataFlowInv /\ LoopInv)
<1>1. Init => StackInv /\ BodyInv /\ DataFlowInv /\ LoopInv
  BY InitStackInv, InitBody, InitFlow
<1>2. StackInv /\ BodyInv /\ DataFlowInv /\ LoopInv /\ [Next]_vars
      => (StackInv /\ BodyInv /\ DataFlowInv /\ LoopInv)'
  BY NextStackInv, NextBody, NextFlow
<1> QED BY <1>1, <1>2, PTL DEF Spec

(* Whatever the program, a name that is resolved in a block of a finished  *)
(* function stands for an alloca that every path from the function's entry *)
(* to the block executes first: what pushBlock copies from one map of      *)
(* locals to the next was declared on every path that leads there.         *)
THEOREM AllocasDominateUses == Spec => []LocalsDominateUses
<1>1. StackInv /\ BodyInv /\ DataFlowInv /\ LoopInv => LocalsDominateUses
  BY LocalsDominate
<1> QED BY <1>1, FlowInvariant, PTL

(* Whatever the program, its code loops only where the source does: every  *)
(* cycle of blocks goes through the test of a while, and the block that    *)
(* branches back to a test is reached only through that test.              *)
THEOREM OnlyWhilesLoop == Spec => []LoopsGoThroughTests
<1>1. StackInv /\ BodyInv /\ DataFlowInv /\ LoopInv => LoopsGoThroughTests
  BY LoopsHaveTests
<1> QED BY <1>1, FlowInvariant, PTL
=============================================================================

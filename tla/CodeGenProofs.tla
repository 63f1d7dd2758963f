---------------------------- MODULE CodeGenProofs ----------------------------
(***************************************************************************)
(* The block stack of the code generator, for any program.  The inductive  *)
(* invariant is StackInv: that the stack mirrors the nesting of the source *)
(* is not inductive alone, because pushing a merge block keeps it only if  *)
(* that block is not already somewhere on the stack and is still open.     *)
(***************************************************************************)
EXTENDS CodeGen, SequenceTheorems, TLAPS

(* Types of the values and records the actions build. *)
LEMMA ValueTypes ==
  /\ NoValue \in Value /\ Garbage \in Value /\ Constant \in Value
  /\ \A b \in Nat : Computed(b) \in Value
BY DEF NoValue, Garbage, Constant, Computed, Value

LEMMA LocalsType ==
  ASSUME NEW declared, NEW b \in Nat
  PROVE  LocalsOf(declared, b) \in Locals
BY DEF LocalsOf, Locals

LEMMA EntryType ==
  ASSUME NEW b \in Nat, NEW l \in Locals
  PROVE  /\ Entry(b, l) \in StackEntry
         /\ Entry(b, l).block = b
         /\ Entry(b, l).locals = l
         /\ ~Entry(b, l).isMergeBlock
         /\ Entry(b, l).returnValue = NoValue
BY ValueTypes DEF Entry, StackEntry

LEMMA NewBlockType ==
  ASSUME NEW name \in BlockName, NEW fn \in Nat, NEW placed \in BOOLEAN
  PROVE  /\ NewBlock(name, fn, placed) \in BasicBlock
         /\ NewBlock(name, fn, placed).name = name
         /\ NewBlock(name, fn, placed).fn = fn
         /\ NewBlock(name, fn, placed).placed = placed
         /\ NewBlock(name, fn, placed).terms = <<>>
BY EmptySeq DEF NewBlock, BasicBlock

-----------------------------------------------------------------------------
(* popBlock cuts the stack just below the last entry that is not a merge   *)
(* block.                                                                  *)
LEMMA PopBlockIsPrefix ==
  ASSUME NEW s \in Seq(StackEntry), NEW k \in 1..Len(s), ~s[k].isMergeBlock,
         \A i \in (k+1)..Len(s) : s[i].isMergeBlock
  PROVE  PopBlock(s) = SubSeq(s, 1, k-1)
<1> DEFINE I == {i \in 1..Len(s) : ~s[i].isMergeBlock}
<1>1. k \in I /\ \A i \in I : i <= k
  OBVIOUS
<1>2. Max(I) = k
  BY <1>1 DEF Max
<1>3. LastPlainEntry(s) = k
  BY <1>1, <1>2 DEF LastPlainEntry, SelectLastInSeq
<1> QED BY <1>3 DEF PopBlock

(* Marking a statement as visited changes neither the number of frames nor *)
(* what they say of the stack.                                             *)
SameFrame(f, g) ==
  /\ f.kind = g.kind /\ f.block = g.block /\ f.base = g.base
  /\ f.other = g.other /\ f.merge = g.merge /\ f.void = g.void

LEMMA MarkedFrame ==
  ASSUME NEW g \in Frame, NEW v \in Value
  PROVE  /\ [g EXCEPT !.last = v, !.empty = FALSE] \in Frame
         /\ SameFrame([g EXCEPT !.last = v, !.empty = FALSE], g)
BY DEF Frame, SameFrame

LEMMA VisitedFrames ==
  ASSUME NEW fs \in Seq(Frame), NEW v \in Value
  PROVE  /\ Visited(fs, v) \in Seq(Frame)
         /\ Len(Visited(fs, v)) = Len(fs)
         /\ \A k \in 1..Len(fs) : SameFrame(Visited(fs, v)[k], fs[k])
<1>1. CASE fs = <<>>
  BY <1>1 DEF Visited
<1>2. CASE fs # <<>>
  <2> DEFINE n == Len(fs)
             f == [fs[n] EXCEPT !.last = v, !.empty = FALSE]
  <2>1. n \in 1..Len(fs)
    BY <1>2, EmptySeq
  <2>2. fs[n] \in Frame /\ f \in Frame /\ SameFrame(f, fs[n])
    BY <2>1, ElementOfSeq, MarkedFrame
  <2>3. Visited(fs, v) = [fs EXCEPT ![n] = f]
    BY <1>2, <2>1, LenProperties DEF Visited, Frame
  <2> HIDE DEF f, n
  <2>4. QED
    BY <2>1, <2>2, <2>3, ExceptSeq DEF SameFrame
<1> QED BY <1>1, <1>2

(* Every frame has a part of the stack of its own. *)
LEMMA FrameBases ==
  ASSUME StackInv
  PROVE  \A k \in 1..Len(frames) : frames[k] \in Frame /\ frames[k].base \in 1..Len(stack)
<1> SUFFICES ASSUME NEW k \in 1..Len(frames)
             PROVE  frames[k] \in Frame /\ frames[k].base \in 1..Len(stack)
  OBVIOUS
<1>1. frames[k] \in Frame
  BY ElementOfSeq DEF StackInv, TypeOK
<1>2. Len(stack) \in Nat
  BY LenProperties DEF StackInv, TypeOK
<1>3. frames[k].base \in 1..EndOfFrame(k) /\ EndOfFrame(k) <= Len(stack)
  BY DEF StackInv, StackMirrorsNesting
<1>4. EndOfFrame(k) \in Int
  <2>1. CASE k = Len(frames)
    BY <1>2, <2>1 DEF EndOfFrame
  <2>2. CASE k # Len(frames)
    <3>1. k + 1 \in 1..Len(frames) /\ k < Len(frames)
      BY <2>2
    <3>2. frames[k+1] \in Frame
      BY <3>1, ElementOfSeq DEF StackInv, TypeOK
    <3> QED BY <3>1, <3>2 DEF EndOfFrame, Frame
  <2> QED BY <2>1, <2>2
<1> QED BY <1>1, <1>2, <1>3, <1>4 DEF Frame

LEMMA FrameEnds ==
  ASSUME StackInv
  PROVE  \A k \in 1..Len(frames) :
           /\ EndOfFrame(k) \in 1..Len(stack)
           /\ frames[k].base <= EndOfFrame(k)
<1> SUFFICES ASSUME NEW k \in 1..Len(frames)
             PROVE  EndOfFrame(k) \in 1..Len(stack) /\ frames[k].base <= EndOfFrame(k)
  OBVIOUS
<1>1. Len(stack) \in Nat
  BY LenProperties DEF StackInv, TypeOK
<1>2. frames[k].base \in 1..EndOfFrame(k) /\ EndOfFrame(k) <= Len(stack)
  BY DEF StackInv, StackMirrorsNesting
<1>3. frames[k].base \in 1..Len(stack)
  BY FrameBases
<1>4. k < Len(frames) => frames[k+1].base \in 1..Len(stack)
  BY FrameBases
<1> QED BY <1>1, <1>2, <1>3, <1>4 DEF EndOfFrame

(* What the invariant says where a visit stands. *)
LEMMA Inside ==
  ASSUME StackInv, frames # <<>>
  PROVE  /\ Len(frames) \in 1..Len(frames) /\ Innermost = frames[Len(frames)]
         /\ Innermost \in Frame
         /\ Innermost.base \in 1..Len(stack)
         /\ Len(stack) \in 1..Len(stack) /\ Top = stack[Len(stack)] /\ Top \in StackEntry
         /\ Current \in 1..Len(bbs) /\ bbs[Current].terms = <<>>
         /\ PopBlock(stack) = SubSeq(stack, 1, Innermost.base - 1)
<1> USE DEF StackInv, TypeOK
<1> DEFINE n == Len(frames)
<1>1. n \in 1..Len(frames) /\ Innermost = frames[n] /\ Innermost \in Frame
  BY EmptySeq, ElementOfSeq DEF Innermost, Last
<1>2. EndOfFrame(n) = Len(stack)
  BY <1>1 DEF EndOfFrame
<1>3. Innermost.base \in 1..Len(stack)
  BY <1>1, <1>2 DEF StackMirrorsNesting
<1>4. /\ Len(stack) \in 1..Len(stack) /\ Top = stack[Len(stack)] /\ Top \in StackEntry
  BY <1>3, ElementOfSeq, LenProperties DEF Top, Last
<1>5. Current \in 1..Len(bbs)
  BY <1>4 DEF Current, BlocksInOrder
<1>6. bbs[Current].terms = <<>>
  BY <1>1, <1>2, <1>3, <1>4 DEF InsertionPointIsOpen, Current
<1>7. PopBlock(stack) = SubSeq(stack, 1, Innermost.base - 1)
  <2>1. /\ ~stack[Innermost.base].isMergeBlock
        /\ \A i \in (Innermost.base + 1)..Len(stack) : stack[i].isMergeBlock
    BY <1>1, <1>2 DEF StackMirrorsNesting
  <2> QED BY <1>3, <2>1, PopBlockIsPrefix
<1> QED BY <1>1, <1>3, <1>4, <1>5, <1>6, <1>7

-----------------------------------------------------------------------------
(* A step keeps the p oldest frames and the h oldest entries: all of them,  *)
(* or all but the innermost frame and its part of the stack.               *)
Keeps(p, h) ==
  \/ p = Len(frames) /\ h = Len(stack)
  \/ /\ frames # <<>>
     /\ p = Len(frames) - 1 /\ h = frames[Len(frames)].base - 1

SameEntry(e, f) == e.block = f.block /\ e.isMergeBlock = f.isMergeBlock

LEMMA KeptPart ==
  ASSUME StackInv, NEW p, NEW h, Keeps(p, h)
  PROVE  /\ p \in Nat /\ h \in Nat /\ p <= Len(frames) /\ h <= Len(stack)
         /\ p = 0 <=> h = 0
         /\ \A k \in 1..p :
              /\ k \in 1..Len(frames)
              /\ frames[k] \in Frame
              /\ frames[k].base \in Nat /\ 1 <= frames[k].base
              /\ EndOfFrame(k) \in Nat
              /\ frames[k].base <= EndOfFrame(k) /\ EndOfFrame(k) <= h
              /\ k = p => EndOfFrame(k) = h
              /\ k # p => EndOfFrame(k) = frames[k+1].base - 1
              /\ stack[frames[k].base].block = frames[k].block
              /\ frames[k].block \in Nat /\ frames[k].block \in 1..Len(bbs)
         /\ \A i \in 1..h : /\ i \in 1..Len(stack)
                            /\ stack[i].block \in Nat /\ stack[i].block \in 1..Len(bbs)
<1>1. /\ Len(frames) \in Nat /\ Len(stack) \in Nat /\ Len(bbs) \in Nat
      /\ StackMirrorsNesting /\ BlocksInOrder
  BY LenProperties DEF StackInv, TypeOK
<1>2. frames # <<>> => /\ Len(frames) \in 1..Len(frames)
                       /\ frames[Len(frames)].base \in 1..Len(stack)
  BY <1>1, EmptySeq, FrameBases DEF StackInv, TypeOK
<1>3. p \in Nat /\ h \in Nat /\ p <= Len(frames) /\ h <= Len(stack)
  BY <1>1, <1>2 DEF Keeps
<1>4. ASSUME NEW k \in 1..p
      PROVE  /\ k \in 1..Len(frames)
             /\ frames[k] \in Frame
             /\ frames[k].base \in Nat /\ 1 <= frames[k].base
             /\ EndOfFrame(k) \in Nat
             /\ frames[k].base <= EndOfFrame(k) /\ EndOfFrame(k) <= h
             /\ k = p => EndOfFrame(k) = h
             /\ k # p => EndOfFrame(k) = frames[k+1].base - 1
             /\ stack[frames[k].base].block = frames[k].block
             /\ frames[k].block \in Nat /\ frames[k].block \in 1..Len(bbs)
  <2>1. k \in 1..Len(frames)
    BY <1>1, <1>3
  <2>2. frames[k] \in Frame /\ frames[k].base \in 1..Len(stack)
    BY <2>1, FrameBases
  <2>3. EndOfFrame(k) \in 1..Len(stack) /\ frames[k].base <= EndOfFrame(k)
    BY <2>1, FrameEnds
  <2> DEFINE Ends == /\ EndOfFrame(k) <= h
                     /\ k = p => EndOfFrame(k) = h
                     /\ k # p => EndOfFrame(k) = frames[k+1].base - 1
  <2>4. ASSUME p = Len(frames) /\ h = Len(stack) PROVE Ends
    <3>1. EndOfFrame(k) <= h
      BY <2>3, <2>4, <1>1
    <3>2. /\ k = p => EndOfFrame(k) = h
          /\ k # p => EndOfFrame(k) = frames[k+1].base - 1
      BY <2>1, <2>4, <1>1 DEF EndOfFrame
    <3>3. Ends
      BY <3>1, <3>2
    <3> QED BY <3>3
  <2>5. ASSUME p = Len(frames) - 1 /\ h = frames[Len(frames)].base - 1 PROVE Ends
    <3>1. k < Len(frames) /\ k + 1 \in 1..Len(frames)
      BY <2>1, <2>5, <1>1
    <3>2. EndOfFrame(k) = frames[k+1].base - 1 /\ (k = p => k + 1 = Len(frames))
      BY <3>1, <2>5, <1>1 DEF EndOfFrame
    <3>3. frames[k+1].base \in 1..Len(stack) /\ frames[Len(frames)].base \in 1..Len(stack)
      BY <3>1, <2>1, <1>1, FrameBases
    <3>4. k + 1 < Len(frames) => frames[k+1].base < frames[Len(frames)].base
      BY <3>1, <1>1 DEF BlocksInOrder
    <3>5. k + 1 < Len(frames) \/ k + 1 = Len(frames)
      BY <3>1, <1>1
    <3>6. CASE k + 1 = Len(frames)
      <4>1. EndOfFrame(k) = h /\ k = p
        BY <3>2, <3>6, <2>5, <1>1
      <4> QED BY <4>1, <1>3
    <3>7. CASE k + 1 < Len(frames)
      <4>1. EndOfFrame(k) <= h /\ k # p
        BY SMTT(60), <3>2, <3>3, <3>4, <3>7, <2>5, <1>1
      <4> QED BY <4>1, <3>2
    <3> QED BY <3>5, <3>6, <3>7
  <2>6. stack[frames[k].base].block = frames[k].block
    BY <2>1, <1>1 DEF StackMirrorsNesting
  <2>7. frames[k].block \in 1..Len(bbs)
    BY <2>2, <2>6, <1>1 DEF BlocksInOrder
  <2>8. Ends
    BY <2>4, <2>5 DEF Keeps
  <2>9. /\ frames[k].base \in Nat /\ 1 <= frames[k].base
        /\ EndOfFrame(k) \in Nat /\ frames[k].block \in Nat
    BY <2>2, <2>3, <2>7, <1>1
  <2> QED BY <2>1, <2>2, <2>3, <2>6, <2>7, <2>8, <2>9
<1>5. ASSUME NEW i \in 1..h
      PROVE  /\ i \in 1..Len(stack)
             /\ stack[i].block \in Nat /\ stack[i].block \in 1..Len(bbs)
  <2>1. i \in 1..Len(stack)
    BY <1>1, <1>3
  <2>2. stack[i].block \in 1..Len(bbs)
    BY <2>1, <1>1 DEF BlocksInOrder
  <2> QED BY <2>1, <2>2, <1>1
<1>6. p = 0 <=> h = 0
  <2>1. p # 0 => h # 0
    <3>1. p # 0 => p \in 1..p
      BY <1>3
    <3> QED BY <3>1, <1>3, <1>4
  <2>2. CASE p = 0 /\ p = Len(frames) /\ h = Len(stack)
    BY <2>2, <1>1, EmptySeq DEF StackMirrorsNesting, StackInv, TypeOK
  <2>3. CASE p = 0 /\ frames # <<>> /\ p = Len(frames) - 1 /\ h = frames[Len(frames)].base - 1
    <3>1. Len(frames) = 1 /\ frames[1].base = 1
      BY <2>3, <1>1 DEF StackMirrorsNesting
    <3> QED BY <3>1, <2>3
  <2> QED BY <2>1, <2>2, <2>3 DEF Keeps
<1> QED BY <1>3, <1>4, <1>5, <1>6

(* The block under construction is the youngest on the stack and is not    *)
(* one that a frame has set aside.                                         *)
LEMMA CurrentIsYoungest ==
  ASSUME StackInv, frames # <<>>
  PROVE  /\ Current \in Nat /\ Current \in 1..Len(bbs)
         /\ Current = stack[Len(stack)].block
         /\ \A i \in 1..(Len(stack) - 1) : stack[i].block < Current
         /\ \A k \in 1..Len(frames) : \A r \in Reserved(k) : r # Current
<1>1. /\ Len(frames) \in Nat /\ Len(stack) \in Nat /\ Len(bbs) \in Nat
      /\ StackMirrorsNesting /\ BlocksInOrder /\ ReservedBlocks
  BY LenProperties DEF StackInv, TypeOK
<1>2. /\ Len(stack) \in 1..Len(stack) /\ Current = stack[Len(stack)].block
      /\ Current \in 1..Len(bbs)
  BY Inside DEF Current
<1>3. \A i \in 1..(Len(stack) - 1) : stack[i].block < Current
  BY <1>1, <1>2 DEF BlocksInOrder
<1>4. ASSUME NEW k \in 1..Len(frames), NEW r \in Reserved(k)
      PROVE  r # Current
  <2>1. /\ r \in (frames[k].block + 1)..Len(bbs)
        /\ \A i \in (frames[k].base + 1)..Len(stack) : r < stack[i].block
    BY <1>1 DEF ReservedBlocks
  <2>2. /\ frames[k].base \in 1..Len(stack) /\ stack[frames[k].base].block = frames[k].block
        /\ frames[k].block \in 1..Len(bbs)
    BY <1>1, FrameBases DEF StackMirrorsNesting, BlocksInOrder
  <2>3. CASE frames[k].base = Len(stack)
    BY <2>1, <2>2, <2>3, <1>1, <1>2
  <2>4. CASE frames[k].base # Len(stack)
    <3>1. Len(stack) \in (frames[k].base + 1)..Len(stack)
      BY <2>2, <2>4, <1>1
    <3> QED BY <2>1, <2>2, <3>1, <1>1, <1>2
  <2> QED BY <2>3, <2>4
<1> QED BY <1>1, <1>2, <1>3, <1>4

(* The entry put on top of the h kept ones: an open block, younger than the *)
(* entries below and than the blocks set aside, inserted for a new visit or *)
(* where a finished one left off.                                          *)
NewEntry(p, h) ==
  LET e == stack'[h+1].block IN
  /\ e \in 1..Len(bbs')
  /\ bbs'[e].terms = <<>>
  /\ \A i \in 1..h : stack[i].block < e
  /\ \A k \in 1..p : \A r \in Reserved(k) : r < e
  /\ stack'[h+1].isMergeBlock <=> Len(frames') = p
  /\ Len(frames') = p => p > 0 /\ bbs'[e].fn = bbs[frames[p].block].fn

(* The block r is one that the visit f created for later. *)
SetAside(f, r) == r # 0 /\ \/ f.kind = "if" /\ r \in {f.other, f.merge}
                           \/ f.kind \in {"else", "while"} /\ r = f.merge

NewFrame(p, h) ==
  LET f == frames'[p+1] IN
  /\ Len(stack') = h + 1
  /\ f.base = h + 1
  /\ f.block = stack'[h+1].block
  /\ f.kind # "main"
  /\ f.kind \in {"if", "else", "while"} =>
       /\ p > 0 /\ f.merge # 0
       /\ bbs'[f.block].fn = bbs[frames[p].block].fn
  /\ f.kind = "if" => f.other < f.merge
  /\ f.kind = "while" => f.other < f.block
  /\ \A r : SetAside(f, r) => /\ r \in (f.block + 1)..Len(bbs')
                              /\ bbs'[r].terms = <<>>
                              /\ bbs'[r].fn = bbs'[f.block].fn

(* Every step that goes on either keeps all or drops the innermost part of *)
(* the stack, then adds at most one entry and one frame.                   *)
LEMMA Reshape ==
  ASSUME StackInv, TypeOK', NEW p, NEW h, Keeps(p, h),
         Len(bbs) <= Len(bbs'),
         \A b \in 1..Len(bbs) : bbs'[b].fn = bbs[b].fn,
         \A b \in 1..Len(bbs) :
           frames = <<>> \/ b # Current => bbs'[b].terms = bbs[b].terms,
         Len(frames') \in {p, p + 1},
         Len(stack') \in {h, h + 1},
         \A k \in 1..p : SameFrame(frames'[k], frames[k]),
         \A i \in 1..h : SameEntry(stack'[i], stack[i]),
         h > 0 => (bbs'[stack[h].block].terms = <<>>
                     <=> \/ Len(stack') = h
                         \/ Len(frames') = p + 1 /\ frames'[p+1].kind = "function"),
         Len(stack') = h + 1 => NewEntry(p, h),
         Len(frames') = p + 1 => NewFrame(p, h)
  PROVE  StackInv'
<1> DEFINE e == stack'[h+1].block
<1>a. /\ Len(frames) \in Nat /\ Len(stack) \in Nat /\ Len(bbs) \in Nat
      /\ Len(frames') \in Nat /\ Len(stack') \in Nat /\ Len(bbs') \in Nat
      /\ Len(bbs) <= Len(bbs')
      /\ StackMirrorsNesting /\ InsertionPointIsOpen /\ BlocksInOrder /\ ReservedBlocks
  BY LenProperties DEF StackInv, TypeOK
<1>b. /\ p \in Nat /\ h \in Nat /\ p <= Len(frames) /\ h <= Len(stack)
      /\ p = 0 <=> h = 0
  BY KeptPart
<1>c. \A k \in 1..p :
        /\ k \in 1..Len(frames)
        /\ frames[k].base \in Nat /\ 1 <= frames[k].base
        /\ EndOfFrame(k) \in Nat
        /\ frames[k].base <= EndOfFrame(k) /\ EndOfFrame(k) <= h
        /\ k = p => EndOfFrame(k) = h
        /\ k # p => EndOfFrame(k) = frames[k+1].base - 1
        /\ stack[frames[k].base].block = frames[k].block
        /\ frames[k].block \in Nat /\ frames[k].block \in 1..Len(bbs)
  BY KeptPart
<1>d. \A i \in 1..h : /\ i \in 1..Len(stack)
                      /\ stack[i].block \in Nat /\ stack[i].block \in 1..Len(bbs)
  BY KeptPart
<1>e. \A k \in 1..p : /\ frames'[k].kind = frames[k].kind
                      /\ frames'[k].block = frames[k].block
                      /\ frames'[k].base = frames[k].base
                      /\ frames'[k].other = frames[k].other
                      /\ frames'[k].merge = frames[k].merge
  BY DEF SameFrame
<1>f. \A i \in 1..h : /\ stack'[i].block = stack[i].block
                      /\ stack'[i].isMergeBlock = stack[i].isMergeBlock
  BY DEF SameEntry
<1>g. Len(stack') = h + 1 =>
        /\ e \in Nat /\ e \in 1..Len(bbs')
        /\ bbs'[e].terms = <<>>
        /\ \A i \in 1..h : stack[i].block < e
        /\ \A k \in 1..p : \A r \in Reserved(k) : r < e
        /\ stack'[h+1].isMergeBlock <=> Len(frames') = p
        /\ Len(frames') = p => p > 0 /\ bbs'[e].fn = bbs[frames[p].block].fn
  BY <1>a DEF NewEntry
<1>h. Len(frames') = p + 1 =>
        /\ Len(stack') = h + 1
        /\ frames'[p+1].base = h + 1
        /\ frames'[p+1].block = e
  BY DEF NewFrame
<1>i. p > 0 => p \in 1..p
  BY <1>b
<1>j. \A i \in 1..h : i < h => bbs'[stack[i].block].terms = bbs[stack[i].block].terms
  <2> SUFFICES ASSUME NEW i \in 1..h, i < h
               PROVE  bbs'[stack[i].block].terms = bbs[stack[i].block].terms
    OBVIOUS
  <2>1. i \in 1..(Len(stack) - 1)
    BY <1>a, <1>b
  <2>2. frames # <<>> => stack[i].block < Current /\ Current \in Nat
    BY <2>1, CurrentIsYoungest
  <2> QED BY <2>2, <1>d
<1>k. \A k \in 1..p : \A r \in Reserved(k) :
        /\ r \in Nat /\ r \in (frames[k].block + 1)..Len(bbs) /\ r \in 1..Len(bbs)
        /\ \A i \in (frames[k].base + 1)..Len(stack) : r < stack[i].block
        /\ bbs'[r].terms = <<>>
        /\ bbs'[r].fn = bbs[frames[k].block].fn
  <2> SUFFICES ASSUME NEW k \in 1..p, NEW r \in Reserved(k)
               PROVE  /\ r \in Nat /\ r \in (frames[k].block + 1)..Len(bbs) /\ r \in 1..Len(bbs)
                      /\ \A i \in (frames[k].base + 1)..Len(stack) : r < stack[i].block
                      /\ bbs'[r].terms = <<>>
                      /\ bbs'[r].fn = bbs[frames[k].block].fn
    OBVIOUS
  <2>1. k \in 1..Len(frames) /\ frames # <<>> /\ frames[k].block \in Nat
    BY <1>a, <1>c, EmptySeq
  <2>2. /\ r \in (frames[k].block + 1)..Len(bbs)
        /\ \A i \in (frames[k].base + 1)..Len(stack) : r < stack[i].block
        /\ bbs[r].terms = <<>>
        /\ bbs[r].fn = bbs[frames[k].block].fn
    BY <2>1, <1>a DEF ReservedBlocks
  <2>3. r \in Nat /\ r \in 1..Len(bbs)
    BY <2>1, <2>2, <1>a
  <2>4. r # Current
    BY <2>1, CurrentIsYoungest
  <2> QED BY <2>1, <2>2, <2>3, <2>4
<1> HIDE DEF e
<1>1. \A k \in 1..p :
        /\ k # p => EndOfFrame(k)' = EndOfFrame(k) /\ k < Len(frames')
        /\ k = p => EndOfFrame(k)' = IF Len(frames') = p THEN Len(stack') ELSE h
        /\ EndOfFrame(k)' \in Nat
        /\ EndOfFrame(k) <= EndOfFrame(k)' /\ EndOfFrame(k)' <= Len(stack')
  <2> SUFFICES ASSUME NEW k \in 1..p
               PROVE  /\ k # p => EndOfFrame(k)' = EndOfFrame(k) /\ k < Len(frames')
                      /\ k = p => EndOfFrame(k)' = IF Len(frames') = p THEN Len(stack') ELSE h
                      /\ EndOfFrame(k)' \in Nat
                      /\ EndOfFrame(k) <= EndOfFrame(k)' /\ EndOfFrame(k)' <= Len(stack')
    OBVIOUS
  <2>1. CASE k # p
    <3>1. k + 1 \in 1..p /\ k < Len(frames')
      BY SMTT(60), <2>1, <1>b
    <3>2. EndOfFrame(k)' = EndOfFrame(k)
      BY <2>1, <3>1, <1>c, <1>e DEF EndOfFrame
    <3> QED BY <2>1, <3>1, <3>2, <1>a, <1>b, <1>c
  <2>2. CASE k = p /\ Len(frames') = p
    <3>1. EndOfFrame(k)' = Len(stack')
      BY <2>2, <1>b DEF EndOfFrame
    <3> QED BY <2>2, <3>1, <1>a, <1>b, <1>c
  <2>3. CASE k = p /\ Len(frames') = p + 1
    <3>1. EndOfFrame(k)' = h
      BY <2>3, <1>b, <1>h DEF EndOfFrame
    <3> QED BY <2>3, <3>1, <1>a, <1>b, <1>c, <1>h
  <2> QED BY <2>1, <2>2, <2>3
<1>2. Len(frames') = p + 1 => EndOfFrame(p+1)' = h + 1
  BY <1>b, <1>h DEF EndOfFrame
<1>3. \A k \in 1..p : \A i \in frames[k].base..EndOfFrame(k)' :
        \/ i \in frames[k].base..EndOfFrame(k) /\ i \in 1..h
        \/ i = h + 1 /\ k = p /\ Len(frames') = p /\ Len(stack') = h + 1
  <2> SUFFICES ASSUME NEW k \in 1..p, NEW i \in frames[k].base..EndOfFrame(k)'
               PROVE  \/ i \in frames[k].base..EndOfFrame(k) /\ i \in 1..h
                      \/ i = h + 1 /\ k = p /\ Len(frames') = p /\ Len(stack') = h + 1
    OBVIOUS
  <2>1. /\ frames[k].base \in Nat /\ EndOfFrame(k) \in Nat /\ EndOfFrame(k)' \in Nat
        /\ 1 <= frames[k].base /\ EndOfFrame(k) <= h
    BY <1>1, <1>c
  <2>2. i \in Nat /\ frames[k].base <= i /\ i <= EndOfFrame(k)'
    BY <2>1
  <2>3. CASE EndOfFrame(k)' = EndOfFrame(k)
    BY <2>1, <2>2, <2>3, <1>b
  <2>4. CASE k = p /\ EndOfFrame(k) = h /\ Len(frames') = p /\ EndOfFrame(k)' = Len(stack')
    <3>1. Len(stack') = h \/ Len(stack') = h + 1
      OBVIOUS
    <3> QED BY <2>1, <2>2, <2>4, <3>1, <1>b
  <2>5. CASE k = p /\ EndOfFrame(k) = h /\ Len(frames') # p /\ EndOfFrame(k)' = h
    BY <2>3, <2>5
  <2> QED BY <2>3, <2>4, <2>5, <1>1, <1>c
<1>4. StackMirrorsNesting'
  <2>1. frames' = <<>> => stack' = <<>>
    <3>1. frames' = <<>> => Len(frames') = 0
      OBVIOUS
    <3>2. Len(frames') = 0 => p = 0 /\ Len(stack') # h + 1
      BY <1>b, <1>g
    <3>3. Len(frames') = 0 => Len(stack') = 0
      BY <3>2, <1>b
    <3> QED BY <3>1, <3>3, EmptySeq DEF TypeOK
  <2>2. frames' # <<>> => frames'[1].base = 1
    <3>1. CASE p > 0
      <4>1. 1 \in 1..p /\ frames # <<>>
        BY <3>1, <1>a, <1>b, <1>c, EmptySeq
      <4> QED BY <4>1, <1>a, <1>e DEF StackMirrorsNesting
    <3>2. CASE p = 0 /\ Len(frames') = p + 1
      BY <3>2, <1>b, <1>h
    <3>3. CASE p = 0 /\ Len(frames') = p
      BY <3>3, EmptySeq DEF TypeOK
    <3> QED BY <3>1, <3>2, <3>3, <1>b
  <2> DEFINE Mirrors(k) ==
        /\ frames'[k].base \in 1..EndOfFrame(k)'
        /\ EndOfFrame(k)' <= Len(stack')
        /\ stack'[frames'[k].base].block = frames'[k].block
        /\ ~stack'[frames'[k].base].isMergeBlock
        /\ \A i \in (frames'[k].base + 1)..EndOfFrame(k)' : stack'[i].isMergeBlock
        /\ \A i \in frames'[k].base..EndOfFrame(k)' :
             bbs'[stack'[i].block].fn = bbs'[frames'[k].block].fn
  <2>3. ASSUME NEW k \in 1..p
        PROVE  Mirrors(k)
    <3>0. /\ frames'[k].base = frames[k].base /\ frames'[k].block = frames[k].block
          /\ k \in 1..Len(frames) /\ frames[k].base \in 1..h
      BY <1>b, <1>c, <1>e
    <3>1. frames'[k].base \in 1..EndOfFrame(k)' /\ EndOfFrame(k)' <= Len(stack')
      BY <3>0, <1>1, <1>c
    <3>2. /\ stack'[frames'[k].base].block = frames'[k].block
          /\ ~stack'[frames'[k].base].isMergeBlock
      <4>1. /\ stack[frames[k].base].block = frames[k].block
            /\ ~stack[frames[k].base].isMergeBlock
        BY <3>0, <1>a DEF StackMirrorsNesting
      <4>2. /\ stack'[frames[k].base].block = stack[frames[k].base].block
            /\ stack'[frames[k].base].isMergeBlock = stack[frames[k].base].isMergeBlock
        BY <3>0, <1>f
      <4> QED BY <3>0, <4>1, <4>2
    <3>3. ASSUME NEW i \in (frames[k].base + 1)..EndOfFrame(k)'
          PROVE  stack'[i].isMergeBlock
      <4>0. i \in frames[k].base..EndOfFrame(k)' /\ i # frames[k].base
        BY SMTT(60), <1>1, <1>c
      <4>1. CASE i \in frames[k].base..EndOfFrame(k) /\ i \in 1..h
        <5>1. i \in (frames[k].base + 1)..EndOfFrame(k)
          BY <4>0, <4>1, <1>c
        <5>2. stack[i].isMergeBlock
          BY <3>0, <5>1, <1>a DEF StackMirrorsNesting
        <5> QED BY <4>1, <5>2, <1>f
      <4>2. CASE i = h + 1 /\ k = p /\ Len(frames') = p /\ Len(stack') = h + 1
        BY <4>2, <1>g
      <4> QED BY <4>0, <4>1, <4>2, <1>3
    <3>4. ASSUME NEW i \in frames[k].base..EndOfFrame(k)'
          PROVE  bbs'[stack'[i].block].fn = bbs'[frames'[k].block].fn
      <4>0. bbs'[frames'[k].block].fn = bbs[frames[k].block].fn
        BY <3>0, <1>c
      <4>1. CASE i \in frames[k].base..EndOfFrame(k) /\ i \in 1..h
        <5>1. bbs[stack[i].block].fn = bbs[frames[k].block].fn
          BY <3>0, <4>1, <1>a DEF StackMirrorsNesting
        <5> QED BY <4>0, <4>1, <5>1, <1>d, <1>f
      <4>2. CASE i = h + 1 /\ k = p /\ Len(frames') = p /\ Len(stack') = h + 1
        BY <4>0, <4>2, <1>g DEF e
      <4> QED BY <4>1, <4>2, <1>3
    <3> QED BY <3>0, <3>1, <3>2, <3>3, <3>4
  <2>4. ASSUME Len(frames') = p + 1
        PROVE  Mirrors(p+1)
    <3>1. /\ frames'[p+1].base = h + 1 /\ EndOfFrame(p+1)' = h + 1
          /\ Len(stack') = h + 1 /\ frames'[p+1].block = stack'[h+1].block
          /\ ~stack'[h+1].isMergeBlock
      BY <2>4, <1>2, <1>b, <1>g, <1>h DEF e
    <3>2. h + 1 \in 1..(h+1)
      BY <1>b
    <3>3. \A i \in (h+1)..(h+1) : i = h + 1
      BY <1>b
    <3>4. \A i \in (h+1+1)..(h+1) : FALSE
      BY <1>b
    <3> QED BY <3>1, <3>2, <3>3, <3>4, <1>a
  <2> HIDE DEF Mirrors
  <2>5. \A k \in 1..Len(frames') : Mirrors(k)
    <3>1. \A k \in 1..Len(frames') : k \in 1..p \/ (k = p + 1 /\ Len(frames') = p + 1)
      BY <1>b
    <3> QED BY <3>1, <2>3, <2>4
  <2> QED BY <2>1, <2>2, <2>5 DEF StackMirrorsNesting, Mirrors
<1>5. InsertionPointIsOpen'
  <2> DEFINE Open(k) == k = Len(frames') \/ (k < Len(frames') /\ frames'[k+1].kind = "function")
  <2>1. ASSUME NEW k \in 1..p, NEW i \in frames[k].base..EndOfFrame(k)'
        PROVE  bbs'[stack'[i].block].terms = <<>> <=> i = EndOfFrame(k)' /\ Open(k)
    <3>1. CASE i \in frames[k].base..EndOfFrame(k) /\ i \in 1..h /\ i < h
      <4>1. bbs'[stack'[i].block].terms = bbs[stack[i].block].terms
        BY <3>1, <1>f, <1>j
      <4>2. bbs[stack[i].block].terms = <<>>
              <=> /\ i = EndOfFrame(k)
                  /\ \/ k = Len(frames)
                     \/ k < Len(frames) /\ frames[k+1].kind = "function"
        BY <3>1, <1>a, <1>c DEF InsertionPointIsOpen
      <4>3. CASE k = p
        BY <3>1, <4>1, <4>2, <4>3, <1>1, <1>b, <1>c
      <4>4. CASE k # p
        <5>1. k + 1 \in 1..p /\ k < Len(frames) /\ k < Len(frames') /\ k # Len(frames')
          BY SMTT(60), <4>4, <1>b
        <5>2. EndOfFrame(k)' = EndOfFrame(k) /\ frames'[k+1].kind = frames[k+1].kind
          BY <4>4, <5>1, <1>1, <1>e
        <5> QED BY <4>1, <4>2, <5>1, <5>2
      <4> QED BY <4>3, <4>4
    <3>2. CASE i \in frames[k].base..EndOfFrame(k) /\ i \in 1..h /\ i = h
      <4>1. h > 0 /\ stack'[i].block = stack[h].block /\ k = p
        <5>1. k # p => EndOfFrame(k) < h
          <6> SUFFICES ASSUME k # p PROVE EndOfFrame(k) < h
            OBVIOUS
          <6>1. k + 1 \in 1..p
            BY <1>b
          <6>2. /\ frames[k+1].base \in Nat /\ EndOfFrame(k+1) \in Nat
                /\ frames[k+1].base <= EndOfFrame(k+1) /\ EndOfFrame(k+1) <= h
            BY <6>1, <1>c
          <6>3. EndOfFrame(k) = frames[k+1].base - 1
            BY <1>c
          <6> QED BY <6>2, <6>3, <1>b
        <5> QED BY <3>2, <5>1, <1>b, <1>c, <1>f
      <4>2. CASE Len(frames') = p
        <5>1. bbs'[stack[h].block].terms = <<>> <=> Len(stack') = h
          BY <4>1, <4>2, <1>b
        <5>2. EndOfFrame(k)' = Len(stack') /\ Open(k)
          BY <4>1, <4>2, <1>1
        <5> QED BY <3>2, <4>1, <5>1, <5>2
      <4>3. CASE Len(frames') = p + 1
        <5>1. Len(stack') # h /\ EndOfFrame(k)' = h
          BY <4>1, <4>3, <1>1, <1>b, <1>h
        <5>2. bbs'[stack[h].block].terms = <<>> <=> frames'[p+1].kind = "function"
          BY <4>1, <4>3, <5>1
        <5>3. Open(k) <=> frames'[p+1].kind = "function"
          BY <4>1, <4>3, <1>b
        <5> QED BY <3>2, <4>1, <5>1, <5>2, <5>3
      <4> QED BY <4>2, <4>3
    <3>3. CASE i = h + 1 /\ k = p /\ Len(frames') = p /\ Len(stack') = h + 1
      BY <3>3, <1>1, <1>g DEF e
    <3>4. i \in 1..h => i < h \/ i = h
      BY <1>b
    <3> QED BY <3>1, <3>2, <3>3, <3>4, <1>3
  <2>2. ASSUME Len(frames') = p + 1, NEW i \in frames'[p+1].base..EndOfFrame(p+1)'
        PROVE  bbs'[stack'[i].block].terms = <<>> <=> i = EndOfFrame(p+1)' /\ Open(p+1)
    <3>1. /\ frames'[p+1].base = h + 1 /\ EndOfFrame(p+1)' = h + 1
          /\ bbs'[stack'[h+1].block].terms = <<>>
      BY <2>2, <1>2, <1>g, <1>h DEF e
    <3>2. i = h + 1
      BY <3>1, <1>b
    <3> QED BY <2>2, <3>1, <3>2
  <2>3. \A k \in 1..Len(frames') : k \in 1..p \/ (k = p + 1 /\ Len(frames') = p + 1)
    BY <1>b
  <2>4. ASSUME NEW k \in 1..Len(frames'), NEW i \in frames'[k].base..EndOfFrame(k)'
        PROVE  bbs'[stack'[i].block].terms = <<>> <=> i = EndOfFrame(k)' /\ Open(k)
    BY <2>1, <2>2, <2>3, <1>e
  <2> QED BY <2>4 DEF InsertionPointIsOpen
<1>6. BlocksInOrder'
  <2>0. \A i \in 1..Len(stack') : i \in 1..h \/ (i = h + 1 /\ Len(stack') = h + 1)
    BY <1>b
  <2>1. \A i \in 1..Len(stack') : stack'[i].block \in 1..Len(bbs')
    <3>1. \A i \in 1..h : stack'[i].block \in 1..Len(bbs')
      BY <1>a, <1>d, <1>f
    <3> QED BY <3>1, <2>0, <1>g DEF e
  <2>2. ASSUME NEW i \in 1..Len(stack'), NEW j \in 1..Len(stack'), i < j
        PROVE  stack'[i].block < stack'[j].block
    <3>1. i \in 1..h
      BY <2>0, <2>2, <1>b
    <3>2. CASE j \in 1..h
      <4>1. i \in 1..Len(stack) /\ j \in 1..Len(stack)
        BY <3>1, <3>2, <1>d
      <4> QED BY <2>2, <3>1, <3>2, <4>1, <1>a, <1>f DEF BlocksInOrder
    <3>3. CASE j = h + 1 /\ Len(stack') = h + 1
      BY <3>1, <3>3, <1>f, <1>g DEF e
    <3> QED BY <3>2, <3>3, <2>0
  <2>3. ASSUME NEW k \in 1..Len(frames'), NEW l \in 1..Len(frames'), k < l
        PROVE  frames'[k].base < frames'[l].base
    <3>1. k \in 1..p
      BY <2>3, <1>b
    <3>2. CASE l \in 1..p
      BY <2>3, <3>1, <3>2, <1>a, <1>c, <1>e DEF BlocksInOrder
    <3>3. CASE l = p + 1 /\ Len(frames') = p + 1
      <4>1. frames'[k].base = frames[k].base
        BY <3>1, <1>e
      <4>2. frames'[l].base = h + 1
        BY <3>3, <1>h
      <4>3. /\ frames[k].base \in Nat /\ EndOfFrame(k) \in Nat
            /\ frames[k].base <= EndOfFrame(k) /\ EndOfFrame(k) <= h
        BY <3>1, <1>c
      <4> QED BY <4>1, <4>2, <4>3, <1>b
    <3> QED BY <3>2, <3>3, <1>b
  <2> QED BY <2>1, <2>2, <2>3 DEF BlocksInOrder
<1>7. ReservedBlocks'
  <2> DEFINE Shape(k) ==
               /\ frames'[k].kind = "main" => k = 1
               /\ frames'[k].kind \in {"if", "else", "while"} =>
                    /\ k > 1 /\ frames'[k].merge # 0
                    /\ bbs'[frames'[k].block].fn = bbs'[frames'[k-1].block].fn
               /\ frames'[k].kind = "if" => frames'[k].other < frames'[k].merge
               /\ frames'[k].kind = "while" => frames'[k].other < frames'[k].block
             Free(k, r) ==
               /\ r \in (frames'[k].block + 1)..Len(bbs')
               /\ \A i \in (frames'[k].base + 1)..Len(stack') : r < stack'[i].block
               /\ bbs'[r].terms = <<>>
               /\ bbs'[r].fn = bbs'[frames'[k].block].fn
  <2>1. ASSUME NEW k \in 1..p
        PROVE  Shape(k)
    <3>1. k \in 1..Len(frames) /\ bbs'[frames[k].block].fn = bbs[frames[k].block].fn
      BY <1>c
    <3>2. k > 1 => /\ k - 1 \in 1..p
                   /\ bbs'[frames[k-1].block].fn = bbs[frames[k-1].block].fn
      <4>1. k > 1 => k - 1 \in 1..p
        BY <1>b
      <4> QED BY <4>1, <1>c
    <3>3. /\ frames[k].kind = "main" => k = 1
          /\ frames[k].kind \in {"if", "else", "while"} =>
               /\ k > 1 /\ frames[k].merge # 0
               /\ bbs[frames[k].block].fn = bbs[frames[k-1].block].fn
          /\ frames[k].kind = "if" => frames[k].other < frames[k].merge
          /\ frames[k].kind = "while" => frames[k].other < frames[k].block
      BY <3>1, <1>a DEF ReservedBlocks
    <3> QED BY <3>1, <3>2, <3>3, <1>e
  <2>2. ASSUME Len(frames') = p + 1
        PROVE  Shape(p+1)
    <3>1. p > 0 => /\ frames'[p].block = frames[p].block
                   /\ bbs'[frames[p].block].fn = bbs[frames[p].block].fn
      BY <1>c, <1>e, <1>i
    <3>2. (p + 1) - 1 = p /\ (p > 0 => p + 1 > 1)
      BY <1>b
    <3>3. frames'[(p + 1) - 1] = frames'[p]
      BY <3>2
    <3>4. /\ frames'[p+1].kind # "main"
          /\ frames'[p+1].kind \in {"if", "else", "while"} =>
               /\ p > 0 /\ frames'[p+1].merge # 0
               /\ bbs'[frames'[p+1].block].fn = bbs[frames[p].block].fn
          /\ frames'[p+1].kind = "if" => frames'[p+1].other < frames'[p+1].merge
          /\ frames'[p+1].kind = "while" => frames'[p+1].other < frames'[p+1].block
      BY <2>2 DEF NewFrame
    <3> QED BY <3>1, <3>2, <3>3, <3>4
  <2>3. ASSUME NEW k \in 1..p, NEW r \in Reserved(k)'
        PROVE  Free(k, r)
    <3>1. r \in Reserved(k)
      BY <1>e DEF Reserved
    <3>2. /\ r \in (frames[k].block + 1)..Len(bbs) /\ r \in Nat
          /\ \A i \in (frames[k].base + 1)..Len(stack) : r < stack[i].block
          /\ bbs'[r].terms = <<>>
          /\ bbs'[r].fn = bbs[frames[k].block].fn
      BY <3>1, <1>k
    <3>3. r \in (frames'[k].block + 1)..Len(bbs')
      <4>1. frames[k].block \in Nat /\ frames'[k].block = frames[k].block
        BY <1>c, <1>e
      <4> QED BY <3>2, <4>1, <1>a
    <3>4. bbs'[r].fn = bbs'[frames'[k].block].fn
      BY <3>2, <1>c, <1>e
    <3>5. ASSUME NEW i \in (frames[k].base + 1)..Len(stack')
          PROVE  r < stack'[i].block
      <4>1. CASE i \in 1..h
        <5>1. i \in (frames[k].base + 1)..Len(stack)
          BY <4>1, <1>a, <1>b, <1>c
        <5> QED BY <3>2, <4>1, <5>1, <1>f
      <4>2. CASE i = h + 1 /\ Len(stack') = h + 1
        BY <3>1, <4>2, <1>g DEF e
      <4>3. i \in 1..h \/ (i = h + 1 /\ Len(stack') = h + 1)
        BY SMTT(60), <1>b, <1>c
      <4> QED BY <4>1, <4>2, <4>3
    <3> QED BY <3>2, <3>3, <3>4, <3>5, <1>e
  <2>4. ASSUME Len(frames') = p + 1, NEW r \in Reserved(p+1)'
        PROVE  Free(p+1, r)
    <3>1. /\ r \in (frames'[p+1].block + 1)..Len(bbs')
          /\ bbs'[r].terms = <<>>
          /\ bbs'[r].fn = bbs'[frames'[p+1].block].fn
      <4>1. SetAside(frames'[p+1], r)
        BY DEF Reserved, SetAside
      <4> QED BY <2>4, <4>1 DEF NewFrame
    <3>2. \A i \in (frames'[p+1].base + 1)..Len(stack') : FALSE
      BY <2>4, <1>b, <1>h
    <3> QED BY <3>1, <3>2
  <2>5. \A k \in 1..Len(frames') : k \in 1..p \/ (k = p + 1 /\ Len(frames') = p + 1)
    BY <1>b
  <2> HIDE DEF Shape, Free
  <2>6. \A k \in 1..Len(frames') : Shape(k) /\ \A r \in Reserved(k)' : Free(k, r)
    BY <2>1, <2>2, <2>3, <2>4, <2>5
  <2> QED BY <2>6 DEF ReservedBlocks, Shape, Free
<1> QED BY <1>4, <1>5, <1>6, <1>7 DEF StackInv

-----------------------------------------------------------------------------
(* What the helpers of the actions return.                                 *)
LEMMA Prefix ==
  ASSUME NEW S, NEW s \in Seq(S), NEW h \in Nat, h <= Len(s)
  PROVE  /\ SubSeq(s, 1, h) \in Seq(S)
         /\ Len(SubSeq(s, 1, h)) = h
         /\ \A i \in 1..h : SubSeq(s, 1, h)[i] = s[i]
<1>1. Len(s) \in Nat
  BY LenProperties
<1>2. \A i \in 1..h : i \in 1..Len(s)
  BY <1>1
<1>3. \A i \in 1..h : s[i] \in S
  BY <1>2, ElementOfSeq
<1>4. /\ SubSeq(s, 1, h) \in Seq(S)
      /\ Len(SubSeq(s, 1, h)) = IF 1 <= h THEN h - 1 + 1 ELSE 0
      /\ \A i \in 1..(h - 1 + 1) : SubSeq(s, 1, h)[i] = s[1 + i - 1]
  BY <1>3, SubSeqProperties
<1> QED BY <1>4

LEMMA TerminatorTypes ==
  ASSUME Top \in StackEntry
  PROVE  /\ \A v \in Value : Ret(v) \in Terminator
         /\ \A b \in Nat : Br(b) \in Terminator /\ ReturnOrBranch(b) \in Terminator
         /\ \A b, c \in Nat : CondBr(b, c) \in Terminator
<1>1. Top.locals \in Locals /\ Top.returnValue \in Value
  BY DEF StackEntry
<1>2. \A v \in Value : Ret(v) \in Terminator
  BY <1>1 DEF Ret, Terminator
<1>3. \A b \in Nat : Br(b) \in Terminator
  BY <1>1, ValueTypes DEF Br, Terminator
<1>4. \A b, c \in Nat : CondBr(b, c) \in Terminator
  BY <1>1, ValueTypes DEF CondBr, Terminator
<1> QED BY <1>1, <1>2, <1>3, <1>4 DEF ReturnOrBranch

LEMMA TerminatedCode ==
  ASSUME StackInv, frames # <<>>, NEW t \in Terminator
  PROVE  /\ Terminate(t) \in Seq(BasicBlock)
         /\ Len(Terminate(t)) = Len(bbs)
         /\ \A b \in 1..Len(bbs) :
              /\ Terminate(t)[b].fn = bbs[b].fn
              /\ b # Current => Terminate(t)[b].terms = bbs[b].terms
         /\ Terminate(t)[Current].terms # <<>>
<1> DEFINE old == bbs[Current]
           new == [old EXCEPT !.terms = Append(@, t)]
<1>1. Current \in 1..Len(bbs) /\ bbs \in Seq(BasicBlock)
  BY Inside DEF StackInv, TypeOK
<1>2. old \in BasicBlock
  BY <1>1, ElementOfSeq
<1>3. Append(old.terms, t) \in Seq(Terminator) /\ Append(old.terms, t) # <<>>
  BY <1>2, AppendProperties DEF BasicBlock
<1>4. /\ new \in BasicBlock /\ new.fn = old.fn /\ new.terms = Append(old.terms, t)
  BY <1>2, <1>3 DEF BasicBlock
<1>5. Terminate(t) = [bbs EXCEPT ![Current] = new]
  BY DEF Terminate
<1> HIDE DEF new
<1>6. /\ [bbs EXCEPT ![Current] = new] \in Seq(BasicBlock)
      /\ Len([bbs EXCEPT ![Current] = new]) = Len(bbs)
      /\ \A b \in 1..Len(bbs) :
           [bbs EXCEPT ![Current] = new][b] = IF b = Current THEN new ELSE bbs[b]
  BY <1>1, <1>4, ExceptSeq
<1> QED BY <1>1, <1>3, <1>4, <1>5, <1>6

LEMMA PlacedCode ==
  ASSUME NEW code \in Seq(BasicBlock), NEW b \in 1..Len(code)
  PROVE  /\ Place(code, b) \in Seq(BasicBlock)
         /\ Len(Place(code, b)) = Len(code)
         /\ \A c \in 1..Len(code) : /\ Place(code, b)[c].fn = code[c].fn
                                    /\ Place(code, b)[c].terms = code[c].terms
<1> DEFINE new == [code[b] EXCEPT !.placed = TRUE]
<1>1. code[b] \in BasicBlock
  BY ElementOfSeq
<1>2. new \in BasicBlock /\ new.fn = code[b].fn /\ new.terms = code[b].terms
  BY <1>1 DEF BasicBlock
<1>3. Place(code, b) = [code EXCEPT ![b] = new]
  BY DEF Place
<1> HIDE DEF new
<1>4. /\ [code EXCEPT ![b] = new] \in Seq(BasicBlock)
      /\ Len([code EXCEPT ![b] = new]) = Len(code)
      /\ \A c \in 1..Len(code) : [code EXCEPT ![b] = new][c] = IF c = b THEN new ELSE code[c]
  BY <1>2, ExceptSeq
<1> QED BY <1>2, <1>3, <1>4

(* What a push returns: the same entries, and one on top                    *)
Pushed(u, s, b) ==
  /\ u \in Seq(StackEntry)
  /\ Len(u) = Len(s) + 1
  /\ \A i \in 1..Len(s) : u[i] = s[i]
  /\ u[Len(s)+1].block = b

LEMMA PushedOne ==
  ASSUME NEW s \in Seq(StackEntry), NEW e \in StackEntry, NEW b, e.block = b
  PROVE  Pushed(Append(s, e), s, b) /\ Append(s, e)[Len(s)+1] = e
<1>1. /\ Append(s, e) \in Seq(StackEntry) /\ Len(Append(s, e)) = Len(s) + 1
      /\ \A i \in 1..Len(s) : Append(s, e)[i] = s[i]
      /\ Append(s, e)[Len(s)+1] = e
  BY AppendProperties
<1> QED BY <1>1 DEF Pushed

LEMMA InheritedEntry ==
  ASSUME NEW s \in Seq(StackEntry), s # <<>>, NEW b \in Nat
  PROVE  /\ Entry(b, Last(s).locals) \in StackEntry
         /\ Entry(b, Last(s).locals).block = b /\ ~Entry(b, Last(s).locals).isMergeBlock
<1>1. Len(s) \in 1..Len(s)
  BY EmptySeq
<1>2. Last(s) \in StackEntry
  BY <1>1, ElementOfSeq DEF Last
<1>3. Last(s).locals \in Locals
  BY <1>2 DEF StackEntry
<1> QED BY <1>3, EntryType

LEMMA PushedInheriting ==
  ASSUME NEW s \in Seq(StackEntry), s # <<>>, NEW b \in Nat
  PROVE  Pushed(PushInheriting(s, b), s, b) /\ ~PushInheriting(s, b)[Len(s)+1].isMergeBlock
<1> DEFINE e == Entry(b, Last(s).locals)
<1>1. e \in StackEntry /\ e.block = b /\ ~e.isMergeBlock
  BY InheritedEntry
<1>2. PushInheriting(s, b) = Append(s, e)
  BY DEF PushInheriting
<1> HIDE DEF e
<1>3. Pushed(Append(s, e), s, b) /\ Append(s, e)[Len(s)+1] = e
  BY <1>1, PushedOne
<1> QED BY <1>1, <1>2, <1>3

LEMMA PushedMerge ==
  ASSUME NEW s \in Seq(StackEntry), s # <<>>, NEW b \in Nat
  PROVE  Pushed(PushMerge(s, b), s, b) /\ PushMerge(s, b)[Len(s)+1].isMergeBlock
<1> DEFINE e == Entry(b, Last(s).locals)
           f == [e EXCEPT !.isMergeBlock = TRUE]
<1>1. e \in StackEntry /\ e.block = b
  BY InheritedEntry
<1>2. f \in StackEntry /\ f.block = b /\ f.isMergeBlock
  BY <1>1 DEF StackEntry
<1>3. PushMerge(s, b) = Append(s, f)
  BY DEF PushMerge
<1> HIDE DEF f
<1>4. Pushed(Append(s, f), s, b) /\ Append(s, f)[Len(s)+1] = f
  BY <1>2, PushedOne
<1> QED BY <1>2, <1>3, <1>4

LEMMA PopPushed ==
  ASSUME NEW s \in Seq(StackEntry), s # <<>>, NEW b \in Nat
  PROVE  PopBlock(PushInheriting(s, b)) = s
<1> DEFINE u == PushInheriting(s, b)
<1>1. /\ u \in Seq(StackEntry) /\ Len(u) = Len(s) + 1 /\ Len(s) \in Nat
      /\ \A i \in 1..Len(s) : u[i] = s[i]
      /\ ~u[Len(s)+1].isMergeBlock
  <2>1. Pushed(u, s, b) /\ ~u[Len(s)+1].isMergeBlock
    BY PushedInheriting
  <2> QED BY <2>1, LenProperties DEF Pushed
<1> HIDE DEF u
<1>2. PopBlock(u) = SubSeq(u, 1, Len(s))
  <2>1. Len(s) + 1 \in 1..Len(u) /\ \A i \in (Len(s)+1+1)..Len(u) : FALSE
    BY <1>1
  <2>2. PopBlock(u) = SubSeq(u, 1, Len(s) + 1 - 1)
    BY <1>1, <2>1, PopBlockIsPrefix
  <2> QED BY <1>1, <2>2
<1>3. /\ SubSeq(u, 1, Len(s)) \in Seq(StackEntry)
      /\ Len(SubSeq(u, 1, Len(s))) = Len(s)
      /\ \A i \in 1..Len(s) : SubSeq(u, 1, Len(s))[i] = s[i]
  BY <1>1, Prefix
<1>4. SubSeq(u, 1, Len(s)) = s
  BY <1>3, SeqEqual
<1> QED BY <1>2, <1>4 DEF u

-----------------------------------------------------------------------------
(* The steps.                                                              *)

LEMMA ExitStep ==
  ASSUME NEW why \in {"done", "undeclared", "redeclared", "rejected"}, Exit(why)
  PROVE  StackInv'
<1>1. bbs' = <<>> /\ stack' = <<>> /\ frames' = <<>> /\ status' = why
  BY DEF Exit
<1>2. Len(frames') = 0 /\ Len(stack') = 0
  BY <1>1, EmptySeq
<1>3. TypeOK'
  BY <1>1, EmptySeq DEF TypeOK
<1>4. StackMirrorsNesting'
  BY <1>1, <1>2 DEF StackMirrorsNesting
<1>5. InsertionPointIsOpen' /\ BlocksInOrder' /\ ReservedBlocks'
  BY <1>2 DEF InsertionPointIsOpen, BlocksInOrder, ReservedBlocks
<1> QED BY <1>3, <1>4, <1>5 DEF StackInv

(* Statements without control flow only touch the locals or the return     *)
(* value of the top entry and the bookkeeping of the innermost frame.      *)
LEMMA PlainStep ==
  ASSUME StackInv, TypeOK', bbs' = bbs,
         Len(stack') = Len(stack),
         \A i \in 1..Len(stack) : SameEntry(stack'[i], stack[i]),
         Len(frames') = Len(frames),
         \A k \in 1..Len(frames) : SameFrame(frames'[k], frames[k])
  PROVE  StackInv'
<1> DEFINE p == Len(frames)
           h == Len(stack)
<1>1. Keeps(p, h) /\ p \in Nat /\ h \in Nat /\ Len(bbs) \in Nat
  BY LenProperties DEF Keeps, StackInv, TypeOK
<1>2. h > 0 => bbs[stack[h].block].terms = <<>>
  <2>1. h > 0 => frames # <<>>
    BY EmptySeq DEF StackInv, StackMirrorsNesting
  <2> QED BY <2>1, Inside DEF Current
<1>3. Len(frames') = p /\ Len(frames') # p + 1 /\ Len(stack') = h /\ Len(stack') # h + 1
  BY <1>1
<1> HIDE DEF p, h
<1>4. /\ \A k \in 1..p : SameFrame(frames'[k], frames[k])
      /\ \A i \in 1..h : SameEntry(stack'[i], stack[i])
  BY DEF p, h
<1> QED BY <1>1, <1>2, <1>3, <1>4, Reshape

LEMMA DeclareStep ==
  ASSUME StackInv, Running, frames # <<>>, NEW x \in Names, Declare(x)
  PROVE  StackInv'
<1>1. CASE IsDeclared(x)
  BY <1>1, ExitStep DEF Declare
<1>2. CASE ~IsDeclared(x)
  <2> DEFINE old == stack[Len(stack)]
             new == [old EXCEPT !.locals[x] = Current]
  <2>1. /\ stack' = [stack EXCEPT ![Len(stack)].locals[x] = Current]
        /\ frames' = Visited(frames, Computed(Current))
        /\ bbs' = bbs /\ status' = status
    BY <1>2 DEF Declare
  <2>2. /\ Len(stack) \in 1..Len(stack) /\ old \in StackEntry /\ Current \in Nat
        /\ bbs \in Seq(BasicBlock) /\ stack \in Seq(StackEntry) /\ frames \in Seq(Frame)
    BY Inside, LenProperties DEF StackInv, TypeOK
  <2>3. new \in StackEntry /\ SameEntry(new, old)
    <3>1. old.locals \in Locals
      BY <2>2 DEF StackEntry
    <3>2. [old.locals EXCEPT ![x] = Current] \in Locals
      BY <3>1, <2>2 DEF Locals
    <3> QED BY <3>2, <2>2 DEF StackEntry, SameEntry
  <2>4. stack' = [stack EXCEPT ![Len(stack)] = new]
    BY <2>1
  <2> HIDE DEF old, new
  <2>5. /\ stack' \in Seq(StackEntry) /\ Len(stack') = Len(stack)
        /\ \A i \in 1..Len(stack) : stack'[i] = IF i = Len(stack) THEN new ELSE stack[i]
    BY <2>2, <2>3, <2>4, ExceptSeq
  <2>6. \A i \in 1..Len(stack) : SameEntry(stack'[i], stack[i])
    BY <2>3, <2>5 DEF SameEntry, old
  <2>7. /\ frames' \in Seq(Frame) /\ Len(frames') = Len(frames)
        /\ \A k \in 1..Len(frames) : SameFrame(frames'[k], frames[k])
    BY <2>1, <2>2, VisitedFrames, ValueTypes
  <2>8. TypeOK'
    BY <2>1, <2>5, <2>7 DEF StackInv, TypeOK
  <2> QED BY <2>1, <2>5, <2>6, <2>7, <2>8, PlainStep
<1> QED BY <1>1, <1>2

LEMMA ReturnStep ==
  ASSUME StackInv, Running, frames # <<>>, NEW v \in Value, Return(v)
  PROVE  StackInv'
<1>1. CASE bbs[Current].terms # <<>>
  BY <1>1, ExitStep DEF Return
<1>2. CASE bbs[Current].terms = <<>>
  <2> DEFINE old == stack[Len(stack)]
             new == [old EXCEPT !.returnValue = v]
  <2>1. /\ stack' = [stack EXCEPT ![Len(stack)] = new]
        /\ frames' = Visited(frames, v)
        /\ bbs' = bbs /\ status' = status
    BY <1>2 DEF Return
  <2>2. /\ Len(stack) \in 1..Len(stack) /\ old \in StackEntry
        /\ bbs \in Seq(BasicBlock) /\ stack \in Seq(StackEntry) /\ frames \in Seq(Frame)
    BY Inside DEF StackInv, TypeOK
  <2>3. new \in StackEntry /\ SameEntry(new, old)
    BY <2>2 DEF StackEntry, SameEntry
  <2> HIDE DEF old, new
  <2>5. /\ stack' \in Seq(StackEntry) /\ Len(stack') = Len(stack)
        /\ \A i \in 1..Len(stack) : stack'[i] = IF i = Len(stack) THEN new ELSE stack[i]
    BY <2>1, <2>2, <2>3, ExceptSeq
  <2>6. \A i \in 1..Len(stack) : SameEntry(stack'[i], stack[i])
    BY <2>3, <2>5 DEF SameEntry, old
  <2>7. /\ frames' \in Seq(Frame) /\ Len(frames') = Len(frames)
        /\ \A k \in 1..Len(frames) : SameFrame(frames'[k], frames[k])
    BY <2>1, <2>2, VisitedFrames
  <2>8. TypeOK'
    BY <2>1, <2>5, <2>7 DEF StackInv, TypeOK
  <2> QED BY <2>1, <2>5, <2>6, <2>7, <2>8, PlainStep
<1> QED BY <1>1, <1>2

LEMMA VisitStep ==
  ASSUME StackInv, NEW v \in Value, frames' = Visited(frames, v),
         UNCHANGED <<bbs, stack, status>>
  PROVE  StackInv'
<1>1. stack \in Seq(StackEntry) /\ frames \in Seq(Frame)
  BY DEF StackInv, TypeOK
<1>2. /\ frames' \in Seq(Frame) /\ Len(frames') = Len(frames)
      /\ \A k \in 1..Len(frames) : SameFrame(frames'[k], frames[k])
  BY <1>1, VisitedFrames
<1>3. TypeOK'
  BY <1>2 DEF StackInv, TypeOK
<1>4. \A i \in 1..Len(stack) : SameEntry(stack'[i], stack[i])
  BY DEF SameEntry
<1> QED BY <1>2, <1>3, <1>4, PlainStep

LEMMA UnchangedStep ==
  ASSUME StackInv, UNCHANGED <<bbs, stack, frames>>,
         status' \in {"running", "done", "undeclared", "redeclared", "rejected"}
  PROVE  StackInv'
<1>1. TypeOK'
  BY DEF StackInv, TypeOK
<1>2. /\ \A i \in 1..Len(stack) : SameEntry(stack'[i], stack[i])
      /\ \A k \in 1..Len(frames) : SameFrame(frames'[k], frames[k])
  BY DEF SameEntry, SameFrame
<1> QED BY <1>1, <1>2, PlainStep

LEMMA StatementStep ==
  ASSUME StackInv, InsideFunction, Statement
  PROVE  StackInv'
<1> USE DEF InsideFunction
<1>1. ASSUME NEW x \in Names, Declare(x) PROVE StackInv'
  BY <1>1, DeclareStep
<1>2. ASSUME NEW x \in Names, Refer(x) PROVE StackInv'
  <2>1. CASE IsDeclared(x)
    <3>1. Current \in Nat
      BY CurrentIsYoungest
    <3> QED BY <1>2, <2>1, <3>1, VisitStep, ValueTypes DEF Refer
  <2>2. CASE ~IsDeclared(x)
    BY <1>2, <2>2, ExitStep DEF Refer
  <2> QED BY <2>1, <2>2
<1>3. ASSUME Compute PROVE StackInv'
  <2>1. Current \in Nat
    BY CurrentIsYoungest
  <2> QED BY <1>3, <2>1, VisitStep, ValueTypes DEF Compute
<1>4. ASSUME NEW v \in {Constant, Computed(Current)}, Return(v) PROVE StackInv'
  <2>1. v \in Value
    BY CurrentIsYoungest, ValueTypes
  <2> QED BY <1>4, <2>1, ReturnStep
<1>5. ASSUME EmptyControl PROVE StackInv'
  BY <1>5, VisitStep, ValueTypes DEF EmptyControl
<1> QED BY <1>1, <1>2, <1>3, <1>4, <1>5 DEF Statement

-----------------------------------------------------------------------------
(* What is left when the innermost visit ends.                             *)
LEMMA Dropped ==
  ASSUME StackInv, frames # <<>>,
         NEW p, NEW h, p = Len(frames) - 1, h = Innermost.base - 1
  PROVE  /\ Keeps(p, h) /\ p \in Nat /\ h \in Nat /\ Len(frames) = p + 1
         /\ PopBlock(stack) \in Seq(StackEntry) /\ Len(PopBlock(stack)) = h
         /\ \A i \in 1..h : PopBlock(stack)[i] = stack[i]
         /\ Front(frames) \in Seq(Frame) /\ Len(Front(frames)) = p
         /\ \A k \in 1..p : Front(frames)[k] = frames[k]
         /\ h > 0 => /\ stack[h].block \in 1..Len(bbs) /\ stack[h].block # Current
                     /\ bbs[stack[h].block].terms = <<>> <=> Innermost.kind = "function"
<1>1. /\ Len(frames) \in 1..Len(frames) /\ Innermost = frames[Len(frames)]
      /\ Innermost.base \in 1..Len(stack)
      /\ PopBlock(stack) = SubSeq(stack, 1, Innermost.base - 1)
  BY Inside
<1>2. /\ stack \in Seq(StackEntry) /\ frames \in Seq(Frame)
      /\ Len(stack) \in Nat /\ Len(frames) \in Nat
  BY LenProperties DEF StackInv, TypeOK
<1>3. /\ p \in Nat /\ h \in Nat /\ Len(frames) = p + 1 /\ p <= Len(frames)
      /\ h <= Len(stack) /\ h < Len(stack)
  BY <1>1, <1>2
<1>4. Keeps(p, h)
  BY <1>1 DEF Keeps
<1>5. /\ PopBlock(stack) \in Seq(StackEntry) /\ Len(PopBlock(stack)) = h
      /\ \A i \in 1..h : PopBlock(stack)[i] = stack[i]
  BY <1>1, <1>2, <1>3, Prefix
<1>6. /\ Front(frames) \in Seq(Frame) /\ Len(Front(frames)) = p
      /\ \A k \in 1..p : Front(frames)[k] = frames[k]
  BY <1>2, <1>3, Prefix DEF Front
<1>7. ASSUME h > 0
      PROVE  /\ stack[h].block \in 1..Len(bbs) /\ stack[h].block # Current
             /\ bbs[stack[h].block].terms = <<>> <=> Innermost.kind = "function"
  <2>1. h \in 1..h /\ h \in 1..(Len(stack) - 1)
    BY <1>2, <1>3, <1>7
  <2>2. stack[h].block \in Nat /\ stack[h].block \in 1..Len(bbs) /\ (p = 0 <=> h = 0)
    BY <2>1, <1>4, KeptPart
  <2>3. stack[h].block < Current /\ Current \in Nat
    BY <2>1, CurrentIsYoungest
  <2>4. p \in 1..p /\ p \in 1..Len(frames) /\ p < Len(frames) /\ p # Len(frames)
    BY <2>2, <1>3, <1>7
  <2>5. h = EndOfFrame(p) /\ h \in frames[p].base..EndOfFrame(p)
    <3>1. /\ p = p => EndOfFrame(p) = h
          /\ frames[p].base \in Nat /\ frames[p].base <= EndOfFrame(p)
      BY <2>4, <1>4, KeptPart
    <3> QED BY <3>1, <1>3
  <2>6. bbs[stack[h].block].terms = <<>> <=> frames[p+1].kind = "function"
    BY <2>4, <2>5 DEF StackInv, InsertionPointIsOpen
  <2> QED BY <2>2, <2>3, <2>6, <1>1, <1>3
<1> QED BY <1>3, <1>4, <1>5, <1>6, <1>7

(* What is left is older than the block the innermost visit began with.    *)
LEMMA KeptIsOlder ==
  ASSUME StackInv, frames # <<>>,
         NEW p, NEW h, p = Len(frames) - 1, h = Innermost.base - 1
  PROVE  /\ \A i \in 1..h : stack[i].block \in Nat /\ stack[i].block < Innermost.block
         /\ \A k \in 1..p : \A r \in Reserved(k) : r \in Nat /\ r < Innermost.block
<1>1. /\ Len(frames) \in 1..Len(frames) /\ Innermost = frames[Len(frames)]
      /\ Len(stack) \in Nat /\ Len(bbs) \in Nat
      /\ StackMirrorsNesting /\ ReservedBlocks
  BY Inside, LenProperties DEF StackInv, TypeOK
<1>2. /\ Innermost.base \in 1..Len(stack) /\ stack[Innermost.base].block = Innermost.block
  BY <1>1, Inside DEF StackMirrorsNesting
<1>3. Keeps(p, h) /\ p \in Nat /\ h \in Nat
  BY Dropped
<1>4. ASSUME NEW i \in 1..h
      PROVE  stack[i].block \in Nat /\ stack[i].block < Innermost.block
  <2>1. i \in 1..Len(stack) /\ i < Innermost.base
    BY <1>1, <1>2, <1>3
  <2>2. stack[i].block < Innermost.block
    BY <1>2, <2>1 DEF StackInv, BlocksInOrder
  <2> QED BY <2>2, <1>3, KeptPart
<1>5. ASSUME NEW k \in 1..p, NEW r \in Reserved(k)
      PROVE  r \in Nat /\ r < Innermost.block
  <2>1. /\ k \in 1..Len(frames) /\ frames[k].base \in Nat /\ frames[k].base <= h
        /\ frames[k].block \in Nat
    <3>1. /\ k \in 1..Len(frames) /\ frames[k].base \in Nat /\ EndOfFrame(k) \in Nat
          /\ frames[k].base <= EndOfFrame(k) /\ EndOfFrame(k) <= h
          /\ frames[k].block \in Nat
      BY <1>3, KeptPart
    <3> QED BY <3>1, <1>3
  <2>2. /\ r \in (frames[k].block + 1)..Len(bbs)
        /\ \A i \in (frames[k].base + 1)..Len(stack) : r < stack[i].block
    BY <2>1, <1>1 DEF ReservedBlocks
  <2>3. Innermost.base \in (frames[k].base + 1)..Len(stack)
    BY SMTT(60), <2>1, <1>1, <1>2, <1>3
  <2>4. r \in Nat
    BY <2>1, <2>2, <1>1
  <2>5. r < stack[Innermost.base].block
    BY <2>2, <2>3
  <2> QED BY <2>4, <2>5, <1>2
<1> QED BY <1>4, <1>5

(* A function body ends: its part of the stack goes away and the code      *)
(* around it goes on where it was.                                         *)
LEMMA CloseFunctionStep ==
  ASSUME StackInv, frames # <<>>, Innermost.kind \in {"function", "main"},
         NEW t \in Terminator, bbs' = Terminate(t), stack' = PopBlock(stack),
         frames' \in Seq(Frame), Len(frames') = Len(Front(frames)),
         \A k \in 1..Len(Front(frames)) : SameFrame(frames'[k], Front(frames)[k]),
         status' \in {"running", "done"}
  PROVE  StackInv'
<1> DEFINE p == Len(frames) - 1
           h == Innermost.base - 1
<1>1. /\ Keeps(p, h) /\ p \in Nat /\ h \in Nat
      /\ stack' \in Seq(StackEntry) /\ Len(stack') = h
      /\ \A i \in 1..h : stack'[i] = stack[i]
      /\ Len(frames') = p
      /\ \A k \in 1..p : Front(frames)[k] = frames[k]
      /\ h > 0 => /\ stack[h].block \in 1..Len(bbs) /\ stack[h].block # Current
                  /\ bbs[stack[h].block].terms = <<>> <=> Innermost.kind = "function"
  BY Dropped
<1>2. /\ bbs' \in Seq(BasicBlock) /\ Len(bbs') = Len(bbs)
      /\ \A b \in 1..Len(bbs) : /\ bbs'[b].fn = bbs[b].fn
                                /\ b # Current => bbs'[b].terms = bbs[b].terms
  BY TerminatedCode
<1>3. TypeOK'
  BY <1>1, <1>2 DEF TypeOK
<1>4. Innermost.kind = "main" => h = 0
  <2>1. /\ Len(frames) \in 1..Len(frames) /\ Innermost = frames[Len(frames)]
    BY Inside
  <2>2. Innermost.kind = "main" => p = 0
    <3>1. Innermost.kind = "main" => Len(frames) = 1
      BY <2>1 DEF StackInv, ReservedBlocks
    <3> QED BY <3>1
  <2>3. p = 0 <=> h = 0
    BY <1>1, KeptPart
  <2> QED BY <2>2, <2>3
<1>5. \A k \in 1..p : SameFrame(frames'[k], frames[k])
  <2>1. Len(Front(frames)) = p
    BY Dropped
  <2> QED BY <1>1, <2>1
<1> HIDE DEF p, h
<1>6. \A i \in 1..h : SameEntry(stack'[i], stack[i])
  BY <1>1 DEF SameEntry
<1>7. /\ Len(bbs) <= Len(bbs')
      /\ Len(frames') # p + 1 /\ Len(stack') # h + 1
  BY <1>1, <1>2, LenProperties DEF StackInv, TypeOK
<1>8. h > 0 => bbs'[stack[h].block].terms = <<>>
  BY <1>1, <1>2, <1>4
<1> QED BY <1>1, <1>2, <1>3, <1>5, <1>6, <1>7, <1>8, Reshape

(* An if or a while ends: its merge block replaces its part of the stack.  *)
LEMMA CloseConstructStep ==
  ASSUME StackInv, frames # <<>>, Innermost.kind \in {"if", "else", "while"},
         NEW t \in Terminator, NEW v \in Value,
         bbs' = Place(Terminate(t), Innermost.merge),
         stack' = PushMerge(PopBlock(stack), Innermost.merge),
         frames' = Visited(Front(frames), v),
         status' = status
  PROVE  StackInv'
<1> DEFINE p == Len(frames) - 1
           h == Innermost.base - 1
           m == Innermost.merge
<1>0. /\ Len(frames) \in 1..Len(frames) /\ Innermost = frames[Len(frames)]
      /\ Innermost \in Frame
      /\ Len(bbs) \in Nat /\ Len(frames) \in Nat
      /\ StackMirrorsNesting /\ ReservedBlocks
  BY Inside, LenProperties DEF StackInv, TypeOK
<1>1. /\ Keeps(p, h) /\ p \in Nat /\ h \in Nat /\ Len(frames) = p + 1
      /\ PopBlock(stack) \in Seq(StackEntry) /\ Len(PopBlock(stack)) = h
      /\ \A i \in 1..h : PopBlock(stack)[i] = stack[i]
      /\ Front(frames) \in Seq(Frame) /\ Len(Front(frames)) = p
      /\ \A k \in 1..p : Front(frames)[k] = frames[k]
      /\ h > 0 => /\ stack[h].block \in 1..Len(bbs) /\ stack[h].block # Current
                  /\ bbs[stack[h].block].terms = <<>> <=> Innermost.kind = "function"
  BY Dropped
<1>2. /\ p > 0 /\ m # 0
      /\ bbs[Innermost.block].fn = bbs[frames[p].block].fn
  BY <1>0, <1>1 DEF ReservedBlocks
<1>3. m \in Reserved(Len(frames))
  BY <1>0, <1>2 DEF Reserved
<1>4. /\ m \in (Innermost.block + 1)..Len(bbs)
      /\ bbs[m].terms = <<>>
      /\ bbs[m].fn = bbs[Innermost.block].fn
      /\ m # Current
  BY <1>0, <1>3, CurrentIsYoungest DEF ReservedBlocks
<1>5. Innermost.block \in Nat /\ m \in Nat /\ m \in 1..Len(bbs) /\ Innermost.block < m
  BY <1>0, <1>4 DEF Frame
<1>6. h > 0
  BY <1>1, <1>2, KeptPart
<1> HIDE DEF p, h, m
<1>7. /\ bbs' \in Seq(BasicBlock) /\ Len(bbs') = Len(bbs)
      /\ \A b \in 1..Len(bbs) : /\ bbs'[b].fn = bbs[b].fn
                                /\ b # Current => bbs'[b].terms = bbs[b].terms
  <2>1. /\ Terminate(t) \in Seq(BasicBlock) /\ Len(Terminate(t)) = Len(bbs)
        /\ \A b \in 1..Len(bbs) :
              /\ Terminate(t)[b].fn = bbs[b].fn
              /\ b # Current => Terminate(t)[b].terms = bbs[b].terms
    BY TerminatedCode
  <2>2. bbs' = Place(Terminate(t), m)
    BY DEF m
  <2> QED BY <2>1, <2>2, <1>5, PlacedCode
<1>8. /\ stack' \in Seq(StackEntry) /\ Len(stack') = h + 1
      /\ \A i \in 1..h : stack'[i] = stack[i]
      /\ stack'[h+1].block = m /\ stack'[h+1].isMergeBlock
  <2> DEFINE q == PopBlock(stack)
  <2>1. /\ q \in Seq(StackEntry) /\ Len(q) = h /\ \A i \in 1..h : q[i] = stack[i]
        /\ stack' = PushMerge(q, m)
    BY <1>1 DEF m
  <2> HIDE DEF q
  <2>2. q # <<>>
    BY <2>1, <1>6, EmptySeq
  <2>3. /\ PushMerge(q, m) \in Seq(StackEntry)
        /\ Len(PushMerge(q, m)) = Len(q) + 1
        /\ \A i \in 1..Len(q) : PushMerge(q, m)[i] = q[i]
        /\ PushMerge(q, m)[Len(q)+1].block = m
        /\ PushMerge(q, m)[Len(q)+1].isMergeBlock
    <3>1. q \in Seq(StackEntry) /\ q # <<>> /\ m \in Nat
      BY <2>1, <2>2, <1>5
    <3>2. Pushed(PushMerge(q, m), q, m) /\ PushMerge(q, m)[Len(q)+1].isMergeBlock
      BY <3>1, PushedMerge
    <3> QED BY <3>2 DEF Pushed
  <2> QED BY <2>1, <2>3
<1>9. /\ frames' \in Seq(Frame) /\ Len(frames') = p
      /\ \A k \in 1..p : SameFrame(frames'[k], frames[k])
  BY <1>1, VisitedFrames
<1>10. TypeOK'
  BY <1>7, <1>8, <1>9 DEF StackInv, TypeOK
<1>11. NewEntry(p, h)
  <2>1. /\ \A i \in 1..h : stack[i].block \in Nat /\ stack[i].block < Innermost.block
        /\ \A k \in 1..p : \A r \in Reserved(k) : r \in Nat /\ r < Innermost.block
    BY KeptIsOlder DEF p, h
  <2>2. /\ \A i \in 1..h : stack[i].block < m
        /\ \A k \in 1..p : \A r \in Reserved(k) : r < m
    BY <2>1, <1>5
  <2>3. bbs'[m].terms = <<>> /\ bbs'[m].fn = bbs[frames[p].block].fn
    BY <1>2, <1>4, <1>5, <1>7 DEF m
  <2> QED BY <2>2, <2>3, <1>2, <1>5, <1>7, <1>8, <1>9 DEF NewEntry
<1>12. \A i \in 1..h : SameEntry(stack'[i], stack[i])
  BY <1>8 DEF SameEntry
<1>13. /\ Len(bbs) <= Len(bbs') /\ Len(frames') # p + 1 /\ Len(stack') # h
  BY <1>0, <1>1, <1>7, <1>8, <1>9
<1>14. bbs'[stack[h].block].terms # <<>>
  BY <1>1, <1>6, <1>7
<1> QED BY <1>1, <1>7, <1>8, <1>9, <1>10, <1>11, <1>12, <1>13, <1>14, Reshape

(* A function, an if or a while begins: an entry on top of what is there.  *)
LEMMA OpenStep ==
  ASSUME StackInv, NEW f \in Frame,
         bbs' \in Seq(BasicBlock), Len(bbs) < Len(bbs'),
         \A b \in 1..Len(bbs) :
           /\ bbs'[b].fn = bbs[b].fn
           /\ frames = <<>> \/ b # Current => bbs'[b].terms = bbs[b].terms,
         stack' \in Seq(StackEntry), Len(stack') = Len(stack) + 1,
         \A i \in 1..Len(stack) : stack'[i] = stack[i],
         stack'[Len(stack)+1].block = f.block,
         ~stack'[Len(stack)+1].isMergeBlock,
         frames' = Append(frames, f), status' = status,
         f.base = Len(stack) + 1,
         f.block \in (Len(bbs) + 1)..Len(bbs'), bbs'[f.block].terms = <<>>,
         \/ f.kind = "function" /\ (frames # <<>> => bbs'[Current].terms = bbs[Current].terms)
         \/ /\ f.kind \in {"if", "while"} /\ frames # <<>> /\ f.merge # 0
            /\ bbs'[Current].terms # <<>> /\ bbs'[f.block].fn = CurrentFunction,
         f.kind = "if" => f.other < f.merge,
         f.kind = "while" => f.other < f.block,
         \A r : SetAside(f, r) => /\ r \in (f.block + 1)..Len(bbs')
                                          /\ bbs'[r].terms = <<>>
                                          /\ bbs'[r].fn = bbs'[f.block].fn
  PROVE  StackInv'
<1> DEFINE p == Len(frames)
           h == Len(stack)
<1>0. /\ Len(stack) \in Nat /\ Len(frames) \in Nat /\ Len(bbs) \in Nat
      /\ bbs \in Seq(BasicBlock) /\ stack \in Seq(StackEntry) /\ frames \in Seq(Frame)
      /\ Len(bbs') \in Nat /\ f.block \in Nat /\ f.other \in Nat /\ f.merge \in Nat
  BY LenProperties DEF StackInv, TypeOK, Frame
<1>1. Keeps(p, h) /\ p \in Nat /\ h \in Nat /\ (p = 0 <=> h = 0) /\ (p = 0 <=> frames = <<>>)
  <2>1. Keeps(p, h)
    BY DEF Keeps
  <2>2. p = 0 <=> h = 0
    BY <2>1, KeptPart
  <2> QED BY <1>0, <2>1, <2>2, EmptySeq
<1>2. /\ frames' \in Seq(Frame) /\ Len(frames') = p + 1
      /\ \A k \in 1..p : frames'[k] = frames[k]
      /\ frames'[p+1] = f
  BY <1>0, AppendProperties
<1>3. TypeOK'
  BY <1>2 DEF StackInv, TypeOK
<1>4. h > 0 => /\ Current = stack[h].block /\ Current \in 1..Len(bbs)
               /\ bbs[Current].terms = <<>>
               /\ CurrentFunction = bbs[frames[p].block].fn
  <2> SUFFICES ASSUME h > 0
               PROVE  /\ Current = stack[h].block /\ Current \in 1..Len(bbs)
                      /\ bbs[Current].terms = <<>>
                      /\ CurrentFunction = bbs[frames[p].block].fn
    OBVIOUS
  <2>1. frames # <<>>
    BY <1>1
  <2>2. Current = stack[h].block /\ Current \in 1..Len(bbs) /\ bbs[Current].terms = <<>>
    BY <2>1, Inside, CurrentIsYoungest
  <2>3. p \in 1..Len(frames) /\ EndOfFrame(p) = h
    BY <1>0, <1>1 DEF EndOfFrame
  <2>4. h \in frames[p].base..EndOfFrame(p)
    <3>1. frames[p].base \in 1..Len(stack)
      BY <2>3, FrameBases
    <3> QED BY <3>1, <2>3, <1>0
  <2>5. bbs[stack[h].block].fn = bbs[frames[p].block].fn
    BY <2>3, <2>4 DEF StackInv, StackMirrorsNesting
  <2> QED BY <2>2, <2>5 DEF CurrentFunction
<1>5. \A i \in 1..h : stack[i].block < f.block
  <2> SUFFICES ASSUME NEW i \in 1..h PROVE stack[i].block < f.block
    OBVIOUS
  <2>1. stack[i].block \in 1..Len(bbs)
    BY DEF StackInv, BlocksInOrder
  <2>2. stack[i].block \in Nat /\ stack[i].block <= Len(bbs)
    <3>1. Len(bbs) \in Nat
      BY <1>0
    <3> QED BY <2>1, <3>1
  <2>3. Len(bbs) < f.block
    BY <1>0
  <2> QED BY <2>2, <2>3, <1>0
<1>6. \A k \in 1..p : \A r \in Reserved(k) : r < f.block
  <2> SUFFICES ASSUME NEW k \in 1..p, NEW r \in Reserved(k) PROVE r < f.block
    OBVIOUS
  <2>1. frames[k].block \in Nat
    BY <1>1, KeptPart
  <2>2. r \in (frames[k].block + 1)..Len(bbs)
    BY DEF StackInv, ReservedBlocks
  <2> QED BY <2>1, <2>2, <1>0
<1> HIDE DEF p, h
<1>7. /\ Len(stack') = h + 1
      /\ \A i \in 1..h : SameEntry(stack'[i], stack[i])
      /\ stack'[h+1].block = f.block /\ ~stack'[h+1].isMergeBlock
      /\ f.base = h + 1
  BY DEF SameEntry, h
<1>8. \A k \in 1..p : SameFrame(frames'[k], frames[k])
  BY <1>2 DEF SameFrame
<1>9. /\ Len(frames') # p /\ Len(stack') # h /\ Len(bbs) <= Len(bbs')
      /\ f.block \in 1..Len(bbs')
  BY <1>0, <1>1, <1>2, <1>7
<1>10. NewEntry(p, h)
  BY <1>5, <1>6, <1>7, <1>9 DEF NewEntry
<1>11. NewFrame(p, h)
  <2>2. f.kind \in {"if", "else", "while"} =>
          p > 0 /\ f.merge # 0 /\ bbs'[f.block].fn = bbs[frames[p].block].fn
    <3>1. f.kind \in {"if", "else", "while"} => frames # <<>> /\ f.merge # 0
      OBVIOUS
    <3>2. f.kind \in {"if", "else", "while"} => bbs'[f.block].fn = CurrentFunction
      OBVIOUS
    <3>3. frames # <<>> => p > 0 /\ h > 0
      BY <1>1
    <3> QED BY <3>1, <3>2, <3>3, <1>4
  <2>3. f.kind # "main"
    OBVIOUS
  <2> QED BY <2>2, <2>3, <1>2, <1>7 DEF NewFrame
<1>12. h > 0 => (bbs'[stack[h].block].terms = <<>> <=> f.kind = "function")
  <2>1. h > 0 => frames # <<>> /\ bbs[Current].terms = <<>> /\ Current = stack[h].block
    BY <1>1, <1>4
  <2>2. CASE f.kind = "function"
    BY <2>1, <2>2
  <2>3. CASE f.kind \in {"if", "while"} /\ bbs'[Current].terms # <<>>
    BY <2>1, <2>3
  <2> QED BY <2>2, <2>3
<1> QED BY <1>1, <1>2, <1>3, <1>7, <1>8, <1>9, <1>10, <1>11, <1>12, Reshape

LEMMA DefineFunctionStep ==
  ASSUME StackInv, NEW params, NEW void \in BOOLEAN, DefineFunction(params, void)
  PROVE  StackInv'
<1> DEFINE b == Len(bbs) + 1
           new == NewBlock("entry", b, TRUE)
           e == Entry(b, LocalsOf(params, b))
           f == [kind |-> "function", block |-> b, base |-> Len(stack) + 1,
                 other |-> 0, merge |-> 0, void |-> void,
                 last |-> NoValue, empty |-> TRUE]
<1>1. /\ Len(stack) \in Nat /\ Len(bbs) \in Nat
      /\ bbs \in Seq(BasicBlock) /\ stack \in Seq(StackEntry)
  BY LenProperties DEF StackInv, TypeOK
<1>2. /\ bbs' = Append(bbs, new) /\ stack' = Append(stack, e)
      /\ frames' = Append(frames, f) /\ status' = status
  BY DEF DefineFunction
<1>3. b \in Nat /\ "entry" \in BlockName
  BY <1>1 DEF BlockName
<1>4. new \in BasicBlock /\ new.terms = <<>>
  BY <1>3, NewBlockType
<1>5. e \in StackEntry /\ e.block = b /\ ~e.isMergeBlock
  BY <1>3, LocalsType, EntryType
<1>6. /\ f \in Frame /\ f.kind = "function" /\ f.block = b /\ f.base = Len(stack) + 1
  BY <1>1, <1>3, ValueTypes DEF Frame, FrameKind
<1>7. \A r : ~SetAside(f, r)
  BY <1>6 DEF SetAside
<1> HIDE DEF new, e, f
<1>8. /\ bbs' \in Seq(BasicBlock) /\ Len(bbs') = Len(bbs) + 1
      /\ \A c \in 1..Len(bbs) : bbs'[c] = bbs[c]
      /\ bbs'[b] = new
  BY <1>1, <1>2, <1>4, AppendProperties
<1>9. /\ stack' \in Seq(StackEntry) /\ Len(stack') = Len(stack) + 1
      /\ \A i \in 1..Len(stack) : stack'[i] = stack[i]
      /\ stack'[Len(stack)+1] = e
  BY <1>1, <1>2, <1>5, AppendProperties
<1>10. frames # <<>> => bbs'[Current].terms = bbs[Current].terms
  BY <1>8, Inside
<1>11. \A c \in 1..Len(bbs) :
         /\ bbs'[c].fn = bbs[c].fn
         /\ frames = <<>> \/ c # Current => bbs'[c].terms = bbs[c].terms
  BY <1>8
<1>12. Len(bbs) < Len(bbs') /\ b \in (Len(bbs) + 1)..Len(bbs')
  BY <1>1, <1>8
<1>13. bbs'[f.block].terms = <<>> /\ f.block \in (Len(bbs) + 1)..Len(bbs')
  BY <1>4, <1>6, <1>8, <1>12
<1>14. /\ stack'[Len(stack)+1].block = f.block
       /\ ~stack'[Len(stack)+1].isMergeBlock
  BY <1>5, <1>6, <1>9
<1>15. /\ f.kind = "if" => f.other < f.merge
       /\ f.kind = "while" => f.other < f.block
       /\ f.kind = "function" /\ (frames # <<>> => bbs'[Current].terms = bbs[Current].terms)
  BY <1>6, <1>10
<1>16. \A r : SetAside(f, r) => /\ r \in (f.block + 1)..Len(bbs')
                                /\ bbs'[r].terms = <<>>
                                /\ bbs'[r].fn = bbs'[f.block].fn
  BY <1>7
<1> QED BY <1>2, <1>6, <1>8, <1>9, <1>11, <1>12, <1>13, <1>14, <1>15, <1>16, OpenStep

LEMMA ExtendedCode ==
  ASSUME StackInv, frames # <<>>, NEW t \in Terminator, NEW new \in Seq(BasicBlock),
         bbs' = Terminate(t) \o new
  PROVE  /\ bbs' \in Seq(BasicBlock) /\ Len(bbs') = Len(bbs) + Len(new)
         /\ \A b \in 1..Len(bbs) :
              /\ bbs'[b].fn = bbs[b].fn
              /\ b # Current => bbs'[b].terms = bbs[b].terms
         /\ bbs'[Current].terms # <<>>
         /\ \A j \in 1..Len(new) : bbs'[Len(bbs) + j] = new[j]
<1> DEFINE old == Terminate(t)
<1>1. /\ old \in Seq(BasicBlock) /\ Len(old) = Len(bbs)
      /\ \A b \in 1..Len(bbs) :
              /\ old[b].fn = bbs[b].fn
              /\ b # Current => old[b].terms = bbs[b].terms
      /\ old[Current].terms # <<>>
      /\ Current \in 1..Len(bbs)
  BY TerminatedCode, Inside
<1>2. Len(bbs) \in Nat /\ Len(new) \in Nat
  BY LenProperties DEF StackInv, TypeOK
<1> HIDE DEF old
<1>3. /\ old \o new \in Seq(BasicBlock)
      /\ Len(old \o new) = Len(old) + Len(new)
      /\ \A i \in 1..Len(old) + Len(new) :
           (old \o new)[i] = IF i <= Len(old) THEN old[i] ELSE new[i - Len(old)]
  <2>1. old \in Seq(BasicBlock) /\ new \in Seq(BasicBlock)
    BY <1>1
  <2> QED BY <2>1, ConcatProperties
<1>4. bbs' = old \o new
  BY DEF old
<1>5. \A b \in 1..Len(bbs) : bbs'[b] = old[b]
  BY <1>1, <1>2, <1>3, <1>4
<1>6. \A j \in 1..Len(new) : bbs'[Len(bbs) + j] = new[j]
  BY <1>1, <1>2, <1>3, <1>4
<1> QED BY <1>1, <1>3, <1>4, <1>5, <1>6

LEMMA IfBlocks ==
  ASSUME NEW a \in BasicBlock, NEW b \in BasicBlock, NEW c \in BasicBlock,
         NEW withElse \in BOOLEAN,
         NEW new, new = <<a>> \o (IF withElse THEN <<b>> ELSE <<>>) \o <<c>>
  PROVE  /\ new \in Seq(BasicBlock)
         /\ Len(new) = IF withElse THEN 3 ELSE 2
         /\ \A i \in 1..Len(new) : new[i] \in {a, b, c}
<1> DEFINE mid == IF withElse THEN <<b>> ELSE <<>>
           s   == <<a>> \o mid
<1>1. /\ mid \in Seq(BasicBlock) /\ Len(mid) = IF withElse THEN 1 ELSE 0
      /\ \A i \in 1..Len(mid) : mid[i] = b
  <2>1. CASE withElse
    <3>1. mid = <<b>>
      BY <2>1
    <3> HIDE DEF mid
    <3>2. <<b>> \in Seq(BasicBlock) /\ Len(<<b>>) = 1 /\ <<b>>[1] = b
      OBVIOUS
    <3>3. \A i \in 1..1 : i = 1
      OBVIOUS
    <3> QED BY <2>1, <3>1, <3>2, <3>3
  <2>2. CASE ~withElse
    <3>1. mid = <<>>
      BY <2>2
    <3> HIDE DEF mid
    <3> QED BY <2>2, <3>1, EmptySeq
  <2> QED BY <2>1, <2>2
<1>2. /\ <<a>> \in Seq(BasicBlock) /\ Len(<<a>>) = 1 /\ <<a>>[1] = a
      /\ <<c>> \in Seq(BasicBlock) /\ Len(<<c>>) = 1 /\ <<c>>[1] = c
  OBVIOUS
<1>3. new = s \o <<c>>
  OBVIOUS
<1> HIDE DEF mid
<1>4. /\ s \in Seq(BasicBlock) /\ Len(s) = 1 + Len(mid)
      /\ \A i \in 1..Len(s) : s[i] \in {a, b}
  <2> DEFINE u == <<a>>
  <2>1. u \in Seq(BasicBlock) /\ Len(u) = 1 /\ u[1] = a /\ Len(mid) \in Nat
    BY <1>1, <1>2
  <2> HIDE DEF u
  <2>2. /\ u \o mid \in Seq(BasicBlock) /\ Len(u \o mid) = Len(u) + Len(mid)
        /\ \A i \in 1..Len(u) + Len(mid) :
             (u \o mid)[i] = IF i <= Len(u) THEN u[i] ELSE mid[i - Len(u)]
    BY <1>1, <2>1, ConcatProperties
  <2>3. \A i \in 1..(1 + Len(mid)) : (u \o mid)[i] \in {a, b}
    BY <1>1, <2>1, <2>2
  <2>4. s = u \o mid
    BY DEF u
  <2> HIDE DEF s
  <2> QED BY <2>1, <2>2, <2>3, <2>4
<1> HIDE DEF s
<1>5. /\ new \in Seq(BasicBlock) /\ Len(new) = Len(s) + 1
      /\ \A i \in 1..Len(new) : new[i] \in {a, b, c}
  BY <1>2, <1>3, <1>4
<1> QED BY <1>1, <1>4, <1>5

LEMMA BeginIfStep ==
  ASSUME StackInv, InsideFunction, NEW withElse \in BOOLEAN, BeginIf(withElse)
  PROVE  StackInv'
<1> USE DEF InsideFunction
<1> DEFINE n     == Len(bbs)
           fn    == CurrentFunction
           merge == IF withElse THEN n + 3 ELSE n + 2
           other == IF withElse THEN n + 2 ELSE 0
           a     == NewBlock("if", fn, TRUE)
           b     == NewBlock("else", fn, FALSE)
           c     == NewBlock("ifcont", fn, FALSE)
           new   == <<a>> \o (IF withElse THEN <<b>> ELSE <<>>) \o <<c>>
           t     == CondBr(n + 1, IF withElse THEN other ELSE merge)
           f     == [kind |-> "if", block |-> n + 1, base |-> Len(stack) + 1,
                     other |-> other, merge |-> merge, void |-> Innermost.void,
                     last |-> NoValue, empty |-> TRUE]
<1>1. /\ bbs' = Terminate(t) \o new
      /\ stack' = PushInheriting(stack, n + 1)
      /\ frames' = Append(frames, f) /\ status' = status
  BY DEF BeginIf
<1>2. /\ Len(stack) \in Nat /\ n \in Nat /\ stack # <<>>
      /\ bbs \in Seq(BasicBlock) /\ stack \in Seq(StackEntry)
      /\ Top \in StackEntry /\ Innermost \in Frame /\ Current \in 1..Len(bbs)
  BY Inside, LenProperties, EmptySeq DEF StackInv, TypeOK
<1>3. fn \in Nat
  <2>1. bbs[Current] \in BasicBlock
    BY <1>2, ElementOfSeq
  <2> QED BY <2>1 DEF CurrentFunction, BasicBlock
<1>4. /\ a \in BasicBlock /\ a.terms = <<>> /\ a.fn = fn
      /\ b \in BasicBlock /\ b.terms = <<>> /\ b.fn = fn
      /\ c \in BasicBlock /\ c.terms = <<>> /\ c.fn = fn
  <2>1. {"if", "else", "ifcont"} \subseteq BlockName
    BY DEF BlockName
  <2> HIDE DEF fn
  <2>2. \A name \in BlockName, placed \in BOOLEAN :
           LET k == NewBlock(name, fn, placed) IN k \in BasicBlock /\ k.terms = <<>> /\ k.fn = fn
    BY <1>3, NewBlockType
  <2> QED BY <2>1, <2>2
<1>5. other \in Nat /\ merge \in Nat
  BY <1>2
<1>6. t \in Terminator
  BY <1>2, <1>5, TerminatorTypes
<1>7. /\ f \in Frame /\ f.kind = "if" /\ f.block = n + 1 /\ f.base = Len(stack) + 1
      /\ f.other = other /\ f.merge = merge
  BY <1>2, <1>5, ValueTypes DEF Frame, FrameKind
<1>8. /\ PushInheriting(stack, n + 1) \in Seq(StackEntry)
      /\ Len(PushInheriting(stack, n + 1)) = Len(stack) + 1
      /\ \A i \in 1..Len(stack) : PushInheriting(stack, n + 1)[i] = stack[i]
      /\ PushInheriting(stack, n + 1)[Len(stack)+1].block = n + 1
      /\ ~PushInheriting(stack, n + 1)[Len(stack)+1].isMergeBlock
  <2> DEFINE u == n + 1
  <2>1. u \in Nat /\ stack # <<>> /\ stack \in Seq(StackEntry)
    BY <1>2
  <2> HIDE DEF u
  <2>2. /\ PushInheriting(stack, u) \in Seq(StackEntry)
        /\ Len(PushInheriting(stack, u)) = Len(stack) + 1
        /\ \A i \in 1..Len(stack) : PushInheriting(stack, u)[i] = stack[i]
        /\ PushInheriting(stack, u)[Len(stack)+1].block = u
        /\ ~PushInheriting(stack, u)[Len(stack)+1].isMergeBlock
    <3>1. Pushed(PushInheriting(stack, u), stack, u) /\ ~PushInheriting(stack, u)[Len(stack)+1].isMergeBlock
      BY <2>1, PushedInheriting
    <3> QED BY <3>1 DEF Pushed
  <2> QED BY <2>2 DEF u
<1> HIDE DEF fn, a, b, c, t, f
<1>9. /\ new \in Seq(BasicBlock)
      /\ Len(new) = IF withElse THEN 3 ELSE 2
      /\ \A i \in 1..Len(new) : new[i].terms = <<>> /\ new[i].fn = fn
  <2>1. /\ new \in Seq(BasicBlock)
        /\ Len(new) = IF withElse THEN 3 ELSE 2
        /\ \A i \in 1..Len(new) : new[i] \in {a, b, c}
    BY <1>4, IfBlocks
  <2> HIDE DEF new
  <2> QED BY <2>1, <1>4
<1> HIDE DEF new
<1>10. /\ bbs' \in Seq(BasicBlock) /\ Len(bbs') = n + Len(new)
       /\ \A d \in 1..Len(bbs) :
            /\ bbs'[d].fn = bbs[d].fn
            /\ d # Current => bbs'[d].terms = bbs[d].terms
       /\ bbs'[Current].terms # <<>>
       /\ \A j \in 1..Len(new) : bbs'[n + j] = new[j]
  BY <1>1, <1>6, <1>9, ExtendedCode
<1>11. \A j \in 1..Len(new) : bbs'[n + j].terms = <<>> /\ bbs'[n + j].fn = fn
  BY <1>9, <1>10
<1>12. bbs'[n + 1].terms = <<>> /\ bbs'[n + 1].fn = fn
  BY <1>9, <1>11
<1>13. /\ Len(bbs) < Len(bbs') /\ f.block \in (Len(bbs) + 1)..Len(bbs')
       /\ f.merge # 0 /\ f.other < f.merge
  BY <1>2, <1>7, <1>9, <1>10
<1>14. ASSUME NEW r, SetAside(f, r)
       PROVE  /\ r \in (f.block + 1)..Len(bbs')
              /\ bbs'[r].terms = <<>>
              /\ bbs'[r].fn = bbs'[f.block].fn
  <2>1. r \in {n + 2, n + 3} /\ r <= merge /\ merge = n + Len(new)
    BY <1>14, <1>2, <1>7, <1>9 DEF SetAside
  <2>2. r - n \in 1..Len(new) /\ n + (r - n) = r
    BY <2>1, <1>2, <1>9
  <2>3. bbs'[r].terms = <<>> /\ bbs'[r].fn = fn
    BY <2>2, <1>11
  <2>4. r \in (n + 2)..(n + Len(new))
    BY <2>1, <1>2, <1>5
  <2> QED BY <2>3, <2>4, <1>2, <1>7, <1>10, <1>12
<1>15. \A d \in 1..Len(bbs) :
         /\ bbs'[d].fn = bbs[d].fn
         /\ frames = <<>> \/ d # Current => bbs'[d].terms = bbs[d].terms
  BY <1>10
<1>16. /\ stack' \in Seq(StackEntry) /\ Len(stack') = Len(stack) + 1
       /\ \A i \in 1..Len(stack) : stack'[i] = stack[i]
       /\ stack'[Len(stack)+1].block = f.block
       /\ ~stack'[Len(stack)+1].isMergeBlock
  BY <1>1, <1>7, <1>8
<1>17. /\ f.kind \in {"if", "while"} /\ frames # <<>> /\ f.merge # 0
       /\ bbs'[Current].terms # <<>> /\ bbs'[f.block].fn = CurrentFunction
  BY <1>7, <1>10, <1>12, <1>13 DEF fn
<1>18. /\ f.kind = "if" => f.other < f.merge
       /\ f.kind = "while" => f.other < f.block
       /\ bbs'[f.block].terms = <<>>
  BY <1>7, <1>12, <1>13
<1> HIDE DEF n, merge, other
<1> QED BY <1>1, <1>7, <1>10, <1>13, <1>14, <1>15, <1>16, <1>17, <1>18, OpenStep

LEMMA BeginWhileStep ==
  ASSUME StackInv, InsideFunction, BeginWhile
  PROVE  StackInv'
<1> USE DEF InsideFunction
<1> DEFINE n     == Len(bbs)
           u     == n + 2
           fn    == CurrentFunction
           t     == CondBr(n + 2, n + 3)
           a     == [NewBlock("whiletest", fn, TRUE) EXCEPT !.terms = <<t>>]
           b     == NewBlock("while", fn, TRUE)
           c     == NewBlock("whilecont", fn, FALSE)
           new   == <<a, b, c>>
           f     == [kind |-> "while", block |-> n + 2, base |-> Len(stack) + 1,
                     other |-> n + 1, merge |-> n + 3, void |-> Innermost.void,
                     last |-> NoValue, empty |-> TRUE]
<1>1. /\ bbs' = Terminate(Br(n + 1)) \o new
      /\ stack' = PushInheriting(PopBlock(PushInheriting(stack, n + 1)), u)
      /\ frames' = Append(frames, f) /\ status' = status
  BY DEF BeginWhile
<1>2. /\ Len(stack) \in Nat /\ n \in Nat /\ stack # <<>>
      /\ bbs \in Seq(BasicBlock) /\ stack \in Seq(StackEntry)
      /\ Top \in StackEntry /\ Innermost \in Frame /\ Current \in 1..Len(bbs)
  BY Inside, LenProperties, EmptySeq DEF StackInv, TypeOK
<1>3. fn \in Nat
  <2>1. bbs[Current] \in BasicBlock
    BY <1>2, ElementOfSeq
  <2> QED BY <2>1 DEF CurrentFunction, BasicBlock
<1>4. n + 1 \in Nat /\ u \in Nat /\ n + 3 \in Nat
  BY <1>2
<1>5. Br(n + 1) \in Terminator /\ t \in Terminator
  BY <1>2, <1>4, TerminatorTypes
<1>6. /\ a \in BasicBlock
      /\ b \in BasicBlock /\ b.terms = <<>> /\ b.fn = fn
      /\ c \in BasicBlock /\ c.terms = <<>> /\ c.fn = fn
  <2>1. {"whiletest", "while", "whilecont"} \subseteq BlockName
    BY DEF BlockName
  <2> HIDE DEF fn, t
  <2>2. /\ b \in BasicBlock /\ b.terms = <<>> /\ b.fn = fn
        /\ c \in BasicBlock /\ c.terms = <<>> /\ c.fn = fn
        /\ NewBlock("whiletest", fn, TRUE) \in BasicBlock
    BY <1>3, <2>1, NewBlockType
  <2>3. <<t>> \in Seq(Terminator)
    BY <1>5
  <2>4. a \in BasicBlock
    BY <2>2, <2>3 DEF BasicBlock
  <2> QED BY <2>2, <2>4
<1>7. /\ f \in Frame /\ f.kind = "while" /\ f.block = u /\ f.base = Len(stack) + 1
      /\ f.other = n + 1 /\ f.merge = n + 3
  BY <1>2, <1>4, ValueTypes DEF Frame, FrameKind
<1> HIDE DEF u
<1>8. /\ stack' \in Seq(StackEntry) /\ Len(stack') = Len(stack) + 1
      /\ \A i \in 1..Len(stack) : stack'[i] = stack[i]
      /\ stack'[Len(stack)+1].block = u
      /\ ~stack'[Len(stack)+1].isMergeBlock
  <2>1. PopBlock(PushInheriting(stack, n + 1)) = stack
    BY <1>2, <1>4, PopPushed
  <2>2. stack' = PushInheriting(stack, u)
    BY <1>1, <2>1
  <2>3. stack \in Seq(StackEntry) /\ stack # <<>>
    BY <1>2
  <2>4. /\ PushInheriting(stack, u) \in Seq(StackEntry)
        /\ Len(PushInheriting(stack, u)) = Len(stack) + 1
        /\ \A i \in 1..Len(stack) : PushInheriting(stack, u)[i] = stack[i]
        /\ PushInheriting(stack, u)[Len(stack)+1].block = u
        /\ ~PushInheriting(stack, u)[Len(stack)+1].isMergeBlock
    <3>1. Pushed(PushInheriting(stack, u), stack, u) /\ ~PushInheriting(stack, u)[Len(stack)+1].isMergeBlock
      BY <1>4, <2>3, PushedInheriting
    <3> QED BY <3>1 DEF Pushed
  <2> QED BY <2>2, <2>4
<1> HIDE DEF fn, a, b, c, t, f
<1>9. new \in Seq(BasicBlock) /\ Len(new) = 3 /\ new[2] = b /\ new[3] = c
  BY <1>6
<1> HIDE DEF new
<1>10. /\ bbs' \in Seq(BasicBlock) /\ Len(bbs') = n + Len(new)
       /\ \A d \in 1..Len(bbs) :
            /\ bbs'[d].fn = bbs[d].fn
            /\ d # Current => bbs'[d].terms = bbs[d].terms
       /\ bbs'[Current].terms # <<>>
       /\ \A j \in 1..Len(new) : bbs'[n + j] = new[j]
  BY <1>1, <1>5, <1>9, ExtendedCode
<1>11. /\ bbs'[n + 2].terms = <<>> /\ bbs'[n + 2].fn = fn
       /\ bbs'[n + 3].terms = <<>> /\ bbs'[n + 3].fn = fn
  <2>1. 2 \in 1..Len(new) /\ 3 \in 1..Len(new)
    BY <1>9
  <2> QED BY <2>1, <1>6, <1>9, <1>10
<1>12. bbs'[f.block].terms = <<>> /\ bbs'[f.block].fn = fn
  BY <1>7, <1>11 DEF u
<1>13. /\ Len(bbs) < Len(bbs') /\ f.block \in (Len(bbs) + 1)..Len(bbs')
       /\ f.merge # 0 /\ f.other < f.block /\ f.merge \in (f.block + 1)..Len(bbs')
  BY <1>2, <1>7, <1>9, <1>10 DEF u
<1>14. ASSUME NEW r, SetAside(f, r)
       PROVE  /\ r \in (f.block + 1)..Len(bbs')
              /\ bbs'[r].terms = <<>>
              /\ bbs'[r].fn = bbs'[f.block].fn
  <2>1. r = f.merge /\ r = n + 3
    BY <1>14, <1>7 DEF SetAside
  <2>2. bbs'[r].terms = <<>> /\ bbs'[r].fn = fn
    BY <2>1, <1>11
  <2> QED BY <2>1, <2>2, <1>12, <1>13
<1>15. \A d \in 1..Len(bbs) :
         /\ bbs'[d].fn = bbs[d].fn
         /\ frames = <<>> \/ d # Current => bbs'[d].terms = bbs[d].terms
  BY <1>10
<1>16. stack'[Len(stack)+1].block = f.block
  BY <1>7, <1>8
<1>17. /\ f.kind \in {"if", "while"} /\ frames # <<>> /\ f.merge # 0
       /\ bbs'[Current].terms # <<>> /\ bbs'[f.block].fn = CurrentFunction
  BY <1>7, <1>10, <1>12, <1>13 DEF fn
<1>18. /\ f.kind = "if" => f.other < f.merge
       /\ f.kind = "while" => f.other < f.block
  BY <1>7, <1>13
<1> HIDE DEF n
<1> QED BY <1>1, <1>7, <1>8, <1>10, <1>12, <1>13, <1>14, <1>15, <1>16, <1>17, <1>18, OpenStep

(* The first branch of an if ends and its else begins. *)
LEMMA SwitchStep ==
  ASSUME StackInv, InsideFunction, EndThen, Innermost.other # 0
  PROVE  StackInv'
<1> USE DEF InsideFunction
<1> DEFINE p == Len(frames) - 1
           h == Innermost.base - 1
           o == Innermost.other
           t == ReturnOrBranch(Innermost.merge)
           q == PopBlock(stack)
           g == [Innermost EXCEPT !.kind = "else", !.block = Innermost.other,
                                  !.last = NoValue, !.empty = TRUE]
<1>0. /\ Len(frames) \in 1..Len(frames) /\ Innermost = frames[Len(frames)]
      /\ Innermost \in Frame /\ Innermost.base \in Nat /\ Innermost.merge \in Nat
      /\ Len(bbs) \in Nat /\ Len(frames) \in Nat /\ frames \in Seq(Frame)
      /\ StackMirrorsNesting /\ ReservedBlocks /\ Top \in StackEntry
  BY Inside, LenProperties DEF StackInv, TypeOK, Frame
<1>1. /\ bbs' = Place(Terminate(t), o)
      /\ stack' = PushInheriting(q, o)
      /\ frames' = [frames EXCEPT ![Len(frames)] = g]
      /\ status' = status
  BY <1>0 DEF EndThen
<1>2. Innermost.kind = "if"
  BY DEF EndThen
<1>3. /\ Keeps(p, h) /\ p \in Nat /\ h \in Nat /\ Len(frames) = p + 1
      /\ q \in Seq(StackEntry) /\ Len(q) = h
      /\ \A i \in 1..h : q[i] = stack[i]
      /\ h > 0 => /\ stack[h].block \in 1..Len(bbs) /\ stack[h].block # Current
                  /\ bbs[stack[h].block].terms = <<>> <=> Innermost.kind = "function"
  BY Dropped
<1>4. /\ p > 0 /\ bbs[Innermost.block].fn = bbs[frames[p].block].fn
      /\ Innermost.merge # 0 /\ o < Innermost.merge
  BY SMTT(60), <1>0, <1>2, <1>3 DEF ReservedBlocks
<1>5. o \in Reserved(Len(frames)) /\ Innermost.merge \in Reserved(Len(frames))
  BY <1>0, <1>2, <1>4 DEF Reserved
<1>6. \A r \in Reserved(Len(frames)) :
        /\ r \in (Innermost.block + 1)..Len(bbs)
        /\ bbs[r].terms = <<>>
        /\ bbs[r].fn = bbs[Innermost.block].fn
        /\ r # Current
  BY <1>0, CurrentIsYoungest DEF ReservedBlocks
<1>7. /\ Innermost.block \in Nat /\ o \in Nat /\ o \in 1..Len(bbs) /\ Innermost.block < o
      /\ Innermost.merge \in 1..Len(bbs) /\ Innermost.merge \in (o + 1)..Len(bbs)
  <2> DEFINE m == Innermost.merge
             b == Innermost.block
  <2>1. b \in Nat /\ o \in Nat /\ m \in Nat /\ Len(bbs) \in Nat /\ o < m
    BY <1>0, <1>4 DEF Frame
  <2>2. o \in (b + 1)..Len(bbs) /\ m \in (b + 1)..Len(bbs)
    BY <1>5, <1>6
  <2> HIDE DEF b, m, o
  <2>3. /\ o \in 1..Len(bbs) /\ b < o /\ m \in 1..Len(bbs) /\ m \in (o + 1)..Len(bbs)
    BY <2>1, <2>2
  <2> QED BY <2>1, <2>3 DEF b, m
<1>8. t \in Terminator
  BY <1>0, TerminatorTypes
<1>9. h > 0
  BY <1>3, <1>4, KeptPart
<1>10. /\ g \in Frame /\ g.kind = "else" /\ g.block = o
       /\ g.base = h + 1 /\ g.other = o /\ g.merge = Innermost.merge
  <2>1. /\ Innermost \in Frame /\ Innermost.other \in Nat /\ NoValue \in Value
    BY <1>0, ValueTypes DEF Frame
  <2>2. /\ g \in Frame /\ g.kind = "else" /\ g.block = Innermost.other
        /\ g.base = Innermost.base /\ g.other = Innermost.other
        /\ g.merge = Innermost.merge
    BY <2>1 DEF Frame, FrameKind
  <2>3. Innermost.base = h + 1
    BY <1>0
  <2> QED BY <2>2, <2>3
<1> HIDE DEF p, h, o, t, q, g
<1>11. /\ bbs' \in Seq(BasicBlock) /\ Len(bbs') = Len(bbs)
       /\ \A b \in 1..Len(bbs) : /\ bbs'[b].fn = bbs[b].fn
                                 /\ b # Current => bbs'[b].terms = bbs[b].terms
  <2>1. /\ Terminate(t) \in Seq(BasicBlock) /\ Len(Terminate(t)) = Len(bbs)
        /\ \A b \in 1..Len(bbs) :
              /\ Terminate(t)[b].fn = bbs[b].fn
              /\ b # Current => Terminate(t)[b].terms = bbs[b].terms
    BY <1>8, TerminatedCode
  <2> DEFINE w == Terminate(t)
  <2>2. w \in Seq(BasicBlock) /\ o \in 1..Len(w) /\ bbs' = Place(w, o)
    BY <2>1, <1>1, <1>7
  <2> HIDE DEF w
  <2>3. /\ Place(w, o) \in Seq(BasicBlock) /\ Len(Place(w, o)) = Len(w)
        /\ \A c \in 1..Len(w) : /\ Place(w, o)[c].fn = w[c].fn
                                /\ Place(w, o)[c].terms = w[c].terms
    BY <2>2, PlacedCode
  <2> QED BY <2>1, <2>2, <2>3 DEF w
<1>12. /\ stack' \in Seq(StackEntry) /\ Len(stack') = h + 1
       /\ \A i \in 1..h : stack'[i] = stack[i]
       /\ stack'[h+1].block = o /\ ~stack'[h+1].isMergeBlock
  <2>1. q # <<>> /\ q \in Seq(StackEntry)
    BY <1>3, <1>9, EmptySeq
  <2>0. o \in Nat
    BY <1>7
  <2>2. /\ PushInheriting(q, o) \in Seq(StackEntry)
        /\ Len(PushInheriting(q, o)) = Len(q) + 1
        /\ \A i \in 1..Len(q) : PushInheriting(q, o)[i] = q[i]
        /\ PushInheriting(q, o)[Len(q)+1].block = o
        /\ ~PushInheriting(q, o)[Len(q)+1].isMergeBlock
    <3>1. Pushed(PushInheriting(q, o), q, o) /\ ~PushInheriting(q, o)[Len(q)+1].isMergeBlock
      BY <2>0, <2>1, PushedInheriting
    <3> QED BY <3>1 DEF Pushed
  <2> QED BY <2>2, <1>1, <1>3
<1>13. /\ frames' \in Seq(Frame) /\ Len(frames') = p + 1
       /\ frames'[p+1] = g
       /\ \A k \in 1..p : frames'[k] = frames[k]
  <2>1. /\ frames' \in Seq(Frame) /\ Len(frames') = Len(frames)
        /\ \A k \in 1..Len(frames) : frames'[k] = IF k = Len(frames) THEN g ELSE frames[k]
    BY <1>0, <1>1, <1>10, ExceptSeq
  <2>2. \A k \in 1..p : k \in 1..Len(frames) /\ k # Len(frames)
    BY <1>3
  <2> QED BY <2>1, <2>2, <1>0, <1>3
<1>14. TypeOK'
  BY <1>1, <1>11, <1>12, <1>13 DEF StackInv, TypeOK
<1>15. bbs'[o].terms = <<>> /\ bbs'[o].fn = bbs[frames[p].block].fn
  BY <1>4, <1>5, <1>6, <1>7, <1>11
<1>16. bbs'[Innermost.merge].terms = <<>> /\ bbs'[Innermost.merge].fn = bbs'[o].fn
  BY <1>4, <1>5, <1>6, <1>7, <1>11, <1>15
<1>17. NewEntry(p, h)
  <2>1. /\ \A i \in 1..h : stack[i].block \in Nat /\ stack[i].block < Innermost.block
        /\ \A k \in 1..p : \A r \in Reserved(k) : r \in Nat /\ r < Innermost.block
    BY KeptIsOlder DEF p, h
  <2>2. /\ \A i \in 1..h : stack[i].block < o
        /\ \A k \in 1..p : \A r \in Reserved(k) : r < o
    BY <2>1, <1>7
  <2>3. Len(frames') # p
    BY <1>3, <1>13
  <2> QED BY <2>2, <2>3, <1>7, <1>11, <1>12, <1>15 DEF NewEntry
<1>18. NewFrame(p, h)
  <2>1. \A r : SetAside(g, r) => r = Innermost.merge
    BY <1>10 DEF SetAside
  <2> QED BY <2>1, <1>4, <1>7, <1>10, <1>11, <1>12, <1>13, <1>15, <1>16 DEF NewFrame
<1>19. /\ \A i \in 1..h : SameEntry(stack'[i], stack[i])
       /\ \A k \in 1..p : SameFrame(frames'[k], frames[k])
  BY <1>12, <1>13 DEF SameEntry, SameFrame
<1>20. /\ Len(bbs) <= Len(bbs') /\ Len(stack') # h
  BY <1>0, <1>3, <1>11, <1>12
<1>21. bbs'[stack[h].block].terms # <<>> /\ frames'[p+1].kind # "function"
  BY <1>2, <1>3, <1>9, <1>10, <1>11, <1>13
<1> QED BY <1>3, <1>11, <1>12, <1>13, <1>14, <1>17, <1>18, <1>19, <1>20, <1>21, Reshape

LEMMA CloseStep ==
  ASSUME StackInv, InsideFunction,
         \/ EndThen /\ Innermost.other = 0
         \/ EndElse
         \/ EndWhile
  PROVE  StackInv'
<1> USE DEF InsideFunction
<1>1. /\ Innermost \in Frame /\ Top \in StackEntry
  BY Inside
<1>2. /\ Innermost.other \in Nat /\ Innermost.merge \in Nat /\ Innermost.last \in Value
  BY <1>1 DEF Frame
<1>3. /\ ReturnOrBranch(Innermost.merge) \in Terminator
      /\ ReturnOrBranch(TestAgain) \in Terminator
  BY <1>1, <1>2, TerminatorTypes DEF TestAgain
<1>4. IfResult \in Value /\ Garbage \in Value
  BY <1>2, ValueTypes DEF IfResult
<1>5. CASE EndThen /\ Innermost.other = 0
  <2>1. /\ Innermost.kind = "if"
        /\ bbs' = Place(Terminate(ReturnOrBranch(Innermost.merge)), Innermost.merge)
        /\ stack' = PushMerge(PopBlock(stack), Innermost.merge)
        /\ frames' = Visited(Front(frames), IfResult)
        /\ status' = status
    BY <1>5 DEF EndThen
  <2> QED BY <2>1, <1>3, <1>4, CloseConstructStep
<1>6. CASE EndElse
  <2>1. /\ Innermost.kind = "else"
        /\ bbs' = Place(Terminate(ReturnOrBranch(Innermost.merge)), Innermost.merge)
        /\ stack' = PushMerge(PopBlock(stack), Innermost.merge)
        /\ frames' = Visited(Front(frames), IfResult)
        /\ status' = status
    BY <1>6 DEF EndElse
  <2> QED BY <2>1, <1>3, <1>4, CloseConstructStep
<1>7. CASE EndWhile
  <2>1. /\ Innermost.kind = "while"
        /\ bbs' = Place(Terminate(ReturnOrBranch(TestAgain)), Innermost.merge)
        /\ stack' = PushMerge(PopBlock(stack), Innermost.merge)
        /\ frames' = Visited(Front(frames), Garbage)
        /\ status' = status
    BY <1>7 DEF EndWhile
  <2> QED BY <2>1, <1>3, <1>4, CloseConstructStep
<1> QED BY <1>5, <1>6, <1>7

LEMMA EndFunctionStep ==
  ASSUME StackInv, EndFunction \/ EndMain
  PROVE  StackInv'
<1>0. frames # <<>> /\ status = "running"
  BY DEF EndFunction, EndMain, InsideFunction, Running
<1>1. /\ Innermost \in Frame /\ Top \in StackEntry
  BY <1>0, Inside
<1>2. Innermost.last \in Value /\ Top.returnValue \in Value
  BY <1>1 DEF Frame, StackEntry
<1>3. Front(frames) \in Seq(Frame)
  BY <1>0, Dropped
<1>4. CASE EndFunction
  <2> DEFINE v == IF Top.returnValue # NoValue THEN Top.returnValue
                  ELSE IF Innermost.void THEN NoValue ELSE Innermost.last
  <2>1. /\ Innermost.kind = "function"
        /\ bbs' = Terminate(Ret(v))
        /\ stack' = PopBlock(stack)
        /\ frames' = Visited(Front(frames), Constant)
        /\ status' = status
    BY <1>4 DEF EndFunction
  <2>2. v \in Value
    BY <1>2, ValueTypes
  <2>3. Ret(v) \in Terminator
    BY <1>1, <2>2, TerminatorTypes
  <2> HIDE DEF v
  <2>4. /\ frames' \in Seq(Frame) /\ Len(frames') = Len(Front(frames))
        /\ \A k \in 1..Len(Front(frames)) : SameFrame(frames'[k], Front(frames)[k])
    BY <2>1, <1>3, ValueTypes, VisitedFrames
  <2> QED BY <1>0, <2>1, <2>3, <2>4, CloseFunctionStep
<1>5. CASE EndMain
  <2> DEFINE v == IF Top.returnValue # NoValue THEN Top.returnValue ELSE Constant
  <2>1. /\ Innermost.kind = "main"
        /\ bbs' = Terminate(Ret(v))
        /\ stack' = PopBlock(stack)
        /\ frames' = Front(frames)
        /\ status' = "done"
    BY <1>5 DEF EndMain
  <2>2. v \in Value
    BY <1>2, ValueTypes
  <2>3. Ret(v) \in Terminator
    BY <1>1, <2>2, TerminatorTypes
  <2> HIDE DEF v
  <2>4. /\ frames' \in Seq(Frame) /\ Len(frames') = Len(Front(frames))
        /\ \A k \in 1..Len(Front(frames)) : SameFrame(frames'[k], Front(frames)[k])
    BY <2>1, <1>3 DEF SameFrame
  <2> QED BY <1>0, <2>1, <2>3, <2>4, CloseFunctionStep
<1> QED BY <1>4, <1>5

-----------------------------------------------------------------------------
LEMMA InitStackInv == Init => StackInv
<1> SUFFICES ASSUME Init PROVE StackInv
  OBVIOUS
<1>1. CASE InitCompiler
  <2>1. bbs = <<>> /\ stack = <<>> /\ frames = <<>> /\ status = "running"
    BY <1>1 DEF InitCompiler, Init
  <2>2. Len(frames) = 0 /\ Len(stack) = 0
    BY <2>1, EmptySeq
  <2>3. TypeOK
    BY <2>1, EmptySeq DEF TypeOK
  <2>4. StackMirrorsNesting
    BY <2>1, <2>2 DEF StackMirrorsNesting
  <2>5. InsertionPointIsOpen /\ BlocksInOrder /\ ReservedBlocks
    BY <2>2 DEF InsertionPointIsOpen, BlocksInOrder, ReservedBlocks
  <2> QED BY <2>3, <2>4, <2>5 DEF StackInv
<1>2. CASE InitInterpreter
  <2> DEFINE b == NewBlock("entry", 1, TRUE)
             e == Entry(1, LocalsOf({Args}, 1))
             f == [kind |-> "main", block |-> 1, base |-> 1, other |-> 0, merge |-> 0,
                   void |-> FALSE, last |-> NoValue, empty |-> TRUE]
  <2>1. bbs = <<b>> /\ stack = <<e>> /\ frames = <<f>> /\ status = "running"
    BY <1>2 DEF InitInterpreter, Init
  <2>2. b \in BasicBlock /\ b.terms = <<>>
    <3>1. "entry" \in BlockName /\ 1 \in Nat /\ TRUE \in BOOLEAN
      BY DEF BlockName
    <3>2. /\ NewBlock("entry", 1, TRUE) \in BasicBlock
          /\ NewBlock("entry", 1, TRUE).terms = <<>>
      BY <3>1, NewBlockType
    <3> QED BY <3>2
  <2>3. e \in StackEntry /\ e.block = 1 /\ ~e.isMergeBlock
    BY LocalsType, EntryType
  <2>4. /\ f \in Frame /\ f.kind = "main" /\ f.block = 1 /\ f.base = 1
        /\ f.other = 0 /\ f.merge = 0
    BY ValueTypes DEF Frame, FrameKind
  <2> HIDE DEF b, e, f
  <2>5. /\ bbs \in Seq(BasicBlock) /\ Len(bbs) = 1 /\ bbs[1] = b
        /\ stack \in Seq(StackEntry) /\ Len(stack) = 1 /\ stack[1] = e
        /\ frames \in Seq(Frame) /\ Len(frames) = 1 /\ frames[1] = f
    BY <2>1, <2>2, <2>3, <2>4
  <2>6. \A k \in 1..1 : k = 1
    OBVIOUS
  <2>7. EndOfFrame(1) = 1
    BY <2>5 DEF EndOfFrame
  <2>8. TypeOK
    BY <2>1, <2>5 DEF TypeOK
  <2>9. StackMirrorsNesting
    <3>1. frames # <<>> /\ frames[1].base = 1
      <4>1. Len(frames) # 0
        BY <2>5
      <4> QED BY <4>1, <2>4, <2>5, EmptySeq
    <3>2. /\ frames[1].base \in 1..EndOfFrame(1) /\ EndOfFrame(1) <= Len(stack)
          /\ stack[frames[1].base].block = frames[1].block
          /\ ~stack[frames[1].base].isMergeBlock
          /\ \A i \in (frames[1].base + 1)..EndOfFrame(1) : FALSE
          /\ \A i \in frames[1].base..EndOfFrame(1) : i = 1
      BY <2>3, <2>4, <2>5, <2>7
    <3>3. bbs[stack[1].block].fn = bbs[frames[1].block].fn
      BY <2>3, <2>4, <2>5
    <3> QED BY <2>5, <2>6, <3>1, <3>2, <3>3 DEF StackMirrorsNesting
  <2>10. InsertionPointIsOpen
    <3>1. \A i \in frames[1].base..EndOfFrame(1) : i = 1
      BY <2>4, <2>5, <2>7
    <3>2. bbs[stack[1].block].terms = <<>>
      BY <2>2, <2>3, <2>5
    <3> QED BY <2>5, <2>6, <2>7, <3>1, <3>2 DEF InsertionPointIsOpen
  <2>11. BlocksInOrder
    BY <2>3, <2>5, <2>6 DEF BlocksInOrder
  <2>12. ReservedBlocks
    <3>1. Reserved(1) = {}
      BY <2>4, <2>5 DEF Reserved
    <3> QED BY <2>4, <2>5, <2>6, <3>1 DEF ReservedBlocks
  <2> QED BY <2>8, <2>9, <2>10, <2>11, <2>12 DEF StackInv
<1> QED BY <1>1, <1>2 DEF Init

LEMMA NextStackInv == StackInv /\ [Next]_vars => StackInv'
<1> SUFFICES ASSUME StackInv, [Next]_vars PROVE StackInv'
  OBVIOUS
<1>1. ASSUME NEW params \in SUBSET Names, NEW void \in BOOLEAN, DefineFunction(params, void)
      PROVE  StackInv'
  BY <1>1, DefineFunctionStep
<1>2. CASE EndFunction \/ EndMain
  BY <1>2, EndFunctionStep
<1>3. CASE EndFile
  BY <1>3, UnchangedStep DEF EndFile
<1>4. CASE InsideFunction /\ Statement
  BY <1>4, StatementStep
<1>5. CASE InsideFunction /\ Control
  <2>1. ASSUME NEW withElse \in BOOLEAN, BeginIf(withElse) PROVE StackInv'
    BY <1>5, <2>1, BeginIfStep
  <2>2. CASE EndThen
    BY <1>5, <2>2, SwitchStep, CloseStep
  <2>3. CASE EndElse \/ EndWhile
    BY <1>5, <2>3, CloseStep
  <2>4. CASE BeginWhile
    BY <1>5, <2>4, BeginWhileStep
  <2> QED BY <1>5, <2>1, <2>2, <2>3, <2>4 DEF Control
<1>6. CASE Reject
  BY <1>6, ExitStep DEF Reject
<1>7. CASE UNCHANGED vars
  <2>1. status' = status /\ UNCHANGED <<bbs, stack, frames>>
    BY <1>7 DEF vars
  <2> QED BY <2>1, UnchangedStep DEF StackInv, TypeOK
<1> QED BY <1>1, <1>2, <1>3, <1>4, <1>5, <1>6, <1>7 DEF Next

(* The inductive invariant of the block stack. *)
THEOREM StackInvariant == Spec => []StackInv
BY InitStackInv, NextStackInv, PTL DEF Spec

(* The four variables keep their types whatever the program compiled. *)
THEOREM TypesPreserved == Spec => []TypeOK
<1>1. StackInv => TypeOK
  BY DEF StackInv
<1> QED BY <1>1, StackInvariant, PTL

(* popBlock finds the entry its visit pushed in every program: the stack   *)
(* mirrors the nesting of functions, ifs and whiles.                       *)
THEOREM StackDiscipline == Spec => []StackMirrorsNesting
<1>1. StackInv => StackMirrorsNesting
  BY DEF StackInv
<1> QED BY <1>1, StackInvariant, PTL

(* No block ever gets a second terminator, and the builder never writes in *)
(* a block that has one.                                                   *)
THEOREM BuilderWritesInOpenBlocks == Spec => []InsertionPointIsOpen
<1>1. StackInv => InsertionPointIsOpen
  BY DEF StackInv
<1> QED BY <1>1, StackInvariant, PTL

-----------------------------------------------------------------------------
(* Below the innermost frame nothing moves.                                *)
Below(h) == Len(stack') >= h /\ \A i \in 1..h : stack'[i] = stack[i]

LEMMA SameStackBelow ==
  ASSUME StackInv, NEW h \in Nat, h < Len(stack), UNCHANGED stack
  PROVE  Below(h)
<1>1. Len(stack) \in Nat
  BY LenProperties DEF StackInv, TypeOK
<1> QED BY <1>1 DEF Below

LEMMA TopEntryBelow ==
  ASSUME StackInv, NEW h \in Nat, h < Len(stack), NEW e,
         stack' = [stack EXCEPT ![Len(stack)] = e]
  PROVE  Below(h)
<1>1. Len(stack) \in Nat /\ DOMAIN stack = 1..Len(stack) /\ stack \in Seq(StackEntry)
  BY LenProperties DEF StackInv, TypeOK
<1>2. Len(stack') = Len(stack)
  BY <1>1
<1>3. \A i \in 1..h : i \in 1..Len(stack) /\ i # Len(stack)
  <2>1. Len(stack) \in Nat
    BY <1>1
  <2> DEFINE n == Len(stack)
  <2>2. n \in Nat /\ h < n
    BY <2>1
  <2> HIDE DEF n
  <2>3. \A i \in 1..h : i \in 1..n /\ i # n
    BY <2>2
  <2> QED BY <2>3 DEF n
<1>4. \A i \in 1..h : stack'[i] = stack[i]
  BY <1>1, <1>3
<1>5. Len(stack') >= h
  BY <1>1, <1>2
<1> QED BY <1>4, <1>5 DEF Below

LEMMA PushBelow ==
  ASSUME StackInv, stack # <<>>, NEW h \in Nat, h < Len(stack), NEW b \in Nat,
         stack' = PushInheriting(stack, b)
  PROVE  Below(h)
<1>1. stack \in Seq(StackEntry) /\ Len(stack) \in Nat
  BY LenProperties DEF StackInv, TypeOK
<1>2. /\ Len(PushInheriting(stack, b)) = Len(stack) + 1
      /\ \A i \in 1..Len(stack) : PushInheriting(stack, b)[i] = stack[i]
  <2>1. stack \in Seq(StackEntry)
    BY <1>1
  <2>2. /\ PushInheriting(stack, b) \in Seq(StackEntry)
        /\ Len(PushInheriting(stack, b)) = Len(stack) + 1
        /\ \A i \in 1..Len(stack) : PushInheriting(stack, b)[i] = stack[i]
    <3>1. Pushed(PushInheriting(stack, b), stack, b) /\ ~PushInheriting(stack, b)[Len(stack)+1].isMergeBlock
      BY <2>1, PushedInheriting
    <3> QED BY <3>1 DEF Pushed
  <2> QED BY <2>2
<1> QED BY <1>1, <1>2 DEF Below

LEMMA RepushBelow ==
  ASSUME StackInv, frames # <<>>, Innermost.kind \in {"if", "else", "while"},
         NEW b \in Nat,
         \/ stack' = PushInheriting(PopBlock(stack), b)
         \/ stack' = PushMerge(PopBlock(stack), b)
  PROVE  Below(Innermost.base - 1)
<1> DEFINE q == PopBlock(stack)
           h == Innermost.base - 1
           p == Len(frames) - 1
<1>1. /\ q \in Seq(StackEntry) /\ Len(q) = h /\ h \in Nat
      /\ \A i \in 1..h : q[i] = stack[i]
      /\ Keeps(p, h) /\ p \in Nat
  BY Dropped
<1>2. q # <<>>
  <2>1. Len(frames) \in 1..Len(frames) /\ Innermost = frames[Len(frames)]
    BY Inside
  <2>2. Len(frames) > 1
    BY <2>1 DEF StackInv, ReservedBlocks
  <2>3. p # 0 /\ (p = 0 <=> h = 0)
    BY <1>1, <2>1, <2>2, KeptPart
  <2> QED BY <1>1, <2>3, EmptySeq
<1>3. stack' = PushInheriting(q, b) \/ stack' = PushMerge(q, b)
  OBVIOUS
<1> HIDE DEF q, h
<1>4. /\ Len(PushInheriting(q, b)) = Len(q) + 1
      /\ \A i \in 1..Len(q) : PushInheriting(q, b)[i] = q[i]
      /\ Len(PushMerge(q, b)) = Len(q) + 1
      /\ \A i \in 1..Len(q) : PushMerge(q, b)[i] = q[i]
  <2>1. q \in Seq(StackEntry)
    BY <1>1
  <2>2. Pushed(PushInheriting(q, b), q, b)
    BY <2>1, <1>2, PushedInheriting
  <2>3. Pushed(PushMerge(q, b), q, b)
    BY <2>1, <1>2, PushedMerge
  <2> QED BY <2>2, <2>3 DEF Pushed
<1>5. Len(stack') = h + 1 /\ \A i \in 1..h : stack'[i] = stack[i]
  BY <1>1, <1>3, <1>4
<1>6. Below(h)
  BY <1>1, <1>5 DEF Below
<1> QED BY <1>6 DEF h

LEMMA NextBelow ==
  ASSUME StackInv, Next, status' = "running", frames # <<>>
  PROVE  Below(Innermost.base - 1)
<1> DEFINE h == Innermost.base - 1
<1>1. /\ h \in Nat /\ h < Len(stack) /\ Len(stack) \in Nat /\ stack # <<>>
      /\ stack \in Seq(StackEntry) /\ Innermost \in Frame
      /\ Current \in Nat /\ Len(bbs) \in Nat
  <2>1. Innermost.base \in 1..Len(stack) /\ Len(stack) \in Nat
    BY Inside, LenProperties DEF StackInv, TypeOK
  <2>2. stack # <<>>
    BY <2>1, EmptySeq
  <2> QED BY <2>1, <2>2, Inside, CurrentIsYoungest, LenProperties DEF StackInv, TypeOK
<1>2. Innermost.other \in Nat /\ Innermost.merge \in Nat
  BY <1>1 DEF Frame
<1>3. \A why : why # "running" => ~Exit(why)
  BY DEF Exit
<1> HIDE DEF h
<1>4. ASSUME NEW params \in SUBSET Names, NEW void \in BOOLEAN, DefineFunction(params, void)
      PROVE  Below(h)
  <2> DEFINE e == Entry(Len(bbs) + 1, LocalsOf(params, Len(bbs) + 1))
  <2>1. stack' = Append(stack, e)
    BY <1>4 DEF DefineFunction
  <2>2. e \in StackEntry
    BY <1>1, LocalsType, EntryType
  <2> HIDE DEF e
  <2>3. Len(stack') = Len(stack) + 1 /\ \A i \in 1..Len(stack) : stack'[i] = stack[i]
    BY <1>1, <2>1, <2>2, AppendProperties
  <2> QED BY <1>1, <2>3 DEF Below
<1>5. ASSUME EndFunction PROVE Below(h)
  <2>1. /\ stack' = PopBlock(stack) /\ Len(PopBlock(stack)) = h
        /\ \A i \in 1..h : PopBlock(stack)[i] = stack[i]
    BY <1>5, Dropped DEF EndFunction, h
  <2> QED BY <1>1, <2>1 DEF Below
<1>6. ASSUME EndMain \/ EndFile PROVE FALSE
  BY <1>6 DEF EndMain, EndFile
<1>7. ASSUME InsideFunction, Statement PROVE Below(h)
  <2>1. ASSUME NEW x \in Names, Declare(x) PROVE Below(h)
    <3>1. IsDeclared(x) => Exit("redeclared")
      BY <2>1 DEF Declare
    <3>2. ~IsDeclared(x)
      BY <3>1, <1>3
    <3>3. stack' = [stack EXCEPT ![Len(stack)].locals[x] = Current]
      BY <2>1, <3>2 DEF Declare
    <3>4. stack' = [stack EXCEPT ![Len(stack)] = [stack[Len(stack)] EXCEPT !.locals[x] = Current]]
      BY <3>3
    <3> QED BY <3>4, <1>1, TopEntryBelow
  <2>2. ASSUME NEW v, Return(v) PROVE Below(h)
    <3>1. bbs[Current].terms # <<>> => Exit("rejected")
      BY <2>2 DEF Return
    <3>2. bbs[Current].terms = <<>>
      BY <3>1, <1>3
    <3>3. stack' = [stack EXCEPT ![Len(stack)].returnValue = v]
      BY <2>2, <3>2 DEF Return
    <3>4. stack' = [stack EXCEPT ![Len(stack)] = [stack[Len(stack)] EXCEPT !.returnValue = v]]
      BY <3>3
    <3> QED BY <3>4, <1>1, TopEntryBelow
  <2>3. ASSUME NEW x \in Names, Refer(x) PROVE UNCHANGED stack
    <3>1. ~IsDeclared(x) => Exit("undeclared")
      BY <2>3 DEF Refer
    <3>2. IsDeclared(x)
      BY <3>1, <1>3
    <3> QED BY <2>3, <3>2 DEF Refer
  <2>4. Compute \/ EmptyControl => UNCHANGED stack
    BY DEF Compute, EmptyControl
  <2> QED BY <1>7, <2>1, <2>2, <2>3, <2>4, <1>1, SameStackBelow DEF Statement
<1>8. ASSUME InsideFunction, Control PROVE Below(h)
  <2>1. ASSUME NEW withElse \in BOOLEAN, BeginIf(withElse) PROVE Below(h)
    <3>1. stack' = PushInheriting(stack, Len(bbs) + 1)
      BY <2>1 DEF BeginIf
    <3>2. Len(bbs) + 1 \in Nat
      BY <1>1
    <3> QED BY <3>1, <3>2, <1>1, PushBelow
  <2>2. ASSUME BeginWhile PROVE Below(h)
    <3>1. Len(bbs) + 1 \in Nat /\ Len(bbs) + 2 \in Nat
      BY <1>1
    <3>2. PopBlock(PushInheriting(stack, Len(bbs) + 1)) = stack
      BY <1>1, <3>1, PopPushed
    <3>3. stack' = PushInheriting(stack, Len(bbs) + 2)
      BY <2>2, <3>2 DEF BeginWhile
    <3> QED BY <3>1, <3>3, <1>1, PushBelow
  <2>3. ASSUME EndThen \/ EndElse \/ EndWhile PROVE Below(h)
    <3>1. Innermost.kind \in {"if", "else", "while"}
      BY <2>3 DEF EndThen, EndElse, EndWhile
    <3>2. \/ stack' = PushInheriting(PopBlock(stack), Innermost.other)
          \/ stack' = PushMerge(PopBlock(stack), Innermost.merge)
      BY <2>3 DEF EndThen, EndElse, EndWhile
    <3> QED BY <3>1, <3>2, <1>2, RepushBelow DEF h
  <2> QED BY <1>8, <2>1, <2>2, <2>3 DEF Control
<1>9. ASSUME Reject PROVE FALSE
  BY <1>9, <1>3 DEF Reject
<1>10. Below(h)
  BY <1>4, <1>5, <1>6, <1>7, <1>8, <1>9 DEF Next
<1> QED BY <1>10 DEF h

(* A visit works only above the entry its function pushed.                 *)
THEOREM NestedFunctionsAreIsolated == Spec => EnclosingEntriesUntouched
<1> DEFINE A == status' # "running" \/ \A k \in 1..Len(frames) :
                  k > 1 /\ frames[k].kind = "function" =>
                    /\ Len(stack') >= frames[k].base - 1
                    /\ \A i \in 1..(frames[k].base - 1) : stack'[i] = stack[i]
<1>1. StackInv /\ [Next]_vars => [A]_vars
  <2> SUFFICES ASSUME StackInv, Next, status' = "running",
                      NEW k \in 1..Len(frames)
               PROVE  /\ Len(stack') >= frames[k].base - 1
                      /\ \A i \in 1..(frames[k].base - 1) : stack'[i] = stack[i]
    OBVIOUS
  <2>1. Len(frames) \in Nat
    BY LenProperties DEF StackInv, TypeOK
  <2>2. frames # <<>>
    BY <2>1, EmptySeq
  <2>3. Len(frames) \in 1..Len(frames) /\ Innermost = frames[Len(frames)]
    BY <2>2, Inside
  <2>4. frames[k].base <= Innermost.base
    <3>1. frames[k].base \in 1..Len(stack) /\ Innermost.base \in 1..Len(stack)
      BY <2>3, FrameBases
    <3>2. k < Len(frames) \/ k = Len(frames)
      BY <2>1
    <3>3. Len(stack) \in Nat
      BY LenProperties DEF StackInv, TypeOK
    <3> QED BY <2>3, <3>1, <3>2, <3>3 DEF StackInv, BlocksInOrder
  <2>5. frames[k].base \in Nat /\ Innermost.base \in Nat
    BY <2>3, FrameBases DEF Frame
  <2>6. Below(Innermost.base - 1)
    BY <2>2, NextBelow
  <2>7. Len(stack') \in Nat
    BY NextStackInv, LenProperties DEF StackInv, TypeOK
  <2> QED BY <2>4, <2>5, <2>6, <2>7 DEF Below
<1> QED BY <1>1, StackInvariant, PTL DEF EnclosingEntriesUntouched, Spec
=============================================================================

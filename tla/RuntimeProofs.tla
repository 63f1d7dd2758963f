---------------------------- MODULE RuntimeProofs ----------------------------
(***************************************************************************)
(* Proofs about Runtime, for every number of addresses, every text, every  *)
(* command line and every collector that gives a byte more than it is      *)
(* asked for: what the runtime writes fits in its blocks, and the program  *)
(* sees values.                                                            *)
(*                                                                         *)
(* The invariant says of each string the program holds that its length is  *)
(* that of its characters, of each call what its operands and its first    *)
(* block are, and that the first block of a call is apart from everything  *)
(* the program holds.  A block the collector gives is apart too, because   *)
(* what the program holds is at most three steps from the roots.           *)
(***************************************************************************)
EXTENDS Runtime, SequenceTheorems, TLAPS

(* A string of the heap h: its length is that of its characters.           *)
StringIn(h, s) ==
  /\ s \in Addresses /\ h[s].at \in Addresses
  /\ h[s].len = Len(h[h[s].at].text) /\ h[s].len <= MaxLength
TextIn(h, s) == h[h[s].at].text

(* The first arguments of the program, as strings of the heap h            *)
ItemsIn(h, items) ==
  /\ items \in Seq(Addresses) /\ Len(items) <= Len(CommandLine)
  /\ \A i \in 1..Len(items) : StringIn(h, items[i]) /\ TextIn(h, items[i]) = CommandLine[i]

ArgumentsIn(h, s) ==
  /\ s \in Addresses /\ h[s].at \in Addresses
  /\ h[s].len = Len(CommandLine) /\ Len(h[h[s].at].items) = Len(CommandLine)
  /\ ItemsIn(h, h[h[s].at].items)

VarsInv == \A v \in Variables : vars[v] # Nil => StringIn(heap, vars[v])
CStringInv == cstring # Nil => Len(heap[cstring].text) <= MaxLength
ArgsInv == args # Nil => ArgumentsIn(heap, args)
SizesInv == \A a \in Addresses : Extent(heap[a]) <= Capacity[heap[a].size]

NothingHeld == cstring = Nil /\ \A v \in Variables : vars[v] = Nil
PhaseInv ==
  /\ pc \in {"arguments", "initialise"} => NothingHeld
  /\ pc = "arguments" => args = Nil
  /\ pc \in {"initialise", "stopped"} => call = NoCall

(* Nothing the program holds leads to the block b.                         *)
ApartFromString(h, s, b) == b # s /\ b # h[s].at
ApartFromArguments(h, s, b) ==
  /\ ApartFromString(h, s, b)
  /\ \A i \in 1..Len(h[h[s].at].items) : ApartFromString(h, h[h[s].at].items[i], b)
Apart(h, b) ==
  /\ \A v \in Variables : vars[v] # Nil => ApartFromString(h, vars[v], b)
  /\ cstring # Nil => b # cstring
  /\ args # Nil => ApartFromArguments(h, args, b)

(* The extraction of the arguments: the array, the elements, one string    *)
BlankOf(b, size, len) == b.size = size /\ b.text = <<>> /\ b.items = <<>> /\ b.len = len /\ b.at = Nil
ArrayInv ==
  /\ call.array # Nil => BlankOf(heap[call.array], ArraySize, Len(CommandLine))
  /\ call.array = Nil => call.elements = Nil
ElementsInv ==
  call.elements # Nil =>
    LET e == heap[call.elements]
    IN  /\ call.elements # call.array
        /\ e.size = Pointer * Len(CommandLine) /\ e.text = <<>> /\ e.len = 0 /\ e.at = Nil
        /\ ItemsIn(heap, e.items)
        /\ \A i \in 1..Len(e.items) :
             ApartFromString(heap, e.items[i], call.array) /\ ApartFromString(heap, e.items[i], call.elements)
ArgumentInv ==
  call.object # Nil =>
    LET e == heap[call.elements]
    IN  /\ call.elements # Nil /\ Len(e.items) < Len(CommandLine)
        /\ call.object \notin {call.array, call.elements}
        /\ BlankOf(heap[call.object], Pointer, Len(Argument))
        /\ \A i \in 1..Len(e.items) : ApartFromString(heap, e.items[i], call.object)
ExtractInv ==
  pc = "arguments" =>
    call.op = "array" /\ call.from = <<>> /\ call.data = Nil /\ ArrayInv /\ ElementsInv /\ ArgumentInv

(* A function of the runtime in progress                                   *)
MadeByProgram == DataFirst \cup {"toC", "conversion", "fromC"}
Begun(op, v, from, text, start, len) ==
  /\ op \in {"literal", "conversion"} => text \in Texts /\ len = Len(text)
  /\ op = "concat" =>
       \E l, r \in Variables :
         /\ from = <<vars[l], vars[r]>> /\ vars[l] # Nil /\ vars[r] # Nil
         /\ Length(vars[l]) + Length(vars[r]) <= MaxLength
  /\ op = "toC" => from = <<vars[v]>> /\ vars[v] # Nil
  /\ op = "fromC" => from = <<cstring>> /\ cstring # Nil /\ start + len <= Len(heap[cstring].text)
OperandsInv == Begun(call.op, call.to, call.from, call.text, call.start, call.len)
CallInv ==
  pc = "body" =>
    /\ call.op # "array" /\ call.array = Nil /\ call.elements = Nil
    /\ call.op = "none" => call = NoCall
    /\ call.op # "none" => call.to \in Variables /\ call.op \in MadeByProgram
    /\ call.op \notin DataFirst => call.data = Nil
    /\ call.op \notin {"conversion", "fromC"} => call.object = Nil
    /\ OperandsInv
    /\ call.data # Nil =>
         heap[call.data].text = Copied /\ ResultLength = Len(Copied) /\ Len(Copied) <= MaxLength
    /\ call.object # Nil => BlankOf(heap[call.object], StringSize, call.len) /\ Apart(heap, call.object)

RuntimeInv ==
  /\ RuntimeTypeOK /\ VarsInv /\ CStringInv /\ ArgsInv /\ SizesInv
  /\ PhaseInv /\ ExtractInv /\ CallInv

-----------------------------------------------------------------------------
(* Sizes and blocks                                                        *)
LEMMA Sizes ==
  /\ Pointer \in Nat \ {0} /\ MaxLength \in Nat /\ Nil \notin Addresses
  /\ CommandLine \in Seq(Text) /\ Len(CommandLine) \in Nat
  /\ \A n \in DOMAIN Capacity : n \in Nat /\ Capacity[n] \in Nat /\ n < Capacity[n]
  /\ \A n \in 0..(MaxLength + 1) : n \in DOMAIN Capacity
  /\ StringSize \in DOMAIN Capacity /\ ArraySize \in DOMAIN Capacity /\ Pointer \in DOMAIN Capacity
  /\ Pointer * Len(CommandLine) \in DOMAIN Capacity
  /\ 2 * Pointer <= Capacity[Pointer] /\ 2 * Pointer \in Nat
  /\ StringSize = 2 * Pointer /\ ArraySize = 2 * Pointer
<1>1. CommandLine \in Seq(Text) /\ Len(CommandLine) \in Nat
  BY RuntimeAssumption, LenProperties DEF RuntimeAssumption
<1>2. /\ StringSize \in DOMAIN Capacity /\ ArraySize \in DOMAIN Capacity /\ Pointer \in DOMAIN Capacity
      /\ Pointer * Len(CommandLine) \in DOMAIN Capacity
  BY RuntimeAssumption DEF RuntimeAssumption, StringSize, ArraySize
<1>3. \A n \in 0..(MaxLength + 1) : n \in DOMAIN Capacity
  BY RuntimeAssumption DEF RuntimeAssumption
<1> QED BY <1>1, <1>2, <1>3, RuntimeAssumption DEF RuntimeAssumption, StringSize, ArraySize

(* A length within the bound, alone and with a closing zero, can be asked for *)
LEMMA AskedSizes ==
  ASSUME NEW k \in 0..MaxLength
  PROVE  /\ k \in Nat /\ k + 1 \in Nat
         /\ k \in DOMAIN Capacity /\ k + 1 \in DOMAIN Capacity
<1>1. MaxLength \in Nat /\ \A n \in 0..(MaxLength + 1) : n \in DOMAIN Capacity
  BY Sizes
<1>2. k \in Nat /\ k + 1 \in Nat /\ k \in 0..(MaxLength + 1) /\ k + 1 \in 0..(MaxLength + 1)
  BY <1>1
<1> QED BY <1>1, <1>2

LEMMA SomeText ==
  /\ <<>> \in Text /\ Len(<<>>) = 0
  /\ \A t \in Texts : t \in Text /\ Len(t) \in 0..MaxLength
  /\ \A i \in 1..Len(CommandLine) : CommandLine[i] \in Text /\ Len(CommandLine[i]) \in 0..MaxLength
<1>1. <<>> \in Text /\ Len(<<>>) = 0
  BY EmptySeq DEF Text
<1>2. \A t \in Texts : t \in Text /\ Len(t) \in 0..MaxLength
  BY RuntimeAssumption, LenProperties DEF RuntimeAssumption, Text
<1>3. ASSUME NEW i \in 1..Len(CommandLine)
      PROVE  CommandLine[i] \in Text /\ Len(CommandLine[i]) \in 0..MaxLength
  <2>1. CommandLine[i] \in Text
    BY Sizes, ElementOfSeq
  <2>2. Len(CommandLine[i]) \in Nat
    BY <2>1, LenProperties DEF Text
  <2> QED BY <2>1, <2>2, RuntimeAssumption DEF RuntimeAssumption
<1> QED BY <1>1, <1>2, <1>3

(* The blocks the steps make *)
LEMMA NewBlocks ==
  ASSUME NEW n \in DOMAIN Capacity, NEW k \in Nat
  PROVE  /\ Zeroed(n) \in Block /\ BlankOf(Zeroed(n), n, 0)
         /\ [Zeroed(n) EXCEPT !.len = k] \in Block /\ BlankOf([Zeroed(n) EXCEPT !.len = k], n, k)
<1>1. <<>> \in Text /\ <<>> \in Seq(Addresses)
  BY SomeText, EmptySeq
<1> QED BY <1>1 DEF Zeroed, Block, BlankOf

LEMMA StringBlocks ==
  ASSUME NEW k \in Nat, NEW p \in Addresses \cup {Nil}
  PROVE  LET b == [Zeroed(StringSize) EXCEPT !.len = k, !.at = p]
         IN  b \in Block /\ b.size = StringSize /\ b.text = <<>> /\ b.items = <<>> /\ b.len = k /\ b.at = p
<1>1. <<>> \in Text /\ <<>> \in Seq(Addresses) /\ StringSize \in DOMAIN Capacity
  BY SomeText, EmptySeq, Sizes
<1> QED BY <1>1 DEF Zeroed, Block

LEMMA TextBlocks ==
  ASSUME NEW n \in DOMAIN Capacity, NEW t \in Text
  PROVE  LET b == [Zeroed(n) EXCEPT !.text = t]
         IN  b \in Block /\ b.size = n /\ b.text = t /\ b.items = <<>> /\ b.len = 0 /\ b.at = Nil
<1>1. <<>> \in Seq(Addresses)
  BY EmptySeq
<1> QED BY <1>1 DEF Zeroed, Block

LEMMA PointedBlocks ==
  ASSUME NEW b \in Block, NEW p \in Addresses \cup {Nil}
  PROVE  LET c == [b EXCEPT !.at = p]
         IN  c \in Block /\ c.size = b.size /\ c.text = b.text /\ c.items = b.items /\ c.len = b.len /\ c.at = p
BY DEF Block

LEMMA ExtendedBlocks ==
  ASSUME NEW b \in Block, NEW p \in Addresses
  PROVE  LET c == [b EXCEPT !.items = Append(@, p)]
         IN  /\ c \in Block /\ c.size = b.size /\ c.text = b.text /\ c.len = b.len /\ c.at = b.at
             /\ c.items = Append(b.items, p)
<1>1. b.items \in Seq(Addresses)
  BY DEF Block
<1>2. Append(b.items, p) \in Seq(Addresses)
  BY <1>1, AppendProperties
<1> QED BY <1>2 DEF Block

LEMMA BlockFields ==
  ASSUME NEW h \in [Addresses -> Block], NEW a \in Addresses
  PROVE  /\ h[a] \in Block
         /\ h[a].size \in DOMAIN Capacity /\ h[a].text \in Text /\ h[a].len \in Nat
         /\ h[a].at \in Addresses \cup {Nil} /\ h[a].items \in Seq(Addresses)
         /\ Len(h[a].text) \in Nat /\ Len(h[a].items) \in Nat
         /\ DOMAIN h[a].items = 1..Len(h[a].items)
<1>1. h[a] \in Block
  OBVIOUS
<1>2. h[a].text \in Seq(Characters) /\ h[a].items \in Seq(Addresses)
  BY <1>1 DEF Block, Text
<1>3. Len(h[a].text) \in Nat
  BY <1>2, LenProperties
<1>4. Len(h[a].items) \in Nat /\ DOMAIN h[a].items = 1..Len(h[a].items)
  BY <1>2, LenProperties
<1> QED BY <1>1, <1>3, <1>4 DEF Block

-----------------------------------------------------------------------------
(* What the collector does not give                                        *)
LEMMA FollowSteps ==
  ASSUME NEW S, NEW b \in S
  PROVE  /\ b \in Follow(S)
         /\ b \in Addresses => heap[b].at \in Follow(S)
         /\ b \in Addresses => \A i \in DOMAIN heap[b].items : heap[b].items[i] \in Follow(S)
BY DEF Follow

LEMMA NotReached ==
  ASSUME NEW S, NEW b \in S, NEW a \in Addresses, a \notin Reached(S)
  PROVE  /\ a # b
         /\ b \in Addresses =>
              /\ a # heap[b].at
              /\ \A i \in DOMAIN heap[b].items :
                   /\ a # heap[b].items[i]
                   /\ heap[b].items[i] \in Addresses => a # heap[heap[b].items[i]].at
              /\ heap[b].at \in Addresses =>
                   \A i \in DOMAIN heap[heap[b].at].items :
                     LET s == heap[heap[b].at].items[i] IN a # s /\ (s \in Addresses => a # heap[s].at)
<1> DEFINE F1 == Follow(S)
           F2 == Follow(F1)
           F3 == Follow(F2)
<1>1. a \notin F3
  BY DEF Reached
<1>2. \A c \in S : c \in F1 /\ (c \in Addresses => heap[c].at \in F1 /\ \A i \in DOMAIN heap[c].items : heap[c].items[i] \in F1)
  BY FollowSteps
<1>3. \A c \in F1 : c \in F2 /\ (c \in Addresses => heap[c].at \in F2 /\ \A i \in DOMAIN heap[c].items : heap[c].items[i] \in F2)
  BY FollowSteps
<1>4. \A c \in F2 : c \in F3 /\ (c \in Addresses => heap[c].at \in F3 /\ \A i \in DOMAIN heap[c].items : heap[c].items[i] \in F3)
  BY FollowSteps
<1> HIDE DEF F1, F2, F3
<1>5. a # b
  BY <1>1, <1>2, <1>3, <1>4
<1>6. ASSUME b \in Addresses PROVE a # heap[b].at
  BY <1>1, <1>2, <1>3, <1>4, <1>6
<1>7. ASSUME b \in Addresses, NEW i \in DOMAIN heap[b].items
      PROVE  a # heap[b].items[i] /\ (heap[b].items[i] \in Addresses => a # heap[heap[b].items[i]].at)
  <2>1. heap[b].items[i] \in F1
    BY <1>2, <1>7
  <2> QED BY <2>1, <1>1, <1>3, <1>4
<1>8. ASSUME b \in Addresses, heap[b].at \in Addresses, NEW i \in DOMAIN heap[heap[b].at].items
      PROVE  LET s == heap[heap[b].at].items[i] IN a # s /\ (s \in Addresses => a # heap[s].at)
  <2>1. heap[b].at \in F1
    BY <1>2, <1>8
  <2>2. heap[heap[b].at].items[i] \in F2
    BY <2>1, <1>3, <1>8
  <2> QED BY <2>2, <1>1, <1>4
<1> QED BY <1>5, <1>6, <1>7, <1>8

(* A block the collector gives *)
LEMMA Fresh ==
  ASSUME RuntimeInv, NEW a \in Unused
  PROVE  /\ a \in Addresses /\ Apart(heap, a)
         /\ a # call.object /\ a # call.data /\ a # call.array /\ a # call.elements
         /\ \A i \in DOMAIN call.from : a # call.from[i] /\ (call.from[i] \in Addresses => a # heap[call.from[i]].at)
         /\ call.elements \in Addresses =>
              \A i \in DOMAIN heap[call.elements].items : ApartFromString(heap, heap[call.elements].items[i], a)
<1> DEFINE S == Roots \cup Registers
<1>1. a \in Addresses /\ a \notin Reached(S)
  BY DEF Unused
<1>2. /\ args \in S /\ cstring \in S /\ \A v \in Variables : vars[v] \in S
      /\ call.object \in S /\ call.data \in S /\ call.array \in S /\ call.elements \in S
      /\ \A i \in DOMAIN call.from : call.from[i] \in S
  BY DEF Roots, Registers
<1> HIDE DEF S
<1>3. \A b \in S : a # b /\ (b \in Addresses => a # heap[b].at)
  BY <1>1, NotReached
<1>4. heap \in [Addresses -> Block]
  BY DEF RuntimeInv, RuntimeTypeOK
<1>5. \A v \in Variables : vars[v] # Nil => ApartFromString(heap, vars[v], a)
  BY <1>2, <1>3 DEF RuntimeInv, VarsInv, StringIn, ApartFromString
<1>6. cstring # Nil => a # cstring
  BY <1>2, <1>3
<1>7. ASSUME args # Nil PROVE ApartFromArguments(heap, args, a)
  <2>1. args \in Addresses /\ heap[args].at \in Addresses
    BY <1>7 DEF RuntimeInv, ArgsInv, ArgumentsIn
  <2>2. ApartFromString(heap, args, a)
    BY <2>1, <1>2, <1>3 DEF ApartFromString
  <2>3. /\ heap[heap[args].at].items \in Seq(Addresses)
        /\ DOMAIN heap[heap[args].at].items = 1..Len(heap[heap[args].at].items)
    BY <2>1, <1>4, BlockFields
  <2>4. \A i \in DOMAIN heap[heap[args].at].items :
          LET s == heap[heap[args].at].items[i] IN a # s /\ (s \in Addresses => a # heap[s].at)
    BY <2>1, <1>1, <1>2, NotReached
  <2>5. \A i \in DOMAIN heap[heap[args].at].items : heap[heap[args].at].items[i] \in Addresses
    BY <2>3, ElementOfSeq
  <2> QED BY <2>2, <2>3, <2>4, <2>5 DEF ApartFromArguments, ApartFromString
<1>8. ASSUME call.elements \in Addresses, NEW i \in DOMAIN heap[call.elements].items
      PROVE  ApartFromString(heap, heap[call.elements].items[i], a)
  <2>1. /\ heap[call.elements].items \in Seq(Addresses)
        /\ DOMAIN heap[call.elements].items = 1..Len(heap[call.elements].items)
    BY <1>8, <1>4, BlockFields
  <2>2. heap[call.elements].items[i] \in Addresses
    BY <2>1, ElementOfSeq
  <2>3. /\ a # heap[call.elements].items[i]
        /\ heap[call.elements].items[i] \in Addresses => a # heap[heap[call.elements].items[i]].at
    BY <1>8, <1>1, <1>2, NotReached
  <2> QED BY <2>2, <2>3 DEF ApartFromString
<1> QED BY <1>1, <1>2, <1>3, <1>5, <1>6, <1>7, <1>8 DEF Apart

-----------------------------------------------------------------------------
(* What the runtime writes fits                                            *)
Fits(b) == Extent(b) <= Capacity[b.size]

LEMMA Extents ==
  ASSUME NEW b \in Block
  PROVE  /\ b.text = <<>> /\ b.items = <<>> /\ b.size \in {Pointer, StringSize, ArraySize} => Fits(b)
         /\ b.items = <<>> /\ b.len = 0 /\ b.at = Nil /\ Len(b.text) <= b.size => Fits(b)
         /\ (b.text = <<>> /\ b.len = 0 /\ b.at = Nil
             /\ Len(b.items) <= Len(CommandLine) /\ b.size = Pointer * Len(CommandLine)) => Fits(b)
<1> DEFINE n == b.size
<1>1. n \in DOMAIN Capacity /\ Len(b.text) \in Nat /\ Len(b.items) \in Nat
  <2>1. b.text \in Seq(Characters) /\ b.items \in Seq(Addresses) /\ b.size \in DOMAIN Capacity
    BY DEF Block, Text
  <2>2. Len(b.text) \in Nat
    BY <2>1, LenProperties
  <2>3. Len(b.items) \in Nat
    BY <2>1, LenProperties
  <2> QED BY <2>1, <2>2, <2>3
<1>2. n \in Nat /\ Capacity[n] \in Nat /\ n < Capacity[n]
  BY <1>1, Sizes
<1>3. ASSUME b.text = <<>>, b.items = <<>>, b.size \in {Pointer, StringSize, ArraySize} PROVE Fits(b)
  <2>1. 2 * Pointer <= Capacity[n] /\ 0 <= Capacity[n]
    BY <1>2, <1>3, Sizes
  <2> QED BY <2>1, <1>3 DEF Fits, Extent
<1>4. ASSUME b.items = <<>>, b.len = 0, b.at = Nil, Len(b.text) <= b.size PROVE Fits(b)
  <2>1. Len(b.text) + 1 <= Capacity[n] /\ 0 <= Capacity[n]
    BY <1>1, <1>2, <1>4
  <2> QED BY <2>1, <1>4 DEF Fits, Extent
<1>5. ASSUME b.text = <<>>, b.len = 0, b.at = Nil,
             Len(b.items) <= Len(CommandLine), b.size = Pointer * Len(CommandLine)
      PROVE  Fits(b)
  <2> DEFINE k == Len(b.items)
             m == Len(CommandLine)
  <2>1. k \in Nat /\ m \in Nat /\ Pointer \in Nat /\ k <= m
    BY <1>1, <1>5, Sizes
  <2> HIDE DEF k, m
  <2>2. Pointer * k <= Pointer * m
    BY <2>1, Z3
  <2>3. Pointer * k \in Nat /\ Pointer * m \in Nat /\ Pointer * m < Capacity[n]
    BY <2>1, <1>2, <1>5 DEF m
  <2>4. Pointer * k <= Capacity[n] /\ 0 <= Capacity[n]
    BY <2>2, <2>3, <1>2
  <2> QED BY <2>4, <1>5 DEF Fits, Extent, k
<1> QED BY <1>3, <1>4, <1>5

-----------------------------------------------------------------------------
(* What the program holds is the same in a heap that differs where nothing *)
(* it holds leads.                                                         *)
Unheld(g) == \A b \in Addresses : ~Apart(heap, b) => g[b] = heap[b]

(* What the program sees of its variables, and of its C string             *)
Contents(h, s) == IF s = Nil THEN {} ELSE {TextIn(h, s)}
Seen == [v \in Variables |-> Contents(heap, vars[v])]
SeenC == IF cstring = Nil THEN {} ELSE {heap[cstring].text}

LEMMA ValuesKept ==
  ASSUME RuntimeInv, NEW g, Unheld(g)
  PROVE  /\ \A v \in Variables : vars[v] # Nil =>
              StringIn(g, vars[v]) /\ TextIn(g, vars[v]) = TextIn(heap, vars[v])
         /\ cstring # Nil => cstring \in Addresses /\ g[cstring] = heap[cstring]
         /\ args # Nil => ArgumentsIn(g, args)
         /\ \A b : Apart(heap, b) => Apart(g, b)
<1>1. ASSUME NEW v \in Variables, vars[v] # Nil
      PROVE  /\ StringIn(heap, vars[v])
             /\ g[vars[v]] = heap[vars[v]] /\ g[heap[vars[v]].at] = heap[heap[vars[v]].at]
  <2>1. StringIn(heap, vars[v])
    BY <1>1 DEF RuntimeInv, VarsInv
  <2>2. ~Apart(heap, vars[v]) /\ ~Apart(heap, heap[vars[v]].at)
    BY <1>1 DEF Apart, ApartFromString
  <2> QED BY <2>1, <2>2 DEF StringIn, Unheld
<1>2. ASSUME cstring # Nil PROVE cstring \in Addresses /\ g[cstring] = heap[cstring]
  <2>1. cstring \in Addresses
    BY <1>2 DEF RuntimeInv, RuntimeTypeOK
  <2>2. ~Apart(heap, cstring)
    BY <1>2 DEF Apart
  <2> QED BY <2>1, <2>2 DEF Unheld
<1> DEFINE e == heap[args].at
           items == heap[e].items
<1>3. ASSUME args # Nil
      PROVE  /\ args \in Addresses /\ e \in Addresses
             /\ g[args] = heap[args] /\ g[e] = heap[e]
  <2>1. args \in Addresses /\ e \in Addresses
    BY <1>3 DEF RuntimeInv, ArgsInv, ArgumentsIn
  <2>2. ~Apart(heap, args) /\ ~Apart(heap, e)
    BY <1>3 DEF Apart, ApartFromArguments, ApartFromString
  <2> QED BY <2>1, <2>2 DEF Unheld
<1>4. ASSUME args # Nil, NEW i \in 1..Len(items)
      PROVE  /\ StringIn(heap, items[i]) /\ TextIn(heap, items[i]) = CommandLine[i]
             /\ g[items[i]] = heap[items[i]] /\ g[heap[items[i]].at] = heap[heap[items[i]].at]
  <2>1. StringIn(heap, items[i]) /\ TextIn(heap, items[i]) = CommandLine[i]
    BY <1>4 DEF RuntimeInv, ArgsInv, ArgumentsIn, ItemsIn
  <2>2. ~Apart(heap, items[i]) /\ ~Apart(heap, heap[items[i]].at)
    BY <1>4 DEF Apart, ApartFromArguments, ApartFromString
  <2> QED BY <2>1, <2>2 DEF StringIn, Unheld
<1>5. \A v \in Variables : vars[v] # Nil =>
        StringIn(g, vars[v]) /\ TextIn(g, vars[v]) = TextIn(heap, vars[v])
  BY <1>1 DEF StringIn, TextIn
<1>6. ASSUME args # Nil PROVE ArgumentsIn(g, args)
  <2>1. ArgumentsIn(heap, args)
    BY <1>6 DEF RuntimeInv, ArgsInv
  <2>2. \A i \in 1..Len(items) : StringIn(g, items[i]) /\ TextIn(g, items[i]) = CommandLine[i]
    <3> SUFFICES ASSUME NEW i \in 1..Len(items)
                 PROVE  StringIn(g, items[i]) /\ TextIn(g, items[i]) = CommandLine[i]
      OBVIOUS
    <3>1. /\ StringIn(heap, items[i]) /\ TextIn(heap, items[i]) = CommandLine[i]
          /\ g[items[i]] = heap[items[i]] /\ g[heap[items[i]].at] = heap[heap[items[i]].at]
      BY <1>4, <1>6
    <3> QED BY <3>1 DEF StringIn, TextIn
  <2> QED BY <2>1, <2>2, <1>3, <1>6 DEF ArgumentsIn, ItemsIn
<1>7. ASSUME NEW b, Apart(heap, b) PROVE Apart(g, b)
  <2>1. \A v \in Variables : vars[v] # Nil => ApartFromString(g, vars[v], b)
    BY <1>1, <1>7 DEF Apart, ApartFromString
  <2>2. ASSUME args # Nil PROVE ApartFromArguments(g, args, b)
    <3>1. ApartFromArguments(heap, args, b)
      BY <2>2, <1>7 DEF Apart
    <3>2. ApartFromString(g, args, b)
      BY <3>1, <2>2, <1>3 DEF ApartFromArguments, ApartFromString
    <3>3. g[g[args].at].items = items
      BY <2>2, <1>3
    <3>4. \A i \in 1..Len(items) : ApartFromString(g, items[i], b)
      BY <3>1, <2>2, <1>4 DEF ApartFromArguments, ApartFromString
    <3> QED BY <3>2, <3>3, <3>4 DEF ApartFromArguments
  <2> QED BY <2>1, <2>2, <1>7 DEF Apart
<1> QED BY <1>2, <1>5, <1>6, <1>7

(* A step that writes where nothing leads, to a block it was given and     *)
(* perhaps to another                                                      *)
LEMMA OneBlock ==
  ASSUME RuntimeInv, NEW a \in Unused, NEW b \in Block, Fits(b), heap' = [heap EXCEPT ![a] = b]
  PROVE  /\ heap' \in [Addresses -> Block] /\ SizesInv' /\ Unheld(heap')
         /\ a \in Addresses /\ heap'[a] = b
         /\ \A c \in Addresses : c # a => heap'[c] = heap[c]
<1>1. heap \in [Addresses -> Block] /\ a \in Addresses /\ Apart(heap, a)
  BY Fresh DEF RuntimeInv, RuntimeTypeOK
<1>2. /\ heap' \in [Addresses -> Block] /\ heap'[a] = b
      /\ \A c \in Addresses : c # a => heap'[c] = heap[c]
  BY <1>1
<1>3. ASSUME NEW c \in Addresses PROVE Fits(heap'[c])
  <2>1. Fits(heap[c])
    BY DEF RuntimeInv, SizesInv, Fits
  <2> QED BY <2>1, <1>2
<1>4. SizesInv'
  BY <1>3 DEF SizesInv, Fits, Extent
<1>5. Unheld(heap')
  BY <1>1, <1>2 DEF Unheld
<1> QED BY <1>1, <1>2, <1>4, <1>5

LEMMA TwoBlocks ==
  ASSUME RuntimeInv, NEW a \in Unused, NEW b \in Block, Fits(b),
         NEW o \in Addresses, o # a, Apart(heap, o), Fits([heap[o] EXCEPT !.at = a]),
         heap' = [heap EXCEPT ![a] = b, ![o].at = a]
  PROVE  /\ heap' \in [Addresses -> Block] /\ SizesInv' /\ Unheld(heap')
         /\ a \in Addresses /\ heap'[a] = b /\ heap'[o] = [heap[o] EXCEPT !.at = a]
         /\ \A c \in Addresses : c # a /\ c # o => heap'[c] = heap[c]
<1> DEFINE d == [heap[o] EXCEPT !.at = a]
<1>1. heap \in [Addresses -> Block] /\ a \in Addresses /\ Apart(heap, a)
  BY Fresh DEF RuntimeInv, RuntimeTypeOK
<1>2. heap' = [[heap EXCEPT ![a] = b] EXCEPT ![o] = d]
  BY <1>1
<1>3. d \in Block
  BY <1>1, PointedBlocks
<1> HIDE DEF d
<1>4. /\ heap' \in [Addresses -> Block] /\ heap'[a] = b /\ heap'[o] = d
      /\ \A c \in Addresses : c # a /\ c # o => heap'[c] = heap[c]
  BY <1>1, <1>2, <1>3
<1>5. ASSUME NEW c \in Addresses PROVE Fits(heap'[c])
  <2>1. Fits(heap[c])
    BY DEF RuntimeInv, SizesInv, Fits
  <2> QED BY <2>1, <1>4 DEF d
<1>6. SizesInv'
  BY <1>5 DEF SizesInv, Fits, Extent
<1>7. Unheld(heap')
  BY <1>1, <1>4 DEF Unheld
<1> QED BY <1>1, <1>4, <1>6, <1>7 DEF d

(* A step that keeps what the program holds keeps what is said of it.      *)
LEMMA HeldKept ==
  ASSUME RuntimeInv, Unheld(heap'), UNCHANGED <<vars, args, cstring>>
  PROVE  /\ VarsInv' /\ CStringInv' /\ ArgsInv'
         /\ Seen' = Seen /\ SeenC' = SeenC
         /\ \A v \in Variables : vars'[v] # Nil => TextIn(heap', vars'[v]) = TextIn(heap, vars[v])
         /\ cstring' # Nil => heap'[cstring'] = heap[cstring]
         /\ \A b : Apart(heap, b) => Apart(heap, b)'
<1> DEFINE g == heap'
<1>1. /\ \A v \in Variables : vars[v] # Nil =>
           StringIn(g, vars[v]) /\ TextIn(g, vars[v]) = TextIn(heap, vars[v])
      /\ cstring # Nil => cstring \in Addresses /\ g[cstring] = heap[cstring]
      /\ args # Nil => ArgumentsIn(g, args)
      /\ \A b : Apart(heap, b) => Apart(g, b)
  <2> HIDE DEF g
  <2>1. Unheld(g)
    BY DEF g
  <2> QED BY <2>1, ValuesKept
<1>2. VarsInv'
  BY <1>1 DEF VarsInv, StringIn
<1>3. CStringInv'
  BY <1>1 DEF CStringInv, RuntimeInv
<1>4. ArgsInv'
  BY <1>1 DEF ArgsInv, ArgumentsIn, ItemsIn, StringIn, TextIn
<1>5. \A b : Apart(heap, b) => Apart(heap, b)'
  <2> SUFFICES ASSUME NEW b, Apart(heap, b) PROVE Apart(heap, b)'
    OBVIOUS
  <2>1. Apart(g, b)
    BY <1>1
  <2> QED BY <2>1 DEF Apart, ApartFromArguments, ApartFromString
<1>6. Seen' = Seen
  BY <1>1 DEF Seen, Contents, TextIn
<1>7. SeenC' = SeenC
  BY <1>1 DEF SeenC
<1> QED BY <1>1, <1>2, <1>3, <1>4, <1>5, <1>6, <1>7

-----------------------------------------------------------------------------
(* A call, and what a step changes of it                                   *)
LEMMA NoCallType ==
  /\ NoCall \in Call
  /\ NoCall.op = "none" /\ NoCall.from = <<>> /\ NoCall.object = Nil /\ NoCall.data = Nil
  /\ NoCall.array = Nil /\ NoCall.elements = Nil
  /\ [NoCall EXCEPT !.op = "array"] \in Call
  /\ [NoCall EXCEPT !.op = "array"].op = "array" /\ [NoCall EXCEPT !.op = "array"].from = <<>>
  /\ [NoCall EXCEPT !.op = "array"].object = Nil /\ [NoCall EXCEPT !.op = "array"].data = Nil
  /\ [NoCall EXCEPT !.op = "array"].array = Nil /\ [NoCall EXCEPT !.op = "array"].elements = Nil
<1>1. <<>> \in Text /\ <<>> \in Seq(Addresses) /\ 0 \in 0..MaxLength
  BY SomeText, EmptySeq, Sizes
<1>2. "none" \in Operations \cup {"none"} /\ "array" \in Operations \cup {"none"}
  BY DEF Operations
<1> HIDE DEF Operations
<1> QED BY <1>1, <1>2 DEF NoCall, Call

SameOperands(c) == c.op = call.op /\ c.to = call.to /\ c.from = call.from
                   /\ c.text = call.text /\ c.start = call.start /\ c.len = call.len

LEMMA CallChanges ==
  ASSUME RuntimeTypeOK, NEW a \in Addresses \cup {Nil}
  PROVE  /\ LET c == [call EXCEPT !.array = a] IN
              /\ c \in Call /\ SameOperands(c) /\ c.array = a
              /\ c.elements = call.elements /\ c.object = call.object /\ c.data = call.data
         /\ LET c == [call EXCEPT !.elements = a] IN
              /\ c \in Call /\ SameOperands(c) /\ c.elements = a
              /\ c.array = call.array /\ c.object = call.object /\ c.data = call.data
         /\ LET c == [call EXCEPT !.object = a] IN
              /\ c \in Call /\ SameOperands(c) /\ c.object = a
              /\ c.array = call.array /\ c.elements = call.elements /\ c.data = call.data
         /\ LET c == [call EXCEPT !.data = a] IN
              /\ c \in Call /\ SameOperands(c) /\ c.data = a
              /\ c.array = call.array /\ c.elements = call.elements /\ c.object = call.object
<1> DEFINE ops == Operations \cup {"none"}
<1>1. call \in [op : ops, to : Variables \cup {Nil}, from : Seq(Addresses), text : Text,
                start : 0..MaxLength, len : 0..MaxLength,
                object : Addresses \cup {Nil}, data : Addresses \cup {Nil},
                array : Addresses \cup {Nil}, elements : Addresses \cup {Nil}]
  BY DEF RuntimeTypeOK, Call
<1> HIDE DEF ops
<1> QED BY <1>1 DEF Call, SameOperands, ops

LEMMA CallTypes ==
  ASSUME RuntimeTypeOK
  PROVE  /\ call.object \in Addresses \cup {Nil} /\ call.data \in Addresses \cup {Nil}
         /\ call.array \in Addresses \cup {Nil} /\ call.elements \in Addresses \cup {Nil}
         /\ call.to \in Variables \cup {Nil} /\ call.from \in Seq(Addresses)
         /\ call.start \in 0..MaxLength /\ call.len \in 0..MaxLength /\ call.text \in Text
BY DEF RuntimeTypeOK, Call

-----------------------------------------------------------------------------
(* The arguments                                                           *)

(* Strings that no changed address leads to are kept. *)
LEMMA ItemsKept ==
  ASSUME NEW h, NEW g, NEW items, ItemsIn(h, items),
         \A i \in 1..Len(items) : \A c \in Addresses : g[c] # h[c] => ApartFromString(h, items[i], c)
  PROVE  /\ ItemsIn(g, items)
         /\ \A i \in 1..Len(items) : \A b : ApartFromString(h, items[i], b) => ApartFromString(g, items[i], b)
<1>1. ASSUME NEW i \in 1..Len(items)
      PROVE  /\ StringIn(h, items[i]) /\ TextIn(h, items[i]) = CommandLine[i]
             /\ g[items[i]] = h[items[i]] /\ g[h[items[i]].at] = h[h[items[i]].at]
  <2>1. StringIn(h, items[i]) /\ TextIn(h, items[i]) = CommandLine[i]
    BY DEF ItemsIn
  <2>2. items[i] \in Addresses /\ h[items[i]].at \in Addresses
    BY <2>1 DEF StringIn
  <2>3. ~ApartFromString(h, items[i], items[i]) /\ ~ApartFromString(h, items[i], h[items[i]].at)
    BY DEF ApartFromString
  <2> QED BY <2>1, <2>2, <2>3
<1>2. ASSUME NEW i \in 1..Len(items) PROVE StringIn(g, items[i]) /\ TextIn(g, items[i]) = CommandLine[i]
  BY <1>1 DEF StringIn, TextIn
<1>3. ASSUME NEW i \in 1..Len(items), NEW b, ApartFromString(h, items[i], b)
      PROVE  ApartFromString(g, items[i], b)
  BY <1>1, <1>3 DEF ApartFromString
<1> QED BY <1>2, <1>3 DEF ItemsIn

(* While the arguments are extracted, nothing is held. *)
LEMMA Extracting ==
  ASSUME RuntimeInv, pc = "arguments"
  PROVE  /\ NothingHeld /\ args = Nil /\ heap \in [Addresses -> Block] /\ call \in Call
         /\ call.op = "array" /\ call.from = <<>> /\ call.data = Nil /\ ArrayInv /\ ElementsInv /\ ArgumentInv
         /\ \A b : Apart(heap, b)
<1>1. /\ NothingHeld /\ args = Nil /\ heap \in [Addresses -> Block] /\ call \in Call
      /\ call.op = "array" /\ call.from = <<>> /\ call.data = Nil /\ ArrayInv /\ ElementsInv /\ ArgumentInv
  BY DEF RuntimeInv, RuntimeTypeOK, PhaseInv, ExtractInv
<1> QED BY <1>1 DEF Apart, NothingHeld

LEMMA ExtractingKept ==
  ASSUME RuntimeInv, pc = "arguments", UNCHANGED <<pc, vars, args, cstring, answer>>,
         heap' \in [Addresses -> Block], SizesInv', call' \in Call, SameOperands(call'), call'.data = call.data,
         ArrayInv', ElementsInv', ArgumentInv'
  PROVE  RuntimeInv'
<1>1. NothingHeld /\ args = Nil /\ call.op = "array" /\ call.from = <<>> /\ call.data = Nil
  BY Extracting
<1>2. RuntimeTypeOK'
  BY DEF RuntimeInv, RuntimeTypeOK
<1>3. VarsInv' /\ CStringInv' /\ ArgsInv'
  BY <1>1 DEF NothingHeld, VarsInv, CStringInv, ArgsInv
<1>4. PhaseInv'
  BY <1>1 DEF PhaseInv, NothingHeld
<1>5. ExtractInv'
  BY <1>1 DEF ExtractInv, SameOperands
<1>6. CallInv'
  BY DEF CallInv
<1> QED BY <1>2, <1>3, <1>4, <1>5, <1>6 DEF RuntimeInv

LEMMA MakeArrayStep ==
  ASSUME RuntimeInv, NEW a \in Unused, MakeArray(a) PROVE RuntimeInv'
<1> DEFINE n == Len(CommandLine)
           b == [Zeroed(ArraySize) EXCEPT !.len = n]
           c == [call EXCEPT !.array = a]
<1>1. pc = "arguments" /\ call.array = Nil
  BY DEF MakeArray
<1>2. call.elements = Nil /\ call.object = Nil
  BY <1>1, Extracting DEF ArrayInv, ArgumentInv
<1>3. b \in Block /\ BlankOf(b, ArraySize, n)
  <2>1. ArraySize \in DOMAIN Capacity /\ n \in Nat
    BY Sizes
  <2> HIDE DEF n
  <2> QED BY <2>1, NewBlocks, SomeText
<1>4. Fits(b)
  BY <1>3, Extents DEF BlankOf
<1>5. heap' = [heap EXCEPT ![a] = b] /\ call' = c /\ UNCHANGED <<pc, vars, args, cstring, answer>>
  BY DEF MakeArray
<1>6. a \in Addresses
  BY DEF Unused
<1>7. /\ c \in Call /\ SameOperands(c) /\ c.array = a
      /\ c.elements = call.elements /\ c.object = call.object /\ c.data = call.data
  BY <1>6, CallChanges DEF RuntimeInv
<1> HIDE DEF b, c
<1>8. heap' \in [Addresses -> Block] /\ SizesInv' /\ heap'[a] = b
  BY <1>3, <1>4, <1>5, OneBlock
<1>9. ArrayInv' /\ ElementsInv' /\ ArgumentInv'
  BY <1>2, <1>3, <1>5, <1>6, <1>7, <1>8, Sizes DEF ArrayInv, ElementsInv, ArgumentInv, BlankOf
<1> QED BY <1>1, <1>5, <1>7, <1>8, <1>9, ExtractingKept

LEMMA MakeElementsStep ==
  ASSUME RuntimeInv, NEW a \in Unused, MakeElements(a) PROVE RuntimeInv'
<1> DEFINE n == Pointer * Len(CommandLine)
           b == Zeroed(n)
           c == [call EXCEPT !.elements = a]
<1>1. pc = "arguments" /\ call.array # Nil /\ call.elements = Nil
  BY DEF MakeElements
<1>2. call.object = Nil /\ call.array \in Addresses /\ BlankOf(heap[call.array], ArraySize, Len(CommandLine))
  BY <1>1, Extracting, CallTypes DEF ArrayInv, ArgumentInv, RuntimeInv
<1>3. b \in Block /\ BlankOf(b, n, 0)
  <2>1. n \in DOMAIN Capacity /\ 0 \in Nat /\ Nil \in Addresses \cup {Nil}
    BY Sizes
  <2> HIDE DEF n
  <2> QED BY <2>1, NewBlocks, SomeText
<1>4. Fits(b)
  <2>1. Len(b.items) <= Len(CommandLine)
    BY <1>3, SomeText, Sizes DEF BlankOf
  <2> HIDE DEF b
  <2> QED BY <1>3, <2>1, Extents DEF BlankOf
<1>5. heap' = [heap EXCEPT ![a] = b] /\ call' = c /\ UNCHANGED <<pc, vars, args, cstring, answer>>
  BY DEF MakeElements
<1>6. a \in Addresses /\ a # call.array
  BY Fresh
<1>7. /\ c \in Call /\ SameOperands(c) /\ c.elements = a
      /\ c.array = call.array /\ c.object = call.object /\ c.data = call.data
  BY <1>6, CallChanges DEF RuntimeInv
<1> HIDE DEF b, c
<1>8. /\ heap' \in [Addresses -> Block] /\ SizesInv' /\ heap'[a] = b
      /\ heap'[call.array] = heap[call.array]
  BY <1>2, <1>3, <1>4, <1>5, <1>6, OneBlock
<1>9. ArrayInv'
  BY <1>1, <1>2, <1>5, <1>7, <1>8 DEF ArrayInv, BlankOf
<1>10. ElementsInv'
  <2>1. b.size = n /\ b.text = <<>> /\ b.items = <<>> /\ b.len = 0 /\ b.at = Nil
    BY <1>3 DEF BlankOf
  <2>2. <<>> \in Seq(Addresses) /\ Len(<<>>) = 0
    BY EmptySeq
  <2>3. ItemsIn(heap', <<>>)
    BY <2>2, Sizes DEF ItemsIn
  <2>4. heap'[call'.elements] = b /\ call'.elements # call'.array
    BY <1>5, <1>6, <1>7, <1>8
  <2> HIDE DEF n
  <2>5. ItemsIn(heap', b.items) /\ \A i \in 1..Len(b.items) : FALSE
    BY <2>1, <2>2, <2>3
  <2> QED BY <2>1, <2>4, <2>5 DEF ElementsInv, ItemsIn, StringIn, TextIn, n
<1>11. ArgumentInv'
  BY <1>2, <1>5, <1>7 DEF ArgumentInv
<1> QED BY <1>1, <1>5, <1>7, <1>8, <1>9, <1>10, <1>11, ExtractingKept

LEMMA MakeArgumentStep ==
  ASSUME RuntimeInv, NEW a \in Unused, MakeArgument(a) PROVE RuntimeInv'
<1> DEFINE n == Len(Argument)
           b == [Zeroed(Pointer) EXCEPT !.len = n]
           c == [call EXCEPT !.object = a]
           e == heap[call.elements]
           items == e.items
<1>1. pc = "arguments" /\ call.elements # Nil /\ call.object = Nil /\ Len(items) < Len(CommandLine)
  BY DEF MakeArgument, Extracted
<1>2. /\ call.array \in Addresses /\ call.elements \in Addresses /\ call.elements # call.array
      /\ BlankOf(heap[call.array], ArraySize, Len(CommandLine))
  BY <1>1, Extracting, CallTypes DEF ArrayInv, ElementsInv, RuntimeInv
<1>3. /\ e.size = Pointer * Len(CommandLine) /\ e.text = <<>> /\ e.len = 0 /\ e.at = Nil
      /\ ItemsIn(heap, items)
      /\ \A i \in 1..Len(items) :
           ApartFromString(heap, items[i], call.array) /\ ApartFromString(heap, items[i], call.elements)
  BY <1>1, Extracting DEF ElementsInv
<1>4. Len(items) \in Nat /\ DOMAIN items = 1..Len(items) /\ n \in Nat
  <2>1. Len(items) \in Nat /\ DOMAIN items = 1..Len(items)
    BY <1>2, BlockFields, Extracting, <1>1
  <2>2. Len(items) + 1 \in 1..Len(CommandLine)
    <3> HIDE DEF items
    <3> QED BY <2>1, <1>1, Sizes
  <2> QED BY <2>1, <2>2, SomeText DEF Argument, Extracted
<1>5. b \in Block /\ BlankOf(b, Pointer, n)
  <2>1. Pointer \in DOMAIN Capacity /\ n \in Nat
    BY <1>4, Sizes
  <2> HIDE DEF n
  <2> QED BY <2>1, NewBlocks, SomeText
<1>6. Fits(b)
  <2> HIDE DEF b
  <2> QED BY <1>5, Extents DEF BlankOf
<1>7. heap' = [heap EXCEPT ![a] = b] /\ call' = c /\ UNCHANGED <<pc, vars, args, cstring, answer>>
  BY DEF MakeArgument
<1>8. /\ a \in Addresses /\ a # call.array /\ a # call.elements
      /\ \A i \in 1..Len(items) : ApartFromString(heap, items[i], a)
  BY <1>2, <1>4, Fresh
<1>9. /\ c \in Call /\ SameOperands(c) /\ c.object = a
      /\ c.array = call.array /\ c.elements = call.elements /\ c.data = call.data
  BY <1>8, CallChanges DEF RuntimeInv
<1> HIDE DEF b, c
<1>10. /\ heap' \in [Addresses -> Block] /\ SizesInv' /\ heap'[a] = b
       /\ \A d \in Addresses : d # a => heap'[d] = heap[d]
  BY <1>5, <1>6, <1>7, OneBlock
<1>11. heap'[call'.array] = heap[call.array] /\ heap'[call'.elements] = e
  BY <1>2, <1>7, <1>8, <1>9, <1>10
<1> HIDE DEF e
<1>12. /\ ItemsIn(heap', items)
       /\ \A i \in 1..Len(items) : \A d : ApartFromString(heap, items[i], d) => ApartFromString(heap', items[i], d)
  <2> DEFINE g == heap'
  <2>1. \A i \in 1..Len(items) : \A d \in Addresses : g[d] # heap[d] => ApartFromString(heap, items[i], d)
    BY <1>8, <1>10
  <2> HIDE DEF g
  <2>2. /\ ItemsIn(g, items)
        /\ \A i \in 1..Len(items) : \A d : ApartFromString(heap, items[i], d) => ApartFromString(g, items[i], d)
    BY <1>3, <2>1, ItemsKept
  <2> QED BY <2>2 DEF g
<1>13. ArrayInv'
  BY <1>2, <1>7, <1>9, <1>11, Sizes DEF ArrayInv, BlankOf
<1>14. ElementsInv'
  <2>1. /\ \A i \in 1..Len(items) : ApartFromString(heap', items[i], call'.array)
        /\ \A i \in 1..Len(items) : ApartFromString(heap', items[i], call'.elements)
    BY <1>3, <1>7, <1>9, <1>12
  <2>2. call'.elements # call'.array
    BY <1>2, <1>7, <1>9
  <2> QED BY <2>1, <2>2, <1>3, <1>11, <1>12 DEF ElementsInv, ItemsIn, StringIn, TextIn, ApartFromString
<1>15. ArgumentInv'
  <2>1. \A i \in 1..Len(items) : ApartFromString(heap', items[i], call'.object)
    BY <1>7, <1>8, <1>9, <1>12
  <2>2. BlankOf(heap'[call'.object], Pointer, Len(Argument))
    BY <1>5, <1>7, <1>9, <1>10
  <2>3. Argument' = Argument
    BY <1>11 DEF Argument, Extracted, e
  <2>4. call'.elements # Nil /\ call'.object \notin {call'.array, call'.elements} /\ Len(items) < Len(CommandLine)
    BY <1>1, <1>7, <1>8, <1>9
  <2> QED BY <2>1, <2>2, <2>3, <2>4, <1>11 DEF ArgumentInv, BlankOf, ApartFromString
<1> QED BY <1>1, <1>7, <1>9, <1>10, <1>13, <1>14, <1>15, ExtractingKept

LEMMA FillArgumentStep ==
  ASSUME RuntimeInv, NEW a \in Unused, FillArgument(a) PROVE RuntimeInv'
<1> DEFINE x == Argument
           o == call.object
           b == [Zeroed(Len(x) + 1) EXCEPT !.text = x]
           d == [heap[o] EXCEPT !.at = a]
           e == heap[call.elements]
           items == e.items
           f == [e EXCEPT !.items = Append(@, o)]
           c == [call EXCEPT !.object = Nil]
<1>1. pc = "arguments" /\ o # Nil
  BY DEF FillArgument
<1>2. /\ call.elements # Nil /\ Len(items) < Len(CommandLine)
      /\ o # call.array /\ o # call.elements
      /\ BlankOf(heap[o], Pointer, Len(x))
      /\ \A i \in 1..Len(items) : ApartFromString(heap, items[i], o)
  BY <1>1, Extracting DEF ArgumentInv
<1>3. /\ call.array \in Addresses /\ call.elements \in Addresses /\ o \in Addresses
      /\ call.elements # call.array /\ BlankOf(heap[call.array], ArraySize, Len(CommandLine))
  BY <1>1, <1>2, Extracting, CallTypes DEF ArrayInv, ElementsInv, RuntimeInv
<1>4. /\ e.size = Pointer * Len(CommandLine) /\ e.text = <<>> /\ e.len = 0 /\ e.at = Nil
      /\ ItemsIn(heap, items)
      /\ \A i \in 1..Len(items) :
           ApartFromString(heap, items[i], call.array) /\ ApartFromString(heap, items[i], call.elements)
  BY <1>1, <1>2, Extracting DEF ElementsInv
<1>5. Len(items) \in Nat /\ DOMAIN items = 1..Len(items) /\ items \in Seq(Addresses)
  BY <1>3, BlockFields, Extracting, <1>1
<1>6. x \in Text /\ Len(x) \in 0..MaxLength /\ x = CommandLine[Len(items) + 1]
  <2>1. Len(items) + 1 \in 1..Len(CommandLine)
    <3> HIDE DEF items
    <3> QED BY <1>5, <1>2, Sizes
  <2> QED BY <2>1, SomeText DEF Argument, Extracted
<1>7. b \in Block /\ b.size = Len(x) + 1 /\ b.text = x /\ b.items = <<>> /\ b.len = 0 /\ b.at = Nil
  <2> DEFINE n == Len(x) + 1
  <2>1. n \in DOMAIN Capacity /\ x \in Text
    <3> HIDE DEF x
    <3> QED BY <1>6, AskedSizes
  <2> HIDE DEF n, x
  <2>2. LET z == [Zeroed(n) EXCEPT !.text = x]
        IN  z \in Block /\ z.size = n /\ z.text = x /\ z.items = <<>> /\ z.len = 0 /\ z.at = Nil
    BY <2>1, TextBlocks
  <2> QED BY <2>2 DEF n
<1>8. Fits(b)
  <2>1. Len(b.text) <= b.size
    BY <1>6, <1>7, Sizes
  <2> HIDE DEF b
  <2> QED BY <1>7, <2>1, Extents
<1>9. /\ a \in Addresses /\ a # call.array /\ a # call.elements /\ a # o
      /\ \A i \in 1..Len(items) : ApartFromString(heap, items[i], a)
  BY <1>3, <1>5, Fresh
<1>10. /\ d \in Block /\ d.size = Pointer /\ d.text = <<>> /\ d.items = <<>> /\ d.len = Len(x) /\ d.at = a
  <2>1. heap[o] \in Block /\ a \in Addresses \cup {Nil}
    BY <1>1, <1>3, <1>9, Extracting
  <2> HIDE DEF o, x
  <2> QED BY <1>2, <2>1, PointedBlocks DEF BlankOf
<1>11. Fits(d)
  <2> HIDE DEF d
  <2> QED BY <1>10, Extents
<1>12. /\ f \in Block /\ f.size = e.size /\ f.text = e.text /\ f.len = e.len /\ f.at = e.at
       /\ f.items = Append(items, o)
  <2>1. e \in Block
    BY <1>1, <1>3, Extracting
  <2> HIDE DEF e, o
  <2> QED BY <2>1, <1>3, ExtendedBlocks
<1>13. /\ Append(items, o) \in Seq(Addresses) /\ Len(Append(items, o)) = Len(items) + 1
       /\ \A i \in 1..Len(items) : Append(items, o)[i] = items[i]
       /\ Append(items, o)[Len(items) + 1] = o
  <2> HIDE DEF items, o
  <2> QED BY <1>3, <1>5, AppendProperties
<1>14. Fits(f)
  <2>1. Len(f.items) <= Len(CommandLine)
    BY <1>2, <1>5, <1>12, <1>13, Sizes
  <2> HIDE DEF f
  <2> QED BY <2>1, <1>4, <1>12, Extents
<1>15. /\ heap' = [heap EXCEPT ![a] = b, ![o].at = a, ![call.elements].items = Append(@, o)]
       /\ call' = c /\ UNCHANGED <<pc, vars, args, cstring, answer>>
  <2>1. Length(o) = Len(x)
    BY <1>2 DEF Length, BlankOf
  <2> QED BY <2>1 DEF FillArgument
<1>16. /\ c \in Call /\ SameOperands(c) /\ c.object = Nil
       /\ c.array = call.array /\ c.elements = call.elements /\ c.data = call.data
  BY CallChanges DEF RuntimeInv
<1>17. /\ heap' \in [Addresses -> Block] /\ heap'[a] = b /\ heap'[o] = d /\ heap'[call.elements] = f
       /\ \A p \in Addresses : p \notin {a, o, call.elements} => heap'[p] = heap[p]
  <2>1. heap \in [Addresses -> Block]
    BY <1>1, Extracting
  <2>2. heap' = [[[heap EXCEPT ![a] = b] EXCEPT ![o] = d] EXCEPT ![call.elements] = f]
    BY <2>1, <1>2, <1>3, <1>9, <1>15
  <2> HIDE DEF b, d, f, o
  <2> QED BY <2>1, <2>2, <1>2, <1>3, <1>7, <1>9, <1>10, <1>12
<1> HIDE DEF b, c, d, f, x
<1>18. SizesInv'
  <2>1. ASSUME NEW p \in Addresses PROVE Fits(heap'[p])
    <3>1. Fits(heap[p])
      BY DEF RuntimeInv, SizesInv, Fits
    <3> QED BY <3>1, <1>8, <1>11, <1>14, <1>17
  <2> QED BY <2>1 DEF SizesInv, Fits, Extent
<1>19. heap'[call'.array] = heap[call.array] /\ heap'[call'.elements] = f /\ f.items = Append(items, o)
  BY <1>2, <1>3, <1>9, <1>12, <1>15, <1>16, <1>17
<1> DEFINE more == Append(items, o)
<1> HIDE DEF e, items, o, more
<1>20. /\ ItemsIn(heap', items)
       /\ \A i \in 1..Len(items) : \A p : ApartFromString(heap, items[i], p) => ApartFromString(heap', items[i], p)
  <2> DEFINE g == heap'
  <2>1. \A i \in 1..Len(items) : \A p \in Addresses : g[p] # heap[p] => ApartFromString(heap, items[i], p)
    <3>1. \A p \in Addresses : g[p] # heap[p] => p \in {a, o, call.elements}
      BY <1>17
    <3> QED BY <3>1, <1>2, <1>4, <1>9
  <2> HIDE DEF g
  <2>2. /\ ItemsIn(g, items)
        /\ \A i \in 1..Len(items) : \A p : ApartFromString(heap, items[i], p) => ApartFromString(g, items[i], p)
    BY <1>4, <2>1, ItemsKept
  <2> QED BY <2>2 DEF g
<1>21. StringIn(heap', o) /\ TextIn(heap', o) = CommandLine[Len(items) + 1]
  <2>1. heap'[o].at = a /\ heap'[o].len = Len(x) /\ heap'[a].text = x
    BY <1>7, <1>10, <1>17
  <2>2. Len(x) <= MaxLength
    BY <1>6
  <2> QED BY <2>1, <2>2, <1>3, <1>6, <1>9 DEF StringIn, TextIn
<1>22. /\ more \in Seq(Addresses) /\ Len(more) = Len(items) + 1
       /\ \A i \in 1..Len(more) : (i \in 1..Len(items) /\ more[i] = items[i])
                                    \/ (i = Len(items) + 1 /\ more[i] = o)
  <2>1. Len(more) = Len(items) + 1 /\ more \in Seq(Addresses)
    BY <1>13 DEF more
  <2>2. \A i \in 1..Len(more) : i \in 1..Len(items) \/ i = Len(items) + 1
    BY <2>1, <1>5
  <2> QED BY <2>1, <2>2, <1>13 DEF more
<1>23. ItemsIn(heap', more)
  <2>1. \A i \in 1..Len(more) : StringIn(heap', more[i]) /\ TextIn(heap', more[i]) = CommandLine[i]
    BY <1>20, <1>21, <1>22 DEF ItemsIn
  <2>2. Len(more) <= Len(CommandLine)
    BY <1>2, <1>5, <1>22, Sizes
  <2> QED BY <2>1, <2>2, <1>22 DEF ItemsIn
<1>24. ASSUME NEW p, p # o, p # a, \A i \in 1..Len(items) : ApartFromString(heap, items[i], p)
       PROVE  \A i \in 1..Len(more) : ApartFromString(heap', more[i], p)
  <2>1. ApartFromString(heap', o, p)
    BY <1>10, <1>17, <1>24 DEF ApartFromString
  <2>2. \A i \in 1..Len(items) : ApartFromString(heap', items[i], p)
    BY <1>20, <1>24
  <2> QED BY <2>1, <2>2, <1>22
<1>25. ArrayInv'
  BY <1>3, <1>15, <1>16, <1>19, Sizes DEF ArrayInv, BlankOf
<1>26. ElementsInv'
  <2>1. \A i \in 1..Len(more) : ApartFromString(heap', more[i], call'.array)
    BY <1>2, <1>4, <1>9, <1>15, <1>16, <1>24
  <2>2. \A i \in 1..Len(more) : ApartFromString(heap', more[i], call'.elements)
    BY <1>2, <1>4, <1>9, <1>15, <1>16, <1>24
  <2>3. call'.elements # call'.array
    BY <1>3, <1>15, <1>16
  <2>4. heap'[call'.elements].items = more
    BY <1>19 DEF more
  <2>5. /\ heap'[call'.elements].size = Pointer * Len(CommandLine) /\ heap'[call'.elements].text = <<>>
        /\ heap'[call'.elements].len = 0 /\ heap'[call'.elements].at = Nil
    BY <1>4, <1>12, <1>19
  <2> QED BY <2>1, <2>2, <2>3, <2>4, <2>5, <1>23 DEF ElementsInv, ItemsIn, StringIn, TextIn, ApartFromString
<1>27. ArgumentInv'
  BY <1>15, <1>16 DEF ArgumentInv
<1> QED BY <1>1, <1>15, <1>16, <1>17, <1>18, <1>25, <1>26, <1>27, ExtractingKept

LEMMA NoCallInv ==
  ASSUME call' = NoCall PROVE CallInv'
<1>1. OperandsInv'
  BY NoCallType DEF OperandsInv, Begun
<1> QED BY <1>1, NoCallType DEF CallInv, DataFirst

LEMMA GiveArgumentsStep ==
  ASSUME RuntimeInv, GiveArguments
  PROVE  RuntimeInv' /\ args' # Nil /\ UNCHANGED <<vars, cstring, answer>> /\ NothingHeld
<1> DEFINE e == heap[call.elements]
           items == e.items
           d == [heap[call.array] EXCEPT !.at = call.elements]
<1>1. pc = "arguments" /\ call.elements # Nil /\ call.object = Nil /\ Len(items) = Len(CommandLine)
  BY DEF GiveArguments, Extracted
<1>2. /\ call.array \in Addresses /\ call.elements \in Addresses /\ call.elements # call.array
      /\ BlankOf(heap[call.array], ArraySize, Len(CommandLine))
  BY <1>1, Extracting, CallTypes DEF ArrayInv, ElementsInv, RuntimeInv
<1>3. ItemsIn(heap, items) /\ \A i \in 1..Len(items) : ApartFromString(heap, items[i], call.array)
  BY <1>1, Extracting DEF ElementsInv
<1>4. /\ heap' = [heap EXCEPT ![call.array].at = call.elements] /\ args' = call.array
      /\ call' = NoCall /\ pc' = "initialise" /\ UNCHANGED <<vars, cstring, answer>>
  BY DEF GiveArguments
<1>5. heap \in [Addresses -> Block] /\ NothingHeld
  BY <1>1, Extracting
<1>6. /\ d \in Block /\ d.size = ArraySize /\ d.text = <<>> /\ d.items = <<>>
      /\ d.len = Len(CommandLine) /\ d.at = call.elements
  <2>1. heap[call.array] \in Block /\ call.elements \in Addresses \cup {Nil}
    BY <1>2, <1>5
  <2> QED BY <2>1, <1>2, PointedBlocks DEF BlankOf
<1>7. Fits(d)
  <2> HIDE DEF d
  <2> QED BY <1>6, Extents
<1>8. heap' = [heap EXCEPT ![call.array] = d]
  BY <1>2, <1>4, <1>5
<1> HIDE DEF d
<1>9. /\ heap' \in [Addresses -> Block] /\ heap'[call.array] = d
      /\ \A c \in Addresses : c # call.array => heap'[c] = heap[c]
  BY <1>2, <1>5, <1>6, <1>8
<1>10. SizesInv'
  <2>1. ASSUME NEW p \in Addresses PROVE Fits(heap'[p])
    <3>1. Fits(heap[p])
      BY DEF RuntimeInv, SizesInv, Fits
    <3> QED BY <3>1, <1>7, <1>9
  <2> QED BY <2>1 DEF SizesInv, Fits, Extent
<1>11. ItemsIn(heap', items)
  <2> DEFINE g == heap'
  <2>1. \A i \in 1..Len(items) : \A p \in Addresses : g[p] # heap[p] => ApartFromString(heap, items[i], p)
    BY <1>3, <1>9
  <2> HIDE DEF g, items
  <2>2. ItemsIn(g, items)
    BY <1>3, <2>1, ItemsKept
  <2> QED BY <2>2 DEF g
<1>12. ArgumentsIn(heap', call.array)
  <2>1. heap'[call.elements].items = items
    BY <1>2, <1>9
  <2> QED BY <2>1, <1>1, <1>2, <1>6, <1>9, <1>11 DEF ArgumentsIn
<1>13. ArgsInv'
  BY <1>4, <1>12 DEF ArgsInv, ArgumentsIn, ItemsIn, StringIn, TextIn
<1>14. VarsInv' /\ CStringInv' /\ PhaseInv'
  BY <1>4, <1>5 DEF NothingHeld, VarsInv, CStringInv, PhaseInv
<1>15. RuntimeTypeOK'
  BY <1>2, <1>4, <1>9, NoCallType DEF RuntimeInv, RuntimeTypeOK
<1>16. ExtractInv' /\ CallInv'
  BY <1>4 DEF ExtractInv, CallInv
<1>17. args' # Nil
  BY <1>2, <1>4, Sizes
<1> QED BY <1>4, <1>5, <1>10, <1>13, <1>14, <1>15, <1>16, <1>17 DEF RuntimeInv

-----------------------------------------------------------------------------
(* The body of main                                                        *)

LEMMA BodyKept ==
  ASSUME RuntimeInv, pc = "body", UNCHANGED <<pc, answer>>, heap' \in [Addresses -> Block], SizesInv',
         vars' \in [Variables -> Addresses \cup {Nil}], args' = args, cstring' \in Addresses \cup {Nil},
         call' \in Call, VarsInv', CStringInv', ArgsInv', CallInv'
  PROVE  RuntimeInv'
<1>1. RuntimeTypeOK'
  BY DEF RuntimeInv, RuntimeTypeOK
<1>2. PhaseInv' /\ ExtractInv'
  BY DEF PhaseInv, ExtractInv
<1> QED BY <1>1, <1>2 DEF RuntimeInv

(* A step that changes nothing but pc, to "body" or "stopped", and the     *)
(* answer                                                                  *)
LEMMA NothingKept ==
  ASSUME RuntimeInv, UNCHANGED <<heap, vars, args, cstring, call>>, call = NoCall,
         pc' \in {"body", "stopped"}, answer' \in [truth : BOOLEAN, text : Text, number : Nat]
  PROVE  RuntimeInv' /\ Seen' = Seen /\ SeenC' = SeenC
<1>1. RuntimeTypeOK'
  BY DEF RuntimeInv, RuntimeTypeOK
<1>2. VarsInv' /\ CStringInv' /\ ArgsInv' /\ SizesInv' /\ Seen' = Seen /\ SeenC' = SeenC
  <2>1. Unheld(heap')
    BY DEF Unheld
  <2>2. SizesInv'
    BY DEF RuntimeInv, SizesInv, Extent
  <2> QED BY <2>1, <2>2, HeldKept
<1>3. PhaseInv' /\ ExtractInv'
  BY DEF PhaseInv, ExtractInv
<1>4. CallInv'
  BY NoCallInv
<1> QED BY <1>1, <1>2, <1>3, <1>4 DEF RuntimeInv

LEMMA InitialiseStep ==
  ASSUME RuntimeInv, Initialise PROVE RuntimeInv' /\ Seen' = Seen /\ SeenC' = SeenC
<1>1. /\ pc = "initialise" /\ pc' = "body" /\ UNCHANGED <<heap, vars, args, cstring, call, answer>>
  BY DEF Initialise
<1>2. call = NoCall /\ answer' \in [truth : BOOLEAN, text : Text, number : Nat]
  BY <1>1 DEF RuntimeInv, PhaseInv, RuntimeTypeOK
<1> QED BY <1>1, <1>2, NothingKept

(* A call begins: its operands are what OperandsInv says. *)
LEMMA BeginStep ==
  ASSUME RuntimeInv, NEW op \in MadeByProgram, NEW v \in Variables, NEW from, NEW text \in Text,
         NEW start \in 0..MaxLength, NEW len \in 0..MaxLength,
         Begin(op, v, from, text, start, len),
         (\A i \in DOMAIN from : from[i] # Nil) =>
           from \in Seq(Addresses) /\ Begun(op, v, from, text, start, len)
  PROVE  RuntimeInv' /\ Seen' = Seen /\ SeenC' = SeenC /\ UNCHANGED <<args, answer>>
<1>1. /\ pc = "body" /\ call = NoCall /\ UNCHANGED <<heap, vars, args, cstring, answer>>
      /\ answer' \in [truth : BOOLEAN, text : Text, number : Nat]
  BY DEF Begin, Idle, RuntimeInv, RuntimeTypeOK
<1>2. CASE \E i \in DOMAIN from : from[i] = Nil
  <2>1. pc' = "stopped" /\ UNCHANGED call
    BY <1>2 DEF Begin
  <2> QED BY <1>1, <2>1, NothingKept
<1>3. CASE \A i \in DOMAIN from : from[i] # Nil
  <2> DEFINE c == [NoCall EXCEPT !.op = op, !.to = v, !.from = from, !.text = text, !.start = start, !.len = len]
  <2>1. call' = c /\ pc' = pc
    BY <1>3 DEF Begin
  <2>2. from \in Seq(Addresses) /\ Begun(op, v, from, text, start, len)
    BY <1>3
  <2>3. /\ c.op = op /\ c.to = v /\ c.from = from /\ c.text = text /\ c.start = start /\ c.len = len
        /\ c.object = Nil /\ c.data = Nil /\ c.array = Nil /\ c.elements = Nil
    BY DEF NoCall
  <2>4. c \in Call
    <3> DEFINE ops == Operations \cup {"none"}
    <3>1. op \in ops
      BY DEF MadeByProgram, DataFirst, Operations
    <3>2. NoCall \in [op : ops, to : Variables \cup {Nil}, from : Seq(Addresses), text : Text,
                      start : 0..MaxLength, len : 0..MaxLength,
                      object : Addresses \cup {Nil}, data : Addresses \cup {Nil},
                      array : Addresses \cup {Nil}, elements : Addresses \cup {Nil}]
      BY NoCallType DEF Call
    <3> HIDE DEF ops
    <3>3. c \in [op : ops, to : Variables \cup {Nil}, from : Seq(Addresses), text : Text,
                 start : 0..MaxLength, len : 0..MaxLength,
                 object : Addresses \cup {Nil}, data : Addresses \cup {Nil},
                 array : Addresses \cup {Nil}, elements : Addresses \cup {Nil}]
      BY <3>1, <3>2, <2>2
    <3> QED BY <3>3 DEF Call, ops
  <2> HIDE DEF c
  <2>5. Begun(op, v, from, text, start, len)'
    BY <1>1, <2>2 DEF Begun, Length
  <2>6. OperandsInv'
    BY <2>1, <2>3, <2>5 DEF OperandsInv, Begun, Length
  <2>7. op # "array" /\ op # "none"
    BY DEF MadeByProgram, DataFirst
  <2>8. CallInv'
    BY <2>1, <2>3, <2>6, <2>7 DEF CallInv
  <2>9. VarsInv' /\ CStringInv' /\ ArgsInv' /\ SizesInv' /\ Seen' = Seen /\ SeenC' = SeenC
    <3>1. Unheld(heap')
      BY <1>1 DEF Unheld
    <3>2. SizesInv'
      BY <1>1 DEF RuntimeInv, SizesInv, Extent
    <3> QED BY <1>1, <3>1, <3>2, HeldKept
  <2>10. /\ heap' \in [Addresses -> Block] /\ vars' \in [Variables -> Addresses \cup {Nil}]
         /\ cstring' \in Addresses \cup {Nil}
    BY <1>1 DEF RuntimeInv, RuntimeTypeOK
  <2>11. RuntimeInv'
    BY <1>1, <2>1, <2>4, <2>8, <2>9, <2>10, BodyKept
  <2> QED BY <1>1, <2>9, <2>11
<1> QED BY <1>2, <1>3

(* The characters a call copies: they fit what it asks for. *)
LEMMA HeldStrings ==
  ASSUME RuntimeInv, NEW v \in Variables, vars[v] # Nil
  PROVE  /\ vars[v] \in Addresses /\ Data(vars[v]) \in Text
         /\ Length(vars[v]) = Len(Data(vars[v])) /\ Length(vars[v]) \in 0..MaxLength
<1>1. StringIn(heap, vars[v]) /\ heap \in [Addresses -> Block]
  BY DEF RuntimeInv, VarsInv, RuntimeTypeOK
<1>2. /\ vars[v] \in Addresses /\ heap[vars[v]].at \in Addresses
      /\ heap[vars[v]].len = Len(heap[heap[vars[v]].at].text) /\ heap[vars[v]].len <= MaxLength
  BY <1>1 DEF StringIn
<1>3. heap[heap[vars[v]].at].text \in Text /\ heap[vars[v]].len \in Nat
  BY <1>1, <1>2, BlockFields
<1> QED BY <1>2, <1>3, Sizes DEF Data, Length

LEMMA CopiedText ==
  ASSUME RuntimeInv, pc = "body", call.op \in MadeByProgram
  PROVE  /\ Copied \in Text /\ Len(Copied) \in 0..MaxLength
         /\ DataSize \in DOMAIN Capacity /\ Len(Copied) <= DataSize
         /\ call.op \in {"literal", "conversion", "fromC"} => Len(Copied) = call.len
         /\ call.to \in Variables
<1>1. /\ OperandsInv /\ call.to \in Variables
  <2>1. call.op # "none"
    BY DEF MadeByProgram, DataFirst
  <2> QED BY <2>1 DEF RuntimeInv, CallInv
<1>2. call.start \in 0..MaxLength /\ call.len \in 0..MaxLength /\ call.text \in Text
  BY CallTypes DEF RuntimeInv
<1>3. CASE call.op \in {"literal", "conversion"}
  <2>1. Copied = call.text /\ DataSize = call.len
    BY <1>3 DEF Copied, DataSize
  <2>2. Len(call.text) = call.len
    BY <1>1, <1>3 DEF OperandsInv, Begun
  <2>3. call.len \in DOMAIN Capacity /\ call.len \in Nat
    BY <1>2, AskedSizes
  <2> QED BY <2>1, <2>2, <2>3, <1>1, <1>2
<1>4. CASE call.op = "concat"
  <2>1. Copied = Data(call.from[1]) \o Data(call.from[2]) /\ DataSize = Length(call.from[1]) + Length(call.from[2])
    BY <1>4 DEF Copied, DataSize
  <2>2. PICK l \in Variables : \E r \in Variables :
          /\ call.from = <<vars[l], vars[r]>> /\ vars[l] # Nil /\ vars[r] # Nil
          /\ Length(vars[l]) + Length(vars[r]) <= MaxLength
    BY <1>1, <1>4 DEF OperandsInv, Begun
  <2>3. PICK r \in Variables :
          /\ call.from = <<vars[l], vars[r]>> /\ vars[l] # Nil /\ vars[r] # Nil
          /\ Length(vars[l]) + Length(vars[r]) <= MaxLength
    BY <2>2
  <2> DEFINE x == Data(vars[l])
             y == Data(vars[r])
  <2>4. /\ x \in Text /\ Length(vars[l]) = Len(x) /\ Length(vars[l]) \in 0..MaxLength
        /\ y \in Text /\ Length(vars[r]) = Len(y) /\ Length(vars[r]) \in 0..MaxLength
    BY <2>3, HeldStrings
  <2>5. Copied = x \o y /\ DataSize = Length(vars[l]) + Length(vars[r])
    BY <2>1, <2>3
  <2> HIDE DEF x, y
  <2>6. x \o y \in Text /\ Len(x \o y) = Len(x) + Len(y)
    BY <2>4, ConcatProperties DEF Text
  <2>7. Len(Copied) = DataSize /\ DataSize \in 0..MaxLength
    BY <2>3, <2>4, <2>5, <2>6, Sizes
  <2>8. DataSize \in DOMAIN Capacity /\ DataSize \in Nat
    BY <2>7, AskedSizes
  <2> QED BY <1>1, <1>4, <2>5, <2>6, <2>7, <2>8
<1>5. CASE call.op = "toC"
  <2>1. Copied = Data(call.from[1]) /\ DataSize = Length(call.from[1]) + 1
    BY <1>5 DEF Copied, DataSize
  <2>2. call.from = <<vars[call.to]>> /\ vars[call.to] # Nil
    BY <1>1, <1>5 DEF OperandsInv, Begun
  <2> DEFINE x == Data(vars[call.to])
             k == Length(vars[call.to])
  <2>3. x \in Text /\ k = Len(x) /\ k \in 0..MaxLength
    BY <2>2, <1>1, HeldStrings
  <2>4. Copied = x /\ DataSize = k + 1
    BY <2>1, <2>2
  <2> HIDE DEF x, k
  <2>5. k \in Nat /\ k + 1 \in DOMAIN Capacity
    BY <2>3, AskedSizes
  <2>6. DataSize \in DOMAIN Capacity /\ Len(Copied) <= DataSize
    BY <2>3, <2>4, <2>5
  <2> QED BY <1>1, <1>5, <2>3, <2>4, <2>6
<1>6. CASE call.op = "fromC"
  <2> DEFINE x == heap[cstring].text
             i == call.start + 1
             j == call.start + call.len
  <2>1. call.from = <<cstring>> /\ cstring # Nil /\ call.start + call.len <= Len(x)
    BY <1>1, <1>6 DEF OperandsInv, Begun
  <2>2. Copied = SubSeq(x, i, j) /\ DataSize = call.len
    <3>1. call.from[1] = cstring
      BY <2>1
    <3>2. DataSize = call.len
      BY <1>6 DEF DataSize
    <3>3. Copied = SubSeq(heap[call.from[1]].text, call.start + 1, call.start + call.len)
      BY <1>6 DEF Copied
    <3> QED BY <3>1, <3>2, <3>3
  <2>3. x \in Seq(Characters) /\ Len(x) \in Nat
    <3>1. heap \in [Addresses -> Block] /\ cstring \in Addresses
      BY <2>1 DEF RuntimeInv, RuntimeTypeOK
    <3> QED BY <3>1, BlockFields DEF Text
  <2>4. i \in Int /\ j \in Int /\ j <= Len(x) /\ i >= 1 /\ j - i + 1 = call.len
    BY <1>2, <2>1
  <2>5. \A k \in i..j : x[k] \in Characters
    <3> SUFFICES ASSUME NEW k \in i..j PROVE x[k] \in Characters
      OBVIOUS
    <3> HIDE DEF x, i, j
    <3>1. k \in 1..Len(x)
      BY <2>3, <2>4
    <3> QED BY <3>1, <2>3, ElementOfSeq
  <2> HIDE DEF x, i, j
  <2>6. SubSeq(x, i, j) \in Seq(Characters) /\ Len(SubSeq(x, i, j)) = IF i <= j THEN j - i + 1 ELSE 0
    BY <2>4, <2>5, SubSeqProperties
  <2>7. Len(Copied) = call.len
    BY <2>2, <2>4, <2>6, <1>2
  <2>8. Copied \in Text
    BY <2>2, <2>6 DEF Text
  <2>9. DataSize \in DOMAIN Capacity /\ call.len <= DataSize
    <3>1. call.len \in DOMAIN Capacity /\ call.len \in Nat
      BY <1>2, AskedSizes
    <3> QED BY <3>1, <2>2
  <2> QED BY <1>1, <1>2, <1>6, <2>7, <2>8, <2>9
<1> QED BY <1>3, <1>4, <1>5, <1>6 DEF MadeByProgram, DataFirst

(* Nothing a step writes changes what a call copies. *)
LEMMA CopiedKept ==
  ASSUME RuntimeInv, pc = "body", call.op \in MadeByProgram,
         Unheld(heap'), UNCHANGED <<vars, args, cstring>>, SameOperands(call')
  PROVE  OperandsInv' /\ Copied' = Copied
<1>1. OperandsInv /\ call.to \in Variables
  <2>1. call.op # "none"
    BY DEF MadeByProgram, DataFirst
  <2> QED BY <2>1 DEF RuntimeInv, CallInv
<1>2. \A v \in Variables : vars[v] # Nil => Data(vars[v])' = Data(vars[v]) /\ Length(vars[v])' = Length(vars[v])
  <2>1. VarsInv' /\ \A v \in Variables : vars'[v] # Nil => TextIn(heap', vars'[v]) = TextIn(heap, vars[v])
    BY HeldKept
  <2>2. ASSUME NEW v \in Variables, vars[v] # Nil
        PROVE  heap'[heap'[vars'[v]].at].text = heap[heap[vars[v]].at].text /\ heap'[vars'[v]].len = heap[vars[v]].len
    <3>1. heap'[heap'[vars'[v]].at].text = heap[heap[vars[v]].at].text
      BY <2>1, <2>2 DEF TextIn
    <3>2. heap'[vars'[v]].len = Len(heap'[heap'[vars'[v]].at].text)
      BY <2>1, <2>2 DEF VarsInv, StringIn
    <3>3. heap[vars[v]].len = Len(heap[heap[vars[v]].at].text)
      BY <2>2, HeldStrings DEF Data, Length
    <3> QED BY <3>1, <3>2, <3>3
  <2> QED BY <2>2 DEF Data, Length
<1>3. cstring # Nil => heap'[cstring] = heap[cstring]
  BY HeldKept
<1>4. /\ call'.op = call.op /\ call'.to = call.to /\ call'.from = call.from
      /\ call'.text = call.text /\ call'.start = call.start /\ call'.len = call.len
  BY DEF SameOperands
<1>5. CASE call.op \in {"literal", "conversion"}
  BY <1>1, <1>4, <1>5 DEF OperandsInv, Begun, Copied
<1>6. CASE call.op = "concat"
  <2>1. PICK l \in Variables : \E r \in Variables :
          /\ call.from = <<vars[l], vars[r]>> /\ vars[l] # Nil /\ vars[r] # Nil
          /\ Length(vars[l]) + Length(vars[r]) <= MaxLength
    BY <1>1, <1>6 DEF OperandsInv, Begun
  <2>2. PICK r \in Variables :
          /\ call.from = <<vars[l], vars[r]>> /\ vars[l] # Nil /\ vars[r] # Nil
          /\ Length(vars[l]) + Length(vars[r]) <= MaxLength
    BY <2>1
  <2>3. /\ Data(vars[l])' = Data(vars[l]) /\ Length(vars[l])' = Length(vars[l])
        /\ Data(vars[r])' = Data(vars[r]) /\ Length(vars[r])' = Length(vars[r])
    BY <1>2, <2>2
  <2>4. call.from[1] = vars[l] /\ call.from[2] = vars[r]
    BY <2>2
  <2>5. Copied = Data(vars[l]) \o Data(vars[r])
    BY <1>6, <2>4 DEF Copied
  <2>6. Copied' = Data(vars[l])' \o Data(vars[r])'
    BY <1>4, <1>6, <2>4 DEF Copied, Data
  <2>7. /\ call'.from = <<vars'[l], vars'[r]>> /\ vars'[l] # Nil /\ vars'[r] # Nil
        /\ Length(vars[l])' + Length(vars[r])' <= MaxLength
    BY <1>4, <2>2, <2>3
  <2>8. OperandsInv'
    BY <1>4, <1>6, <2>7 DEF OperandsInv, Begun
  <2> QED BY <2>3, <2>5, <2>6, <2>8
<1>7. CASE call.op = "toC"
  <2>1. call.from = <<vars[call.to]>> /\ vars[call.to] # Nil /\ call.from[1] = vars[call.to]
    BY <1>1, <1>7 DEF OperandsInv, Begun
  <2>2. OperandsInv'
    BY <1>4, <1>7, <2>1 DEF OperandsInv, Begun
  <2>3. Copied = Data(vars[call.to])
    BY <1>7, <2>1 DEF Copied
  <2>4. Copied' = Data(vars[call.to])'
    BY <1>4, <1>7, <2>1 DEF Copied, Data
  <2>5. Data(vars[call.to])' = Data(vars[call.to])
    <3>1. heap'[heap'[vars'[call.to]].at].text = heap[heap[vars[call.to]].at].text
      BY <1>1, <1>2, <2>1 DEF Data
    <3> QED BY <3>1, <1>4 DEF Data
  <2> QED BY <2>2, <2>3, <2>4, <2>5
<1>8. CASE call.op = "fromC"
  <2>1. call.from = <<cstring>> /\ cstring # Nil /\ call.start + call.len <= Len(heap[cstring].text)
        /\ call.from[1] = cstring
    BY <1>1, <1>8 DEF OperandsInv, Begun
  <2>2. OperandsInv'
    BY <1>3, <1>4, <1>8, <2>1 DEF OperandsInv, Begun
  <2>3. Copied' = Copied
    BY <1>3, <1>4, <1>8, <2>1 DEF Copied
  <2> QED BY <2>2, <2>3
<1> QED BY <1>5, <1>6, <1>7, <1>8 DEF MadeByProgram, DataFirst

-----------------------------------------------------------------------------
(* The two blocks of a string                                              *)
LEMMA HeldIn ==
  ASSUME RuntimeInv, Unheld(heap')
  PROVE  /\ \A v \in Variables : vars[v] # Nil =>
              StringIn(heap', vars[v]) /\ TextIn(heap', vars[v]) = TextIn(heap, vars[v])
         /\ cstring # Nil => cstring \in Addresses /\ heap'[cstring] = heap[cstring]
         /\ args # Nil => ArgumentsIn(heap', args)
<1> DEFINE g == heap'
<1>1. Unheld(g)
  OBVIOUS
<1> HIDE DEF g
<1>2. /\ \A v \in Variables : vars[v] # Nil =>
           StringIn(g, vars[v]) /\ TextIn(g, vars[v]) = TextIn(heap, vars[v])
      /\ cstring # Nil => cstring \in Addresses /\ g[cstring] = heap[cstring]
      /\ args # Nil => ArgumentsIn(g, args)
  BY <1>1, ValuesKept
<1> QED BY <1>2 DEF g

LEMMA ArgsKept ==
  ASSUME RuntimeInv, Unheld(heap'), args' = args PROVE ArgsInv'
BY HeldIn DEF ArgsInv, ArgumentsIn, ItemsIn, StringIn, TextIn

LEMMA VarsKept ==
  ASSUME RuntimeInv, Unheld(heap'), vars' = vars PROVE VarsInv' /\ Seen' = Seen
<1>1. VarsInv'
  BY HeldIn DEF VarsInv, StringIn
<1>2. Seen' = Seen
  BY HeldIn DEF Seen, Contents, TextIn
<1> QED BY <1>1, <1>2

LEMMA InCall ==
  ASSUME RuntimeInv, pc = "body", call.op \in MadeByProgram
  PROVE  /\ call.array = Nil /\ call.elements = Nil
         /\ call.op \notin DataFirst => call.data = Nil
         /\ call.op \notin {"conversion", "fromC"} => call.object = Nil
         /\ call.data # Nil =>
              heap[call.data].text = Copied /\ ResultLength = Len(Copied) /\ Len(Copied) <= MaxLength
         /\ call.object # Nil => BlankOf(heap[call.object], StringSize, call.len) /\ Apart(heap, call.object)
BY DEF RuntimeInv, CallInv

(* The block of what is copied *)
LEMMA CopiedBlock ==
  ASSUME RuntimeInv, pc = "body", call.op \in MadeByProgram
  PROVE  LET b == [Zeroed(DataSize) EXCEPT !.text = Copied]
         IN  b \in Block /\ Fits(b) /\ b.text = Copied
<1> DEFINE n == DataSize
           t == Copied
           b == [Zeroed(n) EXCEPT !.text = t]
<1>1. n \in DOMAIN Capacity /\ t \in Text /\ Len(t) <= n
  BY CopiedText
<1> HIDE DEF n, t
<1>2. b \in Block /\ b.size = n /\ b.text = t /\ b.items = <<>> /\ b.len = 0 /\ b.at = Nil
  BY <1>1, TextBlocks
<1> HIDE DEF b
<1>3. Fits(b)
  BY <1>1, <1>2, Extents
<1> QED BY <1>2, <1>3 DEF b, n, t

LEMMA MakeDataStep ==
  ASSUME RuntimeInv, NEW a \in Unused, MakeData(a)
  PROVE  /\ RuntimeInv' /\ Seen' = Seen /\ UNCHANGED <<args, answer>>
         /\ \/ SeenC' = SeenC
            \/ call.to \in Variables /\ Seen[call.to] # {} /\ SeenC' = Seen[call.to]
<1> DEFINE b == [Zeroed(DataSize) EXCEPT !.text = Copied]
           c == [call EXCEPT !.data = a]
<1>1. /\ pc = "body" /\ call.op \in DataFirst \cup {"toC"} /\ UNCHANGED <<pc, vars, args, answer>>
      /\ heap' = [heap EXCEPT ![a] = b]
  BY DEF MakeData
<1>2. call.op \in MadeByProgram
  BY <1>1 DEF MadeByProgram
<1>3. b \in Block /\ Fits(b) /\ b.text = Copied
  BY <1>1, <1>2, CopiedBlock
<1>4. Copied \in Text /\ Len(Copied) \in 0..MaxLength /\ call.to \in Variables
  BY <1>1, <1>2, CopiedText
<1> HIDE DEF b
<1>5. /\ heap' \in [Addresses -> Block] /\ SizesInv' /\ Unheld(heap')
      /\ a \in Addresses /\ heap'[a] = b
  BY <1>1, <1>3, OneBlock
<1>6. VarsInv' /\ Seen' = Seen /\ ArgsInv'
  BY <1>1, <1>5, VarsKept, ArgsKept
<1>7. vars' \in [Variables -> Addresses \cup {Nil}] /\ cstring \in Addresses \cup {Nil}
  BY <1>1 DEF RuntimeInv, RuntimeTypeOK
<1>8. CASE call.op = "toC"
  <2>1. cstring' = a /\ call' = NoCall
    BY <1>8 DEF MakeData
  <2>2. CStringInv'
    <3>1. MaxLength \in Nat
      BY RuntimeAssumption DEF RuntimeAssumption
    <3>2. Len(heap'[cstring'].text) <= MaxLength
      BY <1>3, <1>4, <1>5, <2>1, <3>1
    <3> QED BY <3>2 DEF CStringInv
  <2>3. RuntimeInv'
    BY <1>1, <1>5, <1>6, <1>7, <2>1, <2>2, NoCallType, NoCallInv, BodyKept
  <2>4. call.from = <<vars[call.to]>> /\ vars[call.to] # Nil
    <3>1. OperandsInv
      BY <1>1, <1>2, <1>8 DEF RuntimeInv, CallInv
    <3> QED BY <3>1, <1>8 DEF OperandsInv, Begun
  <2>5. Copied = TextIn(heap, vars[call.to])
    <3>1. call.from[1] = vars[call.to]
      BY <2>4
    <3> QED BY <3>1, <1>8 DEF Copied, Data, TextIn
  <2>6. Seen[call.to] = {Copied}
    BY <1>4, <2>4, <2>5 DEF Seen, Contents
  <2>7. SeenC' = {Copied}
    <3>1. cstring' # Nil /\ heap'[cstring'].text = Copied
      BY <1>3, <1>5, <2>1, Sizes
    <3> QED BY <3>1 DEF SeenC
  <2> QED BY <1>1, <1>4, <1>6, <2>3, <2>6, <2>7
<1>9. CASE call.op \in DataFirst
  <2>1. call' = c /\ cstring' = cstring
    BY <1>9 DEF MakeData, DataFirst
  <2>2. /\ c \in Call /\ SameOperands(c) /\ c.data = a
        /\ c.array = call.array /\ c.elements = call.elements /\ c.object = call.object
    BY <1>5, CallChanges DEF RuntimeInv
  <2> HIDE DEF c
  <2>3. SameOperands(call')
    BY <2>1, <2>2
  <2>4. OperandsInv' /\ Copied' = Copied
    BY <1>1, <1>2, <1>5, <2>1, <2>3, CopiedKept
  <2>5. CStringInv' /\ SeenC' = SeenC
    BY <1>1, <1>5, <2>1, HeldKept
  <2>6. /\ call'.op = call.op /\ call'.to = call.to /\ call'.len = call.len /\ call'.data = a
        /\ call'.array = Nil /\ call'.elements = Nil /\ call'.object = Nil
    <3>1. call.array = Nil /\ call.elements = Nil /\ call.object = Nil
      BY <1>1, <1>2, <1>9, InCall DEF DataFirst
    <3> QED BY <3>1, <2>1, <2>2 DEF SameOperands
  <2>7. heap'[call'.data].text = Copied
    BY <1>3, <1>5, <2>6
  <2>8. ResultLength' = Len(Copied)
    <3>1. CASE call.op = "literal"
      <4>1. call.len = Len(Copied)
        BY <1>1, <1>2, <3>1, CopiedText
      <4> QED BY <3>1, <4>1, <2>6 DEF ResultLength
    <3>2. CASE call.op = "concat"
      BY <3>2, <2>6, <2>7 DEF ResultLength
    <3> QED BY <3>1, <3>2, <1>9 DEF DataFirst
  <2>9. CallInv'
    <3>1. call.op # "array" /\ call.op # "none"
      BY <1>9 DEF DataFirst
    <3>2. /\ heap'[call'.data].text = Copied' /\ ResultLength' = Len(Copied') /\ Len(Copied') <= MaxLength
      BY <1>4, <2>4, <2>7, <2>8, Sizes
    <3> QED BY <3>1, <3>2, <1>2, <1>4, <1>9, <2>4, <2>6 DEF CallInv
  <2>10. RuntimeInv'
    BY <1>1, <1>5, <1>6, <1>7, <2>1, <2>2, <2>5, <2>9, BodyKept
  <2> QED BY <1>1, <1>6, <2>5, <2>10
<1> QED BY <1>1, <1>8, <1>9

(* A call that gives its string to its variable *)
LEMMA StringDone ==
  ASSUME RuntimeInv, pc = "body", call.op \in MadeByProgram,
         heap' \in [Addresses -> Block], SizesInv', Unheld(heap'),
         NEW s \in Addresses, StringIn(heap', s), TextIn(heap', s) = Copied,
         Done(call.to, s), UNCHANGED <<pc, args, cstring, answer>>
  PROVE  /\ RuntimeInv' /\ UNCHANGED <<args, answer>>
         /\ Seen' = [Seen EXCEPT ![call.to] = {Copied}] /\ SeenC' = SeenC
<1>1. vars' = [vars EXCEPT ![call.to] = s] /\ call' = NoCall
  BY DEF Done
<1>2. call.to \in Variables /\ vars \in [Variables -> Addresses \cup {Nil}] /\ cstring \in Addresses \cup {Nil}
  BY CopiedText DEF RuntimeInv, RuntimeTypeOK
<1>3. /\ vars' \in [Variables -> Addresses \cup {Nil}] /\ vars'[call.to] = s
      /\ \A v \in Variables : v # call.to => vars'[v] = vars[v]
  BY <1>1, <1>2
<1>4. s # Nil
  BY Sizes
<1>5. VarsInv'
  BY <1>3, HeldIn DEF VarsInv, StringIn
<1>6. ArgsInv'
  BY ArgsKept
<1>7. CStringInv' /\ SeenC' = SeenC
  BY HeldIn DEF CStringInv, SeenC, RuntimeInv
<1>8. RuntimeInv'
  BY <1>1, <1>2, <1>3, <1>5, <1>6, <1>7, NoCallType, NoCallInv, BodyKept
<1>9. ASSUME NEW v \in Variables
      PROVE  Contents(heap', vars'[v]) = IF v = call.to THEN {Copied} ELSE Contents(heap, vars[v])
  BY <1>3, <1>4, HeldIn DEF Contents
<1>10. Seen' = [v \in Variables |-> Contents(heap', vars'[v])]
  BY DEF Seen, Contents, TextIn
<1>11. [Seen EXCEPT ![call.to] = {Copied}]
         = [v \in Variables |-> IF v = call.to THEN {Copied} ELSE Contents(heap, vars[v])]
  BY <1>2 DEF Seen
<1> QED BY <1>7, <1>8, <1>9, <1>10, <1>11

LEMMA MakeObjectStep ==
  ASSUME RuntimeInv, NEW a \in Unused, MakeObject(a)
  PROVE  /\ RuntimeInv' /\ UNCHANGED <<args, answer>>
         /\ Seen' = [Seen EXCEPT ![call.to] = {Copied}] /\ SeenC' = SeenC
         /\ pc = "body" /\ call.op \in DataFirst
<1> DEFINE n == ResultLength
           p == call.data
           b == [Zeroed(StringSize) EXCEPT !.len = n, !.at = p]
<1>1. /\ pc = "body" /\ p # Nil /\ UNCHANGED <<pc, args, cstring, answer>>
      /\ heap' = [heap EXCEPT ![a] = b] /\ Done(call.to, a)
  BY DEF MakeObject
<1>2. call.op \in DataFirst /\ call.op \in MadeByProgram
  <2>1. call.op \in DataFirst
    BY <1>1 DEF RuntimeInv, CallInv
  <2> QED BY <2>1 DEF MadeByProgram
<1>3. heap[p].text = Copied /\ n = Len(Copied) /\ Len(Copied) \in 0..MaxLength /\ p \in Addresses
  BY <1>1, <1>2, InCall, CopiedText, CallTypes DEF RuntimeInv
<1>4. b \in Block /\ b.size = StringSize /\ b.text = <<>> /\ b.items = <<>> /\ b.len = n /\ b.at = p
  <2>1. n \in Nat /\ p \in Addresses \cup {Nil}
    <3> HIDE DEF n, p
    <3> QED BY <1>3, AskedSizes
  <2> HIDE DEF n, p
  <2> QED BY <2>1, StringBlocks
<1> HIDE DEF b
<1>5. Fits(b)
  BY <1>4, Extents
<1>6. /\ heap' \in [Addresses -> Block] /\ SizesInv' /\ Unheld(heap')
      /\ a \in Addresses /\ heap'[a] = b
      /\ \A c \in Addresses : c # a => heap'[c] = heap[c]
  BY <1>1, <1>4, <1>5, OneBlock
<1>7. heap'[p] = heap[p]
  <2>1. a # p
    BY Fresh
  <2> QED BY <2>1, <1>3, <1>6
<1>8. StringIn(heap', a) /\ TextIn(heap', a) = Copied
  <2>1. /\ heap'[a].at = p /\ heap'[a].len = Len(Copied) /\ heap'[p].text = Copied
        /\ Len(Copied) <= MaxLength
    BY <1>3, <1>4, <1>6, <1>7, Sizes
  <2> QED BY <2>1, <1>3, <1>6 DEF StringIn, TextIn
<1> QED BY <1>1, <1>2, <1>6, <1>8, StringDone

LEMMA MakeObjectFirstStep ==
  ASSUME RuntimeInv, NEW a \in Unused, MakeObjectFirst(a)
  PROVE  RuntimeInv' /\ Seen' = Seen /\ SeenC' = SeenC /\ UNCHANGED <<args, answer>>
<1> DEFINE n == call.len
           b == [Zeroed(StringSize) EXCEPT !.len = n]
           c == [call EXCEPT !.object = a]
<1>1. /\ pc = "body" /\ call.op \in {"conversion", "fromC"} /\ UNCHANGED <<pc, vars, args, cstring, answer>>
      /\ heap' = [heap EXCEPT ![a] = b] /\ call' = c
  BY DEF MakeObjectFirst
<1>2. call.op \in MadeByProgram /\ call.op \notin DataFirst
  BY <1>1 DEF MadeByProgram, DataFirst
<1>3. b \in Block /\ BlankOf(b, StringSize, n)
  <2>1. StringSize \in DOMAIN Capacity /\ n \in Nat /\ Nil \in Addresses \cup {Nil}
    BY CallTypes, Sizes DEF RuntimeInv
  <2> HIDE DEF n
  <2> QED BY <2>1, NewBlocks
<1> HIDE DEF b
<1>4. Fits(b)
  BY <1>3, Extents DEF BlankOf
<1>5. /\ heap' \in [Addresses -> Block] /\ SizesInv' /\ Unheld(heap')
      /\ a \in Addresses /\ heap'[a] = b
  BY <1>1, <1>3, <1>4, OneBlock
<1>6. /\ c \in Call /\ SameOperands(c) /\ c.object = a
      /\ c.array = call.array /\ c.elements = call.elements /\ c.data = call.data
  BY <1>5, CallChanges DEF RuntimeInv
<1> HIDE DEF c
<1>7. /\ VarsInv' /\ CStringInv' /\ ArgsInv' /\ Seen' = Seen /\ SeenC' = SeenC
      /\ \A d : Apart(heap, d) => Apart(heap, d)'
  BY <1>1, <1>5, HeldKept
<1>8. OperandsInv'
  <2>1. SameOperands(call')
    BY <1>1, <1>6
  <2> QED BY <1>1, <1>2, <1>5, <2>1, CopiedKept
<1>9. /\ call'.op = call.op /\ call'.to = call.to /\ call'.len = n /\ call'.object = a
      /\ call'.array = Nil /\ call'.elements = Nil /\ call'.data = Nil
  <2>1. call.array = Nil /\ call.elements = Nil /\ call.data = Nil
    BY <1>1, <1>2, InCall
  <2> QED BY <2>1, <1>1, <1>6 DEF SameOperands
<1>10. Apart(heap, call.object)'
  <2>1. Apart(heap, a)
    BY Fresh
  <2>2. Apart(heap, a)'
    BY <2>1, <1>7
  <2> QED BY <2>2, <1>9 DEF Apart, ApartFromArguments, ApartFromString
<1>11. BlankOf(heap'[call'.object], StringSize, call'.len)
  BY <1>3, <1>5, <1>9
<1>12. CallInv'
  <2>1. call.op # "array" /\ call.op # "none" /\ call.to \in Variables
    BY <1>1, <1>2, CopiedText
  <2> QED BY <2>1, <1>1, <1>2, <1>8, <1>9, <1>10, <1>11
          DEF CallInv, Apart, ApartFromArguments, ApartFromString, BlankOf
<1>13. vars' \in [Variables -> Addresses \cup {Nil}] /\ cstring' \in Addresses \cup {Nil}
  BY <1>1 DEF RuntimeInv, RuntimeTypeOK
<1>14. RuntimeInv'
  BY <1>1, <1>5, <1>6, <1>7, <1>12, <1>13, BodyKept
<1> QED BY <1>1, <1>7, <1>14

LEMMA MakeDataLastStep ==
  ASSUME RuntimeInv, NEW a \in Unused, MakeDataLast(a)
  PROVE  /\ RuntimeInv' /\ UNCHANGED <<args, answer>>
         /\ Seen' = [Seen EXCEPT ![call.to] = {Copied}] /\ SeenC' = SeenC
         /\ pc = "body" /\ call.op \in {"conversion", "fromC"}
<1> DEFINE o == call.object
           b == [Zeroed(DataSize) EXCEPT !.text = Copied]
           d == [heap[o] EXCEPT !.at = a]
<1>1. /\ pc = "body" /\ o # Nil /\ UNCHANGED <<pc, args, cstring, answer>>
      /\ heap' = [heap EXCEPT ![a] = b, ![o].at = a] /\ Done(call.to, o)
  BY DEF MakeDataLast
<1>2. call.op \in {"conversion", "fromC"} /\ call.op \in MadeByProgram
  <2>1. call.op \in {"conversion", "fromC"}
    BY <1>1 DEF RuntimeInv, CallInv
  <2> QED BY <2>1 DEF MadeByProgram
<1>3. BlankOf(heap[o], StringSize, call.len) /\ Apart(heap, o) /\ o \in Addresses
  BY <1>1, <1>2, InCall, CallTypes DEF RuntimeInv
<1>4. b \in Block /\ Fits(b) /\ b.text = Copied
  BY <1>1, <1>2, CopiedBlock
<1>5. Len(Copied) = call.len /\ Len(Copied) \in 0..MaxLength
  BY <1>1, <1>2, CopiedText
<1>6. a # o /\ a \in Addresses
  BY Fresh
<1>7. d \in Block /\ d.size = StringSize /\ d.text = <<>> /\ d.items = <<>> /\ d.len = call.len /\ d.at = a
  <2>1. heap[o] \in Block /\ a \in Addresses \cup {Nil}
    BY <1>3, <1>6 DEF RuntimeInv, RuntimeTypeOK
  <2> HIDE DEF o
  <2> QED BY <2>1, <1>3, PointedBlocks DEF BlankOf
<1>8. Fits(d)
  <2> HIDE DEF d
  <2> QED BY <1>7, Extents
<1> HIDE DEF b, o
<1>9. /\ heap' \in [Addresses -> Block] /\ SizesInv' /\ Unheld(heap')
      /\ a \in Addresses /\ heap'[a] = b /\ heap'[o] = d
  BY <1>1, <1>3, <1>4, <1>6, <1>8, TwoBlocks
<1> HIDE DEF d
<1>10. StringIn(heap', o) /\ TextIn(heap', o) = Copied
  <2>1. /\ heap'[o].at = a /\ heap'[o].len = Len(Copied) /\ heap'[a].text = Copied
        /\ Len(Copied) <= MaxLength
    BY <1>4, <1>5, <1>7, <1>9, Sizes
  <2> QED BY <2>1, <1>3, <1>6 DEF StringIn, TextIn
<1> QED BY <1>1, <1>2, <1>3, <1>9, <1>10, StringDone

-----------------------------------------------------------------------------
(* What the program does with strings                                      *)
Answers == [truth : BOOLEAN, text : Text, number : Nat]

LEMMA AssignStep ==
  ASSUME RuntimeInv, NEW v \in Variables, NEW s, s = Nil \/ StringIn(heap, s), Assign(v, s)
  PROVE  /\ RuntimeInv' /\ UNCHANGED <<args, answer>>
         /\ Seen' = [Seen EXCEPT ![v] = Contents(heap, s)] /\ SeenC' = SeenC
<1>1. /\ pc = "body" /\ call = NoCall /\ vars' = [vars EXCEPT ![v] = s]
      /\ UNCHANGED <<pc, heap, args, cstring, call, answer>>
  BY DEF Assign, Idle
<1>2. /\ vars \in [Variables -> Addresses \cup {Nil}] /\ cstring \in Addresses \cup {Nil}
      /\ heap \in [Addresses -> Block]
  BY DEF RuntimeInv, RuntimeTypeOK
<1>3. s \in Addresses \cup {Nil}
  BY DEF StringIn
<1>4. /\ vars' \in [Variables -> Addresses \cup {Nil}] /\ vars'[v] = s
      /\ \A w \in Variables : w # v => vars'[w] = vars[w]
  BY <1>1, <1>2, <1>3
<1>5. Unheld(heap') /\ heap' = heap
  BY <1>1 DEF Unheld
<1>6. VarsInv'
  BY <1>4, <1>5, HeldIn DEF VarsInv, StringIn
<1>7. ArgsInv'
  BY <1>1, <1>5, ArgsKept
<1>8. CStringInv' /\ SeenC' = SeenC /\ SizesInv'
  BY <1>1 DEF CStringInv, SeenC, SizesInv, Extent, RuntimeInv
<1>9. RuntimeInv'
  BY <1>1, <1>2, <1>4, <1>5, <1>6, <1>7, <1>8, NoCallType, NoCallInv, BodyKept
<1>10. ASSUME NEW w \in Variables
       PROVE  Contents(heap', vars'[w]) = IF w = v THEN Contents(heap, s) ELSE Contents(heap, vars[w])
  BY <1>4, <1>5
<1>11. Seen' = [w \in Variables |-> Contents(heap', vars'[w])]
  BY DEF Seen, Contents, TextIn
<1>12. [Seen EXCEPT ![v] = Contents(heap, s)]
         = [w \in Variables |-> IF w = v THEN Contents(heap, s) ELSE Contents(heap, vars[w])]
  BY DEF Seen
<1> QED BY <1>1, <1>8, <1>9, <1>10, <1>11, <1>12

LEMMA ShareStep ==
  ASSUME RuntimeInv, NEW v \in Variables, NEW w \in Variables, Share(v, w)
  PROVE  /\ RuntimeInv' /\ UNCHANGED <<args, answer>>
         /\ Seen' = [Seen EXCEPT ![v] = Seen[w]] /\ SeenC' = SeenC
<1>1. vars[w] = Nil \/ StringIn(heap, vars[w])
  BY DEF RuntimeInv, VarsInv
<1>2. Assign(v, vars[w])
  BY DEF Share
<1>3. Seen[w] = Contents(heap, vars[w])
  BY DEF Seen
<1> QED BY <1>1, <1>2, <1>3, AssignStep

LEMMA AssignNullStep ==
  ASSUME RuntimeInv, NEW v \in Variables, AssignNull(v)
  PROVE  /\ RuntimeInv' /\ UNCHANGED <<args, answer>>
         /\ Seen' = [Seen EXCEPT ![v] = {}] /\ SeenC' = SeenC
<1>1. Assign(v, Nil)
  BY DEF AssignNull
<1>2. Contents(heap, Nil) = {}
  BY DEF Contents
<1> QED BY <1>1, <1>2, AssignStep

LEMMA TakeArgumentStep ==
  ASSUME RuntimeInv, NEW v \in Variables, NEW i \in 1..Len(CommandLine), TakeArgument(v, i)
  PROVE  /\ RuntimeInv' /\ UNCHANGED <<args, answer>> /\ args # Nil
         /\ Seen' = [Seen EXCEPT ![v] = {CommandLine[i]}] /\ SeenC' = SeenC
<1> DEFINE s == heap[heap[args].at].items[i]
<1>1. args # Nil /\ Assign(v, s)
  BY DEF TakeArgument
<1>2. StringIn(heap, s) /\ TextIn(heap, s) = CommandLine[i]
  BY <1>1 DEF RuntimeInv, ArgsInv, ArgumentsIn, ItemsIn
<1> HIDE DEF s
<1>3. s # Nil
  BY <1>2, Sizes DEF StringIn
<1>4. Contents(heap, s) = {CommandLine[i]}
  BY <1>2, <1>3 DEF Contents
<1> QED BY <1>1, <1>2, <1>4, AssignStep

LEMMA NewAnswers ==
  /\ \A x \in BOOLEAN : [NoAnswer EXCEPT !.truth = x] \in Answers
  /\ \A t \in Text : [NoAnswer EXCEPT !.text = t] \in Answers
  /\ \A n \in Nat : [NoAnswer EXCEPT !.number = n] \in Answers
  /\ NoAnswer \in Answers
BY SomeText DEF NoAnswer, Answers

LEMMA ObserveStep ==
  ASSUME RuntimeInv, NEW strings, NEW a, Nil \notin strings => a \in Answers, Observe(strings, a)
  PROVE  /\ RuntimeInv' /\ Seen' = Seen /\ SeenC' = SeenC /\ UNCHANGED args
         /\ answer' = answer \/ (Nil \notin strings /\ answer' = a)
<1>1. pc = "body" /\ call = NoCall /\ UNCHANGED <<heap, vars, args, cstring, call>>
  BY DEF Observe, Idle
<1>2. answer \in Answers
  BY DEF RuntimeInv, RuntimeTypeOK, Answers
<1>3. \/ pc' = "stopped" /\ answer' = answer
      \/ Nil \notin strings /\ pc' = pc /\ answer' = a
  BY DEF Observe
<1>4. pc' \in {"body", "stopped"} /\ answer' \in Answers
  BY <1>1, <1>2, <1>3
<1> QED BY <1>1, <1>3, <1>4, NothingKept DEF Answers

(* A string as the length delimits it is the string as the terminator does *)
LEMMA HeldText ==
  ASSUME NEW h \in [Addresses -> Block], NEW s, StringIn(h, s)
  PROVE  SubSeq(h[h[s].at].text, 1, h[s].len) = TextIn(h, s)
<1>1. h[s].at \in Addresses /\ h[s].len = Len(h[h[s].at].text)
  BY DEF StringIn
<1>2. h[h[s].at].text \in Seq(Characters)
  BY <1>1, BlockFields DEF Text
<1> QED BY <1>1, <1>2, SubSeqFull DEF TextIn

LEMMA HeldContents ==
  ASSUME RuntimeInv, NEW v \in Variables, vars[v] # Nil
  PROVE  /\ Seen[v] = {Data(vars[v])} /\ Data(vars[v]) \in Text
         /\ SubSeq(Data(vars[v]), 1, Length(vars[v])) = Data(vars[v])
         /\ Length(vars[v]) = Len(Data(vars[v])) /\ Length(vars[v]) \in Nat
<1>1. StringIn(heap, vars[v]) /\ heap \in [Addresses -> Block]
  BY DEF RuntimeInv, VarsInv, RuntimeTypeOK
<1>2. SubSeq(Data(vars[v]), 1, Length(vars[v])) = Data(vars[v])
  BY <1>1, HeldText DEF TextIn, Data, Length
<1> QED BY <1>2, HeldStrings DEF Seen, Contents, Data, TextIn

(* The answers the program gets are those about what it sees. *)
LEMMA CompareStep ==
  ASSUME RuntimeInv, NEW l \in Variables, NEW r \in Variables, NEW equal \in BOOLEAN, Compare(l, r, equal)
  PROVE  /\ RuntimeInv' /\ Seen' = Seen /\ SeenC' = SeenC /\ UNCHANGED args
         /\ \/ answer' = answer
            \/ \E x \in Seen[l], y \in Seen[r] : answer' = [NoAnswer EXCEPT !.truth = ((x = y) = equal)]
<1> DEFINE x == Data(vars[l])
           y == Data(vars[r])
           t == [NoAnswer EXCEPT !.truth = ((x = y) = equal)]
           strings == {vars[l], vars[r]}
<1>1. Observe(strings, t)
  BY DEF Compare
<1>2. t \in Answers
  <2>1. ((x = y) = equal) \in BOOLEAN
    OBVIOUS
  <2> QED BY <2>1, NewAnswers
<1> HIDE DEF t
<1>3. /\ RuntimeInv' /\ Seen' = Seen /\ SeenC' = SeenC /\ UNCHANGED args
      /\ answer' = answer \/ (Nil \notin strings /\ answer' = t)
  BY <1>1, <1>2, ObserveStep
<1>4. Nil \notin strings => x \in Seen[l] /\ y \in Seen[r]
  BY HeldContents
<1> QED BY <1>3, <1>4 DEF t

LEMMA OutputStep ==
  ASSUME RuntimeInv, NEW v \in Variables, Output(v)
  PROVE  /\ RuntimeInv' /\ Seen' = Seen /\ SeenC' = SeenC /\ UNCHANGED args
         /\ answer' = answer \/ \E x \in Seen[v] : answer' = [NoAnswer EXCEPT !.text = x]
<1> DEFINE x == SubSeq(Data(vars[v]), 1, Length(vars[v]))
           t == [NoAnswer EXCEPT !.text = x]
           strings == {vars[v]}
<1>1. Observe(strings, t)
  BY DEF Output
<1>2. Nil \notin strings => x \in Text /\ x \in Seen[v]
  BY HeldContents
<1>3. Nil \notin strings => t \in Answers
  BY <1>2, NewAnswers
<1> HIDE DEF t
<1>4. /\ RuntimeInv' /\ Seen' = Seen /\ SeenC' = SeenC /\ UNCHANGED args
      /\ answer' = answer \/ (Nil \notin strings /\ answer' = t)
  BY <1>1, <1>3, ObserveStep
<1> QED BY <1>2, <1>4 DEF t

LEMMA ReadLengthStep ==
  ASSUME RuntimeInv, NEW v \in Variables, ReadLength(v)
  PROVE  /\ RuntimeInv' /\ Seen' = Seen /\ SeenC' = SeenC /\ UNCHANGED args
         /\ answer' = answer \/ \E x \in Seen[v] : answer' = [NoAnswer EXCEPT !.number = Len(x)]
<1> DEFINE n == Length(vars[v])
           t == [NoAnswer EXCEPT !.number = n]
           strings == {vars[v]}
<1>1. Observe(strings, t)
  BY DEF ReadLength
<1>2. Nil \notin strings => n \in Nat /\ \E x \in Seen[v] : n = Len(x)
  BY HeldContents
<1>3. Nil \notin strings => t \in Answers
  BY <1>2, NewAnswers
<1> HIDE DEF t, n
<1>4. /\ RuntimeInv' /\ Seen' = Seen /\ SeenC' = SeenC /\ UNCHANGED args
      /\ answer' = answer \/ (Nil \notin strings /\ answer' = t)
  BY <1>1, <1>3, ObserveStep
<1> QED BY <1>2, <1>4 DEF t

LEMMA AssertEqualsStep ==
  ASSUME RuntimeInv, NEW l, NEW r, AssertEquals(l, r)
  PROVE  RuntimeInv' /\ Seen' = Seen /\ SeenC' = SeenC /\ UNCHANGED <<args, answer>>
<1>1. /\ pc = "body" /\ call = NoCall /\ UNCHANGED <<heap, vars, args, cstring, call, answer>>
      /\ pc' \in {"body", "stopped"}
  BY DEF AssertEquals, Idle
<1>2. answer' \in [truth : BOOLEAN, text : Text, number : Nat]
  BY <1>1 DEF RuntimeInv, RuntimeTypeOK
<1> QED BY <1>1, <1>2, NothingKept

-----------------------------------------------------------------------------
(* The calls the program begins                                            *)
BegunStep == RuntimeInv' /\ Seen' = Seen /\ SeenC' = SeenC /\ UNCHANGED <<args, answer>>

LEMMA TextCallStep ==
  ASSUME RuntimeInv, NEW v \in Variables, Literal(v) \/ Convert(v) PROVE BegunStep
<1> DEFINE none == <<>>
<1>1. PICK op \in {"literal", "conversion"} : \E t \in Texts : Begin(op, v, none, t, 0, Len(t))
  BY DEF Literal, Convert
<1>2. PICK t \in Texts : Begin(op, v, none, t, 0, Len(t))
  BY <1>1
<1>3. t \in Text /\ Len(t) \in 0..MaxLength /\ 0 \in 0..MaxLength /\ op \in MadeByProgram
  BY SomeText, Sizes DEF MadeByProgram, DataFirst
<1>4. none \in Seq(Addresses) /\ Begun(op, v, none, t, 0, Len(t))
  BY EmptySeq DEF Begun
<1> HIDE DEF none
<1>5. (\A i \in DOMAIN none : none[i] # Nil) => none \in Seq(Addresses) /\ Begun(op, v, none, t, 0, Len(t))
  BY <1>4
<1> QED BY <1>2, <1>3, <1>5, BeginStep DEF BegunStep

LEMMA OneOperand ==
  ASSUME NEW s \in Addresses \cup {Nil}
  PROVE  (\A i \in DOMAIN <<s>> : <<s>>[i] # Nil) => s # Nil /\ <<s>> \in Seq(Addresses)
<1>1. DOMAIN <<s>> = 1..1 /\ <<s>>[1] = s
  OBVIOUS
<1>2. 1 \in 1..1
  OBVIOUS
<1>3. s # Nil => <<s>> \in Seq(Addresses)
  OBVIOUS
<1> QED BY <1>1, <1>2, <1>3

LEMMA TwoOperands ==
  ASSUME NEW s \in Addresses \cup {Nil}, NEW u \in Addresses \cup {Nil}
  PROVE  (\A i \in DOMAIN <<s, u>> : <<s, u>>[i] # Nil) => s # Nil /\ u # Nil /\ <<s, u>> \in Seq(Addresses)
<1>1. DOMAIN <<s, u>> = 1..2 /\ <<s, u>>[1] = s /\ <<s, u>>[2] = u
  OBVIOUS
<1>2. 1 \in 1..2 /\ 2 \in 1..2
  OBVIOUS
<1>3. s # Nil /\ u # Nil => <<s, u>> \in Seq(Addresses)
  OBVIOUS
<1> QED BY <1>1, <1>2, <1>3

LEMMA ConcatStep ==
  ASSUME RuntimeInv, NEW v \in Variables, NEW l \in Variables, NEW r \in Variables, Concat(v, l, r)
  PROVE  BegunStep
<1> DEFINE from == <<vars[l], vars[r]>>
<1>1. /\ vars[l] # Nil /\ vars[r] # Nil => Length(vars[l]) + Length(vars[r]) <= MaxLength
      /\ Begin("concat", v, from, <<>>, 0, 0)
  BY DEF Concat
<1>2. vars[l] \in Addresses \cup {Nil} /\ vars[r] \in Addresses \cup {Nil}
  BY DEF RuntimeInv, RuntimeTypeOK
<1>3. (\A i \in DOMAIN from : from[i] # Nil) => vars[l] # Nil /\ vars[r] # Nil /\ from \in Seq(Addresses)
  BY <1>2, TwoOperands
<1>4. vars[l] # Nil /\ vars[r] # Nil => Begun("concat", v, from, <<>>, 0, 0)
  BY <1>1 DEF Begun
<1>5. <<>> \in Text /\ 0 \in 0..MaxLength /\ "concat" \in MadeByProgram
  BY SomeText, Sizes DEF MadeByProgram, DataFirst
<1> HIDE DEF from
<1>6. (\A i \in DOMAIN from : from[i] # Nil) => from \in Seq(Addresses) /\ Begun("concat", v, from, <<>>, 0, 0)
  BY <1>3, <1>4
<1> QED BY <1>1, <1>5, <1>6, BeginStep DEF BegunStep

LEMMA ToCStep ==
  ASSUME RuntimeInv, NEW v \in Variables, ToC(v) PROVE BegunStep
<1> DEFINE from == <<vars[v]>>
<1>1. Begin("toC", v, from, <<>>, 0, 0)
  BY DEF ToC
<1>2. vars[v] \in Addresses \cup {Nil}
  BY DEF RuntimeInv, RuntimeTypeOK
<1>3. (\A i \in DOMAIN from : from[i] # Nil) => vars[v] # Nil /\ from \in Seq(Addresses)
  BY <1>2, OneOperand
<1>4. vars[v] # Nil => Begun("toC", v, from, <<>>, 0, 0)
  BY DEF Begun
<1>5. <<>> \in Text /\ 0 \in 0..MaxLength /\ "toC" \in MadeByProgram
  BY SomeText, Sizes DEF MadeByProgram, DataFirst
<1> HIDE DEF from
<1>6. (\A i \in DOMAIN from : from[i] # Nil) => from \in Seq(Addresses) /\ Begun("toC", v, from, <<>>, 0, 0)
  BY <1>3, <1>4
<1> QED BY <1>1, <1>5, <1>6, BeginStep DEF BegunStep

LEMMA FromCStep ==
  ASSUME RuntimeInv, NEW v \in Variables, FromC(v) \/ FromCSub(v) PROVE BegunStep
<1> DEFINE x == heap[cstring].text
           from == <<cstring>>
<1>1. cstring # Nil /\ cstring \in Addresses
  BY DEF FromC, FromCSub, RuntimeInv, RuntimeTypeOK
<1>2. Len(x) \in 0..MaxLength
  <2>1. heap \in [Addresses -> Block] /\ Len(x) <= MaxLength
    BY <1>1 DEF RuntimeInv, RuntimeTypeOK, CStringInv
  <2> QED BY <2>1, <1>1, BlockFields, Sizes
<1>3. PICK start \in 0..MaxLength : \E len \in 0..MaxLength :
        start + len <= Len(x) /\ Begin("fromC", v, from, <<>>, start, len)
  <2>1. CASE FromC(v)
    <3>1. Begin("fromC", v, from, <<>>, 0, Len(x))
      BY <2>1 DEF FromC
    <3> HIDE DEF x
    <3>2. 0 \in 0..MaxLength /\ 0 + Len(x) <= Len(x)
      BY <1>2, Sizes
    <3> QED BY <1>2, <3>1, <3>2
  <2>2. CASE FromCSub(v)
    <3>1. PICK i \in 0..Len(x) : \E j \in i..Len(x) : Begin("fromC", v, from, <<>>, i, j - i)
      BY <2>2 DEF FromCSub
    <3>2. PICK j \in i..Len(x) : Begin("fromC", v, from, <<>>, i, j - i)
      BY <3>1
    <3> HIDE DEF x
    <3> DEFINE k == Len(x)
    <3>0. k \in Nat /\ k <= MaxLength /\ MaxLength \in Nat /\ i \in 0..k /\ j \in i..k
      BY <1>2, Sizes
    <3> HIDE DEF k
    <3>3. i \in 0..MaxLength /\ j - i \in 0..MaxLength /\ i + (j - i) <= k
      BY <3>0
    <3> QED BY <3>2, <3>3 DEF k
  <2> QED BY <2>1, <2>2
<1>4. PICK len \in 0..MaxLength : start + len <= Len(x) /\ Begin("fromC", v, from, <<>>, start, len)
  BY <1>3
<1>5. from \in Seq(Addresses) /\ Begun("fromC", v, from, <<>>, start, len)
  <2>1. from \in Seq(Addresses)
    BY <1>1
  <2> QED BY <2>1, <1>1, <1>4 DEF Begun
<1>6. <<>> \in Text /\ "fromC" \in MadeByProgram
  BY SomeText DEF MadeByProgram, DataFirst
<1> HIDE DEF from, x
<1>7. (\A i \in DOMAIN from : from[i] # Nil) => from \in Seq(Addresses) /\ Begun("fromC", v, from, <<>>, start, len)
  BY <1>5
<1> QED BY <1>4, <1>6, <1>7, BeginStep DEF BegunStep

-----------------------------------------------------------------------------
(* The invariant holds at the start, and every step keeps it.              *)
LEMMA InitInv ==
  ASSUME RuntimeInit PROVE RuntimeInv
<1>1. /\ pc \in {"arguments", "initialise"} /\ heap = [a \in Addresses |-> Zeroed(0)]
      /\ vars = [v \in Variables |-> Nil] /\ args = Nil /\ cstring = Nil /\ answer = NoAnswer
      /\ call = IF pc = "arguments" THEN [NoCall EXCEPT !.op = "array"] ELSE NoCall
  BY DEF RuntimeInit
<1>2. Zeroed(0) \in Block /\ BlankOf(Zeroed(0), 0, 0)
  <2>1. 0 \in DOMAIN Capacity /\ 0 \in Nat
    BY Sizes
  <2> QED BY <2>1, NewBlocks
<1>3. Fits(Zeroed(0))
  <2>1. 0 <= Capacity[0]
    BY Sizes
  <2> QED BY <2>1, <1>2 DEF Fits, Extent, BlankOf
<1>4. RuntimeTypeOK
  <2>1. call \in Call
    BY <1>1, NoCallType
  <2>2. answer \in [truth : BOOLEAN, text : Text, number : Nat]
    BY <1>1, NewAnswers DEF Answers
  <2> QED BY <1>1, <1>2, <2>1, <2>2 DEF RuntimeTypeOK
<1>5. VarsInv /\ CStringInv /\ ArgsInv
  BY <1>1 DEF VarsInv, CStringInv, ArgsInv
<1>6. SizesInv
  BY <1>1, <1>3 DEF SizesInv, Fits
<1>7. PhaseInv
  BY <1>1 DEF PhaseInv, NothingHeld
<1>8. ExtractInv
  <2> SUFFICES ASSUME pc = "arguments" PROVE ExtractInv
    BY DEF ExtractInv
  <2>1. /\ call.op = "array" /\ call.from = <<>> /\ call.data = Nil /\ call.object = Nil
        /\ call.array = Nil /\ call.elements = Nil
    BY <1>1, NoCallType
  <2> QED BY <2>1 DEF ExtractInv, ArrayInv, ElementsInv, ArgumentInv
<1>9. CallInv
  BY <1>1 DEF CallInv
<1> QED BY <1>4, <1>5, <1>6, <1>7, <1>8, <1>9 DEF RuntimeInv

(* The steps that are not seen, and what the others show *)
Stuttered == Seen' = Seen /\ SeenC' = SeenC /\ UNCHANGED <<args, answer>>
Became(v, T) == Seen' = [Seen EXCEPT ![v] = T] /\ SeenC' = SeenC /\ UNCHANGED <<args, answer>>
Answered(a) == Seen' = Seen /\ SeenC' = SeenC /\ UNCHANGED args /\ answer' = a

ShownOf(v) ==
  \/ Became(v, {})
  \/ \E t \in Texts : Became(v, {t})
  \/ \E w \in Variables : Became(v, Seen[w])
  \/ args # Nil /\ \E i \in 1..Len(CommandLine) : Became(v, {CommandLine[i]})
  \/ \E l, r \in Variables : \E x \in Seen[l], y \in Seen[r] : Became(v, {x \o y})
  \/ \E t \in SeenC : \E i \in 0..Len(t) : \E j \in i..Len(t) : Became(v, {SubSeq(t, i + 1, j)})
  \/ Seen[v] # {} /\ SeenC' = Seen[v] /\ Seen' = Seen /\ UNCHANGED <<args, answer>>
  \/ \E x \in Seen[v] : Answered([NoAnswer EXCEPT !.text = x])
  \/ \E x \in Seen[v] : Answered([NoAnswer EXCEPT !.number = Len(x)])
  \/ \E w \in Variables, equal \in BOOLEAN : \E x \in Seen[v], y \in Seen[w] :
       Answered([NoAnswer EXCEPT !.truth = ((x = y) = equal)])
Shown ==
  \/ Stuttered
  \/ args' # Nil /\ Seen' = Seen /\ SeenC' = SeenC /\ UNCHANGED answer
  \/ \E v \in Variables : ShownOf(v)

LEMMA CopiedShown ==
  ASSUME RuntimeInv, pc = "body", call.op \in {"literal", "concat", "conversion", "fromC"},
         Became(call.to, {Copied})
  PROVE  Shown
<1>1. call.op \in MadeByProgram /\ call.op # "none"
  BY DEF MadeByProgram, DataFirst
<1>2. OperandsInv /\ call.to \in Variables
  BY <1>1 DEF RuntimeInv, CallInv
<1> DEFINE v == call.to
<1>3. CASE call.op \in {"literal", "conversion"}
  <2>1. Copied = call.text /\ call.text \in Texts
    BY <1>2, <1>3 DEF Copied, OperandsInv, Begun
  <2>2. \E t \in Texts : Became(v, {t})
    BY <2>1
  <2> QED BY <1>2, <2>2 DEF Shown, ShownOf
<1>4. CASE call.op = "concat"
  <2>1. PICK l \in Variables : \E r \in Variables :
          call.from = <<vars[l], vars[r]>> /\ vars[l] # Nil /\ vars[r] # Nil
    BY <1>2, <1>4 DEF OperandsInv, Begun
  <2>2. PICK r \in Variables : call.from = <<vars[l], vars[r]>> /\ vars[l] # Nil /\ vars[r] # Nil
    BY <2>1
  <2> DEFINE x == Data(vars[l])
             y == Data(vars[r])
  <2>3. x \in Seen[l] /\ y \in Seen[r]
    BY <2>2, HeldContents
  <2>4. Copied = x \o y
    <3>1. call.from[1] = vars[l] /\ call.from[2] = vars[r]
      BY <2>2
    <3> QED BY <3>1, <1>4 DEF Copied
  <2> HIDE DEF x, y
  <2>5. \E xx \in Seen[l], yy \in Seen[r] : Became(v, {xx \o yy})
    BY <2>3, <2>4
  <2> QED BY <1>2, <2>5 DEF Shown, ShownOf
<1>5. CASE call.op = "fromC"
  <2> DEFINE t == heap[cstring].text
             i == call.start
             j == call.start + call.len
  <2>1. call.from = <<cstring>> /\ cstring # Nil /\ j <= Len(t)
    BY <1>2, <1>5 DEF OperandsInv, Begun
  <2>2. Copied = SubSeq(t, i + 1, j)
    <3>1. call.from[1] = cstring
      BY <2>1
    <3> QED BY <3>1, <1>5 DEF Copied
  <2>3. t \in SeenC
    BY <2>1 DEF SeenC
  <2>4. i \in 0..Len(t) /\ j \in i..Len(t)
    <3>1. call.start \in 0..MaxLength /\ call.len \in 0..MaxLength
      BY CallTypes DEF RuntimeInv
    <3>2. Len(t) \in Nat
      <4>1. heap \in [Addresses -> Block] /\ cstring \in Addresses
        BY <2>1 DEF RuntimeInv, RuntimeTypeOK
      <4> QED BY <4>1, BlockFields
    <3> DEFINE k == Len(t)
    <3>3. k \in Nat /\ j <= k /\ MaxLength \in Nat
      BY <2>1, <3>2, Sizes
    <3> HIDE DEF k
    <3>4. i \in 0..k /\ j \in i..k
      BY <3>1, <3>3
    <3> QED BY <3>4 DEF k
  <2> HIDE DEF t, i, j
  <2>5. \E tt \in SeenC : \E ii \in 0..Len(tt) : \E jj \in ii..Len(tt) : Became(v, {SubSeq(tt, ii + 1, jj)})
    BY <2>2, <2>3, <2>4
  <2> QED BY <1>2, <2>5 DEF Shown, ShownOf
<1> QED BY <1>3, <1>4, <1>5

LEMMA AllocationStep ==
  ASSUME RuntimeInv, NEW a \in Unused,
         \/ MakeArray(a) \/ MakeElements(a) \/ MakeArgument(a) \/ FillArgument(a)
         \/ MakeData(a) \/ MakeObject(a) \/ MakeObjectFirst(a) \/ MakeDataLast(a)
  PROVE  RuntimeInv' /\ Shown
<1>1. ASSUME MakeArray(a) \/ MakeElements(a) \/ MakeArgument(a) \/ FillArgument(a)
      PROVE  RuntimeInv' /\ Shown
  <2>1. RuntimeInv'
    BY <1>1, MakeArrayStep, MakeElementsStep, MakeArgumentStep, FillArgumentStep
  <2>2. UNCHANGED <<vars, args, cstring, answer>> /\ pc = "arguments"
    BY <1>1 DEF MakeArray, MakeElements, MakeArgument, FillArgument
  <2>3. NothingHeld
    BY <2>2, Extracting
  <2>4. Seen' = Seen /\ SeenC' = SeenC
    BY <2>2, <2>3 DEF NothingHeld, Seen, SeenC, Contents
  <2> QED BY <2>1, <2>2, <2>4 DEF Shown, ShownOf, Stuttered
<1>2. ASSUME MakeData(a) PROVE RuntimeInv' /\ Shown
  <2>1. /\ RuntimeInv' /\ Seen' = Seen /\ UNCHANGED <<args, answer>>
        /\ \/ SeenC' = SeenC
           \/ call.to \in Variables /\ Seen[call.to] # {} /\ SeenC' = Seen[call.to]
    BY <1>2, MakeDataStep
  <2> QED BY <2>1 DEF Shown, ShownOf, Stuttered
<1>3. ASSUME MakeObject(a) PROVE RuntimeInv' /\ Shown
  <2>1. RuntimeInv' /\ Became(call.to, {Copied}) /\ pc = "body" /\ call.op \in {"literal", "concat"}
    BY <1>3, MakeObjectStep DEF Became, DataFirst
  <2> QED BY <2>1, CopiedShown
<1>4. ASSUME MakeObjectFirst(a) PROVE RuntimeInv' /\ Shown
  BY <1>4, MakeObjectFirstStep DEF Shown, ShownOf, Stuttered
<1>5. ASSUME MakeDataLast(a) PROVE RuntimeInv' /\ Shown
  <2>1. RuntimeInv' /\ Became(call.to, {Copied}) /\ pc = "body" /\ call.op \in {"conversion", "fromC"}
    BY <1>5, MakeDataLastStep DEF Became
  <2> QED BY <2>1, CopiedShown
<1> QED BY <1>1, <1>2, <1>3, <1>4, <1>5

LEMMA ProgramStep ==
  ASSUME RuntimeInv, NEW v \in Variables,
         \/ Literal(v) \/ Convert(v) \/ ToC(v) \/ FromC(v) \/ FromCSub(v)
         \/ AssignNull(v) \/ Output(v) \/ ReadLength(v)
         \/ \E i \in 1..Len(CommandLine) : TakeArgument(v, i)
         \/ \E w \in Variables : Share(v, w) \/ AssertEquals(v, w)
         \/ \E w \in Variables, equal \in BOOLEAN : Compare(v, w, equal)
         \/ \E l, r \in Variables : Concat(v, l, r)
  PROVE  RuntimeInv' /\ Shown
<1>1. ASSUME BegunStep PROVE RuntimeInv' /\ Shown
  BY <1>1 DEF BegunStep, Shown, Stuttered
<1>2. ASSUME Literal(v) \/ Convert(v) \/ ToC(v) \/ FromC(v) \/ FromCSub(v) PROVE RuntimeInv' /\ Shown
  BY <1>1, <1>2, TextCallStep, ToCStep, FromCStep
<1>3. ASSUME \E l, r \in Variables : Concat(v, l, r) PROVE RuntimeInv' /\ Shown
  BY <1>1, <1>3, ConcatStep
<1>4. ASSUME AssignNull(v) PROVE RuntimeInv' /\ Shown
  BY <1>4, AssignNullStep DEF Shown, ShownOf, Became
<1>5. ASSUME NEW i \in 1..Len(CommandLine), TakeArgument(v, i) PROVE RuntimeInv' /\ Shown
  <2>1. RuntimeInv' /\ args # Nil /\ Became(v, {CommandLine[i]})
    BY <1>5, TakeArgumentStep DEF Became
  <2> QED BY <2>1 DEF Shown, ShownOf
<1>6. ASSUME NEW w \in Variables, Share(v, w) PROVE RuntimeInv' /\ Shown
  <2>1. RuntimeInv' /\ Became(v, Seen[w])
    BY <1>6, ShareStep DEF Became
  <2> QED BY <2>1 DEF Shown, ShownOf
<1>7. ASSUME NEW w \in Variables, AssertEquals(v, w) PROVE RuntimeInv' /\ Shown
  BY <1>7, AssertEqualsStep DEF Shown, ShownOf, Stuttered
<1>8. ASSUME Output(v) PROVE RuntimeInv' /\ Shown
  <2>1. RuntimeInv' /\ (Stuttered \/ \E x \in Seen[v] : Answered([NoAnswer EXCEPT !.text = x]))
    BY <1>8, OutputStep DEF Stuttered, Answered
  <2> QED BY <2>1 DEF Shown, ShownOf
<1>9. ASSUME ReadLength(v) PROVE RuntimeInv' /\ Shown
  <2>1. RuntimeInv' /\ (Stuttered \/ \E x \in Seen[v] : Answered([NoAnswer EXCEPT !.number = Len(x)]))
    BY <1>9, ReadLengthStep DEF Stuttered, Answered
  <2> QED BY <2>1 DEF Shown, ShownOf
<1>10. ASSUME NEW w \in Variables, NEW equal \in BOOLEAN, Compare(v, w, equal) PROVE RuntimeInv' /\ Shown
  <2>1. /\ RuntimeInv'
        /\ Stuttered \/ \E x \in Seen[v], y \in Seen[w] : Answered([NoAnswer EXCEPT !.truth = ((x = y) = equal)])
    BY <1>10, CompareStep DEF Stuttered, Answered
  <2>2. Stuttered => Shown
    BY DEF Shown
  <2>3. ASSUME NEW x \in Seen[v], NEW y \in Seen[w], Answered([NoAnswer EXCEPT !.truth = ((x = y) = equal)])
        PROVE  ShownOf(v)
    BY <2>3 DEF ShownOf
  <2>4. ShownOf(v) => Shown
    BY DEF Shown
  <2> QED BY <2>1, <2>2, <2>3, <2>4
<1>11. (\E i \in 1..Len(CommandLine) : TakeArgument(v, i)) => RuntimeInv' /\ Shown
  BY <1>5
<1>12. (\E w \in Variables : Share(v, w) \/ AssertEquals(v, w)) => RuntimeInv' /\ Shown
  BY <1>6, <1>7
<1>13. (\E w \in Variables, equal \in BOOLEAN : Compare(v, w, equal)) => RuntimeInv' /\ Shown
  BY <1>10
<1> DEFINE Given == \E i \in 1..Len(CommandLine) : TakeArgument(v, i)
           Joined == \E w \in Variables : Share(v, w) \/ AssertEquals(v, w)
           Compared == \E w \in Variables, equal \in BOOLEAN : Compare(v, w, equal)
           Concatenated == \E l, r \in Variables : Concat(v, l, r)
           Called == Literal(v) \/ Convert(v) \/ ToC(v) \/ FromC(v) \/ FromCSub(v)
<1>14. \/ Called \/ AssignNull(v) \/ Output(v) \/ ReadLength(v)
       \/ Given \/ Joined \/ Compared \/ Concatenated
  OBVIOUS
<1>15. Called => RuntimeInv' /\ Shown
  BY <1>2
<1>16. Concatenated => RuntimeInv' /\ Shown
  BY <1>3
<1>17. /\ Given => RuntimeInv' /\ Shown
       /\ Joined => RuntimeInv' /\ Shown
       /\ Compared => RuntimeInv' /\ Shown
  BY <1>11, <1>12, <1>13
<1> HIDE DEF Given, Joined, Compared, Concatenated, Called
<1> QED BY <1>4, <1>8, <1>9, <1>14, <1>15, <1>16, <1>17

LEMMA NextInv ==
  ASSUME RuntimeInv, [RuntimeNext]_rvars PROVE RuntimeInv' /\ Shown
<1>1. ASSUME GiveArguments PROVE RuntimeInv' /\ Shown
  <2>1. RuntimeInv' /\ args' # Nil /\ UNCHANGED <<vars, cstring, answer>> /\ NothingHeld
    BY <1>1, GiveArgumentsStep
  <2>2. Seen' = Seen /\ SeenC' = SeenC
    BY <2>1 DEF NothingHeld, Seen, SeenC, Contents
  <2> QED BY <2>1, <2>2 DEF Shown
<1>2. ASSUME Initialise PROVE RuntimeInv' /\ Shown
  <2>1. RuntimeInv' /\ Seen' = Seen /\ SeenC' = SeenC
    BY <1>2, InitialiseStep
  <2>2. UNCHANGED <<args, answer>>
    BY <1>2 DEF Initialise
  <2> QED BY <2>1, <2>2 DEF Shown, Stuttered
<1>3. ASSUME UNCHANGED rvars PROVE RuntimeInv' /\ Shown
  <2>1. UNCHANGED <<pc, heap, vars, args, cstring, call, answer>>
    BY <1>3 DEF rvars
  <2>2. Seen' = Seen /\ SeenC' = SeenC
    BY <2>1 DEF Seen, SeenC, Contents, TextIn
  <2>3. RuntimeTypeOK' /\ SizesInv'
    BY <2>1 DEF RuntimeInv, RuntimeTypeOK, SizesInv, Extent
  <2>4. VarsInv' /\ CStringInv' /\ ArgsInv'
    <3>1. Unheld(heap')
      BY <2>1 DEF Unheld
    <3> QED BY <2>1, <3>1, HeldKept
  <2>5. PhaseInv'
    BY <2>1 DEF RuntimeInv, PhaseInv, NothingHeld
  <2>6. ExtractInv'
    BY <2>1 DEF RuntimeInv, ExtractInv, ArrayInv, ElementsInv, ArgumentInv, Argument, Extracted,
                ItemsIn, StringIn, TextIn, ApartFromString, BlankOf
  <2>7. CallInv'
    BY <2>1 DEF RuntimeInv, CallInv, OperandsInv, Begun, Copied, ResultLength, Data, Length,
                Apart, ApartFromArguments, ApartFromString, BlankOf
  <2> QED BY <2>1, <2>2, <2>3, <2>4, <2>5, <2>6, <2>7 DEF RuntimeInv, Shown, Stuttered
<1> QED BY <1>1, <1>2, <1>3, AllocationStep, ProgramStep DEF RuntimeNext

LEMMA InvWritesFit ==
  ASSUME RuntimeInv PROVE WritesFitTheirBlocks
<1>1. \A v \in Variables : vars[v] # Nil => Len(Data(vars[v])) <= Length(vars[v])
  BY HeldStrings
<1> QED BY <1>1 DEF RuntimeInv, SizesInv, WritesFitTheirBlocks

(* The state of the runtime always has the types RuntimeTypeOK gives it.   *)
THEOREM RuntimeTypes == RuntimeSpec => []RuntimeTypeOK
<1>1. RuntimeInit => RuntimeInv
  BY InitInv
<1>2. RuntimeInv /\ [RuntimeNext]_rvars => RuntimeInv'
  BY NextInv
<1>3. RuntimeInv => RuntimeTypeOK
  BY DEF RuntimeInv
<1> QED BY <1>1, <1>2, <1>3, PTL DEF RuntimeSpec

(* Whatever the collector gives back and the program makes, what the       *)
(* runtime writes to a block fits in it.                                   *)
THEOREM RuntimeWritesFit == RuntimeSpec => []WritesFitTheirBlocks
<1>1. RuntimeInit => RuntimeInv
  BY InitInv
<1>2. RuntimeInv /\ [RuntimeNext]_rvars => RuntimeInv'
  BY NextInv
<1>3. RuntimeInv => WritesFitTheirBlocks
  BY InvWritesFit
<1> QED BY <1>1, <1>2, <1>3, PTL DEF RuntimeSpec

-----------------------------------------------------------------------------
(* Strings are values                                                      *)
aValue == [v \in Variables |-> TextOf(vars[v])]
aArguments == IF args = Nil THEN <<>> ELSE [i \in 1..Length(args) |-> Held(heap[heap[args].at].items[i])]

(* The arguments in the heap h are the command line. *)
LEMMA HeldArguments ==
  ASSUME NEW h \in [Addresses -> Block], NEW s, ArgumentsIn(h, s)
  PROVE  [i \in 1..h[s].len |-> SubSeq(h[h[h[h[s].at].items[i]].at].text, 1, h[h[h[s].at].items[i]].len)] = CommandLine
<1> DEFINE items == h[h[s].at].items
           n == Len(CommandLine)
<1>1. h[s].len = n /\ Len(items) = n /\ ItemsIn(h, items)
  BY DEF ArgumentsIn
<1> HIDE DEF items
<1>2. \A i \in 1..n : SubSeq(h[h[items[i]].at].text, 1, h[items[i]].len) = CommandLine[i]
  BY <1>1, HeldText DEF ItemsIn
<1>3. CommandLine = [i \in 1..n |-> CommandLine[i]]
  BY Sizes, LenProperties
<1>4. [i \in 1..n |-> SubSeq(h[h[items[i]].at].text, 1, h[items[i]].len)] = [i \in 1..n |-> CommandLine[i]]
  BY <1>2
<1> QED BY <1>1, <1>3, <1>4 DEF items

LEMMA AbstractState ==
  ASSUME RuntimeInv
  PROVE  aValue = Seen /\ aArguments = IF args = Nil THEN <<>> ELSE CommandLine
<1>1. heap \in [Addresses -> Block]
  BY DEF RuntimeInv, RuntimeTypeOK
<1>2. \A v \in Variables : vars[v] # Nil =>
        SubSeq(heap[heap[vars[v]].at].text, 1, heap[vars[v]].len) = TextIn(heap, vars[v])
  BY <1>1, HeldText DEF RuntimeInv, VarsInv
<1>3. aValue = Seen
  BY <1>2 DEF aValue, Seen, TextOf, Contents, Data, Length
<1>4. args # Nil => aArguments = CommandLine
  BY <1>1, HeldArguments DEF aArguments, Held, Data, Length, RuntimeInv, ArgsInv
<1> QED BY <1>3, <1>4 DEF aArguments

LEMMA AbstractNextState ==
  ASSUME RuntimeInv'
  PROVE  aValue' = Seen' /\ aArguments' = IF args' = Nil THEN <<>> ELSE CommandLine
<1>1. heap' \in [Addresses -> Block]
  BY DEF RuntimeInv, RuntimeTypeOK
<1> DEFINE h == heap'
           x == vars'
           s == args'
<1>2. \A v \in Variables : x[v] # Nil => SubSeq(h[h[x[v]].at].text, 1, h[x[v]].len) = TextIn(h, x[v])
  <2>1. \A v \in Variables : x[v] # Nil => StringIn(h, x[v])
    BY DEF RuntimeInv, VarsInv, StringIn
  <2> HIDE DEF h, x
  <2>2. h \in [Addresses -> Block]
    BY <1>1 DEF h
  <2> QED BY <2>1, <2>2, HeldText
<1>3. aValue' = Seen'
  BY <1>2 DEF aValue, Seen, TextOf, Contents, Data, Length, TextIn
<1>4. s # Nil => [i \in 1..h[s].len |-> SubSeq(h[h[h[h[s].at].items[i]].at].text, 1, h[h[h[s].at].items[i]].len)] = CommandLine
  <2>1. s # Nil => ArgumentsIn(h, s)
    BY DEF RuntimeInv, ArgsInv, ArgumentsIn, ItemsIn, StringIn, TextIn
  <2> HIDE DEF h, s
  <2>2. h \in [Addresses -> Block]
    BY <1>1 DEF h
  <2> QED BY <2>1, <2>2, HeldArguments
<1>5. aArguments' = IF args' = Nil THEN <<>> ELSE CommandLine
  BY <1>4 DEF aArguments, Held, Data, Length
<1> QED BY <1>3, <1>5

(* One lemma for each kind of step of the abstract specification *)
LEMMA AbstractBecome ==
  ASSUME RuntimeInv, RuntimeInv', NEW v \in Variables, NEW T, Became(v, T)
  PROVE  Values!Become(v, T)
<1>1. aValue' = [aValue EXCEPT ![v] = T] /\ SeenC' = SeenC /\ aArguments' = aArguments /\ answer' = answer
  BY AbstractState, AbstractNextState DEF Became
<1> QED BY <1>1 DEF Values!Become, aValue, SeenC, aArguments

LEMMA AbstractAnswer ==
  ASSUME RuntimeInv, RuntimeInv', NEW a, Answered(a)
  PROVE  Values!Answer(a)
<1>1. aValue' = aValue /\ SeenC' = SeenC /\ aArguments' = aArguments /\ answer' = a
  BY AbstractState, AbstractNextState DEF Answered
<1> QED BY <1>1 DEF Values!Answer, aValue, SeenC, aArguments

LEMMA AbstractStutter ==
  ASSUME RuntimeInv, RuntimeInv', Stuttered
  PROVE  UNCHANGED Values!svars
<1>1. aValue' = aValue /\ SeenC' = SeenC /\ aArguments' = aArguments /\ answer' = answer
  BY AbstractState, AbstractNextState DEF Stuttered
<1> QED BY <1>1 DEF Values!svars, aValue, SeenC, aArguments

LEMMA AbstractStep ==
  ASSUME RuntimeInv, RuntimeInv', Shown
  PROVE  [Values!StringsNext]_(Values!svars)
<1> DEFINE N == Values!StringsNext
<1>1. aValue = Seen /\ \A v \in Variables : aValue[v] = Seen[v]
  BY AbstractState
<1>2. CASE Stuttered
  BY <1>2, AbstractStutter
<1>3. CASE args' # Nil /\ Seen' = Seen /\ SeenC' = SeenC /\ UNCHANGED answer
  <2>1. aValue' = aValue /\ SeenC' = SeenC /\ aArguments' = CommandLine /\ answer' = answer
    BY <1>3, AbstractState, AbstractNextState
  <2>2. Values!GetArguments
    BY <2>1 DEF Values!GetArguments, aValue, SeenC, aArguments
  <2> QED BY <2>2 DEF Values!StringsNext
<1>4. ASSUME NEW v \in Variables, Became(v, {}) PROVE N
  <2>1. Values!Forget(v)
    BY <1>4, AbstractBecome DEF Values!Forget
  <2> QED BY <2>1 DEF Values!StringsNext
<1>5. ASSUME NEW v \in Variables, NEW t \in Texts, Became(v, {t}) PROVE N
  <2>1. Values!Make(v)
    BY <1>5, AbstractBecome DEF Values!Make
  <2> QED BY <2>1 DEF Values!StringsNext
<1>6. ASSUME NEW v \in Variables, NEW w \in Variables, Became(v, Seen[w]) PROVE N
  <2>1. Values!Become(v, aValue[w])
    BY <1>1, <1>6, AbstractBecome
  <2>2. Values!Share(v, w)
    BY <2>1 DEF Values!Share, aValue
  <2> QED BY <2>2 DEF Values!StringsNext
<1>7. ASSUME NEW v \in Variables, args # Nil, NEW i \in 1..Len(CommandLine), Became(v, {CommandLine[i]}) PROVE N
  <2>1. Values!Become(v, {CommandLine[i]}) /\ aArguments = CommandLine
    BY <1>7, AbstractBecome, AbstractState
  <2>2. i \in DOMAIN aArguments /\ aArguments[i] = CommandLine[i]
    BY <2>1, Sizes, LenProperties
  <2>3. Values!TakeArgument(v, i)
    BY <2>1, <2>2 DEF Values!TakeArgument, aArguments
  <2> QED BY <2>3 DEF Values!StringsNext
<1>8. ASSUME NEW v \in Variables, NEW l \in Variables, NEW r \in Variables,
             NEW x \in Seen[l], NEW y \in Seen[r], Became(v, {x \o y})
      PROVE  N
  <2>1. Values!Become(v, {x \o y}) /\ x \in aValue[l] /\ y \in aValue[r]
    BY <1>1, <1>8, AbstractBecome
  <2>2. Values!Join(v, l, r)
    BY <2>1 DEF Values!Join, aValue
  <2> QED BY <2>2 DEF Values!StringsNext
<1>9. ASSUME NEW v \in Variables, NEW t \in SeenC, NEW i \in 0..Len(t), NEW j \in i..Len(t),
             Became(v, {SubSeq(t, i + 1, j)})
      PROVE  N
  <2>1. Values!Become(v, {SubSeq(t, i + 1, j)})
    BY <1>9, AbstractBecome
  <2>2. Values!Part(v)
    BY <2>1 DEF Values!Part, SeenC
  <2> QED BY <2>2 DEF Values!StringsNext
<1>10. ASSUME NEW v \in Variables, Seen[v] # {}, SeenC' = Seen[v], Seen' = Seen, UNCHANGED <<args, answer>> PROVE N
  <2>1. aValue' = aValue /\ aArguments' = aArguments /\ answer' = answer
    BY <1>10, AbstractState, AbstractNextState
  <2>2. aValue[v] # {} /\ SeenC' = aValue[v]
    BY <1>1, <1>10
  <2>3. Values!ToC(v)
    BY <2>1, <2>2 DEF Values!ToC, aValue, SeenC, aArguments
  <2> QED BY <2>3 DEF Values!StringsNext
<1>11. ASSUME NEW v \in Variables, NEW x \in Seen[v], Answered([NoAnswer EXCEPT !.text = x]) PROVE N
  <2>1. Values!Answer([NoAnswer EXCEPT !.text = x]) /\ x \in aValue[v]
    BY <1>1, <1>11, AbstractAnswer
  <2>2. Values!Show(v)
    BY <2>1 DEF Values!Show, aValue, Values!NoAnswer, NoAnswer
  <2> QED BY <2>2 DEF Values!StringsNext
<1>12. ASSUME NEW v \in Variables, NEW x \in Seen[v], Answered([NoAnswer EXCEPT !.number = Len(x)]) PROVE N
  <2>1. Values!Answer([NoAnswer EXCEPT !.number = Len(x)]) /\ x \in aValue[v]
    BY <1>1, <1>12, AbstractAnswer
  <2>2. Values!Length(v)
    BY <2>1 DEF Values!Length, aValue, Values!NoAnswer, NoAnswer
  <2> QED BY <2>2 DEF Values!StringsNext
<1>13. ASSUME NEW v \in Variables, NEW w \in Variables, NEW equal \in BOOLEAN, NEW x \in Seen[v], NEW y \in Seen[w],
              Answered([NoAnswer EXCEPT !.truth = ((x = y) = equal)])
       PROVE  N
  <2>1. /\ Values!Answer([NoAnswer EXCEPT !.truth = ((x = y) = equal)])
        /\ x \in aValue[v] /\ y \in aValue[w]
    BY <1>1, <1>13, AbstractAnswer
  <2>2. Values!Same(v, w, equal)
    BY <2>1 DEF Values!Same, aValue, Values!NoAnswer, NoAnswer
  <2> QED BY <2>2 DEF Values!StringsNext
<1> HIDE DEF N
<1>14. ASSUME NEW v \in Variables, ShownOf(v) PROVE N
  <2>1. (\E t \in Texts : Became(v, {t})) => N
    BY <1>5
  <2>2. (\E w \in Variables : Became(v, Seen[w])) => N
    BY <1>6
  <2>3. (args # Nil /\ \E i \in 1..Len(CommandLine) : Became(v, {CommandLine[i]})) => N
    BY <1>7
  <2>4. (\E l, r \in Variables : \E x \in Seen[l], y \in Seen[r] : Became(v, {x \o y})) => N
    BY <1>8
  <2>5. (\E t \in SeenC : \E i \in 0..Len(t) : \E j \in i..Len(t) : Became(v, {SubSeq(t, i + 1, j)})) => N
    BY <1>9
  <2>6. (\E x \in Seen[v] : Answered([NoAnswer EXCEPT !.text = x])) => N
    BY <1>11
  <2>7. (\E x \in Seen[v] : Answered([NoAnswer EXCEPT !.number = Len(x)])) => N
    BY <1>12
  <2>8. (\E w \in Variables, equal \in BOOLEAN : \E x \in Seen[v], y \in Seen[w] :
           Answered([NoAnswer EXCEPT !.truth = ((x = y) = equal)])) => N
    BY <1>13
  <2> QED BY <1>4, <1>10, <1>14, <2>1, <2>2, <2>3, <2>4, <2>5, <2>6, <2>7, <2>8 DEF ShownOf
<1>15. N \/ UNCHANGED Values!svars
  BY <1>2, <1>3, <1>14 DEF Shown, N
<1> QED BY <1>15 DEF N

LEMMA AbstractInit ==
  ASSUME RuntimeInit PROVE Values!StringsInit
<1>1. vars = [v \in Variables |-> Nil] /\ args = Nil /\ cstring = Nil /\ answer = NoAnswer
  BY DEF RuntimeInit
<1>2. [v \in Variables |-> TextOf(vars[v])] = [v \in Variables |-> {}]
  BY <1>1 DEF TextOf
<1> QED BY <1>1, <1>2 DEF Values!StringsInit, Values!NoAnswer, NoAnswer

(* Strings are values: the runtime implements the specification in which a *)
(* variable holds a text and an operation changes one variable only,       *)
(* although its strings are shared, made in two steps, delimited by a      *)
(* length and by a terminator, and given by a collector.                   *)
THEOREM RuntimeStringsAreValues == RuntimeSpec => StringsAreValues
<1>1. RuntimeInit => RuntimeInv /\ Values!StringsInit
  BY InitInv, AbstractInit
<1>2. RuntimeInv /\ [RuntimeNext]_rvars => RuntimeInv'
  BY NextInv
<1>3. RuntimeInv /\ RuntimeInv' /\ [RuntimeNext]_rvars => [Values!StringsNext]_(Values!svars)
  BY NextInv, AbstractStep
<1> QED BY <1>1, <1>2, <1>3, PTL DEF RuntimeSpec, StringsAreValues, Values!StringsSpec
=============================================================================

------------------------------- MODULE Runtime -------------------------------
(***************************************************************************)
(* The runtime library under a running program: strings in memory that a   *)
(* collector gives out and takes back, and how main begins.                *)
(*                                                                         *)
(* A string is a block for {data, len} that points to a block of           *)
(* characters.  The collector gives blocks filled with zeros, so that the  *)
(* characters written to one are followed by a terminator as long as they  *)
(* do not fill it: that is how "text" below stands for a C string.  Each   *)
(* function makes its two blocks in two steps, and the collector may give  *)
(* again, at either, any block nothing leads to.                           *)
(***************************************************************************)
EXTENDS Naturals, Sequences

CONSTANTS
  Variables,    (* the variables of type string of the program             *)
  Texts,        (* literals, and what numbers and booleans convert to      *)
  CommandLine,  (* the arguments of the program                            *)
  Addresses, Nil,
  Pointer,      (* size of a pointer: a string_t or an array_t has two  *)
  Capacity,     (* bytes of the block given for each size asked for        *)
  MaxLength     (* bound: characters of a string                           *)

Characters == UNION {{t[i] : i \in DOMAIN t} : t \in Texts \cup {CommandLine[i] : i \in DOMAIN CommandLine}}
Text == Seq(Characters)

(* The collector always adds a byte and rounds up to two pointers.         *)
ASSUME RuntimeAssumption ==
  /\ Pointer \in Nat \ {0} /\ MaxLength \in Nat
  /\ \A t \in Texts : t \in Text /\ Len(t) <= MaxLength
  /\ CommandLine \in Seq(Text)
  /\ \A i \in 1..Len(CommandLine) : Len(CommandLine[i]) <= MaxLength
  /\ Nil \notin Addresses
  /\ \A n \in DOMAIN Capacity : n \in Nat /\ Capacity[n] \in Nat /\ n < Capacity[n]
  /\ 0..(MaxLength + 1) \cup {Pointer, 2 * Pointer, Pointer * Len(CommandLine)} \subseteq DOMAIN Capacity
  /\ 2 * Pointer <= Capacity[Pointer]

VARIABLES
  pc,           (* where main is: "arguments", "initialise", "body" or "stopped" *)
  heap,         (* address -> what is in the block                         *)
  vars,         (* variable -> its string, or Nil for null                 *)
  args,         (* the array args, or Nil                                  *)
  cstring,      (* a C string the program holds, or Nil                    *)
  call,         (* the function of the runtime in progress                 *)
  answer        (* what the last comparison, print or .len gave            *)

rvars == <<pc, heap, vars, args, cstring, call, answer>>

Block == [size : DOMAIN Capacity, text : Text, len : Nat, at : Addresses \cup {Nil}, items : Seq(Addresses)]
Zeroed(n) == [size |-> n, text |-> <<>>, len |-> 0, at |-> Nil, items |-> <<>>]
StringSize == 2 * Pointer
ArraySize == 2 * Pointer

(* "from" are the operands, "text" what is copied when it is not from a    *)
(* block, from "start" on and "len" long; then the blocks made so far.     *)
Operations == {"literal", "concat", "conversion", "fromC", "toC", "array"}
DataFirst == {"literal", "concat"}
NoCall == [op |-> "none", to |-> Nil, from |-> <<>>, text |-> <<>>, start |-> 0, len |-> 0,
           object |-> Nil, data |-> Nil, array |-> Nil, elements |-> Nil]
NoAnswer == [truth |-> FALSE, text |-> <<>>, number |-> 0]

(* What the collector finds from the variables and from the C stack        *)
Roots == {vars[v] : v \in Variables} \cup {args, cstring}
Registers == {call.from[i] : i \in DOMAIN call.from} \cup {call.object, call.data, call.array, call.elements}
Follow(S) == S \cup {heap[a].at : a \in S \cap Addresses}
               \cup UNION {{heap[a].items[i] : i \in DOMAIN heap[a].items} : a \in S \cap Addresses}
Reached(S) == Follow(Follow(Follow(S)))
Unused == Addresses \ Reached(Roots \cup Registers)

Data(s) == heap[heap[s].at].text
Length(s) == heap[s].len

RuntimeInit ==
  /\ pc \in {"arguments", "initialise"}
  /\ heap = [a \in Addresses |-> Zeroed(0)]
  /\ vars = [v \in Variables |-> Nil]
  /\ args = Nil /\ cstring = Nil
  /\ call = IF pc = "arguments" THEN [NoCall EXCEPT !.op = "array"] ELSE NoCall
  /\ answer = NoAnswer

-----------------------------------------------------------------------------
(* The arguments: extract_args in a compiled program, Interpreter::run in  *)
(* an interpreted one, each before the memory manager is initialised.  The *)
(* block of each string is asked for with the size of a pointer.           *)
MakeArray(a) ==
  /\ pc = "arguments" /\ call.array = Nil
  /\ heap' = [heap EXCEPT ![a] = [Zeroed(ArraySize) EXCEPT !.len = Len(CommandLine)]]
  /\ call' = [call EXCEPT !.array = a]
  /\ UNCHANGED <<pc, vars, args, cstring, answer>>

MakeElements(a) ==
  /\ pc = "arguments" /\ call.array # Nil /\ call.elements = Nil
  /\ heap' = [heap EXCEPT ![a] = Zeroed(Pointer * Len(CommandLine))]
  /\ call' = [call EXCEPT !.elements = a]
  /\ UNCHANGED <<pc, vars, args, cstring, answer>>

Extracted == Len(heap[call.elements].items)
Argument == CommandLine[Extracted + 1]

MakeArgument(a) ==
  /\ pc = "arguments" /\ call.elements # Nil /\ call.object = Nil
  /\ Extracted < Len(CommandLine)
  /\ heap' = [heap EXCEPT ![a] = [Zeroed(Pointer) EXCEPT !.len = Len(Argument)]]
  /\ call' = [call EXCEPT !.object = a]
  /\ UNCHANGED <<pc, vars, args, cstring, answer>>

FillArgument(a) ==
  /\ pc = "arguments" /\ call.object # Nil
  /\ heap' = [heap EXCEPT ![a] = [Zeroed(Length(call.object) + 1) EXCEPT !.text = Argument],
                          ![call.object].at = a,
                          ![call.elements].items = Append(@, call.object)]
  /\ call' = [call EXCEPT !.object = Nil]
  /\ UNCHANGED <<pc, vars, args, cstring, answer>>

GiveArguments ==
  /\ pc = "arguments" /\ call.elements # Nil /\ call.object = Nil
  /\ Extracted = Len(CommandLine)
  /\ heap' = [heap EXCEPT ![call.array].at = call.elements]
  /\ args' = call.array
  /\ call' = NoCall /\ pc' = "initialise"
  /\ UNCHANGED <<vars, cstring, answer>>

(* initMemoryManager: one call, in main, before its statements.            *)
Initialise == pc = "initialise" /\ pc' = "body" /\ UNCHANGED <<heap, vars, args, cstring, call, answer>>

-----------------------------------------------------------------------------
(* Strings the program makes: the first block, then the second one         *)
Idle == pc = "body" /\ call = NoCall

(* A null operand is read all the same: the program ends.                  *)
Begin(op, v, from, text, start, len) ==
  /\ Idle
  /\ IF \E i \in DOMAIN from : from[i] = Nil
     THEN pc' = "stopped" /\ UNCHANGED call
     ELSE /\ call' = [NoCall EXCEPT !.op = op, !.to = v, !.from = from, !.text = text, !.start = start, !.len = len]
          /\ UNCHANGED pc
  /\ UNCHANGED <<heap, vars, args, cstring, answer>>

Literal(v) == \E t \in Texts : Begin("literal", v, <<>>, t, 0, Len(t))
Convert(v) == \E t \in Texts : Begin("conversion", v, <<>>, t, 0, Len(t))
Concat(v, l, r) ==
  /\ vars[l] # Nil /\ vars[r] # Nil => Length(vars[l]) + Length(vars[r]) <= MaxLength
  /\ Begin("concat", v, <<vars[l], vars[r]>>, <<>>, 0, 0)
ToC(v) == Begin("toC", v, <<vars[v]>>, <<>>, 0, 0)
FromC(v) == cstring # Nil /\ Begin("fromC", v, <<cstring>>, <<>>, 0, Len(heap[cstring].text))
FromCBackwards(v) ==    \* mutant
  /\ cstring # Nil
  /\ \E i, j \in 0..Len(heap[cstring].text) : Begin("fromC", v, <<cstring>>, <<>>, i, j - i)
FromCSub(v) ==
  /\ cstring # Nil
  /\ \E i \in 0..Len(heap[cstring].text) : \E j \in i..Len(heap[cstring].text) :
       Begin("fromC", v, <<cstring>>, <<>>, i, j - i)

(* The size asked for, and the characters copied before a terminator       *)
LeftOnly == CASE call.op = "concat" -> Length(call.from[1])    \* mutant
              [] call.op = "toC" -> Length(call.from[1]) + 1
              [] OTHER -> call.len
DataSize == CASE call.op = "concat" -> Length(call.from[1]) + Length(call.from[2])
              [] call.op = "toC" -> Length(call.from[1]) + 1
              [] OTHER -> call.len
Copied == CASE call.op = "concat" -> Data(call.from[1]) \o Data(call.from[2])
            [] call.op = "toC" -> Data(call.from[1])
            [] call.op = "fromC" -> SubSeq(heap[call.from[1]].text, call.start + 1, call.start + call.len)
            [] OTHER -> call.text

Done(v, s) == vars' = [vars EXCEPT ![v] = s] /\ call' = NoCall

MakeData(a) ==
  /\ pc = "body" /\ call.op \in DataFirst \cup {"toC"} /\ call.data = Nil
  /\ heap' = [heap EXCEPT ![a] = [Zeroed(DataSize) EXCEPT !.text = Copied]]
  /\ IF call.op = "toC" THEN cstring' = a /\ call' = NoCall
                        ELSE call' = [call EXCEPT !.data = a] /\ UNCHANGED cstring
  /\ UNCHANGED <<pc, vars, args, answer>>

LengthOfLeft == IF call.op = "literal" THEN call.len ELSE Length(call.from[1])    \* mutant
ResultLength == IF call.op = "literal" THEN call.len ELSE Len(heap[call.data].text)

MakeObject(a) ==
  /\ pc = "body" /\ call.data # Nil
  /\ heap' = [heap EXCEPT ![a] = [Zeroed(StringSize) EXCEPT !.len = ResultLength, !.at = call.data]]
  /\ Done(call.to, a)
  /\ UNCHANGED <<pc, args, cstring, answer>>

MakeObjectFirst(a) ==
  /\ pc = "body" /\ call.op \in {"conversion", "fromC"} /\ call.object = Nil
  /\ heap' = [heap EXCEPT ![a] = [Zeroed(StringSize) EXCEPT !.len = call.len]]
  /\ call' = [call EXCEPT !.object = a]
  /\ UNCHANGED <<pc, vars, args, cstring, answer>>

MakeDataLast(a) ==
  /\ pc = "body" /\ call.object # Nil
  /\ heap' = [heap EXCEPT ![a] = [Zeroed(DataSize) EXCEPT !.text = Copied], ![call.object].at = a]
  /\ Done(call.to, call.object)
  /\ UNCHANGED <<pc, args, cstring, answer>>

-----------------------------------------------------------------------------
(* What the program does with them: strings are shared, never copied       *)
Assign(v, s) == Idle /\ vars' = [vars EXCEPT ![v] = s] /\ UNCHANGED <<pc, heap, args, cstring, call, answer>>
AssignNull(v) == Assign(v, Nil)
Share(v, w) == Assign(v, vars[w])
TakeArgument(v, i) ==
  /\ args # Nil /\ i <= Length(args)
  /\ Assign(v, heap[heap[args].at].items[i])

Observe(strings, a) ==
  /\ Idle
  /\ IF Nil \in strings THEN pc' = "stopped" /\ UNCHANGED answer ELSE answer' = a /\ UNCHANGED pc
  /\ UNCHANGED <<heap, vars, args, cstring, call>>

Compare(l, r, equal) ==
  LET a == vars[l]  b == vars[r] IN Observe({a, b}, [NoAnswer EXCEPT !.truth = ((Data(a) = Data(b)) = equal)])
Output(v) == Observe({vars[v]}, [NoAnswer EXCEPT !.text = SubSeq(Data(vars[v]), 1, Length(vars[v]))])
ReadLength(v) == Observe({vars[v]}, [NoAnswer EXCEPT !.number = Length(vars[v])])

(* A failed assertion, and an assertion about null, ends the program.      *)
AssertEquals(l, r) ==
  /\ Idle
  /\ pc' = IF vars[l] # Nil /\ vars[r] # Nil /\ Data(vars[l]) = Data(vars[r]) THEN "body" ELSE "stopped"
  /\ UNCHANGED <<heap, vars, args, cstring, call, answer>>

RuntimeNext ==
  \/ \E a \in Unused : \/ MakeArray(a) \/ MakeElements(a) \/ MakeArgument(a) \/ FillArgument(a)
                       \/ MakeData(a) \/ MakeObject(a) \/ MakeObjectFirst(a) \/ MakeDataLast(a)
  \/ GiveArguments \/ Initialise
  \/ \E v \in Variables :
       \/ Literal(v) \/ Convert(v) \/ ToC(v) \/ FromC(v) \/ FromCSub(v)
       \/ AssignNull(v) \/ Output(v) \/ ReadLength(v)
       \/ \E i \in 1..Len(CommandLine) : TakeArgument(v, i)
       \/ \E w \in Variables : Share(v, w) \/ AssertEquals(v, w)
       \/ \E w \in Variables, equal \in BOOLEAN : Compare(v, w, equal)
       \/ \E l, r \in Variables : Concat(v, l, r)

RuntimeSpec == RuntimeInit /\ [][RuntimeNext]_rvars

-----------------------------------------------------------------------------
(* Properties                                                              *)

Call == [op : Operations \cup {"none"}, to : Variables \cup {Nil}, from : Seq(Addresses), text : Text,
         start : 0..MaxLength, len : 0..MaxLength,
         object : Addresses \cup {Nil}, data : Addresses \cup {Nil},
         array : Addresses \cup {Nil}, elements : Addresses \cup {Nil}]

RuntimeTypeOK ==
  /\ pc \in {"arguments", "initialise", "body", "stopped"}
  /\ heap \in [Addresses -> Block]
  /\ vars \in [Variables -> Addresses \cup {Nil}]
  /\ args \in Addresses \cup {Nil} /\ cstring \in Addresses \cup {Nil}
  /\ call \in Call
  /\ answer \in [truth : BOOLEAN, text : Text, number : Nat]

(* Whatever is made, shared and collected in between, what the runtime     *)
(* writes to a block fits in it: characters with their terminator, the two *)
(* members of a string or of an array, the elements of an array.  Sizes    *)
(* are asked for without the terminator, and for arguments with the size   *)
(* of a pointer: only what the collector adds makes them fit.  And print   *)
(* and assertStringEquals copy a whole string to a buffer of its length.   *)
Extent(b) == IF b.text # <<>> THEN Len(b.text) + 1
             ELSE IF b.items # <<>> THEN Pointer * Len(b.items)
             ELSE IF b.len # 0 \/ b.at # Nil THEN 2 * Pointer ELSE 0
WritesFitTheirBlocks ==
  /\ \A a \in Addresses : Extent(heap[a]) <= Capacity[heap[a].size]
  /\ \A v \in Variables : vars[v] # Nil => Len(Data(vars[v])) <= Length(vars[v])

(* Strings are values: no interleaving of allocations, collections and     *)
(* operations changes the text of a variable but the operation that is     *)
(* said to, although strings are shared, made in two steps, delimited both *)
(* by a length and by a terminator, and given by a collector.              *)
TextOf(s) == IF s = Nil THEN {} ELSE {SubSeq(Data(s), 1, Length(s))}
Held(s) == SubSeq(Data(s), 1, Length(s))
Values == INSTANCE StringValues WITH
  value <- [v \in Variables |-> TextOf(vars[v])],
  ctext <- IF cstring = Nil THEN {} ELSE {heap[cstring].text},
  arguments <- IF args = Nil THEN <<>>
               ELSE [i \in 1..Length(args) |-> Held(heap[heap[args].at].items[i])]
StringsAreValues == Values!StringsSpec
=============================================================================

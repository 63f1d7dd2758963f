---------------------------- MODULE StringValues ----------------------------
(***************************************************************************)
(* What a program sees of strings: each variable holds a text or null, and *)
(* no operation on one variable ever changes what another one holds.       *)
(***************************************************************************)
EXTENDS Naturals, Sequences

CONSTANTS
  Variables,    (* the variables of type string of the program             *)
  Texts,        (* literals, and what numbers and booleans convert to      *)
  CommandLine   (* the arguments of the program                            *)

VARIABLES
  value,        (* [Variables -> {} for null, {text} for a string]         *)
  ctext,        (* the C string the program holds: {}, or {text}           *)
  arguments,    (* the variable args                                       *)
  answer        (* what the last comparison, print or .len gave            *)

svars == <<value, ctext, arguments, answer>>

NoAnswer == [truth |-> FALSE, text |-> <<>>, number |-> 0]

StringsInit ==
  /\ value = [v \in Variables |-> {}]
  /\ ctext = {}
  /\ arguments = <<>>
  /\ answer = NoAnswer

Become(v, texts) == value' = [value EXCEPT ![v] = texts] /\ UNCHANGED <<ctext, arguments, answer>>
Answer(a) == answer' = a /\ UNCHANGED <<value, ctext, arguments>>

GetArguments == arguments' = CommandLine /\ UNCHANGED <<value, ctext, answer>>
Forget(v) == Become(v, {})
Share(v, w) == Become(v, value[w])
TakeArgument(v, i) == i \in DOMAIN arguments /\ Become(v, {arguments[i]})
Make(v) == \E t \in Texts : Become(v, {t})
Join(v, l, r) == \E a \in value[l], b \in value[r] : Become(v, {a \o b})
ToC(v) == value[v] # {} /\ ctext' = value[v] /\ UNCHANGED <<value, arguments, answer>>
FromC(v) == \E t \in ctext : Become(v, {t})
Part(v) == \E t \in ctext : \E i \in 0..Len(t) : \E j \in i..Len(t) : Become(v, {SubSeq(t, i + 1, j)})
Same(v, w, equal) ==
  \E a \in value[v], b \in value[w] : Answer([NoAnswer EXCEPT !.truth = ((a = b) = equal)])
Show(v) == \E a \in value[v] : Answer([NoAnswer EXCEPT !.text = a])
Length(v) == \E a \in value[v] : Answer([NoAnswer EXCEPT !.number = Len(a)])

StringsNext ==
  \/ GetArguments
  \/ \E v \in Variables :
       \/ Forget(v) \/ Make(v) \/ ToC(v) \/ FromC(v) \/ Part(v) \/ Show(v) \/ Length(v)
       \/ \E i \in 1..Len(CommandLine) : TakeArgument(v, i)
       \/ \E w \in Variables : Share(v, w) \/ \E equal \in BOOLEAN : Same(v, w, equal)
       \/ \E l, r \in Variables : Join(v, l, r)

StringsSpec == StringsInit /\ [][StringsNext]_svars
=============================================================================

------------------------------ MODULE MCRuntime ------------------------------
EXTENDS Runtime, SequencesExt

CONSTANTS charA, charB

MCTexts == {<<>>, <<charA>>, <<charA, charB>>}
MCCommandLine == <<<<charB>>>>

(* Pointers as long as a character, so that blocks are asked for that are  *)
(* just long enough once the collector has added a byte and rounded up.    *)
Granule == 2 * Pointer
MCCapacity == [n \in 0..4 |-> ((n \div Granule) + 1) * Granule]

(* Blocks differ by their addresses only, and what is in those that are    *)
(* not used is never read: the lowest address is given, and states are one *)
(* when they lead to the same blocks, in the same order, from the same     *)
(* variables and registers.  No step depends on the last answer, which is  *)
(* forgotten while a string is made.                                       *)
LowestFirst == \A p, q \in Unused : heap'[q] # heap[q] => q <= p

Ats(s) == [i \in DOMAIN s |-> IF s[i] = Nil THEN Nil ELSE heap[s[i]].at]
Items(s) == FlattenSeq([i \in DOMAIN s |-> IF s[i] = Nil THEN <<>> ELSE heap[s[i]].items])
Held1 == <<vars["x"], vars["y"], args, cstring, call.object, call.data, call.array, call.elements>> \o call.from
Held2 == Held1 \o Ats(Held1)
UsedBlocks ==
  LET strings == Items(Held2)
      all == Held2 \o strings \o Ats(strings)
      Rank(i) == CHOOSE k \in 1..i : all[k] = all[i] /\ \A j \in 1..(k - 1) : all[j] # all[i]
      Content(p) == IF p = Nil THEN <<>> ELSE <<heap[p].size, heap[p].text, heap[p].len>>
  IN <<pc, IF call = NoCall THEN answer ELSE NoAnswer, call.op, call.to, call.text, call.start, call.len,
       [i \in DOMAIN all |-> <<Rank(i), Content(all[i])>>]>>
=============================================================================

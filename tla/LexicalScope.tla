---------------------------- MODULE LexicalScope ----------------------------
(***************************************************************************)
(* What Stark promises about variable names, with no block stack in sight: *)
(* "Variables are local to the code block they are declared in: they can   *)
(* be accessed by nested blocks, but not by parent blocks"                 *)
(* (docs/common-concepts.md:44).                                           *)
(*                                                                         *)
(* A scope holds only the names declared in its own braces.  A name is     *)
(* visible when the scope or one of its ancestors up to the enclosing      *)
(* function declares it; a function body sees nothing of the code around   *)
(* it.  The code generator, which has no such search and copies maps of    *)
(* locals between stack entries instead, is shown to implement this.       *)
(***************************************************************************)
EXTENDS Naturals, Sequences, SequencesExt

CONSTANT Names          (* the variable names of the program *)

VARIABLES
  scopes,               (* the open scopes, outermost first *)
  verdict               (* "ok", or how the compilation ended *)

vars == <<scopes, verdict>>

Scope == [own : SUBSET Names, opaque : BOOLEAN]

(* x can be named in the k-th scope of the sequence s *)
Visible(s, k, x) ==
  \E j \in 1..k : /\ x \in s[j].own
                  /\ \A i \in (j+1)..k : ~s[i].opaque

TypeOK ==
  /\ scopes \in Seq(Scope)
  /\ verdict \in {"ok", "undeclared", "redeclared", "rejected", "done"}

Init == \E top \in SUBSET Names :
  /\ scopes \in {<<>>, <<[own |-> top, opaque |-> TRUE]>>}
  /\ verdict = "ok"

Fail(why) == scopes' = <<>> /\ verdict' = why

EnterFunction(params) ==
  /\ scopes' = Append(scopes, [own |-> params, opaque |-> TRUE])
  /\ UNCHANGED verdict

EnterBlock ==
  /\ scopes # <<>>
  /\ scopes' = Append(scopes, [own |-> {}, opaque |-> FALSE])
  /\ UNCHANGED verdict

LeaveBlock ==
  /\ scopes # <<>>
  /\ scopes' = Front(scopes)
  /\ UNCHANGED verdict

(* from the braces of an if to those of its else *)
NextBranch ==
  /\ scopes # <<>>
  /\ ~Last(scopes).opaque
  /\ scopes' = [scopes EXCEPT ![Len(scopes)].own = {}]
  /\ UNCHANGED verdict

Declare(x) ==
  /\ scopes # <<>>
  /\ ~Visible(scopes, Len(scopes), x)
  /\ scopes' = [scopes EXCEPT ![Len(scopes)].own = @ \cup {x}]
  /\ UNCHANGED verdict

Redeclare(x) ==
  /\ scopes # <<>>
  /\ Visible(scopes, Len(scopes), x)
  /\ Fail("redeclared")

ReferToUnknown(x) ==
  /\ scopes # <<>>
  /\ ~Visible(scopes, Len(scopes), x)
  /\ Fail("undeclared")

(* the compilation stops for a reason that has nothing to do with names *)
Stop == Fail("rejected") \/ Fail("done")

Next ==
  /\ verdict = "ok"
  /\ \/ \E params \in SUBSET Names : EnterFunction(params)
     \/ EnterBlock
     \/ LeaveBlock
     \/ NextBranch
     \/ \E x \in Names : Declare(x) \/ Redeclare(x) \/ ReferToUnknown(x)
     \/ Stop

Spec == Init /\ [][Next]_vars
=============================================================================

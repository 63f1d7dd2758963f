---------------------------- MODULE MCExpressions ----------------------------
EXTENDS Expressions

(* One struct with members of each kind, itself included, one without; one *)
(* function of each kind of signature: the body (parameters of both kinds, *)
(* an array as result), one without a result, and one only declared, with  *)
(* an array as parameter.                                                  *)
MCStructs == [Shop |-> <<[name |-> "id", type |-> IntType], [name |-> "next", type |-> ArrayOf("Shop")]>>,
              Empty |-> <<>>]
MCFunctions ==
  [body |-> [params |-> <<[name |-> "x", type |-> ArrayOf("int")]>>,
             result |-> ArrayOf("int"), foreign |-> FALSE],
   print |-> [params |-> <<[name |-> "y", type |-> StringType]>>, result |-> VoidType, foreign |-> FALSE],
   total |-> [params |-> <<[name |-> "x", type |-> ArrayOf("int")]>>, result |-> IntType, foreign |-> TRUE],
   main |-> [params |-> <<[name |-> "x", type |-> ArrayOf("string")]>>, result |-> IntType, foreign |-> FALSE]]
MCUncallable == {"main"}

(* Bounds: y is given the types that behave in different ways, and more    *)
(* than two visits are in progress only while a path is being assigned to. *)
Focus ==
  /\ locals["y"] \in {Undeclared} \cup {[type |-> t, meant |-> t] : t \in {AnyType, StringType, Plain("Shop"), ArrayOf("Shop")}}
                     \cup {[type |-> IntType, meant |-> ArrayOf("int")], [type |-> DoubleType, meant |-> DoubleType]}
  /\ Len(stack) > 2 => /\ stack[1].kind = "target" /\ stack[2].kind \in {"value", "null"}
                       /\ stack[3].kind \in {"address", "indexed"}
=============================================================================

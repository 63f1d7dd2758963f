---------------------------- MODULE MCModuleBuild ----------------------------
(* ModuleBuild over three modules: the second may close a cycle with the   *)
(* first or lead to the third, so that a program or a module depends on    *)
(* modules it does not import; the third may have nothing to write.        *)
EXTENDS ModuleBuild

Importing(imports) == [imports |-> imports, exports |-> TRUE]
Empty == [imports |-> {}, exports |-> FALSE]

MCWritten == [t \in Targets |->
  CASE t = 1      -> {Importing({}), Importing({2})}
    [] t = 2      -> {Importing({}), Importing({1}), Importing({3})}
    [] t = 3      -> {Importing({}), Empty}
    [] t = Main   -> {Importing({1}), Importing({1, 2})}
    [] t = Script -> {Importing({2})}]
=============================================================================

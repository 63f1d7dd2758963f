--------------------------- MODULE MCDeclarations ---------------------------
(* Sources for Declarations: two modules and programs. *)
EXTENDS Declarations

Plain(kind, name) ==
  [kind |-> kind, id |-> <<name>>, uses |-> {}, calls |-> {}, line |-> 0]
Using(s, ids) == [s EXCEPT !.uses = ids]
Calling(s, ids) == [s EXCEPT !.calls = ids]

T == <<"T">>
U == <<"U">>
f == <<"f">>
g == <<"g">>

Types == {Plain("forward", "T"), Plain("struct", "T"), Using(Plain("struct", "T"), {T}),
          Using(Plain("struct", "U"), {T}), Using(Plain("struct", "T"), {U})}
Functions == {Using(Plain("func", "f"), {T}), Calling(Plain("func", "g"), {f}),
              Calling(Plain("func", "f"), {T}), Plain("func", "main")}

(* the statements one after the other from line first *)
At(first, statements) ==
  [i \in DOMAIN statements |-> [statements[i] EXCEPT !.line = first + i - 1]]
UpTo(n, S) == UNION {[1 .. k -> S] : k \in 1 .. n}

(* programs that import nothing: one file of up to four statements, or two *)
Alone ==
  {<<At(1, s)>> : s \in UpTo(4, Types \cup Functions)}
    \cup {<<At(1, s), At(l, <<x>>)>> :
            s \in UpTo(2, Types \cup Functions), x \in Types \cup Functions, l \in {1, 2}}
    \cup {<<At(1, <<Plain("func", "f"), Calling(Plain("func", "g"), {<<"main", "f">>})>>)>>}
    \cup {<<At(1, s)>> : s \in [1 .. 3 -> {Plain("struct", "T"), Using(Plain("extern", "f"), {T}),
                                         Calling(Plain("func", "g"), {f}), Plain("func", "f")}]}
    \cup {<<At(1, <<Plain("struct", "T"), Using(Plain("extern", "alloc"), {T})>>)>>,
          <<At(1, <<Plain("declare", "f"), Calling(Plain("func", "g"), {f})>>)>>,
          <<At(1, <<Plain("forward", "f"), Calling(Plain("func", "g"), {f})>>),
            At(1, <<Plain("func", "f")>>)>>}

File(m, first, imports, body) == At(first, <<Plain("module", m)>> \o imports \o body)

(* a module that imports nothing *)
Leaf ==
  {<<File("B", 1, <<>>, b)>> : b \in UpTo(2, Types \cup Functions)}
    \cup {<<File("B", 1, <<>>, <<Plain("forward", "T"), Using(Plain("struct", "U"), {T}),
                                Using(Plain("struct", "T"), {U})>>)>>,
          <<File("B", 1, <<>>, <<Plain("struct", "T"), Plain("forward", "T"),
                                Plain("struct", "T")>>)>>,
          <<File("B", 1, <<>>, <<Plain("declare", "g"), Calling(Plain("func", "f"), {g})>>)>>}
    \cup {<<File("B", l, <<>>, <<x>>), File("B", 2, <<>>, <<y>>)>> :
            x \in Types \cup Functions, y \in Types \cup Functions, l \in {1, 3}}

(* what uses types and functions of module m *)
UsesOf(m) ==
  {Using(Plain("struct", "T"), {<<m, "T">>}),
   Using(Plain("struct", "U"), {<<m, "U">>}),
   Using(Calling(Plain("func", "g"), {<<m, "f">>}), {<<m, "T">>}),
   Calling(Plain("func", "f"), {<<m, "f">>}),
   Calling(Plain("func", "f"), {<<m, "T">>})}

(* a module that imports the other one, in one of its files *)
Middle ==
  LET imports == <<Plain("import", "B")>>
      bodies == {<<x>> : x \in UsesOf("B")} \cup {<<>>}
  IN  {<<File("A", l, imports, b)>> : b \in bodies, l \in {1, 4}}
        \cup {<<File("A", l, imports, b), File("A", 3, <<>>, <<x>>)>> :
                b \in bodies, l \in {1, 2, 3},
                x \in {Calling(Using(Plain("func", "f"), {T}), {g}), Plain("struct", "T")}}

(* programs that import one of them, which may import the other *)
Programs ==
  {<<At(l, <<Plain("import", m), x>>)>> :
     m \in Modules, l \in {1, 4},
     x \in UsesOf("A") \cup UsesOf("B")
             \cup {Calling(Plain("func", "main"), {<<"A", "g">>, <<"B", "f">>})}}

MCUnits == [t \in Targets |-> CASE t = "A" -> Middle
                                [] t = "B" -> Leaf
                                [] OTHER -> Alone \cup Programs]
=============================================================================

------------------------------ MODULE MCNames ------------------------------
(***************************************************************************)
(* Small workspaces for Names: each shape below is filled with every       *)
(* choice of names, so that every shadowing and every collision happens.   *)
(***************************************************************************)
EXTENDS Names

MCStdlib == "std"
MCNoFile == "no file"
MCIndexed == {"main", "lib", "more"}
MCBare == [n \in {"Pa", "Pb"} |-> IF n = "Pa" THEN "a" ELSE "b"]
MCNewNames == {"a", "b", "c", "circuit"}
MCReserved == {"circuit"}
AB == {"a", "b"}

As(role) == [as |-> role, of |-> 0]
Of(role, p) == [as |-> role, of |-> p]
Decl(kind, at, from, to, exported, parent) ==
  [kind |-> kind, at |-> at, from |-> from, to |-> to, exported |-> exported, parent |-> parent]
Circuit(at, to, exported) == Decl("circuit", at, at, to, exported, 0)
Member(at, to, exported) == Decl("circuit", at, at, to, exported, 1)
Scope(kind, from, to, binds) == [kind |-> kind, from |-> from, to |-> to, binds |-> binds]
Bind(at, sees, detail) == [at |-> at, sees |-> sees, detail |-> detail]
File(text, role, decls, scopes, imports, includes) ==
  [text |-> text, role |-> role, decls |-> decls, scopes |-> scopes, imports |-> imports, includes |-> includes]
Import(at, path, prefixed, specs, target) ==
  [at |-> at, path |-> path, prefixed |-> prefixed, specs |-> specs, target |-> target]
Body(from, to) == Scope("block", from, to, <<>>)
Files(main, lib, more) == [f \in {"main", "lib", "more", "std"} |->
  CASE f = "main" -> main [] f = "lib" -> lib [] f = "more" -> more
    [] OTHER -> File(<<"a", "b">>, <<As("declaration"), As("declaration")>>,
                     <<Circuit(1, 1, TRUE), Circuit(2, 2, FALSE)>>, <<>>, <<>>, <<>>)]
Empty == File(<<>>, <<>>, <<>>, <<>>, <<>>, <<>>)
Alone(file) == Files(file, Empty, Empty)

\* circuit f(n1) { const n2 = n3; for (const n4 of ..) { const n5 = ..; n6 } n7 }
Locals == {Alone(File(<<"f", n[1], n[2], n[3], n[4], n[5], n[6], n[7]>>,
    <<As("declaration"), As("pattern"), As("pattern"), As("name"), As("for"), As("pattern"), As("name"), As("name")>>,
    <<Circuit(1, 8, FALSE)>>,
    <<Scope("circuit", 1, 8, <<Bind(2, 1, "parameter")>>), Scope("block", 3, 8, <<Bind(3, 5, "const")>>),
      Scope("for", 5, 7, <<Bind(5, 6, "for")>>), Scope("block", 6, 7, <<Bind(6, 7, "const")>>)>>, <<>>, <<>>))
  : n \in [1..7 -> AB]}

\* module M { export circuit n1 { n2 } circuit n3 { n4 } }  import M ...;  circuit n5 { n6 n7 }
InFile(n, import, extra, role) == Alone(File(<<"M", n[1], n[2], n[3], n[4], "M", n[5], n[6], n[7]>> \o extra,
    <<As("declaration"), As("declaration"), As("name"), As("declaration"), As("name"), As("import"),
      As("declaration"), As("name"), As("name")>> \o role,
    <<Decl("module", 1, 1, 5, FALSE, 0), Member(2, 3, TRUE), Member(4, 5, FALSE), Circuit(7, 9, FALSE)>>,
    <<Body(3, 3), Body(5, 5), Body(8, 9)>>, <<import>>, <<>>))
NoTarget == Import(6, "", FALSE, <<>>, "no file")
Modules == {InFile(n, NoTarget, <<>>, <<>>) : n \in [1..7 -> AB]}
\* ... import M prefix P;
Prefixed == {InFile(<<x, x, y, y, "f", z, w>>, [NoTarget EXCEPT !.prefixed = TRUE], <<>>, <<>>)
             : x \in AB, y \in AB, z \in {"a", "Pa", "Pb"}, w \in AB}
\* ... import { n8 as n9 } from M;   import { n8 } from M;
Selected == {InFile(<<x, x, y, y, "f", z, w>>, [NoTarget EXCEPT !.specs = <<[orig |-> 10, alias |-> 11]>>],
                    <<u, v>>, <<Of("specifier", 1), As("alias")>>)
             : x \in AB, y \in AB, z \in {"a", "x"}, w \in AB, u \in AB, v \in {"x", "y"}}
  \cup {InFile(<<x, x, y, y, "f", z, w>>, [NoTarget EXCEPT !.specs = <<[orig |-> 10, alias |-> 0]>>],
               <<u>>, <<Of("specifier", 1)>>)
        : x \in AB, y \in AB, z \in AB, w \in AB, u \in AB}
\* ... import { n8 as x, n9 as y } from M;
  \cup {InFile(<<x, x, y, y, "f", z, w>>,
               [NoTarget EXCEPT !.specs = <<[orig |-> 10, alias |-> 11], [orig |-> 12, alias |-> 13]>>],
               <<u, "x", v, "y">>, <<Of("specifier", 1), As("alias"), Of("specifier", 1), As("alias")>>)
        : x \in AB, y \in AB, z \in {"a", "x"}, w \in {"b", "y"}, u \in AB, v \in AB}

\* lib: module L { export circuit n1 { n2 } export circuit n3 { } }
Library(x, y, z, module) == File(<<module, x, y, z>>,
  <<As("declaration"), As("declaration"), As("name"), As("declaration")>>,
  <<Decl("module", 1, 1, 4, FALSE, 0), Member(2, 3, TRUE), Member(4, 4, TRUE)>>, <<Body(3, 3)>>, <<>>, <<>>)
\* main: import "L";  or  import L;  circuit n4 { n5 n6 }
User(x, y, z, import) == File(<<"L", x, y, z>>,
  <<As("import"), As("declaration"), As("name"), As("name")>>,
  <<Circuit(2, 4, FALSE)>>, <<Body(3, 4)>>, <<import>>, <<>>)
Imported == {Files(User(u, v, w, Import(at, "L", FALSE, <<>>, "lib")), Library(x, y, z, "L"), Empty)
             : x \in AB, y \in AB, z \in AB, u \in AB, v \in AB, w \in AB, at \in {0, 1}}
  \cup {Files(User("f", v, "Pa", Import(0, "L", p, <<>>, t)), Library("a", "a", "b", m), Empty)
        : v \in AB, p \in BOOLEAN, t \in {"lib", "more", "no file"}, m \in {"L", "N"}}

\* main includes lib, lib includes more and a file that is missing, more includes main.
Unit(x, y, includes) == File(<<x, y>>, <<As("declaration"), As("name")>>,
                             <<Circuit(1, 2, FALSE)>>, <<Body(2, 2)>>, <<>>, includes)
Included == {Files(Unit(u, v, <<"lib">>), Unit(w, x, <<"no file", "more">>), Unit(y, z, <<"main">>))
             : u \in AB, v \in AB, w \in AB, x \in AB, y \in AB, z \in AB}

\* struct n1<n2> { f: n3; }  enum E { V }  circuit n4(n5: n6) { n1 { f: n7 } E.V; map(([n8]: n6) => n9, ..) }
Typed(n, t) == Alone(File(<<t[1], t[2], "f", t[3], "E", "V", n[1], n[2], t[4], t[5], "f", n[3], "E", "V", n[4], n[5]>>,
  <<As("declaration"), As("generic"), As("declaration"), As("type"), As("declaration"), As("declaration"),
    As("declaration"), As("pattern"), As("type"), As("name"), Of("field init", 10), As("name"), As("name"),
    Of("member", 13), As("pattern"), As("name")>>,
  <<Decl("struct", 1, 1, 4, FALSE, 0), Decl("field", 3, 3, 4, FALSE, 1), Decl("export_list", 5, 5, 5, FALSE, 0),
    Decl("enum", 5, 5, 6, TRUE, 0), Decl("variant", 6, 6, 6, FALSE, 4), Circuit(7, 16, FALSE)>>,
  <<Scope("struct", 1, 4, <<Bind(2, 1, "generic")>>), Scope("circuit", 7, 16, <<Bind(8, 7, "parameter")>>),
    Body(10, 16), Scope("lambda", 15, 16, <<Bind(15, 16, "parameter")>>)>>, <<>>, <<>>))
Types == {Typed(n, t) : n \in [1..5 -> AB], t \in {<<"S", "T", "T", "S", "S">>, <<"S", "S", "S", "T", "S">>}}

\* import CompactStandardLibrary;  circuit n1 { n2 }
Library2 == {Alone(File(<<"CompactStandardLibrary", x, y>>, <<As("import"), As("declaration"), As("name")>>,
                        <<Circuit(2, 3, FALSE)>>, <<Body(3, 3)>>, <<Import(1, "", FALSE, <<>>, "no file")>>, <<>>))
             : x \in AB \cup {"f"}, y \in AB}

MCWorkspaces ==
  Locals \cup Modules \cup Prefixed \cup Selected \cup Imported \cup Included \cup Types \cup Library2

----------------------------------------------------------------------------
(* Workspaces in which a rename changes what an identifier means.          *)
\* import { a } from L, from another file: the specifier is not edited.
OtherFileSpecifier == Files(
  File(<<"L", "a", "f", "a">>, <<As("import"), Of("specifier", 1), As("declaration"), As("name")>>,
       <<Circuit(3, 4, FALSE)>>, <<Body(4, 4)>>, <<Import(1, "", FALSE, <<[orig |-> 2, alias |-> 0]>>, "lib")>>, <<>>),
  Library("a", "a", "b", "L"), Empty)
\* import L prefix P: the prefixed uses are not edited.
OtherFilePrefix == Files(User("f", "Pa", "Pa", Import(1, "L", TRUE, <<>>, "lib")), Library("a", "a", "b", "L"), Empty)
\* (a) => a: the parameter and its uses are not the same definition.
UntypedLambda == Alone(File(<<"f", "a", "a">>, <<As("declaration"), As("pattern"), As("name")>>,
  <<Circuit(1, 3, FALSE)>>, <<Body(2, 3), Scope("lambda", 2, 3, <<Bind(2, 3, "untyped")>>)>>, <<>>, <<>>))
\* (a: T) => a: the parameter resolves to nothing, its uses to the parameter.
TypedLambda == Alone(File(<<"f", "a", "a">>, <<As("declaration"), As("parameter"), As("name")>>,
  <<Circuit(1, 3, FALSE)>>, <<Body(2, 3), Scope("lambda", 2, 3, <<Bind(2, 3, "parameter")>>)>>, <<>>, <<>>))
\* struct S { a; b; }  S { a: .., b: .. }: fields are not looked up for conflicts.
SiblingField == Alone(File(<<"S", "a", "b", "f", "S", "a", "b">>,
  <<As("declaration"), As("declaration"), As("declaration"), As("declaration"), As("name"),
    Of("field init", 5), Of("field init", 5)>>,
  <<Decl("struct", 1, 1, 3, FALSE, 0), Decl("field", 2, 2, 2, FALSE, 1), Decl("field", 3, 3, 3, FALSE, 1),
    Circuit(4, 7, FALSE)>>, <<Body(5, 7)>>, <<>>, <<>>))
\* main includes lib (circuit a) and more (circuit b), and uses only b.
OtherFileCapture == Files(Unit("f", "b", <<"lib", "more">>), Unit("a", "g", <<>>), Unit("b", "g", <<>>))
\* module M { export a }  import M;  a: the import is not edited.
ModuleRenamed == InFile(<<"a", "a", "b", "b", "f", "a", "a">>, NoTarget, <<>>, <<>>)
MCSurprises == {OtherFileSpecifier, OtherFilePrefix, UntypedLambda, TypedLambda, SiblingField, OtherFileCapture, ModuleRenamed}
=============================================================================

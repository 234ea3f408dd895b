------------------------------- MODULE MCTypes -------------------------------
(* Small instances of Types: integers of 2 bits for u128, Uint<3> for the   *)
(* widest, lengths to 2, a depth of 3, a Field of 9 values.                 *)
EXTENDS TypeMeaning

Chosen == {[N |-> 1, T |-> Booleans], [N |-> 2, T |-> Numbers(FieldSize)]}

UintBits(n) == [k |-> "Uint", sizes |-> <<n>>]
UintTo(hi) == [k |-> "Uint", sizes |-> <<0, hi>>]
Ref(x, args) == [k |-> "Ref", name |-> x, args |-> args]
Num(n) == [k |-> "int", n |-> n]
True == [k |-> "bool"]
Str == [k |-> "string"]
As(e, t) == [k |-> "cast", of |-> e, ty |-> t]
Array(elems) == [k |-> "array", elems |-> elems]
Spread(e) == [k |-> "spread", of |-> e]
Name(x) == [k |-> "name", name |-> x]
Member(e, f) == [k |-> "member", of |-> e, name |-> f]
Call(x, args) == [k |-> "call", name |-> x, args |-> args]
Method(e, x, args) == [k |-> "method", of |-> e, name |-> x, args |-> args]
New(x) == [k |-> "struct", name |-> x]

\* The methods of some builtin types; widths are scaled as the limits are.
SomeSurfaces ==
  [Counter |-> [increment |-> <<UintBits(1)>>, resetToDefault |-> <<>>],
   Cell |-> [write |-> <<Ref("V", 0)>>, resetToDefault |-> <<>>],
   MerkleTree |-> [insertHash |-> <<Bytes(2)>>, insertIndex |-> <<Ref("V", 0), UintBits(3)>>]]

-----------------------------------------------------------------------------
(* Declarations and statements.                                            *)

Item(x, kind, file) ==
  [name |-> x, kind |-> kind, file |-> file, generic_module |-> FALSE, generics |-> <<>>,
   params |-> <<>>, fields |-> <<>>, ret |-> Absent, head |-> Absent, body |-> <<>>]

Plain(x, t) == [name |-> x, key |-> x, simple |-> TRUE, ty |-> t]
Pattern(key, x, t) == [name |-> x, key |-> key, simple |-> FALSE, ty |-> t]

Return(e) == [k |-> "return", name |-> "", simple |-> FALSE, ty |-> Absent, value |-> e]
Const(x, t, e) == [k |-> "const", name |-> x, simple |-> TRUE, ty |-> t, value |-> e]
ConstPattern(x, t, e) == [Const(x, t, e) EXCEPT !.simple = FALSE]

Circuit(params, ret, body) ==
  [Item("f", "circuit", "here") EXCEPT !.params = params, !.ret = ret, !.body = body]

File(decls) == [decls |-> decls, published |-> {"here", "there"}]

-----------------------------------------------------------------------------
(* Returns: every declared type against every operand.                     *)

Scalars == {Boolean, Field} \cup {UintBits(n) : n \in {0, 1, 2, 3, 4, Param}}
             \cup {UintTo(n) : n \in {0, 1, 3, 4, 5}} \cup {[k |-> "Uint", sizes |-> <<1, 3>>]}
             \cup {Bytes(n) : n \in {0, 1, 2, 3, Param}} \cup {Ref("T", 0)}
Few == {Boolean, UintBits(1), Bytes(1), Ref("T", 0)}
Sequences == {Tuple(<<>>), Vector(0, Boolean), Vector(Param, Boolean), Vector(3, Boolean)}
               \cup {Tuple(<<t>>) : t \in Few} \cup {Tuple(<<t, u>>) : t, u \in Few}
               \cup {Vector(n, t) : n \in {1, 2}, t \in Few}
Annotations == Scalars \cup Sequences

Literals == {True, Str} \cup {Num(n) : n \in {0, 1, 2, 3, 4}}
SmallCasts == {As(e, t) : e \in {True, Num(1)}, t \in {UintBits(1), Bytes(1), UintTo(3)}}
Returned ==
  Literals \cup {As(e, t) : e \in {True, Num(2)} \cup SmallCasts, t \in Scalars}
    \cup {As(Array(<<True>>), t) : t \in Sequences}
    \cup {Array(<<>>)} \cup {Array(<<e>>) : e \in Literals}
    \cup {Array(<<e, g>>) : e, g \in {True, Num(1), Num(3), As(Num(1), Bytes(1))}}
    \cup {Array(<<Spread(Array(<<True>>)), Num(1)>>), Name("x")}

Returns ==
  {File(<<[Circuit(<<Plain("x", Boolean)>>, t, <<Return(e)>>)
             EXCEPT !.generics = g, !.generic_module = m]>>) :
     t \in Annotations, e \in Returned, g \in {<<"N", "T">>}, m \in {FALSE}}
  \cup
  {File(<<[Circuit(<<>>, t, <<Return(e)>>) EXCEPT !.generic_module = TRUE]>>) :
     t \in {Boolean, Field, UintBits(Param)}, e \in Literals}

-----------------------------------------------------------------------------
(* Calls of circuits and witnesses, alone or overloaded.                   *)

Arguments == {True, Num(1), Num(3), Name("x"), As(Num(1), UintBits(Param)), Array(<<True, Num(1)>>)}
ParamTypes == {Boolean, Field, UintBits(1), Tuple(<<Boolean, Field>>), Ref("T", 0)}

Callee(kind, params) == [Item("g", kind, "here") EXCEPT !.params = params, !.ret = Field]

Callers(args) ==
  {Circuit(<<Plain("x", Boolean)>>, Field, <<Return(Call("g", args))>>),
   Circuit(<<Plain("g", Boolean)>>, Absent, <<Const("y", Absent, Call("g", args))>>)}

Calls ==
  {File(<<c, g>> \o over) :
     c \in UNION {Callers(args) : args \in {<<>>} \cup {<<e>> : e \in Arguments}},
     g \in {[Callee(kind, <<Plain("p", t)>>) EXCEPT !.generics = gs, !.generic_module = m] :
              kind \in Callables, t \in ParamTypes, gs \in {<<>>, <<"T">>}, m \in BOOLEAN},
     over \in {<<>>} \cup {<<Callee("witness", <<Plain("p", t)>>)>> : t \in {Boolean, UintBits(1)}}}
  \cup
  {File(<<[c EXCEPT !.generics = <<"N">>],
          Callee("circuit", <<Plain("p", t), Plain(q, u)>>)>>) :
     c \in UNION {Callers(<<e, h>>) : e, h \in Arguments},
     t, u \in {Boolean, UintBits(1)}, q \in {"q", "p"}}
  \cup
  {File(<<Callee(kind, <<p, q>>)>>) :
     kind \in Callables,
     p, q \in {Plain(x, Boolean) : x \in {"p", "q"}}
                \cup {Pattern("p", x, Tuple(<<Boolean>>)) : x \in {"a", "b"}}}

-----------------------------------------------------------------------------
(* Ledger fields of builtin, user-defined and scalar types, and uses of     *)
(* named types with some number of arguments.                              *)

Fields ==
  {[Item("c", "ledger", file) EXCEPT !.head = t] :
     file \in Files, t \in {Ref(x, 0) : x \in DOMAIN SomeSurfaces \cup {"S"}} \cup {Field}}

LedgerCalls ==
  {File(<<Circuit(<<>>, Absent, <<Const("y", Absent, Method(Name("c"), method, args))>>), f>> \o user) :
     f \in Fields,
     method \in UNION {DOMAIN SomeSurfaces[a] : a \in DOMAIN SomeSurfaces},
     args \in {<<e>> : e \in {True, Num(1), Num(3), Name("x")}}
                \cup {<<True, e>> : e \in {True, Num(3), As(Num(1), Bytes(1))}},
     user \in {<<>>} \cup {<<Item(x, "struct", file)>> : x \in {"Counter", "Cell", "S"}, file \in Files}}

Uses ==
  {File(<<[Circuit(<<Plain(p, Boolean)>>, Ref("S", n), body) EXCEPT !.generics = g],
          [Item("S", kind, file) EXCEPT !.generics = declared]>>) :
     p \in {"x", "S"}, n \in 0..2, g \in {<<>>, <<"S">>},
     body \in {<<>>, <<Const("y", Vector(1, Ref("S", 1)), Num(1))>>,
               <<Return(As(Num(1), Tuple(<<Ref("S", 0)>>)))>>},
     kind \in {"struct", "enum", "alias", "circuit"}, file \in Files,
     declared \in {<<>>, <<"T">>}}

-----------------------------------------------------------------------------
(* Expressions to ask the type of: locals, members, calls, over structs     *)
(* that nest across the files.                                              *)

StructOf(x, file, t) ==
  [Item(x, "struct", file) EXCEPT !.fields = <<[name |-> "m", ty |-> t],
                                               [name |-> "n", ty |-> Boolean]>>]

Asked ==
  {Member(Member(Member(Name("x"), "m"), "m"), "m"), Member(Member(Name("y"), "m"), "m"), Member(Name("x"), "n"), Member(Call("g", <<>>), "m"),
   Member(New("S"), "m"), Array(<<Name("x"), True>>)}

Hovers ==
  {[decls |-> <<Circuit(<<p>>, Absent, <<Const("w", ann, Name("x")), y, Return(e)>>),
                [Item("g", "circuit", "here") EXCEPT !.ret = Ref("S", 0)],
                StructOf("S", "here", t), StructOf("U", file, v),
                StructOf("V", "here", UintBits(1)), StructOf("V", "there", Field)>>,
    published |-> published] :
     p \in {Plain("x", Ref("S", 0)), Pattern("x", "x", Tuple(<<Ref("S", 0), Field>>))},
     ann \in {Absent, UintBits(1)},
     y \in {Const("y", Absent, Name("w")), Const("y", Ref("S", 0), Name("x")),
            ConstPattern("y", Absent, Array(<<True, Num(1)>>))},
     e \in Asked,
     t \in {Ref("U", 0), Ref("S", 0), UintTo(1), Vector(1, Ref("S", 0))}, v \in {Field, Ref("S", 0), Ref("V", 0)},
     file \in {"here", "there"}, published \in {{"here"}, {"here", "there"}}}

AllPrograms == Returns \cup Calls \cup LedgerCalls \cup Uses \cup Hovers

\* What the theorems of TypesProofs ask for.
ASSUME BoundsAssumption == \A p \in AllPrograms : NumberedBounds(p)
ASSUME ChosenAssumption == \A inst \in Chosen : inst.N > 0

\* A bound that is a generic parameter: what they leave out.
GenericBounds ==
  {File(<<[Circuit(<<>>, UintBits(1), <<Return(As(Num(1), UintTo(Param)))>>)
             EXCEPT !.generics = <<"N">>]>>)}
ASSUME GenericAssumption == \A p \in GenericBounds : ~NumberedBounds(p)

=============================================================================

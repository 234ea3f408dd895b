---------------------------- MODULE MCDisclosure ----------------------------
(***************************************************************************)
(* Small programs for the disclosure analysis: every expression form over  *)
(* every source, put into every sink, in an exported circuit and in a      *)
(* constructor.                                                            *)
(***************************************************************************)
EXTENDS DisclosureMeaning

Scalar == [k |-> "scalar"]
Unknown == [k |-> "unknown"]
PairTy == [k |-> "struct", fields |-> <<[name |-> "x", ty |-> Scalar], [name |-> "y", ty |-> Scalar]>>]
VecTy == [k |-> "vector", elem |-> Scalar]

N(op, arg, kids) == [op |-> op, arg |-> arg, ty |-> << >>, kids |-> kids, at |-> << >>]

(* Text ranges: the place of a node in its item. *)
RECURSIVE Locate(_, _)
Locate(n, at) == [n EXCEPT !.at = at, !.kids = [i \in DOMAIN @ |-> Locate(@[i], Append(at, i))]]

Lit(v) == N("literal", [boolean |-> FALSE, value |-> v], << >>)
BoolLit(v) == N("literal", [boolean |-> TRUE, value |-> v], << >>)
Name(x) == N("name", x, << >>)
PairName(x) == [Name(x) EXCEPT !.ty = <<"x", "y">>]
Pair(a, b) == [N("struct", [name |-> "Pair", inits |-> <<"x", "y">>, update |-> FALSE], <<a, b>>)
                 EXCEPT !.ty = <<"x", "y">>]
Call(f, args) == N("call", f, args)
Method(m, recv, args) == N("method", m, <<recv>> \o args)
Binary(op, a, b) == N("binary", op, <<a, b>>)
Ternary(c, a, b) == N("ternary", "", <<c, a, b>>)
Member(e, f) == N("member", f, <<e>>)
Index(e, i) == N("index", "", <<e, i>>)
Array(es) == N("array", "", es)
Lambda(params, body) == N("lambda", [params |-> params, block |-> FALSE], <<body>>)
Sum == Lambda(<<"acc", "el">>, Binary("+", Name("acc"), Name("el")))
Shown(e) == N("disclose", "", <<e>>)
Ident(x) == [p |-> "ident", name |-> x, at |-> <<"pattern", x>>]
Tuple(x, y) == [p |-> "tuple", elems |-> <<Ident(x), Ident(y)>>, at |-> <<"pattern", x>>]
Fields(x, y) == [p |-> "struct", names |-> {x, y}, at |-> <<"pattern", x>>]
Const(pat, e) == N("const", pat, <<e>>)
Assign(e) == N("assign", "", <<Name("led"), e>>)
Block(ss) == N("block", "", ss)
If(c, a, b) == N("if", "", <<c, Block(<<a>>), Block(<<b>>)>>)

-----------------------------------------------------------------------------
(* What the programs declare: ledger fields, one of them in a file that is
   not a direct dependency, witnesses here and in another file, a circuit. *)
Global(kind) == [kind |-> kind, far |-> FALSE, otherFile |-> FALSE, ret |-> Scalar]
Symbols ==
  [led |-> Global("ledger"), m |-> Global("ledger"), obj |-> Global("struct"),
   w |-> Global("witness"), helper |-> Global("circuit"), odd |-> Global("enum")]
FarSymbols == [led |-> [Global("ledger") EXCEPT !.far = TRUE]] @@ Symbols
OtherFile == [w |-> [Global("witness") EXCEPT !.otherFile = TRUE]] @@ Symbols
PairWitness == [w |-> [Global("witness") EXCEPT !.ret = PairTy]] @@ Symbols

Item(kind, params, body) ==
  [kind |-> kind, name |-> kind, exported |-> TRUE, nested |-> FALSE, at |-> << >>,
   params |-> params, body |-> Locate(body, << >>)]
Program(symbols, items) ==
  [symbols |-> symbols, structs |-> [Pair |-> <<"x", "y">>], items |-> items]

Param(x, ty) == [pat |-> Ident(x), ty |-> ty]
Params == <<Param("s", Scalar), Param("p", PairTy), Param("v", VecTy)>>

-----------------------------------------------------------------------------
(* Sources and the forms over them. *)
Secret == {Name("s"), Call("w", << >>)}
Condition == {BoolLit(TRUE), Binary("==", Name("s"), Lit(0)), Shown(Binary("<", Call("w", << >>), Lit(1))),
              Binary("&&", Binary("!=", Call("w", << >>), Lit(1)), Binary("==", Name("s"), Lit(1)))}

Forms(a) ==
  {a, Shown(a), N("paren", "", <<a>>), N("cast", "", <<a>>), Binary("+", a, Lit(1)),
   Binary("*", Lit(0), Shown(a)), Binary("/", a, Lit(1)), Ternary(Binary(">", a, Lit(0)), Lit(0), Lit(1)),
   Call("transientHash", <<a>>), Call("transientCommit", <<a, Lit(0)>>), Call("ecAdd", <<Lit(0), a>>),
   Call("odd", <<a>>), Call("helper", <<a>>), Call("missing", <<a>>),
   Member(Pair(a, Lit(0)), "x"), Member(Pair(a, Lit(0)), "y"), Member(Pair(Lit(0), Shown(a)), "y"),
   Member([Pair(a, Lit(0)) EXCEPT !.ty = << >>], "y"),
   Index(Array(<<Lit(0), a>>), Lit(1)), Index(Pair(a, Lit(0)), Lit(0)), Index(Name("v"), a),
   N("fold", "", <<Sum, a, Array(<<Lit(1), Lit(2)>>)>>), N("fold", "", <<Sum, Lit(0), Array(<<a, Lit(0)>>)>>),
   N("fold", "", <<Sum, Lit(0), Pair(a, Lit(1))>>),
   N("fold", "", <<Lambda(<<"acc2", "el2">>, Shown(Name("acc2"))), a, Name("v")>>),
   Index(N("map", "", <<Lambda(<<"z">>, Binary("-", Name("z"), Lit(1))), Array(<<a, Lit(0)>>)>>), Lit(0)),
   Index(N("map", "", <<Lambda(<<"z">>, Binary("-", Name("z"), a)), Pair(Lit(1), Lit(0))>>), Lit(0)),
   N("fold", "", <<Sum, a>>), N("map", "", <<Name("helper"), Array(<<a>>)>>),
   N("bytes", "", <<a, Lit(0)>>), N("slice", "", <<a>>), N("unary", "", <<a>>),
   [Pair(a, Lit(0)) EXCEPT !.arg.update = TRUE], [Pair(Lit(0), a) EXCEPT !.arg.name = "Absent"]}

(* The forms that give a number, for a second layer of forms around them. *)
Numbers(a) ==
  {Shown(a), Binary("+", a, Lit(1)), Ternary(Binary(">", a, Lit(0)), Lit(0), Lit(1)),
   Ternary(BoolLit(FALSE), a, Lit(1)), Ternary(Shown(Binary(">", a, Lit(0))), a, Name("s")),
   Member(Pair(Lit(0), a), "y"), Index(Array(<<Lit(0), a>>), Lit(1)),
   N("fold", "", <<Sum, Lit(0), Pair(a, Lit(1))>>)}

Expressions ==
  UNION {Forms(a) : a \in Secret} \cup
  {Member(PairName("p"), "x"), Member(Name("p"), "x"), Index(Name("v"), Lit(1)), Pair(Lit(0), Name("s")),
   N("fold", "", <<Sum, Lit(0), Name("v")>>), N("default", Scalar, << >>), N("default", Unknown, << >>)}
  \cup {Ternary(c, a, Lit(7)) : c \in Condition, a \in Secret}

Touch == Method("insert", Name("m"), <<Lit(1)>>)
Effect(e) == N("expr", "", <<e>>)
Skip == Effect(Lit(0))

Sinks(e) ==
  {<<Assign(e)>>, <<Effect(Method("insert", Name("m"), <<Lit(0), e>>))>>,
   <<Effect(Method("novel", Name("m"), <<e>>))>>,
   <<Effect(Method("claimContractCall", Name("m"), <<Lit(0), Lit(1), e>>))>>,
   <<Effect(Method("novel", Name("obj"), <<e>>))>>,
   <<Const(Ident("c"), e), N("return", "", <<Name("c")>>)>>,
   <<N("for", "i", <<Lit(0), e, Block(<<Assign(Name("i"))>>)>>)>>,
   <<N("multiconst", "", <<e>>), Assign(Lit(0))>>}

Branches(c) ==
  {<<If(c, Assign(Lit(0)), Assign(Lit(1)))>>, <<If(c, Effect(Touch), Skip)>>,
   <<If(c, N("return", "", <<Lit(0)>>), N("return", "", <<Lit(1)>>))>>,
   <<If(c, If(Binary("==", Name("s"), Lit(1)), Assign(Lit(0)), Skip), Skip)>>,
   <<Effect(Ternary(c, Touch, Lit(0)))>>,
   <<Effect(Binary("||", c, Binary("==", Touch, Lit(0))))>>,
   <<N("assert", "", <<c>>), Assign(Lit(0))>>,
   <<Const(Ident("c"), Ternary(c, Pair(Name("s"), Lit(0)), Pair(Lit(1), Call("w", << >>)))),
     Assign(Member(PairName("c"), "y"))>>}

Patterns ==
  {<<Const(Tuple("t", "u"), e), Assign(Name("t"))>> :
     e \in {Pair(Name("s"), Lit(0)), Pair(Lit(0), Name("s")), Name("s")}}
  \cup {<<Const(Fields("x", "y"), Pair(Name("s"), Lit(0))), Assign(Name("x"))>>}

Nested == UNION {Numbers(b) \cup Forms(b) : b \in UNION {Numbers(a) : a \in Secret}}

Bodies == {<<Assign(e)>> : e \in Nested} \cup UNION {Sinks(e) : e \in Expressions} \cup UNION {Branches(c) : c \in Condition} \cup Patterns

Circuit(b) == Item("circuit", Params, Block(b))
Constructor(b) == Item("constructor", Params, Block(b))

SmallPrograms ==
  {Program(Symbols, <<Circuit(b)>>) : b \in Bodies}
  \cup {Program(Symbols, <<Constructor(b)>>) : b \in UNION {Branches(c) : c \in Condition}}
  \cup {Program(Symbols, <<[Circuit(b) EXCEPT !.exported = FALSE], Constructor(b)>>) : b \in Patterns}
  \cup {Program(Symbols, <<[Circuit(<<Assign(e)>>) EXCEPT !.nested = TRUE], Circuit(<<Effect(Touch)>>)>>) : e \in Secret}
  \cup {Program(sy, <<Circuit(<<Const(Ident("c"), Call("w", << >>)), Assign(Member(PairName("c"), "x"))>>)>>) :
          sy \in {OtherFile, PairWitness}}
  \cup {Program(Symbols, <<Item("circuit", <<Param("s", Unknown)>>, Block(<<Assign(Name("s"))>>))>>)}

-----------------------------------------------------------------------------
(* Programs outside the fragment of SmallPrograms, one per way the analysis is
   silent: an inner block's const overwrites an outer name for the rest of the
   outer block; a fold over an aggregate stops on a Boolean constant that its
   last element still changes; the receiver of a method call is not looked at;
   a ledger field declared in a file that is not a direct dependency is none. *)
Shadowing == <<Block(<<Const(Ident("s"), Lit(0))>>), Assign(Name("s"))>>
Flip == N("fold", "", <<Lambda(<<"acc", "el">>, Ternary(Name("acc"), BoolLit(FALSE), BoolLit(TRUE))),
                        BoolLit(FALSE), Array(<<Lit(0), Lit(0), Lit(0)>>)>>)
SettledTooEarly == <<Assign(Ternary(Flip, Name("s"), Lit(0)))>>
UnseenReceiver == <<Effect(Method("increment", Method("lookup", Name("m"), <<Name("s")>>), <<Lit(1)>>))>>

(* A program in which a disclose() adds a leak: a fold over an aggregate goes as
   many rounds as its operands have witnesses, and two more, so that one that
   never settles ends on the other constant when `half` is disclosed. *)
UnevenRounds ==
  LET half == Ternary(Binary(">", Call("w", << >>), Lit(0)), BoolLit(FALSE), BoolLit(FALSE))
  IN  {Program(Symbols, <<Circuit(<<Assign(Ternary([Flip EXCEPT !.kids[2] = half], Lit(0), Name("s")))>>)>>)}

SilentPrograms ==
  {Program(Symbols, <<Circuit(b)>>) : b \in {Shadowing, SettledTooEarly, UnseenReceiver}}
  \cup {Program(FarSymbols, <<Circuit(<<Assign(Name("s"))>>)>>)}
=============================================================================

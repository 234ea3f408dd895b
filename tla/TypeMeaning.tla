----------------------------- MODULE TypeMeaning -----------------------------
(***************************************************************************)
(* What the types of module Types mean, as sets of values, and what the    *)
(* checker's diagnostics and answers owe that meaning.  Nothing here reads *)
(* a type the checker computed: annotations are given their values, for    *)
(* every choice of the generic parameters in scope, expressions the values *)
(* of their declared types, and a rule of the language is an inclusion.    *)
(***************************************************************************)
EXTENDS Types

CONSTANTS FieldSize,      \* number of the values of Field, above every Uint
          Instantiations  \* the choices of generic parameters: N a size, T the values of a type

ASSUME MeaningAssumption ==
  /\ FieldSize \in Nat /\ FieldSize > TwoTo[MaxWidth]
  /\ Instantiations # {}
  /\ \A inst \in Instantiations : inst.N \in Nat /\ inst.T # {}

\* The methods that Cell shares with other builtin types are the same there.
ASSUME SurfacesAssumption ==
  /\ "Cell" \in DOMAIN Surfaces
  /\ \A a \in DOMAIN Surfaces : \A method \in DOMAIN Surfaces[a] \cap DOMAIN Surfaces["Cell"] :
       Surfaces[a][method] = Surfaces["Cell"][method]

-----------------------------------------------------------------------------
(* The values of annotations and expressions.  A value is a pair of a tag  *)
(* and what it holds; a struct's, an enum's or an alias's is the           *)
(* declaration itself.  What the language gives no meaning to, and the     *)
(* result of a ledger method, is opaque.                                   *)

Opaque == {<<"opaque", 0>>}
Booleans == {<<"boolean", b>> : b \in BOOLEAN}
Numbers(upper) == {<<"number", n>> : n \in 0..(upper - 1)}

\* One value of each set, in order.
Rows(sets) == {row \in [DOMAIN sets -> UNION {sets[i] : i \in DOMAIN sets}] :
                 \A i \in DOMAIN sets : row[i] \in sets[i]}
SequencesOf(sets) == {<<"sequence", row>> : row \in Rows(sets)}

SizeOf(size, inst) == IF size = Param THEN inst.N ELSE size

\* The widest type ends every range.
UintValues(sizes, inst) ==
  LET n == [i \in DOMAIN sizes |-> SizeOf(sizes[i], inst)]
      widest == TwoTo[MaxWidth]
  IN  CASE Len(n) = 1 /\ n[1] \in 1..MaxWidth -> Numbers(TwoTo[n[1]])
        [] Len(n) = 2 /\ n[1] = 0 /\ n[2] > 0 -> Numbers(IF n[2] < widest THEN n[2] ELSE widest)
        [] OTHER -> Opaque

NamedValues(d, x, inst) ==
  LET r == Resolve(d, 0, x)
  IN  CASE r.is = "generic" -> inst.T
        [] r.is = "item" -> {<<"declared", r.at>>}
        [] OTHER -> Opaque

\* The values of an annotation in d whose parts have these values.
AnnotationValues(d, t, inst, parts) ==
  CASE t.k = "Boolean" -> Booleans
    [] t.k = "Field" -> Numbers(FieldSize)
    [] t.k = "Uint" -> UintValues(t.sizes, inst)
    [] t.k = "Bytes" -> {<<"bytes", SizeOf(t.size, inst)>>}
    [] t.k = "Tuple" -> SequencesOf(parts)
    [] t.k = "Vector" -> SequencesOf([i \in 1..SizeOf(t.size, inst) |-> parts[1]])
    [] t.k = "Ref" -> NamedValues(d, t.name, inst)
    [] OTHER -> Opaque

Values(d, t, inst) ==
  LET Of[u \in Annotation] ==
        AnnotationValues(d, u, inst, [i \in DOMAIN Parts(u) |-> Of[Parts(u)[i]]])
  IN  Of[t]

\* The declarations a call of x in statement s of d may go to: the overloads in
\* the file where the name is found.
Overloads(d, s, x) ==
  LET r == Resolve(d, s, x)
  IN  {i \in DOMAIN program.decls : /\ r.is = "item" /\ Decl(i).file = Decl(r.at).file
                                   /\ Decl(i).name = x /\ Decl(i).kind \in Callables}

\* A member of what these values may be: the first field of that name counts.
FieldValues(values, x, inst) ==
  UNION {LET owner == Decl(v[2])
             at == {i \in DOMAIN owner.fields : owner.fields[i].name = x}
         IN  IF at = {} THEN {} ELSE Values(owner, owner.fields[Min(at)].ty, inst) :
    v \in {v \in values : v[1] = "declared"}}

OrOpaque(values) == IF values = {} THEN Opaque ELSE values

\* What r, which binds a name in d, is bound by.
Binding(d, r) == IF r.is = "param" THEN d.params[r.at] ELSE d.body[r.at]

\* The values of an expression in statement s of d whose operands have these values;
\* `whole` are the values of what binds it if it is the name of a local.
ExprValues(d, s, e, inst, parts, whole) ==
  LET r == Resolve(d, s, e.name)
      Spliced(i) == IF e.elems[i].k = "spread" THEN {v[2] : v \in parts[i]}
                                               ELSE {<<v>> : v \in parts[i]}
  IN  CASE e.k = "bool" -> Booleans
        [] e.k = "int" -> Numbers(e.n + 1)
        [] e.k = "string" -> {<<"string", 0>>}
        [] e.k = "cast" -> Values(d, e.ty, inst)
        [] e.k = "spread" -> parts[1]
        [] e.k = "array" /\ ~HasSpread(e.elems) -> SequencesOf(parts)
        [] e.k = "array" /\ HasSpread(e.elems) ->
             {<<"sequence", FlattenSeq(row)>> : row \in Rows([i \in DOMAIN parts |-> Spliced(i)])}
        [] e.k = "name" /\ r.is \in {"param", "const"} ->
             IF Binding(d, r).simple THEN whole ELSE {v[2][1] : v \in whole}
        [] e.k = "member" -> OrOpaque(FieldValues(parts[1], e.name, inst))
        [] e.k = "call" ->
             OrOpaque(UNION {Values(Decl(i), Decl(i).ret, inst) : i \in Overloads(d, s, e.name)})
        [] e.k = "struct" /\ r.is = "item" -> {<<"declared", r.at>>}
        [] OTHER -> Opaque

\* The values e may have in statement s of d, by the declarations it is made of.  A
\* const without annotation has those of its value.
ValuesOf(d, s, e, inst) ==
  LET Of[p \in (DOMAIN d.body) \X Expr] ==
        LET at == p[1]
            x == p[2]
            r == Resolve(d, at, x.name)
            whole == IF r.is = "const" /\ Binding(d, r).ty = Absent
                       THEN Of[<<r.at, Binding(d, r).value>>]
                       ELSE Values(d, Binding(d, r).ty, inst)
        IN  ExprValues(d, at, x, inst, [i \in DOMAIN Operands(x) |-> Of[<<at, Operands(x)[i]>>]],
                       whole)
  IN  Of[<<s, e>>]

\* Values over some others, and those of at most n levels more; no others are compared
\* with kinds.
ValuesOver(inner) ==
  Booleans \cup ({"number", "bytes", "declared"} \X Nat) \cup ({"string", "opaque"} \X {0})
    \cup ({"sequence"} \X Seq(inner))

ValueUpTo[n \in 0..Deepest] == ValuesOver(IF n = 0 THEN {} ELSE ValueUpTo[n - 1])
Value == ValueUpTo[Deepest]

\* Whether every value of a field of v is among those of the kind that is kept.
FieldsFit(v, kind, parts) ==
  LET owner == Decl(v[2])
  IN  /\ owner.name = kind.name /\ Len(owner.fields) = Len(kind.fields)
      /\ \A i \in DOMAIN kind.fields :
           /\ owner.fields[i].name = kind.fields[i].name
           /\ \A inst \in Instantiations :
                Values(owner, owner.fields[i].ty, inst) \cap Value \subseteq parts[i]

\* The values a kind the checker keeps lets through, whose parts let through these.
KindMembers(kind, parts) ==
  LET PartAt(i) == parts[IF kind.k = "Vector" THEN 1 ELSE i]
  IN  {v \in Value :
         CASE kind.k = "Boolean" -> v[1] = "boolean"
           [] kind.k = "Field" -> v[1] = "number"
           [] kind.k = "Uint" -> v[1] = "number" /\ (kind.upper = None \/ v[2] < kind.upper)
           [] kind.k = "Bytes" -> v[1] = "bytes" /\ v[2] = kind.size
           [] IsSeqKind(kind) -> /\ v[1] = "sequence" /\ Len(v[2]) = SeqLen(kind)
                                 /\ \A i \in DOMAIN v[2] : v[2][i] \in PartAt(i)
           [] kind.k = "Enum" -> v[1] = "declared" /\ Decl(v[2]).name = kind.name
           [] kind.k = "Struct" -> v[1] = "declared" /\ FieldsFit(v, kind, parts)
           [] OTHER -> TRUE}

Members[kind \in Kind] ==
  KindMembers(kind, [i \in DOMAIN Parts(kind) |-> Members[Parts(kind)[i]]])

-----------------------------------------------------------------------------
(* What each rule forbids.                                                 *)

\* No value of one kind can be read as one of the other.
Uncastable(source, target) ==
  LET Of(set, tag) == set # {} /\ \A v \in set : v[1] = tag
  IN  \/ Of(source, "boolean") /\ Of(target, "bytes")
      \/ Of(source, "bytes") /\ Of(target, "boolean")
      \/ Of(source, "bytes") /\ Of(target, "bytes") /\ source \cap target = {}

\* The ADT of a ledger field, told apart in the field's own file.
TrueAdt(f) ==
  LET r == Resolve(f, 0, f.head.name)
  IN  IF f.head.k = "Ref" /\ r.is = "nothing" THEN f.head.name ELSE "Cell"

\* A call with these arguments goes to callee c.
Accepts(c, d, s, args, inst) ==
  /\ Len(args) = Len(c.params)
  /\ \A i \in DOMAIN args : ValuesOf(d, s, args[i], inst) \subseteq Values(c, c.params[i].ty, inst)

\* What diagnostic g says is so, for these generic parameters.
Holds(g, inst) ==
  LET d == Decl(g.owner)
      r == Resolve(d, g.at, g.node.name)
      field == Decl(Resolve(d, g.at, g.node.of.name).at)
      methods == Surfaces[TrueAdt(field)]
  IN  CASE g.code = "E3001" -> ~(ValuesOf(d, g.at, g.node, inst) \subseteq Values(d, d.ret, inst))
        [] g.code = "E3002" ->
             Uncastable(ValuesOf(d, g.at, g.node.of, inst), Values(d, g.node.ty, inst))
        [] g.code = "E3003" -> r.is = "item" /\ Len(Decl(r.at).generics) # g.node.args
        [] g.code = "E3004" ->
             g.node.name \in DOMAIN methods =>
               ~(ValuesOf(d, g.at, g.node.args[g.arg], inst)
                   \subseteq Values(d, methods[g.node.name][g.arg], inst))
        [] g.code = "E3005" ->
             \E i, j \in DOMAIN d.params : i # j /\ d.params[i].name = d.params[j].name
        [] g.code = "E3006" ->
             \A i \in Overloads(d, g.at, g.node.name) :
               ~Accepts(Decl(i), d, g.at, g.node.args, inst)

IsReal(g) == \A inst \in Instantiations : Holds(g, inst)

-----------------------------------------------------------------------------
(* Properties                                                              *)

\* "Never a false positive": every diagnostic of a finished check marks a place
\* that breaks the rule it names under every choice of the generic parameters,
\* so a program the compiler accepts gets none (type_diagnostics).
NoFalsePositive == pass = "done" => \A g \in diags : IsReal(g)

\* Types and expressions the checker claims to model: nothing generic, named or
\* too large for its integers.
Modelled(t) ==
  \A u \in SubTypes[t] :
    CASE u.k = "Uint" -> \/ Len(u.sizes) = 1 /\ u.sizes[1] \in 1..(WordBits - 1)
                         \/ Len(u.sizes) = 2 /\ u.sizes[1] = 0 /\ u.sizes[2] \in 1..(TwoTo[WordBits] - 1)
      [] u.k \in {"Bytes", "Vector"} -> u.size \in 0..MaxLength
      [] OTHER -> u.k \in {"Boolean", "Field", "Tuple"}

ModelledExpr(e) ==
  \A x \in SubExprs[e] :
    \/ x.k = "bool"
    \/ x.k = "int" /\ x.n + 1 < TwoTo[WordBits]
    \/ x.k = "cast" /\ Modelled(x.ty)
    \/ x.k = "array"

\* Argument i of the call can not be what c declares, by types that are modelled.
Misfit(c, d, s, args, i) ==
  /\ ModelledExpr(args[i]) /\ Modelled(c.params[i].ty)
  /\ \E inst \in Instantiations :
       ~(ValuesOf(d, s, args[i], inst) \subseteq Values(c, c.params[i].ty, inst))

\* The other direction, for the types that are modelled: a return that does not
\* fit is reported (type_diagnostics_query),
ReturnsAreChecked(o) ==
  LET d == Decl(o)
  IN  \A s \in CircuitReturns(d) :
        /\ ModelledExpr(d.body[s].value) /\ Modelled(d.ret)
        /\ \E inst \in Instantiations :
             ~(ValuesOf(d, s, d.body[s].value, inst) \subseteq Values(d, d.ret, inst))
        => \E g \in diags : /\ g.owner = o /\ g.at = s /\ g.node = d.body[s].value
                            /\ g.code \in {"E3001", "E3002"}

\* and an argument, or a number of arguments, that does not fit the only
\* declaration of this file the call may go to (call_arg_diagnostics_query),
ArgumentsAreChecked(o) ==
  LET d == Decl(o)
  IN  \A x \in ExprsOf(d) : \A c \in DeclsOf(Callables) :
        /\ x[2].k = "call" /\ Resolve(d, x[1], x[2].name) = [is |-> "item", at |-> c]
        /\ Overloads(d, x[1], x[2].name) = {c}
        /\ Decl(c).generics = <<>> /\ ~HasSpread(x[2].args)
        /\ \/ Len(x[2].args) # Len(Decl(c).params)
           \/ \E i \in DOMAIN x[2].args : Misfit(Decl(c), d, x[1], x[2].args, i)
        => \E g \in diags : g.owner = o /\ g.at = x[1] /\ g.node = x[2] /\ g.code = "E3006"

\* unless they lie in a generic module.
MismatchesAreReported ==
  pass = "done" => \A o \in DeclsOf({"circuit"}) :
                     ~Decl(o).generic_module => ReturnsAreChecked(o) /\ ArgumentsAreChecked(o)

DiagnosticsAreExact == NoFalsePositive /\ MismatchesAreReported

\* Programs no cast of which is to a Uint whose bound is a generic parameter: the
\* checker takes such a bound to be too large to keep, where it may be small, and
\* then reports what the compiler accepts (uint_bound).
NumberedType(t) == \A u \in SubTypes[t] : u.k = "Uint" /\ Len(u.sizes) = 2 => u.sizes[2] # Param
NumberedBounds(p) ==
  \A i \in DOMAIN p.decls : \A x \in ExprsOf(p.decls[i]) : x[2].k = "cast" => NumberedType(x[2].ty)

\* A kind none of whose parts is unknown, too large or declared.
IsExact(kind) ==
  \A k \in SubTypes[kind] : IF k.k = "Uint" THEN k.upper # None
                            ELSE k.k \in {"Boolean", "Field", "Bytes", "Tuple", "Vector"}

\* The type shown for an expression is its type: it has all the values the
\* expression may have, a struct's fields included, and a number type no others;
\* and what is displayed is that type when read as an annotation (type_at,
\* expr_ty, display_kind).
TypeShownIsRight ==
  answer # NoAnswer =>
    LET Shown(inst) == ValuesOf(Decl(answer.owner), answer.at, answer.node, inst)
    IN  /\ \A inst \in Instantiations : Shown(inst) \cap Value \subseteq Members[answer.kind]
        /\ IsExact(answer.kind) =>
             /\ TypeNodeKind[DisplayKind[answer.kind]] = answer.kind
             /\ \A inst \in Instantiations : \A n \in 0..(FieldSize - 1) :
                  <<"number", n>> \in Members[answer.kind] => <<"number", n>> \in Shown(inst)

\* The methods shown for a ledger field of this file are those its calls are
\* checked against, unless its type is declared beyond the direct dependencies
\* (ledger_field_adt, ledger_adt_at).
MethodsShownAreChecked ==
  \A o \in DeclsOf({"circuit"}) : \A f \in DeclsOf({"ledger"}) :
    LET r == Resolve(Decl(f), 0, Decl(f).head.name)
    IN  /\ Resolve(Decl(o), 0, Decl(f).name) = [is |-> "item", at |-> f]
        /\ Decl(f).head.k = "Ref" /\ (r.is = "item" => ItemSymbol(r))
        => LedgerAdtAt(Decl(o), 0, Decl(f).name) \subseteq {LedgerFieldAdt(Decl(f))}

AnswersAreRight == TypeShownIsRight /\ MethodsShownAreChecked

=============================================================================

-------------------------------- MODULE Types --------------------------------
(***************************************************************************)
(* The native type checker: how annotations and literals become types,     *)
(* when a type may be used for another, the five passes of                 *)
(* AnalysisHost::type_diagnostics over one file, and the type shown at a   *)
(* position (type_at).                                                     *)
(* Source: crates/analyzer-core/src/ty.rs, infer.rs, ledger_adts.rs, db.rs.*)
(*                                                                         *)
(* A program is a sequence of declarations in the checked file, "here", in *)
(* a file it depends on, "there", or in one that file depends on, "far".   *)
(* Names are resolved by module Names; here a name means the nearest local *)
(* or the first declaration of that name.  The numeric limits of the code  *)
(* (u128, 248 bits, u32 lengths, a depth of 32) are parameters, so that    *)
(* small numbers reach them.  A generic numeric parameter is the size      *)
(* Param; a checked integer operation that has no result is None.          *)
(*                                                                         *)
(* Types and expressions are finite trees.  What recurses on them is a     *)
(* function on the trees of some nesting; MaxNesting is as large as the    *)
(* programs require.                                                       *)
(***************************************************************************)
EXTENDS Integers, Sequences, FiniteSets, SequencesExt, TLC

CONSTANTS Programs,   \* the programs to check
          Surfaces,   \* ADT -> method -> the annotations of its parameters
          WordBits,   \* width of the integers bounds are kept in (128)
          MaxWidth,   \* widest Uint<k> of the language (248)
          MaxLength,  \* longest Bytes or Vector kept (u32::MAX)
          MaxDepth,   \* MAX_NOMINAL_DEPTH (32)
          MaxNesting  \* how deep the types and the expressions of a program nest

\* Powers of two, by a definition that can be reasoned about.
TwoTo[n \in 0..MaxWidth] == IF n = 0 THEN 1 ELSE 2 * TwoTo[n - 1]

ASSUME LimitsAssumption ==
  /\ {WordBits, MaxWidth, MaxLength, MaxDepth} \subseteq Nat \ {0} /\ MaxNesting \in Nat
  /\ WordBits <= MaxWidth /\ MaxWidth < TwoTo[WordBits] /\ MaxLength < TwoTo[WordBits]

VARIABLES program,  \* the file being checked and what it depends on
          pass,     \* the next pass of type_diagnostics
          diags,    \* the diagnostics so far
          answer    \* the last expression asked about by type_at, and its type

vars == <<program, pass, diags, answer>>

-----------------------------------------------------------------------------
(* Types.  The kinds the checker keeps are records tagged `k`, and so are  *)
(* the annotations they are lowered from; Boolean and Field are both.      *)

None == -1
Param == -2

Boolean == [k |-> "Boolean"]
Field == [k |-> "Field"]
Unknown == [k |-> "Unknown"]
Uint(upper) == [k |-> "Uint", upper |-> upper]
Bytes(n) == [k |-> "Bytes", size |-> n]
Tuple(elems) == [k |-> "Tuple", elems |-> elems]
Vector(n, elem) == [k |-> "Vector", size |-> n, elem |-> elem]
Struct(name, fields) == [k |-> "Struct", name |-> name, fields |-> fields]
Enum(name) == [k |-> "Enum", name |-> name]

\* A type that is not written down.
Absent == [k |-> "Absent"]

\* No kind has more levels: the array that an expression makes of types, or the types in
\* the fields of nested structs.
Deepest == 2 * MaxNesting + MaxDepth

\* Annotations over some others, and those of at most n levels more.
Size == Nat \cup {Param}
AnnotationsOver(inner) ==
  {Boolean, Field, Absent}
    \cup [k : {"Uint"}, sizes : {sizes \in Seq(Size) : Len(sizes) \in 1..2}]
    \cup [k : {"Bytes"}, size : Size]
    \cup [k : {"Ref"}, name : STRING, args : Nat]
    \cup [k : {"Tuple"}, elems : Seq(inner)]
    \cup [k : {"Vector"}, size : Size, elem : inner]

AnnotationUpTo[n \in 0..Deepest] ==
  AnnotationsOver(IF n = 0 THEN {} ELSE AnnotationUpTo[n - 1])

\* Kinds alike; a bound that is kept fits the integers it is kept in.
KindsOver(inner) ==
  {Boolean, Field, Unknown}
    \cup [k : {"Uint"}, upper : 1..(TwoTo[WordBits] - 1) \cup {None}]
    \cup [k : {"Bytes"}, size : 0..MaxLength]
    \cup [k : {"Enum"}, name : STRING]
    \cup [k : {"Tuple"}, elems : Seq(inner)]
    \cup [k : {"Vector"}, size : 0..MaxLength, elem : inner]
    \cup [k : {"Struct"}, name : STRING, fields : Seq([name : STRING, kind : inner])]

KindUpTo[n \in 0..Deepest] == KindsOver(IF n = 0 THEN {} ELSE KindUpTo[n - 1])

Annotation == AnnotationUpTo[Deepest]
Kind == KindUpTo[Deepest]

\* What an annotation or a kind is made of.
Parts(t) ==
  CASE t.k = "Tuple" -> t.elems
    [] t.k = "Vector" -> <<t.elem>>
    [] t.k = "Struct" -> [i \in DOMAIN t.fields |-> t.fields[i].kind]
    [] OTHER -> <<>>

IsSeqKind(t) == t.k \in {"Tuple", "Vector"}
SeqLen(t) == IF t.k = "Tuple" THEN Len(t.elems) ELSE t.size
SeqElem(t, i) == IF t.k = "Tuple" THEN t.elems[i] ELSE t.elem

\* a <= b for upper bounds of which None is too large to keep.  Undecidable
\* between two of those, and accepted.
UintUpperLe(a, b) == b = None \/ (a # None /\ a <= b)

Supertypes[sub \in Kind] ==
  {sup \in Kind :
     \/ Unknown \in {sub, sup}
     \/ sub = sup /\ sub.k \in {"Boolean", "Field"}
     \/ sub.k = "Uint" /\ sup.k = "Field"
     \/ sub.k = "Uint" /\ sup.k = "Uint" /\ UintUpperLe(sub.upper, sup.upper)
     \/ sub.k = "Bytes" /\ sup.k = "Bytes" /\ sub.size = sup.size
     \/ /\ IsSeqKind(sub) /\ IsSeqKind(sup)
        /\ SeqLen(sub) = SeqLen(sup)
        /\ \A i \in 1..SeqLen(sub) : SeqElem(sup, i) \in Supertypes[SeqElem(sub, i)]
     \/ sub.k \in {"Struct", "Enum"} /\ sup.k = sub.k /\ sub.name = sup.name}

IsSubtype(sub, sup) == sup \in Supertypes[sub]

CanCast(src, tgt) ==
  /\ {src.k, tgt.k} # {"Boolean", "Bytes"}
  /\ src.k = "Bytes" /\ tgt.k = "Bytes" => src.size = tgt.size

-----------------------------------------------------------------------------
(* From annotations and literals to kinds, within one file.                *)

\* A size parses when it is written out and fits the integers of the code.
ParseIntLiteral(size) == IF size >= 0 /\ size < TwoTo[WordBits] THEN size ELSE None

\* Uint<k> and Uint<0..hi>, both by the bound above their values.
UintBound(sizes) ==
  LET n == [i \in DOMAIN sizes |-> ParseIntLiteral(sizes[i])]
  IN  CASE Len(sizes) = 1 /\ n[1] \in 1..MaxWidth ->
             Uint(IF n[1] < WordBits THEN TwoTo[n[1]] ELSE None)
        [] Len(sizes) = 2 /\ n[1] = 0 /\ n[2] # 0 -> Uint(n[2])
        [] OTHER -> Unknown

IsLength(size) == ParseIntLiteral(size) \in 0..MaxLength

\* The kind of an annotation whose parts have these kinds.  Named types are unknown
\* to the lowering that does not resolve names.
AnnotationKind(t, parts) ==
  CASE t.k \in {"Boolean", "Field"} -> t
    [] t.k = "Uint" -> UintBound(t.sizes)
    [] t.k = "Bytes" /\ IsLength(t.size) -> Bytes(t.size)
    [] t.k = "Tuple" -> Tuple(parts)
    [] t.k = "Vector" /\ IsLength(t.size) -> Vector(t.size, parts[1])
    [] OTHER -> Unknown

TypeNodeKind[t \in Annotation] ==
  AnnotationKind(t, [i \in DOMAIN Parts(t) |-> TypeNodeKind[Parts(t)[i]]])

\* Expressions over some others, and those of at most n levels more.
ExprsOver(inner) ==
  [k : {"bool", "string"}]
    \cup [k : {"int"}, n : Nat]
    \cup [k : {"name", "struct"}, name : STRING]
    \cup [k : {"spread"}, of : inner]
    \cup [k : {"cast"}, of : inner, ty : AnnotationUpTo[MaxNesting]]
    \cup [k : {"member"}, of : inner, name : STRING]
    \cup [k : {"array"}, elems : Seq(inner)]
    \cup [k : {"call"}, name : STRING, args : Seq(inner)]
    \cup [k : {"method"}, of : inner, name : STRING, args : Seq(inner)]

ExprUpTo[n \in 0..MaxNesting] == ExprsOver(IF n = 0 THEN {} ELSE ExprUpTo[n - 1])
Expr == ExprUpTo[MaxNesting]

\* What an expression is made of.
Operands(e) ==
  CASE e.k \in {"cast", "member", "spread"} -> <<e.of>>
    [] e.k = "array" -> e.elems
    [] e.k = "call" -> e.args
    [] e.k = "method" -> <<e.of>> \o e.args
    [] OTHER -> <<>>

\* n has the type of 0..n, whose upper bound n + 1 may not fit either.
LiteralTyKind(e) ==
  CASE e.k = "bool" -> Boolean
    [] e.k = "int" -> LET n == ParseIntLiteral(e.n)
                      IN  Uint(IF n = None THEN None ELSE ParseIntLiteral(n + 1))
    [] OTHER -> Unknown

\* Literals, casts and arrays without a spread have a type of their own.
HasSpread(es) == \E i \in DOMAIN es : es[i].k = "spread"

ExprKind(e, kinds) ==
  CASE e.k \in {"bool", "int", "string"} -> LiteralTyKind(e)
    [] e.k = "cast" -> TypeNodeKind[e.ty]
    [] e.k = "array" /\ ~HasSpread(e.elems) -> Tuple(kinds)
    [] OTHER -> Unknown

ExprTyKind[e \in Expr] ==
  ExprKind(e, [i \in DOMAIN Operands(e) |-> ExprTyKind[Operands(e)[i]]])

CastError(e) == e.k = "cast" /\ ~CanCast(ExprTyKind[e.of], TypeNodeKind[e.ty])

\* The annotation a kind is displayed as; Unknown and None are displayed as "?".
UintSizes(upper) ==
  LET widths == {w \in 1..MaxWidth : TwoTo[w] = upper}
  IN  IF widths # {} THEN <<Min(widths)>> ELSE <<0, upper>>

Displayed(kind, parts) ==
  CASE kind.k = "Uint" -> [k |-> "Uint", sizes |-> UintSizes(kind.upper)]
    [] kind.k = "Tuple" -> Tuple(parts)
    [] kind.k = "Vector" -> Vector(kind.size, parts[1])
    [] OTHER -> kind

DisplayKind[kind \in Kind] ==
  Displayed(kind, [i \in DOMAIN Parts(kind) |-> DisplayKind[Parts(kind)[i]]])

-----------------------------------------------------------------------------
(* Declarations and the names in them.                                     *)

NamedTypes == {"struct", "enum", "alias"}
Callables == {"circuit", "witness"}
Files == {"here", "there", "far"}

\* What the parser and the index make of any files.
Written == AnnotationUpTo[MaxNesting]
Parameter == [name : STRING, key : STRING, simple : BOOLEAN, ty : Written]
StructField == [name : STRING, ty : Written]
Statement == [k : STRING, name : STRING, simple : BOOLEAN, ty : Written, value : Expr]
Declaration ==
  [name : STRING, kind : STRING, file : Files, generic_module : BOOLEAN, generics : Seq(STRING),
   params : Seq(Parameter), fields : Seq(StructField), ret : Written, head : Written,
   body : Seq(Statement)]
WellFormed(p) == p \in [decls : Seq(Declaration), published : SUBSET Files]

ASSUME ProgramsAssumption ==
  /\ \A p \in Programs : WellFormed(p)
  /\ \A a \in DOMAIN Surfaces : \A method \in DOMAIN Surfaces[a] :
       Surfaces[a][method] \in Seq(Written)

Decl(i) == program.decls[i]
DeclsOf(kinds) ==
  {i \in DOMAIN program.decls : Decl(i).file = "here" /\ Decl(i).kind \in kinds}

\* What the declarations of a file can name, nearest first.
Sees(file) == CASE file = "here" -> <<"here", "there", "far">>
                [] file = "there" -> <<"there", "far">>
                [] OTHER -> <<"far">>

Generics(d) == ToSet(d.generics) \cup (IF d.generic_module THEN {"N", "T"} ELSE {})

\* What x means in statement s of declaration d, or in its signature (s = 0):
\* the last const before s, a parameter, a generic parameter, or an item.
Resolve(d, s, x) ==
  LET Named(seq, dom) == {j \in dom : seq[j].name = x}
      consts == {j \in Named(d.body, 1..(s - 1)) : d.body[j].k = "const"}
      params == Named(d.params, DOMAIN d.params)
      InFile(f) == {i \in Named(program.decls, DOMAIN program.decls) : Decl(i).file = f}
      files == Sees(d.file)
      seen == {n \in DOMAIN files : InFile(files[n]) # {}}
  IN  CASE consts # {} -> [is |-> "const", at |-> Max(consts)]
        [] consts = {} /\ params # {} -> [is |-> "param", at |-> Min(params)]
        [] consts \cup params = {} /\ x \in Generics(d) -> [is |-> "generic", at |-> 0]
        [] OTHER -> IF seen = {} THEN [is |-> "nothing", at |-> 0]
                                 ELSE [is |-> "item", at |-> Min(InFile(files[Min(seen)]))]

\* The declarations the checked file reads itself: its own and its direct
\* dependencies'.
ItemSymbol(r) == r.is = "item" /\ Decl(r.at).file \in {"here", "there"}

-----------------------------------------------------------------------------
(* From named types to kinds, over the files.                              *)

\* `kinds` says what each declaration is where it is reached: it is a function of
\* the declaration that names it, of the structs on the way there, and of it.

LowerNamedAt(d, s, x, visited, kinds) ==
  LET r == Resolve(d, s, x)
  IN  IF r.is = "item" THEN kinds[d][visited][r.at] ELSE Unknown

\* Mutant: the type names of a struct's fields are looked up where it is used.
MutantLowerTypeIn(user, owner, t, visited, kinds) ==
  IF t.k = "Ref" THEN LowerNamedAt(user, 0, t.name, visited, kinds) ELSE TypeNodeKind[t]

\* The type t of a field of struct `owner`, reached from `user`: names need the
\* dependencies of the owner's file, which the workspace may not have published.
LowerTypeIn(user, owner, t, visited, kinds) ==
  IF t.k # "Ref" THEN TypeNodeKind[t]
  ELSE IF owner.file \in {user.file} \cup program.published
    THEN LowerNamedAt(owner, 0, t.name, visited, kinds)
    ELSE Unknown

BuildStructFields(user, owner, visited, kinds) ==
  [i \in DOMAIN owner.fields |->
     [name |-> owner.fields[i].name,
      kind |-> LowerTypeIn(user, owner, owner.fields[i].ty, visited, kinds)]]

\* A struct that is already being lowered, or has no more room, is unknown.
DeclKinds[room \in 0..MaxDepth] ==
  [user \in ToSet(program.decls) |-> [visited \in SUBSET STRING |->
     [i \in DOMAIN program.decls |->
        LET owner == Decl(i)
            within == visited \cup {owner.name}
        IN  CASE room > 0 /\ owner.kind = "struct" /\ owner.name \notin visited ->
                   Struct(owner.name, BuildStructFields(user, owner, within, DeclKinds[room - 1]))
              [] room > 0 /\ owner.kind = "enum" -> Enum(owner.name)
              [] OTHER -> Unknown]]]

NamedTypeTy(d, s, x) == LowerNamedAt(d, s, x, {}, DeclKinds[MaxDepth])

TypeKindResolved(d, s, t) ==
  IF t.k = "Ref" THEN NamedTypeTy(d, s, t.name) ELSE TypeNodeKind[t]

-----------------------------------------------------------------------------
(* The type of any expression, for the editor.                             *)

\* Mutant: an overload set counts as its first member.
MutantUniqueCallee(d, s, x) ==
  LET r == Resolve(d, s, x)
  IN  {i \in DeclsOf(Callables) : r.is = "item" /\ i = r.at /\ Decl(i).generics = <<>>}

\* The declaration a call of x goes to, if it is certain: in this file, not
\* generic, and the only callable of its name there.
UniqueCallee(d, s, x) ==
  LET r == Resolve(d, s, x)
  IN  {i \in DeclsOf(Callables) :
         /\ r.is = "item" /\ i = r.at
         /\ Decl(i).generics = <<>>
         /\ \A j \in DeclsOf(Callables) : Decl(j).name = x => j = i}

CalleeReturnTy(d, s, x) ==
  LET callee == UniqueCallee(d, s, x)
  IN  IF callee = {} THEN Unknown
      ELSE LET c == Decl(CHOOSE i \in callee : TRUE) IN TypeKindResolved(c, 0, c.ret)

FieldKind(recv, field) ==
  LET at == IF recv.k = "Struct" THEN {i \in DOMAIN recv.fields : recv.fields[i].name = field}
                                 ELSE {}
  IN  IF at = {} THEN Unknown ELSE recv.fields[Min(at)].kind

\* Mutant: a name bound by a pattern gets the type of all it was taken from.
MutantLocalBindingTy(d, r) ==
  CASE r.is = "param" -> TypeKindResolved(d, 0, d.params[r.at].ty)
    [] r.is = "const" /\ d.body[r.at].ty # Absent ->
         TypeKindResolved(d, r.at, d.body[r.at].ty)
    [] OTHER -> Unknown

\* The annotation of a parameter or const that binds a plain name.
LocalBindingTy(d, r) ==
  CASE r.is = "param" /\ d.params[r.at].simple -> TypeKindResolved(d, 0, d.params[r.at].ty)
    [] r.is = "const" /\ d.body[r.at].simple /\ d.body[r.at].ty # Absent ->
         TypeKindResolved(d, r.at, d.body[r.at].ty)
    [] OTHER -> Unknown

\* e in statement s of d, whose locals and operands have these types.  A const
\* without annotation has the type of its value.
ExprTy(d, s, e, types) ==
  LET r == Resolve(d, s, e.name)
  IN  CASE e.k = "name" -> IF r.is = "const" /\ d.body[r.at].simple /\ d.body[r.at].ty = Absent
                             THEN types[r.at][d.body[r.at].value]
                             ELSE LocalBindingTy(d, r)
        [] e.k = "member" -> FieldKind(types[s][e.of], e.name)
        [] e.k = "call" -> CalleeReturnTy(d, s, e.name)
        [] e.k = "struct" -> NamedTypeTy(d, s, e.name)
        [] OTHER -> ExprTyKind[e]

ExprTypes(d, types) == [s \in DOMAIN d.body |-> [e \in Expr |-> ExprTy(d, s, e, types)]]

\* One level deeper with each member and each const.
TypeExpr(d, s, e) ==
  LET At[room \in 0..MaxDepth] ==
        IF room = 0 THEN [at \in DOMAIN d.body |-> [x \in Expr |-> Unknown]]
                    ELSE ExprTypes(d, At[room - 1])
  IN  At[MaxDepth][s][e]

-----------------------------------------------------------------------------
(* What a declaration is made of.                                          *)

SubExprs[e \in Expr] ==
  {e} \cup UNION {SubExprs[Operands(e)[i]] : i \in DOMAIN Operands(e)}

\* The expressions of d with the statement they are in.
ExprsOf(d) == UNION {{s} \X SubExprs[d.body[s].value] : s \in DOMAIN d.body}

SubTypes[t \in Annotation \cup Kind] ==
  {t} \cup UNION {SubTypes[Parts(t)[i]] : i \in DOMAIN Parts(t)}

\* The types written in d, with the statement they are in, or 0 for its signature.
TypesIn(d) ==
  LET signature == {d.ret, d.head} \cup {d.params[i].ty : i \in DOMAIN d.params}
                     \cup {d.fields[i].ty : i \in DOMAIN d.fields}
  IN  {<<0, t>> : t \in signature}
        \cup {<<s, d.body[s].ty>> : s \in DOMAIN d.body}
        \cup {<<x[1], x[2].ty>> : x \in {y \in ExprsOf(d) : y[2].k = "cast"}}

\* The uses of named types in d.
TypeRefs(d) ==
  UNION {{w[1]} \X {t \in SubTypes[w[2]] : t.k = "Ref"} : w \in TypesIn(d)}

\* The statements of c that return a literal, a cast or an array.  Only those at
\* the top of the body count.
CircuitReturns(c) ==
  {s \in DOMAIN c.body : c.body[s].k = "return"
                           /\ c.body[s].value.k \in {"bool", "int", "string", "cast", "array"}}

-----------------------------------------------------------------------------
(* The passes.  A diagnostic says which rule, in which declaration and     *)
(* statement, about which node, and about which argument of it if any.     *)

Diag(code, owner, at, node, arg) ==
  [code |-> code, owner |-> owner, at |-> at, node |-> node, arg |-> arg]

Report(from, to, found) ==
  /\ pass = from
  /\ diags' = diags \cup found
  /\ pass' = to
  /\ UNCHANGED <<program, answer>>

\* An illegal cast is reported instead of the mismatch of its result.
ReturnMismatches ==
  UNION {LET c == Decl(i)
             declared == TypeNodeKind[c.ret]
             Operand(s) == c.body[s].value
         IN  {Diag("E3002", i, s, Operand(s), 0) :
                s \in {s \in CircuitReturns(c) : CastError(Operand(s))}}
               \cup
             {Diag("E3001", i, s, Operand(s), 0) :
                s \in {s \in CircuitReturns(c) :
                         /\ ~CastError(Operand(s))
                         /\ declared # Unknown
                         /\ ~IsSubtype(ExprTyKind[Operand(s)], declared)}}
         : i \in DeclsOf({"circuit"})}
TypeDiagnostics == Report("types", "signatures", ReturnMismatches)

\* Mutant: the first identifier of a pattern counts as the name it binds.
MutantParamName(d, i) == {d.params[i].key}

\* The names a signature binds as far as the check sees them: a pattern counts
\* for none.
ParamName(d, i) == IF d.params[i].simple THEN {d.params[i].name} ELSE {}

FirstDuplicate(d) ==
  LET again == {i \in DOMAIN d.params : \E j \in 1..(i - 1) :
                  ParamName(d, i) \cap ParamName(d, j) # {}}
  IN  IF again = {} THEN {} ELSE {Min(again)}

DuplicateParams ==
  UNION {{Diag("E3005", i, 0, Absent, n) : n \in FirstDuplicate(Decl(i))} : i \in DeclsOf(Callables)}
SignatureDiagnostics == Report("signatures", "generics", DuplicateParams)

\* Every named type carries as many arguments as it declares parameters.
ArityMismatches ==
  UNION {{Diag("E3003", i, w[1], w[2], 0) :
            w \in {w \in TypeRefs(Decl(i)) :
              LET r == Resolve(Decl(i), w[1], w[2].name)
              IN  /\ ItemSymbol(r) /\ Decl(r.at).kind \in NamedTypes
                  /\ w[2].args # Len(Decl(r.at).generics)}}
         : i \in {j \in DOMAIN program.decls : Decl(j).file = "here"}}
GenericDiagnostics == Report("generics", "ledger calls", ArityMismatches)

\* The arguments that do not fit the parameters they stand at.  An unknown type
\* on either side fits.
Misfits(params, args) ==
  {i \in DOMAIN params \cap DOMAIN args : ~IsSubtype(ExprTyKind[args[i]], params[i])}

\* Whether the type a ledger field is declared with is one of the program's.
IsUserType(r) == ItemSymbol(r) /\ Decl(r.at).kind \in NamedTypes

\* The builtin ADT of the field x names in statement s of d, or None.  Whether
\* the field's type is builtin is only asked for a field of this file.
LedgerAdtAt(d, s, x) ==
  LET r == Resolve(d, s, x)
      field == Decl(r.at)
  IN  IF /\ ItemSymbol(r) /\ field.kind = "ledger" /\ field.head.k = "Ref"
         /\ field.file = "here" => ~IsUserType(Resolve(field, 0, field.head.name))
         /\ field.head.name \in DOMAIN Surfaces
        THEN {field.head.name} ELSE {}

\* The ADT whose methods completion and hover show for field f: a field that is
\* of no builtin ADT is a Cell of what it is declared as.
LedgerFieldAdt(f) ==
  LET r == Resolve(f, 0, f.head.name)
  IN  IF /\ f.head.k = "Ref" /\ f.head.name \in DOMAIN Surfaces
         /\ ~(r.is = "item" /\ Decl(r.at).kind \in NamedTypes)
        THEN f.head.name ELSE "Cell"

MethodParams(adt, method) ==
  LET sig == Surfaces[adt][method] IN [i \in DOMAIN sig |-> TypeNodeKind[sig[i]]]

LedgerMisfits ==
  UNION {UNION {
    LET call == x[2]
        adt == IF call.of.k = "name" THEN LedgerAdtAt(Decl(i), x[1], call.of.name) ELSE {}
    IN  UNION {{Diag("E3004", i, x[1], call, n) : n \in Misfits(MethodParams(a, call.name), call.args)}
               : a \in {b \in adt : call.name \in DOMAIN Surfaces[b]}}
    : x \in {y \in ExprsOf(Decl(i)) : y[2].k = "method"}}
    : i \in DeclsOf({"circuit"})}
LedgerCallDiagnostics == Report("ledger calls", "calls", LedgerMisfits)

\* A spread makes the number of arguments uncertain; a wrong number (0) is
\* reported instead of the arguments.
CallMisfits(params, args) ==
  IF HasSpread(args) THEN {}
  ELSE IF Len(args) # Len(params) THEN {0} ELSE Misfits(params, args)

ArgMisfits ==
  UNION {UNION {
    UNION {LET params == Decl(callee).params
           IN  {Diag("E3006", i, x[1], x[2], n) :
                  n \in CallMisfits([j \in DOMAIN params |-> TypeNodeKind[params[j].ty]],
                                    x[2].args)}
           : callee \in UniqueCallee(Decl(i), x[1], x[2].name)}
    : x \in {y \in ExprsOf(Decl(i)) : y[2].k = "call"}}
    : i \in DeclsOf({"circuit"})}
CallArgDiagnostics == Report("calls", "generic modules", ArgMisfits)

\* The compiler checks a generic module only where it is instantiated: nothing
\* is reported inside one.
DropGenericModules ==
  /\ pass = "generic modules"
  /\ diags' = {d \in diags : ~Decl(d.owner).generic_module}
  /\ pass' = "done"
  /\ UNCHANGED <<program, answer>>

NoAnswer == [owner |-> 0, at |-> 0, node |-> Absent, kind |-> Unknown]

\* The type shown for an expression: hover, hints and member completion ask at
\* any time; here after the passes, which neither read nor change it.
TypeAt ==
  /\ pass = "done" /\ answer = NoAnswer
  /\ \E i \in DeclsOf({"circuit"}) : \E x \in ExprsOf(Decl(i)) :
       answer' = [owner |-> i, at |-> x[1], node |-> x[2],
                  kind |-> TypeExpr(Decl(i), x[1], x[2])]
  /\ UNCHANGED <<program, pass, diags>>

Init ==
  /\ program \in Programs
  /\ pass = "types"
  /\ diags = {}
  /\ answer = NoAnswer

Next ==
  \/ TypeDiagnostics \/ SignatureDiagnostics \/ GenericDiagnostics
  \/ LedgerCallDiagnostics \/ CallArgDiagnostics \/ DropGenericModules
  \/ TypeAt

Spec == Init /\ [][Next]_vars

=============================================================================

-------------------------- MODULE DisclosureMeaning --------------------------
(***************************************************************************)
(* What a circuit reveals, by running it: the yardstick the analysis of    *)
(* module Disclosure is held against.  A run executes a root with concrete *)
(* values for its secrets and collects what becomes public: the ledger     *)
(* operations performed and their arguments, the result of an exported     *)
(* circuit, and the values it discloses on purpose.  Hashes are injective, *)
(* commitments hide, a failed assertion publishes nothing.                 *)
(*                                                                         *)
(* A Boolean is 0 or 1, an aggregate a sequence.  Names bound by patterns, *)
(* blocks and lambdas go out of scope where Compact says they do.          *)
(***************************************************************************)
EXTENDS Disclosure

(* The secrets of a root: its parameters, by position, and the witness
   functions the program declares, by name. *)
Witnesses(prog) == {f \in DOMAIN prog.symbols : prog.symbols[f].kind = "witness"}

RECURSIVE ValuesOf(_)
ValuesOf(kind) ==
  CASE kind.k = "struct" -> {<<x, y>> : x \in ValuesOf(kind.fields[1].ty),
                                        y \in ValuesOf(kind.fields[2].ty)}
    [] kind.k = "tuple"  -> {<<x, y>> : x \in ValuesOf(kind.elems[1]), y \in ValuesOf(kind.elems[2])}
    [] kind.k = "vector" -> {<<x, y>> : x \in ValuesOf(kind.elem), y \in ValuesOf(kind.elem)}
    [] OTHER -> {0, 1}

RECURSIVE Eval(_, _), Run(_, _)

(* A run's state: values of names, witness results, what was published and
   what was disclosed so far, and whether every assertion held. *)
Observe(q, e, what) == [q EXCEPT !.obs = Append(@, <<e.at, what>>)]

Yield(v, q) == [v |-> v, q |-> q]
Truth(p) == IF p THEN 1 ELSE 0

Extend(acc, r) == Yield(Append(acc.v, r.v), r.q)
EvalAll(q, es) == FoldLeft(LAMBDA acc, e : Extend(acc, Eval(acc.q, e)), Yield(<< >>, q), es)

BinaryValue(op, a, b) ==
  CASE op = "+"  -> a + b
    [] op = "-"  -> a - b
    [] op = "*"  -> a * b
    [] op = "==" -> Truth(a = b)
    [] op = "!=" -> Truth(a # b)
    [] OTHER     -> Truth(a < b)

(* The parameters l, r, args, ... are what the subexpressions gave. *)
Computed(op, l, r) == Yield(BinaryValue(op, l.v, r.v), r.q)

(* && and || skip their right side when the left one decides. *)
EvalBinary(e, l) ==
  IF <<e.arg, l.v>> \in {<<"&&", 0>>, <<"||", 1>>} THEN l
  ELSE IF e.arg \in ConditionOp THEN Eval(l.q, e.kids[2])
  ELSE Computed(e.arg, l, Eval(l.q, e.kids[2]))

Back(q, r) == Yield(r.v, [r.q EXCEPT !.env = q.env])
ApplyLambda(q, lam, values) ==
  Back(q, Eval([q EXCEPT !.env = BindLambda(@, lam.arg.params, values)], lam.kids[1]))

EvalFold(e, r) ==
  FoldLeft(LAMBDA acc, x : ApplyLambda(acc.q, UnwrapParen(e.kids[1]), <<acc.v, x>>),
           Yield(r.v[1], r.q), r.v[2])

EvalMap(e, r) ==
  FoldLeft(LAMBDA acc, x : Extend(acc, ApplyLambda(acc.q, UnwrapParen(e.kids[1]), <<x>>)),
           Yield(<< >>, r.q), r.v[1])

(* A native publishes nothing; a commitment's value says nothing of its
   arguments, any other native's value says everything of the flagged ones. *)
NativeValue(name, args) ==
  IF name \in DOMAIN NativeConduit
  THEN Map(LAMBDA fa : fa[2], Flagged(NativeConduit[name], args)) ELSE args

EvalCall(q, e, args) ==
  IF e.arg \in Witnesses(q.prog) THEN Yield(q.secret[e.arg], q)
  ELSE Yield(NativeValue(e.arg, args.v), args.q)

(* A ledger operation publishes itself, its receiver's place and the
   arguments the operation's declaration does not keep to itself. *)
EvalMethod(e, args) ==
  LET flags == IF e.arg \in DOMAIN PerArg THEN PerArg[e.arg] ELSE AllFlagged(args.v)
  IN  Yield(0, Observe(args.q, e, Map(LAMBDA fa : fa[2], Flagged(flags, args.v))))

FieldValue(e, base) ==
  base[CHOOSE i \in DOMAIN UnwrapParen(e.kids[1]).ty : UnwrapParen(e.kids[1]).ty[i] = e.arg]

Released(e, r) == Yield(r.v, [r.q EXCEPT !.rel = Append(@, <<e.at, r.v>>)])
Chosen(e, c) == Eval(c.q, e.kids[IF c.v = 1 THEN 2 ELSE 3])
MemberOf(e, r) == Yield(FieldValue(e, r.v), r.q)
ElementOf(r) == Yield(r.v[1][1 + (r.v[2] % Len(r.v[1]))], r.q)

Eval(q, e) ==
  CASE e.op = "literal" -> Yield(IF e.arg.boolean THEN Truth(e.arg.value) ELSE e.arg.value, q)
    [] e.op = "name" -> Yield(IF e.arg \in DOMAIN q.env THEN q.env[e.arg] ELSE 0, q)
    [] e.op \in {"paren", "cast"} -> Eval(q, e.kids[1])
    [] e.op = "disclose" -> Released(e, Eval(q, e.kids[1]))
    [] e.op = "default" -> Yield(CHOOSE v \in ValuesOf(e.arg) : TRUE, q)
    [] e.op = "binary" -> EvalBinary(e, Eval(q, e.kids[1]))
    [] e.op = "ternary" -> Chosen(e, Eval(q, e.kids[1]))
    [] e.op = "call" -> EvalCall(q, e, EvalAll(q, e.kids))
    [] e.op = "method" -> EvalMethod(e, EvalAll(Eval(q, e.kids[1]).q, Tail(e.kids)))
    [] e.op = "member" -> MemberOf(e, Eval(q, e.kids[1]))
    [] e.op = "index" -> ElementOf(EvalAll(q, e.kids))
    [] e.op = "map" -> EvalMap(e, EvalAll(q, Tail(e.kids)))
    [] e.op = "fold" -> EvalFold(e, EvalAll(q, Tail(e.kids)))
    [] OTHER -> EvalAll(q, e.kids)

RECURSIVE Bind(_, _, _)
Bind(env, pat, v) ==
  CASE pat.p = "ident"  -> (pat.name :> v) @@ env
    [] pat.p = "tuple"  -> FoldLeft(LAMBDA m, i : Bind(m, pat.elems[i], v[i]), env,
                                    [i \in DOMAIN pat.elems |-> i])
    [] pat.p = "struct" -> [x \in pat.names |-> v] @@ env

Scoped(q, inner) == [inner EXCEPT !.env = q.env]

Branch(st, c) ==
  IF c.v = 1 THEN Run(c.q, st.kids[2])
  ELSE IF Len(st.kids) = 3 THEN Run(c.q, st.kids[3]) ELSE c.q

Iterate(q, st, r) ==
  Scoped(q, Run([r.q EXCEPT !.env = (st.arg :> r.v[2]) @@ @], Last(st.kids)))

Define(st, r) == [r.q EXCEPT !.env = Bind(@, st.arg, r.v)]
Require(r) == [r.q EXCEPT !.ok = @ /\ r.v = 1]
Give(st, r) == [r.q EXCEPT !.ret = <<st.at, r.v>>]
Store(st, r) == Observe(r.q, st, r.v)

Run(q, st) ==
  CASE st.op = "block"  -> Scoped(q, FoldLeft(Run, q, st.kids))
    [] st.op = "const"  -> Define(st, Eval(q, st.kids[1]))
    [] st.op = "assert" -> Require(Eval(q, st.kids[1]))
    [] st.op = "assign" -> Store(st, Eval(q, st.kids[2]))
    [] st.op = "return" -> Give(st, EvalAll(q, st.kids))
    [] st.op = "if"     -> Branch(st, Eval(q, st.kids[1]))
    [] st.op = "for"    -> Iterate(q, st, EvalAll(q, Front(st.kids)))
    [] OTHER -> EvalAll(q, st.kids).q

-----------------------------------------------------------------------------
(* An assignment of the secrets: a value per source.  A parameter's source is
   its position in the text, a witness function's is its name. *)
ParamSources(root) == {<<"arg", i>> : i \in DOMAIN root.params}
FunctionSources(prog) == {<<"witness", f>> : f \in Witnesses(prog)}
Sources(prog, root) == ParamSources(root) \cup FunctionSources(prog)

SourceType(prog, root, src) ==
  IF src[1] = "arg" THEN root.params[src[2]].ty ELSE prog.symbols[src[2]].ret

Secrets(prog, root) ==
  FoldLeft(LAMBDA hs, x : {(x :> v) @@ h : h \in hs, v \in ValuesOf(SourceType(prog, root, x))},
           {<< >>}, SetToSeq(Sources(prog, root)))

Outcome(prog, root, h) ==
  LET env == FoldLeft(LAMBDA m, i : Bind(m, root.params[i].pat, h[<<"arg", i>>]), << >>,
                      [i \in DOMAIN root.params |-> i])
  IN  Run([prog |-> prog, env |-> env, secret |-> [f \in Witnesses(prog) |-> h[<<"witness", f>>]],
           obs |-> << >>, rel |-> << >>, ret |-> << >>, ok |-> TRUE], root.body)

(* What the public sees of a run, and what it may learn from src: the result
   of an exported circuit goes to a caller who knows the arguments. *)
Public(root, src, q) ==
  IF root.kind = "circuit" /\ src[1] = "witness" THEN <<q.obs, q.ret>> ELSE <<q.obs>>

Reveals(prog, root, src) ==
  LET runs == {<<h, Outcome(prog, root, h)>> : h \in Secrets(prog, root)}
  IN  \E r1, r2 \in runs :
        /\ \A x \in Sources(prog, root) \ {src} : r1[1][x] = r2[1][x]
        /\ r1[2].ok /\ r2[2].ok
        /\ r1[2].rel = r2[2].rel
        /\ Public(root, src, r1[2]) # Public(root, src, r2[2])

(* The rows of a leak table that name a source. *)
IsSource(w, root, src) ==
  IF src[1] = "arg" THEN w.src = root.params[src[2]].pat.at
  ELSE w.info = <<"witnessReturn", src[2]>>

Named(leaks, root, src) ==
  \E k \in DOMAIN leaks : \E u \in DOMAIN leaks[k] : IsSource(leaks[k][u], root, src)

-----------------------------------------------------------------------------
(* FAIL-CLOSED (disclosure/mod.rs): whenever changing one source, everything
   disclosed on purpose being equal, changes what a root makes public, the
   report has a leak that names that source, or says with an advisory that the
   analysis could not decide.  Silence is never wrong. *)
EveryDisclosureIsNamed ==
  report.done /\ report.advisories = {} =>
    \A root \in ToSet(DiscoverRoots(program)) : \A src \in Sources(program, root) :
      Reveals(program, root, src) => Named(report.leaks, root, src)

-----------------------------------------------------------------------------
(* Every program that differs from this one by one disclose() around an
   expression: the edit a reader of a leak is told to make. *)
RECURSIVE Disclosings(_)
IsStatement(n) == n.op \in {"block", "const", "expr", "assert", "assign", "return", "if", "for", "multiconst"}
Disclosings(n) ==
  LET (* an operation's receiver, an assignment's target and the function of a
         map or fold are no values *)
      values == IF n.op \in {"method", "assign", "map", "fold"} THEN DOMAIN n.kids \ {1} ELSE DOMAIN n.kids
  IN  UNION {{[n EXCEPT !.kids[i] = k] : k \in Disclosings(n.kids[i])} : i \in values}
      \cup (IF IsStatement(n) THEN {} ELSE {[n EXCEPT !.op = "disclose", !.kids = <<n>>]})

LeaksOf(prog) == FoldLeft(LAMBDA snk, root : InterpRoot(prog, snk, root),
                          [NewSink EXCEPT !.advisories = NestedAdvisories(prog)],
                          DiscoverRoots(prog))

(* disclose() is a sanitizer (disclosure/abs.rs): put around any expression it
   adds no leak, no witness to a leak, and nothing that cannot be decided. *)
DiscloseOnlyRemoves ==
  report.done =>
    \A j \in DOMAIN program.items : \A body \in Disclosings(program.items[j].body) :
      LET after == LeaksOf([program EXCEPT !.items[j].body = body])
          Origins(leaks, k) == {leaks[k][u].src : u \in DOMAIN leaks[k]}
      IN  /\ after.advisories \subseteq report.advisories
          /\ \A k \in DOMAIN after.leaks :
               k \in DOMAIN report.leaks /\ Origins(after.leaks, k) \subseteq Origins(report.leaks, k)
=============================================================================

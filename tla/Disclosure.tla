------------------------------ MODULE Disclosure ------------------------------
(***************************************************************************)
(* The disclosure analysis of crates/analyzer-core/src/disclosure: an      *)
(* abstract interpreter that runs from every exported circuit and from the *)
(* constructor, and reports every witness-derived value that reaches the   *)
(* ledger or an exported circuit's result without disclose().              *)
(*                                                                         *)
(* Syntax is data.  A node is [op, arg, ty, kids, at]: its form, its       *)
(* payload (a name, an operator, a type, a pattern), the struct fields     *)
(* that crate::db::expr_ty finds for it (<< >> for an unknown type), its   *)
(* children in source order, and its text range.  A program is             *)
(* [symbols, structs, items]: what a global name resolves to, the declared *)
(* field order of a struct name, and the item tree.  Names are unique      *)
(* across locals and globals, so resolution is a lookup in symbols.        *)
(*                                                                         *)
(* An evaluation state is s = [prog, fn, env, control, sink]; Interp gives *)
(* back [abs, sink], Exec gives back the next s.                           *)
(***************************************************************************)
EXTENDS WitnessSets, FiniteSets, SequencesExt, Functions

CONSTANT Programs        \* the programs a query may be asked about

VARIABLES program, sink, pending, report
vars == <<program, sink, pending, report>>

-----------------------------------------------------------------------------
(* abs.rs: the lattice of abstract values. *)
Atomic(ws) == [k |-> "atomic", ws |-> ws]
BooleanAbs(v, ws) == [k |-> "boolean", value |-> v, ws |-> ws]
Multiple(items) == [k |-> "multiple", items |-> items]
Single(inner) == [k |-> "single", inner |-> inner]
Clean == Atomic(NoWitnesses)
Map(op(_), seq) == [i \in DOMAIN seq |-> op(seq[i])]

(* A mutant: a sanitizer that forgets the shape with the taint. *)
DiscloseFlattens(a) == Clean

MergeAll(sets) == FoldLeft(MergeWitnesses, NoWitnesses, sets)

RECURSIVE Disclose(_), WitnessesOf(_), CombineAbs(_, _), AbsEqual(_, _),
          AddWitnesses(_, _), AddPathPoint(_, _), AbsOfType(_, _), HasUnknown(_)

Disclose(a) ==
  CASE a.k = "atomic"   -> Clean
    [] a.k = "boolean"  -> BooleanAbs(a.value, NoWitnesses)
    [] a.k = "multiple" -> Multiple(Map(Disclose, a.items))
    [] a.k = "single"   -> Single(Disclose(a.inner))

WitnessesOf(a) ==
  CASE a.k \in {"atomic", "boolean"} -> a.ws
    [] a.k = "multiple" -> MergeAll(Map(WitnessesOf, a.items))
    [] a.k = "single"   -> WitnessesOf(a.inner)

CombineAbs(a, b) ==
  CASE a.k = "boolean" /\ b.k = "boolean" /\ a.value = b.value
                      -> BooleanAbs(a.value, MergeWitnesses(a.ws, b.ws))
    [] a.k = "atomic" /\ b.k = "boolean" -> Atomic(MergeWitnesses(b.ws, a.ws))
    [] a.k = "multiple" /\ b.k = "multiple"
                      -> Multiple([i \in 1 .. (IF Len(a.items) < Len(b.items)
                                               THEN Len(a.items) ELSE Len(b.items))
                                     |-> CombineAbs(a.items[i], b.items[i])])
    [] a.k = "single" /\ b.k = "single"   -> Single(CombineAbs(a.inner, b.inner))
    [] a.k = "multiple" /\ b.k = "single" ->
         Multiple(Map(LAMBDA x : CombineAbs(x, b.inner), a.items))
    [] a.k = "single" /\ b.k = "multiple" ->
         Multiple(Map(LAMBDA y : CombineAbs(a.inner, y), b.items))
    [] OTHER -> Atomic(MergeWitnesses(WitnessesOf(a), WitnessesOf(b)))

(* abs_equal with witness_sets_equal: paths are compared too. *)
AbsEqual(a, b) ==
  /\ a.k = b.k
  /\ CASE a.k = "atomic"   -> a.ws = b.ws
       [] a.k = "boolean"  -> a.value = b.value /\ a.ws = b.ws
       [] a.k = "multiple" -> /\ Len(a.items) = Len(b.items)
                              /\ \A i \in DOMAIN a.items : AbsEqual(a.items[i], b.items[i])
       [] a.k = "single"   -> AbsEqual(a.inner, b.inner)

AddWitnesses(a, extra) ==
  CASE a.k \in {"atomic", "boolean"} -> [a EXCEPT !.ws = MergeWitnesses(@, extra)]
    [] a.k = "multiple" -> Multiple(Map(LAMBDA x : AddWitnesses(x, extra), a.items))
    [] a.k = "single"   -> Single(AddWitnesses(a.inner, extra))

AddPathPoint(a, pp) ==
  CASE a.k \in {"atomic", "boolean"} -> [a EXCEPT !.ws = PushPoint(@, pp)]
    [] a.k = "multiple" -> Multiple(Map(LAMBDA x : AddPathPoint(x, pp), a.items))
    [] a.k = "single"   -> Single(AddPathPoint(a.inner, pp))

-----------------------------------------------------------------------------
(* Types: [k |-> "struct", fields |-> <<[name, ty]>>], [k |-> "tuple",
   elems |-> << >>], [k |-> "vector", elem], [k |-> "scalar"], [k |-> "unknown"].
   abs_of_type, and the advisory its Unknown arm emits. *)
AbsOfType(kind, seed) ==
  CASE kind.k = "struct" -> Multiple(Map(LAMBDA f : AbsOfType(f.ty, seed), kind.fields))
    [] kind.k = "tuple"  -> Multiple(Map(LAMBDA t : AbsOfType(t, seed), kind.elems))
    [] kind.k = "vector" -> Single(AbsOfType(kind.elem, seed))
    [] OTHER             -> Atomic(seed)

HasUnknown(kind) ==
  CASE kind.k = "struct" -> \E i \in DOMAIN kind.fields : HasUnknown(kind.fields[i].ty)
    [] kind.k = "tuple"  -> \E i \in DOMAIN kind.elems : HasUnknown(kind.elems[i])
    [] kind.k = "vector" -> HasUnknown(kind.elem)
    [] OTHER             -> kind.k = "unknown"

AdviseUnknown(snk, kind, src) ==
  IF HasUnknown(kind) THEN EmitAdvisory(snk, src, "unknown type") ELSE snk

-----------------------------------------------------------------------------
(* interp.rs.  Interp and Exec recurse through the operators below. *)
RECURSIVE Interp(_, _), Exec(_, _), BindPattern(_, _, _), UnwrapParen(_), LeftmostName(_)

Result(a, snk) == [abs |-> a, sink |-> snk]
Advised(a, snk, e, reason) == Result(a, EmitAdvisory(snk, e.at, reason))

(* Children interpreted in source order, the sink threaded through. *)
Collect(acc, r) == [abs |-> Append(acc.abs, r.abs), sink |-> r.sink]
InterpAll(s, es) ==
  FoldLeft(LAMBDA acc, e : Collect(acc, Interp([s EXCEPT !.sink = acc.sink], e)),
           [abs |-> << >>, sink |-> s.sink], es)

UnionOf(abses) == MergeAll(Map(WitnessesOf, abses))

(* child_exprs: what of a node's parts is a direct child of it and an expression.
   The fields of a struct update and its base are not, nor is a lambda's block. *)
ChildExprs(e) ==
  IF (e.op = "struct" /\ e.arg.update) \/ (e.op = "lambda" /\ e.arg.block) THEN << >> ELSE e.kids

(* fail_closed_expr: no child that is an expression loses its witnesses. *)
FailClosed(s, e, reason) ==
  LET r == InterpAll(s, ChildExprs(e)) IN Advised(Atomic(UnionOf(r.abs)), r.sink, e, reason)

UnwrapParen(e) == IF e.op = "paren" /\ e.kids # << >> THEN UnwrapParen(e.kids[1]) ELSE e

LeftmostName(e) ==
  LET t == UnwrapParen(e)
  IN  CASE t.op = "name" -> t.arg
        [] t.op \in {"member", "index"} -> LeftmostName(t.kids[1])
        [] OTHER -> "none"

(* resolve_query then item_symbol: a definition in a file that is not a direct
   dependency resolves, but its symbol is not found. *)
SymbolKind(s, name) ==
  IF name \in DOMAIN s.prog.symbols /\ ~s.prog.symbols[name].far
  THEN s.prog.symbols[name].kind ELSE "unresolved"

IsLedgerField(s, target) == SymbolKind(s, LeftmostName(target)) = "ledger"

-----------------------------------------------------------------------------
(* tables.rs.  A flag says whether an argument flows into a native's result,
   or leaks at a ledger operation.  "commit" natives hide every argument. *)
NativeConduit ==
  [n \in {"transientHash", "persistentHash", "degradeToTransient", "upgradeFromTransient",
          "jubjubPointX", "jubjubPointY", "ecMulGenerator", "hashToCurve"} |-> <<TRUE>>]
  @@ [n \in {"ecAdd", "ecMul", "constructJubjubPoint"} |-> <<TRUE, TRUE>>]
  @@ [n \in {"transientCommit", "persistentCommit", "createZswapOutput"} |-> <<FALSE, FALSE>>]
  @@ [n \in {"createZswapInput"} |-> <<FALSE>>] @@ [n \in {"ownPublicKey"} |-> << >>]

AllArgsLeak ==
  {"write", "writeCoin", "increment", "decrement", "lessThan", "member", "lookup", "insert",
   "insertDefault", "remove", "insertCoin", "pushFront", "pushFrontCoin", "checkRoot"}

PerArg ==
  [n \in {"claimZswapNullifier", "claimZswapCoinSpend", "claimZswapCoinReceive", "balance",
          "blockTimeLessThan", "blockTimeGreaterThan"} |-> <<TRUE>>]
  @@ [n \in {"mintShielded", "mintUnshielded", "incUnshieldedOutputs", "incUnshieldedInputs",
             "balanceLessThan", "balanceGreaterThan"} |-> <<TRUE, TRUE>>]
  @@ [n \in {"claimUnshieldedCoinSpend"} |-> <<TRUE, TRUE, TRUE>>]
  @@ [n \in {"claimContractCall"} |-> <<TRUE, TRUE, FALSE>>]

Flagged(flags, args) ==
  SelectSeq([i \in 1 .. Len(args) |-> <<i <= Len(flags) /\ flags[i], args[i]>>],
            LAMBDA fa : fa[1])

(* The witnesses of the flagged arguments, each with the point of its argument. *)
ArgWitnesses(flags, args, src) ==
  Map(LAMBDA fa : PushPoint(WitnessesOf(fa[2]), <<src, "argument">>), Flagged(flags, args))

AllFlagged(args) == [i \in DOMAIN args |-> TRUE]

-----------------------------------------------------------------------------
ConditionOp == {"&&", "||"}
ArithmeticOp == {"+", "-", "*"}
ComparisonOp == {"==", "!=", "<", "<=", ">", ">="}

(* An operator below whose last parameter is cond, lhs, base, args, ... takes
   what Interp or InterpAll gave for the first child or for the children. *)

(* interp_binary: && and || evaluate their right side only if the left one
   says so, which the right side's control witnesses record. *)
Joined(a, b) == Atomic(MergeWitnesses(WitnessesOf(a), WitnessesOf(b)))

BinaryResult(e, lhs, rhs) ==
  CASE e.arg \in ArithmeticOp ->
         Result(AddPathPoint(CombineAbs(lhs.abs, rhs.abs), <<e.at, "computation">>), rhs.sink)
    [] e.arg \in ComparisonOp ->
         Result(AddPathPoint(Joined(lhs.abs, rhs.abs), <<e.at, "comparison">>), rhs.sink)
    [] e.arg \in ConditionOp -> Result(Joined(lhs.abs, rhs.abs), rhs.sink)
    [] OTHER -> Advised(Joined(lhs.abs, rhs.abs), rhs.sink, e, "binary operator")

Controlled(s, cond, at) ==
  [s EXCEPT !.control = ThreadControl(WitnessesOf(cond.abs), @, at), !.sink = cond.sink]

InterpBinary(s, e, lhs) ==
  BinaryResult(e, lhs, Interp(IF e.arg \in ConditionOp THEN Controlled(s, lhs, e.at)
                              ELSE [s EXCEPT !.sink = lhs.sink], e.kids[2]))

(* interp_ternary: both branches are walked, under the condition's control;
   a literal condition selects the value. *)
TernaryResult(e, cond, branches) ==
  LET condWs == WitnessesOf(cond)
      joined == IF cond.k = "boolean" THEN branches.abs[IF cond.value THEN 1 ELSE 2]
                ELSE CombineAbs(branches.abs[1], branches.abs[2])
  IN  Result(IF condWs = NoWitnesses THEN joined
             ELSE AddWitnesses(joined, PushPoint(condWs, <<e.at, "conditional">>)),
             branches.sink)

InterpTernary(s, e, cond) ==
  TernaryResult(e, cond.abs, InterpAll(Controlled(s, cond, e.at), Tail(e.kids)))

(* classify_callee, unresolved_callee_class *)
CalleeClass(s, name) ==
  LET kind == SymbolKind(s, name)
  IN  CASE kind \in {"witness", "circuit"} -> kind
        [] kind = "unresolved" -> IF name \in DOMAIN NativeConduit THEN "native" ELSE "circuit"
        [] OTHER -> "native"

(* interp_call, a witness: its arguments are not looked at; the result is a
   fresh secret in the shape of the return type (witness_return_ty: unknown
   when the witness is declared in another file). *)
CallWitness(s, e) ==
  LET sym == s.prog.symbols[e.arg]
      ret == IF sym.otherFile THEN [k |-> "unknown"] ELSE sym.ret
      w   == Fresh(s.sink.uid, e.at, <<"witnessReturn", e.arg>>)
  IN  Result(AbsOfType(ret, w), AdviseUnknown(BumpUid(s.sink), ret, e.at))

(* interp_call, a circuit: interp_args_for_effect. *)
CallCircuit(e, args) == Advised(Clean, args.sink, e, "cross-circuit call")

(* interp_call, a native: native_conduit_result or unknown_native_result. *)
CallNative(e, args) ==
  LET known == e.arg \in DOMAIN NativeConduit
      flags == IF known THEN NativeConduit[e.arg] ELSE AllFlagged(args.abs)
      result == Atomic(MergeAll(ArgWitnesses(flags, args.abs, e.at)))
  IN  IF known THEN Result(result, args.sink)
      ELSE Advised(result, args.sink, e, "unknown native")

(* interp_call of a method with interp_ledger_op: the receiver, the first
   child, is not interpreted. *)
CallMethod(s, e, args) ==
  LET isLedger == IsLedgerField(s, e.kids[1])
      known == e.arg \in AllArgsLeak \cup DOMAIN PerArg
      flags == IF e.arg \in DOMAIN PerArg THEN PerArg[e.arg] ELSE AllFlagged(args.abs)
      leaked == FoldLeft(LAMBDA snk, ws : RecordLeak(snk, e.at, "ledger operation", ws),
                         RecordLeak(args.sink, e.at, "performing", s.control),
                         ArgWitnesses(flags, args.abs, e.at))
  IN  CASE ~isLedger /\ ~known -> Advised(Clean, args.sink, e, "non-ledger receiver")
        [] known -> Result(Clean, leaked)
        [] OTHER -> Advised(Clean, leaked, e, "unknown ledger op")

(* interp_call *)
InterpCall(s, e) ==
  LET class == CalleeClass(s, e.arg)
  IN  CASE class = "witness" -> CallWitness(s, e)
        [] class = "circuit" -> CallCircuit(e, InterpAll(s, e.kids))
        [] class = "native"  -> CallNative(e, InterpAll(s, e.kids))

(* interp_struct_literal: the fields in declared order when the type is known. *)
InterpStruct(s, e, inits) ==
  LET names == e.arg.inits
      InitOf(f) == IF \E i \in DOMAIN names : names[i] = f
                   THEN inits.abs[CHOOSE i \in DOMAIN names :
                                    /\ names[i] = f
                                    /\ \A j \in 1 .. i - 1 : names[j] # f]
                   ELSE Clean
  IN  IF e.arg.name \in DOMAIN s.prog.structs
        THEN Result(Multiple(Map(InitOf, s.prog.structs[e.arg.name])), inits.sink)
        ELSE Advised(Multiple(inits.abs), inits.sink, e, "struct literal type")

(* interp_member with field_index *)
InterpMember(e, base) ==
  LET ty == UnwrapParen(e.kids[1]).ty
      at == {i \in DOMAIN ty : ty[i] = e.arg}
      found == base.abs.k = "multiple" /\ \E i \in at : i <= Len(base.abs.items)
  IN  IF found THEN Result(base.abs.items[CHOOSE i \in at : \A j \in at : i <= j], base.sink)
      ELSE Advised(Atomic(WitnessesOf(base.abs)), base.sink, e, "member projection")

(* interp_index, of the base and the index. *)
InterpIndex(e, r) ==
  LET base == r.abs[1]
      idx == r.abs[2]
  IN  CASE base.k = "single" ->
             Result(AddPathPoint(AddWitnesses(base.inner, WitnessesOf(idx)), <<e.at, "index">>), r.sink)
        [] base.k = "multiple" -> Advised(Joined(idx, base), r.sink, e, "aggregate index")
        [] OTHER -> Result(Joined(base, idx), r.sink)

(* An array literal: the elements are one abstract element. *)
InterpArray(elems) ==
  Result(Single(IF elems.abs = << >> THEN Clean
                ELSE FoldLeft(CombineAbs, Head(elems.abs), Tail(elems.abs))), elems.sink)

-----------------------------------------------------------------------------
(* map and fold *)
IsLambda(f) == UnwrapParen(f).op = "lambda" /\ ~UnwrapParen(f).arg.block

(* bind_lambda_env: zip of the parameters and the values. *)
BindLambda(env, params, values) ==
  LET n == IF Len(params) < Len(values) THEN Len(params) ELSE Len(values)
      bound == {i \in 1 .. n : params[i] # "none"}
  IN  [x \in DOMAIN env \cup {params[i] : i \in bound} |->
         IF \E i \in bound : params[i] = x
         THEN values[CHOOSE i \in bound : params[i] = x /\ \A j \in bound :
                                             params[j] = x => j <= i]
         ELSE env[x]]

Apply(s, lam, values) ==
  Interp([s EXCEPT !.env = BindLambda(@, lam.arg.params, values)], lam.kids[1])

(* unroll_len: the length of the shortest tuple; -1 when every sequence is
   an aggregate. *)
UnrollLen(seqs) ==
  LET lens == {Len(seqs[i].items) : i \in {j \in DOMAIN seqs : seqs[j].k = "multiple"}}
  IN  IF lens = {} THEN -1 ELSE CHOOSE n \in lens : \A m \in lens : n <= m

(* seq_element_abs on what is no tuple, seq_element_at *)
ElementAt(a, i) ==
  CASE a.k = "multiple" -> a.items[i]
    [] a.k = "single"   -> a.inner
    [] OTHER            -> a

ElementsAt(seqs, i) == Map(LAMBDA a : ElementAt(a, i), seqs)
Steps(n) == [i \in 1 .. n |-> i]

(* interp_map: over tuples, once per element; over aggregates, once; of no
   sequence at all, the empty tuple. *)
MapOver(s, e, seqs, len) ==
  LET r == FoldLeft(LAMBDA acc, i : Collect(acc, Apply([s EXCEPT !.sink = acc.sink],
                                                       UnwrapParen(e.kids[1]), ElementsAt(seqs.abs, i))),
                    [abs |-> << >>, sink |-> seqs.sink], Steps(IF len >= 0 THEN len ELSE 1))
  IN  Result(IF len >= 0 THEN Multiple(r.abs) ELSE Single(r.abs[1]), r.sink)

InterpMap(s, e, seqs) ==
  IF seqs.abs = << >> THEN Result(Multiple(<< >>), s.sink)
  ELSE MapOver(s, e, seqs, UnrollLen(seqs.abs))

(* fold_fixpoint_bound *)
FoldBound(init, elems) ==
  Cardinality(DOMAIN MergeWitnesses(WitnessesOf(init), UnionOf(elems))) + 2

(* One step of a fold; over aggregates the last one if nothing changed. *)
FoldStep(acc, next, len) ==
  [abs |-> next.abs, sink |-> next.sink, done |-> len < 0 /\ AbsEqual(next.abs, acc.abs)]

(* interp_fold: over a tuple, once per element; over aggregates, until the
   accumulator repeats, at most FoldBound times. *)
FoldOver(s, e, init, seqs, len, start) ==
  LET last == FoldLeft(LAMBDA acc, i :
                         IF acc.done THEN acc
                         ELSE FoldStep(acc, Apply([s EXCEPT !.sink = acc.sink], UnwrapParen(e.kids[1]),
                                                  <<acc.abs>> \o ElementsAt(seqs, i)), len),
                       [abs |-> init, sink |-> start, done |-> FALSE],
                       Steps(IF len >= 0 THEN len ELSE FoldBound(init, ElementsAt(seqs, 1))))
  IN  Result(last.abs, last.sink)

InterpFold(s, e, r) == FoldOver(s, e, r.abs[1], Tail(r.abs), UnrollLen(Tail(r.abs)), r.sink)

(* What interp_map and interp_fold cannot follow. *)
Undecided(e) ==
  CASE e.op = "fold" /\ Len(e.kids) < 3 -> "fold without a sequence"
    [] ~IsLambda(e.kids[1]) -> e.op \o " of a function reference"
    [] OTHER -> "none"

-----------------------------------------------------------------------------
Disclosed(r) == Result(Disclose(r.abs), r.sink)
Gathered(r) == Result(Atomic(UnionOf(r.abs)), r.sink)

(* interp_expr.  A literal's arg is TRUE or FALSE for a Boolean one, wrapped
   so that it compares with other payloads. *)
Interp(s, e) ==
  CASE e.op = "literal" -> Result(IF e.arg.boolean THEN BooleanAbs(e.arg.value, NoWitnesses)
                                  ELSE Clean, s.sink)
    [] e.op = "name" -> Result(IF e.arg \in DOMAIN s.env THEN s.env[e.arg] ELSE Clean, s.sink)
    [] e.op \in {"paren", "cast"} -> Interp(s, e.kids[1])
    [] e.op = "disclose" -> Disclosed(Interp(s, e.kids[1]))
    [] e.op = "default" -> Result(AbsOfType(e.arg, NoWitnesses), AdviseUnknown(s.sink, e.arg, << >>))
    [] e.op = "binary" -> InterpBinary(s, e, Interp(s, e.kids[1]))
    [] e.op = "ternary" -> InterpTernary(s, e, Interp(s, e.kids[1]))
    [] e.op = "method" -> CallMethod(s, e, InterpAll(s, Tail(e.kids)))
    [] e.op = "call" -> InterpCall(s, e)
    [] e.op = "member" -> InterpMember(e, Interp(s, e.kids[1]))
    [] e.op = "index" -> InterpIndex(e, InterpAll(s, e.kids))
    [] e.op = "struct" /\ e.arg.update -> FailClosed(s, e, "struct update")
    [] e.op = "struct" /\ ~e.arg.update -> InterpStruct(s, e, InterpAll(s, e.kids))
    [] e.op = "array" -> InterpArray(InterpAll(s, e.kids))
    [] e.op = "bytes" -> Gathered(InterpAll(s, e.kids))
    [] e.op \in {"map", "fold"} /\ Undecided(e) # "none" -> FailClosed(s, e, Undecided(e))
    [] e.op = "map" /\ Undecided(e) = "none" -> InterpMap(s, e, InterpAll(s, Tail(e.kids)))
    [] e.op = "fold" /\ Undecided(e) = "none" -> InterpFold(s, e, InterpAll(s, Tail(e.kids)))
    [] e.op \in {"slice", "pad", "spread", "unary", "lambda"} -> FailClosed(s, e, e.op)

-----------------------------------------------------------------------------
(* Patterns: [p |-> "ident", name, at], [p |-> "tuple", elems, at],
   [p |-> "struct", names, at]. *)
RECURSIVE PatternNames(_)
PatternNames(pat) ==
  CASE pat.p = "ident"  -> {pat.name}
    [] pat.p = "tuple"  -> UNION {PatternNames(pat.elems[i]) : i \in DOMAIN pat.elems}
    [] pat.p = "struct" -> pat.names

(* bind_conservative, and the arms of bind_pattern that come to the same. *)
BindConservative(s, pat, ws) ==
  [s EXCEPT !.env = [x \in PatternNames(pat) |-> Atomic(ws)] @@ @]

BindPattern(s, pat, val) ==
  CASE pat.p = "ident" ->
         [s EXCEPT !.env = (pat.name :> AddPathPoint(val, <<pat.at, "binding">>)) @@ @]
    [] pat.p = "tuple" /\ val.k = "multiple" /\ Len(val.items) = Len(pat.elems) ->
         FoldLeft(LAMBDA t, i : BindPattern(t, pat.elems[i], val.items[i]),
                  s, [i \in DOMAIN pat.elems |-> i])
    [] OTHER -> [BindConservative(s, pat, WitnessesOf(val))
                   EXCEPT !.sink = EmitAdvisory(@, pat.at, "destructuring")]

-----------------------------------------------------------------------------
(* The parameters v, r and cond are what the statement's expressions gave. *)
Effects(s, es) == [s EXCEPT !.sink = InterpAll(s, es).sink]

ExecConst(s, st, v) == BindPattern([s EXCEPT !.sink = v.sink], st.arg, v.abs)

ExecAssign(s, st, v) ==
  LET data == RecordLeak(v.sink, st.at, "ledger operation", WitnessesOf(v.abs))
  IN  [s EXCEPT !.sink = IF IsLedgerField(s, st.kids[1])
                         THEN RecordLeak(data, st.at, "performing", s.control)
                         ELSE v.sink]

(* Only an exported circuit's return is a sink, and only for witness returns. *)
ExecReturn(s, st, r) ==
  LET data == RecordLeak(r.sink, st.at, <<"value returned", s.fn>>,
                         FilterWitnesses(UnionOf(r.abs)))
  IN  [s EXCEPT !.sink = IF s.fn = "none" \/ st.kids = << >> THEN r.sink
                         ELSE RecordLeak(data, st.at, <<"returning", s.fn>>,
                                         FilterWitnesses(s.control))]

(* `if`: the children are the condition and the branches; each branch has an
   environment of its own. *)
ExecIf(s, st, cond) ==
  [s EXCEPT !.sink =
     FoldLeft(LAMBDA snk, b : Exec([Controlled(s, cond, st.at) EXCEPT !.sink = snk], b).sink,
              cond.sink, Tail(st.kids))]

(* `for`: an advisory, and one walk of the body (the last child) with the
   variable bound to what the range depends on. *)
ExecFor(s, st, r) ==
  [s EXCEPT !.sink =
     Exec([s EXCEPT !.sink = r.sink, !.env = (st.arg :> Atomic(UnionOf(r.abs))) @@ @],
          Last(st.kids)).sink]

Noted(s, st, reason) == [s EXCEPT !.sink = EmitAdvisory(@, st.at, reason)]

Exec(s, st) ==
  CASE st.op = "block" -> FoldLeft(Exec, s, st.kids)
    [] st.op = "const" -> ExecConst(s, st, Interp(s, st.kids[1]))
    [] st.op \in {"expr", "assert"} -> Effects(s, st.kids)
    [] st.op = "assign" -> ExecAssign(s, st, Interp(s, st.kids[2]))
    [] st.op = "return" -> ExecReturn(s, st, InterpAll(s, st.kids))
    [] st.op = "if" -> ExecIf(s, st, Interp(s, st.kids[1]))
    [] st.op = "for" -> ExecFor(s, st, InterpAll(Noted(s, st, "for"), Front(st.kids)))
    [] st.op = "multiconst" -> Effects(Noted(s, st, "multi-const"), st.kids)

-----------------------------------------------------------------------------
(* Roots.  An item is [kind, name, exported, nested, params, body, at]; a
   parameter [pat, ty]. *)
IsRoot(it) == it.kind = "constructor" \/ (it.kind = "circuit" /\ it.exported /\ ~it.nested)

(* discover_roots *)
DiscoverRoots(prog) == SelectSeq(prog.items, IsRoot)

NestedAdvisories(prog) ==
  {<<it.at, "module-nested circuit">> :
     it \in {i \in ToSet(prog.items) : i.kind = "circuit" /\ i.exported /\ i.nested}}

(* seed_sources: a parameter bound by a pattern other than a name is skipped. *)
SeedSources(s, root) ==
  LET info == <<IF root.kind = "circuit" THEN "circuitArg" ELSE "constructorArg", root.name>>
      Seed(t, p) ==
        IF p.pat.p # "ident" THEN t
        ELSE LET w == Fresh(t.sink.uid, p.pat.at, info)
             IN  [t EXCEPT !.sink = AdviseUnknown(BumpUid(@), p.ty, p.pat.at),
                           !.env = (p.pat.name :> AbsOfType(p.ty, w)) @@ @]
  IN  FoldLeft(Seed, s, root.params)

(* interp_root, root_body *)
InterpRoot(prog, snk, root) ==
  LET s == [prog |-> prog, fn |-> IF root.kind = "circuit" THEN root.name ELSE "none",
            env |-> << >>, control |-> NoWitnesses, sink |-> snk]
  IN  Exec(SeedSources(s, root), root.body).sink

-----------------------------------------------------------------------------
(* disclosure_diagnostics_query: discover the roots, walk each into the one
   sink, drain it into E3100 and U3100 diagnostics. *)
Init ==
  /\ program \in Programs
  /\ sink = [NewSink EXCEPT !.advisories = NestedAdvisories(program)]
  /\ pending = DiscoverRoots(program)
  /\ report = [done |-> FALSE, leaks |-> << >>, advisories |-> {}]

WalkRoot ==
  /\ pending # << >>
  /\ sink' = InterpRoot(program, sink, Head(pending))
  /\ pending' = Tail(pending)
  /\ UNCHANGED <<program, report>>

Render ==
  /\ pending = << >> /\ ~report.done
  /\ report' = [done |-> TRUE, leaks |-> sink.leaks, advisories |-> sink.advisories]
  /\ sink' = [sink EXCEPT !.leaks = << >>, !.advisories = {}]
  /\ UNCHANGED <<program, pending>>

Next == WalkRoot \/ Render
Spec == Init /\ [][Next]_vars
=============================================================================

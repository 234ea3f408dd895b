------------------------------- MODULE Names -------------------------------
(***************************************************************************)
(* Name resolution and the features that answer from it: the item tree,    *)
(* the lexical scopes, includes and imports across files, find-references, *)
(* completion of names, and rename, whose edits the editor applies.        *)
(*                                                                         *)
(* A file is its identifier tokens, numbered in document order, and the    *)
(* syntax around them.  An offset of the code is the number of a token.    *)
(*   text[p]   the name at p;                                              *)
(*   role[p]   [as |-> the kind of the parent node, of |-> what it points  *)
(*             at: the type's name in a struct literal, the receiver of a  *)
(*             member access (0: not a plain name), the import];           *)
(*   decls     the items in document order, [kind, at, from, to, exported, *)
(*             parent]: parent is the item around it, 0 at the top level;  *)
(*   scopes    the scope nodes, outermost first: [kind, from, to, binds],  *)
(*             a binding being [at, sees, detail]: `sees` is the first     *)
(*             token that it is visible to;                                *)
(*   imports   [at, path, prefixed, specs, target], a specifier being      *)
(*             [orig, alias] (0: no alias) and target the file that the    *)
(*             import search finds at that name, NoFile if none;           *)
(*   includes  the files that the include directives name, in order.       *)
(***************************************************************************)
EXTENDS Integers, Sequences, FiniteSets, SequencesExt

CONSTANTS Workspaces,  \* the initial contents: functions from files to files as above
          Indexed,     \* the files that workspace discovery found
          Stdlib,      \* the file of the bundled standard library
          NoFile,
          Bare,        \* the names that start with the prefix in use, and what follows it
          NewNames,    \* what the user may ask a rename to use
          Reserved     \* those of them that are keywords or not identifiers

\* A token has one part in the syntax: one binding or one named item at most is declared there.
OnePart(file) ==
  LET bindings == UNION {ToSet(s.binds) : s \in ToSet(file.scopes)}
      items == {k \in DOMAIN file.decls : file.decls[k].kind # "export_list"}
  IN /\ \A b \in bindings : file.role[b.at].as \in {"pattern", "parameter", "for", "generic"}
     /\ \A b, c \in bindings : b.at = c.at => b = c
     /\ \A k \in items : file.decls[k].kind # "constructor" =>
          /\ file.role[file.decls[k].at].as = "declaration"
          /\ \A j \in items : file.decls[j].at = file.decls[k].at => j = k
     /\ \A imp \in ToSet(file.imports) : imp.at # 0 => file.role[imp.at].as = "import"
\* What the parser and the index make of files; the bundled standard library stands alone.
WellFormed(w) ==
  /\ w = [f \in DOMAIN w |-> w[f]] /\ IsFiniteSet(DOMAIN w) /\ Stdlib \in DOMAIN w /\ NoFile \notin DOMAIN w
  /\ w[Stdlib].imports = <<>> /\ w[Stdlib].includes = <<>>
  /\ \A f \in DOMAIN w :
       LET token == DOMAIN w[f].text
           file == DOMAIN w \cup {NoFile}
           specifier == [orig : token, alias : token \cup {0}]
           binding == [at : token, sees : Nat, detail : STRING]
       IN /\ w[f] = [text |-> w[f].text, role |-> w[f].role, decls |-> w[f].decls,
                     scopes |-> w[f].scopes, imports |-> w[f].imports, includes |-> w[f].includes]
          /\ w[f].text \in Seq(STRING)
          /\ w[f].role \in [token -> [as : STRING, of : Nat]]
          /\ w[f].decls \in Seq([kind : STRING, at : token, from : token, to : token,
                                  exported : BOOLEAN, parent : Nat])
          /\ w[f].scopes \in Seq([kind : STRING, from : token, to : token, binds : Seq(binding)])
          /\ w[f].imports \in Seq([at : token \cup {0}, path : STRING, prefixed : BOOLEAN,
                                    specs : Seq(specifier), target : file])
          /\ w[f].includes \in Seq(file)
          /\ \A k \in DOMAIN w[f].decls : w[f].decls[k].parent < k
          /\ \A p \in token : w[f].role[p].as = "specifier" => w[f].role[p].of \in DOMAIN w[f].imports
          /\ OnePart(w[f])

ASSUME NamesAssumption ==
  /\ \A w \in Workspaces : WellFormed(w) /\ Indexed \subseteq DOMAIN w
  /\ NewNames \subseteq STRING

VARIABLES ws,          \* the files
          trees,       \* the item tree of each, remembered until its text changes
          renamed      \* the last rename: [outcome, def, edits]

vars == <<ws, trees, renamed>>

None == [tag |-> "none"]
Item(f, i) == [tag |-> "item", file |-> f, index |-> i]
Local(f, p, detail) == [tag |-> "local", file |-> f, at |-> p, detail |-> detail]

Tokens(f) == DOMAIN ws[f].text
Least(S) == CHOOSE k \in S : \A j \in S : k <= j
Greatest(S) == CHOOSE k \in S : \A j \in S : j <= k
OrElse(d, e) == IF d # None THEN d ELSE e
FirstFound(defs) ==
  LET found == {k \in DOMAIN defs : defs[k] # None}
  IN IF found = {} THEN None ELSE defs[Least(found)]

----------------------------------------------------------------------------
(* The item tree: every declaration, in document order, with its parent.   *)
Brings == {"struct", "enum", "contract"}

\* What a struct, enum or contract declares is exported with it.
PushItem(f, k) ==
  LET d == ws[f].decls[k]
      brought == d.parent # 0 /\ ws[f].decls[d.parent].kind \in Brings
  IN [name |-> IF d.kind = "constructor" THEN "constructor" ELSE ws[f].text[d.at],
      kind |-> d.kind, at |-> d.at, from |-> d.from, to |-> d.to,
      exported |-> IF brought THEN ws[f].decls[d.parent].exported ELSE d.exported,
      parent |-> d.parent]
ItemTree(f) ==
  [k \in {k \in DOMAIN ws[f].decls : ws[f].decls[k].kind # "export_list"} |-> PushItem(f, k)]

\* The children of `parent` (0: the top level), and the first of some symbols.
ChildrenOf(f, parent) == {i \in DOMAIN trees[f] : trees[f][i].parent = parent}
FirstItem(f, hits) == IF hits = {} THEN None ELSE Item(f, Least(hits))
Named(f, parent, name) == FirstItem(f, {i \in ChildrenOf(f, parent) : trees[f][i].name = name})
Exported(f, parent, name) ==
  FirstItem(f, {i \in ChildrenOf(f, parent) : trees[f][i].exported /\ trees[f][i].name = name})
ModuleIn(f, name) ==
  FirstItem(f, {i \in ChildrenOf(f, 0) : trees[f][i].kind = "module" /\ trees[f][i].name = name})

EnclosingModule(f, p) ==
  LET tree == trees[f]
      around == {i \in DOMAIN tree : tree[i].kind = "module" /\ p \in tree[i].from..tree[i].to}
  IN IF around = {} THEN 0 ELSE Greatest(around)

SingleTopLevelModule(f) ==
  LET tops == ChildrenOf(f, 0)
  IN IF Cardinality(tops) = 1 /\ \A i \in tops : trees[f][i].kind = "module" THEN Least(tops) ELSE 0

----------------------------------------------------------------------------
(* Local scopes.  A binding is known by the numbers of its scope and its   *)
(* place there.  Nearest first: and in a block the latest first.           *)
ScopeBindings(f, i, p) ==
  {<<i, k>> : k \in {k \in DOMAIN ws[f].scopes[i].binds : ws[f].scopes[i].binds[k].sees <= p}}
ScopeBindingsAt(f, p) ==
  UNION {ScopeBindings(f, i, p) : i \in {i \in DOMAIN ws[f].scopes : p \in ws[f].scopes[i].from..ws[f].scopes[i].to}}
Nearer(f, b, c) ==
  \/ b[1] > c[1]
  \/ b[1] = c[1] /\ IF ws[f].scopes[b[1]].kind = "block" THEN b[2] > c[2] ELSE b[2] < c[2]

Binding(f, b) == ws[f].scopes[b[1]].binds[b[2]]
BindingName(f, b) == ws[f].text[Binding(f, b).at]
Bound(f, b) == Local(f, Binding(f, b).at, Binding(f, b).detail)

ResolveLocalName(f, p, name) ==
  LET hits == {b \in ScopeBindingsAt(f, p) : BindingName(f, b) = name}
  IN IF hits = {} THEN None ELSE Bound(f, CHOOSE b \in hits : \A c \in hits : c = b \/ Nearer(f, b, c))

----------------------------------------------------------------------------
\* Mutants: an include brings in only its own declarations; a prefix is not part of a label;
\* a module of any name will do; rename does not look for conflicts; only the two files at
\* hand are searched for references.
IncludesOnce(f, name, active) ==
  FirstFound([k \in DOMAIN ws[f].includes |->
    LET t == ws[f].includes[k] IN IF t = NoFile \/ t \in active THEN None ELSE Named(t, 0, name)])
PlainLabels(f, imp, orig) == {orig}
NoMismatch(t, expected) == {}
NoConflicts(def, refs, new) == {}
NearFilesOnly(def, f) == {f, def.file}

(* The file's scope: siblings in the enclosing module, the top level, what *)
(* the includes splice in, then the imports in order.                      *)
\* `on` is the path of includes that the search is on: a file on it is not entered again.
ResolveIncludes(f, name, active) ==
  LET search[on \in SUBSET DOMAIN ws] ==
        [g \in DOMAIN ws |-> FirstFound([k \in DOMAIN ws[g].includes |->
           LET t == ws[g].includes[k]
           IN IF t = NoFile \/ t \in on THEN None
              ELSE OrElse(Named(t, 0, name), search[on \cup {t}][t])])]
  IN search[active][f]

IsStdlib(f, imp) == imp.at # 0 /\ ws[f].text[imp.at] = "CompactStandardLibrary"
\* The imports that make another file a dependency of this one.
NeedsFile(f, imp) == ~IsStdlib(f, imp) /\ (imp.at # 0 => ModuleIn(f, ws[f].text[imp.at]) = None)
ExpectedModule(f, imp) == IF imp.at = 0 THEN imp.path ELSE ws[f].text[imp.at]

\* The specifiers of an import, as visible name and original name.
Specifiers(f, imp) ==
  [k \in DOMAIN imp.specs |->
     [orig |-> ws[f].text[imp.specs[k].orig],
      label |-> ws[f].text[IF imp.specs[k].alias = 0 THEN imp.specs[k].orig ELSE imp.specs[k].alias]]]

\* The member of the imported module that `name` stands for, if it may.
TargetName(f, imp, name) ==
  LET lookup == IF imp.prefixed /\ name \in DOMAIN Bare THEN Bare[name] ELSE name
      hits == {k \in DOMAIN imp.specs : Specifiers(f, imp)[k].label = lookup}
  IN IF imp.prefixed /\ name \notin DOMAIN Bare THEN <<>>
     ELSE IF imp.specs = <<>> THEN <<lookup>>
     ELSE IF hits = {} THEN <<>> ELSE <<Specifiers(f, imp)[Least(hits)].orig>>

ResolveExternalModuleMember(t, expected, name) ==
  IF t = NoFile THEN None
  ELSE LET m == SingleTopLevelModule(t)
       IN IF m = 0 \/ trees[t][m].name # expected THEN None ELSE Exported(t, m, name)

ResolveOneImport(f, imp, name) ==
  LET target == TargetName(f, imp, name)
      inScope == IF imp.at = 0 THEN None ELSE ModuleIn(f, ws[f].text[imp.at])
  IN IF target = <<>> THEN None
     ELSE IF IsStdlib(f, imp) THEN Exported(Stdlib, 0, target[1])
     ELSE IF inScope # None THEN Exported(f, inScope.index, target[1])
     ELSE ResolveExternalModuleMember(imp.target, ExpectedModule(f, imp), target[1])

ResolveImports(f, name) ==
  FirstFound([k \in DOMAIN ws[f].imports |-> ResolveOneImport(f, ws[f].imports[k], name)])

ResolveInFile(f, p, name) ==
  LET m == EnclosingModule(f, p)
      sibling == IF m = 0 THEN None ELSE Named(f, m, name)
      spliced == OrElse(Named(f, 0, name), ResolveIncludes(f, name, {f}))
  IN OrElse(sibling, OrElse(spliced, ResolveImports(f, name)))

ResolveNameAt(f, p, name) ==
  OrElse(ResolveLocalName(f, p, name), ResolveInFile(f, p, name))

----------------------------------------------------------------------------
(* Resolving the identifier at a position, by what its parent node is.     *)
MemberOf(def, kind, name) ==
  IF def.tag # "item" THEN None
  ELSE LET tree == trees[def.file]
       IN FirstItem(def.file, {i \in ChildrenOf(def.file, def.index) :
                                 tree[i].kind = kind /\ tree[i].name = name})

ItemDeclarationAt(f, p) ==
  LET tree == trees[f]
      hits == {i \in DOMAIN tree : tree[i].at = p}
  IN FirstItem(f, hits)

\* A binding of a pattern, seen from the pattern itself: the text shown for it is looked up
\* from the nodes around it, and an untyped lambda parameter has no parameter node.
DetailForBinding(f, p) ==
  IF \E s \in ToSet(ws[f].scopes) : \E b \in ToSet(s.binds) : b.at = p /\ b.detail = "parameter"
  THEN "parameter" ELSE "const"

ResolveStructLiteralField(f, p, name) ==
  LET of == ws[f].role[p].of IN MemberOf(ResolveNameAt(f, of, ws[f].text[of]), "field", name)

ResolveMember(f, p, name) ==
  LET of == ws[f].role[p].of
      receiver == IF of = 0 THEN None ELSE ResolveNameAt(f, of, ws[f].text[of])
  IN IF receiver.tag # "item" THEN None
     ELSE IF trees[receiver.file][receiver.index].kind # "enum" THEN None
     ELSE MemberOf(receiver, "variant", name)

ResolveImportSpecifier(f, imp, p, name) ==
  LET inScope == IF imp.at = 0 THEN None ELSE ModuleIn(f, ws[f].text[imp.at])
  IN IF p \notin {s.orig : s \in ToSet(imp.specs)} THEN None
     ELSE IF IsStdlib(f, imp) THEN Exported(Stdlib, 0, name)
     ELSE IF inScope = None THEN None ELSE Exported(f, inScope.index, name)

Resolve(f, p) ==
  LET as == ws[f].role[p].as
      name == ws[f].text[p]
  IN CASE as = "pattern"     -> Local(f, p, DetailForBinding(f, p))
       [] as \in {"for", "generic"} -> Local(f, p, as)
       [] as = "declaration" -> ItemDeclarationAt(f, p)
       [] as \in {"name", "type", "shorthand"} -> ResolveNameAt(f, p, name)
       [] as = "field init"  -> ResolveStructLiteralField(f, p, name)
       [] as = "member"      -> ResolveMember(f, p, name)
       [] as = "specifier"   -> ResolveImportSpecifier(f, ws[f].imports[ws[f].role[p].of], p, name)
       [] OTHER              -> None   \* an export list, an import's name, a typed lambda parameter

DefName(def) == IF def.tag = "item" THEN trees[def.file][def.index].name
                ELSE ws[def.file].text[def.at]

----------------------------------------------------------------------------
(* Find-references: every token of that name which resolves to the same    *)
(* definition, in the file of a local and in all the files for an item.    *)
SearchedFiles(def, f) ==
  IF def.tag = "local" THEN {f} ELSE Indexed \cup {f, def.file}
FindReferences(f, p) ==
  LET def == Resolve(f, p)
  IN IF def = None THEN {}
     ELSE UNION {{<<g, q>> : q \in {q \in Tokens(g) : ws[g].text[q] = DefName(def) /\ Resolve(g, q) = def}}
                  : g \in SearchedFiles(def, f)}

(* Rename: refused when the new name already means something else at one   *)
(* of the references.                                                      *)
Conflicts(def, refs, new) ==
  {r \in refs : ResolveNameAt(r[1], r[2], new) \notin {None, def}}
RenameOutcome(def, refs, new) ==
  IF new \in Reserved THEN "invalid name"
  ELSE IF def = None THEN "not found"
  ELSE IF def.file = Stdlib THEN "builtin target"
  ELSE IF Conflicts(def, refs, new) # {} THEN "conflict"
  ELSE "edited"

----------------------------------------------------------------------------
(* Completion of names at the cursor on token p.                           *)
ValueKinds == {"circuit", "circuit signature", "witness", "ledger", "module"}
TypeKinds == {"struct", "enum", "type"}

Offer(label, def) == [label |-> label, def |-> def]
Labels(offers) == {o.label : o \in offers}
\* What is pushed later is shown only under a label that was not seen before.
Pushing(offers, later) == offers \cup {o \in later : o.label \notin Labels(offers)}

\* Of the bindings with one name the nearest is shown, of the symbols the first.
LocalOffers(f, bindings) ==
  {Offer(BindingName(f, b), Bound(f, b)) :
     b \in {b \in bindings : \A c \in bindings : BindingName(f, c) = BindingName(f, b) => c = b \/ Nearer(f, b, c)}}
SymbolOffers(f, hits) ==
  {Offer(trees[f][i].name, Item(f, i)) :
     i \in {i \in hits : \A j \in hits : trees[f][j].name = trees[f][i].name => i <= j}}
OfKinds(f, parent, kinds) == {i \in ChildrenOf(f, parent) : trees[f][i].kind \in kinds}
FileOffers(f, p, kinds) ==
  LET m == EnclosingModule(f, p)
  IN Pushing(IF m = 0 THEN {} ELSE SymbolOffers(f, OfKinds(f, m, kinds)), SymbolOffers(f, OfKinds(f, 0, kinds)))

\* What the user has to type for a member of the imported module, if it is visible at all.
VisibleLabels(f, imp, orig) ==
  LET hits == {k \in DOMAIN imp.specs : Specifiers(f, imp)[k].orig = orig}
      plain == IF imp.specs = <<>> THEN {orig}
               ELSE IF hits = {} THEN {} ELSE {Specifiers(f, imp)[Least(hits)].label}
  IN IF imp.prefixed THEN {n \in DOMAIN Bare : Bare[n] \in plain} ELSE plain
\* The members of a module of the file, or of the standard library, with that label.
MemberOffers(f, imp, g, parent, kinds) ==
  LET members == {i \in OfKinds(g, parent, kinds) : trees[g][i].exported}
      labels(i) == VisibleLabels(f, imp, trees[g][i].name)
  IN UNION {{Offer(n, Named(g, parent, trees[g][i].name)) :
               n \in {n \in labels(i) : \A j \in members : j < i => n \notin labels(j)}} : i \in members}
ImportOffers(f, imp, kinds) ==
  LET module == IF imp.at = 0 THEN None ELSE ModuleIn(f, ws[f].text[imp.at])
  IN IF IsStdlib(f, imp) THEN MemberOffers(f, imp, Stdlib, 0, kinds)
     ELSE IF module = None THEN {} ELSE MemberOffers(f, imp, f, module.index, kinds)
ImportedOffers(f, kinds) ==
  LET offers(k) == ImportOffers(f, ws[f].imports[k], kinds)
  IN UNION {{o \in offers(k) : \A j \in 1..(k - 1) : o.label \notin Labels(offers(j))} : k \in DOMAIN ws[f].imports}

ScopeAndItems(f, p) ==
  Pushing(LocalOffers(f, ScopeBindingsAt(f, p)), Pushing(FileOffers(f, p, ValueKinds), ImportedOffers(f, ValueKinds)))
TypeItems(f, p) ==
  LET generics == {b \in ScopeBindingsAt(f, p) : Binding(f, b).detail = "generic"}
  IN Pushing(LocalOffers(f, generics), Pushing(FileOffers(f, p, TypeKinds), ImportedOffers(f, TypeKinds)))
VariantOffers(f, p) ==
  LET of == ws[f].role[p].of
      def == IF of = 0 THEN None ELSE Resolve(f, of)
  IN IF def.tag # "item" THEN {}
     ELSE {Offer(trees[def.file][i].name, Item(def.file, i)) : i \in OfKinds(def.file, def.index, {"variant"})}
StructFieldOffers(f, p) ==
  LET of == ws[f].role[p].of
      def == Resolve(f, of)
      provided == {ws[f].text[q] : q \in {q \in Tokens(f) : ws[f].role[q] = [as |-> "field init", of |-> of]}}
      fields == IF def.tag # "item" THEN {}
                ELSE {i \in OfKinds(def.file, def.index, {"field"}) : trees[def.file][i].name \notin provided}
  IN Pushing(IF fields = {} THEN {} ELSE SymbolOffers(def.file, fields), LocalOffers(f, ScopeBindingsAt(f, p)))

InBlock(f, p) == \E s \in ToSet(ws[f].scopes) : s.kind = "block" /\ p \in s.from..s.to
Completion(f, p) ==
  LET as == ws[f].role[p].as
  IN CASE as = "member"    -> VariantOffers(f, p)
       [] as = "shorthand" -> StructFieldOffers(f, p)
       [] as = "type"      -> TypeItems(f, p)
       [] OTHER            -> IF InBlock(f, p) THEN ScopeAndItems(f, p) ELSE {}

----------------------------------------------------------------------------
(* The diagnostics of the imports and includes of a file.                  *)
ModuleMismatch(t, expected) ==
  LET m == SingleTopLevelModule(t)
  IN IF m = 0 THEN {"E9003"} ELSE IF trees[t][m].name # expected THEN {"E9002"} ELSE {}
ImportDiagnostics(f, imp) ==
  IF ~NeedsFile(f, imp) THEN {}
  ELSE IF imp.target = NoFile THEN {"E9001"} ELSE ModuleMismatch(imp.target, ExpectedModule(f, imp))
IncludeDiagnostics(t) == IF t = NoFile THEN {"E9004"} ELSE {}

----------------------------------------------------------------------------
Init ==
  /\ ws \in Workspaces
  /\ trees = [f \in DOMAIN ws |-> ItemTree(f)]
  /\ renamed = [outcome |-> "none", def |-> None, edits |-> {}]

\* The editor applies the edits of the answer, to every file (external).
Apply(edits, new) ==
  [f \in DOMAIN ws |-> [ws[f] EXCEPT !.text = [p \in DOMAIN @ |-> IF <<f, p>> \in edits THEN new ELSE @[p]]]]

Rename(f, p, new) ==
  LET def == Resolve(f, p)
      refs == FindReferences(f, p)
      outcome == RenameOutcome(def, refs, new)
      edits == IF outcome = "edited" THEN refs ELSE {}
  IN /\ renamed' = [outcome |-> outcome, edits |-> edits,
                    def |-> IF outcome = "edited" THEN def ELSE None]
     /\ ws' = Apply(edits, new)
     /\ trees' = [g \in DOMAIN ws |-> ItemTree(g)']

\* A newer message arrived while the references were being collected.
RenameCancelled(f, p, new) ==
  /\ new \notin Reserved
  /\ Resolve(f, p) # None
  /\ Resolve(f, p).file # Stdlib
  /\ renamed' = [outcome |-> "not found", def |-> None, edits |-> {}]
  /\ UNCHANGED <<ws, trees>>

\* One rename is enough: what it leaves is again a workspace of Workspaces, or of its shape.
Next == /\ renamed.outcome = "none"
        /\ \E f \in DOMAIN ws \ {Stdlib} : \E p \in Tokens(f), new \in NewNames :
             Rename(f, p, new) \/ RenameCancelled(f, p, new)

Spec == Init /\ [][Next]_vars

TypeOK ==
  /\ WellFormed(ws) /\ Indexed \subseteq DOMAIN ws
  /\ trees = [f \in DOMAIN ws |-> ItemTree(f)]
  /\ renamed.outcome \in {"none", "invalid name", "not found", "builtin target", "conflict", "edited"}
  /\ renamed.edits \subseteq UNION {{f} \X Tokens(f) : f \in DOMAIN ws}
----------------------------------------------------------------------------
(* What a reader of the language expects to see, without an order of       *)
(* search: every file that the includes reach, and every exported member   *)
(* of an imported module under the label that the import gives it.         *)
IncludesOf(f) == ToSet(ws[f].includes) \ {NoFile}
\* The least set of files that holds f and every file that one of its files includes.
IncludeClosure(f) ==
  {g \in DOMAIN ws : \A S \in SUBSET DOMAIN ws :
                       (f \in S /\ \A h \in S : IncludesOf(h) \subseteq S) => g \in S}
TopLevelNames(f) == {trees[f][i].name : i \in {i \in DOMAIN trees[f] : trees[f][i].parent = 0}}
ImportedModule(f, imp) ==
  LET m == SingleTopLevelModule(imp.target)
      inScope == IF imp.at = 0 THEN None ELSE ModuleIn(f, ws[f].text[imp.at])
  IN IF inScope # None THEN {<<f, inScope.index>>}
     ELSE IF imp.target = NoFile THEN {}
     ELSE IF m = 0 THEN {}
     ELSE IF trees[imp.target][m].name = ExpectedModule(f, imp) THEN {<<imp.target, m>>} ELSE {}
ExportedNames(f, parent) ==
  {trees[f][i].name : i \in {i \in ChildrenOf(f, parent) : trees[f][i].exported}}
ImportLabels(f, imp) ==
  LET exported == UNION {ExportedNames(m[1], m[2]) :
                           m \in IF IsStdlib(f, imp) THEN {<<Stdlib, 0>>} ELSE ImportedModule(f, imp)}
      selected == {Specifiers(f, imp)[k].label :
                     k \in {k \in DOMAIN imp.specs : Specifiers(f, imp)[k].orig \in exported}}
      labels == IF imp.specs = <<>> THEN exported ELSE selected
  IN IF imp.prefixed THEN {n \in DOMAIN Bare : Bare[n] \in labels} ELSE labels
SiblingNames(f, p) ==
  LET m == EnclosingModule(f, p)
  IN {trees[f][i].name : i \in {i \in DOMAIN trees[f] : m # 0 /\ trees[f][i].parent = m}}
LocalNames(f, p) ==
  {ws[f].text[b.at] : b \in UNION {{b \in ToSet(s.binds) : p \in s.from..s.to /\ b.sees <= p}
                                   : s \in ToSet(ws[f].scopes)}}
VisibleNames(f, p) ==
  LET spliced == UNION {TopLevelNames(g) : g \in IncludeClosure(f)}
      imported == UNION {ImportLabels(f, imp) : imp \in ToSet(ws[f].imports)}
  IN LocalNames(f, p) \cup SiblingNames(f, p) \cup spliced \cup imported
AllNames == NewNames \cup UNION {ToSet(ws[f].text) : f \in DOMAIN ws}

\* No two specifiers of an import give different members the same label.
LabelsDiffer(f, imp) ==
  \A j, k \in DOMAIN imp.specs : Specifiers(f, imp)[j].label = Specifiers(f, imp)[k].label =>
                                    Specifiers(f, imp)[j].orig = Specifiers(f, imp)[k].orig

\* A name resolves only where it is visible, and wherever it is unless an import gives one
\* label twice: the search in order, with its guard against include cycles, its prefixes and
\* its alias lists, invents no declaration and loses none.
ResolvesWhatIsVisible ==
  \A f \in DOMAIN ws : \A p \in Tokens(f) :
    LET resolved == {n \in AllNames : ResolveNameAt(f, p, n) # None}
        visible == AllNames \cap VisibleNames(f, p)
    IN /\ resolved \subseteq visible
       /\ (\A imp \in ToSet(ws[f].imports) : LabelsDiffer(f, imp)) => visible \subseteq resolved

\* An import without an error gives every member it makes visible; one with an error, none:
\* the diagnostics and the resolver, written separately, agree about every import.
QuietImportsResolve ==
  \A f \in DOMAIN ws : \A imp \in ToSet(ws[f].imports) :
    /\ ImportDiagnostics(f, imp) = {} =>
         /\ IsStdlib(f, imp) \/ ImportedModule(f, imp) # {}
         /\ LabelsDiffer(f, imp) => \A n \in ImportLabels(f, imp) : ResolveOneImport(f, imp, n) # None
    /\ ImportDiagnostics(f, imp) # {} => \A n \in AllNames : ResolveOneImport(f, imp, n) = None

\* A name that the imported module exports is exported by its first declaration there.
ExportedFirst(f, imp) ==
  \A m \in {<<Stdlib, 0>>} \cup ImportedModule(f, imp) :
    \A n \in ExportedNames(m[1], m[2]) : Named(m[1], m[2], n) = Exported(m[1], m[2], n)
\* A label means one thing at p, shadowing apart: its bindings around p are of the kind asked
\* for, and without one so are the items around p; and what one import gives under it, no other
\* import and no included file gives as well.
OneMeaning(f, p, label) ==
  LET kinds == IF ws[f].role[p].as = "type" THEN TypeKinds ELSE ValueKinds
      givers == {k \in DOMAIN ws[f].imports : label \in ImportLabels(f, ws[f].imports[k])}
  IN IF label \in LocalNames(f, p)
     THEN ws[f].role[p].as = "type" => \A b \in ScopeBindingsAt(f, p) :
                                          BindingName(f, b) = label => Binding(f, b).detail = "generic"
     ELSE /\ \A i \in ChildrenOf(f, 0) \cup ChildrenOf(f, EnclosingModule(f, p)) :
               trees[f][i].name = label => trees[f][i].kind \in kinds
          /\ \A k \in givers :
               /\ givers = {k} /\ LabelsDiffer(f, ws[f].imports[k]) /\ ExportedFirst(f, ws[f].imports[k])
               /\ \A g \in IncludeClosure(f) \ {f} : label \notin TopLevelNames(g)

\* What completion offers at the cursor means, once typed there, what it was offered as: the
\* two walks over scopes, modules and imports agree, shadowing included.
CompletionAgrees ==
  \A f \in DOMAIN ws : \A p \in Tokens(f) :
    ws[f].role[p].as \in {"name", "type"} =>
      \A offer \in Completion(f, p) :
        OneMeaning(f, p, offer.label) => ResolveNameAt(f, p, offer.label) = offer.def

\* Asked at any of the references it found, find-references finds the same ones, whichever
\* file the question comes from: a file that is open is indexed, and so is what it includes.
ReferencesAgree ==
  \A f \in DOMAIN ws \cap (Indexed \cup {Stdlib}) : \A p \in Tokens(f) :
    \A r \in FindReferences(f, p) : FindReferences(r[1], r[2]) = FindReferences(f, p)

\* Every identifier that a rename edits still means the renamed declaration: none is captured
\* by a binding that already had the new name.
RenamedSitesAgree ==
  [][renamed'.outcome = "edited" => \A e \in renamed'.edits : Resolve(e[1], e[2])' = renamed'.def]_vars

\* A rename changes the meaning of no identifier at all: what resolved still resolves, to the
\* same declaration.
RenameKeepsReferences ==
  [][\A f \in DOMAIN ws : \A p \in Tokens(f) :
       Resolve(f, p) # None => Resolve(f, p)' = Resolve(f, p)]_vars
=============================================================================

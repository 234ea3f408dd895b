------------------------- MODULE AnalysisHostProofs -------------------------
(* The safety properties of AnalysisHost hold for every set of files, texts *)
(* and import specs, every search path and every number of changes.         *)
(*                                                                         *)
(* Every handler that touches the index does it through IndexFile, and      *)
(* every query through SourceFor, so the proof first says once what those   *)
(* two establish (SourceForStep, IndexFileCases) and then goes through the  *)
(* actions with these facts instead of the definitions.                     *)
EXTENDS AnalysisHost, SequenceTheorems, WellFoundedInduction, TLAPS

\* The last notification about a file tells whether it is on disk: what makes
\* handling the notifications in order end in the right state.
WatchIsTruthful ==
  \A i \in DOMAIN watch :
    (\A j \in DOMAIN watch : watch[j].file = watch[i].file => j <= i)
      => (watch[i].deleted <=> disk[watch[i].file] = Absent)

\* Nothing is announced before the watcher is registered.
CrawlIsUnwatched == phase = "crawl" => watch = <<>>

\* The inductive invariant: index and inputs, and the disk.
HostPart ==
  /\ GraphsAgree /\ IndexMatchesDeps /\ PublishedMapsAreCurrent /\ OpenBuffersAreLive

DiskPart == WatchIsTruthful /\ CrawlIsUnwatched /\ CachedTextIsOnDisk

HostInvariant == TypeOK /\ HostPart /\ DiskPart

-----------------------------------------------------------------------------
(* What the helpers do.                                                    *)

\* Only the disk or an overlay provides a text.
LEMMA ReadTexts ==
  ASSUME TypeOK, NEW c \in [Files -> Content], NEW f \in Files
  PROVE  /\ Read(c, f) \in Texts \cup {Absent}
         /\ c[f].kind # "none" => Read(c, f) = c[f].text /\ Read(c, f) \in Texts
         /\ c[f].kind = "none" => Read(c, f) = disk[f]
  BY HostAssumption DEF TypeOK, Read, Content, Nothing

\* A text read is cached, everything else stays.
LEMMA CachedContents ==
  ASSUME TypeOK, NEW c \in [Files -> Content], NEW S \in SUBSET Files
  PROVE  /\ Cached(c, S) \in [Files -> Content]
         /\ \A f \in Files :
              \/ Cached(c, S)[f] = c[f]
              \/ /\ c[f].kind = "none" /\ disk[f] \in Texts
                 /\ Cached(c, S)[f] = [kind |-> "disk", text |-> disk[f]]
<1> DEFINE C == Cached(c, S)
<1>1. ASSUME NEW f \in Files
      PROVE  \/ C[f] = c[f]
             \/ /\ c[f].kind = "none" /\ disk[f] \in Texts
                /\ C[f] = [kind |-> "disk", text |-> disk[f]]
  BY ReadTexts DEF Cached, Readable
<1>2. ASSUME NEW f \in Files
      PROVE  C[f] \in Content
  <2>1. c[f] \in Content
    OBVIOUS
  <2>2. disk[f] \in Texts => [kind |-> "disk", text |-> disk[f]] \in Content
    BY DEF Content
  <2>3. QED
    BY <1>1, <2>1, <2>2
<1>3. C = [f \in Files |-> C[f]]
  BY DEF Cached
<1>4. QED
  BY <1>1, <1>2, <1>3

\* Every input is a number, kept unless the file had none and is read now.
LEMMA InputNumbers ==
  ASSUME TypeOK, NEW c \in [Files -> Content], NEW S \in SUBSET Files
  PROVE  /\ InputOf(c, S) \in [Files -> Nat]
         /\ \A f \in Files :
              InputOf(c, S)[f] = IF f \in Readable(c, S) /\ sources[f] = 0
                                   THEN Len(texts[f]) + 1 ELSE sources[f]
  BY DEF TypeOK, InputOf

\* What source_for does to one file's inputs.
LEMMA SourceForInput ==
  ASSUME TypeOK, NEW c \in [Files -> Content], NEW S \in SUBSET Files, SourceFor(c, S),
         NEW f \in Files
  PROVE  /\ texts'[f] \in Seq(Texts)
         /\ sources'[f] \in 0..Len(texts'[f])
         /\ f \in Readable(c, S) => sources'[f] # 0 /\ texts'[f][sources'[f]] = Read(c, f)
         /\ f \notin Readable(c, S) => sources'[f] = sources[f] /\ texts'[f] = texts[f]
<1> USE DEF TypeOK
<1>1. sources'[f] = IF f \in Readable(c, S) /\ sources[f] = 0
                      THEN Len(texts[f]) + 1 ELSE sources[f]
  BY InputNumbers DEF SourceFor
<1>2. texts[f] \in Seq(Texts) /\ sources[f] \in 0..Len(texts[f])
  OBVIOUS
<1>3. CASE f \notin Readable(c, S)
  <2>1. texts'[f] = texts[f]
    BY <1>3 DEF SourceFor
  <2>2. QED
    BY <1>1, <1>2, <1>3, <2>1
<1>4. CASE f \in Readable(c, S)
  <2>1. Read(c, f) \in Texts
    BY <1>4, ReadTexts DEF Readable
  <2>2. CASE sources[f] = 0
    <3>1. texts'[f] = Append(texts[f], Read(c, f))
      BY <1>4, <2>2 DEF SourceFor
    <3>2. QED
      BY <1>1, <1>2, <1>4, <2>1, <2>2, <3>1
  <2>3. CASE sources[f] # 0
    <3>1. texts'[f] = [texts[f] EXCEPT ![sources[f]] = Read(c, f)]
      BY <1>4, <2>3 DEF SourceFor
    <3>2. sources[f] \in 1..Len(texts[f])
      BY <1>2, <2>3
    <3>3. QED
      BY <1>1, <1>2, <1>4, <2>1, <2>3, <3>1, <3>2
  <2>4. QED
    BY <2>2, <2>3
<1>5. QED
  BY <1>3, <1>4

\* What source_for does to the state.
LEMMA SourceForStep ==
  ASSUME TypeOK, NEW c \in [Files -> Content], NEW S \in SUBSET Files, SourceFor(c, S)
  PROVE  /\ contents' \in [Files -> Content]
         /\ texts' \in [Files -> Seq(Texts)]
         /\ sources' \in [Files -> Nat] /\ file_srcs' \in [Files -> Nat]
         /\ \A f \in Files : sources'[f] \in 0..Len(texts'[f])
         /\ file_srcs = sources => file_srcs' = sources'
         /\ contents' = Cached(c, S)
<1>1. contents' = Cached(c, S) /\ contents' \in [Files -> Content]
  BY CachedContents DEF SourceFor
<1>2. sources' \in [Files -> Nat]
  BY InputNumbers DEF SourceFor
<1>3. file_srcs' \in [Files -> Nat] /\ (file_srcs = sources => file_srcs' = sources')
  BY <1>2 DEF SourceFor, TypeOK
<1>4. texts' = [f \in Files |-> texts'[f]]
  BY DEF SourceFor
<1>5. texts' \in [Files -> Seq(Texts)] /\ \A f \in Files : sources'[f] \in 0..Len(texts'[f])
  BY <1>4, SourceForInput
<1>6. QED
  BY <1>1, <1>2, <1>3, <1>5

\* What set_overlay followed by anything, or anything alone, may pass as contents.
LEMMA OverlayContents ==
  ASSUME TypeOK, NEW f \in Files
  PROVE  /\ contents \in [Files -> Content]
         /\ [contents EXCEPT ![f] = Nothing] \in [Files -> Content]
         /\ InvalidateDisk(f) \in [Files -> Content]
         /\ \A t \in Texts :
              [contents EXCEPT ![f] = [kind |-> "overlay", text |-> t]] \in [Files -> Content]
  BY DEF TypeOK, InvalidateDisk, Content

\* A spec resolves to a file that is there, or to nothing.
LEMMA FindFiles ==
  ASSUME NEW r \in Raws
  PROVE  Find(r) \in Files \cup {Absent}
<1>1. CASE Exists(r) = {}
  BY <1>1 DEF Find
<1>2. CASE Exists(r) # {}
  <2>1. Candidates[r] \in Seq(Files)
    BY HostAssumption
  <2>2. Exists(r) \subseteq DOMAIN Candidates[r] /\ Exists(r) \subseteq Nat
    BY <2>1 DEF Exists
  <2>3. \E i \in Exists(r) : \A j \in Exists(r) : i <= j
    <3> DEFINE R == OpToRel(<, Nat)
    <3>1. \A i, j \in Nat : <<j, i>> \in R <=> j < i
      BY DEF OpToRel
    <3> HIDE DEF R
    <3>2. \E i \in Exists(r) : \A j \in Exists(r) : <<j, i>> \notin R
      <4>1. IsWellFoundedOn(R, Nat)
        BY NatLessThanWellFounded DEF R
      <4>2. QED
        BY <1>2, <2>2, <4>1, WFMin
    <3>3. PICK i \in Exists(r) : \A j \in Exists(r) : <<j, i>> \notin R
      BY <3>2
    <3>4. ASSUME NEW j \in Exists(r)
          PROVE  i <= j
      <4>1. i \in Nat /\ j \in Nat
        BY <2>2
      <4>2. ~ (j < i)
        BY <3>1, <3>3, <4>1
      <4>3. QED
        BY <4>1, <4>2
    <3>5. QED
      BY <3>4
  <2>4. (CHOOSE i \in Exists(r) : \A j \in Exists(r) : i <= j) \in Exists(r)
    BY <2>3
  <2>5. QED
    BY <1>2, <2>1, <2>2, <2>4 DEF Find
<1>3. QED
  BY <1>1, <1>2

\* index_file either evicts an unreadable file, or derives input, FileDeps,
\* symbols and edges from one text; the edges are the targets of the FileDeps.
LEMMA IndexFileCases ==
  ASSUME TypeOK, NEW c \in [Files -> Content], NEW f \in Files, IndexFile(c, f)
  PROVE  \/ /\ Read(c, f) = Absent /\ Remove(f) /\ contents' = c
            /\ UNCHANGED <<inputs, deps>>
         \/ \E wanted \in SUBSET Files, resolved \in SUBSET Dep :
              LET found == {d.target.file : d \in resolved} \ {Absent} IN
              /\ Read(c, f) \in Texts
              /\ SourceFor(c, {f} \cup wanted)
              /\ PublishFileDeps(f, resolved)
              /\ found \subseteq Files /\ SetFile(f, Read(c, f), found)
              /\ {[raw |-> d.raw, is_include |-> d.is_include] : d \in resolved}
                   = Imports[Read(c, f)]
<1> DEFINE text == Read(c, f)
           wanted == {Find(i.raw) : i \in Imports[text]} \ {Absent}
           found == Readable(c, wanted)
           input == InputOf(c, {f} \cup wanted)
           Resolved(i) == [raw |-> i.raw, is_include |-> i.is_include,
                           target |-> IF Find(i.raw) \in found
                                        THEN [file |-> Find(i.raw), input |-> input[Find(i.raw)]]
                                        ELSE NoTarget]
           resolved == {Resolved(i) : i \in Imports[text]}
<1>1. CASE text = Absent
  BY <1>1 DEF IndexFile
<1>2. CASE text # Absent
  <2>1. text \in Texts /\ Imports[text] \subseteq Import
    BY <1>2, ReadTexts, HostAssumption
  <2>2. \A i \in Imports[text] : i.raw \in Raws /\ i.is_include \in BOOLEAN
                                /\ i = [raw |-> i.raw, is_include |-> i.is_include]
    BY <2>1 DEF Import
  <2>3. wanted \subseteq Files
    BY <2>2, FindFiles
  <2>4. found \subseteq wanted
    BY DEF Readable
  <2>5. input \in [Files -> Nat]
    BY <2>3, InputNumbers
  <2>6. ASSUME NEW i \in Imports[text]
        PROVE  Resolved(i) \in Dep
    <3>1. Resolved(i).target \in Target \cup {NoTarget}
      BY <2>3, <2>4, <2>5 DEF Target
    <3>2. QED
      BY <2>2, <3>1 DEF Dep
  <2>7. resolved \in SUBSET Dep
    BY <2>6
  <2>8. found = {d.target.file : d \in resolved} \ {Absent}
    <3>1. ASSUME NEW g \in found
          PROVE  \E d \in resolved : d.target.file = g /\ g # Absent
      <4>1. PICK i \in Imports[text] : g = Find(i.raw) /\ g # Absent
        BY <2>4
      <4>2. Resolved(i).target.file = g
        BY <4>1
      <4>3. QED
        BY <4>1, <4>2
    <3>2. ASSUME NEW d \in resolved, d.target.file # Absent
          PROVE  d.target.file \in found
      <4>1. PICK i \in Imports[text] : d = Resolved(i)
        OBVIOUS
      <4>2. QED
        BY <3>2, <4>1 DEF NoTarget
    <3>3. QED
      BY <3>1, <3>2
  <2>9. {[raw |-> d.raw, is_include |-> d.is_include] : d \in resolved} = Imports[text]
    <3>1. \A i \in Imports[text] : [raw |-> Resolved(i).raw, is_include |-> Resolved(i).is_include] = i
      BY <2>2
    <3>2. \A d \in resolved : \E i \in Imports[text] :
             [raw |-> d.raw, is_include |-> d.is_include] = i
      BY <3>1
    <3>3. \A i \in Imports[text] : \E d \in resolved :
             i = [raw |-> d.raw, is_include |-> d.is_include]
      <4>1. ASSUME NEW i \in Imports[text]
            PROVE  \E d \in resolved : i = [raw |-> d.raw, is_include |-> d.is_include]
        <5>1. Resolved(i) \in resolved
          OBVIOUS
        <5>2. QED
          BY <3>1, <5>1
      <4>2. QED
        BY <4>1
    <3> HIDE DEF resolved, text
    <3>4. QED
      BY <3>2, <3>3
  <2>10. SourceFor(c, {f} \cup wanted) /\ PublishFileDeps(f, resolved) /\ SetFile(f, text, found)
    BY <1>2 DEF IndexFile
  <2>11. QED
    BY <2>1, <2>3, <2>4, <2>7, <2>8, <2>9, <2>10
<1>3. QED
  BY <1>1, <1>2

-----------------------------------------------------------------------------
(* What indexing a file keeps.                                             *)

\* The part of TypeOK that the host's operations touch.
HostTypes ==
  /\ contents \in [Files -> Content] /\ texts \in [Files -> Seq(Texts)]
  /\ sources \in [Files -> Nat] /\ file_srcs \in [Files -> Nat]
  /\ \A f \in Files : sources[f] \in 0..Len(texts[f])
  /\ dep_inputs \in [Files -> [known : BOOLEAN, deps : SUBSET Dep]]
  /\ file_deps \subseteq Files /\ files \subseteq Files
  /\ symbols \in [Files -> Texts \cup {Absent}]
  /\ forward \in [Files -> SUBSET Files] /\ reverse \in [Files -> SUBSET Files]

LEMMA RemoveKeeps ==
  ASSUME TypeOK, GraphsAgree, NEW f \in Files, Remove(f)
  PROVE  /\ files' = files \ {f} /\ f \notin files'
         /\ symbols' \in [Files -> Texts \cup {Absent}]
         /\ forward' \in [Files -> SUBSET Files] /\ reverse' \in [Files -> SUBSET Files]
         /\ \A g \in Files \ {f} : symbols'[g] = symbols[g] /\ forward'[g] = forward[g]
         /\ GraphsAgree'
  BY DEF TypeOK, GraphsAgree, Remove

LEMMA SetFileKeeps ==
  ASSUME TypeOK, GraphsAgree, NEW f \in Files, NEW t \in Texts, NEW edges \in SUBSET Files,
         SetFile(f, t, edges)
  PROVE  /\ files' = files \cup {f} /\ symbols'[f] = t /\ forward'[f] = edges
         /\ symbols' \in [Files -> Texts \cup {Absent}]
         /\ forward' \in [Files -> SUBSET Files] /\ reverse' \in [Files -> SUBSET Files]
         /\ \A g \in Files \ {f} : symbols'[g] = symbols[g] /\ forward'[g] = forward[g]
         /\ GraphsAgree'
  BY DEF TypeOK, GraphsAgree, SetFile

LEMMA PublishKeeps ==
  ASSUME TypeOK, PublishedMapsAreCurrent, NEW f \in Files, NEW resolved \in SUBSET Dep,
         PublishFileDeps(f, resolved)
  PROVE  /\ dep_inputs' \in [Files -> [known : BOOLEAN, deps : SUBSET Dep]]
         /\ dep_inputs'[f] = [known |-> TRUE, deps |-> resolved]
         /\ \A g \in Files \ {f} : dep_inputs'[g] = dep_inputs[g]
         /\ file_deps' = {g \in Files : dep_inputs'[g].known}
  BY DEF TypeOK, PublishedMapsAreCurrent, PublishFileDeps

LEMMA ForgetKeeps ==
  ASSUME TypeOK, NEW f \in Files, ForgetFile(f)
  PROVE  /\ texts' = texts
         /\ sources' \in [Files -> Nat] /\ file_srcs' = sources'
         /\ sources'[f] = 0 /\ \A g \in Files \ {f} : sources'[g] = sources[g]
         /\ dep_inputs' \in [Files -> [known : BOOLEAN, deps : SUBSET Dep]]
         /\ \A g \in Files \ {f} : dep_inputs'[g] = dep_inputs[g]
         /\ file_deps' = {g \in Files : dep_inputs'[g].known}
  BY DEF TypeOK, ForgetFile

\* Indexing keeps the types, the graph, the agreement of index and FileDeps and
\* that of the published maps.
LEMMA IndexFileKeeps ==
  ASSUME TypeOK, GraphsAgree, IndexMatchesDeps, PublishedMapsAreCurrent,
         NEW c \in [Files -> Content], NEW f \in Files, IndexFile(c, f)
  PROVE  /\ HostTypes' /\ GraphsAgree' /\ IndexMatchesDeps' /\ PublishedMapsAreCurrent'
<1>1. CASE /\ Read(c, f) = Absent /\ Remove(f) /\ contents' = c
           /\ UNCHANGED <<inputs, deps>>
  <2>1. HostTypes' /\ GraphsAgree' /\ PublishedMapsAreCurrent'
    BY <1>1, RemoveKeeps DEF TypeOK, HostTypes, PublishedMapsAreCurrent, inputs, deps
  <2>2. IndexMatchesDeps'
    BY <1>1, RemoveKeeps DEF TypeOK, IndexMatchesDeps, Edges, inputs, deps
  <2>3. QED
    BY <2>1, <2>2
<1>2. ASSUME NEW wanted \in SUBSET Files, NEW resolved \in SUBSET Dep,
             LET found == {d.target.file : d \in resolved} \ {Absent} IN
             /\ Read(c, f) \in Texts
             /\ SourceFor(c, {f} \cup wanted)
             /\ PublishFileDeps(f, resolved)
             /\ found \subseteq Files /\ SetFile(f, Read(c, f), found)
             /\ {[raw |-> d.raw, is_include |-> d.is_include] : d \in resolved}
                  = Imports[Read(c, f)]
      PROVE  /\ HostTypes' /\ GraphsAgree' /\ IndexMatchesDeps' /\ PublishedMapsAreCurrent'
  <2> DEFINE found == {d.target.file : d \in resolved} \ {Absent}
             specs == {[raw |-> d.raw, is_include |-> d.is_include] : d \in resolved}
  <2>1. /\ contents' \in [Files -> Content] /\ texts' \in [Files -> Seq(Texts)]
        /\ sources' \in [Files -> Nat] /\ file_srcs' \in [Files -> Nat]
        /\ \A g \in Files : sources'[g] \in 0..Len(texts'[g])
        /\ file_srcs' = sources'
    BY <1>2, SourceForStep DEF PublishedMapsAreCurrent
  <2>2. /\ dep_inputs' \in [Files -> [known : BOOLEAN, deps : SUBSET Dep]]
        /\ dep_inputs'[f] = [known |-> TRUE, deps |-> resolved]
        /\ \A g \in Files \ {f} : dep_inputs'[g] = dep_inputs[g]
        /\ file_deps' = {g \in Files : dep_inputs'[g].known}
    BY <1>2, PublishKeeps
  <2>3. /\ files' = files \cup {f} /\ symbols'[f] = Read(c, f) /\ forward'[f] = found
        /\ symbols' \in [Files -> Texts \cup {Absent}]
        /\ forward' \in [Files -> SUBSET Files] /\ reverse' \in [Files -> SUBSET Files]
        /\ \A g \in Files \ {f} : symbols'[g] = symbols[g] /\ forward'[g] = forward[g]
        /\ GraphsAgree'
    BY <1>2, SetFileKeeps
  <2>4. HostTypes' /\ PublishedMapsAreCurrent'
    BY <2>1, <2>2, <2>3 DEF TypeOK, HostTypes, PublishedMapsAreCurrent
  <2>5. ASSUME NEW g \in files'
        PROVE  /\ dep_inputs'[g].known /\ forward'[g] = Edges(g)'
               /\ symbols'[g] # Absent
               /\ {[raw |-> d.raw, is_include |-> d.is_include] : d \in dep_inputs'[g].deps}
                    = Imports[symbols'[g]]
    <3>1. CASE g = f
      <4>1. dep_inputs'[g].deps = resolved /\ dep_inputs'[g].known
        BY <2>2, <3>1
      <4>2. Edges(g)' = found
        BY <4>1 DEF Edges
      <4>3. symbols'[g] \in Texts /\ symbols'[g] = Read(c, f) /\ specs = Imports[Read(c, f)]
        BY <1>2, <2>3, <3>1
      <4>4. QED
        BY <2>3, <3>1, <4>1, <4>2, <4>3, HostAssumption
    <3>2. CASE g # f
      <4>1. g \in files /\ g \in Files \ {f}
        BY <2>3, <3>2 DEF TypeOK
      <4>2. dep_inputs'[g] = dep_inputs[g] /\ symbols'[g] = symbols[g] /\ forward'[g] = forward[g]
        BY <2>2, <2>3, <4>1
      <4>3. QED
        BY <4>1, <4>2 DEF IndexMatchesDeps, Edges
    <3>3. QED
      BY <3>1, <3>2
  <2>6. IndexMatchesDeps'
    BY <2>5 DEF IndexMatchesDeps
  <2>7. QED
    BY <2>3, <2>4, <2>6
<1>3. QED
  BY <1>1, <1>2, IndexFileCases

\* Provisioning f, and perhaps more, brings the inputs of open documents up to
\* their buffers, f's new contents included.
LEMMA SourceForKeepsOpen ==
  ASSUME TypeOK, OpenBuffersAreLive, NEW f \in Files,
         NEW c \in [Files -> Content], \A g \in Files \ {f} : c[g] = contents[g],
         NEW S \in SUBSET Files, f \in S, SourceFor(c, S),
         NEW g \in Files, contents'[g].kind = "overlay"
  PROVE  /\ contents'[g] = c[g]
         /\ sources'[g] # 0 => texts'[g][sources'[g]] = contents'[g].text
<1>1. contents'[g] = c[g]
  <2>1. contents' = Cached(c, S)
    BY SourceForStep
  <2>2. \/ Cached(c, S)[g] = c[g]
        \/ Cached(c, S)[g] = [kind |-> "disk", text |-> disk[g]]
    BY CachedContents
  <2>3. QED
    BY <2>1, <2>2
<1>2. Read(c, g) = contents'[g].text /\ Read(c, g) # Absent
  BY <1>1, ReadTexts, HostAssumption
<1>3. CASE g \in S
  <2>1. g \in Readable(c, S)
    BY <1>2, <1>3 DEF Readable
  <2>2. QED
    BY <1>1, <1>2, <2>1, SourceForInput
<1>4. CASE g \notin S
  <2>1. sources'[g] = sources[g] /\ texts'[g] = texts[g]
    BY <1>4, SourceForInput DEF Readable
  <2>2. contents'[g] = contents[g]
    BY <1>1, <1>4
  <2>3. QED
    BY <1>1, <2>1, <2>2 DEF OpenBuffersAreLive, Open
<1>5. QED
  BY <1>3, <1>4

\* Indexing f under new contents of f keeps open documents live, and what it
\* leaves in the disk cache is what was there or what is on disk.
LEMMA IndexFileKeepsContents ==
  ASSUME TypeOK, GraphsAgree, PublishedMapsAreCurrent, OpenBuffersAreLive, NEW f \in Files,
         NEW c \in [Files -> Content], \A g \in Files \ {f} : c[g] = contents[g],
         IndexFile(c, f)
  PROVE  /\ OpenBuffersAreLive'
         /\ \A g \in Files : contents'[g] = c[g]
                           \/ contents'[g] = [kind |-> "disk", text |-> disk[g]]
<1>1. CASE /\ Read(c, f) = Absent /\ Remove(f) /\ contents' = c
           /\ UNCHANGED <<inputs, deps>>
  <2>1. c[f].kind # "overlay"
    BY <1>1, ReadTexts, HostAssumption
  <2>2. OpenBuffersAreLive'
    BY <1>1, <2>1, RemoveKeeps DEF OpenBuffersAreLive, Open, inputs
  <2>3. QED
    BY <1>1, <2>2
<1>2. ASSUME NEW wanted \in SUBSET Files, NEW edges \in SUBSET Files,
             Read(c, f) \in Texts, SourceFor(c, {f} \cup wanted), SetFile(f, Read(c, f), edges)
      PROVE  /\ OpenBuffersAreLive'
             /\ \A g \in Files : contents'[g] = c[g]
                               \/ contents'[g] = [kind |-> "disk", text |-> disk[g]]
  <2>1. ASSUME NEW g \in Files, contents'[g].kind = "overlay"
        PROVE  /\ sources'[g] # 0 => texts'[g][sources'[g]] = contents'[g].text
               /\ g \in files' => symbols'[g] = contents'[g].text
    <3>1. /\ contents'[g] = c[g]
          /\ sources'[g] # 0 => texts'[g][sources'[g]] = contents'[g].text
      BY <1>2, <2>1, SourceForKeepsOpen
    <3>2. CASE g = f
      BY <1>2, <2>1, <3>1, <3>2, SetFileKeeps, ReadTexts
    <3>3. CASE g # f
      <4>1. contents'[g] = contents[g] /\ symbols'[g] = symbols[g] /\ files' = files \cup {f}
        BY <1>2, <3>1, <3>3, SetFileKeeps
      <4>2. QED
        BY <2>1, <3>1, <3>3, <4>1 DEF OpenBuffersAreLive, Open
    <3>4. QED
      BY <3>1, <3>2, <3>3
  <2>2. OpenBuffersAreLive'
    BY <2>1 DEF OpenBuffersAreLive, Open
  <2>3. contents' = Cached(c, {f} \cup wanted)
    BY <1>2, SourceForStep
  <2>4. \A g \in Files : \/ Cached(c, {f} \cup wanted)[g] = c[g]
                        \/ Cached(c, {f} \cup wanted)[g] = [kind |-> "disk", text |-> disk[g]]
    BY CachedContents
  <2>5. QED
    BY <2>2, <2>3, <2>4
<1>3. QED
  BY <1>1, <1>2, IndexFileCases

-----------------------------------------------------------------------------
(* The disk, the notifications and the cache.                              *)

\* The rest of TypeOK.
WorldTypes ==
  /\ disk \in [Files -> Texts \cup {Absent}]
  /\ watch \in Seq(Event) /\ changes \in Nat /\ unwatched \subseteq Files
  /\ phase \in {"crawl", "serve"} /\ to_crawl \subseteq Files
  /\ asked \in Files \cup {Absent} /\ stack \subseteq Files /\ seen \subseteq Files

LEMMA TypesSplit == /\ TypeOK <=> HostTypes /\ WorldTypes
                    /\ TypeOK' <=> HostTypes' /\ WorldTypes'
  BY DEF TypeOK, HostTypes, WorldTypes

\* While the world stands still, the cache may only take over what is on disk.
LEMMA CacheKeeps ==
  ASSUME CachedTextIsOnDisk, WatchIsTruthful, UNCHANGED <<disk, watch, unwatched>>,
         NEW c, \A g \in Files : c[g].kind = "disk" => c[g] = contents[g],
         \A g \in Files : contents'[g] = c[g]
                       \/ contents'[g] = [kind |-> "disk", text |-> disk[g]]
  PROVE  CachedTextIsOnDisk' /\ WatchIsTruthful'
<1>1. WatchIsTruthful'
  BY DEF WatchIsTruthful
<1>2. ASSUME NEW g \in Files, contents'[g].kind = "disk", ~Pending(g)
      PROVE  disk[g] \in {contents'[g].text, Absent}
  <2>1. CASE contents'[g] = [kind |-> "disk", text |-> disk[g]]
    BY <2>1
  <2>2. CASE contents'[g] = c[g]
    <3>1. contents'[g] = contents[g]
      BY <1>2, <2>2
    <3>2. QED
      BY <1>2, <3>1 DEF CachedTextIsOnDisk
  <2>3. QED
    BY <2>1, <2>2
<1>3. CachedTextIsOnDisk'
  BY <1>2 DEF CachedTextIsOnDisk, Pending
<1>4. QED
  BY <1>1, <1>3

\* A change on the disk is either announced, last in the queue, or noted as
\* having happened before anyone watched.
LEMMA NotifyKeeps ==
  ASSUME TypeOK, CachedTextIsOnDisk, WatchIsTruthful, NEW f \in Files, NEW gone \in BOOLEAN,
         Notify(f, gone), contents' = contents,
         disk' \in [Files -> Texts \cup {Absent}],
         \A g \in Files \ {f} : disk'[g] = disk[g], gone <=> disk'[f] = Absent,
         phase = "crawl" => watch = <<>>
  PROVE  /\ CachedTextIsOnDisk' /\ WatchIsTruthful'
         /\ watch' \in Seq(Event) /\ unwatched' \subseteq Files
<1>1. CASE phase = "serve"
  <2> DEFINE e == [file |-> f, deleted |-> gone]
             n == Len(watch)
  <2>1. watch' = Append(watch, e) /\ unwatched' = unwatched /\ e \in Event
    BY <1>1 DEF Notify, Event
  <2>2. /\ watch' \in Seq(Event) /\ n \in Nat /\ DOMAIN watch = 1..n /\ DOMAIN watch' = 1..(n + 1)
        /\ watch'[n + 1] = e /\ \A i \in 1..n : watch'[i] = watch[i] /\ watch[i] \in Event
    BY <2>1 DEF TypeOK
  <2>3. ASSUME NEW i \in 1..(n + 1),
               \A j \in 1..(n + 1) : watch'[j].file = watch'[i].file => j <= i
        PROVE  watch'[i].deleted <=> disk'[watch'[i].file] = Absent
    <3>1. CASE i = n + 1
      BY <2>2, <3>1
    <3>2. CASE i # n + 1
      <4>1. i \in 1..n /\ watch'[i] = watch[i] /\ watch[i].file \in Files
        BY <2>2, <3>2 DEF Event
      <4>2. watch[i].file # f
        BY <2>2, <2>3, <3>2, <4>1
      <4>3. \A j \in 1..n : watch[j].file = watch[i].file => j <= i
        BY <2>2, <2>3, <4>1
      <4>4. watch[i].deleted <=> disk[watch[i].file] = Absent
        BY <2>2, <4>1, <4>3 DEF WatchIsTruthful
      <4>5. QED
        BY <4>1, <4>2, <4>4
    <3>3. QED
      BY <3>1, <3>2
  <2>4. WatchIsTruthful'
    BY <2>2, <2>3 DEF WatchIsTruthful
  <2>5. ASSUME NEW g \in Files, ~Pending(g)'
        PROVE  g # f /\ ~Pending(g)
    <3>1. g # f
      BY <2>2, <2>5 DEF Pending
    <3>2. ~Pending(g)
      BY <2>1, <2>2, <2>5 DEF Pending
    <3>3. QED
      BY <3>1, <3>2
  <2>6. CachedTextIsOnDisk'
    BY <2>5 DEF CachedTextIsOnDisk
  <2>7. QED
    BY <2>1, <2>2, <2>4, <2>6 DEF TypeOK
<1>2. CASE phase = "crawl"
  <2>1. watch' = <<>> /\ watch = <<>> /\ unwatched' = unwatched \cup {f}
    BY <1>2 DEF Notify
  <2>2. WatchIsTruthful'
    BY <2>1 DEF WatchIsTruthful
  <2>3. CachedTextIsOnDisk'
    BY <2>1 DEF CachedTextIsOnDisk, Pending
  <2>4. QED
    BY <2>1, <2>2, <2>3 DEF TypeOK
<1>3. QED
  BY <1>1, <1>2 DEF TypeOK

\* Handling the first notification leaves the others true; the file it was
\* about is only off the list when it was the last one about it.
LEMMA HeadHandled ==
  ASSUME TypeOK, WatchIsTruthful, watch # <<>>, watch' = Tail(watch),
         UNCHANGED <<disk, unwatched>>, NEW f, f = Head(watch).file
  PROVE  /\ f \in Files /\ Head(watch).deleted \in BOOLEAN
         /\ watch' \in Seq(Event) /\ WatchIsTruthful'
         /\ \A g \in Files : g # f => (Pending(g)' <=> Pending(g))
         /\ ~Pending(f)' => (Head(watch).deleted <=> disk[f] = Absent)
<1> DEFINE n == Len(watch)
<1>1. /\ n \in Nat \ {0} /\ DOMAIN watch = 1..n /\ DOMAIN watch' = 1..(n - 1)
      /\ Head(watch) = watch[1] /\ watch' \in Seq(Event)
      /\ \A i \in 1..(n - 1) : watch'[i] = watch[i + 1]
      /\ \A i \in 1..n : watch[i] \in Event
  BY DEF TypeOK
<1>2. ASSUME NEW i \in 1..(n - 1),
             \A j \in 1..(n - 1) : watch'[j].file = watch'[i].file => j <= i
      PROVE  watch'[i].deleted <=> disk[watch'[i].file] = Absent
  <2>1. i + 1 \in 1..n /\ watch'[i] = watch[i + 1]
    BY <1>1
  <2>2. ASSUME NEW j \in 1..n, watch[j].file = watch[i + 1].file
        PROVE  j <= i + 1
    <3>1. CASE j = 1
      BY <1>1, <3>1
    <3>2. CASE j # 1
      <4>1. j - 1 \in 1..(n - 1) /\ watch'[j - 1] = watch[(j - 1) + 1] /\ (j - 1) + 1 = j
        BY <1>1, <3>2
      <4>2. j - 1 <= i
        BY <1>2, <2>1, <2>2, <4>1
      <4>3. QED
        BY <1>1, <4>2
    <3>3. QED
      BY <3>1, <3>2
  <2>3. QED
    BY <1>1, <2>1, <2>2 DEF WatchIsTruthful
<1>3. WatchIsTruthful'
  BY <1>1, <1>2 DEF WatchIsTruthful
<1>4. ASSUME NEW g \in Files
      PROVE  /\ Pending(g)' => Pending(g)
             /\ ~Pending(g)' => \A j \in 1..n : watch[j].file = g => j = 1
  <2>1. Pending(g)' <=> g \in unwatched \/ \E i \in 1..(n - 1) : watch'[i].file = g
    BY <1>1 DEF Pending
  <2>2. \A i \in 1..(n - 1) : i + 1 \in 1..n /\ watch'[i] = watch[i + 1]
    BY <1>1
  <2>3. \A j \in 1..n : j # 1 => j - 1 \in 1..(n - 1) /\ watch'[j - 1] = watch[j]
    BY <1>1
  <2>4. Pending(g)' => Pending(g)
    BY <1>1, <2>1, <2>2 DEF Pending
  <2>5. QED
    BY <2>1, <2>3, <2>4
<1>5. f \in Files
  BY <1>1 DEF Event
<1>6. ASSUME NEW g \in Files, g # f
      PROVE  Pending(g)' <=> Pending(g)
  <2>1. ASSUME ~Pending(g)'
        PROVE  ~Pending(g)
    <3>1. \A j \in 1..n : watch[j].file # g
      BY <1>1, <1>4, <1>6, <2>1
    <3>2. g \notin unwatched
      BY <2>1 DEF Pending
    <3>3. QED
      BY <1>1, <3>1, <3>2 DEF Pending
  <2>2. QED
    BY <1>4, <2>1
<1>7. ~Pending(f)' => (Head(watch).deleted <=> disk[f] = Absent)
  <2>1. ~Pending(f)' => \A j \in DOMAIN watch : watch[j].file = watch[1].file => j <= 1
    BY <1>1, <1>4, <1>5
  <2>2. 1 \in DOMAIN watch
    BY <1>1
  <2>3. QED
    BY <1>1, <2>1, <2>2 DEF WatchIsTruthful
<1>8. QED
  BY <1>1, <1>3, <1>5, <1>6, <1>7 DEF Event

-----------------------------------------------------------------------------
(* The actions.                                                            *)

\* Indexing f under new contents of f, in a world that stands still.
LEMMA IndexingKeeps ==
  ASSUME HostInvariant, NEW f \in Files, NEW c \in [Files -> Content],
         \A g \in Files \ {f} : c[g] = contents[g],
         c[f].kind = "disk" => c[f] = contents[f],
         IndexFile(c, f), UNCHANGED <<disk, watch, unwatched>>,
         phase' = "crawl" => phase = "crawl", WorldTypes'
  PROVE  HostInvariant'
<1> USE DEF HostInvariant, HostPart, DiskPart
<1>1. HostTypes' /\ GraphsAgree' /\ IndexMatchesDeps' /\ PublishedMapsAreCurrent'
  BY IndexFileKeeps
<1>2. /\ OpenBuffersAreLive'
      /\ \A g \in Files : contents'[g] = c[g]
                        \/ contents'[g] = [kind |-> "disk", text |-> disk[g]]
  BY IndexFileKeepsContents
<1>3. CachedTextIsOnDisk' /\ WatchIsTruthful'
  BY <1>2, CacheKeeps
<1>4. CrawlIsUnwatched'
  BY DEF CrawlIsUnwatched
<1>5. TypeOK'
  BY <1>1, TypesSplit
<1>6. QED
  BY <1>1, <1>2, <1>3, <1>4, <1>5

\* Provisioning f for a query, in a world that stands still.
LEMMA ProvisioningKeeps ==
  ASSUME HostInvariant, NEW f \in Files, SourceFor(contents, {f}),
         UNCHANGED <<disk, watch, unwatched, index, phase>>
  PROVE  /\ OpenBuffersAreLive' /\ DiskPart' /\ file_srcs' = sources'
         /\ contents' \in [Files -> Content] /\ texts' \in [Files -> Seq(Texts)]
         /\ sources' \in [Files -> Nat]
         /\ \A g \in Files : sources'[g] \in 0..Len(texts'[g])
<1> USE DEF HostInvariant, HostPart, DiskPart
<1>1. contents \in [Files -> Content] /\ {f} \in SUBSET Files
  BY DEF TypeOK
<1>2. /\ contents' \in [Files -> Content] /\ texts' \in [Files -> Seq(Texts)]
      /\ sources' \in [Files -> Nat] /\ contents' = Cached(contents, {f})
      /\ \A g \in Files : sources'[g] \in 0..Len(texts'[g])
      /\ file_srcs' = sources'
  BY <1>1, SourceForStep DEF PublishedMapsAreCurrent
<1>3. \A g \in Files : contents'[g] = contents[g]
                     \/ contents'[g] = [kind |-> "disk", text |-> disk[g]]
  <2>1. \A g \in Files : \/ Cached(contents, {f})[g] = contents[g]
                        \/ Cached(contents, {f})[g] = [kind |-> "disk", text |-> disk[g]]
    BY <1>1, CachedContents
  <2>2. QED
    BY <1>2, <2>1
<1>4. CachedTextIsOnDisk' /\ WatchIsTruthful'
  BY <1>3, CacheKeeps
<1>5. ASSUME NEW g \in Files, contents'[g].kind = "overlay"
      PROVE  /\ contents'[g] = contents[g]
             /\ sources'[g] # 0 => texts'[g][sources'[g]] = contents'[g].text
  BY <1>1, <1>5, SourceForKeepsOpen
<1>6. OpenBuffersAreLive'
  BY <1>5 DEF OpenBuffersAreLive, Open, index
<1>7. CrawlIsUnwatched'
  BY DEF CrawlIsUnwatched
<1>8. QED
  BY <1>2, <1>4, <1>6, <1>7

\* A step that leaves the index and the FileDeps alone keeps what depends on
\* nothing else.
LEMMA IndexUnchanged ==
  ASSUME HostInvariant, UNCHANGED <<index, dep_inputs>>
  PROVE  GraphsAgree' /\ IndexMatchesDeps'
  BY DEF HostInvariant, HostPart, GraphsAgree, IndexMatchesDeps, Edges, index

\* The end of a query: an asked file without FileDeps is not in the index, so
\* giving it empty ones disturbs nothing there.
LEMMA QueryEndKeeps == HostInvariant /\ QueryEnd => HostInvariant'
<1> SUFFICES ASSUME HostInvariant, QueryEnd
             PROVE  HostInvariant'
  OBVIOUS
<1> USE DEF HostInvariant, HostPart
<1>1. asked \in Files /\ SourceFor(contents, {asked})
  BY DEF QueryEnd, TypeOK
<1>2. UNCHANGED <<disk, watch, unwatched, changes, index, phase, to_crawl, stack>>
  BY DEF QueryEnd, world
<1>3. /\ OpenBuffersAreLive' /\ DiskPart' /\ file_srcs' = sources'
      /\ contents' \in [Files -> Content] /\ texts' \in [Files -> Seq(Texts)]
      /\ sources' \in [Files -> Nat]
      /\ \A g \in Files : sources'[g] \in 0..Len(texts'[g])
  BY <1>1, <1>2, ProvisioningKeeps
<1>4. WorldTypes'
  BY <1>2 DEF TypeOK, WorldTypes, QueryEnd, index
<1>5. CASE UNCHANGED deps
  <2>1. GraphsAgree' /\ IndexMatchesDeps'
    BY <1>2, <1>5, IndexUnchanged DEF deps
  <2>2. HostTypes' /\ PublishedMapsAreCurrent'
    BY <1>2, <1>3, <1>5 DEF TypeOK, HostTypes, PublishedMapsAreCurrent, index, deps
  <2>3. QED
    BY <1>3, <1>4, <2>1, <2>2, TypesSplit
<1>6. CASE ~dep_inputs[asked].known /\ PublishFileDeps(asked, {})
  <2> DEFINE f == asked
  <2>1. /\ dep_inputs' \in [Files -> [known : BOOLEAN, deps : SUBSET Dep]]
        /\ \A g \in Files \ {f} : dep_inputs'[g] = dep_inputs[g]
        /\ file_deps' = {g \in Files : dep_inputs'[g].known}
    BY <1>1, <1>6, PublishKeeps
  <2>2. HostTypes' /\ PublishedMapsAreCurrent' /\ GraphsAgree'
    BY <1>2, <1>3, <2>1
       DEF TypeOK, HostTypes, PublishedMapsAreCurrent, GraphsAgree, index
  <2>3. f \notin files
    BY <1>6 DEF IndexMatchesDeps
  <2>4. \A g \in files : dep_inputs'[g] = dep_inputs[g]
    BY <2>1, <2>3 DEF TypeOK
  <2>5. IndexMatchesDeps'
    BY <1>2, <2>4 DEF IndexMatchesDeps, Edges, index
  <2>6. QED
    BY <1>3, <1>4, <2>2, <2>5, TypesSplit
<1>7. QED
  BY <1>5, <1>6 DEF QueryEnd

\* A notification of the watcher: an evicted file loses its index entry and its
\* FileDeps together; any other is read from the disk as it is now.
LEMMA WatchedKeeps == HostInvariant /\ DidChangeWatchedFiles => HostInvariant'
<1> SUFFICES ASSUME HostInvariant, DidChangeWatchedFiles
             PROVE  HostInvariant'
  OBVIOUS
<1> USE DEF HostInvariant, HostPart, DiskPart
<1> DEFINE f == Head(watch).file
           c == InvalidateDisk(f)
<1>1. /\ watch # <<>> /\ watch' = Tail(watch) /\ phase = "serve"
      /\ UNCHANGED <<disk, changes, unwatched, phase, to_crawl, asked, stack, seen>>
  BY DEF DidChangeWatchedFiles, Serving, walk
<1>2. PICK h : h = Head(watch).file
  OBVIOUS
<1>3. /\ h \in Files /\ Head(watch).deleted \in BOOLEAN
      /\ watch' \in Seq(Event) /\ WatchIsTruthful'
      /\ \A g \in Files : g # h => (Pending(g)' <=> Pending(g))
      /\ ~Pending(h)' => (Head(watch).deleted <=> disk[h] = Absent)
  BY <1>1, <1>2, HeadHandled
<1>4. WorldTypes' /\ CrawlIsUnwatched'
  BY <1>1, <1>3 DEF TypeOK, WorldTypes, CrawlIsUnwatched
<1>5. CASE Head(watch).deleted
  <2>1. Remove(h) /\ ForgetFile(h) /\ contents' = contents
    BY <1>2, <1>5 DEF DidChangeWatchedFiles
  <2>2. /\ files' = files \ {h} /\ h \notin files' /\ GraphsAgree'
        /\ symbols' \in [Files -> Texts \cup {Absent}]
        /\ forward' \in [Files -> SUBSET Files] /\ reverse' \in [Files -> SUBSET Files]
        /\ \A g \in Files \ {h} : symbols'[g] = symbols[g] /\ forward'[g] = forward[g]
    BY <1>3, <2>1, RemoveKeeps
  <2>3. /\ texts' = texts /\ sources' \in [Files -> Nat] /\ file_srcs' = sources'
        /\ sources'[h] = 0 /\ \A g \in Files \ {h} : sources'[g] = sources[g]
        /\ dep_inputs' \in [Files -> [known : BOOLEAN, deps : SUBSET Dep]]
        /\ \A g \in Files \ {h} : dep_inputs'[g] = dep_inputs[g]
        /\ file_deps' = {g \in Files : dep_inputs'[g].known}
    BY <1>3, <2>1, ForgetKeeps
  <2>4. HostTypes' /\ PublishedMapsAreCurrent'
    <3>1. contents' \in [Files -> Content] /\ texts' \in [Files -> Seq(Texts)]
      BY <2>1, <2>3 DEF TypeOK
    <3>2. ASSUME NEW g \in Files
          PROVE  sources'[g] \in 0..Len(texts'[g])
      <4>1. sources[g] \in 0..Len(texts[g]) /\ texts[g] \in Seq(Texts) /\ texts'[g] = texts[g]
        BY <2>3 DEF TypeOK
      <4>2. sources'[g] = 0 \/ sources'[g] = sources[g]
        BY <2>3
      <4>3. QED
        BY <4>1, <4>2
    <3>3. files' \subseteq Files /\ file_deps' \subseteq Files /\ file_srcs' \in [Files -> Nat]
      BY <2>2, <2>3 DEF TypeOK
    <3>4. QED
      BY <2>2, <2>3, <3>1, <3>2, <3>3 DEF HostTypes, PublishedMapsAreCurrent
  <2>5. IndexMatchesDeps'
    BY <2>2, <2>3 DEF TypeOK, IndexMatchesDeps, Edges
  <2>6. OpenBuffersAreLive'
    BY <2>1, <2>2, <2>3 DEF TypeOK, OpenBuffersAreLive, Open
  <2>7. CachedTextIsOnDisk'
    BY <1>1, <1>3, <1>5, <2>1 DEF CachedTextIsOnDisk
  <2>8. QED
    BY <1>3, <1>4, <2>2, <2>4, <2>5, <2>6, <2>7, TypesSplit
<1>6. CASE ~Head(watch).deleted
  <2>1. IndexFile(InvalidateDisk(h), h)
    BY <1>2, <1>6 DEF DidChangeWatchedFiles
  <2>2. /\ InvalidateDisk(h) \in [Files -> Content] /\ InvalidateDisk(h)[h].kind # "disk"
        /\ \A g \in Files \ {h} : InvalidateDisk(h)[g] = contents[g]
    BY <1>3, OverlayContents DEF TypeOK, InvalidateDisk, Nothing
  <2>3. HostTypes' /\ GraphsAgree' /\ IndexMatchesDeps' /\ PublishedMapsAreCurrent'
    BY <1>3, <2>1, <2>2, IndexFileKeeps
  <2>4. /\ OpenBuffersAreLive'
        /\ \A g \in Files : contents'[g] = InvalidateDisk(h)[g]
                          \/ contents'[g] = [kind |-> "disk", text |-> disk[g]]
    BY <1>3, <2>1, <2>2, IndexFileKeepsContents
  <2>5. ASSUME NEW g \in Files, contents'[g].kind = "disk", ~Pending(g)'
        PROVE  disk[g] \in {contents'[g].text, Absent}
    <3>1. CASE contents'[g] = [kind |-> "disk", text |-> disk[g]]
      BY <3>1
    <3>2. CASE contents'[g] = InvalidateDisk(h)[g]
      <4>1. g # h /\ contents'[g] = contents[g]
        BY <2>2, <2>5, <3>2
      <4>2. QED
        BY <1>3, <2>5, <4>1 DEF CachedTextIsOnDisk
    <3>3. QED
      BY <2>4, <3>1, <3>2
  <2>6. CachedTextIsOnDisk'
    BY <1>1, <2>5 DEF CachedTextIsOnDisk
  <2>7. QED
    BY <1>3, <1>4, <2>3, <2>4, <2>6, TypesSplit
<1>7. QED
  BY <1>5, <1>6

\* A change on the disk touches nothing of the host.
LEMMA DiskChangeKeeps ==
  ASSUME HostInvariant, NEW f \in Files, NEW gone \in BOOLEAN,
         Change, Notify(f, gone), disk' \in [Files -> Texts \cup {Absent}],
         \A g \in Files \ {f} : disk'[g] = disk[g], gone <=> disk'[f] = Absent,
         UNCHANGED <<contents, inputs, deps, index, phase, to_crawl, walk>>
  PROVE  HostInvariant'
<1> USE DEF HostInvariant, HostPart, DiskPart
<1>1. /\ CachedTextIsOnDisk' /\ WatchIsTruthful'
      /\ watch' \in Seq(Event) /\ unwatched' \subseteq Files
  BY NotifyKeeps DEF CrawlIsUnwatched
<1>2. GraphsAgree' /\ IndexMatchesDeps'
  BY IndexUnchanged DEF deps
<1>3. PublishedMapsAreCurrent' /\ OpenBuffersAreLive' /\ HostTypes'
  BY DEF PublishedMapsAreCurrent, OpenBuffersAreLive, Open, TypeOK, HostTypes, inputs, deps, index
<1>4. WorldTypes' /\ CrawlIsUnwatched'
  BY <1>1 DEF TypeOK, WorldTypes, Change, Notify, CrawlIsUnwatched, walk
<1>5. QED
  BY <1>1, <1>2, <1>3, <1>4, TypesSplit

LEMMA DiskKeeps == HostInvariant /\ Disk => HostInvariant'
<1>1. ASSUME HostInvariant, NEW f \in Files, DiskDelete(f)
      PROVE  HostInvariant'
  <2>1. /\ Change /\ Notify(f, TRUE) /\ disk' = [disk EXCEPT ![f] = Absent]
        /\ UNCHANGED <<contents, inputs, deps, index, phase, to_crawl, walk>>
    BY <1>1 DEF DiskDelete
  <2>2. /\ disk' \in [Files -> Texts \cup {Absent}] /\ disk'[f] = Absent
        /\ \A g \in Files \ {f} : disk'[g] = disk[g]
    BY <1>1, <2>1 DEF HostInvariant, TypeOK
  <2>3. QED
    BY <1>1, <2>1, <2>2, DiskChangeKeeps
<1>2. ASSUME HostInvariant, NEW f \in Files, NEW t \in Texts, DiskWrite(f, t)
      PROVE  HostInvariant'
  <2>1. /\ Change /\ Notify(f, FALSE) /\ disk' = [disk EXCEPT ![f] = t]
        /\ UNCHANGED <<contents, inputs, deps, index, phase, to_crawl, walk>>
    BY <1>2 DEF DiskWrite
  <2>2. /\ disk' \in [Files -> Texts \cup {Absent}] /\ disk'[f] # Absent
        /\ \A g \in Files \ {f} : disk'[g] = disk[g]
    BY <1>2, <2>1, HostAssumption DEF HostInvariant, TypeOK
  <2>3. QED
    BY <1>2, <2>1, <2>2, DiskChangeKeeps
<1>3. QED
  BY <1>1, <1>2 DEF Disk

\* Start-up, the editor and the walk.
LEMMA StartUpKeeps == HostInvariant /\ StartUp => HostInvariant'
<1>1. ASSUME HostInvariant, NEW f \in Files, CrawlIndex(f)
      PROVE  HostInvariant'
  <2>1. /\ IndexFile(contents, f) /\ UNCHANGED <<disk, watch, changes, unwatched>>
        /\ UNCHANGED <<phase, asked, stack, seen>> /\ to_crawl' \subseteq to_crawl
    BY <1>1 DEF CrawlIndex, world, walk
  <2>2. contents \in [Files -> Content] /\ WorldTypes'
    BY <1>1, <2>1 DEF HostInvariant, TypeOK, WorldTypes
  <2>3. QED
    BY <1>1, <2>1, <2>2, IndexingKeeps
<1>2. ASSUME HostInvariant, RegisterFileWatcher
      PROVE  HostInvariant'
  <2> USE DEF HostInvariant, HostPart, DiskPart
  <2>1. UNCHANGED <<world, contents, inputs, deps, index, to_crawl, walk>> /\ phase' = "serve"
    BY <1>2 DEF RegisterFileWatcher
  <2>2. GraphsAgree' /\ IndexMatchesDeps'
    BY <1>2, <2>1, IndexUnchanged DEF deps
  <2>3. PublishedMapsAreCurrent' /\ OpenBuffersAreLive' /\ HostTypes' /\ WorldTypes'
    BY <1>2, <2>1 DEF PublishedMapsAreCurrent, OpenBuffersAreLive, Open, TypeOK, HostTypes,
                      WorldTypes, inputs, deps, index, world, walk
  <2>4. DiskPart'
    BY <1>2, <2>1 DEF WatchIsTruthful, CrawlIsUnwatched, CachedTextIsOnDisk, Pending, world
  <2>5. QED
    BY <2>2, <2>3, <2>4, TypesSplit
<1>3. QED
  BY <1>1, <1>2 DEF StartUp

LEMMA EditorKeeps == HostInvariant /\ Editor => HostInvariant'
<1> USE DEF HostInvariant, HostPart, DiskPart
<1>1. ASSUME HostInvariant, NEW f \in Files, NEW t \in Texts, DidOpen(f, t) \/ DidChange(f, t)
      PROVE  HostInvariant'
  <2> DEFINE c == [contents EXCEPT ![f] = [kind |-> "overlay", text |-> t]]
  <2>1. /\ IndexFile(c, f) /\ Change
        /\ UNCHANGED <<disk, watch, unwatched, phase, to_crawl, asked, stack, seen>>
    BY <1>1 DEF DidOpen, DidChange, SetOverlay, walk
  <2>2. c \in [Files -> Content] /\ \A g \in Files \ {f} : c[g] = contents[g]
    BY <1>1, OverlayContents
  <2>3. c[f].kind # "disk"
    BY <1>1 DEF TypeOK
  <2>4. WorldTypes'
    BY <1>1, <2>1 DEF TypeOK, WorldTypes, Change
  <2> HIDE DEF c
  <2>5. QED
    BY <1>1, <2>1, <2>2, <2>3, <2>4, IndexingKeeps
<1>2. ASSUME HostInvariant, NEW f \in Files, DidClose(f)
      PROVE  HostInvariant'
  <2>1. /\ contents' = [contents EXCEPT ![f] = Nothing] /\ Change
        /\ UNCHANGED <<disk, watch, unwatched, inputs, deps, index, phase, to_crawl, walk>>
    BY <1>2 DEF DidClose
  <2>2. /\ contents' \in [Files -> Content] /\ contents'[f].kind = "none"
        /\ \A g \in Files \ {f} : contents'[g] = contents[g]
    BY <1>2, <2>1, OverlayContents DEF TypeOK, Nothing
  <2>3. GraphsAgree' /\ IndexMatchesDeps'
    BY <1>2, <2>1, IndexUnchanged DEF deps
  <2>4. PublishedMapsAreCurrent' /\ OpenBuffersAreLive' /\ HostTypes' /\ WorldTypes'
    BY <1>2, <2>1, <2>2 DEF PublishedMapsAreCurrent, OpenBuffersAreLive, Open, TypeOK,
                            HostTypes, WorldTypes, Change, inputs, deps, index, walk
  <2>5. DiskPart'
    BY <1>2, <2>1, <2>2 DEF WatchIsTruthful, CrawlIsUnwatched, CachedTextIsOnDisk, Pending
  <2>6. QED
    BY <2>3, <2>4, <2>5, TypesSplit
<1>3. ASSUME HostInvariant, NEW f \in Files, Analyze(f)
      PROVE  HostInvariant'
  <2>1. /\ SourceFor(contents, {f})
        /\ UNCHANGED <<disk, watch, changes, unwatched, deps, index, phase, to_crawl, walk>>
    BY <1>3 DEF Analyze, world
  <2>2. /\ OpenBuffersAreLive' /\ DiskPart' /\ file_srcs' = sources'
        /\ contents' \in [Files -> Content] /\ texts' \in [Files -> Seq(Texts)]
        /\ sources' \in [Files -> Nat]
        /\ \A g \in Files : sources'[g] \in 0..Len(texts'[g])
    BY <1>3, <2>1, ProvisioningKeeps
  <2>3. GraphsAgree' /\ IndexMatchesDeps'
    BY <1>3, <2>1, IndexUnchanged DEF deps
  <2>4. PublishedMapsAreCurrent' /\ HostTypes' /\ WorldTypes'
    BY <1>3, <2>1, <2>2 DEF PublishedMapsAreCurrent, TypeOK, HostTypes, WorldTypes, deps, index,
                            walk
  <2>5. QED
    BY <2>2, <2>3, <2>4, TypesSplit
<1>4. ASSUME HostInvariant, NEW f \in Files, QueryBegin(f)
      PROVE  HostInvariant'
  <2>1. /\ UNCHANGED <<world, contents, inputs, deps, index, phase, to_crawl>>
        /\ asked' = f /\ stack' = {f} /\ seen' = {}
    BY <1>4 DEF QueryBegin
  <2>2. GraphsAgree' /\ IndexMatchesDeps'
    BY <1>4, <2>1, IndexUnchanged DEF deps
  <2>3. PublishedMapsAreCurrent' /\ OpenBuffersAreLive' /\ HostTypes' /\ WorldTypes'
    BY <1>4, <2>1 DEF PublishedMapsAreCurrent, OpenBuffersAreLive, Open, TypeOK, HostTypes,
                      WorldTypes, inputs, deps, index, world
  <2>4. DiskPart'
    BY <1>4, <2>1 DEF WatchIsTruthful, CrawlIsUnwatched, CachedTextIsOnDisk, Pending, world
  <2>5. QED
    BY <2>2, <2>3, <2>4, TypesSplit
<1>5. QED
  BY <1>1, <1>2, <1>3, <1>4 DEF Editor

\* A round of the walk, and its end.
LEMMA WalkKeeps == HostInvariant /\ Walk => HostInvariant'
<1>1. ASSUME HostInvariant, NEW f \in Files, EnsureIndexed(f)
      PROVE  HostInvariant'
  <2> USE DEF HostInvariant, HostPart, DiskPart
  <2>1. /\ UNCHANGED <<disk, watch, changes, unwatched, phase, to_crawl, asked>>
        /\ seen' = seen \cup {f}
        /\ stack' = (stack \ {f}) \cup (Includes(dep_inputs'[f]) \ seen')
    BY <1>1 DEF EnsureIndexed, world
  <2>2. dep_inputs' \in [Files -> [known : BOOLEAN, deps : SUBSET Dep]] => WorldTypes'
    <3>1. ASSUME NEW entry \in [known : BOOLEAN, deps : SUBSET Dep]
          PROVE  Includes(entry) \subseteq Files
      <4>1. \A d \in entry.deps : d.target.file \in Files \cup {Absent}
        BY DEF Dep, Target, NoTarget
      <4>2. QED
        BY <4>1 DEF Includes
    <3>2. QED
      BY <1>1, <2>1, <3>1 DEF TypeOK, WorldTypes
  <2>3. contents \in [Files -> Content]
    BY <1>1 DEF TypeOK
  <2>4. CASE IndexFile(contents, f)
    <3>1. WorldTypes'
      BY <1>1, <2>2, <2>3, <2>4, IndexFileKeeps DEF HostTypes
    <3>2. QED
      BY <1>1, <2>1, <2>3, <2>4, <3>1, IndexingKeeps
  <2>5. CASE UNCHANGED <<contents, inputs, deps, index>>
    <3>1. GraphsAgree' /\ IndexMatchesDeps'
      BY <1>1, <2>5, IndexUnchanged DEF deps
    <3>2. WorldTypes'
      BY <1>1, <2>2, <2>5 DEF TypeOK, deps
    <3>3. PublishedMapsAreCurrent' /\ OpenBuffersAreLive' /\ HostTypes'
      BY <1>1, <2>5 DEF PublishedMapsAreCurrent, OpenBuffersAreLive, Open, TypeOK, HostTypes,
                        inputs, deps, index
    <3>4. DiskPart'
      BY <1>1, <2>1, <2>5 DEF WatchIsTruthful, CrawlIsUnwatched, CachedTextIsOnDisk, Pending
    <3>5. QED
      BY <3>1, <3>2, <3>3, <3>4, TypesSplit
  <2>6. QED
    BY <1>1, <2>4, <2>5 DEF EnsureIndexed
<1>2. QED
  BY <1>1, QueryEndKeeps DEF Walk

-----------------------------------------------------------------------------
(* The invariant and its consequences.                                     *)

LEMMA HostInit == Init => HostInvariant
<1> SUFFICES ASSUME Init
             PROVE  HostInvariant
  OBVIOUS
<1> USE DEF Init
<1>1. TypeOK
  BY HostAssumption DEF TypeOK, Content, Event
<1>2. HostPart
  BY DEF HostPart, GraphsAgree, IndexMatchesDeps, PublishedMapsAreCurrent, OpenBuffersAreLive,
         Open, Nothing
<1>3. DiskPart
  BY DEF DiskPart, WatchIsTruthful, CrawlIsUnwatched, CachedTextIsOnDisk, Nothing
<1>4. QED
  BY <1>1, <1>2, <1>3 DEF HostInvariant

LEMMA HostStutter == HostInvariant /\ UNCHANGED vars => HostInvariant'
<1> SUFFICES ASSUME HostInvariant, UNCHANGED vars
             PROVE  HostInvariant'
  OBVIOUS
<1> USE DEF HostInvariant, HostPart, DiskPart, vars, world, inputs, deps, index, walk
<1>1. TypeOK'
  BY DEF TypeOK
<1>2. GraphsAgree' /\ IndexMatchesDeps'
  BY IndexUnchanged
<1>3. PublishedMapsAreCurrent' /\ OpenBuffersAreLive'
  BY DEF PublishedMapsAreCurrent, OpenBuffersAreLive, Open
<1>4. DiskPart'
  BY DEF WatchIsTruthful, CrawlIsUnwatched, CachedTextIsOnDisk, Pending
<1>5. QED
  BY <1>1, <1>2, <1>3, <1>4

\* The invariant is inductive: Spec => []HostInvariant.
THEOREM Invariance == Spec => []HostInvariant
<1>1. HostInvariant /\ [Next]_vars => HostInvariant'
  BY StartUpKeeps, EditorKeeps, WalkKeeps, WatchedKeeps, DiskKeeps, HostStutter DEF Next
<1>2. QED
  BY HostInit, <1>1, PTL DEF Spec

\* Types, for any files, texts, specs and search paths.
THEOREM HostTypeCorrect == Spec => []TypeOK
<1>1. HostInvariant => TypeOK
  BY DEF HostInvariant
<1>2. QED
  BY Invariance, <1>1, PTL

\* The dependency graph's two directions never disagree (WorkspaceIndex).
THEOREM GraphConsistency == Spec => []GraphsAgree
<1>1. HostInvariant => GraphsAgree
  BY DEF HostInvariant, HostPart
<1>2. QED
  BY Invariance, <1>1, PTL

\* Symbols, edges and FileDeps of an indexed file come from one text
\* (index_file), whoever indexed it and whatever happened since.
THEOREM IndexConsistency == Spec => []IndexMatchesDeps
<1>1. HostInvariant => IndexMatchesDeps
  BY DEF HostInvariant, HostPart
<1>2. QED
  BY Invariance, <1>1, PTL

\* The published maps are never behind the host's (republish_file_srcs,
\* republish_file_deps_map).
THEOREM PublishedMaps == Spec => []PublishedMapsAreCurrent
<1>1. HostInvariant => PublishedMapsAreCurrent
  BY DEF HostInvariant, HostPart
<1>2. QED
  BY Invariance, <1>1, PTL

\* An open document's input and symbols are those of its buffer (did_open,
\* did_change, source_for).
THEOREM OpenBuffers == Spec => []OpenBuffersAreLive
<1>1. HostInvariant => OpenBuffersAreLive
  BY DEF HostInvariant, HostPart
<1>2. QED
  BY Invariance, <1>1, PTL

\* Once its notifications are handled, cached text of a file on disk is what is
\* on disk (did_change_watched_files, invalidate_disk).
THEOREM CacheIsCoherent == Spec => []CachedTextIsOnDisk
<1>1. HostInvariant => CachedTextIsOnDisk
  BY DEF HostInvariant, DiskPart
<1>2. QED
  BY Invariance, <1>1, PTL

\* Both directions of the graph, the symbols and FileDeps are one account of the
\* workspace (WorkspaceIndex, index_file).
THEOREM IndexCoherence == Spec => []IndexIsCoherent
BY GraphConsistency, IndexConsistency, PTL DEF IndexIsCoherent

\* Open documents are analyzed as they are in the editor, others as they are on
\* disk once that is known (source_for, did_change_watched_files).
THEOREM CurrentTexts == Spec => []TextsAreCurrent
BY OpenBuffers, CacheIsCoherent, PTL DEF TextsAreCurrent

=============================================================================

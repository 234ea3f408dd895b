----------------------------- MODULE WitnessSets -----------------------------
(***************************************************************************)
(* The witness sets and the sink of the disclosure analysis                *)
(* (crates/analyzer-core/src/disclosure: abs.rs, leaks.rs, and the helpers *)
(* of interp.rs that only touch witness sets).                             *)
(*                                                                         *)
(* A witness set is a list of Witness records that merge_witnesses keeps   *)
(* sorted by uid with one record per uid: here a function from the uids to *)
(* the rest of the record, [src, info, path].  A path is a sequence of     *)
(* points <<src, what>>; the wording of a point is a tag.                  *)
(*                                                                         *)
(* A sink is [advisories, uid, leaks]: drain_advisories drops repeats, so  *)
(* the advisories are a set; the leak table is keyed by (src, nature), so  *)
(* it is a function from those pairs to witness sets.                      *)
(***************************************************************************)
EXTENDS Naturals, Sequences

NoWitnesses == << >>

(* A set that holds one fresh witness (a Witness literal with an empty path). *)
Fresh(uid, src, info) == [u \in {uid} |-> [src |-> src, info |-> info, path |-> << >>]]

(* The same witness with more of its path behind it. *)
OnPath(w, points) == [src |-> w.src, info |-> w.info, path |-> w.path \o points]

(* merge_witnesses: the union by uid; the paths of a uid both sides hold are
   appended, the right one after the left one. *)
MergeWitnesses(w1, w2) ==
  [u \in DOMAIN w1 \cup DOMAIN w2 |->
     IF u \notin DOMAIN w2 THEN w1[u]
     ELSE IF u \notin DOMAIN w1 THEN w2[u]
     ELSE OnPath(w1[u], w2[u].path)]

(* The closure `push` of add_path_point, and the same loop in thread_control
   and interp_ternary: one more point on the path of every witness. *)
PushPoint(ws, pp) == [u \in DOMAIN ws |-> OnPath(ws[u], <<pp>>)]

(* A mutant: a branch that forgets the condition it depends on. *)
ThreadNothing(condWs, control, branchSrc) == control

(* thread_control: the witnesses of a condition, marked with the branch they
   decide, in front of the control witnesses already in force. *)
ThreadControl(condWs, control, branchSrc) ==
  MergeWitnesses(PushPoint(condWs, <<branchSrc, "branch">>), control)

(* filter_witnesses: the witnesses an exported circuit's return may leak. *)
FilterWitnesses(ws) ==
  [u \in {v \in DOMAIN ws : ws[v].info[1] = "witnessReturn"} |-> ws[u]]

-----------------------------------------------------------------------------
NewSink == [advisories |-> {}, uid |-> 0, leaks |-> << >>]

EmitAdvisory(sink, src, reason) ==
  [sink EXCEPT !.advisories = @ \cup {<<src, reason>>}]

(* record_leak: nothing for an empty set, one row per (src, nature). *)
RecordLeak(sink, src, nature, ws) ==
  LET key == <<src, nature>>
  IN  IF DOMAIN ws = {} THEN sink
      ELSE [sink EXCEPT !.leaks =
              [k \in DOMAIN @ \cup {key} |->
                 IF k # key THEN @[k]
                 ELSE IF key \in DOMAIN @ THEN MergeWitnesses(@[key], ws)
                 ELSE ws]]

(* next_witness_uid: the uid a fresh witness gets is the counter before. *)
BumpUid(sink) == [sink EXCEPT !.uid = @ + 1]
=============================================================================

---------------------------- MODULE ExtraEntries ----------------------------
(***************************************************************************)
(* The tail of assembleResponse (cpu_server.go): the advisor's             *)
(* ExtraEntries are merged into the response's ExtraEntries by cgroup      *)
(* path, the values of a later entry overriding those of an earlier entry  *)
(* with the same path key by key, and then assembleHeadroom's per-NUMA     *)
(* headroom entry is appended under the cgroup path "".                    *)
(*                                                                         *)
(* The merge loop is the operator MergeExtra, a left fold of one loop      *)
(* iteration (MergeInto); it is checked against RefValues, a declarative   *)
(* definition of the merged values. Values are opaque tokens: the headroom *)
(* map serialised by json.Marshal is the single token HeadroomVal.         *)
(***************************************************************************)
EXTENDS Naturals, SequencesExt

CONSTANTS
  Paths,          \* cgroup paths of the advisor's extra entries
  Keys,           \* control knob keys
  Vals,           \* knob values
  NoValue,        \* key not present in a values map
  HeadroomPath,   \* the cgroup path "" of the headroom entry
  HeadroomKey,    \* ControlKnobKeyCPUNUMAHeadroom
  HeadroomVal,    \* the serialised per-NUMA headroom
  AdvisorExtras   \* the advisor ExtraEntries lists to check against

ASSUME HeadroomKey \in Keys /\ HeadroomVal \in Vals

VARIABLES
  advExtra,   \* advisorResp.ExtraEntries
  resp,       \* resp.ExtraEntries
  done        \* assembleResponse has returned

vars == <<advExtra, resp, done>>

\* CalculationResult.Values: map<string,string>.
Values == [Keys -> Vals \cup {NoValue}]

\* CalculationInfo of an extra entry.
Entry == [path: Paths \cup {HeadroomPath}, values: Values]

-----------------------------------------------------------------------------
\* Fault variant: the earlier entry's values replaced rather than merged.
MergeValuesReplace(old, new) == new

\* for k, v := range retEntry.Values { respEntry.CalculationResult.Values[k] = v }
MergeValues(old, new) ==
  [k \in Keys |-> IF new[k] # NoValue THEN new[k] ELSE old[k]]

\* Index of the response entry with path p, 0 if none.
PathIndex(r, p) ==
  IF \E j \in DOMAIN r : r[j].path = p
    THEN CHOOSE j \in DOMAIN r : r[j].path = p
    ELSE 0

\* Fault variant: the found check dropped; every advisor entry is appended.
MergeIntoAlwaysAppend(r, e) == Append(r, e)

(* One iteration of the merge loop: merge into the entry with the same     *)
(* path, or append a deep copy.                                            *)
MergeInto(r, e) ==
  LET j == PathIndex(r, e.path) IN
  IF j = 0 THEN Append(r, e)
  ELSE [r EXCEPT ![j].values = MergeValues(@, e.values)]

MergeExtra(s) == FoldLeft(MergeInto, <<>>, s)

\* The entry assembleHeadroom returns.
HeadroomEntry ==
  [path |-> HeadroomPath,
   values |-> [k \in Keys |-> IF k = HeadroomKey THEN HeadroomVal ELSE NoValue]]

\* Fault variant: an entry with a nil result returned on the error path.
AssembleHeadroomNilResult(ok) ==
  IF ok THEN <<HeadroomEntry>> ELSE <<[path |-> HeadroomPath, values |-> NoValue]>>

(* assembleHeadroom: GetNumaAllocatable may fail, and then no entry is     *)
(* appended.                                                               *)
AssembleHeadroom(ok) == IF ok THEN <<HeadroomEntry>> ELSE <<>>

-----------------------------------------------------------------------------
Init ==
  /\ advExtra \in AdvisorExtras
  /\ resp = <<>>
  /\ done = FALSE

AssembleExtraEntries ==
  /\ ~done
  /\ \E ok \in BOOLEAN : resp' = MergeExtra(advExtra) \o AssembleHeadroom(ok)
  /\ done' = TRUE
  /\ UNCHANGED advExtra

Next == AssembleExtraEntries

Spec == Init /\ [][Next]_vars

-----------------------------------------------------------------------------
TypeOK ==
  /\ advExtra \in Seq(Entry)
  /\ resp \in Seq(Entry)
  /\ done \in BOOLEAN

\* Reference: for each key, the value of the last advisor entry of path p
\* that sets it.
RefValues(s, p) ==
  [k \in Keys |->
     LET I == {i \in DOMAIN s : s[i].path = p /\ s[i].values[k] # NoValue}
     IN  IF I = {} THEN NoValue ELSE s[Max(I)].values[k]]

FirstAt(s, p) == Min({i \in DOMAIN s : s[i].path = p})

(* The merged part of the response has one entry per advisor path, in the  *)
(* order the paths first occur, holding for every key the last value the   *)
(* advisor gave it: later entries override earlier ones key by key and     *)
(* never drop a key an earlier entry set.                                  *)
MergeMatchesReference ==
  done =>
    LET P == {advExtra[i].path : i \in DOMAIN advExtra}
        n == Cardinality(P)
    IN  /\ Len(resp) >= n
        /\ {resp[j].path : j \in 1..n} = P
        /\ \A j \in 1..n :
             /\ resp[j].values = RefValues(advExtra, resp[j].path)
             /\ j < n => FirstAt(advExtra, resp[j].path) < FirstAt(advExtra, resp[j + 1].path)

(* The spec: extra entries are keyed by cgroup path and a duplicate path   *)
(* is merged, never sent twice, the appended headroom entry included. It   *)
(* rests on the advisor's entries having non-empty paths, as the proto's   *)
(* comment on cgroup_path requires: the headroom entry is not merged.      *)
ExtraPathsUnique ==
  \A i, j \in DOMAIN resp : i # j => resp[i].path # resp[j].path

=============================================================================

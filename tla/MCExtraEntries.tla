--------------------------- MODULE MCExtraEntries ---------------------------
(* Two non-empty cgroup paths (the proto reserves "" for container         *)
(* entries), two knob keys one of which is the headroom key, and every     *)
(* advisor ExtraEntries list of up to three entries over them.             *)
EXTENDS ExtraEntries

CONSTANTS pa, pb, root, k1, hk, v1, hv, none

MCPaths == {pa, pb}
MCKeys == {k1, hk}
MCVals == {v1, hv}

MCEntry == [path: MCPaths, values: [MCKeys -> MCVals \cup {none}]]

MCAdvisorExtras == UNION {[1..n -> MCEntry] : n \in 0..3}
=============================================================================

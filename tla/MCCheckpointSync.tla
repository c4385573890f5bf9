------------------------- MODULE MCCheckpointSync -------------------------
(* Model-checking instance of CheckpointSync: a shared_cores container in *)
(* one pod and a dedicated_cores container in a second, two pools (share,  *)
(* reserve) and two CPU assignments.                                      *)
EXTENDS CheckpointSync, TLC

CONSTANTS c1, c2, c3, p1, p2, share, reserve, t1, t2

MCContainers == {c1, c3}
MCPods == {p1, p2}
MCPodOf == [c \in MCContainers |-> IF c = c3 THEN p2 ELSE p1]
MCPools == {share, reserve}
MCTopos == {t1, t2}
\* One pool for the liveness run: GC does not depend on which pool is which.
MCOnePool == {share}
MCOneTopo == {t1}
MCDedicated == {c3}
\* One shared container moving between two pools, for the liveness runs.
MCOneShared == {c1}
MCOneSharedPodOf == [c \in MCOneShared |-> p1]
MCNoDedicated == {}

\* Pool names and assignments are only compared for equality here.
MCSymmetry == Permutations(MCPools) \cup Permutations(MCTopos)
=============================================================================

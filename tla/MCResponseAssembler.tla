------------------------ MODULE MCResponseAssembler ------------------------
(* Two NUMA nodes; a share pool and the reclaim pool; a dedicated,         *)
(* NUMA-bound pod with a main container and a sidecar (c1, c2), a second   *)
(* dedicated pod (c3) and a shared_cores container (c4). Every advisor     *)
(* result and every container state over these is checked.                *)
EXTENDS ResponseAssembler

CONSTANTS share, reclaim, c1, c2, c3, c4, p1, p2, p3

MCPools == {share, reclaim}
MCNumas == {0, 1}
MCConts == {c1, c2, c3, c4}
MCPodOf == [c \in MCConts |-> CASE c \in {c1, c2} -> p1 [] c = c3 -> p2 [] OTHER -> p3]

\* Per-NUMA sizes over the given sizes, possibly empty.
Sizes(S) == [MCNumas -> S \cup {Absent}]

MCAdvisorResults ==
  {r \in [pools: [MCPools -> Sizes({1, 4}) \cup {Absent}], overlap: BOOLEAN,
          overlapInfo: [MCNumas -> [MCPools -> {1, Absent}]]] :
     /\ r.pools[share] \in Sizes({4}) \cup {Absent}
     /\ r.pools[reclaim] \in Sizes({1}) \cup {Absent}
     /\ \A n \in MCNumas :
          /\ r.overlapInfo[n][reclaim] = Absent
          /\ ~r.overlap => r.overlapInfo[n][share] = Absent}

Dedicated(S) ==
  {[qos |-> "dedicated_cores", numaBinding |-> TRUE, owner |-> NoPool,
    origin |-> NoPool, isolated |-> FALSE, regions |-> {}, assign |-> a] :
     a \in {f \in Sizes(S) : \E n \in MCNumas : f[n] # Absent}}

Shared ==
  {[qos |-> "shared_cores", numaBinding |-> FALSE, owner |-> o, origin |-> share,
    isolated |-> i, regions |-> IF i THEN {reclaim} ELSE {}, assign |-> [n \in MCNumas |-> Absent]] :
     o \in {share, NoPool}, i \in BOOLEAN}

MCContainerInfos ==
  {f \in [MCConts -> Dedicated({1, 2}) \cup Shared] :
     /\ f[c3] \in Dedicated({2})
     /\ f[c4] \in Shared
     /\ f[c1] \in Dedicated({1, 2}) /\ f[c2] \in Dedicated({1})}

\* Container states where the sidecar is on the main container's NUMA nodes.
MCAlignedInfos ==
  {f \in MCContainerInfos : NumasOf(f[c1].assign) = NumasOf(f[c2].assign)}

\* Advisor results without shared/reclaimed overlap.
MCNoOverlapResults == {r \in MCAdvisorResults : ~r.overlap}
=============================================================================

-------------------------- MODULE ResponseAssembler --------------------------
(***************************************************************************)
(* One call of assembleResponse (cpu_server.go): the advisor's             *)
(* InternalCPUCalculationResult and the cached containers are turned into  *)
(* per-pool and per-container entries whose per-NUMA results are lists of  *)
(* blocks, related through a block set (the registry of Join).             *)
(*                                                                         *)
(* assemblePoolEntries runs first and is deterministic up to the random    *)
(* uuids of new blocks, so each of its two loops is one step here.         *)
(* assemblePodEntries then runs once per container in the order            *)
(* metaCache.RangeContainer visits them, which is Go map order: any order. *)
(*                                                                         *)
(* Blocks are named instead of given random uuids: a new block is named by *)
(* where it is created (a pool and NUMA node, a container and NUMA node),  *)
(* and its identifier is its name; a block copied for a sidecar keeps the  *)
(* identifier of the block it copies. Join (block.go, not part of this     *)
(* source) follows the spec: the block is registered under its own         *)
(* identifier and linked both ways with every other block registered under *)
(* the target identifier.                                                  *)
(***************************************************************************)
EXTENDS Naturals, FiniteSets

CONSTANTS
  Pools,          \* pool names of the advisor result
  Reclaim,        \* commonstate.PoolNameReclaim
  Numas,          \* NUMA node ids
  Conts,          \* cached containers
  PodOf,          \* [Conts -> pod UIDs]
  NoPool,         \* the empty pool name ""
  Absent,         \* no entry
  AdvisorResults, \* the advisor results to check against
  ContainerInfos  \* the cached-container states to check against

ASSUME Reclaim \in Pools

VARIABLES
  adv,      \* InternalCPUCalculationResult
  cinfo,    \* [Conts -> ContainerInfo]: what RangeContainer yields
  blk,      \* the blocks created so far: name -> [id, size, targets]
  poolRes,  \* pool entries: [Pools -> ([Numas -> SUBSET names \cup {Absent}]) \cup {Absent}]
  contRes,  \* container entries: [Conts -> CalculationInfo \cup {Absent}]
  todo,     \* containers RangeContainer has not visited yet
  phase     \* "pools", "reclaim", "containers", "done"

vars == <<adv, cinfo, blk, poolRes, contRes, todo, phase>>

QoSLevels == {"dedicated_cores", "shared_cores", "reclaimed_cores"}

NumaSizes == [Numas -> Nat \cup {Absent}]

(* InternalCPUCalculationResult: PoolEntries[pool][numa] = size,           *)
(* AllowSharedCoresOverlapReclaimedCores, and for each NUMA node the size  *)
(* of the reclaimed cores overlapping each shared pool.                    *)
AdvisorResult ==
  [pools: [Pools -> NumaSizes \cup {Absent}], overlap: BOOLEAN,
   overlapInfo: [Numas -> [Pools -> Nat \cup {Absent}]]]

(* The fields of types.ContainerInfo that assemblePodEntries reads.        *)
ContainerInfo ==
  [qos: QoSLevels, numaBinding: BOOLEAN, owner: Pools \cup {NoPool},
   origin: Pools \cup {NoPool}, isolated: BOOLEAN, regions: SUBSET Pools,
   assign: NumaSizes]

NumasOf(f) == {n \in Numas : f[n] # Absent}

Reg(bl, t) == {o \in DOMAIN bl : bl[o].id = t}

(* Fault variant: the new blocks are registered before their targets are *)
(* resolved, so a standalone block resolves to itself.                     *)
JoinAllRegFirst(bl, J) ==
  LET new == {j.name : j \in J}
      ext == [x \in DOMAIN bl \cup new |->
                IF x \in new THEN (CHOOSE j \in J : j.name = x).rec ELSE bl[x]]
  IN  [x \in DOMAIN ext |->
         [ext[x] EXCEPT !.targets =
            @ \cup {j.name : j \in {i \in J : x \in Reg(ext, i.target)}}
              \cup (IF x \in new THEN Reg(ext, (CHOOSE j \in J : j.name = x).target)
                   ELSE {})]]

(* A batch of Joins, each of a new block j.name with record j.rec against  *)
(* target identifier j.target. The joins of one batch never target a block *)
(* of the same batch, so they commute and are applied together.           *)
JoinAll(bl, J) ==
  LET new == {j.name : j \in J} IN
  [x \in DOMAIN bl \cup new |->
     IF x \in new
       THEN LET j == CHOOSE j \in J : j.name = x
            IN  [j.rec EXCEPT !.targets = Reg(bl, j.target)]
       ELSE [bl[x] EXCEPT !.targets = @ \cup {j.name : j \in {i \in J : x \in Reg(bl, i.target)}}]]

NewBlock(name, size) == [id |-> name, size |-> size, targets |-> {}]

\* A standalone Join: the new block joins its own identifier.
Standalone(name, size) == [name |-> name, rec |-> NewBlock(name, size), target |-> name]

-----------------------------------------------------------------------------
(* assemblePoolEntries, first loop: one standalone block per pool and NUMA *)
(* node, except the reclaim pool when overlap is allowed.                  *)
AssemblePools ==
  /\ phase = "pools"
  /\ LET first == {p \in Pools : adv.pools[p] # Absent /\ ~(p = Reclaim /\ adv.overlap)}
     IN  /\ blk' = JoinAll(blk, UNION {{Standalone(<<p, n>>, adv.pools[p][n]) :
                                          n \in NumasOf(adv.pools[p])} : p \in first})
         /\ poolRes' = [p \in Pools |->
                          IF p \in first
                            THEN [n \in Numas |-> IF adv.pools[p][n] # Absent
                                                    THEN {<<p, n>>} ELSE Absent]
                            ELSE Absent]
  /\ phase' = "reclaim"
  /\ UNCHANGED <<adv, cinfo, contRes, todo>>

(* The NUMA result of pool sp holds exactly one block: the reclaimed       *)
(* overlap block may join it.                                              *)
Overlappable(sp, n) ==
  poolRes[sp] # Absent /\ poolRes[sp][n] # Absent /\ Cardinality(poolRes[sp][n]) = 1

(* assemblePoolEntries, second loop (overlap allowed and a reclaim entry): *)
(* per NUMA node either one standalone block, or one block per overlapping *)
(* shared pool, joined to that pool's single block and skipped otherwise.  *)
AssembleReclaim ==
  /\ phase = "reclaim"
  /\ adv.overlap /\ adv.pools[Reclaim] # Absent
  /\ LET ns    == NumasOf(adv.pools[Reclaim])
         ovl(n) == {sp \in Pools : adv.overlapInfo[n][sp] # Absent}
         alone == {n \in ns : ovl(n) = {}}
         joins == {<<n, sp>> \in ns \X Pools : sp \in ovl(n) /\ Overlappable(sp, n)}
     IN  /\ blk' = JoinAll(blk,
                     {Standalone(<<Reclaim, n>>, adv.pools[Reclaim][n]) : n \in alone}
                     \cup {[name   |-> <<Reclaim, j[1], j[2]>>,
                            rec    |-> NewBlock(<<Reclaim, j[1], j[2]>>,
                                                adv.overlapInfo[j[1]][j[2]]),
                            target |-> blk[CHOOSE b \in poolRes[j[2]][j[1]] : TRUE].id]
                           : j \in joins})
         /\ poolRes' = [poolRes EXCEPT ![Reclaim] =
                          [n \in Numas |->
                             CASE n \notin ns -> Absent
                               [] n \in alone -> {<<Reclaim, n>>}
                               [] OTHER       -> {<<Reclaim, n, sp>> : sp \in
                                                    {s \in ovl(n) : Overlappable(s, n)}}]]
  /\ phase' = "containers"
  /\ UNCHANGED <<adv, cinfo, contRes, todo>>

NoReclaimPass ==
  /\ phase = "reclaim"
  /\ ~(adv.overlap /\ adv.pools[Reclaim] # Absent)
  /\ phase' = "containers"
  /\ UNCHANGED <<adv, cinfo, blk, poolRes, contRes, todo>>

-----------------------------------------------------------------------------
(* assemblePodEntries, per container.                                      *)

(* The owner pool published: the single isolation region of an isolated   *)
(* container, the origin owner pool of a container no longer isolated.    *)
PublishedOwner(ci) ==
  LET isoOwner == IF ci.isolated /\ Cardinality(ci.regions) = 1 /\ ci.owner \notin ci.regions
                    THEN CHOOSE r \in ci.regions : TRUE
                    ELSE ci.owner
  IN  IF ~ci.isolated /\ ci.owner # ci.origin THEN ci.origin ELSE isoOwner

(* A shared or reclaimed container with an empty or unknown pool is left   *)
(* out of the response (warning, nil error).                               *)
Skipped(ci) ==
  /\ ci.qos \in {"shared_cores", "reclaimed_cores"}
  /\ \/ PublishedOwner(ci) = NoPool
     \/ poolRes[PublishedOwner(ci)] = Absent

IsDedicatedNumaBinding(ci) == ci.qos = "dedicated_cores" /\ ci.numaBinding

\* Containers of c's pod already in calculationEntriesMap[podUID].
Siblings(c) == {d \in Conts : PodOf[d] = PodOf[c] /\ d # c /\ contRes[d] # Absent}

\* Siblings with a result on NUMA node n.
SiblingsOn(c, n) == {d \in Siblings(c) : contRes[d].numas[n] # Absent}

\* Fault variant: the claim does not check the reclaimed block's targets.
UnclaimedAll(rec) == rec

\* The reclaimed blocks of a NUMA node not yet overlapped (lines 536-538).
Unclaimed(rec) == {r \in rec : blk[r].targets = {}}

\* Fault variant: a sidecar's copy takes the size of its own assignment.
SidecarCopyOwnSize(b, own) == [id |-> blk[b].id, size |-> own, targets |-> {}]

\* NewBlock(block.Result, block.BlockId): a sibling's block copied for a
\* sidecar; the sidecar's own cpuset size own is not used.
SidecarCopy(b, own) == [id |-> blk[b].id, size |-> blk[b].size, targets |-> {}]

(* The joins and the NUMA result of container c on node n, given src, the  *)
(* sibling whose blocks the range over podEntries.Entries meets first.     *)
NumaJoins(c, ci, n, src) ==
  LET rec  == IF poolRes[Reclaim] = Absent THEN Absent ELSE poolRes[Reclaim][n]
      free == IF rec = Absent THEN {} ELSE Unclaimed(rec)
  IN
  CASE Siblings(c) # {} /\ src = Absent ->
         \* pod entry exists but no sibling has this NUMA node: no block
         {}
    [] Siblings(c) # {} ->
         \* sidecar: same identifier and size as the sibling's blocks
         {[name |-> <<c, n, b>>,
           rec |-> SidecarCopy(b, ci.assign[n]),
           target |-> blk[b].id] : b \in contRes[src].numas[n]}
    [] rec = Absent ->
         {Standalone(<<c, n>>, ci.assign[n])}
    [] OTHER ->
         \* one new block per reclaimed block not yet overlapped
         {[name |-> <<c, n, r>>, rec |-> NewBlock(<<c, n, r>>, ci.assign[n]),
           target |-> blk[r].id] : r \in free}

AssemblePodEntries(c) ==
  /\ phase = "containers"
  /\ c \in todo
  /\ LET ci == cinfo[c] IN
       IF Skipped(ci)
         THEN UNCHANGED <<blk, contRes>>
         ELSE
           LET ns == IF IsDedicatedNumaBinding(ci) THEN NumasOf(ci.assign) ELSE {}
           IN
           \E src \in [ns -> Conts \cup {Absent}] :
             /\ \A n \in ns : IF SiblingsOn(c, n) = {} THEN src[n] = Absent
                              ELSE src[n] \in SiblingsOn(c, n)
             /\ LET J(n) == NumaJoins(c, ci, n, src[n]) IN
                  /\ blk' = JoinAll(blk, UNION {J(n) : n \in ns})
                  /\ contRes' = [contRes EXCEPT ![c] =
                                   [owner |-> PublishedOwner(ci),
                                    numas |-> [n \in Numas |->
                                                 IF n \in ns THEN {j.name : j \in J(n)}
                                                 ELSE Absent]]]
  /\ todo' = todo \ {c}
  /\ UNCHANGED <<adv, cinfo, poolRes, phase>>

AssemblyDone ==
  /\ phase = "containers"
  /\ todo = {}
  /\ phase' = "done"
  /\ UNCHANGED <<adv, cinfo, blk, poolRes, contRes, todo>>

-----------------------------------------------------------------------------
Init ==
  /\ adv \in AdvisorResults
  /\ cinfo \in ContainerInfos
  /\ blk = [o \in {} |-> Absent]
  /\ poolRes = [p \in Pools |-> Absent]
  /\ contRes = [c \in Conts |-> Absent]
  /\ todo = Conts
  /\ phase = "pools"

Next ==
  \/ AssemblePools \/ AssembleReclaim \/ NoReclaimPass
  \/ \E c \in Conts : AssemblePodEntries(c)
  \/ AssemblyDone

Spec == Init /\ [][Next]_vars

-----------------------------------------------------------------------------
TypeOK ==
  /\ adv \in AdvisorResult
  /\ cinfo \in [Conts -> ContainerInfo]
  /\ \A o \in DOMAIN blk :
       /\ blk[o].id \in DOMAIN blk
       /\ blk[o].size \in Nat
       /\ blk[o].targets \subseteq DOMAIN blk \ {o}
  /\ poolRes \in [Pools -> [Numas -> SUBSET DOMAIN blk \cup {Absent}] \cup {Absent}]
  /\ \A c \in Conts : contRes[c] # Absent =>
       contRes[c] \in [owner: Pools \cup {NoPool},
                       numas: [Numas -> SUBSET DOMAIN blk \cup {Absent}]]
  /\ todo \subseteq Conts
  /\ phase \in {"pools", "reclaim", "containers", "done"}

\* The pool or pod that a block belongs to in the response.
OwnerOf(o) ==
  IF \E p \in Pools : poolRes[p] # Absent /\ \E n \in Numas : poolRes[p][n] # Absent /\ o \in poolRes[p][n]
    THEN CHOOSE p \in Pools : poolRes[p] # Absent /\ \E n \in Numas : poolRes[p][n] # Absent /\ o \in poolRes[p][n]
    ELSE PodOf[CHOOSE c \in Conts : contRes[c] # Absent /\ \E n \in Numas :
                                      contRes[c].numas[n] # Absent /\ o \in contRes[c].numas[n]]

ReclaimBlocks ==
  IF poolRes[Reclaim] = Absent THEN {}
  ELSE UNION {poolRes[Reclaim][n] : n \in NumasOf(poolRes[Reclaim])}

(* No double claim: a reclaimed-pool block overlaps the capacity of at     *)
(* most one owner, a shared pool or one dedicated pod, whatever order the  *)
(* containers of several pods on one NUMA node are assembled in.           *)
NoDoubleClaim ==
  \A r \in ReclaimBlocks : Cardinality({OwnerOf(o) : o \in blk[r].targets}) <= 1

(* Sidecar reuse: containers of one pod publish on a NUMA node blocks with *)
(* the same identifiers and sizes, whichever of them is assembled first.   *)
SidecarReuse ==
  \A c, d \in Conts :
    (PodOf[c] = PodOf[d] /\ contRes[c] # Absent /\ contRes[d] # Absent) =>
      \A n \in Numas :
        (contRes[c].numas[n] # Absent /\ contRes[d].numas[n] # Absent) =>
          {<<blk[o].id, blk[o].size>> : o \in contRes[c].numas[n]}
            = {<<blk[o].id, blk[o].size>> : o \in contRes[d].numas[n]}

(* The spec on the reclaimed-pool double claim: when two dedicated,       *)
(* NUMA-bound containers race for the reclaimed block of one NUMA node,    *)
(* one gets the overlap join and the other still has its block there, with *)
(* no overlap target.                                                      *)
DoubleClaimLoserKeepsBlock ==
  \A c \in Conts :
    (contRes[c] # Absent /\ IsDedicatedNumaBinding(cinfo[c])) =>
      \A n \in NumasOf(cinfo[c].assign) :
        (poolRes[Reclaim] # Absent /\ poolRes[Reclaim][n] \notin {Absent, {}})
          => contRes[c].numas[n] # {}

=============================================================================

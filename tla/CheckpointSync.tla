--------------------------- MODULE CheckpointSync ---------------------------
(***************************************************************************)
(* Checkpoint reconciliation of the sys-advisor CPU server                 *)
(* (cpu_server.go: getAndSyncCheckpoint, syncCheckpoint, updatePoolInfo,   *)
(* updateContainerInfo), run by the ListAndWatch loop once per tick, and   *)
(* the actors it races with:                                               *)
(*   - the QRM CPU plugin, which owns the allocation state that            *)
(*     GetCheckpoint returns a snapshot of;                                *)
(*   - the AddContainer / RemovePod RPC handlers of the advisor service    *)
(*     (advisorsvc.proto), which create and delete container entries in    *)
(*     the meta cache from other goroutines.                               *)
(* Each meta cache call is atomic (the cache has its own lock); the steps  *)
(* of one sync are not, so the RPC handlers may run between any two.       *)
(*                                                                         *)
(* The wall-clock timestamps that RangeAndDeleteContainer compares         *)
(* (ContainerInfo.UpdateTime against the safeTime taken before             *)
(* GetCheckpoint) are kept only as the outcome of that comparison: the     *)
(* field sinceSafe of a cached container is TRUE iff its UpdateTime is not *)
(* older than the safeTime of the tick in progress.                        *)
(***************************************************************************)
EXTENDS Naturals, FiniteSets

CONSTANTS
  Containers,   \* container keys (podUID, containerName)
  Pods,         \* pod UIDs
  PodOf,        \* [Containers -> Pods]
  Pools,        \* pool names of the checkpoint's pool rows
  Topos,        \* distinct topology-aware CPU assignments
  Dedicated,    \* containers whose pod has QoS level dedicated_cores
  NoPool,       \* the empty owner pool name ""
  Absent,       \* no entry / no value
  MaxChurn,     \* bound on plugin re-ownerships and pool changes
  ClockMayStep, \* the wall clock may be stepped back (NTP, manual set)
  PluginMayRestart \* the plugin may answer from empty state after a restart

ASSUME PodOf \in [Containers -> Pods]
ASSUME Dedicated \subseteq Containers
ASSUME MaxChurn \in Nat
ASSUME ClockMayStep \in BOOLEAN /\ PluginMayRestart \in BOOLEAN

VARIABLES
  \* enforcement side: the QRM plugin's allocation state
  plPools,      \* [Pools -> Topos \cup {Absent}]: pool rows (FakedContainerName)
  plConts,      \* [Containers -> AllocationInfo \cup {Absent}]
  life,         \* [Containers -> Life]: where each container is in its life
  churn,        \* plugin changes made so far (bounded by MaxChurn)
  \* sys-advisor meta cache
  poolEntries,  \* [Pools -> Topos \cup {Absent}]: PoolInfo.TopologyAwareAssignments
  podEntries,   \* [Containers -> ContainerInfo \cup {Absent}]
  \* the reconciliation in progress
  phase,        \* step of getAndSyncCheckpoint / syncCheckpoint
  ckptPools,    \* pool rows of the fetched checkpoint
  ckptConts,    \* container rows of the fetched checkpoint
  living,       \* livingPoolNameSet
  podTodo,      \* pod entries the container pass has yet to visit
  contTodo,     \* container rows of the current pod yet to update
  inflight,     \* copy returned by GetContainerInfo, not yet set back
  synced        \* containers set back by the current / last pass

plugin == <<plPools, plConts, life, churn>>
cache  == <<poolEntries, podEntries>>
sync   == <<phase, ckptPools, ckptConts, living, podTodo, contTodo, inflight, synced>>
vars   == <<plugin, cache, sync>>

OwnerName == Pools \cup {NoPool}

\* Owner pools the plugin can assign: the empty name or a pool it has.
AssignableOwner == {NoPool} \cup {p \in Pools : plPools[p] # Absent}

AllocationInfo == [owner: OwnerName, topo: Topos]

ContainerInfo ==
  [owner: OwnerName, origin: OwnerName, topo: Topos \cup {Absent}, sinceSafe: BOOLEAN]

\* "allocated": in the plugin, AddContainer not yet handled; "added": handled;
\* "released": gone from the plugin, RemovePod not yet handled; "removed":
\* RemovePod handled; "orphaned": the RemovePod call was lost.
Life == {"new", "allocated", "added", "released", "removed", "orphaned"}

Phases == {"idle", "safe", "pools", "containers", "gcContainers", "gcPools"}

ContainersOf(p) == {c \in Containers : PodOf[c] = p}

-----------------------------------------------------------------------------
(* The order of the steps of syncCheckpoint: pool rows first, because the  *)
(* container pass reads the pools' assignments, then container GC, then    *)
(* pool GC, which reads the surviving containers.                          *)
\* Fault variant: containers synced before the pool rows.
PhaseAfterContainersFirst ==
  [fetch |-> "containers", containers |-> "pools", pools |-> "gcContainers",
   gcContainers |-> "gcPools"]

PhaseAfter ==
  [fetch |-> "pools", pools |-> "containers", containers |-> "gcContainers",
   gcContainers |-> "gcPools"]

\* Fault variant: the assignment copied from the origin owner pool, the
\* name assemblePodEntries publishes, instead of the current owner pool.
UpdatedContainerInfoOriginTopo(c, ci, info) ==
  LET origin == IF ci.origin = NoPool THEN info.owner ELSE ci.origin
      inherit == c \notin Dedicated /\ origin # NoPool /\ poolEntries[origin] # Absent
  IN  [ci EXCEPT !.owner  = info.owner,
                 !.origin = origin,
                 !.topo   = IF inherit THEN poolEntries[origin] ELSE info.topo]

(* The container record updateContainerInfo sets back: the checkpoint's    *)
(* owner pool and assignment, the origin owner pool on first observation,  *)
(* and for a non-dedicated container with an owner pool known to the cache *)
(* a copy of that pool's assignment.                                       *)
UpdatedContainerInfo(c, ci, info) ==
  LET origin == IF ci.origin = NoPool THEN info.owner ELSE ci.origin
      inherit == c \notin Dedicated /\ info.owner # NoPool
                   /\ poolEntries[info.owner] # Absent
  IN  [ci EXCEPT !.owner  = info.owner,
                 !.origin = origin,
                 !.topo   = IF inherit THEN poolEntries[info.owner] ELSE info.topo]

(* RangeAndDeleteContainer's predicate: the pod entry or its container row *)
(* is missing from the checkpoint.                                         *)
NotInCheckpoint(c) ==
  \/ \A d \in ContainersOf(PodOf[c]) : ckptConts[d] = Absent
  \/ ckptConts[c] = Absent

\* Fault variant: GC without the safeTime fence.
CollectableNoFence(c) ==
  /\ podEntries[c] # Absent
  /\ NotInCheckpoint(c)

(* RangeAndDeleteContainer deletes only entries older than safeTime.       *)
Collectable(c) ==
  /\ podEntries[c] # Absent
  /\ NotInCheckpoint(c)
  /\ ~podEntries[c].sinceSafe

-----------------------------------------------------------------------------
(* The QRM plugin and the advisor-service RPC handlers.                    *)

\* The plugin allocates a container; it calls AddContainer after committing.
PluginAllocate(c) ==
  /\ life[c] = "new"
  /\ \E o \in AssignableOwner, t \in Topos :
       plConts' = [plConts EXCEPT ![c] = [owner |-> o, topo |-> t]]
  /\ life' = [life EXCEPT ![c] = "allocated"]
  /\ UNCHANGED <<plPools, churn, cache, sync>>

(* AddContainer creates the container's entry, stamped with time.Now().   *)
(* safeTime is wall-clock UnixNano too, so after the clock is stepped back *)
(* a fresh entry can carry a time older than the tick's safeTime.          *)
AddContainer(c) ==
  /\ life[c] = "allocated"
  /\ \E fresh \in IF ClockMayStep THEN BOOLEAN ELSE {TRUE} :
       podEntries' = [podEntries EXCEPT ![c] =
                        [owner |-> NoPool, origin |-> NoPool, topo |-> Absent,
                         sinceSafe |-> fresh]]
  /\ life' = [life EXCEPT ![c] = "added"]
  /\ UNCHANGED <<plPools, plConts, churn, poolEntries, sync>>

\* The plugin moves a container to another pool (e.g. into an isolation pool).
PluginSetOwner(c) ==
  /\ life[c] \in {"allocated", "added"}
  /\ churn < MaxChurn
  /\ \E o \in AssignableOwner \ {plConts[c].owner} :
       plConts' = [plConts EXCEPT ![c].owner = o]
  /\ churn' = churn + 1
  /\ UNCHANGED <<plPools, life, cache, sync>>

\* The plugin creates, resizes or deletes a pool; it deletes only a pool no
\* container it holds is owned by.
PluginSetPool(p) ==
  /\ churn < MaxChurn
  /\ \E t \in (Topos \cup {Absent}) \ {plPools[p]} :
       /\ t = Absent => p \notin {plConts[c].owner : c \in {d \in Containers : plConts[d] # Absent}}
       /\ plPools' = [plPools EXCEPT ![p] = t]
  /\ churn' = churn + 1
  /\ UNCHANGED <<plConts, life, cache, sync>>

\* The plugin releases a pod whose allocations all returned, then calls RemovePod.
PluginRemovePod(p) ==
  /\ \E c \in ContainersOf(p) : life[c] = "added"
  /\ \A c \in ContainersOf(p) : life[c] \in {"new", "added"}
  /\ plConts' = [c \in Containers |-> IF PodOf[c] = p THEN Absent ELSE plConts[c]]
  /\ life' = [c \in Containers |->
               CASE PodOf[c] # p       -> life[c]
                 [] life[c] = "added" -> "released"
                 [] OTHER             -> "removed"]
  /\ UNCHANGED <<plPools, churn, cache, sync>>

\* RemovePod deletes every container entry of the pod.
RemovePod(p) ==
  /\ \E c \in ContainersOf(p) : life[c] = "released"
  /\ podEntries' = [c \in Containers |-> IF PodOf[c] = p THEN Absent ELSE podEntries[c]]
  /\ life' = [c \in Containers |-> IF life[c] = "released" /\ PodOf[c] = p
                                     THEN "removed" ELSE life[c]]
  /\ UNCHANGED <<plPools, plConts, churn, poolEntries, sync>>

\* The RemovePod call fails (advisor not reachable): only GC can clean up.
RemovePodLost(p) ==
  /\ \E c \in ContainersOf(p) : life[c] = "released"
  /\ life' = [c \in Containers |-> IF life[c] = "released" /\ PodOf[c] = p
                                     THEN "orphaned" ELSE life[c]]
  /\ UNCHANGED <<plPools, plConts, churn, cache, sync>>

-----------------------------------------------------------------------------
(* getAndSyncCheckpoint and syncCheckpoint, one tick of the ListAndWatch   *)
(* loop.                                                                   *)

\* Fault variant: safeTime taken once, not refreshed on later ticks.
TakeSafeTimeOnce ==
  /\ phase = "idle"
  /\ phase' = "safe"
  /\ synced' = {}
  /\ UNCHANGED <<plugin, poolEntries, podEntries, ckptPools, ckptConts, living,
                 podTodo, contTodo, inflight>>

\* safeTime := time.Now(): every cached entry is now older than safeTime.
TakeSafeTime ==
  /\ phase = "idle"
  /\ podEntries' = [c \in Containers |->
                      IF podEntries[c] = Absent THEN Absent
                      ELSE [podEntries[c] EXCEPT !.sinceSafe = FALSE]]
  /\ phase' = "safe"
  /\ synced' = {}
  /\ UNCHANGED <<plugin, poolEntries, ckptPools, ckptConts, living, podTodo,
                 contTodo, inflight>>

(* GetCheckpoint returns a snapshot of the plugin's allocation state; a    *)
(* plugin that has just restarted, before restoring its state, answers     *)
(* with a non-nil checkpoint without entries, which passes the nil check.  *)
GetCheckpointOK ==
  /\ phase = "safe"
  /\ \E empty \in IF PluginMayRestart THEN BOOLEAN ELSE {FALSE} :
       /\ ckptPools' = IF empty THEN [p \in Pools |-> Absent] ELSE plPools
       /\ ckptConts' = IF empty THEN [c \in Containers |-> Absent] ELSE plConts
  /\ podTodo' = {PodOf[c] : c \in {d \in Containers : ckptConts'[d] # Absent}}
  /\ phase' = PhaseAfter.fetch
  /\ UNCHANGED <<plugin, cache, living, contTodo, inflight, synced>>

\* GetCheckpoint fails or returns nil: the tick ends with an error.
GetCheckpointFailed ==
  /\ phase = "safe"
  /\ phase' = "idle"
  /\ UNCHANGED <<plugin, cache, ckptPools, ckptConts, living, podTodo,
                 contTodo, inflight, synced>>

(* updatePoolInfo for every pool row: GetPoolInfo, or a new PoolInfo, and *)
(* its assignment replaced by the row's before SetPoolInfo; the pool name, *)
(* set from the row's owner pool, is not modelled.                         *)
UpdatePoolInfo(rows) ==
  [p \in Pools |-> IF rows[p] # Absent THEN rows[p] ELSE poolEntries[p]]

\* First pass: every pool row is upserted and recorded as living.
SyncPools ==
  /\ phase = "pools"
  /\ poolEntries' = UpdatePoolInfo(ckptPools)
  /\ living' = {p \in Pools : ckptPools[p] # Absent}
  /\ phase' = PhaseAfter.pools
  /\ UNCHANGED <<plugin, podEntries, ckptPools, ckptConts, podTodo, contTodo,
                 inflight, synced>>

\* Second pass, per pod entry: GetPod; on error the whole pod is skipped.
GetPod(p) ==
  /\ phase = "containers"
  /\ p \in podTodo
  /\ contTodo = {}
  /\ inflight = Absent
  /\ podTodo' = podTodo \ {p}
  /\ \E found \in BOOLEAN :
       contTodo' = IF found THEN {c \in ContainersOf(p) : ckptConts[c] # Absent}
                   ELSE {}
  /\ UNCHANGED <<plugin, cache, phase, ckptPools, ckptConts, living, inflight,
                 synced>>

\* Fault variant: the !ok early return dropped; the nil copy goes on.
GetContainerInfoNoCheck(c) ==
  /\ c \in contTodo
  /\ inflight = Absent
  /\ inflight' = [c |-> c, ci |-> podEntries[c]]
  /\ UNCHANGED <<plugin, cache, phase, ckptPools, ckptConts, living, podTodo,
                 contTodo, synced>>

\* updateContainerInfo, first half: GetContainerInfo returns a copy, or the
\* container does not exist in the cache and the row is skipped with an error.
GetContainerInfo(c) ==
  /\ c \in contTodo
  /\ inflight = Absent
  /\ IF podEntries[c] = Absent
       THEN /\ contTodo' = contTodo \ {c}
            /\ UNCHANGED inflight
       ELSE /\ inflight' = [c |-> c, ci |-> podEntries[c]]
            /\ UNCHANGED contTodo
  /\ UNCHANGED <<plugin, cache, phase, ckptPools, ckptConts, living, podTodo,
                 synced>>

\* updateContainerInfo, second half: GetQoSLevelForPod may fail, which drops
\* the modified copy; otherwise the copy is set back (SetContainerInfo upserts).
SetContainerInfo ==
  /\ inflight # Absent
  /\ LET c == inflight.c IN
       \/ /\ podEntries' = [podEntries EXCEPT ![c] =
                              UpdatedContainerInfo(c, inflight.ci, ckptConts[c])]
          /\ synced' = synced \cup {c}
       \/ UNCHANGED <<podEntries, synced>>
  /\ contTodo' = contTodo \ {inflight.c}
  /\ inflight' = Absent
  /\ UNCHANGED <<plugin, poolEntries, phase, ckptPools, ckptConts, living, podTodo>>

ContainersDone ==
  /\ phase = "containers"
  /\ podTodo = {}
  /\ contTodo = {}
  /\ inflight = Absent
  /\ phase' = PhaseAfter.containers
  /\ UNCHANGED <<plugin, cache, ckptPools, ckptConts, living, podTodo, contTodo,
                 inflight, synced>>

\* RangeAndDeleteContainer(NotInCheckpoint, safeTime).
GCContainers ==
  /\ phase = "gcContainers"
  /\ podEntries' = [c \in Containers |->
                      IF Collectable(c) THEN Absent ELSE podEntries[c]]
  /\ phase' = PhaseAfter.gcContainers
  /\ UNCHANGED <<plugin, poolEntries, ckptPools, ckptConts, living, podTodo,
                 contTodo, inflight, synced>>

\* Fault variant: pools kept by the containers' current owner pool, the
\* realtime owner the todo at line 350 asks for.
KeptPoolsByOwner ==
  living \cup {podEntries[c].owner : c \in {d \in Containers : podEntries[d] # Absent}}

\* livingPoolNameSet once the living containers' origin owner pools are added.
KeptPools ==
  living \cup {podEntries[c].origin : c \in {d \in Containers : podEntries[d] # Absent}}

\* GCPoolEntries deletes every pool not kept.
GCPools ==
  /\ phase = "gcPools"
  /\ poolEntries' = [p \in Pools |-> IF p \in KeptPools THEN poolEntries[p] ELSE Absent]
  /\ phase' = "idle"
  /\ ckptPools' = [p \in Pools |-> Absent]
  /\ ckptConts' = [c \in Containers |-> Absent]
  /\ living' = {}
  /\ UNCHANGED <<plugin, podEntries, podTodo, contTodo, inflight, synced>>

-----------------------------------------------------------------------------
Init ==
  /\ plPools \in [Pools -> Topos]
  /\ plConts = [c \in Containers |-> Absent]
  /\ life = [c \in Containers |-> "new"]
  /\ churn = 0
  /\ poolEntries = [p \in Pools |-> Absent]
  /\ podEntries = [c \in Containers |-> Absent]
  /\ phase = "idle"
  /\ ckptPools = [p \in Pools |-> Absent]
  /\ ckptConts = [c \in Containers |-> Absent]
  /\ living = {}
  /\ podTodo = {}
  /\ contTodo = {}
  /\ inflight = Absent
  /\ synced = {}

Environment ==
  \/ \E c \in Containers : PluginAllocate(c) \/ AddContainer(c) \/ PluginSetOwner(c)
  \/ \E p \in Pools : PluginSetPool(p)
  \/ \E p \in Pods : PluginRemovePod(p) \/ RemovePod(p) \/ RemovePodLost(p)

Tick ==
  \/ TakeSafeTime \/ GetCheckpointOK \/ GetCheckpointFailed \/ SyncPools
  \/ \E p \in Pods : GetPod(p)
  \/ \E c \in Containers : GetContainerInfo(c)
  \/ SetContainerInfo \/ ContainersDone \/ GCContainers \/ GCPools

Next == Environment \/ Tick

(* The timer of a running ListAndWatch loop keeps firing, so every step of *)
(* a tick is weakly fair. That the plugin eventually answers GetCheckpoint *)
(* is an assumption about the plugin: strong fairness, since a failed call *)
(* ends the tick and the call is only enabled again on the next one. The   *)
(* same holds of the pod lookups (GetPod, GetQoSLevelForPod): a pod the    *)
(* metaServer cannot find now is found on some later tick.                 *)
Fairness ==
  /\ WF_vars(TakeSafeTime) /\ SF_vars(GetCheckpointOK) /\ WF_vars(SyncPools)
  /\ WF_vars(\E p \in Pods : GetPod(p))
  /\ \A p \in Pods : SF_vars(GetPod(p) /\ contTodo' # {})
  /\ WF_vars(\E c \in Containers : GetContainerInfo(c))
  /\ WF_vars(SetContainerInfo) /\ \A c \in Containers : SF_vars(SetContainerInfo /\ c \in synced' \ synced)
  /\ WF_vars(ContainersDone)
  /\ WF_vars(GCContainers) /\ WF_vars(GCPools)

Spec == Init /\ [][Next]_vars /\ Fairness

-----------------------------------------------------------------------------
TypeOK ==
  /\ plPools \in [Pools -> Topos \cup {Absent}]
  /\ plConts \in [Containers -> AllocationInfo \cup {Absent}]
  /\ life \in [Containers -> Life]
  /\ churn \in 0..MaxChurn
  /\ poolEntries \in [Pools -> Topos \cup {Absent}]
  /\ podEntries \in [Containers -> ContainerInfo \cup {Absent}]
  /\ phase \in Phases
  /\ ckptPools \in [Pools -> Topos \cup {Absent}]
  /\ ckptConts \in [Containers -> AllocationInfo \cup {Absent}]
  /\ living \subseteq Pools
  /\ podTodo \subseteq Pods
  /\ contTodo \subseteq Containers
  /\ inflight \in {Absent} \cup [c: Containers, ci: ContainerInfo]
  /\ synced \subseteq Containers

(* GC safety (the safeTime fence of RangeAndDeleteContainer): a container  *)
(* the plugin still holds and whose AddContainer has been handled is never *)
(* missing from the cache, even when the checkpoint that GC compares with  *)
(* was fetched before the plugin allocated it.                             *)
AddedContainersCached ==
  \A c \in Containers : life[c] = "added" => podEntries[c] # Absent

(* Pools before containers: after a sync, every non-dedicated container it *)
(* set back carries the assignment its owner pool has in the cache.        *)
TopologyFollowsPool ==
  phase = "idle" =>
    \A c \in synced \ Dedicated :
      LET ci == podEntries[c] IN
        (ci # Absent /\ ci.owner # NoPool /\ poolEntries[ci.owner] # Absent)
          => ci.topo = poolEntries[ci.owner]

(* A pod whose RemovePod has been handled stays out of the cache: the spec *)
(* says a checkpoint fetched concurrently with a delete cannot resurrect a *)
(* container removed after the fetch started.                              *)
RemovedStaysRemoved ==
  \A c \in Containers : life[c] = "removed" => podEntries[c] = Absent

(* Garbage collection: a container the plugin has released leaves the     *)
(* cache eventually, whether or not its RemovePod call got through.        *)
ReleasedEventuallyCollected ==
  \A c \in Containers :
    life[c] \in {"released", "removed", "orphaned"} ~> podEntries[c] = Absent

(* Pool GC against assembly: assemblePodEntries publishes a non-isolated  *)
(* container's origin owner pool (lines 483-485), so GC must keep every    *)
(* pool that a cached container originated in, even after the plugin has  *)
(* moved the container out and deleted the pool.                           *)
OriginPoolCached ==
  \A c \in Containers :
    (podEntries[c] # Absent /\ podEntries[c].origin # NoPool)
      => poolEntries[podEntries[c].origin] # Absent

(* The record a sync leaves for a container the plugin holds: its owner   *)
(* pool, and the pool's assignment when it is non-dedicated and owned.     *)
InSync(c) ==
  LET ci == podEntries[c]
      info == plConts[c]
  IN  /\ ci # Absent
      /\ ci.owner = info.owner
      /\ ci.topo = IF c \notin Dedicated /\ info.owner # NoPool
                     THEN plPools[info.owner] ELSE info.topo

(* Eventual consistency of the meta cache with the plugin: once the plugin *)
(* stops changing, every container it holds whose AddContainer was        *)
(* handled ends up with the plugin's owner pool and assignment, whatever   *)
(* ticks failed, whatever GetPod or QoS lookups failed and whatever copies *)
(* were in flight when the plugin moved it.                                *)
CacheConverges ==
  \A c \in Containers : <>[](life[c] = "added" => InSync(c))

=============================================================================

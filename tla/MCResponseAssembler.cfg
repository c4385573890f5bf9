CONSTANTS
  share = share
  reclaim = reclaim
  c1 = c1
  c2 = c2
  c3 = c3
  c4 = c4
  p1 = p1
  p2 = p2
  p3 = p3
  NoPool = NoPool
  Absent = Absent
  Pools <- MCPools
  Reclaim = reclaim
  Numas <- MCNumas
  Conts <- MCConts
  PodOf <- MCPodOf
  AdvisorResults <- MCAdvisorResults
  ContainerInfos <- MCContainerInfos

SPECIFICATION Spec

INVARIANT TypeOK
INVARIANT NoDoubleClaim
INVARIANT SidecarReuse

\* One call of assembleResponse returns once every container is assembled.
CHECK_DEADLOCK FALSE

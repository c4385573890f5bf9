CONSTANTS
  c1 = c1
  c2 = c2
  c3 = c3
  p1 = p1
  p2 = p2
  share = share
  reserve = reserve
  t1 = t1
  t2 = t2
  NoPool = NoPool
  Absent = Absent
  MaxChurn = 2
  ClockMayStep = FALSE
  PluginMayRestart = FALSE
  Containers <- MCContainers
  Pods <- MCPods
  PodOf <- MCPodOf
  Pools <- MCPools
  Topos <- MCOneTopo
  Dedicated <- MCDedicated

SPECIFICATION Spec

INVARIANT OriginPoolCached
SYMMETRY MCSymmetry

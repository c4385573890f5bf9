CONSTANTS
  s1 = s1
  s2 = s2
  Sessions <- MCSessions
  MaxCalls = 3
  PluginMayHang = FALSE

SPECIFICATION Spec

INVARIANT SingleLoop
INVARIANT FlagOwned
INVARIANT HealthTracksLoop
 
PROPERTY StopReleases

\* The system stops for good once the server is stopped and the plugin has
\* made its last call.
CHECK_DEADLOCK FALSE

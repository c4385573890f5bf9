CONSTANTS
  s1 = s1
  s2 = s2
  Sessions <- MCSessions
  MaxCalls = 3
  PluginMayHang = TRUE

SPECIFICATION Spec

PROPERTY CancelReleases

\* The system stops for good once the plugin has made its last call.
CHECK_DEADLOCK FALSE

CONSTANTS
  pa = pa
  pb = pb
  root = root
  k1 = k1
  hk = hk
  v1 = v1
  hv = hv
  none = none
  Paths <- MCPaths
  Keys <- MCKeys
  Vals <- MCVals
  NoValue = none
  HeadroomPath = root
  HeadroomKey = hk
  HeadroomVal = hv
  AdvisorExtras <- MCAdvisorExtras

SPECIFICATION Spec

INVARIANT TypeOK
INVARIANT MergeMatchesReference
INVARIANT ExtraPathsUnique

\* One call of assembleResponse: the system stops once it has returned.
CHECK_DEADLOCK FALSE

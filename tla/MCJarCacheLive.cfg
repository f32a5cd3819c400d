CONSTANTS
  k1 = k1
  k2 = k2
  k3 = k3
  u1 = u1
  u2 = u2
  Keys <- MCKeys
  Uploaders <- MCUploaders
  Wanted <- MCWanted
  Parrallelism = 2
  MaxIncidents = 1
  Faults <- RestartsOnly

SPECIFICATION FairSpec

INVARIANT CachedIsWhole

PROPERTY UploadsFinish

\* Uploads end, and a lost message leaves an uploader waiting.
CHECK_DEADLOCK FALSE

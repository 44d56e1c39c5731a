\* Two connections, three heartbeats.
SPECIFICATION FairSpec
CONSTANTS
  V2 = TRUE
  MaxGen = 2
  MaxBeats = 3
  MaxWire = 1
INVARIANTS TypeOK OneLoop BeatsWhileUp
PROPERTIES AckExact WatchdogRecovers
\* The connections and heartbeats are used up.
CHECK_DEADLOCK FALSE

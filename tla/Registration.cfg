\* A Redis that goes out twice and two cut connections, with mDNS or Consul beside it.
SPECIFICATION MultiSpec
CONSTANTS
    TTL = 3
    Interval = 1
    Outages = 2
    Breaks = 2
INVARIANT CleanStopUnlists
PROPERTIES LapseNeedsMissedBeats  StopEndsRegistration ImplementsLease

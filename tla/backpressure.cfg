\* Two slots, a queue of three and five requests; no timer need ever fire.
CONSTANTS
  Requests = {r1, r2, r3, r4, r5}
  MaxConcurrent = 2
  MaxQueueSize = 3
SPECIFICATION FairSpec
INVARIANTS
  TypeOK
  WaitersAreQueued
  PermitsConserved
  CountersExact
  NoLostWakeup
PROPERTIES
  NoOvertaking
  ImplementsAdmission
  NoStarvation

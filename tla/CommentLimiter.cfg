\* Two clients, a burst of two, and time for entries to be evicted and made again.
SPECIFICATION Spec
CONSTANTS
  IP = {a, b}
  Burst = 2
  Cost = 2
  TTL = 4
  Crowd = 1
  Pause = 2
  MaxNow = 8
SYMMETRY Symmetry
INVARIANTS
  AtMostTheRate
PROPERTY
  EvictionIsInvisible

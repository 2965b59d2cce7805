\* One page, three photos; the page may hang up at any time.
SPECIFICATION Spec
CONSTANTS
  Client = {c1}
  Stop = {s1, s2, s3, s4}
  Photo = {p1, p2, p3}
  NoStop = NoStop
  Requests <- Op
  MaxOrder = 2
  Clusters <- ThreePhotos
  Faults = {"hangup"}
  p1 = p1
  p2 = p2
  p3 = p3
SYMMETRY Symmetry
INVARIANTS
  TypeOK
  
  

  

SPECIFICATION Spec
CONSTANTS
  a = a
  b = b
  NoGraph = NoGraph
  Idle = Idle
  Users <- MCUsers
  Wide = 3
  Tracks = {2, 3}
  Gained = {2}
  Benches <- MCBenches
  Editable <- MCEditable
  Erasable <- MCErasable
INVARIANTS TypeOK LiveRoutable
PROPERTIES LoadsFit SuspendsOnlyConflicts ImplementsRackList
SYMMETRY Symmetry

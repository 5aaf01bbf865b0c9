CONSTANTS
  Lease = {l1, l2, l3}
  Owner = {o1}
  b1 = b1
  b2 = b2
  Robot = {b1, b2}
  NoName = NoName
  Equipment <- MCEquipment
  Additional <- MCAdditional
SPECIFICATION Spec
INVARIANTS TypeOK NoConflict BlockingTypesRespected
PROPERTIES LocksSpec
SYMMETRY LeaseSymmetry

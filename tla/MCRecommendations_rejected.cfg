SPECIFICATION Spec
CONSTANTS
  Recs = {index, vacuum, drop}
  NoDDL = {vacuum}
  Critical = {drop}
  Requests = {r1, r2, r3}
  MaxRuns = 2
  NoRec = NoRec
SYMMETRY RequestSymmetry
PROPERTIES RejectedStaysRejected

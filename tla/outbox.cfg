\* Two publishers, whose advisory lock can be lost; two changed builds, a fault and an administrator's command.
SPECIFICATION Spec
CONSTANTS
  Publishers = {p1, p2}
  Keys = {k1}
  Versions = {v1, v2}
  Absent = absent
  None = none
  MaxEdits = 2
  MaxFaults = 1
  MaxOps = 1
INVARIANTS SequenceNamesState DeltaFitsItsBase AckedWasAccepted SequenceFresh
PROPERTIES AckedAdvances WholeSnapshots SendingIsProtected
SYMMETRY Symmetry

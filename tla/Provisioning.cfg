SPECIFICATION ProvisionSpec
CONSTANTS
  Subnet = {1, 2, 3}
  Zone = {"a", "b"}
  Table = {"public", "private"}
  NoTable = NoTable
  None = None
  Policy = {"policy1", "policy2"}
  Certificate = {c1, c2}
  CertTTL = 5
  Inputs <- MCInputs
  NextSettings <- MCNextSettings
  NextVPC <- MCNextVPC
CHECK_DEADLOCK FALSE
INVARIANTS
  ProvisionTypeOK
  BestOfZone
  TemplateAccepted
  InternalTrafficDenied
  TargetGroupsKnown
  ReadBack
  StillManaged
  ProtectionApplied
PROPERTIES
  UpdatedInPlace

SYMMETRY Symmetry

SPECIFICATION Spec
CONSTANTS
  m1 = m1
  m2 = m2
  c1 = c1
  c2 = c2
  Id = {"ours", "other"}
  Ours = "ours"
  Member = {m1, m2}
  Input = {i1, i2}
  Component = {c1, c2}
  MemberOf <- MCMemberOf
  LocationOf <- MCLocationOf
  Group = {g1, g2}
  Obligations <- MCObligations
  Artifact = {x1, x2}
  Attempt = {a1, a2, a3}
  Documents = 2
SYMMETRY Symmetry
INVARIANTS
  EvidenceTypeOK
  ResolvedLineageIsOne
  RecordsAreGenuine
  CoverageIsReachability
  VerifiedIsProven
  VerifiedIsOneChain
  PlannedIsFaithful
PROPERTIES
  SignalStopsTheLoop

SPECIFICATION ScopeSpec
CONSTANTS
  i1 = i1
  i2 = i2
  w1 = w1
  w2 = w2
  w3 = w3
  o1 = o1
  o2 = o2
  p1 = p1
  p2 = p2
  Nobody = Nobody
  Sandboxes = {1, 2}
  Instances = {i1, i2}
  Workers = {w1}
  Admins = {a1, a2}
  Orgs = {o1, o2}
  Projects = {p1, p2}
  Home <- MCHome
  OrgOf <- MCOrgOf
  ProjectOf <- MCProjectOf
  Environments <- ScopeEnvironments
SYMMETRY AdminSymmetry
CHECK_DEADLOCK FALSE
INVARIANTS HashMatchesRows DeletedHoldsNothing ProjectInsideOrg
PROPERTIES AssignTakesNoBusySandbox

SPECIFICATION Spec
CONSTANTS
  Runs = {r1, r2}
  Clients = {c1}
  MaxAttempts = 2
  MaxClaims = 2
  r1 = r1
  r2 = r2
  c1 = c1
SYMMETRY Symmetry
INVARIANTS TokenNamesOneRun
PROPERTIES CommittedResultKept ImplementsLedger

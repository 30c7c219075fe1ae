CONSTANTS
  None = None
  f1 = f1
  f2 = f2
  f3 = f3
  Flows = {f1, f2, f3}
  e1 = e1
  e2 = e2
  e3 = e3
  Entries = {e1, e2, e3}
  p1 = p1
  p2 = p2
  p3 = p3
  Endpoints = {p1, p2, p3}
SPECIFICATION Spec
SYMMETRY Symmetric
INVARIANTS UniqueEndpoints EveryEntryWasReached
PROPERTY EntriesAreKept

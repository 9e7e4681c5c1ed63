SPECIFICATION FairSpec
CONSTANTS
  r1 = r1
  r2 = r2
  u1 = u1
  u2 = u2
  e1 = e1
  e2 = e2
  gate = gate
  look = look
  bad = bad
  Absent = Absent
  NoRequest = NoRequest
  Ungated = Ungated
  Kinds = {"rec", "cobr"}
  Requests = {e1, e2, gate, look, bad}
  Urls = {u1, u2}
  Ensuring = {e1, e2, bad}
  Kind <- KindOf
  Wanted <- WantedOf
  Runs <- TwoRuns
  MaxRetries = 2
  MaxForeign = 1
INVARIANTS
  TypeOK
  EventsTellWhoChanged
PROPERTIES
  MatchingIsAdopted
  ImplementsContract
  EveryRunFinishes

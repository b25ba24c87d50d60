SPECIFICATION Spec
CONSTANTS
  Documents = {d1}
  Contents = {x1, x2}
  Origins = {og}
  Observers = {b1}
  IntakeRequests = {q1}
  SubmitRequests = {r1}
  Submitters = {c1, c2}
  GoodOutputs = {o1, o2}
  BadOutputs = {o3}
  NoProfile = NoProfile
  p1 = p1
  p2 = p2
  p3 = p3
  a1 = a1
  a2 = a2
  a3 = a3
  Statements = {p1, p2, p3}
  Claims = {a1, a2, a3}
  ClaimOf <- TheClaims
  ObjectOf <- TheObjects
  Slots = {y1, y2}
  LineageRequests = {q2}
  MaxGovernance = 1
  NoLineage = NoLineage
  NoReview = NoReview
  v1 = v1
  v2 = v2
  v3 = v3
  da = da
  db = db
  dx = dx
  f1 = f1
  f2 = f2
  Commits = {v1, v2, v3}
  TreeOf <- TheTrees
  FactsOf <- TheFacts
  Unparsable = {dx}
  CaptureRequests = {k1, k2}
  RunRequests = {r2, r3, r4}
  ActivateRequests = {q3, q4}
  NoGeneration = 0
  Nodes = {n1}
  Propositions = {m1, m2}
  Meanings = {z1, z2}
  BindRequests = {q5}
  ChangeRequests = {q6, q7, q8}
  RecordRequests = {q9, q10}
  Subjects = {s1}
  Reports = {t1}
  Recorders = {u1, u2}
  NoProposition = NoProposition
  NoRecord = NoRecord
  g1 = g1
  g2 = g2
  h1 = h1
  j1 = j1
  j2 = j2
  GovSources = {g1, g2}
  GovDerived = {h1}
  ParentsOf <- TheParents
  HistoricalOnly = {}
  SnapshotOf <- TheSnapshots
  ValidFrom <- TheFrom
  ValidTo <- TheTo
  Findings <- TheFindings
  GovRequests = {q11}
  GovBatches = {b2}
  MaxOffers = 2
  MaxConflicts = 1
  MaxNow = 1
CONSTRAINT FewMoves
INVARIANTS AcceptedPlansConsistent FindingsStand AnswersHold ProjectionNeverFails CurrentAccountsForAll DeltaAgrees DecisionsOnCurrentHead RetriesReplay
PROPERTY AppliedStaysApplied
CHECK_DEADLOCK FALSE

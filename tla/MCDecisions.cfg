SPECIFICATION Spec
CONSTANTS
  Sessions = {s1, s2, s3}
  SourceProposals = {p}
  DerivedProposals = {d}
  AdmittedProposals = {o}
  Contradictions = {k}
  Claims = {a}
  LockAttempts = 2
  q1 = q1
  q2 = q2
  m1 = m1
  m2 = m2
  SpecNodes = {1, 2, 3, 4, 5}
  MentionsOf <- TheMentions
  MinSharedTerms = 2
  MaxLayers = 2
  MaxClosure = 4
  MaxClosureEdges = 4
  MaxAndParents = 2
  Approvers = {b1, b2}
  ApprovalInputs <- TheApprovals
  ApprovalAttempts = 2
  o1 = o1
  o2 = o2
  o3 = o3
  o4 = o4
  d2 = d2
  t1 = t1
  t2 = t2
  r1 = r1
  r2 = r2
  e1 = e1
  MatStatements = {o1, o2, o3, o4}
  MatDerived = {d2}
  TextOf <- TheTexts
  RefsOf <- TheRefs
  ExtractorOf <- TheExtractors
  BasisOf <- TheBases
  Deciders = {v1, v2}
  Members = {1, 2, 3}
  RuleIds = {11, 12}
  ClausesOf <- TheClauses
  BasesOf <- TheParents
  CheckRequests <- TheRequests
  Askers = {z1}
  Problems <- TheProblems
  n1 = n1
  n2 = n2
  n3 = n3
  ViewNodes = {n1, n2, n3}
  ParentsOf <- TheDerivations
  ViewEdges = {1, 2, 3, 4}
  EndsOf <- TheEnds
  Readers = {u1, u2}
  ReadInputs <- TheInputs
  CacheCapacity = 1
  MaxHead = 5
  MaxOpened = 2
SYMMETRY SessionSymmetry
INVARIANTS AlignedNeverDeadlock DecidedOnce AdmittedReplays VerdictsHold HandleMeansOneView ReviewsExact TwinsAgree
PROPERTIES CurrentUseHolds UntruncatedViewComplete
CHECK_DEADLOCK FALSE

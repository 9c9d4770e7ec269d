\* A redirect of a delete to a place that answers a GET.
SPECIFICATION Spec
CONSTANTS
  c1 = c1
  c2 = c2
  a1 = a1
  r1 = r1
  d1 = d1
  Commands = {c1, d1}
  Kind <- MCKind
  Of <- MCOf
  SessionIds = {s1}
  NoSession = NoSession
  NoKey = NoKey
  Answers <- OnlyRedirects
INVARIANTS DeletedIsTrue
CHECK_DEADLOCK FALSE

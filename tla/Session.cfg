\* The life of one session and the creation of another, under every fault.
SPECIFICATION Spec
CONSTANTS
  c1 = c1
  c2 = c2
  a1 = a1
  r1 = r1
  d1 = d1
  Commands = {c1, c2, a1, r1, d1}
  Kind <- MCKind
  Of <- MCOf
  SessionIds = {s1, s2}
  NoSession = NoSession
  NoKey = NoKey
  Answers <- MCAnswers
INVARIANTS TypeOK AppliedOnce AcknowledgedIsTrue LastWordStands
PROPERTIES KeepsContract
CHECK_DEADLOCK FALSE

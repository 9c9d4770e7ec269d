\* Two runs, each with any arguments, a file that changes, and an account that
\* has access to any of two organizations.
SPECIFICATION Spec
CONSTANTS
  Runs = {r1, r2}
  Orgs = {o1, o2}
  NoOrg = NoOrg
  Texts = {x, y}
  VersionIds = {v1, v2, v3}
  NoVersion = NoVersion
  Answers <- MCAnswers
SYMMETRY MCSymmetry
INVARIANTS TypeOK ExitZeroIsTrue FailureNamesVersion OrgNamedOrSole LastRunStands
CHECK_DEADLOCK FALSE

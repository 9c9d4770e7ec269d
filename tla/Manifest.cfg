\* Two conditional publishers beside those of the other policies.
SPECIFICATION Spec
CONSTANTS
  cond1 = cond1
  cond2 = cond2
  plain = plain
  force = force
  misfit = misfit
  twice = twice
  empty = empty
  other = other
  Publishers = {cond1, cond2, plain, force, misfit, twice, empty, other}
  Policy <- MCPolicy
  Conditional = {cond1, cond2, misfit}
  Tools <- MCTools
  Old <- MCOld
  Answers <- MCAnswers
  MaxToken = 3
INVARIANTS TypeOK ReplacesByConsent ResultIsOwn
CHECK_DEADLOCK FALSE

\* Two intents, three calls each, two blocks that may exist from the start.
SPECIFICATION Spec
CONSTANTS
  t1 = t1
  t2 = t2
  Intents = {t1, t2}
  Kinds <- MCKinds
  Text <- MCText
  BlockIds = {b1, b2}
  OldTexts = {"old"}
  Answers <- MCAnswers
  MaxCalls = 3
INVARIANTS TypeOK WrittenOnce SuccessIsTrue RejectedNeverApplied
PROPERTIES ReplacesWhatWasRead KeepsContract
CHECK_DEADLOCK FALSE

\* Late answers: every split of the stream, every time-out, one event.
SPECIFICATION FairSpec
CONSTANTS
  PartSizes <- MCPartSizes
  MaxRequests = 5
  MaxEvents = 1
  MaxFaults = 0
  ReadMax = 2
  Slack = 1
  Prompt = FALSE
  MayHangUp = FALSE
INVARIANTS
  WrongOnlyAfterDisturbance
  Resynchronises
  NothingLeftBehind
  AnswersInOrder
PROPERTY ReadEnds

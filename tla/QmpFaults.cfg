\* Failing poll() and write(), a peer that hangs up, more events than Slack.
SPECIFICATION Spec
CONSTANTS
  PartSizes <- MCPartSizes
  MaxRequests = 4
  MaxEvents = 2
  MaxFaults = 1
  ReadMax = 2
  Slack = 1
  Prompt = FALSE
  MayHangUp = TRUE
INVARIANT CrashOnlyAfterDisturbance

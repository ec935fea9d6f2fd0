\* Two events of an issue that is attached while they come in; two crashes, lost
\* replies, dropped or slow turns.
SPECIFICATION LiveSpec
CONSTANTS
  home = home
  other = other
  Events = {1, 2}
  IssueOf <- MCIssueOf
  HomeIssue = home
  Outcomes = {"completed", "review", "garbage"}
  IdleSamples = 2
  MaxNonces = 4
  MaxFaults = 2
INVARIANTS DeliveredIsAnswered DeliveredIsHeeded OnePromptAtATime
PROPERTIES AnswerMovesOnce MailboxImplemented EventsSettle
CHECK_DEADLOCK FALSE

CONSTANTS
  None = None
  Calls <- MCCalls
  Memories <- MCMemories
  MaxChanges = 1
  MaxDropped = 2
SPECIFICATION PollSpec
INVARIANTS EachAddressOnce BlocksAreLegal FewestTransactions SensorsShowTheMachine DerivedFromOneMoment AlarmViewsAgree ModeViewsAgree
CHECK_DEADLOCK FALSE

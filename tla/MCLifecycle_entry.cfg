CONSTANTS
  Unset = Unset
  DEFAULT_READ_ONLY = FALSE
  MaxWaiting = 2
SPECIFICATION Spec
INVARIANTS NothingLeftBehind NoControlsWhenReadOnly ServicesFindTheCurrent
PROPERTY EntryComesBack

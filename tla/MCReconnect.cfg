CONSTANTS
  Accounts = {ann}
  Calls = {call1}
  MaxConnects = 1
  MaxTokens = 1
  MaxBreaks = 2
  NoAccount = NoAccount
SPECIFICATION GoogleAccessSpec
INVARIANT RestoreAsksForConnect
CHECK_DEADLOCK FALSE

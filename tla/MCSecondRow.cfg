CONSTANTS
  MaxAttempts = 2
  Scopes <- MCSleepingScopes
SPECIFICATION Spec
INVARIANT OneRowPerSale

CONSTANTS
  MaxAttempts = 2
  Scopes <- MCOvertakenScopes
SPECIFICATION Spec
INVARIANT Converged

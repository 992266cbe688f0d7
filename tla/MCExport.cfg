CONSTANTS
  MaxAttempts = 2
  Scopes <- MCScopes
SPECIFICATION FairSpec
INVARIANTS ExportedIsCurrent ConfirmedIsRemote SecondRowsOverlap
PROPERTIES StaleAnswersDiscarded SheetNeverRegresses EverySaleLeaves

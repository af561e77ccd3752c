SPECIFICATION Spec
INVARIANTS
  TypeOK
  ResetOnlyQuietBody
  ReadyIsReconciled
  CleanExit

SPECIFICATION Spec
INVARIANT LiveViewEndsWithSession

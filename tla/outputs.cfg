\* Outputs come and go; the neighbouring workspace may be of another context.
SPECIFICATION Spec
CONSTANTS
  Null = Null
  Views = {v1, v2}
  Outputs = {o1, o2}
  NContexts = 3
  NWorkspaces = 1
  Families = {"window", "output", "workspace", "stray", "rules", "jump", "pointer", "activate"}
  Kinds = {"Stack"}
  InitialKind = "Stack"
SYMMETRY Symmetry
\* A model that is down does nothing more.
CHECK_DEADLOCK FALSE
INVARIANTS
  ContextsMatchOutputs
  FocusRecursionEnds
PROPERTIES
  KnownWaysDown

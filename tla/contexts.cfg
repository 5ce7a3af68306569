\* One output through which two contexts are seen; rules send windows to either.
SPECIFICATION Spec
CONSTANTS
  Null = Null
  Views = {v1, v2}
  Outputs = {o1}
  NContexts = 2
  NWorkspaces = 2
  Families = {"window", "focus", "pointer", "activate", "workspace", "context", "rules"}
  Kinds = {"Stack"}
  InitialKind = "Stack"
SYMMETRY Symmetry
\* A model that is down does nothing more.
CHECK_DEADLOCK FALSE
INVARIANTS
  ShownIsMapped

\* Two outputs, each of which may be asked for the other's context.
SPECIFICATION Spec
CONSTANTS
  Null = Null
  Views = {v1}
  Outputs = {o1, o2}
  NContexts = 2
  NWorkspaces = 1
  Families = {"output", "context"}
  Kinds = {"Stack"}
  InitialKind = "Stack"
SYMMETRY Symmetry
\* A model that is down does nothing more.
CHECK_DEADLOCK FALSE
INVARIANTS
  ContextsMatchOutputs

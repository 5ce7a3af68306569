\* More outputs than contexts.
SPECIFICATION Spec
CONSTANTS
  Null = Null
  Views = {v1}
  Outputs = {o1, o2}
  NContexts = 1
  NWorkspaces = 1
  Families = {"output"}
  Kinds = {"Stack"}
  InitialKind = "Stack"
SYMMETRY Symmetry
\* A model that is down does nothing more.
CHECK_DEADLOCK FALSE
INVARIANTS
  NothingDangles

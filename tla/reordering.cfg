\* Windows in two tracks of one workspace, put in any order.
SPECIFICATION Spec
CONSTANTS
  Null = Null
  Views = {v1, v2, v3}
  Outputs = {o1}
  NContexts = 1
  NWorkspaces = 1
  Families = {"window", "focus", "order", "drag", "float"}
  Kinds = {"Stack"}
  InitialKind = "Stack"
SYMMETRY Symmetry
\* A model that is down does nothing more.
CHECK_DEADLOCK FALSE
INVARIANTS
  FocusLeads
  ActiveWhileAny

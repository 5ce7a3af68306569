\* Floating, fullscreen and contained windows, in any mixture.
SPECIFICATION Spec
CONSTANTS
  Null = Null
  Views = {v1, v2}
  Outputs = {o1}
  NContexts = 1
  NWorkspaces = 1
  Families = {"window", "focus", "order", "drag", "pointer", "float", "fullscreen", "traits", "contain"}
  Kinds = {"Stack"}
  InitialKind = "Stack"
SYMMETRY Symmetry
\* A model that is down does nothing more.
CHECK_DEADLOCK FALSE
INVARIANTS
  OneIsFocused

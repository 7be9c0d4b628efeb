SPECIFICATION Spec
CONSTANTS
  Locals = {a, b}
  Remotes = {r, s, t}
  Me = Me
  Nil = Nil
  MaxAstray = 1
SYMMETRY Alike
INVARIANTS
  TreeMirrored
  CountersAgree
  ToldInOrder
  RoutedOnce
PROPERTIES
  ImplementsTopology

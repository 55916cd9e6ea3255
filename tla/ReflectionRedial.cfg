SPECIFICATION Spec
CONSTANTS
  Pages = {p, q}
  Conns = {k1, k2, k3}
  Nil = Nil
INVARIANTS
  FreshIsClean
PROPERTIES
  RedialHeals

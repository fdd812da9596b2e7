SPECIFICATION Spec
CONSTANTS
  n1 = n1  n2 = n2  n3 = n3
  u1 = u1  u2 = u2
  Node = {n1, n2, n3}
  User = {u1}
  MaxOpen = 2
SYMMETRY Interchangeable
INVARIANTS TypeOK ServedIsComplete ServedIsUnique

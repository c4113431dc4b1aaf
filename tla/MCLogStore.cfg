\* senbit-init, which keeps two generations, and two "log rotate" processes that may
\* overlap and keep fewer, as by their default, as many, or more.
SPECIFICATION Spec
CONSTANTS
  Generations = 2
  MaxSize = 2
  Keeps = {1, 2, 3}
  MaxSlot = 3
  Rotators = {r1, r2}
  MaxLines = 6
SYMMETRY RotatorSymmetry
INVARIANTS TypeOK Ordered Bounded
PROPERTIES KeepsTheNewest ImplementsHistory

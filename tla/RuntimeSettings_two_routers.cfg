\* Two requests and an administrator, in a process whose cache is filled.
CONSTANTS
  Keys = {k1}
  RouterKeys = {k1}
  Values = {v1}
  None = None
  Readers = {r1, r2}
  Admins = {a1}
  Warm = TRUE
  MaxRestarts = 0
SPECIFICATION Spec
SYMMETRY Interchangeable
INVARIANT RoutedAsRead

SPECIFICATION Spec
CONSTANTS
  a = a
  b = b
  file = file
  Friends = {a, b}
  Carrier = Carrier
  Receivers = {Carrier, file}
  UI = UI
  PageSize = 2
  MaxMessages = 3
  None = None
SYMMETRY FriendSymmetry
INVARIANTS TypeOK ListIsSound NoHoles

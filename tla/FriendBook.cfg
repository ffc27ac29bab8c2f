SPECIFICATION Spec
CONSTANTS
  Friends = {a, b}
  MaxEvents = 6
  None = None
SYMMETRY FriendSymmetry
INVARIANTS TypeOK FriendsAreCurrent
PROPERTIES NeverForgets

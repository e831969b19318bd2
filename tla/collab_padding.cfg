SPECIFICATION Spec
CONSTANTS
  u1 = u1
  Conns = {c1, c2}
  Users = {ann, bob}
  Updates = {u1, u2}
  Padded <- PaddedFirst
  Rooms = {m1, m2, m3}
  NoRoom = NoRoom
  NoUser = NoUser
  NoUpdate = NoUpdate
  Cap = 2
SYMMETRY Symmetry
INVARIANTS LateJoinerServed
CHECK_DEADLOCK FALSE

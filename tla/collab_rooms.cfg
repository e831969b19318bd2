SPECIFICATION Spec
CONSTANTS
  u1 = u1
  Conns = {c1, c2, c3}
  Users = {ann}
  Updates = {u1}
  Padded <- PaddedFirst
  Rooms = {m1, m2, m3, m4}
  NoRoom = NoRoom
  NoUser = NoUser
  NoUpdate = NoUpdate
  Cap = 1
SYMMETRY Symmetry
INVARIANTS TypeOK OneRoom ClosedApart NoPanic RelayComplete RoomFreed GhostFree
CHECK_DEADLOCK FALSE

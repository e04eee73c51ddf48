\* radmind -m 2, where fork() fails twice
SPECIFICATION Spec
CONSTANTS
  Client = {c1, c2, c3}
  MaxConnections = 2
  MaxForkFails = 2
  MaxReloads = 0
INVARIANT RoomWhenIdle
CHECK_DEADLOCK FALSE

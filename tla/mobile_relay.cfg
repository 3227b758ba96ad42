SPECIFICATION Spec
CONSTANTS
    Conns = {c1, c2, c3}
    Rooms = {r1, r2}
    Nonces = {n1, n2}
    NoRoom = NoRoom
    NoConn = NoConn
    Lifetime = 2
    Capacity = 1
    MaxRooms = 1
    MaxNonces = 2
    MaxTime = 2
INVARIANT TypeOK
INVARIANT NewestHasTheRole
INVARIANT RolesAreHeldByPeers
INVARIANT ConnectionsAreCounted
INVARIANT EmptyRoomsHaveExpired
PROPERTY NoReplay
SYMMETRY Symmetry
CONSTRAINT OneForgery
CHECK_DEADLOCK FALSE

---------------------------- MODULE MobileRelayProofs ----------------------------
(***************************************************************************)
(* Theorems about MobileRelay for every number of connections, rooms and   *)
(* nonces, and for every lifetime, capacity and limit.                     *)
(*                                                                         *)
(* The argument.  The properties of the rooms hold together: a role says   *)
(* who may give it up only because its holder is there (RolesAreHeldByPeers), *)
(* and a newcomer is not displaced only because displaced connections are  *)
(* registered ones.  A nonce is not accepted again because every accepted  *)
(* one is remembered until its token expires (AcceptedAreUsed).            *)
(***************************************************************************)
EXTENDS MobileRelay, FiniteSetTheorems, TLAPS

DisplacedAreThere == \A c \in displaced : Registered(c)

AcceptedAreUsed == \A u \in accepted : u.expires > now => u \in used

IInv ==
    /\ TypeOK
    /\ NewestHasTheRole /\ RolesAreHeldByPeers /\ DisplacedAreThere
    /\ ConnectionsAreCounted
    /\ EmptyRoomsHaveExpired
    /\ AcceptedAreUsed

-----------------------------------------------------------------------------
(* What the helpers return. *)

LEMMA FreeType == Free \in Conn /\ Free.queue = << >> /\ Free.stage = "free" /\ Free.to = NoConn
<1>1. << >> \in Seq({"registered", "message", "close"})
  OBVIOUS
<1> QED BY <1>1 DEF Free, Conn, Stages

LEMMA RoleNames ==
    ASSUME NEW role \in Roles
    PROVE  Other(role) \in Roles
<1>1. \E r \in Roles : r # role
  BY DEF Roles
<1> QED BY <1>1 DEF Other

\* try_send changes nothing of a connection but its channel.
LEMMA SentStep ==
    ASSUME NEW peers \in [Conns -> Conn], NEW c, NEW message \in {"registered", "message", "close"},
           \A d \in Conns : Len(peers[d].queue) <= Capacity
    PROVE  LET after == Sent(peers, c, message) IN
           /\ after \in [Conns -> Conn]
           /\ \A d \in Conns :
                 /\ after[d].stage = peers[d].stage /\ after[d].reg = peers[d].reg
                 /\ after[d].to = peers[d].to /\ after[d].writing = peers[d].writing
                 /\ Len(after[d].queue) <= Capacity
<1> DEFINE after == Sent(peers, c, message)
<1>1. CASE ~(c \in Conns /\ peers[c].writing /\ Len(peers[c].queue) < Capacity)
  BY <1>1 DEF Sent
<1>2. CASE c \in Conns /\ peers[c].writing /\ Len(peers[c].queue) < Capacity
  <2> DEFINE queue == Append(peers[c].queue, message)
             new   == [peers[c] EXCEPT !.queue = queue]
  <2>1. /\ peers[c] \in Conn /\ peers[c].queue \in Seq({"registered", "message", "close"})
        /\ Len(peers[c].queue) \in Nat
    BY <1>2 DEF Conn
  <2>2. queue \in Seq({"registered", "message", "close"})
    BY <2>1
  <2>3. Len(queue) <= Capacity
    BY <1>2, <2>1, RelayAssumption
  <2>4. after = [peers EXCEPT ![c] = new]
    BY <1>2 DEF Sent
  <2> HIDE DEF queue, after
  <2>5. /\ new \in Conn /\ new.stage = peers[c].stage /\ new.reg = peers[c].reg
        /\ new.to = peers[c].to /\ new.writing = peers[c].writing /\ new.queue = queue
    BY <2>1, <2>2 DEF Conn
  <2> HIDE DEF new
  <2> QED BY <2>3, <2>4, <2>5 DEF after
<1> QED BY <1>1, <1>2

LEMMA EnteredType ==
    ASSUME TypeOK, NEW reg \in Registration
    PROVE  Entered(reg) \in Room
<1>1. reg.room \in Rooms /\ reg.expires \in Times
  BY DEF Registration
<1> QED BY <1>1 DEF TypeOK, Entered, Room

\* The registered connections are finitely many.
LEMMA CountType ==
    /\ IsFiniteSet({c \in Conns : Registered(c)})
    /\ Cardinality({c \in Conns : Registered(c)}) \in Nat
<1>1. IsFiniteSet({c \in Conns : Registered(c)})
  BY RelayAssumption, FS_Subset
<1> QED BY <1>1, FS_CardinalityType
-----------------------------------------------------------------------------
(* The steps. *)

\* Connections that change nothing but their channels and stages keep it all.
LEMMA SameStanding ==
    ASSUME IInv, TypeOK', UNCHANGED <<now, rooms, used, active, displaced, accepted>>,
           \A d \in Conns : Registered(d)' = Registered(d),
           \A d \in Conns : Registered(d) => conn'[d].reg = conn[d].reg
    PROVE  IInv'
<1>1. {c \in Conns : Registered(c)}' = {c \in Conns : Registered(c)}
  OBVIOUS
<1>2. ConnectionsAreCounted'
  BY <1>1 DEF IInv, ConnectionsAreCounted
<1>3. DisplacedAreThere' /\ EmptyRoomsHaveExpired' /\ AcceptedAreUsed'
  <2>1. displaced \subseteq Conns /\ DisplacedAreThere
    BY DEF IInv, TypeOK
  <2>2. DisplacedAreThere'
    BY <2>1 DEF DisplacedAreThere
  <2>3. EmptyRoomsHaveExpired'
    BY DEF IInv, EmptyRoomsHaveExpired, Empty
  <2>4. AcceptedAreUsed'
    BY DEF IInv, AcceptedAreUsed
  <2> QED BY <2>2, <2>3, <2>4
<1>4. NewestHasTheRole'
  BY DEF IInv, NewestHasTheRole
<1>5. RolesAreHeldByPeers'
  BY DEF IInv, RolesAreHeldByPeers
<1> QED BY <1>2, <1>3, <1>4, <1>5 DEF IInv

LEMMA ConnectStep ==
    ASSUME IInv, NEW c \in Conns, Connect(c) PROVE IInv'
<1>1. PICK reg \in Registration :
         conn' = [conn EXCEPT ![c] = [Free EXCEPT !.stage = "parsed", !.reg = reg]]
  BY DEF Connect
<1> DEFINE new == [Free EXCEPT !.stage = "parsed", !.reg = reg]
<1>2. new \in Conn /\ new.stage = "parsed" /\ new.reg = reg /\ new.queue = << >>
  BY FreeType DEF Conn, Stages
<1> HIDE DEF new
<1>3. /\ conn' \in [Conns -> Conn] /\ conn'[c] = new
      /\ \A d \in Conns \ {c} : conn'[d] = conn[d]
  BY <1>1, <1>2 DEF IInv, TypeOK, new
<1>4. TypeOK'
  <2>1. Len(new.queue) <= Capacity
    BY <1>2, RelayAssumption
  <2> QED BY <1>2, <1>3, <2>1 DEF Connect, IInv, TypeOK
<1>5. \A d \in Conns : Registered(d)' = Registered(d)
  BY <1>2, <1>3 DEF Registered, Connect
<1>6. \A d \in Conns : Registered(d) => conn'[d].reg = conn[d].reg
  BY <1>3 DEF Registered, Connect
<1> QED BY <1>4, <1>5, <1>6, SameStanding DEF Connect

LEMMA ReceiveStep ==
    ASSUME IInv, NEW c \in Conns, Receive(c) PROVE IInv'
<1> DEFINE reg == conn[c].reg
           to  == IF rooms[reg.room] = NoRoom THEN NoConn ELSE rooms[reg.room][Other(reg.role)]
           new == [conn[c] EXCEPT !.stage = "sending", !.to = to]
<1>1. conn[c] \in Conn /\ reg \in Registration /\ conn[c].stage = "open"
  BY DEF IInv, TypeOK, Receive
<1>2. to \in Conns \cup {NoConn}
  <2>1. reg.room \in Rooms /\ Other(reg.role) \in Roles
    BY <1>1, RoleNames DEF Registration
  <2>2. rooms[reg.room] # NoRoom => rooms[reg.room] \in Room
    BY <2>1 DEF IInv, TypeOK
  <2> QED BY <2>1, <2>2 DEF Room, Roles
<1>3. conn' = [conn EXCEPT ![c] = new]
  BY DEF Receive
<1> HIDE DEF to
<1>4. /\ new \in Conn /\ new.stage = "sending" /\ new.reg = conn[c].reg
      /\ new.queue = conn[c].queue
  <2> HIDE DEF reg
  <2> QED BY <1>1, <1>2 DEF Conn, Stages
<1> HIDE DEF new
<1>5. /\ conn' \in [Conns -> Conn] /\ conn'[c] = new
      /\ \A d \in Conns \ {c} : conn'[d] = conn[d]
  BY <1>3, <1>4 DEF IInv, TypeOK
<1>6. TypeOK'
  BY <1>1, <1>4, <1>5 DEF Receive, IInv, TypeOK
<1>7. \A d \in Conns : Registered(d)' = Registered(d) /\ conn'[d].reg = conn[d].reg
  BY <1>1, <1>4, <1>5 DEF Registered
<1> QED BY <1>6, <1>7, SameStanding DEF Receive

LEMMA SendStep ==
    ASSUME IInv, NEW c \in Conns, Send(c) PROVE IInv'
<1> DEFINE after == Sent(conn, conn[c].to, "message")
           new   == [after[c] EXCEPT !.stage = "open", !.to = NoConn]
<1>1. /\ after \in [Conns -> Conn]
      /\ \A d \in Conns :
            /\ after[d].stage = conn[d].stage /\ after[d].reg = conn[d].reg
            /\ Len(after[d].queue) <= Capacity
  BY SentStep DEF IInv, TypeOK
<1>2. conn' = [after EXCEPT ![c] = new] /\ conn[c].stage = "sending"
  BY <1>1 DEF Send
<1> HIDE DEF after
<1>3. new \in Conn /\ new.stage = "open" /\ new.reg = conn[c].reg /\ new.queue = after[c].queue
  BY <1>1 DEF Conn, Stages
<1> HIDE DEF new
<1>4. /\ conn' \in [Conns -> Conn] /\ conn'[c] = new
      /\ \A d \in Conns \ {c} : conn'[d] = after[d]
  BY <1>1, <1>2, <1>3
<1>5. \A d \in Conns : Len(conn'[d].queue) <= Capacity /\ conn'[d].reg = conn[d].reg
  BY <1>1, <1>3, <1>4
<1>6. \A d \in Conns : conn'[d].stage = "free" <=> conn[d].stage = "free"
  BY <1>1, <1>2, <1>3, <1>4
<1>7. UNCHANGED <<now, rooms, used, active, displaced, accepted>>
  BY DEF Send
<1>8. TypeOK'
  BY <1>4, <1>5, <1>6, <1>7 DEF IInv, TypeOK
<1>9. \A d \in Conns : Registered(d)' = Registered(d)
  BY <1>1, <1>2, <1>3, <1>4 DEF Registered
<1> QED BY <1>5, <1>7, <1>8, <1>9, SameStanding

LEMMA LeaveStep ==
    ASSUME IInv, NEW c \in Conns, Leave(c) PROVE IInv'
<1> DEFINE new == [conn[c] EXCEPT !.stage = "leaving"]
<1>1. conn[c] \in Conn /\ conn[c].stage = "open" /\ conn' = [conn EXCEPT ![c] = new]
  BY DEF IInv, TypeOK, Leave
<1>2. /\ new \in Conn /\ new.stage = "leaving" /\ new.reg = conn[c].reg
      /\ new.queue = conn[c].queue
  BY <1>1 DEF Conn, Stages
<1> HIDE DEF new
<1>3. /\ conn' \in [Conns -> Conn] /\ conn'[c] = new
      /\ \A d \in Conns \ {c} : conn'[d] = conn[d]
  BY <1>1, <1>2 DEF IInv, TypeOK
<1>4. TypeOK'
  BY <1>1, <1>2, <1>3 DEF Leave, IInv, TypeOK
<1>5. \A d \in Conns : Registered(d)' = Registered(d) /\ conn'[d].reg = conn[d].reg
  BY <1>1, <1>2, <1>3 DEF Registered
<1> QED BY <1>4, <1>5, SameStanding DEF Leave

LEMMA WriteStep ==
    ASSUME IInv, NEW c \in Conns, Write(c) PROVE IInv'
<1> DEFINE tail   == [conn[c] EXCEPT !.queue = Tail(conn[c].queue)]
           failed == [conn[c] EXCEPT !.queue = << >>, !.writing = FALSE]
<1>1. /\ conn[c] \in Conn /\ conn[c].queue \in Seq({"registered", "message", "close"})
      /\ conn[c].queue # << >> /\ Len(conn[c].queue) <= Capacity
  BY DEF IInv, TypeOK, Write, Conn
<1>2. PICK new \in {tail, failed} : conn' = [conn EXCEPT ![c] = new]
  BY DEF Write
<1>3. /\ Tail(conn[c].queue) \in Seq({"registered", "message", "close"})
      /\ Len(Tail(conn[c].queue)) <= Capacity
  BY <1>1, RelayAssumption
<1>4. << >> \in Seq({"registered", "message", "close"}) /\ Len(<< >>) <= Capacity
  BY RelayAssumption
<1>5. /\ new \in Conn /\ new.stage = conn[c].stage /\ new.reg = conn[c].reg
      /\ Len(new.queue) <= Capacity
  BY <1>1, <1>3, <1>4 DEF Conn
<1>6. /\ conn' \in [Conns -> Conn] /\ conn'[c] = new
      /\ \A d \in Conns \ {c} : conn'[d] = conn[d]
  BY <1>2, <1>5 DEF IInv, TypeOK
<1>7. TypeOK'
  BY <1>5, <1>6 DEF Write, IInv, TypeOK
<1>8. \A d \in Conns : Registered(d)' = Registered(d) /\ conn'[d].reg = conn[d].reg
  BY <1>5, <1>6 DEF Registered
<1> QED BY <1>7, <1>8, SameStanding DEF Write

LEMMA TickStep ==
    ASSUME IInv, Tick PROVE IInv'
<1>1. now \in Nat /\ now' = now + 1 /\ now' \in Times
  BY RelayAssumption DEF IInv, TypeOK, Tick, Times
<1>2. TypeOK'
  BY <1>1 DEF Tick, IInv, TypeOK
<1>3. NewestHasTheRole' /\ RolesAreHeldByPeers' /\ DisplacedAreThere'
  BY DEF Tick, IInv, NewestHasTheRole, RolesAreHeldByPeers, DisplacedAreThere, Registered
<1>4. ConnectionsAreCounted'
  BY DEF Tick, IInv, ConnectionsAreCounted, Registered
<1>5. EmptyRoomsHaveExpired'
  <2>1. \A r \in Rooms : rooms[r] # NoRoom => rooms[r].expires \in Nat
    BY RelayAssumption DEF IInv, TypeOK, Room, Times
  <2> QED BY <1>1, <2>1 DEF Tick, IInv, EmptyRoomsHaveExpired
<1>6. AcceptedAreUsed'
  <2>1. \A u \in accepted : u.expires \in Nat
    BY RelayAssumption DEF IInv, TypeOK, UsedNonce, Times
  <2> QED BY <1>1, <2>1 DEF Tick, IInv, AcceptedAreUsed
<1> QED BY <1>2, <1>3, <1>4, <1>5, <1>6 DEF IInv

LEMMA RefuseStep ==
    ASSUME IInv, NEW c \in Conns, Refuse(c) PROVE IInv'
<1> DEFINE reg == conn[c].reg
<1>1. /\ conn[c].stage = "parsed" /\ reg \in Registration
      /\ reg.room \in Rooms /\ Entered(reg) \in Room
  BY EnteredType DEF Refuse, IInv, TypeOK, Registration
<1>2. conn' = [conn EXCEPT ![c] = Free]
  BY DEF Refuse
<1>3. /\ conn' \in [Conns -> Conn] /\ conn'[c] = Free
      /\ \A d \in Conns \ {c} : conn'[d] = conn[d]
  BY <1>2, FreeType DEF IInv, TypeOK
<1>4. UNCHANGED <<now, active, displaced, accepted>>
  BY DEF Refuse
<1>5. /\ used' = used \/ used' = Kept
      /\ \/ rooms' = rooms
         \/ /\ rooms' = [rooms EXCEPT ![reg.room] = Entered(reg)]
            /\ TokenMismatch(reg)
  BY DEF Refuse
<1>6. /\ rooms' \in [Rooms -> Room \cup {NoRoom}]
      /\ \A r \in Rooms : \/ rooms'[r] = rooms[r]
                          \/ /\ rooms[r] = NoRoom /\ rooms'[r] # NoRoom
                             /\ rooms'[r].host = NoConn /\ rooms'[r].client = NoConn
                             /\ rooms'[r].expires <= now
  <2>1. CASE rooms' = rooms
    BY <2>1 DEF IInv, TypeOK
  <2>2. CASE rooms' = [rooms EXCEPT ![reg.room] = Entered(reg)] /\ TokenMismatch(reg)
    <3>1. rooms' \in [Rooms -> Room \cup {NoRoom}] /\ rooms'[reg.room] = Entered(reg)
          /\ \A r \in Rooms \ {reg.room} : rooms'[r] = rooms[r]
      BY <1>1, <2>2 DEF IInv, TypeOK
    <3>2. CASE rooms[reg.room] # NoRoom
      BY <3>1, <3>2 DEF Entered
    <3>3. CASE rooms[reg.room] = NoRoom
      <4>1. /\ Entered(reg).expires = reg.expires
            /\ Entered(reg).host = NoConn /\ Entered(reg).client = NoConn
        BY <3>3 DEF Entered
      <4>2. Entered(reg).expires <= now
        BY <2>2, <4>1 DEF TokenMismatch
      <4> QED BY <1>1, <3>1, <3>3, <4>1, <4>2, NoRoomAssumption
    <3> QED BY <3>2, <3>3
  <2> QED BY <1>5, <2>1, <2>2
<1>7. \A u \in used : u.expires > now => u \in used'
  BY <1>5 DEF Kept
<1>8. used' \subseteq used
  BY <1>5 DEF Kept
<1>9. TypeOK'
  <2>1. Len(Free.queue) <= Capacity /\ Free.stage = "free"
    BY FreeType, RelayAssumption
  <2> QED BY <1>3, <1>4, <1>6, <1>8, <2>1 DEF IInv, TypeOK
<1>10. \A d \in Conns : /\ Registered(d)' = Registered(d)
                        /\ Registered(d) => d # c /\ conn'[d] = conn[d]
  BY <1>1, <1>3, FreeType DEF Registered
<1>11. ConnectionsAreCounted'
  <2>1. {d \in Conns : Registered(d)}' = {d \in Conns : Registered(d)}
    BY <1>10
  <2> QED BY <1>4, <2>1 DEF IInv, ConnectionsAreCounted
<1>12. DisplacedAreThere'
  BY <1>4, <1>10 DEF IInv, TypeOK, DisplacedAreThere
<1>13. AcceptedAreUsed'
  BY <1>4, <1>7 DEF IInv, AcceptedAreUsed
<1>14. EmptyRoomsHaveExpired'
  BY <1>4, <1>6 DEF IInv, EmptyRoomsHaveExpired, Empty
<1>15. RolesAreHeldByPeers'
  <2> SUFFICES ASSUME NEW r \in Rooms, NEW role \in Roles, NEW d \in Conns,
                      rooms'[r] # NoRoom, rooms'[r][role] = d
               PROVE  /\ Registered(d)'
                      /\ conn'[d].reg.room = r /\ conn'[d].reg.role = role
                      /\ conn'[d].reg.expires = rooms'[r].expires
    BY DEF RolesAreHeldByPeers
  <2>1. rooms'[r].host = d \/ rooms'[r].client = d
    BY DEF Roles
  <2>2. rooms'[r] = rooms[r]
    BY <1>6, <2>1, RelayAssumption
  <2> QED BY <1>10, <2>2 DEF IInv, RolesAreHeldByPeers
<1>16. NewestHasTheRole'
  <2> SUFFICES ASSUME NEW d \in Conns, Registered(d)
               PROVE  (d \notin displaced) <=>
                         /\ rooms'[conn[d].reg.room] # NoRoom
                         /\ rooms'[conn[d].reg.room][conn[d].reg.role] = d
    BY <1>4, <1>10 DEF NewestHasTheRole
  <2>1. (d \notin displaced) <=> /\ rooms[conn[d].reg.room] # NoRoom
                                 /\ rooms[conn[d].reg.room][conn[d].reg.role] = d
    BY DEF IInv, NewestHasTheRole
  <2>2. conn[d].reg.room \in Rooms /\ conn[d].reg.role \in Roles
    BY DEF IInv, TypeOK, Registered, Registration
  <2> QED BY <1>6, <2>1, <2>2, RelayAssumption DEF Roles
<1> QED BY <1>9, <1>11, <1>12, <1>13, <1>14, <1>15, <1>16 DEF IInv

LEMMA RegisterStep ==
    ASSUME IInv, NEW c \in Conns, Register(c) PROVE IInv'
<1> DEFINE reg      == conn[c].reg
           room     == Entered(reg)
           previous == room[reg.role]
           first    == [conn[c] EXCEPT !.stage = "open", !.queue = <<"registered">>,
                                       !.writing = TRUE]
           opened   == [conn EXCEPT ![c] = first]
           new      == [room EXCEPT ![reg.role] = c]
<1>1. /\ conn[c].stage = "parsed" /\ conn[c] \in Conn /\ reg \in Registration
      /\ reg.room \in Rooms /\ reg.role \in Roles /\ reg.expires \in Times
      /\ room \in Room
  BY EnteredType DEF Register, IInv, TypeOK, Registration
<1>2. /\ first \in Conn /\ first.stage = "open" /\ first.reg = reg
      /\ Len(first.queue) <= Capacity
  <2>1. <<"registered">> \in Seq({"registered", "message", "close"}) /\ Len(<<"registered">>) = 1
    OBVIOUS
  <2>2. first \in Conn /\ first.stage = "open" /\ first.reg = conn[c].reg
        /\ first.queue = <<"registered">>
    BY <1>1, <2>1 DEF Conn, Stages
  <2> QED BY <2>1, <2>2, RelayAssumption
<1>3. opened = [conn EXCEPT ![c].stage = "open", ![c].queue = <<"registered">>,
                            ![c].writing = TRUE]
  OBVIOUS
<1>4. /\ conn' = Sent(opened, previous, "close")
      /\ used' = Kept \cup {Nonce(reg)} /\ accepted' = accepted \cup {Nonce(reg)}
      /\ rooms' = [rooms EXCEPT ![reg.room] = new]
      /\ active' = active + 1 /\ now' = now
      /\ displaced' = displaced \cup ({previous} \ {NoConn})
      /\ ~TokenMismatch(reg)
  BY <1>3 DEF Register
<1> HIDE DEF first
<1>5. /\ opened \in [Conns -> Conn] /\ opened[c] = first
      /\ \A d \in Conns \ {c} : opened[d] = conn[d]
      /\ \A d \in Conns : Len(opened[d].queue) <= Capacity
  BY <1>2 DEF IInv, TypeOK
<1> HIDE DEF opened
<1>6. /\ conn' \in [Conns -> Conn]
      /\ \A d \in Conns : /\ conn'[d].stage = opened[d].stage
                          /\ conn'[d].reg = opened[d].reg
                          /\ Len(conn'[d].queue) <= Capacity
  <2>1. conn' = Sent(opened, previous, "close")
    BY <1>4
  <2>2. opened \in [Conns -> Conn] /\ \A d \in Conns : Len(opened[d].queue) <= Capacity
    BY <1>5
  <2> HIDE DEF previous
  <2> QED BY ONLY <2>1, <2>2, SentStep
<1>7. /\ conn'[c].stage = "open" /\ conn'[c].reg = reg /\ ~Registered(c) /\ Registered(c)'
      /\ \A d \in Conns \ {c} : /\ conn'[d].stage = conn[d].stage
                                /\ conn'[d].reg = conn[d].reg
                                /\ Registered(d)' = Registered(d)
  BY <1>1, <1>2, <1>5, <1>6 DEF Registered
<1>8. room.expires = reg.expires /\ reg.expires > now
  BY <1>1, <1>4, RelayAssumption DEF TokenMismatch, Times, IInv, TypeOK, Room
<1>9. \/ rooms[reg.room] = room
      \/ rooms[reg.room] = NoRoom /\ room.host = NoConn /\ room.client = NoConn
  BY DEF Entered
<1>10. previous \in Conns \cup {NoConn}
  BY <1>1 DEF Room, Roles
<1>11. ASSUME previous # NoConn
       PROVE  previous \in Conns /\ Registered(previous) /\ rooms[reg.room] = room
  <2>1. rooms[reg.room] = room
    BY <1>1, <1>9, <1>11 DEF Roles
  <2> QED BY <1>1, <1>10, <1>11, <2>1, NoRoomAssumption DEF IInv, RolesAreHeldByPeers
<1>12. /\ new \in Room /\ new # NoRoom /\ new[reg.role] = c /\ new.expires = reg.expires
       /\ \A role \in Roles \ {reg.role} : new[role] = room[role]
  <2> HIDE DEF room, reg
  <2> QED BY <1>1, <1>8, NoRoomAssumption DEF Room, Roles
<1> HIDE DEF new, previous, room
<1>13. /\ rooms' \in [Rooms -> Room \cup {NoRoom}] /\ rooms'[reg.room] = new
       /\ \A r \in Rooms \ {reg.room} : rooms'[r] = rooms[r]
  BY <1>1, <1>4, <1>12 DEF IInv, TypeOK
<1>14. TypeOK'
  <2>1. Nonce(reg) \in UsedNonce
    BY <1>1 DEF Nonce, UsedNonce, Registration
  <2>2. used' \subseteq UsedNonce /\ accepted' \subseteq UsedNonce
    BY <1>4, <2>1 DEF Kept, IInv, TypeOK
  <2>3. displaced' \subseteq Conns
    BY <1>4, <1>10 DEF IInv, TypeOK
  <2>4. \A d \in Conns : conn'[d].stage # "free" => conn'[d].reg \in Registration
    BY <1>1, <1>7 DEF IInv, TypeOK
  <2> QED BY <1>4, <1>6, <1>13, <2>2, <2>3, <2>4 DEF IInv, TypeOK
<1>15. ConnectionsAreCounted'
  <2> DEFINE before == {d \in Conns : Registered(d)}
  <2>1. {d \in Conns : Registered(d)}' = before \cup {c} /\ c \notin before
    BY <1>7
  <2>2. IsFiniteSet(before) /\ active = Cardinality(before)
    BY CountType DEF IInv, ConnectionsAreCounted
  <2> HIDE DEF before
  <2>3. Cardinality(before \cup {c}) = Cardinality(before) + 1
    BY <2>1, <2>2, FS_AddElement
  <2> QED BY <1>4, <2>1, <2>2, <2>3 DEF ConnectionsAreCounted
<1>16. DisplacedAreThere'
  <2>1. ASSUME NEW d \in displaced' PROVE d \in Conns /\ Registered(d) /\ d # c
    <3>1. CASE d \in displaced
      BY <1>7, <3>1 DEF IInv, TypeOK, DisplacedAreThere
    <3>2. CASE d = previous /\ previous # NoConn
      BY <1>7, <1>11, <3>2
    <3> QED BY <1>4, <2>1, <3>1, <3>2
  <2> QED BY <1>7, <2>1 DEF DisplacedAreThere
<1>17. AcceptedAreUsed'
  <2>1. \A u \in accepted : u.expires > now => u \in Kept
    BY DEF IInv, AcceptedAreUsed, Kept
  <2> QED BY <1>4, <2>1 DEF AcceptedAreUsed
<1>18. EmptyRoomsHaveExpired'
  <2>1. ~(new.host = NoConn /\ new.client = NoConn)
    BY <1>1, <1>12, RelayAssumption DEF Roles
  <2> QED BY <1>4, <1>13, <2>1 DEF IInv, EmptyRoomsHaveExpired, Empty
<1>19. RolesAreHeldByPeers'
  <2> SUFFICES ASSUME NEW r \in Rooms, NEW role \in Roles, NEW d \in Conns,
                      rooms'[r] # NoRoom, rooms'[r][role] = d
               PROVE  /\ Registered(d)'
                      /\ conn'[d].reg.room = r /\ conn'[d].reg.role = role
                      /\ conn'[d].reg.expires = rooms'[r].expires
    BY DEF RolesAreHeldByPeers
  <2>1. CASE r # reg.room
    <3>1. /\ Registered(d) /\ conn[d].reg.room = r /\ conn[d].reg.role = role
          /\ conn[d].reg.expires = rooms[r].expires
      BY <1>13, <2>1 DEF IInv, RolesAreHeldByPeers
    <3> QED BY <1>7, <1>13, <2>1, <3>1
  <2>2. CASE r = reg.room /\ role = reg.role
    BY <1>7, <1>12, <1>13, <2>2
  <2>3. CASE r = reg.room /\ role # reg.role
    <3>1. room[role] = d
      BY <1>12, <1>13, <2>3
    <3>2. rooms[r] = room /\ rooms[r] # NoRoom
      BY <1>1, <1>9, <2>3, <3>1, NoRoomAssumption, RelayAssumption DEF Roles
    <3>3. /\ Registered(d) /\ conn[d].reg.room = r /\ conn[d].reg.role = role
          /\ conn[d].reg.expires = room.expires
      BY <3>1, <3>2 DEF IInv, RolesAreHeldByPeers
    <3> QED BY <1>7, <1>8, <1>12, <1>13, <2>3, <3>3
  <2> QED BY <2>1, <2>2, <2>3
<1>20. NewestHasTheRole'
  <2> SUFFICES ASSUME NEW d \in Conns, Registered(d)'
               PROVE  (d \notin displaced') <=>
                         /\ rooms'[conn'[d].reg.room] # NoRoom
                         /\ rooms'[conn'[d].reg.room][conn'[d].reg.role] = d
    BY DEF NewestHasTheRole
  <2>1. CASE d = c
    <3>1. c \notin displaced /\ c # previous
      BY <1>7, <1>11, RelayAssumption DEF IInv, DisplacedAreThere
    <3> QED BY <1>4, <1>7, <1>12, <1>13, <2>1, <3>1
  <2>2. CASE d # c
    <3> DEFINE r    == conn[d].reg.room
               role == conn[d].reg.role
    <3>1. /\ Registered(d) /\ conn'[d].reg = conn[d].reg
          /\ r \in Rooms /\ role \in Roles
      BY <1>7, <2>2 DEF IInv, TypeOK, Registered, Registration
    <3>2. (d \notin displaced) <=> rooms[r] # NoRoom /\ rooms[r][role] = d
      BY <3>1 DEF IInv, NewestHasTheRole
    <3>3. d \in displaced' <=> d \in displaced \/ d = previous
      BY <1>4, RelayAssumption
    <3>4. d = previous => r = reg.room /\ role = reg.role
      BY <1>1, <1>11, NoRoomAssumption, RelayAssumption
         DEF IInv, RolesAreHeldByPeers, previous
    <3> HIDE DEF r, role
    <3>5. CASE r # reg.room
      BY <1>13, <3>1, <3>2, <3>3, <3>4, <3>5 DEF r, role
    <3>6. CASE r = reg.room /\ role = reg.role
      <4>1. rooms'[r][role] # d
        BY <1>12, <1>13, <2>2, <3>6
      <4>2. d \in displaced \/ d = previous
        BY <1>9, <3>1, <3>2, <3>6, NoRoomAssumption DEF previous
      <4> QED BY <3>1, <3>3, <4>1, <4>2 DEF r, role
    <3>7. CASE r = reg.room /\ role # reg.role
      <4>1. rooms'[r] = new /\ new[role] = room[role] /\ new # NoRoom /\ d # previous
        BY <1>12, <1>13, <3>1, <3>4, <3>7
      <4>2. (rooms[r] # NoRoom /\ rooms[r][role] = d) <=> room[role] = d
        BY <1>1, <1>9, <3>1, <3>7, NoRoomAssumption, RelayAssumption DEF Roles
      <4> QED BY <3>1, <3>2, <3>3, <4>1, <4>2 DEF r, role
    <3> QED BY <3>5, <3>6, <3>7
  <2> QED BY <2>1, <2>2
<1> QED BY <1>14, <1>15, <1>16, <1>17, <1>18, <1>19, <1>20 DEF IInv

LEMMA UnregisterStep ==
    ASSUME IInv, NEW c \in Conns, Unregister(c) PROVE IInv'
<1> DEFINE reg  == conn[c].reg
           room == rooms[reg.room]
           left == Left(room, reg, c)
<1>1. /\ conn[c].stage = "leaving" /\ Registered(c) /\ conn[c] \in Conn
      /\ reg \in Registration /\ reg.room \in Rooms /\ reg.role \in Roles
      /\ room \in Room \cup {NoRoom}
  BY DEF Unregister, Registered, IInv, TypeOK, Registration
<1>2. /\ conn' = [conn EXCEPT ![c] = Free] /\ rooms' = [rooms EXCEPT ![reg.room] = left]
      /\ active' = active - 1 /\ displaced' = displaced \ {c}
      /\ UNCHANGED <<now, used, accepted>>
  BY DEF Unregister, Fewer
<1>3. /\ conn' \in [Conns -> Conn] /\ conn'[c] = Free /\ ~Registered(c)'
      /\ \A d \in Conns \ {c} : conn'[d] = conn[d] /\ Registered(d)' = Registered(d)
  BY <1>2, FreeType DEF IInv, TypeOK, Registered
<1>4. /\ left \in Room \cup {NoRoom}
      /\ left # NoRoom =>
            /\ room # NoRoom /\ left.expires = room.expires /\ ~Empty(left)
            /\ left[reg.role] # c
            /\ \A role \in Roles : left[role] # NoConn => left[role] = room[role]
      /\ room # NoRoom => \A role \in Roles, d \in Conns \ {c} :
            room[role] = d => left # NoRoom /\ left[role] = d
  <2>1. CASE room = NoRoom
    BY <2>1 DEF Left
  <2>2. CASE room # NoRoom
    <3> DEFINE given == Given(room, reg, c)
    <3>1. /\ given \in Room /\ given.expires = room.expires /\ given[reg.role] # c
          /\ \A role \in Roles : \/ given[role] = room[role]
                                 \/ given[role] = NoConn /\ room[role] = c
      <4>1. room \in Room
        BY <1>1, <2>2
      <4>2. CASE room[reg.role] # c
        BY <4>1, <4>2 DEF Given
      <4>3. CASE room[reg.role] = c
        <5>1. given = [room EXCEPT ![reg.role] = NoConn]
          BY <4>3 DEF Given
        <5> HIDE DEF room, given, reg
        <5> QED BY <1>1, <4>1, <4>3, <5>1, RelayAssumption DEF Room, Roles
      <4> QED BY <4>2, <4>3
    <3>2. left = IF Empty(given) THEN NoRoom ELSE given
      BY <2>2 DEF Left
    <3> HIDE DEF given, left, room, reg
    <3>3. ASSUME NEW role \in Roles, NEW d \in Conns \ {c}, room[role] = d
          PROVE  given[role] = d /\ ~Empty(given)
      <4>1. given[role] = d
        BY <3>1, <3>3
      <4> QED BY <4>1, RelayAssumption DEF Roles, Empty
    <3>4. given # NoRoom
      BY <3>1, NoRoomAssumption
    <3> QED BY <2>2, <3>1, <3>2, <3>3, <3>4
  <2> QED BY <2>1, <2>2
<1>5. /\ rooms' \in [Rooms -> Room \cup {NoRoom}] /\ rooms'[reg.room] = left
      /\ \A r \in Rooms \ {reg.room} : rooms'[r] = rooms[r]
  BY <1>1, <1>2, <1>4 DEF IInv, TypeOK
<1> HIDE DEF left
<1>6. active' \in Nat /\ ConnectionsAreCounted'
  <2> DEFINE before == {d \in Conns : Registered(d)}
  <2>1. {d \in Conns : Registered(d)}' = before \ {c} /\ c \in before
    BY <1>1, <1>3
  <2>2. IsFiniteSet(before) /\ active = Cardinality(before)
    BY CountType DEF IInv, ConnectionsAreCounted
  <2> HIDE DEF before
  <2>3. Cardinality(before \ {c}) = Cardinality(before) - 1
        /\ Cardinality(before \ {c}) \in Nat
    BY <2>1, <2>2, FS_RemoveElement, FS_Subset, FS_CardinalityType
  <2> QED BY <1>2, <2>1, <2>2, <2>3 DEF ConnectionsAreCounted
<1>7. TypeOK'
  <2>1. Len(Free.queue) <= Capacity /\ Free.stage = "free"
    BY FreeType, RelayAssumption
  <2> QED BY <1>2, <1>3, <1>5, <1>6, <2>1 DEF IInv, TypeOK
<1>8. DisplacedAreThere'
  BY <1>2, <1>3 DEF IInv, TypeOK, DisplacedAreThere
<1>9. AcceptedAreUsed'
  BY <1>2 DEF IInv, AcceptedAreUsed
<1>10. EmptyRoomsHaveExpired'
  BY <1>2, <1>4, <1>5 DEF IInv, EmptyRoomsHaveExpired, Empty
<1>11. RolesAreHeldByPeers'
  <2> SUFFICES ASSUME NEW r \in Rooms, NEW role \in Roles, NEW d \in Conns,
                      rooms'[r] # NoRoom, rooms'[r][role] = d
               PROVE  /\ Registered(d)'
                      /\ conn'[d].reg.room = r /\ conn'[d].reg.role = role
                      /\ conn'[d].reg.expires = rooms'[r].expires
    BY DEF RolesAreHeldByPeers
  <2>1. /\ rooms[r] # NoRoom /\ rooms[r][role] = d
        /\ rooms'[r].expires = rooms[r].expires
    BY <1>4, <1>5, RelayAssumption
  <2>2. /\ Registered(d) /\ conn[d].reg.room = r /\ conn[d].reg.role = role
        /\ conn[d].reg.expires = rooms[r].expires
    BY <2>1 DEF IInv, RolesAreHeldByPeers
  <2>3. d # c
    BY <1>4, <1>5, <2>2
  <2> QED BY <1>3, <2>1, <2>2, <2>3
<1>12. NewestHasTheRole'
  <2> SUFFICES ASSUME NEW d \in Conns, Registered(d)'
               PROVE  (d \notin displaced') <=>
                         /\ rooms'[conn'[d].reg.room] # NoRoom
                         /\ rooms'[conn'[d].reg.room][conn'[d].reg.role] = d
    BY DEF NewestHasTheRole
  <2> DEFINE r    == conn[d].reg.room
             role == conn[d].reg.role
  <2>1. /\ d # c /\ Registered(d) /\ conn'[d] = conn[d] /\ r \in Rooms /\ role \in Roles
        /\ (d \in displaced' <=> d \in displaced)
    BY <1>2, <1>3 DEF IInv, TypeOK, Registered, Registration
  <2>2. (d \notin displaced) <=> rooms[r] # NoRoom /\ rooms[r][role] = d
    BY <2>1 DEF IInv, NewestHasTheRole
  <2> HIDE DEF r, role
  <2>3. CASE r # reg.room
    BY <1>5, <2>1, <2>2, <2>3 DEF r, role
  <2>4. CASE r = reg.room
    <3>1. (rooms'[r] # NoRoom /\ rooms'[r][role] = d) <=> (rooms[r] # NoRoom /\ rooms[r][role] = d)
      BY <1>4, <1>5, <2>1, <2>4, RelayAssumption
    <3> QED BY <2>1, <2>2, <3>1 DEF r, role
  <2> QED BY <2>3, <2>4
<1> QED BY <1>6, <1>7, <1>8, <1>9, <1>10, <1>11, <1>12 DEF IInv

-----------------------------------------------------------------------------
(* The theorems. *)

LEMMA InitIInv == Init => IInv
<1> SUFFICES ASSUME Init PROVE IInv
  OBVIOUS
<1>1. conn \in [Conns -> Conn] /\ \A c \in Conns : conn[c] = Free
  BY FreeType DEF Init
<1>2. Len(Free.queue) <= Capacity /\ Free.stage = "free"
  BY FreeType, RelayAssumption
<1>3. 0 \in Times
  BY RelayAssumption DEF Times
<1>4. TypeOK
  BY <1>1, <1>2, <1>3 DEF Init, TypeOK
<1>5. \A c \in Conns : ~Registered(c)
  BY <1>1, <1>2 DEF Registered
<1>6. ConnectionsAreCounted
  <2>1. {c \in Conns : Registered(c)} = {}
    BY <1>5
  <2> QED BY <2>1, FS_EmptySet DEF Init, ConnectionsAreCounted
<1>7. NewestHasTheRole /\ DisplacedAreThere /\ AcceptedAreUsed
  BY <1>5 DEF Init, NewestHasTheRole, DisplacedAreThere, AcceptedAreUsed
<1>8. RolesAreHeldByPeers /\ EmptyRoomsHaveExpired
  BY DEF Init, RolesAreHeldByPeers, EmptyRoomsHaveExpired
<1> QED BY <1>4, <1>6, <1>7, <1>8 DEF IInv

LEMMA NextIInv == IInv /\ [Next]_vars => IInv'
<1> SUFFICES ASSUME IInv, [Next]_vars PROVE IInv'
  OBVIOUS
<1>1. ASSUME NEW c \in Conns, Connect(c) \/ Refuse(c) \/ Register(c) PROVE IInv'
  BY <1>1, ConnectStep, RefuseStep, RegisterStep
<1>2. ASSUME NEW c \in Conns, Receive(c) \/ Send(c) \/ Write(c) PROVE IInv'
  BY <1>2, ReceiveStep, SendStep, WriteStep
<1>3. ASSUME NEW c \in Conns, Leave(c) \/ Expire(c) \/ Unregister(c) PROVE IInv'
  BY <1>3, LeaveStep, UnregisterStep DEF Expire
<1>4. CASE UNCHANGED vars
  <2>1. TypeOK'
    BY <1>4 DEF vars, IInv, TypeOK
  <2> QED BY <1>4, <2>1, SameStanding DEF vars, Registered
<1> QED BY <1>1, <1>2, <1>3, <1>4, TickStep DEF Next

\* The inductive invariant holds in every reachable state.
THEOREM Invariance == Spec => []IInv
<1> QED BY InitIInv, NextIInv, PTL DEF Spec

\* Type correctness: in particular a channel never holds more than its capacity.
THEOREM TypeCorrect == Spec => []TypeOK
<1>1. IInv => TypeOK
  BY DEF IInv
<1> QED BY <1>1, Invariance, PTL

\* The newest connection of a role keeps it, whatever older ones do when they end.
THEOREM NewestKeepsTheRole == Spec => []NewestHasTheRole
<1>1. IInv => NewestHasTheRole
  BY DEF IInv
<1> QED BY <1>1, Invariance, PTL

\* Whoever has a role is a registered connection of that room, role and token.
THEOREM PeersHoldTheRoles == Spec => []RolesAreHeldByPeers
<1>1. IInv => RolesAreHeldByPeers
  BY DEF IInv
<1> QED BY <1>1, Invariance, PTL

\* The number in /status is the number of registered connections.
THEOREM CountIsRight == Spec => []ConnectionsAreCounted
<1>1. IInv => ConnectionsAreCounted
  BY DEF IInv
<1> QED BY <1>1, Invariance, PTL

\* Only a room whose token has expired can be left behind with nobody in it.
THEOREM EmptyRoomsGo == Spec => []EmptyRoomsHaveExpired
<1>1. IInv => EmptyRoomsHaveExpired
  BY DEF IInv
<1> QED BY <1>1, Invariance, PTL

\* No registration is ever accepted twice, though expired nonces are forgotten.
THEOREM NothingIsReplayed == Spec => NoReplay
<1> DEFINE Step == \A c \in Conns : Register(c) => Nonce(conn[c].reg) \notin accepted
<1>1. ASSUME IInv, NEW c \in Conns, Register(c), Nonce(conn[c].reg) \in accepted
      PROVE  FALSE
  <2> DEFINE reg == conn[c].reg
  <2>1. /\ reg \in Registration /\ reg.room \in Rooms /\ reg.expires \in Times
        /\ Entered(reg) \in Room /\ ~TokenMismatch(reg) /\ ~Replayed(reg)
    BY <1>1, EnteredType DEF Register, IInv, TypeOK, Registration
  <2>2. reg.expires > now
    BY <1>1, <2>1, RelayAssumption DEF TokenMismatch, Times, IInv, TypeOK, Room
  <2>3. Nonce(reg) \in Kept
    BY <1>1, <2>2 DEF IInv, AcceptedAreUsed, Kept, Nonce
  <2> QED BY <2>1, <2>3 DEF Replayed, NoncesOf, Nonce
<1>2. IInv /\ [Next]_vars => [Step]_vars
  BY <1>1
<1>3. Spec => [][Step]_vars
  <2> HIDE DEF Step
  <2> QED BY <1>2, Invariance, PTL DEF Spec
<1> QED BY <1>3 DEF NoReplay
=============================================================================

------------------------------ MODULE MobileRelay ------------------------------
(***************************************************************************)
(* The relay between a host and its phone (codex-plus-mobile-relay,        *)
(* main.rs).  A connection registers with a role, a room, a token of that  *)
(* room and its expiry, and a nonce; then its messages go to the other     *)
(* role of the room until it leaves or its token expires.  The rooms and   *)
(* the used nonces are behind one mutex; a message is put into the channel *)
(* of its receiver after that mutex has been given back, and the receiver  *)
(* may have been displaced or have left by then.                           *)
(*                                                                         *)
(* Counts and sizes of messages are left out, and so is the limit of       *)
(* messages in a second: a connection may leave at any time.               *)
(***************************************************************************)
EXTENDS Integers, Sequences, FiniteSets

CONSTANTS
    Conns,            \* connections, a name is taken again when it is free
    Rooms, Nonces,
    NoRoom, NoConn,
    Lifetime,         \* TOKEN_LIFETIME
    Capacity,         \* of a connection's channel
    MaxRooms,         \* rooms with nonces
    MaxNonces,        \* nonces of a room
    MaxTime           \* bound on the clock, by which every token has expired

ASSUME RelayAssumption ==
    /\ {Lifetime, MaxRooms, MaxNonces, MaxTime} \subseteq Nat
    /\ Capacity \in Nat \ {0}
    /\ IsFiniteSet(Conns) /\ NoConn \notin Conns

VARIABLES
    now,        \* unix_seconds
    rooms,      \* RelayState.rooms
    used,       \* RelayState.used_nonces
    active,     \* RelayState.active_connections
    conn,       \* the task of each connection, with its channel
    displaced,  \* history: registered connections whose role another has taken
    accepted    \* history: the registrations that have succeeded

vars == <<now, rooms, used, active, conn, displaced, accepted>>
-----------------------------------------------------------------------------
Roles == {"host", "client"}
Other(role) == CHOOSE r \in Roles : r # role

Times == 0 .. MaxTime

\* A genuine token is the one issued for the room and the expiry.
Registration == [role : Roles, room : Rooms, expires : Times, nonce : Nonces, genuine : BOOLEAN]
NoRegistration == [role |-> "host", expires |-> 0, genuine |-> FALSE]

Room == [expires : Times, host : Conns \cup {NoConn}, client : Conns \cup {NoConn}]
ASSUME NoRoomAssumption == NoRoom \notin Room

UsedNonce == [room : Rooms, nonce : Nonces, expires : Times]
Stages == {"free", "parsed", "open", "sending", "leaving"}
Registered(c) == conn[c].stage \in {"open", "sending", "leaving"}

\* writing: the writer task lives, so the channel is open.
Conn == [stage   : Stages,
         reg     : Registration \cup {NoRegistration},
         to      : Conns \cup {NoConn},
         queue   : Seq({"registered", "message", "close"}),
         writing : BOOLEAN]
Free == [stage |-> "free", reg |-> NoRegistration, to |-> NoConn, queue |-> << >>, writing |-> FALSE]

Init ==
    /\ now = 0
    /\ rooms = [r \in Rooms |-> NoRoom]
    /\ used = {}
    /\ active = 0
    /\ conn = [c \in Conns |-> Free]
    /\ displaced = {} /\ accepted = {}
-----------------------------------------------------------------------------
\* Mutant: one message more than the channel holds.
SentBeyond(peers, c, message) ==
    IF c \in Conns /\ peers[c].writing /\ Len(peers[c].queue) <= Capacity
    THEN [peers EXCEPT ![c].queue = Append(@, message)]
    ELSE peers

\* try_send to the channel of c: lost when it is full or closed.
Sent(peers, c, message) ==
    IF c \in Conns /\ peers[c].writing /\ Len(peers[c].queue) < Capacity
    THEN [peers EXCEPT ![c].queue = Append(@, message)]
    ELSE peers

\* A new connection whose first message passes parse_registration.
Connect(c) ==
    /\ conn[c].stage = "free"
    /\ \A d \in Conns : conn[d].to # c
    /\ \E reg \in Registration :
          /\ reg.expires > now /\ reg.expires <= now + Lifetime
          /\ conn' = [conn EXCEPT ![c] = [Free EXCEPT !.stage = "parsed", !.reg = reg]]
    /\ UNCHANGED <<now, rooms, used, active, displaced, accepted>>

\* Mutant: a nonce is forgotten a second before its token expires.
KeptShort == {u \in used : u.expires > now + 1}

\* register_peer: what it forgets, what turns a registration away.
Kept == {u \in used : u.expires > now}
NoncesOf(r) == {u \in Kept : u.room = r}
RoomsWithNonces == {u.room : u \in Kept}

Replayed(reg)    == \E u \in NoncesOf(reg.room) : u.nonce = reg.nonce
TooMany(reg)     == \/ Cardinality(RoomsWithNonces) >= MaxRooms /\ reg.room \notin RoomsWithNonces
                    \/ Cardinality(NoncesOf(reg.room)) >= MaxNonces

\* rooms.entry(..).or_insert_with(..)
Entered(reg) ==
    IF rooms[reg.room] = NoRoom
    THEN [expires |-> reg.expires, host |-> NoConn, client |-> NoConn]
    ELSE rooms[reg.room]
\* Mutant: any token that has not expired opens the room of another one.
TokenMismatchByTime(reg) == Entered(reg).expires <= now
TokenMismatch(reg) == Entered(reg).expires <= now \/ Entered(reg).expires # reg.expires

\* Every refusal drops the connection; only the last one has entered the room.
Refuse(c) ==
    LET reg == conn[c].reg IN
    /\ conn[c].stage = "parsed"
    /\ \/ ~reg.genuine /\ UNCHANGED <<rooms, used>>
       \/ /\ reg.genuine
          /\ used' = Kept
          /\ \/ (Replayed(reg) \/ TooMany(reg)) /\ UNCHANGED rooms
             \/ /\ ~Replayed(reg) /\ ~TooMany(reg) /\ TokenMismatch(reg)
                /\ rooms' = [rooms EXCEPT ![reg.room] = Entered(reg)]
    /\ conn' = [conn EXCEPT ![c] = Free]
    /\ UNCHANGED <<now, active, displaced, accepted>>

Nonce(reg) == [room |-> reg.room, nonce |-> reg.nonce, expires |-> reg.expires]

\* The new sender takes the role, the previous one is told to close, and the
\* answer "registered" is the first message of the channel.
Register(c) ==
    LET reg      == conn[c].reg
        previous == Entered(reg)[reg.role]
        opened   == [conn EXCEPT ![c].stage = "open", ![c].queue = <<"registered">>,
                                 ![c].writing = TRUE]
    IN
    /\ conn[c].stage = "parsed"
    /\ reg.genuine /\ ~Replayed(reg) /\ ~TooMany(reg) /\ ~TokenMismatch(reg)
    /\ used' = Kept \cup {Nonce(reg)}
    /\ rooms' = [rooms EXCEPT ![reg.room] = [Entered(reg) EXCEPT ![reg.role] = c]]
    /\ conn' = Sent(opened, previous, "close")
    /\ active' = active + 1
    /\ displaced' = displaced \cup ({previous} \ {NoConn})
    /\ accepted' = accepted \cup {Nonce(reg)}
    /\ UNCHANGED now

\* The reading loop: a message of the peer, and the first part of
\* forward_message, which looks the receiver up.
Receive(c) ==
    LET reg == conn[c].reg
        to  == IF rooms[reg.room] = NoRoom THEN NoConn ELSE rooms[reg.room][Other(reg.role)]
    IN
    /\ conn[c].stage = "open"
    /\ now < reg.expires
    /\ to # NoConn
    /\ conn' = [conn EXCEPT ![c].stage = "sending", ![c].to = to]
    /\ UNCHANGED <<now, rooms, used, active, displaced, accepted>>

\* Its second part, without the mutex.
Send(c) ==
    /\ conn[c].stage = "sending"
    /\ conn' = [Sent(conn, conn[c].to, "message") EXCEPT ![c].stage = "open", ![c].to = NoConn]
    /\ UNCHANGED <<now, rooms, used, active, displaced, accepted>>

\* The peer closes, fails or sends too much.
Leave(c) ==
    /\ conn[c].stage = "open"
    /\ conn' = [conn EXCEPT ![c].stage = "leaving"]
    /\ UNCHANGED <<now, rooms, used, active, displaced, accepted>>

\* The token of the connection expires while it waits for a message, or is
\* found expired when one comes.
Expire(c) ==
    /\ now >= conn[c].reg.expires
    /\ Leave(c)

\* Mutants: the role is given up without same_channel; the room stays when it was
\* not empty before; a connection whose room has gone is not counted down.
GivenAlways(room, reg, c) == [room EXCEPT ![reg.role] = NoConn]
FewerWithRoom(room) == IF room = NoRoom THEN active ELSE active - 1

\* unregister_peer: its connection gives up the role if it still has it, and
\* the last one closes the room.
Given(room, reg, c) == IF room[reg.role] = c THEN [room EXCEPT ![reg.role] = NoConn] ELSE room
Empty(room) == room.host = NoConn /\ room.client = NoConn

LeftBefore(room, reg, c) ==
    IF room = NoRoom \/ Empty(room) THEN NoRoom ELSE Given(room, reg, c)

Left(room, reg, c) ==
    IF room = NoRoom \/ Empty(Given(room, reg, c)) THEN NoRoom ELSE Given(room, reg, c)

Fewer(room) == active - 1

\* After it the writer is aborted, with what is left in the channel.
Unregister(c) ==
    LET reg == conn[c].reg IN
    /\ conn[c].stage = "leaving"
    /\ active' = Fewer(rooms[reg.room])
    /\ rooms' = [rooms EXCEPT ![reg.room] = Left(@, reg, c)]
    /\ conn' = [conn EXCEPT ![c] = Free]
    /\ displaced' = displaced \ {c}
    /\ UNCHANGED <<now, used, accepted>>

\* The writer sends one message to the peer, or fails and ends.
Write(c) ==
    /\ conn[c].queue # << >>
    /\ \/ conn' = [conn EXCEPT ![c].queue = Tail(@)]
       \/ conn' = [conn EXCEPT ![c].queue = << >>, ![c].writing = FALSE]
    /\ UNCHANGED <<now, rooms, used, active, displaced, accepted>>

Tick ==
    /\ now < MaxTime
    /\ now' = now + 1
    /\ UNCHANGED <<rooms, used, active, conn, displaced, accepted>>

Next ==
    \/ Tick
    \/ \E c \in Conns :
          \/ Connect(c) \/ Refuse(c) \/ Register(c)
          \/ Receive(c) \/ Send(c) \/ Write(c)
          \/ Leave(c) \/ Expire(c) \/ Unregister(c)

Spec == Init /\ [][Next]_vars
-----------------------------------------------------------------------------
(* Properties. *)

\* The type invariant: no channel of a connection ever holds more than its
\* capacity.
TypeOK ==
    /\ now \in Times
    /\ rooms \in [Rooms -> Room \cup {NoRoom}]
    /\ used \subseteq UsedNonce
    /\ active \in Nat
    /\ conn \in [Conns -> Conn]
    /\ \A c \in Conns :
          /\ Len(conn[c].queue) <= Capacity
          /\ conn[c].stage # "free" => conn[c].reg \in Registration
    /\ displaced \subseteq Conns
    /\ accepted \subseteq UsedNonce

\* A registered connection has its role in its room exactly as long as no
\* later one has taken it: the end of an older connection takes nothing away
\* from a newer one, and its room stays there (unregister_peer, same_channel).
NewestHasTheRole ==
    \A c \in Conns : Registered(c) =>
        LET reg == conn[c].reg IN
        (c \notin displaced) <=>
            /\ rooms[reg.room] # NoRoom
            /\ rooms[reg.room][reg.role] = c

\* Nobody but a registered connection of this room, this role and this token
\* has a role: no message goes to a peer that has left for good or to another
\* room.
RolesAreHeldByPeers ==
    \A r \in Rooms, role \in Roles, c \in Conns :
        rooms[r] # NoRoom /\ rooms[r][role] = c =>
            /\ Registered(c)
            /\ conn[c].reg.room = r /\ conn[c].reg.role = role
            /\ conn[c].reg.expires = rooms[r].expires

\* /status counts the connections that are there, displaced ones included,
\* whatever has become of their rooms.
ConnectionsAreCounted == active = Cardinality({c \in Conns : Registered(c)})

\* A room that nobody is in has gone, unless a registration has entered it in
\* the last moment of its token.
EmptyRoomsHaveExpired ==
    \A r \in Rooms : rooms[r] # NoRoom /\ Empty(rooms[r]) => rooms[r].expires <= now

\* A nonce is accepted once for a token, although nonces are forgotten when
\* they expire (register_peer).
NoReplay ==
    [][\A c \in Conns : Register(c) => Nonce(conn[c].reg) \notin accepted]_vars
=============================================================================

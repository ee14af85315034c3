----------------------------- MODULE Connection -----------------------------
(***************************************************************************)
(* PicklebackClient and PicklebackServer: the handshake, keep-alives,      *)
(* timeouts and disconnecting.                                             *)
(*                                                                         *)
(*   client                          server                                *)
(*     ConnectionRequest(c)    -->     pending client, new server salt     *)
(*     <--    ConnectionChallenge(c, s)                                    *)
(*     ConnectionChallengeResponse(c xor s)  -->     connected client      *)
(*     <--    KeepAlive(c xor s)                                           *)
(*                                                                         *)
(* Salts are fresh numbers, and c xor s is the pair: the model takes 64    *)
(* random bits to be unique. Of each side's Pickleback only what the       *)
(* handlers depend on is kept: the packet counter and the packets already  *)
(* processed, i.e. PacketService, without its stale packets: the at most   *)
(* MaxPackets numbers of a session stay far below the 512 slots of         *)
(* received_buffer and the 350 packets at which a header is refused.       *)
(* Disconnect packets are queued and dropped again with their Pickleback   *)
(* (see DisconnectSent): none arrives, so no handler for one is written.   *)
(*                                                                         *)
(* The network is one of two. A Duplicating network keeps every packet for *)
(* ever, so it may lose, duplicate, delay and reorder. The other delivers  *)
(* a packet once or loses it: nothing is seen twice, so packet numbers are *)
(* left out, salts that nobody holds any more are used again, and a        *)
(* session may go on for ever.                                             *)
(*                                                                         *)
(* A tick of either clock is longer than the resend and keep-alive         *)
(* intervals and shorter than the timeout.                                 *)
(***************************************************************************)
EXTENDS Integers, Sequences, FiniteSets

CONSTANTS Clients,      \* clients, each with an address of its own
          OldClients,   \* addresses of clients of another PROTOCOL_VERSION, of which
                        \* this code only sees the requests
          Duplicating,  \* which network
          Timeout,      \* CONNECTION_TIMEOUT, in ticks
          ConnectFrom,  \* the client states in which the application calls connect
          DisconnectFrom, \* and those in which it calls disconnect
          MaxConnects,  \* bound: connect calls of a client
          MaxPackets,   \* bound: packets made by one Pickleback instance
          MaxSalts,     \* bound: pending clients the server ever makes
          MaxInFlight   \* bound: packets in flight when a visit adds more, unless
                        \* Duplicating

ASSUME ConnectionAssumption ==
  /\ OldClients \cap Clients = {} /\ "server" \notin Clients \cup OldClients
  /\ Duplicating \in BOOLEAN
  /\ {Timeout, MaxConnects, MaxPackets} \subseteq Nat \ {0}
  /\ MaxSalts \in Nat /\ MaxInFlight \in Nat

Server == "server"

VARIABLES
  state,         \* ClientState of each client
  reason,        \* the DisconnectReason of a client that is Disconnected
  client_salt,   \* this attempt's salt: the number of the connect call, or 0
  xor_salt,      \* <<client salt, server salt>>, or NoSalt
  proto_due,     \* proto_last_send is older than HANDSHAKE_RESEND_INTERVAL
  send_due,      \* last_send_time is older than KEEPALIVE_INTERVAL
  clock,         \* ticks since the client was made, up to Expired
  receive_age,   \* ticks since last_receive_time, up to Expired
  endpoint,      \* the client's Pickleback
  connects,      \* connect calls so far
  pending,       \* the server's pending_clients
  connected,     \* the server's connected_clients
  outbox,        \* the server's own outbox, for denials
  salts,         \* server salts handed out so far, if Duplicating
  panicked,      \* the server's update indexed out of bounds
  net,           \* packets that may still arrive
  opened         \* history: sessions with a ClientConnected event, if Duplicating

client_vars == <<state, reason, client_salt, xor_salt, proto_due, send_due, clock,
                 receive_age, endpoint, connects>>
server_vars == <<pending, connected, outbox, salts, panicked, opened>>
vars == <<client_vars, server_vars, net>>

Expired == Timeout + 1

older(age) == IF age < Expired THEN age + 1 ELSE age

NoSalt == <<0, 0>>

\* What is kept of numbers, salts and sessions that were used.
remember(set, x) == IF Duplicating THEN set \cup {x} ELSE set

\* Pickleback, seen from here.
NewEndpoint == [sequence |-> 0, seen |-> {}, outbox |-> {}]
can_send(pb) == pb.sequence < MaxPackets
is_new(pb, p) == p.id \notin pb.seen
processed(pb, p) == [pb EXCEPT !.seen = remember(@, p.id)]
next_id(pb) == IF Duplicating THEN pb.sequence + 1 ELSE pb.sequence

\* addr is the client's address in both directions.
packet(to, addr, type, id, salt) ==
  [to |-> to, addr |-> addr, type |-> type, id |-> id, salt |-> salt]

\* send_packet: the next id, and into the outbox.
send_packet(pb, to, addr, type, salt) ==
  [pb EXCEPT !.sequence = next_id(pb),
             !.outbox = @ \cup {packet(to, addr, type, next_id(pb), salt)}]

drained(pb) == [pb EXCEPT !.outbox = {}]

\* The network takes more packets.
room == Duplicating \/ Cardinality(net) < MaxInFlight

\* The network after p arrived.
delivered(p) == IF Duplicating THEN net ELSE net \ {p}

\* The two reasons a ConnectionDenied packet carries; its type here.
Denials == {"ProtocolMismatch", "HandshakeTimeout"}

-----------------------------------------------------------------------------
(* Client *)

\* Setting proto_last_send to 0 makes a resend due, except at time 0.
state_transition(c, new, xor, pb) ==
  /\ state' = [state EXCEPT ![c] = new]
  /\ proto_due' = [proto_due EXCEPT ![c] = clock[c] > 0]
  /\ xor_salt' = [xor_salt EXCEPT ![c] = xor]
  /\ endpoint' = [endpoint EXCEPT ![c] = pb]
  /\ UNCHANGED <<client_salt, send_due, reason>>

\* Fault: the received buffer of the old Pickleback is kept.
reset_counter(pb) == [NewEndpoint EXCEPT !.seen = pb.seen]

\* The Pickleback of a client that is reset.
reset(pb) == NewEndpoint

\* A transition to Disconnected resets everything, last_receive_time included,
\* but not the clock: the age becomes the clock's. now is the clock's new value.
disconnected(c, why, now, pb) ==
  /\ state' = [state EXCEPT ![c] = "Disconnected"]
  /\ reason' = [reason EXCEPT ![c] = why]
  /\ client_salt' = [client_salt EXCEPT ![c] = 0]
  /\ xor_salt' = [xor_salt EXCEPT ![c] = NoSalt]
  /\ proto_due' = [proto_due EXCEPT ![c] = now > 0]
  /\ send_due' = [send_due EXCEPT ![c] = now > 0]
  /\ endpoint' = [endpoint EXCEPT ![c] = reset(pb)]
  /\ receive_age' = [receive_age EXCEPT ![c] = now]

connect(c) ==
  /\ connects[c] < MaxConnects /\ state[c] \in ConnectFrom
  /\ connects' = [connects EXCEPT ![c] = @ + 1]
  /\ client_salt' = [client_salt EXCEPT ![c] = connects[c] + 1]
  /\ xor_salt' = [xor_salt EXCEPT ![c] = NoSalt]
  /\ state' = [state EXCEPT ![c] = "SendingConnectionRequest"]
  /\ proto_due' = [proto_due EXCEPT ![c] = clock[c] > 0]
  /\ reason' = [reason EXCEPT ![c] = "Normal"]
  /\ UNCHANGED <<send_due, clock, receive_age, endpoint, server_vars, net>>

disconnect(c) ==
  /\ state[c] \in DisconnectFrom
  /\ IF state[c] \in {"Connected", "SendingChallengeResponse"}
     THEN /\ state_transition(c, "SelfInitiatedDisconnect", xor_salt[c], endpoint[c])
          /\ UNCHANGED receive_age
     ELSE disconnected(c, "Normal", clock[c], endpoint[c])
  /\ UNCHANGED <<clock, connects, server_vars, net>>

\* Fault: only an attempt to connect times out.
may_time_out_connecting(c) == state[c] \notin {"Disconnected", "Connected"}

may_time_out(c) == state[c] # "Disconnected"

\* A tick.
client_update(c) ==
  /\ clock' = [clock EXCEPT ![c] = older(@)]
  /\ IF may_time_out(c) /\ older(receive_age[c]) > Timeout
     THEN disconnected(c, "TimedOut", older(clock[c]), endpoint[c])
     ELSE /\ proto_due' = [proto_due EXCEPT ![c] = TRUE]
          /\ send_due' = [send_due EXCEPT ![c] = TRUE]
          /\ receive_age' = [receive_age EXCEPT ![c] = older(@)]
          /\ UNCHANGED <<state, reason, client_salt, xor_salt, endpoint>>
  /\ UNCHANGED <<connects, server_vars, net>>

\* send, and the visit to the outbox that follows.
client_send(c, type, salt) ==
  LET pb == send_packet(endpoint[c], Server, c, type, salt)
  IN  /\ can_send(endpoint[c])
      /\ endpoint' = [endpoint EXCEPT ![c] = drained(pb)]
      /\ net' = net \cup pb.outbox
      /\ send_due' = [send_due EXCEPT ![c] = FALSE]

\* visit_packets_to_send while connecting, or a keep-alive.
client_visit(c) ==
  /\ room
  /\ \/ /\ state[c] = "SendingConnectionRequest" /\ proto_due[c]
        /\ client_send(c, "ConnectionRequest", <<client_salt[c], 0>>)
        /\ proto_due' = [proto_due EXCEPT ![c] = FALSE]
     \/ /\ state[c] = "SendingChallengeResponse" /\ proto_due[c]
        /\ xor_salt[c] # NoSalt
        /\ client_send(c, "ConnectionChallengeResponse", xor_salt[c])
        /\ proto_due' = [proto_due EXCEPT ![c] = FALSE]
     \/ /\ state[c] = "Connected" /\ send_due[c]
        /\ client_send(c, "KeepAlive", xor_salt[c])
        /\ UNCHANGED proto_due
  /\ UNCHANGED <<state, reason, client_salt, xor_salt, clock, receive_age, connects, server_vars>>

\* visit_packets_to_send while disconnecting: Disconnect packets are queued, the
\* transition puts a new Pickleback in place, and its outbox is the one visited.
client_visit_disconnecting(c) ==
  /\ state[c] = "SelfInitiatedDisconnect"
  /\ disconnected(c, "Normal", clock[c],
                  send_packet(endpoint[c], Server, c, "Disconnect", xor_salt[c]))
  /\ net' = net \cup endpoint'[c].outbox
  /\ UNCHANGED <<clock, connects, server_vars>>

\* Fault: the challenge's client salt is not compared.
challenge_expected_any_salt(c, p) ==
  p.type = "ConnectionChallenge" /\ state[c] = "SendingConnectionRequest"

\* The packets the client's receive acts on, and what it does.
challenge_expected(c, p) ==
  /\ p.type = "ConnectionChallenge" /\ state[c] = "SendingConnectionRequest"
  /\ p.salt[1] = client_salt[c]

denied_expected(c, p) ==
  /\ p.type \in Denials
  /\ state[c] \in {"SendingConnectionRequest", "SendingChallengeResponse"}

session_packet(c, p) ==
  /\ \/ p.type = "KeepAlive" /\ state[c] \in {"Connected", "SendingChallengeResponse"}
     \/ p.type = "Messages" /\ state[c] = "Connected"
  /\ p.salt = xor_salt[c]

\* A duplicate is an error after the salt is set, but before the transition.
client_receive_challenge(c, p) ==
  /\ challenge_expected(c, p)
  /\ IF is_new(endpoint[c], p)
     THEN state_transition(c, "SendingChallengeResponse", p.salt, processed(endpoint[c], p))
     ELSE /\ xor_salt' = [xor_salt EXCEPT ![c] = p.salt]
          /\ UNCHANGED <<state, reason, client_salt, proto_due, send_due, endpoint>>
  /\ receive_age' = [receive_age EXCEPT ![c] = 0]

client_receive_denied(c, p) ==
  /\ denied_expected(c, p)
  /\ disconnected(c, p.type, clock[c], endpoint[c])

client_receive_session(c, p) ==
  /\ session_packet(c, p)
  /\ is_new(endpoint[c], p)
  /\ IF state[c] = "SendingChallengeResponse"
     THEN state_transition(c, "Connected", xor_salt[c], processed(endpoint[c], p))
     ELSE /\ endpoint' = [endpoint EXCEPT ![c] = processed(@, p)]
          /\ UNCHANGED <<state, reason, client_salt, xor_salt, proto_due, send_due>>
  /\ receive_age' = [receive_age EXCEPT ![c] = 0]

\* Any other packet from the server's address counts as a sign of life.
client_receive_other(c, p) ==
  /\ ~ challenge_expected(c, p) /\ ~ denied_expected(c, p)
  /\ session_packet(c, p) => ~ is_new(endpoint[c], p)
  /\ receive_age' = [receive_age EXCEPT ![c] = 0]
  /\ UNCHANGED <<state, reason, client_salt, xor_salt, proto_due, send_due, endpoint>>

client_receive(c, p) ==
  /\ p.to = c
  /\ state[c] # "Disconnected"
  /\ \/ client_receive_challenge(c, p)
     \/ client_receive_denied(c, p)
     \/ client_receive_session(c, p)
     \/ client_receive_other(c, p)
  /\ net' = delivered(p)
  /\ UNCHANGED <<clock, connects, server_vars>>

-----------------------------------------------------------------------------
(* Server *)

first(indexes) == CHOOSE i \in indexes : \A j \in indexes : i <= j

drop(list, i) == SubSeq(list, 1, i - 1) \o SubSeq(list, i + 1, Len(list))

\* The removal loops of process_pending_clients and process_connected_clients:
\* the indexes were collected before the first removal moved the rest up, so
\* each later one removes a client further on, or panics behind the end. A place
\* that is left holds the client moved up by every removal before or at it.
remove_in_turn(list, indexes) ==
  LET before(i) == Cardinality({j \in indexes : j < i})
      removed   == {i \in indexes : i + before(i) <= Len(list)}
  IN  [list  |-> [n \in 1 .. Len(list) - Cardinality(removed) |->
                    list[n + Cardinality({i \in removed : i <= n})]],
       panic |-> removed # indexes]

\* Fault: clients do not expire.
timed_out_never(list) == {}

timed_out(list) == {i \in DOMAIN list : older(list[i].age) > Timeout}

\* A client one tick older, with a packet of this type in its outbox.
ticked(cl, type, due) ==
  [cl EXCEPT !.age = older(@),
             !.endpoint = IF due /\ can_send(@)
                          THEN send_packet(@, cl.addr, cl.addr, type, cl.salt) ELSE @]

\* Challenges are made before the expired pending clients are removed,
\* keep-alives after the expired connected clients are; a panic leaves the rest
\* of update undone.
server_update ==
  /\ ~ panicked
  /\ LET challenged == [i \in DOMAIN pending |->
                         ticked(pending[i], "ConnectionChallenge", i \notin timed_out(pending))]
         p == remove_in_turn(challenged, timed_out(pending))
         q == remove_in_turn(connected, timed_out(connected))
     IN  /\ pending' = p.list
         /\ panicked' = (p.panic \/ q.panic)
         /\ \/ /\ p.panic
               /\ UNCHANGED connected
            \/ /\ ~ p.panic
               /\ connected' = [i \in DOMAIN q.list |-> ticked(q.list[i], "KeepAlive", ~ q.panic)]
  /\ UNCHANGED <<client_vars, outbox, salts, opened, net>>

outboxes(list) == UNION {list[i].endpoint.outbox : i \in DOMAIN list}

visited(list) == [i \in DOMAIN list |-> [list[i] EXCEPT !.endpoint = drained(@)]]

server_visit ==
  /\ ~ panicked /\ room
  /\ outbox \cup outboxes(pending) \cup outboxes(connected) # {}
  /\ net' = net \cup outbox \cup outboxes(pending) \cup outboxes(connected)
  /\ outbox' = {}
  /\ pending' = visited(pending)
  /\ connected' = visited(connected)
  /\ UNCHANGED <<client_vars, salts, panicked, opened>>

\* Fault: the denial is addressed to where the packet was sent, not to its sender.
deny_receiver(p, why) == outbox' = outbox \cup {packet(p.to, p.addr, why, 0, NoSalt)}

deny(p, why) == outbox' = outbox \cup {packet(p.addr, p.addr, why, 0, NoSalt)}

Requests == {"ConnectionRequest", "OldRequest"}

\* The request's protocol_version is PROTOCOL_VERSION.
same_version(p) == p.type = "ConnectionRequest"

server_receive_old_request(p) ==
  /\ p.type \in Requests /\ ~ same_version(p)
  /\ deny(p, "ProtocolMismatch")
  /\ UNCHANGED <<pending, connected, salts, opened>>

\* The server salts somebody still holds.
held_salts ==
  {p.salt[2] : p \in net \cup outboxes(pending) \cup outboxes(connected)}
    \cup {pending[i].salt[2] : i \in DOMAIN pending}
    \cup {connected[i].salt[2] : i \in DOMAIN connected}
    \cup {xor_salt[c][2] : c \in Clients}

fresh_salts == (1 .. MaxSalts) \ (IF Duplicating THEN salts ELSE held_salts)

server_receive_request(p) ==
  /\ p.type \in Requests /\ same_version(p)
  /\ LET known == {i \in DOMAIN pending : /\ pending[i].salt[1] = p.salt[1]
                                           /\ pending[i].addr = p.addr}
     IN  IF known # {}
         THEN /\ pending' = [pending EXCEPT ![first(known)].endpoint = processed(@, p)]
              /\ UNCHANGED salts
         ELSE /\ fresh_salts # {}
              /\ salts' = remember(salts, first(fresh_salts))
              /\ pending' = Append(pending,
                   [addr |-> p.addr, salt |-> <<p.salt[1], first(fresh_salts)>>, age |-> 0,
                    endpoint |-> processed(NewEndpoint, p)])
  /\ UNCHANGED <<connected, outbox, opened>>

\* Fault: the pending client is found but not removed.
take_pending_kept(i) == pending

take_pending_by_xor_salt(i) == drop(pending, i)

\* The pending client is taken from the list before its packet is processed.
server_receive_response(p) ==
  /\ p.type = "ConnectionChallengeResponse"
  /\ LET waiting == {i \in DOMAIN pending : pending[i].salt = p.salt /\ pending[i].addr = p.addr}
         session == {i \in DOMAIN connected : connected[i].salt = p.salt}
         pc == pending[first(waiting)]
     IN  \/ /\ waiting # {}
            /\ can_send(pc.endpoint)
            /\ pending' = take_pending_by_xor_salt(first(waiting))
            /\ IF is_new(pc.endpoint, p)
               THEN /\ connected' = Append(connected,
                         [addr |-> p.addr, salt |-> p.salt, age |-> 0,
                          endpoint |-> send_packet(processed(pc.endpoint, p), p.addr, p.addr,
                                                   "KeepAlive", p.salt)])
                    /\ opened' = remember(opened, p.salt)
               ELSE UNCHANGED <<connected, opened>>
            /\ UNCHANGED outbox
         \/ /\ waiting = {} /\ session # {}
            /\ connected' = [connected EXCEPT ![first(session)].endpoint = processed(@, p)]
            /\ UNCHANGED <<pending, outbox, opened>>
         \/ /\ waiting = {} /\ session = {}
            /\ deny(p, "HandshakeTimeout")
            /\ UNCHANGED <<pending, connected, opened>>
  /\ UNCHANGED salts

server_receive_keepalive(p) ==
  /\ p.type = "KeepAlive"
  /\ LET session == {i \in DOMAIN connected : /\ connected[i].salt = p.salt
                                               /\ connected[i].addr = p.addr}
     IN  /\ session # {}
         /\ connected' = [connected EXCEPT ![first(session)].age = 0,
                                           ![first(session)].endpoint = processed(@, p)]
  /\ UNCHANGED <<pending, outbox, salts, opened>>

server_receive(p) ==
  /\ ~ panicked
  /\ p.to = Server
  /\ \/ server_receive_old_request(p)
     \/ server_receive_request(p)
     \/ server_receive_response(p)
     \/ server_receive_keepalive(p)
  /\ net' = delivered(p)
  /\ UNCHANGED <<client_vars, panicked>>

\* A Disconnect packet is queued on the Pickleback that is then dropped.
disconnect_client(i) ==
  /\ ~ panicked
  /\ connected' = drop(connected, i)
  /\ UNCHANGED <<client_vars, pending, outbox, salts, panicked, opened, net>>

\* send_message, with the packet a later visit makes of it.
server_send_message(i) ==
  /\ ~ panicked
  /\ can_send(connected[i].endpoint)
  /\ connected' = [connected EXCEPT ![i].endpoint =
                     send_packet(@, connected[i].addr, connected[i].addr, "Messages",
                                 connected[i].salt)]
  /\ UNCHANGED <<client_vars, pending, outbox, salts, panicked, opened, net>>

lose(p) ==
  /\ ~ Duplicating
  /\ net' = net \ {p}
  /\ UNCHANGED <<client_vars, server_vars>>

-----------------------------------------------------------------------------
Init ==
  /\ state = [c \in Clients |-> "Disconnected"]
  /\ reason = [c \in Clients |-> "Normal"]
  /\ client_salt = [c \in Clients |-> 0]
  /\ xor_salt = [c \in Clients |-> NoSalt]
  /\ proto_due = [c \in Clients |-> FALSE]
  /\ send_due = [c \in Clients |-> FALSE]
  /\ clock = [c \in Clients |-> 0]
  /\ receive_age = [c \in Clients |-> 0]
  /\ endpoint = [c \in Clients |-> NewEndpoint]
  /\ connects = [c \in Clients |-> 0]
  /\ pending = <<>>
  /\ connected = <<>>
  /\ outbox = {}
  /\ salts = {}
  /\ panicked = FALSE
  /\ net = {packet(Server, old, "OldRequest", 1, <<1, 0>>) : old \in OldClients}
  /\ opened = {}

Next ==
  \/ \E c \in Clients :
       \/ connect(c)
       \/ disconnect(c)
       \/ client_update(c)
       \/ client_visit(c)
       \/ client_visit_disconnecting(c)
       \/ \E p \in net : client_receive(c, p)
  \/ server_update
  \/ server_visit
  \/ \E p \in net : server_receive(p)
  \/ \E i \in DOMAIN connected : disconnect_client(i)
  \/ \E i \in DOMAIN connected : server_send_message(i)
  \/ \E p \in net : lose(p)

Spec == Init /\ [][Next]_vars

\* Time goes on: both sides call update from their loops. Nothing is assumed of
\* the network, of the applications, or of visit_packets_to_send.
Fairness == (\A c \in Clients : WF_vars(client_update(c))) /\ WF_vars(server_update)

FairSpec == Spec /\ Fairness

-----------------------------------------------------------------------------
(* Properties *)

Salts == (0 .. MaxConnects) \X (0 .. MaxSalts)
Types == Denials \cup {"ConnectionRequest", "OldRequest", "ConnectionChallenge",
                       "ConnectionChallengeResponse", "KeepAlive", "Messages", "Disconnect"}
Addresses == Clients \cup OldClients
Packets == [to : Addresses \cup {Server}, addr : Addresses, type : Types,
            id : 0 .. MaxPackets, salt : Salts]
sessions == {connected[i].salt : i \in DOMAIN connected}
awaiting == {pending[i].salt : i \in DOMAIN pending}

\* The state components of client and server have the types of the Rust fields,
\* within the bounds, and what is in the server's own outbox is addressed to the
\* client it is about.
TypeOK ==
  /\ state \in [Clients -> {"SendingConnectionRequest", "SendingChallengeResponse",
                            "Connected", "Disconnected", "SelfInitiatedDisconnect"}]
  /\ reason \in [Clients -> {"Normal", "TimedOut"} \cup Denials]
  /\ client_salt \in [Clients -> 0 .. MaxConnects]
  /\ xor_salt \in [Clients -> Salts]
  /\ proto_due \in [Clients -> BOOLEAN] /\ send_due \in [Clients -> BOOLEAN]
  /\ clock \in [Clients -> 0 .. Expired] /\ receive_age \in [Clients -> 0 .. Expired]
  /\ \A c \in Clients : /\ endpoint[c].sequence \in 0 .. MaxPackets
                        /\ endpoint[c].seen \subseteq 0 .. MaxPackets
                        /\ endpoint[c].outbox \subseteq Packets
  /\ net \cup outbox \subseteq Packets
  /\ \A p \in outbox : p.to = p.addr
  /\ \A list \in {pending, connected} : \A i \in DOMAIN list :
       /\ list[i].addr \in Addresses /\ list[i].salt \in Salts /\ list[i].age \in 0 .. Expired
       /\ list[i].endpoint.outbox \subseteq Packets

\* A client that is Connected has completed the handshake of the connect call it
\* made last: the server emitted ClientConnected for exactly its session, however
\* old the challenges and keep-alives are that arrived in between.
SessionAgreed ==
  \A c \in Clients : state[c] = "Connected" =>
    /\ xor_salt[c] \in opened
    /\ xor_salt[c][1] = client_salt[c]

\* The server has at most one client per session, and a session that is open, or
\* was, is not waiting for a challenge response again: duplicated and delayed
\* handshake packets open nothing twice.
OpenedOnce ==
  /\ \A i, j \in DOMAIN connected : connected[i].salt = connected[j].salt => i = j
  /\ \A i, j \in DOMAIN pending : pending[i].salt = pending[j].salt => i = j
  /\ awaiting \cap opened = {}

\* A session the server has removed, by timeout or disconnect_client, never comes
\* back.
NeverReopened == [][(opened \ sessions) \cap sessions' = {}]_vars

\* From the challenge on, both ends of a session have processed only packets the
\* other end has made in this session: nothing of an earlier one is left in the
\* duplicate filter, where it would swallow a packet that has not been made yet.
SeenWereSent ==
  \A c \in Clients : \A list \in {pending, connected} : \A i \in DOMAIN list :
    list[i].salt = xor_salt[c] /\ list[i].addr = c =>
      /\ endpoint[c].seen \subseteq 1 .. list[i].endpoint.sequence
      /\ list[i].endpoint.seen \subseteq 1 .. endpoint[c].sequence

\* The server's update goes on to the other clients whatever happens to one: it
\* never indexes out of its lists.
NeverPanics == ~ panicked

\* A clean disconnect tells the server: the visit that ends it gives the
\* application a Disconnect packet of the session to send. client.rs:130-136: "This
\* may add packets to the out_buffer for you to send", "we'll be writing a load of
\* disconnect packets in there". (For an application that calls disconnect once: a
\* second call ends it without a visit.)
DisconnectSent ==
  [][\A c \in Clients :
       state[c] = "SelfInitiatedDisconnect" /\ state'[c] = "Disconnected" /\ reason'[c] = "Normal"
         => \E p \in net' : p.to = Server /\ p.type = "Disconnect" /\ p.salt = xor_salt[c]]_vars

\* Every attempt to connect, and every disconnect, ends on a network that delivers
\* each packet once or loses it, however many unexpected packets count as signs of
\* life.
AttemptEnds ==
  \A c \in Clients :
    state[c] \in {"SendingConnectionRequest", "SendingChallengeResponse",
                  "SelfInitiatedDisconnect"}
      ~> state[c] \in {"Connected", "Disconnected"}

\* A client does not stay Connected to a server that has no such session.
DeadSessionNoticed ==
  \A c \in Clients :
    state[c] = "Connected" /\ xor_salt[c] \notin sessions ~> state[c] # "Connected"

\* A session whose client is gone ends at the server, although no Disconnect
\* packet arrives, and so does every handshake nobody completes. (Stated for the
\* salts of the first session: the others are handed out in the same way.)
AbandonedEnds ==
  LET s == <<1, 1>>
  IN
    /\ s \in awaiting ~> s \notin awaiting \/ panicked
    /\ s \in sessions /\ (\A c \in Clients : xor_salt[c] # s)
         ~> s \notin sessions \/ (\E c \in Clients : xor_salt[c] = s) \/ panicked
=============================================================================

------------------------------ MODULE SoftENet ------------------------------
(***************************************************************************)
(* The UDP session protocol of NAEON's visual multiplayer                  *)
(* (godot/scripts/systems/SoftENet.gd).  One player hosts (F10), the       *)
(* others join (F11) and leave (F12) when they like.  HELLO is retried     *)
(* until WELCOME assigns a peer id, STATE carries the pose, BYE ends a     *)
(* session; every datagram may be lost, duplicated or reordered.           *)
(***************************************************************************)
EXTENDS Naturals, FiniteSets

CONSTANTS
  Server,       \* the process whose player hosts
  Clients,      \* the processes whose players join
  HostAddr,     \* ip:27700 of the host
  Ports,        \* the addresses an ephemeral bind(0) can give
  NoSocket,     \* _udp == null
  MAX_CLIENTS,  \* SoftENet.MAX_CLIENTS
  STALE,        \* STALE_MS in ticks of the model's clock
  MaxId,        \* bound: the largest peer id ever assigned
  MaxHosts,     \* bound: calls of host()
  MaxJoins,     \* bound: calls of join(), all clients together
  MaxScenes,    \* bound: scene changes that free the puppet root
  MaxNet,       \* bound: datagrams in flight
  PortReuse,    \* may the OS hand out a port that was used before?
  Duplication,  \* may the network deliver a datagram twice?
  Clock         \* bound: does time pass in this instance?

Node == {Server} \cup Clients
Addr == {HostAddr} \cup Ports
Pid  == 1..MaxId
NoPid == 0

ASSUME SoftENetAssumption ==
  /\ Server \notin Clients
  /\ HostAddr \notin Ports
  /\ NoSocket \notin Addr
  /\ MaxId \in Nat \ {0}
  /\ STALE \in Nat
  /\ {MaxHosts, MaxJoins, MaxScenes, MaxNet, MAX_CLIENTS} \subseteq Nat
  /\ {PortReuse, Duplication, Clock} \subseteq BOOLEAN

Kind == {"HELLO", "STATE", "BYE", "WELCOME"}
Message == [kind : Kind, src : Addr, dst : Addr, id : Pid \cup {NoPid}]

\* Age of the last STATE of a peer, counted until it is past STALE.
Age == 0..(STALE + 1)
Never == STALE + 2     \* the peer has no key in _last_seen

VARIABLES
  udp,            \* [Node -> Addr or NoSocket]
  is_host,        \* the flag of the Server process
  is_connected,   \* [Node -> BOOLEAN]
  is_joining,     \* [Clients -> BOOLEAN]
  local_peer_id,  \* [Clients -> id]; the host's is always 1
  next_client_id, \* _next_client_id of the host
  client_addrs,   \* _client_addrs of the host: [Pid -> Addr or NoSocket]
  addr_to_id,     \* _addr_to_id of the host:   [Addr -> Pid or NoPid]
  puppets,        \* [Node -> [Pid -> "none" | "live" | "freed"]]
  last_seen,      \* [Node -> [Pid -> Age or Never]]
  puppet_root,    \* [Node -> "none" | "pending" | "attached"]
  net,            \* datagrams in flight
  used,           \* ports handed out so far
  hosts, joins, scenes \* how often the bounded user actions happened

sessionVars == <<is_host, is_connected, is_joining, local_peer_id>>
tableVars   == <<next_client_id, client_addrs, addr_to_id>>
viewVars    == <<puppets, last_seen, puppet_root>>
boundVars   == <<used, hosts, joins, scenes>>
vars == <<udp, sessionVars, tableVars, viewVars, net, boundVars>>

NoAddrs   == [p \in Pid |-> NoSocket]
NoIds     == [a \in Addr |-> NoPid]
NoPuppets == [p \in Pid |-> "none"]
NothingSeen == [p \in Pid |-> Never]

TypeOK ==
  /\ udp \in [Node -> Addr \cup {NoSocket}]
  /\ is_host \in BOOLEAN
  /\ is_connected \in [Node -> BOOLEAN]
  /\ is_joining \in [Clients -> BOOLEAN]
  /\ local_peer_id \in [Clients -> Pid \cup {NoPid}]
  /\ next_client_id \in 2..(MaxId + 1)
  /\ client_addrs \in [Pid -> Addr \cup {NoSocket}]
  /\ addr_to_id \in [Addr -> Pid \cup {NoPid}]
  /\ puppets \in [Node -> [Pid -> {"none", "live", "freed"}]]
  /\ last_seen \in [Node -> [Pid -> Age \cup {Never}]]
  /\ puppet_root \in [Node -> {"none", "pending", "attached"}]
  /\ net \subseteq Message
  /\ used \subseteq Addr
  /\ hosts \in 0..MaxHosts
  /\ joins \in 0..MaxJoins
  /\ scenes \in 0..MaxScenes

Init ==
  /\ udp = [n \in Node |-> NoSocket]
  /\ is_host = FALSE
  /\ is_connected = [n \in Node |-> FALSE]
  /\ is_joining = [c \in Clients |-> FALSE]
  /\ local_peer_id = [c \in Clients |-> 1]
  /\ next_client_id = 2
  /\ client_addrs = NoAddrs
  /\ addr_to_id = NoIds
  /\ puppets = [n \in Node |-> NoPuppets]
  /\ last_seen = [n \in Node |-> NothingSeen]
  /\ puppet_root = [n \in Node |-> "none"]
  /\ net = {}
  /\ used = {}
  /\ hosts = 0 /\ joins = 0 /\ scenes = 0

-----------------------------------------------------------------------------
(* Datagrams.                                                              *)

Datagram(k, s, d, i) == [kind |-> k, src |-> s, dst |-> d, id |-> i]

\* put_packet of the datagrams ms: each is queued or lost on the way.
Transmit(base, ms) ==
  \E kept \in SUBSET ms :
    /\ kept \subseteq base \/ Cardinality(base \cup kept) <= MaxNet
    /\ net' = base \cup kept

\* What is left in flight when m is read: a duplicate may stay behind.
Remains(m) == {net \ {m}} \cup (IF Duplication THEN {net} ELSE {})

Known == {p \in Pid : client_addrs[p] # NoSocket}

\* Mutated: the erased entries of the table are written to as well.
FanOutToErased(k, i, except) ==
  {Datagram(k, HostAddr, client_addrs[p], i) : p \in Pid \ except}

\* _send_raw of the host: one copy to every address in _client_addrs.
FanOut(k, i, except) ==
  {Datagram(k, HostAddr, client_addrs[p], i) : p \in Known \ except}

-----------------------------------------------------------------------------
(* Puppets.                                                                *)

\* _ensure_puppet_root from a packet handler: the new root is attached only
\* at the end of the frame (FlushDeferred).
EnsureRoot(n) ==
  puppet_root' =
    [puppet_root EXCEPT ![n] = IF @ = "none" THEN "pending" ELSE @]

\* The same from a key press: the deferred add_child runs before the next poll.
EnsureRootIdle(n) ==
  puppet_root' =
    [puppet_root EXCEPT ![n] = IF @ = "none" THEN "attached" ELSE @]

\* The state of puppet p after _get_or_create_puppet.
Acquired(n, p) == IF puppet_root[n] = "attached" THEN "live" ELSE puppets[n][p]

ApplyRemoteState(n, p) ==
  /\ EnsureRoot(n)
  /\ puppets' = [puppets EXCEPT ![n][p] = Acquired(n, p)]
  /\ last_seen' =
       [last_seen EXCEPT ![n][p] = IF Acquired(n, p) = "live" THEN 0 ELSE @]

FlushDeferred(n) ==
  /\ puppet_root[n] = "pending"
  /\ puppet_root' = [puppet_root EXCEPT ![n] = "attached"]
  /\ UNCHANGED <<udp, sessionVars, tableVars, puppets, last_seen, net, boundVars>>

\* The scene that owns the puppet root is freed with all puppets; their keys
\* stay in _puppets.
SceneChange(n) ==
  /\ scenes < MaxScenes
  /\ puppet_root[n] = "attached"
  /\ scenes' = scenes + 1
  /\ puppet_root' = [puppet_root EXCEPT ![n] = "none"]
  /\ puppets' = [puppets EXCEPT ![n] =
                   [p \in Pid |-> IF @[p] = "live" THEN "freed" ELSE @[p]]]
  /\ UNCHANGED <<udp, sessionVars, tableVars, last_seen, net, used, hosts, joins>>

Tick ==
  /\ Clock
  /\ \E n \in Node, p \in Pid : last_seen[n][p] < STALE + 1
  /\ last_seen' = [n \in Node |-> [p \in Pid |->
       IF last_seen[n][p] < STALE + 1 THEN last_seen[n][p] + 1 ELSE last_seen[n][p]]]
  /\ UNCHANGED <<udp, sessionVars, tableVars, puppets, puppet_root, net, boundVars>>

\* Mutated: only puppets that are still valid nodes are looked at.
StaleAndValid(n) ==
  {p \in Pid : last_seen[n][p] = STALE + 1 /\ puppets[n][p] = "live"}

Stale(n) == {p \in Pid : last_seen[n][p] = STALE + 1}

PruneStale(n) ==
  /\ Stale(n) # {}
  /\ last_seen' = [last_seen EXCEPT ![n] =
                     [p \in Pid |-> IF p \in Stale(n) THEN Never ELSE @[p]]]
  /\ puppets' = [puppets EXCEPT ![n] =
                     [p \in Pid |-> IF p \in Stale(n) THEN "none" ELSE @[p]]]
  /\ UNCHANGED <<udp, sessionVars, tableVars, puppet_root, net, boundVars>>

-----------------------------------------------------------------------------
(* The host.                                                               *)

\* F10: _close_transport, then bind; a second call starts a new session
\* without telling anyone.
Host ==
  /\ hosts < MaxHosts
  /\ hosts' = hosts + 1
  /\ udp' = [udp EXCEPT ![Server] = HostAddr]
  /\ is_host' = TRUE
  /\ is_connected' = [is_connected EXCEPT ![Server] = TRUE]
  /\ next_client_id' = 2
  /\ client_addrs' = NoAddrs
  /\ addr_to_id' = NoIds
  /\ EnsureRootIdle(Server)
  /\ UNCHANGED <<is_joining, local_peer_id, puppets, last_seen, net, used, joins, scenes>>

\* host() when both binds fail: the old transport is already closed, the
\* session flags keep what they were.
HostBindFails ==
  /\ hosts < MaxHosts
  /\ hosts' = hosts + 1
  /\ udp' = [udp EXCEPT ![Server] = NoSocket]
  /\ client_addrs' = NoAddrs
  /\ addr_to_id' = NoIds
  /\ UNCHANGED <<sessionVars, next_client_id, viewVars, net, used, joins, scenes>>

\* The sender of HELLO m gets the id pid, a puppet and a WELCOME.
Registers(m, pid) ==
  /\ addr_to_id' = [addr_to_id EXCEPT ![m.src] = pid]
  /\ client_addrs' = [client_addrs EXCEPT ![pid] = m.src]
  /\ EnsureRoot(Server)
  /\ puppets' = [puppets EXCEPT ![Server][pid] = Acquired(Server, pid)]
  /\ \E base \in Remains(m) :
       Transmit(base, {Datagram("WELCOME", HostAddr, m.src, pid)})
  /\ UNCHANGED last_seen

\* Mutated: every HELLO is registered as a new one.
HelloAgainAsNew(m) ==
  /\ addr_to_id[m.src] # NoPid
  /\ next_client_id <= MaxId
  /\ next_client_id' = next_client_id + 1
  /\ Registers(m, next_client_id)

\* A HELLO from an address that already has an id: only WELCOME again.
HelloAgain(m) ==
  /\ addr_to_id[m.src] # NoPid
  /\ \E base \in Remains(m) :
       Transmit(base, {Datagram("WELCOME", HostAddr, m.src, addr_to_id[m.src])})
  /\ UNCHANGED <<tableVars, viewVars>>

HelloRefused(m) ==
  /\ addr_to_id[m.src] = NoPid
  /\ Cardinality(Known) >= MAX_CLIENTS
  /\ net' \in Remains(m)
  /\ UNCHANGED <<tableVars, viewVars>>

\* Mutated: the id is the number of peers, so it comes back after a BYE.
HelloAcceptedByCount(m) ==
  /\ addr_to_id[m.src] = NoPid
  /\ Cardinality(Known) < MAX_CLIENTS
  /\ Registers(m, Cardinality(Known) + 2)
  /\ UNCHANGED next_client_id

HelloAccepted(m) ==
  /\ addr_to_id[m.src] = NoPid
  /\ Cardinality(Known) < MAX_CLIENTS
  /\ next_client_id <= MaxId
  /\ next_client_id' = next_client_id + 1
  /\ Registers(m, next_client_id)

HandleHello(m) ==
  m.kind = "HELLO" /\ (HelloAgain(m) \/ HelloRefused(m) \/ HelloAccepted(m))

\* The id a STATE is filed under: the packet's own id is trusted unless it is
\* 0 or 1, then the sender's address decides.
StateId(m) == IF m.id <= 1 THEN addr_to_id[m.src] ELSE m.id

StateDropped(m) ==
  /\ StateId(m) = NoPid
  /\ net' \in Remains(m)
  /\ UNCHANGED <<tableVars, viewVars>>

\* The table entry of the id is pointed at the sender (no MAX_CLIENTS check),
\* the puppet follows, and every other table entry gets a copy.
StateAccepted(m) ==
  LET pid == StateId(m) IN
  /\ pid # NoPid
  /\ client_addrs' = [client_addrs EXCEPT ![pid] = m.src]
  /\ addr_to_id' = [addr_to_id EXCEPT ![m.src] = pid]
  /\ ApplyRemoteState(Server, pid)
  /\ \E base \in Remains(m) : Transmit(base, FanOut("STATE", m.id, {pid}))
  /\ UNCHANGED next_client_id

HandleState(m) == m.kind = "STATE" /\ (StateDropped(m) \/ StateAccepted(m))

\* Mutated: the sender's address keeps its id.
HandleByeKeepsAddress(m) ==
  LET pid == IF addr_to_id[m.src] # NoPid THEN addr_to_id[m.src] ELSE m.id IN
  /\ m.kind = "BYE"
  /\ puppets' = [puppets EXCEPT ![Server][pid] = "none"]
  /\ client_addrs' = [client_addrs EXCEPT ![pid] = NoSocket]
  /\ net' \in Remains(m)
  /\ UNCHANGED <<next_client_id, addr_to_id, last_seen, puppet_root>>

\* BYE: the sender's address decides which peer is dropped, else the id in
\* the packet.  _last_seen is not touched and nobody else is told.
HandleBye(m) ==
  LET pid == IF addr_to_id[m.src] # NoPid THEN addr_to_id[m.src] ELSE m.id IN
  /\ m.kind = "BYE"
  /\ puppets' = [puppets EXCEPT ![Server][pid] = "none"]
  /\ client_addrs' = [client_addrs EXCEPT ![pid] = NoSocket]
  /\ addr_to_id' = [addr_to_id EXCEPT ![m.src] = NoPid]
  /\ net' \in Remains(m)
  /\ UNCHANGED <<next_client_id, last_seen, puppet_root>>

HostReceives(m) ==
  /\ m.dst = HostAddr /\ udp[Server] = HostAddr
  /\ HandleHello(m) \/ HandleState(m) \/ HandleBye(m)
  /\ UNCHANGED <<udp, sessionVars, boundVars>>

HostBroadcasts ==
  /\ udp[Server] = HostAddr
  /\ Transmit(net, FanOut("STATE", 1, {}))
  /\ UNCHANGED <<udp, sessionVars, tableVars, viewVars, boundVars>>

-----------------------------------------------------------------------------
(* The clients.                                                            *)

FreePorts == {a \in Ports : /\ \A n \in Node : udp[n] # a
                            /\ PortReuse \/ a \notin used}

Hello(c, a) == Datagram("HELLO", a, HostAddr, NoPid)

\* F11: the old socket is closed without BYE, the puppets stay.
Join(c) ==
  /\ joins < MaxJoins
  /\ joins' = joins + 1
  /\ \E a \in FreePorts :
       /\ udp' = [udp EXCEPT ![c] = a]
       /\ used' = IF PortReuse THEN used ELSE used \cup {a}
       /\ Transmit(net, {Hello(c, a)})
  /\ is_joining' = [is_joining EXCEPT ![c] = TRUE]
  /\ is_connected' = [is_connected EXCEPT ![c] = FALSE]
  /\ local_peer_id' = [local_peer_id EXCEPT ![c] = NoPid]
  /\ EnsureRootIdle(c)
  /\ UNCHANGED <<is_host, tableVars, puppets, last_seen, hosts, scenes>>

\* join() when bind or set_dest_address fails: no socket, old flags.
JoinFails(c) ==
  /\ joins < MaxJoins
  /\ joins' = joins + 1
  /\ udp' = [udp EXCEPT ![c] = NoSocket]
  /\ UNCHANGED <<sessionVars, tableVars, viewVars, net, used, hosts, scenes>>

\* Mutated: the retry waits for the connection it is to bring about.
RetryHelloWhenConnected(c) ==
  /\ is_connected[c] /\ udp[c] # NoSocket
  /\ Transmit(net, {Hello(c, udp[c])})
  /\ UNCHANGED <<udp, sessionVars, tableVars, viewVars, boundVars>>

\* Every 0.5 s while joining.
RetryHello(c) ==
  /\ is_joining[c] /\ udp[c] # NoSocket
  /\ Transmit(net, {Hello(c, udp[c])})
  /\ UNCHANGED <<udp, sessionVars, tableVars, viewVars, boundVars>>

ClientBroadcasts(c) ==
  /\ is_connected[c] /\ udp[c] # NoSocket
  /\ Transmit(net, {Datagram("STATE", udp[c], HostAddr, local_peer_id[c])})
  /\ UNCHANGED <<udp, sessionVars, tableVars, viewVars, boundVars>>

HandleWelcome(c, m) ==
  /\ m.kind = "WELCOME"
  /\ local_peer_id' = [local_peer_id EXCEPT ![c] = m.id]
  /\ is_connected' = [is_connected EXCEPT ![c] = TRUE]
  /\ is_joining' = [is_joining EXCEPT ![c] = FALSE]
  /\ UNCHANGED <<is_host, viewVars>>

HandleRelayed(c, m) ==
  /\ m.kind = "STATE"
  /\ IF m.id \in {local_peer_id[c], NoPid}
       THEN UNCHANGED viewVars
       ELSE ApplyRemoteState(c, m.id)
  /\ UNCHANGED sessionVars

\* The host's BYE matches no branch of _handle_client_packet.
IgnoreBye(m) == m.kind = "BYE" /\ UNCHANGED <<sessionVars, viewVars>>

ClientReceives(c, m) ==
  /\ m.dst # HostAddr /\ udp[c] = m.dst
  /\ HandleWelcome(c, m) \/ HandleRelayed(c, m) \/ IgnoreBye(m)
  /\ net' \in Remains(m)
  /\ UNCHANGED <<udp, tableVars, boundVars>>

-----------------------------------------------------------------------------
(* Leaving, crashing, and the network.                                     *)

\* _clear_puppets, _close_transport and the flags, common to leave() and to
\* the end of the process.
Shutdown(n) ==
  /\ udp' = [udp EXCEPT ![n] = NoSocket]
  /\ is_connected' = [is_connected EXCEPT ![n] = FALSE]
  /\ puppets' = [puppets EXCEPT ![n] = NoPuppets]
  /\ last_seen' = [last_seen EXCEPT ![n] = NothingSeen]
  /\ IF n = Server
       THEN /\ is_host' = FALSE
            /\ client_addrs' = NoAddrs
            /\ addr_to_id' = NoIds
            /\ UNCHANGED is_joining
       ELSE /\ is_joining' = [is_joining EXCEPT ![n] = FALSE]
            /\ UNCHANGED <<is_host, client_addrs, addr_to_id>>

\* BYE goes out only from a connected session, the host's to every client.
Bye(n) ==
  IF ~is_connected[n] \/ udp[n] = NoSocket THEN {}
  ELSE IF n = Server THEN FanOut("BYE", 1, {})
  ELSE {Datagram("BYE", udp[n], HostAddr, local_peer_id[n])}

Leave(n) ==
  /\ udp[n] # NoSocket \/ is_connected[n]
  /\ Shutdown(n)
  /\ Transmit(net, Bye(n))
  /\ UNCHANGED <<local_peer_id, next_client_id, puppet_root, boundVars>>

\* The process ends without leave() and may be started again.
Crash(n) ==
  /\ udp[n] # NoSocket
  /\ Shutdown(n)
  /\ puppet_root' = [puppet_root EXCEPT ![n] = "none"]
  /\ local_peer_id' =
       IF n = Server THEN local_peer_id ELSE [local_peer_id EXCEPT ![n] = 1]
  /\ UNCHANGED <<next_client_id, net, boundVars>>

\* No socket is bound to the destination.
Undeliverable(m) ==
  /\ \A n \in Node : udp[n] # m.dst
  /\ net' = net \ {m}
  /\ UNCHANGED <<udp, sessionVars, tableVars, viewVars, boundVars>>

-----------------------------------------------------------------------------
ServerStep == Host \/ HostBindFails \/ HostBroadcasts

ClientStep(c) ==
  Join(c) \/ JoinFails(c) \/ RetryHello(c) \/ ClientBroadcasts(c)

NodeStep(n) ==
  FlushDeferred(n) \/ SceneChange(n) \/ PruneStale(n) \/ Leave(n) \/ Crash(n)

Receive(m) ==
  HostReceives(m) \/ (\E c \in Clients : ClientReceives(c, m)) \/ Undeliverable(m)

Next ==
  \/ ServerStep
  \/ \E c \in Clients : ClientStep(c)
  \/ \E n \in Node : NodeStep(n)
  \/ \E m \in net : Receive(m)
  \/ Tick

Spec == Init /\ [][Next]_vars

-----------------------------------------------------------------------------
(* Correctness.                                                            *)

Online(c) == is_connected[c] /\ udp[c] # NoSocket

\* Two players online in one host session never share a peer id, and none
\* has the host's id 1: _next_client_id only grows, and an id never moves to
\* another address, whatever the network does with HELLO, WELCOME, STATE, BYE.
UniqueIds ==
  \A c, d \in Clients :
    Online(c) /\ Online(d) =>
      /\ local_peer_id[c] > 1
      /\ c # d => local_peer_id[c] # local_peer_id[d]

\* _addr_to_id and _client_addrs are inverse where _addr_to_id is defined:
\* what the host sends to a known peer's id goes to the address it knows the
\* peer by.
AddrTableAgree ==
  \A a \in Addr :
    addr_to_id[a] # NoPid => client_addrs[addr_to_id[a]] = a

\* When the host knows the socket of an online client, it knows it by the id
\* the client itself uses, so a repeated HELLO or a WELCOME that arrives late
\* never renames a player.
HostKnowsClientsOwnId ==
  \A c \in Clients :
    Online(c) /\ addr_to_id[udp[c]] # NoPid
      => addr_to_id[udp[c]] = local_peer_id[c]

\* Nobody sees a puppet of himself: the relay skips the sender's id, the
\* client skips its own, and no id comes back with an older puppet on it.
NoSelfPuppet ==
  \A c \in Clients : Online(c) => puppets[c][local_peer_id[c]] = "none"

\* Host and client mean the same player by an id, on both ends of the wire.
PlayersKnown == HostKnowsClientsOwnId /\ NoSelfPuppet

-----------------------------------------------------------------------------
(* Liveness.  Frames, timers and the retry run as long as the process does *)
(* (_process); a datagram sent again and again arrives again and again.    *)

HelloArrives(c) ==
  \E m \in net : /\ m.kind = "HELLO" /\ m.src = udp[c]
                 /\ HostReceives(m)
                 /\ \E w \in net' : w.kind = "WELCOME" /\ w.dst = udp[c]

WelcomeArrives(c) ==
  \E m \in net : m.kind = "WELCOME" /\ ClientReceives(c, m)

JoinFairness ==
  /\ WF_vars(\E m \in net : Receive(m) /\ net' # net)
  /\ \A c \in Clients :
       SF_vars(RetryHello(c)) /\ SF_vars(HelloArrives(c)) /\ SF_vars(WelcomeArrives(c))

FrameFairness == WF_vars(Tick) /\ \A n \in Node : WF_vars(PruneStale(n))

LiveSpec == Spec /\ JoinFairness /\ FrameFairness

\* While the host stays up and has room, a join in progress ends: the retry
\* beats lost HELLOs and lost WELCOMEs.
JoinCompletes ==
  <>[](udp[Server] = HostAddr) =>
    \A c \in Clients :
      (is_joining[c] /\ udp[c] # NoSocket) ~> (~is_joining[c] \/ udp[c] = NoSocket)

\* A peer whose STATE was applied is heard again or its puppet is freed.
SeenPuppetsExpire ==
  \A n \in Node, p \in Pid :
    (last_seen[n][p] # Never) ~> (last_seen[n][p] = 0 \/ puppets[n][p] = "none")
=============================================================================

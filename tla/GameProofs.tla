------------------------------ MODULE GameProofs ------------------------------
(***************************************************************************)
(* Proofs about the three components of the game, which share nothing but  *)
(* this file: the UDP session of SoftENet, for every set of clients and    *)
(* addresses and every behaviour of the network; the pad of PadClaim, for  *)
(* every rate, amount, threshold and delay that PadAssumption admits; the  *)
(* match of ClashMatch, for every number of lanes, cap, price and day.     *)
(* The lemmas follow the calls: what one call preserves and leaves alone;  *)
(* a handler chains them.                                                  *)
(***************************************************************************)
EXTENDS SoftENet, PadClaim, ClashMatch, TLAPS

-------------------------------------------------------------------------------
(* SoftENet.                                                               *)

-----------------------------------------------------------------------------
(* Type correctness.                                                       *)

LEMMA TypeInit == Init => TypeOK
<1> SUFFICES ASSUME Init PROVE TypeOK
  OBVIOUS
<1> USE DEF Init
<1>1. /\ 1 \in Pid /\ 2 \in 2..(MaxId + 1)
      /\ 0 \in 0..MaxHosts /\ 0 \in 0..MaxJoins /\ 0 \in 0..MaxScenes
  BY SoftENetAssumption DEF SoftENetAssumption, Pid
<1>2. /\ client_addrs \in [Pid -> Addr \cup {NoSocket}]
      /\ addr_to_id \in [Addr -> Pid \cup {NoPid}]
      /\ local_peer_id \in [Clients -> Pid \cup {NoPid}]
  BY <1>1 DEF NoAddrs, NoIds
<1>3. puppets \in [Node -> [Pid -> {"none", "live", "freed"}]]
  BY DEF NoPuppets
<1>4. last_seen \in [Node -> [Pid -> Age \cup {Never}]]
  BY DEF NothingSeen
<1>5. QED BY <1>1, <1>2, <1>3, <1>4 DEF TypeOK

\* Sending and receiving keep the network a set of messages.
LEMMA TransmitType ==
  ASSUME NEW base \in SUBSET Message, NEW ms \in SUBSET Message, Transmit(base, ms)
  PROVE  net' \in SUBSET Message
BY DEF Transmit

LEMMA RemainsType ==
  ASSUME net \in SUBSET Message, NEW m \in Message, NEW base \in Remains(m)
  PROVE  base \in SUBSET Message
BY DEF Remains

LEMMA DatagramType ==
  ASSUME NEW k \in Kind, NEW s \in Addr, NEW d \in Addr, NEW i \in Pid \cup {NoPid}
  PROVE  Datagram(k, s, d, i) \in Message
BY DEF Datagram, Message

LEMMA FanOutType ==
  ASSUME TypeOK, NEW k \in Kind, NEW i \in Pid \cup {NoPid}, NEW except
  PROVE  FanOut(k, i, except) \in SUBSET Message
<1>1. ASSUME NEW p \in Known \ except
      PROVE  Datagram(k, HostAddr, client_addrs[p], i) \in Message
  <2>1. client_addrs[p] \in Addr /\ HostAddr \in Addr
    BY <1>1 DEF TypeOK, Known, Addr
  <2>2. QED BY <2>1, DatagramType
<1>2. QED BY <1>1 DEF FanOut

\* The puppet tables keep their shape when a STATE is applied.
LEMMA ApplyType ==
  ASSUME TypeOK, NEW n \in Node, NEW p \in Pid, ApplyRemoteState(n, p)
  PROVE  /\ puppets' \in [Node -> [Pid -> {"none", "live", "freed"}]]
         /\ last_seen' \in [Node -> [Pid -> Age \cup {Never}]]
         /\ puppet_root' \in [Node -> {"none", "pending", "attached"}]
<1>1. Acquired(n, p) \in {"none", "live", "freed"}
  BY DEF TypeOK, Acquired
<1>2. 0 \in Age
  BY SoftENetAssumption DEF SoftENetAssumption, Age
<1>3. QED BY <1>1, <1>2 DEF TypeOK, ApplyRemoteState, EnsureRoot

LEMMA TypeHello ==
  ASSUME TypeOK, NEW m \in net, HandleHello(m), m.dst = HostAddr,
         UNCHANGED <<udp, sessionVars, boundVars>>
  PROVE  TypeOK'
<1> USE DEF sessionVars, boundVars, tableVars, viewVars
<1>1. m \in Message /\ HostAddr \in Addr /\ m.src \in Addr
  BY DEF TypeOK, Message, Addr
<1>2. CASE HelloAgain(m)
  <2>1. addr_to_id[m.src] \in Pid
    BY <1>1, <1>2 DEF HelloAgain, TypeOK
  <2>2. net' \in SUBSET Message
    BY <1>1, <1>2, <2>1, TransmitType, RemainsType, DatagramType
       DEF HelloAgain, TypeOK, Kind
  <2>3. QED BY <1>2, <2>2 DEF HelloAgain, TypeOK
<1>3. CASE HelloRefused(m)
  BY <1>1, <1>3, RemainsType DEF HelloRefused, TypeOK
<1>4. CASE HelloAccepted(m)
  <2>1. next_client_id \in Pid /\ next_client_id + 1 \in 2..(MaxId + 1)
    BY <1>4, SoftENetAssumption DEF SoftENetAssumption, HelloAccepted, Registers, TypeOK, Pid
  <2>2. net' \in SUBSET Message
    BY <1>1, <1>4, <2>1, TransmitType, RemainsType, DatagramType
       DEF HelloAccepted, Registers, TypeOK, Kind
  <2>3. Acquired(Server, next_client_id) \in {"none", "live", "freed"}
    BY <2>1 DEF TypeOK, Acquired, Node
  <2>4. puppets' \in [Node -> [Pid -> {"none", "live", "freed"}]]
    BY <1>4, <2>1, <2>3 DEF HelloAccepted, Registers, TypeOK
  <2>5. puppet_root' \in [Node -> {"none", "pending", "attached"}]
    BY <1>4 DEF HelloAccepted, Registers, TypeOK, EnsureRoot
  <2>6. QED BY <1>1, <1>4, <2>1, <2>2, <2>4, <2>5 DEF HelloAccepted, Registers, TypeOK
<1>5. QED BY <1>2, <1>3, <1>4 DEF HandleHello

LEMMA TypeState ==
  ASSUME TypeOK, NEW m \in net, HandleState(m), m.dst = HostAddr,
         UNCHANGED <<udp, sessionVars, boundVars>>
  PROVE  TypeOK'
<1> USE DEF sessionVars, boundVars, tableVars, viewVars
<1>1. m \in Message /\ HostAddr \in Addr /\ m.src \in Addr
  BY DEF TypeOK, Message, Addr
<1>2. CASE StateDropped(m)
  BY <1>1, <1>2, RemainsType DEF StateDropped, TypeOK
<1>3. CASE StateAccepted(m)
  <2>1. StateId(m) \in Pid
    BY <1>1, <1>3 DEF StateAccepted, StateId, TypeOK, Message
  <2>2. m.id \in Pid \cup {NoPid}
    BY <1>1 DEF Message
  <2>3. FanOut("STATE", m.id, {StateId(m)}) \in SUBSET Message
    BY <2>2, FanOutType DEF Kind
  <2>4. net' \in SUBSET Message
    <3>1. PICK base \in Remains(m) : Transmit(base, FanOut("STATE", m.id, {StateId(m)}))
      BY <1>3 DEF StateAccepted
    <3>2. base \in SUBSET Message
      BY <3>1, RemainsType DEF TypeOK
    <3>3. QED BY <2>3, <3>1, <3>2, TransmitType
  <2>5. Server \in Node
    BY DEF Node
  <2>6. /\ puppets' \in [Node -> [Pid -> {"none", "live", "freed"}]]
        /\ last_seen' \in [Node -> [Pid -> Age \cup {Never}]]
        /\ puppet_root' \in [Node -> {"none", "pending", "attached"}]
    BY <1>3, <2>1, <2>5, ApplyType DEF StateAccepted
  <2>7. QED BY <1>1, <1>3, <2>1, <2>4, <2>6 DEF StateAccepted, TypeOK
<1>4. QED BY <1>2, <1>3 DEF HandleState

LEMMA TypeBye ==
  ASSUME TypeOK, NEW m \in net, HandleBye(m), m.dst = HostAddr,
         UNCHANGED <<udp, sessionVars, boundVars>>
  PROVE  TypeOK'
<1> USE DEF sessionVars, boundVars, tableVars, viewVars
<1>1. m \in Message /\ m.src \in Addr
  BY DEF TypeOK, Message
<1>2. net' \in SUBSET Message
  BY <1>1, RemainsType DEF HandleBye, TypeOK
<1>3. QED BY <1>1, <1>2 DEF HandleBye, TypeOK, Node

LEMMA TypeServer == TypeOK /\ ServerStep => TypeOK'
<1> SUFFICES ASSUME TypeOK, ServerStep PROVE TypeOK'
  OBVIOUS
<1> USE DEF sessionVars, tableVars, viewVars, boundVars
<1>1. /\ 1 \in Pid /\ 2 \in 2..(MaxId + 1)
      /\ hosts < MaxHosts => hosts + 1 \in 0..MaxHosts
  BY SoftENetAssumption DEF SoftENetAssumption, Pid, TypeOK
<1>2. CASE Host
  <2>1. udp' \in [Node -> Addr \cup {NoSocket}]
    BY <1>2 DEF Host, TypeOK, Addr
  <2>2. client_addrs' \in [Pid -> Addr \cup {NoSocket}] /\ addr_to_id' \in [Addr -> Pid \cup {NoPid}]
    BY <1>2 DEF Host, NoAddrs, NoIds
  <2>3. puppet_root' \in [Node -> {"none", "pending", "attached"}]
    BY <1>2 DEF Host, EnsureRootIdle, TypeOK
  <2>4. is_connected' \in [Node -> BOOLEAN] /\ is_host' \in BOOLEAN
    BY <1>2 DEF Host, TypeOK
  <2>5. hosts' \in 0..MaxHosts /\ next_client_id' \in 2..(MaxId + 1)
    BY <1>1, <1>2 DEF Host
  <2>6. QED BY <1>2, <2>1, <2>2, <2>3, <2>4, <2>5 DEF Host, TypeOK
<1>3. CASE HostBindFails
  <2>1. client_addrs' \in [Pid -> Addr \cup {NoSocket}] /\ addr_to_id' \in [Addr -> Pid \cup {NoPid}]
    BY <1>3 DEF HostBindFails, NoAddrs, NoIds
  <2>2. QED BY <1>1, <1>3, <2>1 DEF HostBindFails, TypeOK
<1>4. CASE HostBroadcasts
  <2>1. FanOut("STATE", 1, {}) \in SUBSET Message
    BY <1>1, FanOutType DEF Kind
  <2>2. net' \in SUBSET Message
    BY <1>4, <2>1, TransmitType DEF HostBroadcasts, TypeOK
  <2>3. QED BY <1>4, <2>2 DEF HostBroadcasts, TypeOK
<1>5. QED BY <1>2, <1>3, <1>4 DEF ServerStep

LEMMA TypeClientStep ==
  ASSUME TypeOK, NEW c \in Clients, ClientStep(c)
  PROVE  TypeOK'
<1> USE DEF sessionVars, tableVars, viewVars, boundVars
<1>1. /\ c \in Node /\ HostAddr \in Addr /\ Ports \subseteq Addr
      /\ joins < MaxJoins => joins + 1 \in 0..MaxJoins
  BY SoftENetAssumption DEF SoftENetAssumption, Node, Addr, TypeOK
<1>2. \A a \in Addr : Hello(c, a) \in Message
  BY <1>1, DatagramType DEF Hello, Kind
<1>3. CASE Join(c)
  <2>1. PICK a \in FreePorts :
          /\ udp' = [udp EXCEPT ![c] = a]
          /\ used' = IF PortReuse THEN used ELSE used \cup {a}
          /\ Transmit(net, {Hello(c, a)})
    BY <1>3 DEF Join
  <2>2. a \in Addr
    BY <1>1, <2>1 DEF FreePorts
  <2>3. net' \in SUBSET Message
    BY <1>2, <2>1, <2>2, TransmitType DEF TypeOK
  <2>4. udp' \in [Node -> Addr \cup {NoSocket}] /\ used' \subseteq Addr
    BY <2>1, <2>2 DEF TypeOK
  <2>5. puppet_root' \in [Node -> {"none", "pending", "attached"}]
    BY <1>3 DEF Join, EnsureRootIdle, TypeOK
  <2>6. /\ is_joining' \in [Clients -> BOOLEAN]
        /\ is_connected' \in [Node -> BOOLEAN]
        /\ local_peer_id' \in [Clients -> Pid \cup {NoPid}]
    BY <1>3 DEF Join, TypeOK
  <2>7. joins' \in 0..MaxJoins
    BY <1>1, <1>3 DEF Join
  <2>8. QED BY <1>3, <2>3, <2>4, <2>5, <2>6, <2>7 DEF Join, TypeOK
<1>4. CASE JoinFails(c)
  BY <1>1, <1>4 DEF JoinFails, TypeOK
<1>5. CASE RetryHello(c)
  <2>1. udp[c] \in Addr
    BY <1>1, <1>5 DEF RetryHello, TypeOK
  <2>2. net' \in SUBSET Message
    BY <1>2, <1>5, <2>1, TransmitType DEF RetryHello, TypeOK
  <2>3. QED BY <1>5, <2>2 DEF RetryHello, TypeOK
<1>6. CASE ClientBroadcasts(c)
  <2>1. udp[c] \in Addr /\ local_peer_id[c] \in Pid \cup {NoPid}
    BY <1>1, <1>6 DEF ClientBroadcasts, TypeOK
  <2>2. net' \in SUBSET Message
    BY <1>1, <1>6, <2>1, DatagramType, TransmitType, SMTT(30) DEF ClientBroadcasts, TypeOK, Kind
  <2>3. QED BY <1>6, <2>2 DEF ClientBroadcasts, TypeOK
<1>7. QED BY <1>3, <1>4, <1>5, <1>6 DEF ClientStep

LEMMA TypeClientReceives ==
  ASSUME TypeOK, NEW c \in Clients, NEW m \in net, ClientReceives(c, m)
  PROVE  TypeOK'
<1> USE DEF ClientReceives, sessionVars, tableVars, viewVars, boundVars
<1>1. m \in Message /\ c \in Node /\ m.id \in Pid \cup {NoPid}
  BY DEF TypeOK, Message, Node
<1>2. net' \in SUBSET Message
  BY <1>1, RemainsType DEF TypeOK
<1>3. CASE HandleWelcome(c, m)
  <2>1. /\ local_peer_id' \in [Clients -> Pid \cup {NoPid}]
        /\ is_joining' \in [Clients -> BOOLEAN]
        /\ is_connected' \in [Node -> BOOLEAN]
    BY <1>1, <1>3 DEF HandleWelcome, TypeOK
  <2>2. QED BY <1>2, <1>3, <2>1 DEF HandleWelcome, TypeOK
<1>4. CASE HandleRelayed(c, m)
  <2>1. CASE m.id \in {local_peer_id[c], NoPid}
    BY <1>2, <1>4, <2>1 DEF HandleRelayed, TypeOK
  <2>2. CASE m.id \notin {local_peer_id[c], NoPid}
    <3>1. m.id \in Pid /\ ApplyRemoteState(c, m.id)
      BY <1>1, <1>4, <2>2 DEF HandleRelayed
    <3>2. QED BY <1>1, <1>2, <1>4, <3>1, ApplyType DEF HandleRelayed, TypeOK
  <2>3. QED BY <2>1, <2>2
<1>5. CASE IgnoreBye(m)
  BY <1>2, <1>5 DEF IgnoreBye, TypeOK
<1>6. QED BY <1>3, <1>4, <1>5

LEMMA TypeNodeStep ==
  ASSUME TypeOK, NEW n \in Node, NodeStep(n)
  PROVE  TypeOK'
<1> USE DEF sessionVars, tableVars, viewVars, boundVars
<1>1. CASE FlushDeferred(n)
  BY <1>1 DEF FlushDeferred, TypeOK
<1>2. CASE SceneChange(n)
  <2>1. puppets' \in [Node -> [Pid -> {"none", "live", "freed"}]]
    BY <1>2 DEF SceneChange, TypeOK
  <2>2. scenes' \in 0..MaxScenes
    BY <1>2, SoftENetAssumption DEF SceneChange, TypeOK, SoftENetAssumption
  <2>3. QED BY <1>2, <2>1, <2>2 DEF SceneChange, TypeOK
<1>3. CASE PruneStale(n)
  <2>1. puppets' \in [Node -> [Pid -> {"none", "live", "freed"}]]
    BY <1>3 DEF PruneStale, TypeOK
  <2>2. last_seen' \in [Node -> [Pid -> Age \cup {Never}]]
    BY <1>3 DEF PruneStale, TypeOK
  <2>3. QED BY <1>3, <2>1, <2>2 DEF PruneStale, TypeOK
<1>4. ASSUME Shutdown(n)
      PROVE  /\ udp' \in [Node -> Addr \cup {NoSocket}]
             /\ is_host' \in BOOLEAN
             /\ is_connected' \in [Node -> BOOLEAN]
             /\ is_joining' \in [Clients -> BOOLEAN]
             /\ client_addrs' \in [Pid -> Addr \cup {NoSocket}]
             /\ addr_to_id' \in [Addr -> Pid \cup {NoPid}]
             /\ puppets' \in [Node -> [Pid -> {"none", "live", "freed"}]]
             /\ last_seen' \in [Node -> [Pid -> Age \cup {Never}]]
  <2>1. NoPuppets \in [Pid -> {"none", "live", "freed"}]
    BY DEF NoPuppets
  <2>2. NothingSeen \in [Pid -> Age \cup {Never}]
    BY DEF NothingSeen
  <2>3. NoAddrs \in [Pid -> Addr \cup {NoSocket}] /\ NoIds \in [Addr -> Pid \cup {NoPid}]
    BY DEF NoAddrs, NoIds
  <2>4. /\ udp' \in [Node -> Addr \cup {NoSocket}]
        /\ is_connected' \in [Node -> BOOLEAN]
        /\ puppets' \in [Node -> [Pid -> {"none", "live", "freed"}]]
        /\ last_seen' \in [Node -> [Pid -> Age \cup {Never}]]
    BY <1>4, <2>1, <2>2 DEF Shutdown, TypeOK
  <2>5. CASE n = Server
    BY <1>4, <2>3, <2>4, <2>5 DEF Shutdown, TypeOK
  <2>6. CASE n # Server
    BY <1>4, <2>4, <2>6, ZenonT(60) DEF Shutdown, TypeOK
  <2>7. QED BY <2>5, <2>6
<1>5. CASE Leave(n)
  <2>1. Bye(n) \in SUBSET Message
    <3>1. 1 \in Pid
      BY SoftENetAssumption DEF SoftENetAssumption, Pid
    <3>2. CASE n = Server
      BY <3>1, <3>2, FanOutType DEF Bye, Kind
    <3>3. CASE n # Server /\ is_connected[n] /\ udp[n] # NoSocket
      <4>1. n \in Clients /\ udp[n] \in Addr /\ HostAddr \in Addr
        BY <3>3 DEF Node, Addr, TypeOK
      <4>2. local_peer_id[n] \in Pid \cup {NoPid}
        BY <4>1 DEF TypeOK
      <4>3. QED BY <3>3, <4>1, <4>2, DatagramType DEF Bye, Kind
    <3>4. QED BY <3>2, <3>3 DEF Bye
  <2>2. net' \in SUBSET Message
    BY <1>5, <2>1, TransmitType DEF Leave, TypeOK
  <2>3. QED BY <1>4, <1>5, <2>2 DEF Leave, TypeOK
<1>6. CASE Crash(n)
  <2>1. puppet_root' \in [Node -> {"none", "pending", "attached"}]
    BY <1>6 DEF Crash, TypeOK
  <2>2. local_peer_id' \in [Clients -> Pid \cup {NoPid}]
    <3>1. 1 \in Pid
      BY SoftENetAssumption DEF SoftENetAssumption, Pid
    <3>2. QED BY <1>6, <3>1 DEF Crash, TypeOK
  <2>3. QED BY <1>4, <1>6, <2>1, <2>2 DEF Crash, TypeOK
<1>7. QED BY <1>1, <1>2, <1>3, <1>5, <1>6 DEF NodeStep

LEMMA TypeTick == TypeOK /\ Tick => TypeOK'
<1> SUFFICES ASSUME TypeOK, Tick PROVE TypeOK'
  OBVIOUS
<1>1. ASSUME NEW n \in Node, NEW p \in Pid
      PROVE  (IF last_seen[n][p] < STALE + 1 THEN last_seen[n][p] + 1 ELSE last_seen[n][p])
               \in Age \cup {Never}
  <2>1. last_seen[n][p] \in Age \/ last_seen[n][p] = Never
    BY DEF TypeOK
  <2>2. STALE \in Nat
    BY SoftENetAssumption DEF SoftENetAssumption
  <2>3. CASE last_seen[n][p] \in Age
    BY <2>2, <2>3 DEF Age
  <2>4. CASE last_seen[n][p] = Never
    BY <2>2, <2>4 DEF Never
  <2>5. QED BY <2>1, <2>3, <2>4
<1>2. last_seen' \in [Node -> [Pid -> Age \cup {Never}]]
  BY <1>1 DEF Tick
<1>3. QED BY <1>2 DEF Tick, TypeOK, sessionVars, tableVars, viewVars, boundVars

LEMMA TypeNext == TypeOK /\ [Next]_vars => TypeOK'
<1> SUFFICES ASSUME TypeOK, [Next]_vars PROVE TypeOK'
  OBVIOUS
<1>1. CASE UNCHANGED vars
  BY <1>1 DEF vars, sessionVars, tableVars, viewVars, boundVars, TypeOK
<1>2. CASE ServerStep
  BY <1>2, TypeServer
<1>3. CASE \E c \in Clients : ClientStep(c)
  BY <1>3, TypeClientStep
<1>4. CASE \E n \in Node : NodeStep(n)
  BY <1>4, TypeNodeStep
<1>5. CASE \E m \in net : Receive(m)
  <2>1. PICK m \in net : Receive(m)
    BY <1>5
  <2>2. CASE HostReceives(m)
    BY <2>2, TypeHello, TypeState, TypeBye DEF HostReceives
  <2>3. CASE \E c \in Clients : ClientReceives(c, m)
    BY <2>3, TypeClientReceives
  <2>4. CASE Undeliverable(m)
    BY <2>4 DEF Undeliverable, TypeOK, sessionVars, tableVars, viewVars, boundVars
  <2>5. QED BY <2>1, <2>2, <2>3, <2>4 DEF Receive
<1>6. CASE Tick
  BY <1>6, TypeTick
<1>7. QED BY <1>1, <1>2, <1>3, <1>4, <1>5, <1>6 DEF Next

\* Every reachable state of the protocol has the types SoftENet declares.
THEOREM TypeCorrect == Spec => []TypeOK
<1>1. Init => TypeOK
  BY TypeInit
<1>2. TypeOK /\ [Next]_vars => TypeOK'
  BY TypeNext
<1>3. QED BY <1>1, <1>2, PTL DEF Spec

-----------------------------------------------------------------------------
(* Peer ids.  An id is tied to one address by everything that mentions the *)
(* two together: the host's tables, a WELCOME on its way, a STATE or BYE   *)
(* on its way to the host, and the client that was given the id.           *)

MsgClaim(m, a, p) ==
  \/ m.kind = "WELCOME" /\ m.dst = a /\ m.id = p
  \/ m.kind \in {"STATE", "BYE"} /\ m.dst = HostAddr /\ m.src = a /\ m.id = p

ClientClaim(c, a, p) == Online(c) /\ udp[c] = a /\ local_peer_id[c] = p

Claim(a, p) ==
  \/ addr_to_id[a] = p
  \/ client_addrs[p] = a
  \/ \E m \in net : MsgClaim(m, a, p)
  \/ \E c \in Clients : ClientClaim(c, a, p)

\* The step ties no id to an address that was not tied to it before.
ClaimsShrink == \A a \in Addr, p \in Pid : Claim(a, p)' => Claim(a, p)

\* Only issued ids are claimed, by ports, and each by one port.
ClaimsIssued ==
  \A a \in Addr, p \in Pid :
    Claim(a, p) => a \in Ports /\ 1 < p /\ p < next_client_id /\ hosts > 0

ClaimsUnique ==
  \A a, b \in Addr, p \in Pid : Claim(a, p) /\ Claim(b, p) => a = b

SocketsOK ==
  /\ udp[Server] \in {HostAddr, NoSocket}
  /\ udp[Server] = HostAddr => hosts > 0
  /\ \A c \in Clients : udp[c] \in Ports \cup {NoSocket}
  /\ \A c, d \in Clients : c # d /\ udp[c] = udp[d] => udp[c] = NoSocket
  /\ \A c \in Clients : Online(c) => local_peer_id[c] \in Pid

NetOK ==
  \A m \in net :
    /\ m.dst = HostAddr => m.src \in Ports
    /\ m.kind = "WELCOME" => m.dst # HostAddr /\ m.id \in Pid
    /\ m.kind \in {"STATE", "BYE"} /\ m.dst = HostAddr => m.id \in Pid

IInv ==
  TypeOK /\ SocketsOK /\ NetOK /\ ClaimsIssued /\ ClaimsUnique /\ AddrTableAgree

\* What is in flight after a step was in flight before or has just been sent.
LEMMA Sent ==
  ASSUME NEW m, NEW ms, \E base \in Remains(m) : Transmit(base, ms)
  PROVE  net' \subseteq net \cup ms
BY DEF Remains, Transmit

LEMMA SentFresh ==
  ASSUME NEW ms, Transmit(net, ms)
  PROVE  net' \subseteq net \cup ms
BY DEF Transmit

LEMMA Kept ==
  ASSUME NEW m, net' \in Remains(m)
  PROVE  net' \subseteq net
BY DEF Remains

LEMMA ClaimsKept ==
  ASSUME TypeOK, TypeOK', ClaimsIssued, ClaimsUnique,
         next_client_id' >= next_client_id, hosts' >= hosts,
         \A a \in Addr, p \in Pid : Claim(a, p)' => Claim(a, p)
  PROVE  ClaimsIssued' /\ ClaimsUnique'
<1>1. ClaimsUnique'
  BY DEF ClaimsUnique
<1>2. ASSUME NEW a \in Addr, NEW p \in Pid, Claim(a, p)'
      PROVE  a \in Ports /\ 1 < p /\ p < next_client_id' /\ hosts' > 0
  <2>1. a \in Ports /\ 1 < p /\ p < next_client_id /\ hosts > 0
    BY <1>2 DEF ClaimsIssued
  <2>2. /\ p \in Nat /\ next_client_id \in Nat /\ next_client_id' \in Nat
        /\ hosts \in Nat /\ hosts' \in Nat
    BY SoftENetAssumption DEF SoftENetAssumption, Pid, TypeOK
  <2>3. QED BY <2>1, <2>2
<1>3. QED BY <1>1, <1>2 DEF ClaimsIssued

\* What the host fans out goes to ports and claims nothing.
LEMMA FanOutHarmless ==
  ASSUME IInv, NEW k \in {"STATE", "BYE"}, NEW i, NEW except,
         NEW f \in FanOut(k, i, except)
  PROVE  /\ f.dst \in Ports /\ f.dst # HostAddr /\ f.kind # "WELCOME"
         /\ \A a \in Addr, p \in Pid : ~MsgClaim(f, a, p)
<1>1. PICK q \in Known \ except : f = Datagram(k, HostAddr, client_addrs[q], i)
  BY DEF FanOut
<1>2. q \in Pid /\ client_addrs[q] \in Addr
  BY <1>1 DEF Known, IInv, TypeOK
<1>3. Claim(client_addrs[q], q)
  BY DEF Claim
<1>4. client_addrs[q] \in Ports
  BY <1>2, <1>3 DEF IInv, ClaimsIssued
<1>5. client_addrs[q] # HostAddr
  BY <1>4, SoftENetAssumption DEF SoftENetAssumption
<1>6. QED BY <1>1, <1>4, <1>5 DEF Datagram, MsgClaim

LEMMA HelloAgainStep ==
  ASSUME IInv, TypeOK', NEW m \in net, m.kind = "HELLO", m.dst = HostAddr,
         HelloAgain(m), UNCHANGED <<udp, sessionVars, boundVars>>
  PROVE  IInv' /\ ClaimsShrink
<1> USE DEF sessionVars, tableVars, viewVars, boundVars
<1> DEFINE w == Datagram("WELCOME", HostAddr, m.src, addr_to_id[m.src])
<1>1. net' \subseteq net \cup {w}
  BY Sent DEF HelloAgain
<1>2. m.src \in Ports /\ m.src \in Addr /\ m.src # HostAddr
  BY SoftENetAssumption DEF IInv, NetOK, SoftENetAssumption, Addr
<1>3. addr_to_id[m.src] \in Pid
  BY <1>2 DEF IInv, TypeOK, HelloAgain
<1>4. /\ w.kind = "WELCOME" /\ w.dst = m.src /\ w.id = addr_to_id[m.src]
  BY DEF Datagram
<1> HIDE DEF w
<1>5. NetOK'
  <2>1. \A x \in net' : x \in net \/ x = w
    BY <1>1
  <2>2. QED BY <2>1, <1>2, <1>3, <1>4 DEF IInv, NetOK
<1>6. ASSUME NEW a \in Addr, NEW p \in Pid, Claim(a, p)'
      PROVE  Claim(a, p)
  <2>1. MsgClaim(w, a, p) => addr_to_id[a] = p
    BY <1>4 DEF MsgClaim
  <2>2. QED BY <1>1, <1>6, <2>1 DEF Claim, ClientClaim, Online, MsgClaim, HelloAgain
<1>7. ClaimsIssued' /\ ClaimsUnique'
  <2>1. next_client_id' >= next_client_id /\ hosts' >= hosts
    BY SoftENetAssumption DEF SoftENetAssumption, HelloAgain, IInv, TypeOK
  <2>2. QED BY <1>6, <2>1, ClaimsKept DEF IInv
<1>8. AddrTableAgree'
  BY DEF IInv, AddrTableAgree, HelloAgain
<1>9. SocketsOK'
  BY DEF IInv, SocketsOK, Online
<1>10. QED BY <1>5, <1>6, <1>7, <1>8, <1>9 DEF IInv, ClaimsShrink

LEMMA HelloAcceptedStep ==
  ASSUME IInv, TypeOK', NEW m \in net, m.kind = "HELLO", m.dst = HostAddr,
         udp[Server] = HostAddr,
         HelloAccepted(m), UNCHANGED <<udp, sessionVars, boundVars>>
  PROVE  /\ IInv'
         /\ \A a \in Addr, p \in Pid :
              Claim(a, p)' => Claim(a, p) \/ (a = m.src /\ p = next_client_id)
<1> USE DEF sessionVars, boundVars
<1> DEFINE pid == next_client_id
           w == Datagram("WELCOME", HostAddr, m.src, pid)
<1>1. net' \subseteq net \cup {w}
  BY Sent DEF HelloAccepted, Registers
<1>2. m.src \in Ports /\ m.src \in Addr /\ m.src # HostAddr
  BY SoftENetAssumption DEF IInv, NetOK, SoftENetAssumption, Addr
<1>3. pid \in Pid /\ pid \in Nat /\ pid > 1 /\ hosts > 0
  BY SoftENetAssumption DEF SoftENetAssumption, HelloAccepted, Registers, IInv, TypeOK, Pid, SocketsOK
<1>4. /\ w.kind = "WELCOME" /\ w.dst = m.src /\ w.id = pid
  BY DEF Datagram
<1> HIDE DEF w
<1>5. \A a \in Addr : ~Claim(a, pid)
  BY <1>3 DEF IInv, ClaimsIssued
<1>6. NetOK'
  <2>1. \A x \in net' : x \in net \/ x = w
    BY <1>1
  <2>2. QED BY <2>1, <1>2, <1>3, <1>4 DEF IInv, NetOK
<1>7. ASSUME NEW a \in Addr, NEW p \in Pid, Claim(a, p)'
      PROVE  Claim(a, p) \/ (a = m.src /\ p = pid)
  <2>1. CASE addr_to_id'[a] = p
    BY <1>2, <2>1 DEF HelloAccepted, Registers, Claim, IInv, TypeOK
  <2>2. CASE client_addrs'[p] = a
    BY <1>3, <2>2 DEF HelloAccepted, Registers, Claim, IInv, TypeOK
  <2>3. CASE \E x \in net' : MsgClaim(x, a, p)
    BY <1>1, <1>4, <2>3 DEF Claim, MsgClaim
  <2>4. CASE \E c \in Clients : ClientClaim(c, a, p)
    BY <2>4 DEF Claim
  <2>5. QED BY <1>7, <2>1, <2>2, <2>3, <2>4 DEF Claim, ClientClaim, Online, MsgClaim
<1>8. ClaimsUnique'
  BY <1>5, <1>7 DEF ClaimsUnique, IInv
<1>9. ClaimsIssued'
  <2> SUFFICES ASSUME NEW a \in Addr, NEW p \in Pid, Claim(a, p)'
               PROVE  a \in Ports /\ 1 < p /\ p < next_client_id' /\ hosts' > 0
    BY DEF ClaimsIssued
  <2>1. next_client_id' = pid + 1 /\ hosts' = hosts /\ p \in Nat
    BY DEF HelloAccepted, Registers, Pid
  <2>2. CASE Claim(a, p)
    BY <1>3, <2>1, <2>2 DEF IInv, ClaimsIssued
  <2>3. CASE a = m.src /\ p = pid
    BY <1>2, <1>3, <2>1, <2>3
  <2>4. QED BY <1>7, <2>2, <2>3
<1>10. AddrTableAgree'
  <2> SUFFICES ASSUME NEW a \in Addr, addr_to_id'[a] # NoPid
               PROVE  client_addrs'[addr_to_id'[a]] = a
    BY DEF AddrTableAgree
  <2>1. CASE a = m.src
    BY <1>2, <1>3, <2>1 DEF HelloAccepted, Registers, IInv, TypeOK
  <2>2. CASE a # m.src
    <3>1. addr_to_id'[a] = addr_to_id[a] /\ addr_to_id[a] \in Pid
      BY <2>2 DEF HelloAccepted, Registers, IInv, TypeOK
    <3>2. addr_to_id[a] # pid
      BY <1>5 DEF Claim
    <3>3. QED BY <3>1, <3>2 DEF HelloAccepted, Registers, IInv, TypeOK, AddrTableAgree
  <2>3. QED BY <2>1, <2>2
<1>11. SocketsOK'
  BY DEF IInv, SocketsOK, Online
<1>12. QED BY <1>6, <1>7, <1>8, <1>9, <1>10, <1>11 DEF IInv

\* A datagram that ties no id to an address and keeps NetOK.
Harmless(f) ==
  /\ f.kind # "WELCOME"
  /\ f.dst = HostAddr => f.src \in Ports /\ f.kind = "HELLO"

\* A step that changes neither tables nor sessions and sends only harmless
\* datagrams.
LEMMA QuietStep ==
  ASSUME IInv, TypeOK', NEW ms, \A f \in ms : Harmless(f), net' \subseteq net \cup ms,
         UNCHANGED <<udp, sessionVars, tableVars>>, hosts' = hosts
  PROVE  IInv' /\ ClaimsShrink
<1> USE DEF sessionVars, tableVars
<1>1. NetOK'
  <2>1. \A x \in net' : x \in net \/ Harmless(x)
    OBVIOUS
  <2>2. QED BY <2>1 DEF IInv, NetOK, Harmless
<1>2. ASSUME NEW a \in Addr, NEW p \in Pid, Claim(a, p)'
      PROVE  Claim(a, p)
  <2>1. \A f \in ms : ~MsgClaim(f, a, p)
    BY DEF Harmless, MsgClaim
  <2>2. QED BY <1>2, <2>1 DEF Claim, ClientClaim, Online, MsgClaim
<1>3. ClaimsIssued' /\ ClaimsUnique'
  <2>1. next_client_id' >= next_client_id /\ hosts' >= hosts
    BY SoftENetAssumption DEF SoftENetAssumption, IInv, TypeOK
  <2>2. QED BY <1>2, <2>1, ClaimsKept DEF IInv
<1>4. AddrTableAgree' /\ SocketsOK'
  BY DEF IInv, AddrTableAgree, SocketsOK, Online
<1>5. QED BY <1>1, <1>2, <1>3, <1>4 DEF IInv, ClaimsShrink

LEMMA FanOutIsHarmless ==
  ASSUME IInv, NEW k \in {"STATE", "BYE"}, NEW i, NEW except
  PROVE  \A f \in FanOut(k, i, except) : Harmless(f)
BY FanOutHarmless DEF Harmless

\* STATE and BYE come from the port that their id belongs to.
LEMMA SenderClaims ==
  ASSUME IInv, NEW m \in net, m.kind \in {"STATE", "BYE"}, m.dst = HostAddr,
         NEW pid, pid = m.id \/ (pid = addr_to_id[m.src] /\ pid # NoPid)
  PROVE  /\ m.src \in Addr /\ m.src \in Ports /\ m.src # HostAddr /\ pid \in Pid
         /\ Claim(m.src, pid)
         /\ \A a \in Addr : Claim(a, pid) => a = m.src
<1>1. m.src \in Addr /\ m.src \in Ports /\ m.src # HostAddr
  BY SoftENetAssumption DEF IInv, NetOK, SoftENetAssumption, Addr
<1>2. pid \in Pid
  BY <1>1 DEF IInv, NetOK, TypeOK
<1>3. Claim(m.src, pid)
  BY DEF Claim, MsgClaim
<1>4. QED BY <1>1, <1>2, <1>3 DEF IInv, ClaimsUnique

LEMMA StateAcceptedStep ==
  ASSUME IInv, TypeOK', NEW m \in net, m.kind = "STATE", m.dst = HostAddr,
         StateAccepted(m), UNCHANGED <<udp, sessionVars, boundVars>>
  PROVE  IInv' /\ ClaimsShrink
<1> USE DEF sessionVars, boundVars
<1> DEFINE pid == StateId(m)
           ms == FanOut("STATE", m.id, {pid})
<1>1. net' \subseteq net \cup ms
  BY Sent DEF StateAccepted
<1>2. \A f \in ms : Harmless(f)
  BY FanOutIsHarmless
<1>3. /\ m.src \in Addr /\ pid \in Pid /\ Claim(m.src, pid)
      /\ \A a \in Addr : Claim(a, pid) => a = m.src
  BY SenderClaims DEF StateAccepted, StateId
<1>4. /\ client_addrs' = [client_addrs EXCEPT ![pid] = m.src]
      /\ addr_to_id' = [addr_to_id EXCEPT ![m.src] = pid]
      /\ next_client_id' = next_client_id
  BY DEF StateAccepted
<1> HIDE DEF pid, ms
<1>5. NetOK'
  <2>1. \A x \in net' : x \in net \/ Harmless(x)
    BY <1>1, <1>2
  <2>2. QED BY <2>1 DEF IInv, NetOK, Harmless
<1>6. ASSUME NEW a \in Addr, NEW p \in Pid, Claim(a, p)'
      PROVE  Claim(a, p)
  <2>1. CASE addr_to_id'[a] = p
    <3>1. CASE a = m.src
      BY <1>3, <1>4, <2>1, <3>1 DEF IInv, TypeOK
    <3>2. CASE a # m.src
      BY <1>4, <2>1, <3>2 DEF IInv, TypeOK, Claim
    <3>3. QED BY <3>1, <3>2
  <2>2. CASE client_addrs'[p] = a
    <3>1. CASE p = pid
      BY <1>3, <1>4, <2>2, <3>1 DEF IInv, TypeOK
    <3>2. CASE p # pid
      BY <1>4, <2>2, <3>2 DEF IInv, TypeOK, Claim
    <3>3. QED BY <3>1, <3>2
  <2>3. CASE \E x \in net' : MsgClaim(x, a, p)
    BY <1>1, <1>2, <2>3 DEF Claim, MsgClaim, Harmless
  <2>4. CASE \E c \in Clients : ClientClaim(c, a, p)
    BY <2>4 DEF Claim
  <2>5. QED BY <1>6, <2>1, <2>2, <2>3, <2>4 DEF Claim, ClientClaim, Online, MsgClaim
<1>7. ClaimsIssued' /\ ClaimsUnique'
  <2>1. next_client_id' >= next_client_id /\ hosts' >= hosts
    BY <1>4, SoftENetAssumption DEF SoftENetAssumption, IInv, TypeOK
  <2>2. QED BY <1>6, <2>1, ClaimsKept DEF IInv
<1>8. AddrTableAgree'
  <2> SUFFICES ASSUME NEW a \in Addr, addr_to_id'[a] # NoPid
               PROVE  client_addrs'[addr_to_id'[a]] = a
    BY DEF AddrTableAgree
  <2>1. CASE a = m.src
    BY <1>3, <1>4, <2>1 DEF IInv, TypeOK
  <2>2. CASE a # m.src
    <3>1. addr_to_id'[a] = addr_to_id[a] /\ addr_to_id[a] \in Pid
      BY <1>4, <2>2 DEF IInv, TypeOK
    <3>2. addr_to_id[a] # pid
      BY <1>3, <2>2 DEF Claim
    <3>3. QED BY <1>4, <3>1, <3>2 DEF IInv, TypeOK, AddrTableAgree
  <2>3. QED BY <2>1, <2>2
<1>9. SocketsOK'
  BY DEF IInv, SocketsOK, Online
<1>10. QED BY <1>5, <1>6, <1>7, <1>8, <1>9 DEF IInv, ClaimsShrink

LEMMA ByeStep ==
  ASSUME IInv, TypeOK', NEW m \in net, m.dst = HostAddr,
         HandleBye(m), UNCHANGED <<udp, sessionVars, boundVars>>
  PROVE  IInv' /\ ClaimsShrink
<1> USE DEF sessionVars, boundVars
<1> DEFINE pid == IF addr_to_id[m.src] # NoPid THEN addr_to_id[m.src] ELSE m.id
<1>1. net' \subseteq net
  BY Kept DEF HandleBye
<1>2. /\ m.src \in Addr /\ pid \in Pid
      /\ \A a \in Addr : Claim(a, pid) => a = m.src
  BY SenderClaims DEF HandleBye
<1>3. /\ client_addrs' = [client_addrs EXCEPT ![pid] = NoSocket]
      /\ addr_to_id' = [addr_to_id EXCEPT ![m.src] = NoPid]
      /\ next_client_id' = next_client_id
  BY DEF HandleBye
<1> HIDE DEF pid
<1>4. NetOK'
  BY <1>1 DEF IInv, NetOK
<1>5. NoSocket \notin Addr /\ NoPid \notin Pid
  BY SoftENetAssumption DEF SoftENetAssumption, NoPid, Pid
<1>6. ASSUME NEW a \in Addr, NEW p \in Pid, Claim(a, p)'
      PROVE  Claim(a, p)
  <2>1. CASE addr_to_id'[a] = p
    BY <1>2, <1>3, <1>5, <2>1 DEF IInv, TypeOK, Claim
  <2>2. CASE client_addrs'[p] = a
    BY <1>2, <1>3, <1>5, <2>2 DEF IInv, TypeOK, Claim
  <2>3. CASE (\E x \in net' : MsgClaim(x, a, p)) \/ \E c \in Clients : ClientClaim(c, a, p)
    BY <1>1, <2>3 DEF Claim
  <2>4. QED BY <1>6, <2>1, <2>2, <2>3 DEF Claim, ClientClaim, Online, MsgClaim
<1>7. ClaimsIssued' /\ ClaimsUnique'
  <2>1. next_client_id' >= next_client_id /\ hosts' >= hosts
    BY <1>3, SoftENetAssumption DEF SoftENetAssumption, IInv, TypeOK
  <2>2. QED BY <1>6, <2>1, ClaimsKept DEF IInv
<1>8. AddrTableAgree'
  <2> SUFFICES ASSUME NEW a \in Addr, addr_to_id'[a] # NoPid
               PROVE  client_addrs'[addr_to_id'[a]] = a
    BY DEF AddrTableAgree
  <2>1. a # m.src /\ addr_to_id'[a] = addr_to_id[a] /\ addr_to_id[a] \in Pid
    BY <1>2, <1>3 DEF IInv, TypeOK
  <2>2. addr_to_id[a] # pid
    BY <1>2, <2>1 DEF Claim
  <2>3. QED BY <1>3, <2>1, <2>2 DEF IInv, TypeOK, AddrTableAgree
<1>9. SocketsOK'
  BY DEF IInv, SocketsOK, Online
<1>10. QED BY <1>4, <1>6, <1>7, <1>8, <1>9 DEF IInv, ClaimsShrink

\* WELCOME gives the client the id that the datagram already claimed for its
\* socket.
LEMMA WelcomeStep ==
  ASSUME IInv, TypeOK', NEW c \in Clients, NEW m \in net, ClientReceives(c, m),
         HandleWelcome(c, m)
  PROVE  IInv' /\ ClaimsShrink
<1> USE DEF sessionVars, boundVars, tableVars, viewVars
<1>1. net' \subseteq net
  BY Kept DEF ClientReceives
<1>2. /\ udp[c] = m.dst /\ m.kind = "WELCOME" /\ m.id \in Pid
      /\ UNCHANGED <<udp, tableVars, boundVars>>
  BY DEF ClientReceives, HandleWelcome, IInv, NetOK
<1>3. /\ local_peer_id' = [local_peer_id EXCEPT ![c] = m.id]
      /\ is_connected' = [is_connected EXCEPT ![c] = TRUE]
      /\ c \in Node
  BY DEF HandleWelcome, Node
<1>4. NetOK'
  BY <1>1 DEF IInv, NetOK
<1>5. ASSUME NEW a \in Addr, NEW p \in Pid, Claim(a, p)'
      PROVE  Claim(a, p)
  <2>1. CASE \E d \in Clients : ClientClaim(d, a, p)'
    <3>1. PICK d \in Clients : ClientClaim(d, a, p)'
      BY <2>1
    <3>2. CASE d = c
      BY <1>2, <1>3, <3>1, <3>2 DEF ClientClaim, Claim, MsgClaim, IInv, TypeOK
    <3>3. CASE d # c
      BY <1>2, <1>3, <3>1, <3>3 DEF ClientClaim, Claim, Online, IInv, TypeOK, Node
    <3>4. QED BY <3>2, <3>3
  <2>2. CASE (\E x \in net' : MsgClaim(x, a, p)) \/ addr_to_id'[a] = p \/ client_addrs'[p] = a
    BY <1>1, <1>2, <2>2 DEF Claim
  <2>3. QED BY <1>5, <2>1, <2>2 DEF Claim, MsgClaim
<1>6. ClaimsIssued' /\ ClaimsUnique'
  <2>1. next_client_id' >= next_client_id /\ hosts' >= hosts
    BY <1>2, SoftENetAssumption DEF SoftENetAssumption, IInv, TypeOK
  <2>2. QED BY <1>5, <2>1, ClaimsKept DEF IInv
<1>7. AddrTableAgree'
  BY <1>2 DEF IInv, AddrTableAgree
<1>8. SocketsOK'
  BY <1>2, <1>3 DEF IInv, SocketsOK, Online, TypeOK
<1>9. QED BY <1>4, <1>5, <1>6, <1>7, <1>8 DEF IInv, ClaimsShrink

\* A client that stops being online, or starts to join, gives claims up.
LEMMA JoinStep ==
  ASSUME IInv, TypeOK', NEW c \in Clients, Join(c) \/ JoinFails(c)
  PROVE  IInv' /\ ClaimsShrink
<1> USE DEF sessionVars, boundVars, tableVars, viewVars
<1>1. c \in Node /\ c # Server /\ Server \in Node
  BY SoftENetAssumption DEF SoftENetAssumption, Node
<1>2. PICK a \in FreePorts \cup {NoSocket} :
        /\ udp' = [udp EXCEPT ![c] = a]
        /\ net' \subseteq net \cup (IF a = NoSocket THEN {} ELSE {Hello(c, a)})
        /\ a # NoSocket => is_connected' = [is_connected EXCEPT ![c] = FALSE]
        /\ a = NoSocket => is_connected' = is_connected
  <2>1. CASE Join(c)
    <3>1. PICK a \in FreePorts : udp' = [udp EXCEPT ![c] = a] /\ Transmit(net, {Hello(c, a)})
      BY <2>1 DEF Join
    <3>2. a # NoSocket
      BY <3>1, SoftENetAssumption DEF SoftENetAssumption, FreePorts, Addr
    <3>3. QED BY <2>1, <3>1, <3>2, SentFresh DEF Join
  <2>2. CASE JoinFails(c)
    BY <2>2 DEF JoinFails
  <2>3. QED BY <2>1, <2>2
<1>3. /\ \A d \in Clients : d # c => local_peer_id'[d] = local_peer_id[d]
      /\ UNCHANGED <<tableVars, hosts>>
  BY DEF Join, JoinFails, IInv, TypeOK
<1>4. ~(Online(c)')
  BY <1>1, <1>2, SoftENetAssumption DEF SoftENetAssumption, Online, FreePorts, Addr, IInv, TypeOK
<1>5. \A d \in Clients : d # c => (Online(d)' <=> Online(d)) /\ udp'[d] = udp[d]
  BY <1>1, <1>2 DEF Online, IInv, TypeOK, Node
<1>6. NetOK'
  <2>1. \A x \in net' : x \in net \/ Harmless(x)
    BY <1>2 DEF Hello, Datagram, Harmless, FreePorts
  <2>2. QED BY <2>1 DEF IInv, NetOK, Harmless
<1>7. ASSUME NEW b \in Addr, NEW p \in Pid, Claim(b, p)'
      PROVE  Claim(b, p)
  <2>1. CASE \E d \in Clients : ClientClaim(d, b, p)'
    BY <1>3, <1>4, <1>5, <2>1 DEF ClientClaim, Claim
  <2>2. CASE \E x \in net' : MsgClaim(x, b, p)
    BY <1>2, <2>2 DEF Claim, MsgClaim, Hello, Datagram
  <2>3. CASE addr_to_id'[b] = p \/ client_addrs'[p] = b
    BY <1>3, <2>3 DEF Claim
  <2>4. QED BY <1>7, <2>1, <2>2, <2>3 DEF Claim, MsgClaim
<1>8. ClaimsIssued' /\ ClaimsUnique'
  <2>1. next_client_id' >= next_client_id /\ hosts' >= hosts
    BY <1>3, SoftENetAssumption DEF SoftENetAssumption, IInv, TypeOK
  <2>2. QED BY <1>7, <2>1, ClaimsKept DEF IInv
<1>9. AddrTableAgree'
  BY <1>3 DEF IInv, AddrTableAgree
<1>10. SocketsOK'
  <2>1. udp'[Server] = udp[Server] /\ udp'[c] \in FreePorts \cup {NoSocket}
    BY <1>1, <1>2 DEF IInv, TypeOK
  <2>2. \A d \in Clients : udp'[d] \in Ports \cup {NoSocket}
    BY <1>5, <2>1 DEF IInv, SocketsOK, FreePorts
  <2>3. \A d \in Clients : d # c /\ udp'[d] = udp'[c] => udp'[c] = NoSocket
    BY <1>5, <2>1 DEF FreePorts, Node
  <2>4. ASSUME NEW d \in Clients, NEW e \in Clients, d # e, udp'[d] = udp'[e]
        PROVE  udp'[d] = NoSocket
    BY <1>5, <2>3, <2>4 DEF IInv, SocketsOK
  <2>5. \A d \in Clients : Online(d)' => local_peer_id'[d] \in Pid
    BY <1>3, <1>4, <1>5 DEF IInv, SocketsOK
  <2>6. QED BY <1>3, <2>1, <2>2, <2>4, <2>5 DEF IInv, SocketsOK
<1>11. QED BY <1>6, <1>7, <1>8, <1>9, <1>10 DEF IInv, ClaimsShrink

\* Leaving and crashing: a BYE repeats a claim of its sender, all else only
\* drops claims.
LEMMA ShutdownStep ==
  ASSUME IInv, TypeOK', NEW n \in Node, Leave(n) \/ Crash(n)
  PROVE  IInv' /\ ClaimsShrink
<1> USE DEF boundVars
<1> DEFINE ms == IF Leave(n) THEN Bye(n) ELSE {}
<1>1. /\ net' \subseteq net \cup ms
      /\ Shutdown(n)
      /\ next_client_id' = next_client_id /\ hosts' = hosts
      /\ \A c \in Clients : c # n => local_peer_id'[c] = local_peer_id[c]
  BY SentFresh DEF Leave, Crash, IInv, TypeOK
<1>2. /\ udp' = [udp EXCEPT ![n] = NoSocket]
      /\ is_connected' = [is_connected EXCEPT ![n] = FALSE]
  BY <1>1 DEF Shutdown
<1>3. \/ client_addrs' = NoAddrs /\ addr_to_id' = NoIds
      \/ UNCHANGED <<client_addrs, addr_to_id>>
  BY <1>1 DEF Shutdown
<1>4. Server \in Node /\ NoSocket \notin Addr /\ NoPid \notin Pid
  BY SoftENetAssumption DEF SoftENetAssumption, Node, NoPid, Pid
<1>5. \A c \in Clients :
        /\ Online(c)' => Online(c) /\ c # n
        /\ c # n => udp'[c] = udp[c]
  BY <1>2 DEF Online, IInv, TypeOK, Node
<1>6. ASSUME NEW f \in ms
      PROVE  \/ Harmless(f)
             \/ /\ f.kind = "BYE" /\ f.dst = HostAddr /\ f.src \in Ports /\ f.id \in Pid
                /\ ClientClaim(n, f.src, f.id) /\ n \in Clients
  <2>1. is_connected[n] /\ udp[n] # NoSocket /\ Leave(n)
    BY <1>6 DEF Bye
  <2>2. CASE n = Server
    BY <1>6, <2>1, <2>2, FanOutIsHarmless DEF Bye
  <2>3. CASE n # Server
    <3>1. f = Datagram("BYE", udp[n], HostAddr, local_peer_id[n]) /\ n \in Clients
      BY <1>6, <2>1, <2>3 DEF Bye, Node
    <3>2. udp[n] \in Ports /\ local_peer_id[n] \in Pid
      BY <2>1, <3>1 DEF IInv, SocketsOK, Online
    <3>3. QED BY <2>1, <3>1, <3>2 DEF Datagram, ClientClaim, Online
  <2>4. QED BY <2>2, <2>3
<1> HIDE DEF ms
<1>7. NetOK'
  <2>1. \A x \in net' :
          x \in net \/ Harmless(x)
            \/ (x.kind = "BYE" /\ x.src \in Ports /\ x.id \in Pid)
    BY <1>1, <1>6
  <2>2. QED BY <2>1 DEF IInv, NetOK, Harmless
<1>8. ASSUME NEW a \in Addr, NEW p \in Pid, Claim(a, p)'
      PROVE  Claim(a, p)
  <2>1. CASE \E c \in Clients : ClientClaim(c, a, p)'
    <3>1. PICK c \in Clients : ClientClaim(c, a, p)'
      BY <2>1
    <3>2. Online(c) /\ c # n /\ udp[c] = a /\ local_peer_id'[c] = p
      BY <1>5, <3>1 DEF ClientClaim, Online
    <3>3. ClientClaim(c, a, p)
      BY <1>1, <3>2 DEF ClientClaim
    <3>4. QED BY <3>3 DEF Claim
  <2>2. CASE \E x \in net' : MsgClaim(x, a, p)
    <3>1. PICK x \in net' : MsgClaim(x, a, p)
      BY <2>2
    <3>2. CASE x \in net
      BY <3>1, <3>2 DEF Claim
    <3>3. CASE x \in ms
      BY <1>6, <3>1, <3>3 DEF Claim, MsgClaim, Harmless
    <3>4. QED BY <1>1, <3>2, <3>3
  <2>3. CASE addr_to_id'[a] = p \/ client_addrs'[p] = a
    BY <1>3, <1>4, <2>3 DEF Claim, NoAddrs, NoIds
  <2>4. QED BY <1>8, <2>1, <2>2, <2>3 DEF Claim, MsgClaim
<1>9. ClaimsIssued' /\ ClaimsUnique'
  <2>1. next_client_id' >= next_client_id /\ hosts' >= hosts
    BY <1>1, SoftENetAssumption DEF SoftENetAssumption, IInv, TypeOK
  <2>2. QED BY <1>8, <2>1, ClaimsKept DEF IInv
<1>10. AddrTableAgree'
  BY <1>3 DEF IInv, AddrTableAgree, NoIds
<1>11. SocketsOK'
  <2>1. udp'[Server] \in {udp[Server], NoSocket}
    BY <1>2, <1>4 DEF IInv, TypeOK
  <2>2. \A c \in Clients : udp'[c] \in {udp[c], NoSocket}
    BY <1>2 DEF IInv, TypeOK, Node
  <2>3. /\ udp'[Server] \in {HostAddr, NoSocket}
        /\ udp'[Server] = HostAddr => hosts' > 0
        /\ HostAddr # NoSocket
    BY <1>1, <1>4, <2>1 DEF IInv, SocketsOK, Addr
  <2>4. \A c \in Clients : udp'[c] \in Ports \cup {NoSocket}
    BY <2>2 DEF IInv, SocketsOK
  <2>5. ASSUME NEW c \in Clients, NEW d \in Clients, c # d, udp'[c] = udp'[d]
        PROVE  udp'[c] = NoSocket
    BY <2>2, <2>5 DEF IInv, SocketsOK
  <2>6. ASSUME NEW c \in Clients, Online(c)'
        PROVE  local_peer_id'[c] \in Pid
    BY <1>1, <1>5, <2>6 DEF IInv, SocketsOK, Online
  <2>7. QED BY <2>3, <2>4, <2>5, <2>6 DEF SocketsOK
<1>12. QED BY <1>7, <1>8, <1>9, <1>10, <1>11 DEF IInv, ClaimsShrink

\* The first host() finds no claim; a failed one only empties the tables.
LEMMA HostStep ==
  ASSUME MaxHosts <= 1, IInv, TypeOK', Host \/ HostBindFails
  PROVE  IInv' /\ ClaimsShrink
<1> USE DEF sessionVars, boundVars
<1>1. /\ hosts < MaxHosts /\ hosts' = hosts + 1 /\ hosts \in Nat
      /\ net' = net /\ local_peer_id' = local_peer_id
      /\ client_addrs' = NoAddrs /\ addr_to_id' = NoIds
  BY SoftENetAssumption DEF SoftENetAssumption, Host, HostBindFails, IInv, TypeOK
<1>2. hosts = 0
  BY <1>1, SoftENetAssumption DEF SoftENetAssumption
<1>3. Server \in Node /\ Server \notin Clients /\ NoSocket \notin Addr /\ NoPid \notin Pid
  BY SoftENetAssumption DEF SoftENetAssumption, Node, NoPid, Pid
<1>4. \A c \in Clients : (Online(c)' <=> Online(c)) /\ udp'[c] = udp[c]
  BY <1>3 DEF Host, HostBindFails, Online, IInv, TypeOK, Node
<1>5. udp'[Server] \in {HostAddr, NoSocket}
  BY <1>3 DEF Host, HostBindFails, IInv, TypeOK
<1>6. ASSUME NEW a \in Addr, NEW p \in Pid
      PROVE  ~(Claim(a, p)')
  <2>1. ~Claim(a, p)
    BY <1>2 DEF IInv, ClaimsIssued
  <2>2. addr_to_id'[a] # p /\ client_addrs'[p] # a
    BY <1>1, <1>3 DEF NoAddrs, NoIds
  <2>3. QED BY <1>1, <1>4, <2>1, <2>2 DEF Claim, ClientClaim, MsgClaim
<1>7. ClaimsIssued' /\ ClaimsUnique'
  BY <1>6 DEF ClaimsIssued, ClaimsUnique
<1>8. NetOK' /\ AddrTableAgree'
  BY <1>1 DEF IInv, NetOK, AddrTableAgree, NoIds
<1>9. SocketsOK'
  BY <1>1, <1>2, <1>4, <1>5 DEF IInv, SocketsOK
<1>10. QED BY <1>6, <1>7, <1>8, <1>9 DEF IInv, ClaimsShrink

\* A STATE of a client repeats the claim of the client.
LEMMA BroadcastStep ==
  ASSUME IInv, TypeOK', NEW c \in Clients, ClientBroadcasts(c)
  PROVE  IInv' /\ ClaimsShrink
<1> USE DEF sessionVars, boundVars, tableVars, viewVars
<1> DEFINE f == Datagram("STATE", udp[c], HostAddr, local_peer_id[c])
<1>1. udp[c] \in Ports /\ local_peer_id[c] \in Pid /\ Online(c)
  BY DEF ClientBroadcasts, IInv, SocketsOK, Online
<1>2. net' \subseteq net \cup {f} /\ UNCHANGED <<udp, sessionVars, tableVars, boundVars>>
  BY SentFresh DEF ClientBroadcasts
<1>3. /\ f.kind = "STATE" /\ f.src = udp[c] /\ f.dst = HostAddr /\ f.id = local_peer_id[c]
  BY DEF Datagram
<1> HIDE DEF f
<1>4. NetOK'
  <2>1. \A x \in net' : x \in net \/ x = f
    BY <1>2
  <2>2. QED BY <1>1, <1>3, <2>1 DEF IInv, NetOK
<1>5. ASSUME NEW a \in Addr, NEW p \in Pid, Claim(a, p)'
      PROVE  Claim(a, p)
  <2>1. MsgClaim(f, a, p) => ClientClaim(c, a, p)
    BY <1>1, <1>3 DEF MsgClaim, ClientClaim
  <2>2. QED BY <1>2, <1>5, <2>1 DEF Claim, ClientClaim, Online, MsgClaim
<1>6. ClaimsIssued' /\ ClaimsUnique'
  <2>1. next_client_id' >= next_client_id /\ hosts' >= hosts
    BY <1>2, SoftENetAssumption DEF SoftENetAssumption, IInv, TypeOK
  <2>2. QED BY <1>5, <2>1, ClaimsKept DEF IInv
<1>7. AddrTableAgree' /\ SocketsOK'
  BY <1>2 DEF IInv, AddrTableAgree, SocketsOK, Online
<1>8. QED BY <1>4, <1>5, <1>6, <1>7 DEF IInv, ClaimsShrink

LEMMA IInvInit == Init => IInv
<1> SUFFICES ASSUME Init PROVE IInv
  OBVIOUS
<1>1. TypeOK
  BY TypeInit
<1>2. NoSocket \notin Addr /\ NoPid \notin Pid /\ HostAddr \in Addr
  BY SoftENetAssumption DEF SoftENetAssumption, NoPid, Pid, Addr
<1>3. \A n \in Node : udp[n] = NoSocket
  BY DEF Init
<1>4. \A a \in Addr, p \in Pid : ~Claim(a, p)
  BY <1>2, <1>3 DEF Init, Claim, ClientClaim, Online, NoAddrs, NoIds, Node
<1>5. SocketsOK
  BY <1>2, <1>3 DEF SocketsOK, Online, Node
<1>6. QED BY <1>1, <1>4, <1>5
          DEF IInv, NetOK, ClaimsIssued, ClaimsUnique, AddrTableAgree, Init, NoIds

LEMMA IInvNext ==
  ASSUME MaxHosts <= 1, IInv, [Next]_vars
  PROVE  IInv'
<1> USE DEF sessionVars, boundVars, tableVars, viewVars
<1>1. TypeOK'
  BY TypeNext DEF IInv
<1>2. ASSUME net' \subseteq net, UNCHANGED <<udp, sessionVars, tableVars>>, hosts' = hosts
      PROVE  IInv'
  <2> DEFINE nothing == {}
  <2>1. net' \subseteq net \cup nothing /\ \A f \in nothing : Harmless(f)
    BY <1>2
  <2> HIDE DEF nothing
  <2>2. QED BY <1>1, <1>2, <2>1, QuietStep
<1>3. CASE UNCHANGED vars
  BY <1>2, <1>3 DEF vars
<1>4. CASE ServerStep
  <2>1. CASE HostBroadcasts
    BY <1>1, <2>1, QuietStep, FanOutIsHarmless, SentFresh DEF HostBroadcasts
  <2>2. QED BY <1>1, <1>4, <2>1, HostStep DEF ServerStep
<1>5. ASSUME NEW c \in Clients, ClientStep(c)
      PROVE  IInv'
  <2>1. CASE RetryHello(c)
    <3>1. udp[c] \in Ports
      BY <2>1 DEF RetryHello, IInv, SocketsOK
    <3>2. Harmless(Hello(c, udp[c]))
      BY <3>1 DEF Harmless, Hello, Datagram
    <3>3. QED BY <1>1, <2>1, <3>2, QuietStep, SentFresh DEF RetryHello
  <2>2. CASE ClientBroadcasts(c)
    BY <1>1, <2>2, BroadcastStep
  <2>3. QED BY <1>1, <1>5, <2>1, <2>2, JoinStep DEF ClientStep
<1>6. ASSUME NEW n \in Node, NodeStep(n)
      PROVE  IInv'
  <2>1. CASE FlushDeferred(n) \/ SceneChange(n) \/ PruneStale(n)
    BY <1>2, <2>1 DEF FlushDeferred, SceneChange, PruneStale
  <2>2. QED BY <1>1, <1>6, <2>1, ShutdownStep DEF NodeStep
<1>7. ASSUME NEW m \in net, Receive(m)
      PROVE  IInv'
  <2>1. CASE HostReceives(m)
    <3>1. CASE HandleHello(m)
      BY <1>1, <1>2, <2>1, <3>1, HelloAgainStep, HelloAcceptedStep, Kept
         DEF HostReceives, HandleHello, HelloRefused
    <3>2. CASE HandleState(m)
      BY <1>1, <1>2, <2>1, <3>2, StateAcceptedStep, Kept
         DEF HostReceives, HandleState, StateDropped
    <3>3. CASE HandleBye(m)
      BY <1>1, <2>1, <3>3, ByeStep DEF HostReceives
    <3>4. QED BY <2>1, <3>1, <3>2, <3>3 DEF HostReceives
  <2>2. ASSUME NEW c \in Clients, ClientReceives(c, m)
        PROVE  IInv'
    <3>1. CASE HandleWelcome(c, m)
      BY <1>1, <2>2, <3>1, WelcomeStep
    <3>2. CASE HandleRelayed(c, m) \/ IgnoreBye(m)
      BY <1>2, <2>2, <3>2, Kept DEF ClientReceives, HandleRelayed, IgnoreBye
    <3>3. QED BY <2>2, <3>1, <3>2 DEF ClientReceives
  <2>3. CASE Undeliverable(m)
    BY <1>2, <2>3 DEF Undeliverable
  <2>4. QED BY <1>7, <2>1, <2>2, <2>3 DEF Receive
<1>8. CASE Tick
  BY <1>2, <1>8 DEF Tick
<1>9. QED BY <1>3, <1>4, <1>5, <1>6, <1>7, <1>8 DEF Next

LEMMA IInvUniqueIds == IInv => UniqueIds
<1> SUFFICES ASSUME IInv, NEW c \in Clients, NEW d \in Clients, Online(c), Online(d)
             PROVE  /\ local_peer_id[c] > 1
                    /\ c # d => local_peer_id[c] # local_peer_id[d]
  BY DEF UniqueIds
<1>1. /\ udp[c] \in Addr /\ udp[d] \in Addr
      /\ local_peer_id[c] \in Pid /\ local_peer_id[d] \in Pid
  BY DEF IInv, SocketsOK, Online, Addr
<1>2. Claim(udp[c], local_peer_id[c]) /\ Claim(udp[d], local_peer_id[d])
  BY DEF Claim, ClientClaim
<1>3. local_peer_id[c] > 1
  BY <1>1, <1>2 DEF IInv, ClaimsIssued, Pid
<1>4. local_peer_id[c] = local_peer_id[d] => udp[c] = udp[d]
  BY <1>1, <1>2 DEF IInv, ClaimsUnique
<1>5. QED BY <1>3, <1>4 DEF IInv, SocketsOK, Online

LEMMA IInvCorrect == MaxHosts <= 1 => (Spec => []IInv)
<1> SUFFICES ASSUME MaxHosts <= 1 PROVE Spec => []IInv
  OBVIOUS
<1>1. IInv /\ [Next]_vars => IInv'
  BY IInvNext
<1>2. QED BY <1>1, IInvInit, PTL DEF Spec

\* In one host session no two online clients share a peer id, for any number
\* of clients and ports, with port reuse, loss, duplication and reordering.
THEOREM PeerIdsUnique == MaxHosts <= 1 => (Spec => []UniqueIds)
BY IInvCorrect, IInvUniqueIds, PTL

\* In one host session the two address tables of the host stay inverse.
THEOREM TablesAgree == MaxHosts <= 1 => (Spec => []AddrTableAgree)
<1>1. IInv => AddrTableAgree
  BY DEF IInv
<1>2. QED BY <1>1, IInvCorrect, PTL

-----------------------------------------------------------------------------
(* Who the host and the clients take each other for.  While a client holds *)
(* its port, whatever ties an id to that port ties one and the same id.     *)

Bound(c) == udp[c] # NoSocket

\* No port is seen before join() was given it.
PortsUsed ==
  /\ \A c \in Clients : Bound(c) => udp[c] \in used
  /\ \A m \in net : {m.src, m.dst} \cap Ports \subseteq used
  /\ \A a \in Addr, p \in Pid : Claim(a, p) => a \in used

\* While a client has its socket no BYE of it is on its way, everything that
\* mentions its port agrees on one id, and a running host has that id in its
\* table.
OneId ==
  \A c \in Clients : Bound(c) =>
    /\ \A m \in net : m.kind = "BYE" => m.src # udp[c]
    /\ \A p, q \in Pid : Claim(udp[c], p) /\ Claim(udp[c], q) => p = q
    /\ \A p \in Pid : udp[Server] = HostAddr /\ Claim(udp[c], p) => addr_to_id[udp[c]] = p

\* The ids that STATE and puppets carry are issued, and a client neither has a
\* puppet of its own id nor is sent one.
OthersOnly ==
  /\ hosts = 0 => next_client_id = 2
  /\ \A m \in net : m.kind = "STATE" => m.id \in Pid /\ m.id < next_client_id
  /\ \A c \in Clients, q \in Pid : puppets[c][q] # "none" => q < next_client_id
  /\ \A c \in Clients : Bound(c) =>
       /\ \A m \in net : m.kind = "STATE" /\ m.dst = udp[c] => ~Claim(udp[c], m.id)
       /\ \A q \in Pid : puppets[c][q] # "none" => ~Claim(udp[c], q)

KInv == PortsUsed /\ OneId /\ OthersOnly

\* What a STATE may be when it is sent.
Foreign(f) ==
  f.kind = "STATE" =>
    /\ f.id \in Pid /\ f.id < next_client_id
    /\ \A c \in Clients : Bound(c) /\ f.dst = udp[c] => ~Claim(udp[c], f.id)

\* A step that issues no id and gives no port away, of which the new datagrams
\* and the new puppets are as they should be.
LEMMA KnownKept ==
  ASSUME IInv, IInv', KInv, ClaimsShrink, NEW ms, net' \subseteq net \cup ms,
         next_client_id' = next_client_id, hosts' = 0 => hosts = 0, used \subseteq used',
         \A c \in Clients : udp'[c] \in {udp[c], NoSocket},
         udp'[Server] = HostAddr => udp[Server] = HostAddr,
         \A c \in Clients : udp'[Server] = HostAddr /\ Bound(c)'
            => addr_to_id'[udp[c]] = addr_to_id[udp[c]],
         \A f \in ms : /\ {f.src, f.dst} \cap Ports \subseteq used /\ Foreign(f)
                       /\ \A c \in Clients : f.kind = "BYE" /\ Bound(c)' => f.src # udp[c],
         \A c \in Clients, q \in Pid : puppets'[c][q] # "none" =>
           \/ puppets[c][q] # "none"
           \/ q < next_client_id /\ (Bound(c) => ~Claim(udp[c], q))
  PROVE  KInv'
<1>1. \A c \in Clients : Bound(c)' => Bound(c) /\ udp'[c] = udp[c] /\ udp[c] \in Addr
  BY DEF Bound, IInv, SocketsOK, Addr
<1>2. PortsUsed'
  <2>1. \A c \in Clients : Bound(c)' => udp'[c] \in used'
    BY <1>1 DEF KInv, PortsUsed
  <2>2. \A m \in net' : {m.src, m.dst} \cap Ports \subseteq used'
    BY DEF KInv, PortsUsed
  <2>3. \A a \in Addr, p \in Pid : Claim(a, p)' => a \in used'
    BY DEF KInv, PortsUsed, ClaimsShrink
  <2> QED
    BY <2>1, <2>2, <2>3 DEF PortsUsed, Bound
<1>3. OneId'
  <2> SUFFICES ASSUME NEW c \in Clients, Bound(c)'
               PROVE  /\ \A m \in net' : m.kind = "BYE" => m.src # udp'[c]
                      /\ \A p, q \in Pid : Claim(udp[c], p)' /\ Claim(udp[c], q)' => p = q
                      /\ \A p \in Pid : udp'[Server] = HostAddr /\ Claim(udp[c], p)'
                           => addr_to_id'[udp[c]] = p
    BY <1>1 DEF OneId, Claim, Bound
  <2>1. \A m \in net' : m.kind = "BYE" => m.src # udp'[c]
    BY <1>1 DEF KInv, OneId
  <2>2. \A p \in Pid : Claim(udp[c], p)' => Claim(udp[c], p)
    BY <1>1 DEF ClaimsShrink
  <2> QED
    BY <1>1, <2>1, <2>2 DEF KInv, OneId
<1>4. OthersOnly'
  <2>1. hosts' = 0 => next_client_id' = 2
    BY DEF KInv, OthersOnly
  <2>2. \A m \in net' : m.kind = "STATE" => m.id \in Pid /\ m.id < next_client_id'
    BY DEF KInv, OthersOnly, Foreign
  <2>3. \A c \in Clients, q \in Pid : puppets'[c][q] # "none" => q < next_client_id'
    BY DEF KInv, OthersOnly
  <2>4. ASSUME NEW c \in Clients, Bound(c)'
        PROVE  /\ \A m \in net' : m.kind = "STATE" /\ m.dst = udp'[c] => ~Claim(udp[c], m.id)'
               /\ \A q \in Pid : puppets'[c][q] # "none" => ~Claim(udp[c], q)'
    <3>1. \A p \in Pid : Claim(udp[c], p)' => Claim(udp[c], p)
      BY <1>1, <2>4 DEF ClaimsShrink
    <3>2. \A m \in net' : m.kind = "STATE" /\ m.dst = udp[c] => m.id \in Pid /\ ~Claim(udp[c], m.id)
      BY <1>1, <2>4 DEF KInv, OthersOnly, Foreign
    <3>3. \A q \in Pid : puppets'[c][q] # "none" => ~Claim(udp[c], q)
      BY <1>1, <2>4 DEF KInv, OthersOnly
    <3> QED
      BY <1>1, <2>4, <3>1, <3>2, <3>3
  <2> QED
    BY <2>1, <2>2, <2>3, <2>4 DEF OthersOnly
<1> QED
  BY <1>2, <1>3, <1>4 DEF KInv

LEMMA KnownInit == Init => KInv
<1> SUFFICES ASSUME Init PROVE KInv
  OBVIOUS
<1>1. \A c \in Clients : udp[c] = NoSocket
  BY DEF Init, Node
<1>2. \A a \in Addr, p \in Pid : ~Claim(a, p)
  <2>1. hosts = 0 /\ IInv
    BY IInvInit DEF Init
  <2> QED
    BY <2>1 DEF IInv, ClaimsIssued
<1>3. \A c \in Clients, q \in Pid : puppets[c][q] = "none"
  BY DEF Init, NoPuppets, Node
<1> QED
  BY <1>1, <1>2, <1>3 DEF Init, KInv, PortsUsed, OneId, OthersOnly, Bound

\* A step that changes no table, socket, id or puppet of a client and sends at
\* most the datagrams ms.
LEMMA KnownQuiet ==
  ASSUME IInv, IInv', KInv, ClaimsShrink, NEW ms, net' \subseteq net \cup ms,
         UNCHANGED <<udp, next_client_id, addr_to_id, hosts, used>>,
         \A f \in ms : /\ {f.src, f.dst} \cap Ports \subseteq used /\ Foreign(f)
                       /\ \A c \in Clients : f.kind = "BYE" /\ Bound(c) => f.src # udp[c],
         \A c \in Clients, q \in Pid : puppets'[c][q] # "none" =>
           \/ puppets[c][q] # "none"
           \/ q < next_client_id /\ (Bound(c) => ~Claim(udp[c], q))
  PROVE  KInv'
<1>1. \A c \in Clients : Bound(c)' => Bound(c)
  BY DEF Bound
<1>2. hosts' = 0 => hosts = 0
  OBVIOUS
<1>3. used \subseteq used' /\ \A c \in Clients : udp'[c] \in {udp[c], NoSocket}
  OBVIOUS
<1> QED
  BY <1>1, <1>2, <1>3, KnownKept

\* A client's socket is a port, and the ids that a port can be tied to are not
\* those of the host.
LEMMA Ids ==
  ASSUME IInv
  PROVE  /\ \A c \in Clients : Bound(c) => udp[c] \in Ports /\ udp[c] \in Addr /\ udp[c] # HostAddr
         /\ \A a \in Addr : ~Claim(a, 1)
         /\ 1 \in Pid /\ 1 < next_client_id
<1>1. 1 \in Pid /\ 1 < next_client_id
  BY SoftENetAssumption DEF SoftENetAssumption, Pid, IInv, TypeOK
<1>2. HostAddr \notin Ports
  BY SoftENetAssumption DEF SoftENetAssumption
<1> QED
  BY <1>1, <1>2 DEF IInv, SocketsOK, Bound, Addr, ClaimsIssued

\* What the host fans out is for other players than the one it is about.
LEMMA FanOutForeign ==
  ASSUME IInv, KInv, NEW k \in {"STATE", "BYE"}, NEW i \in Pid, i < next_client_id, NEW except,
         \A c \in Clients, p \in Pid \ except : Bound(c) /\ Claim(udp[c], p) => ~Claim(udp[c], i),
         NEW f \in FanOut(k, i, except)
  PROVE  /\ {f.src, f.dst} \cap Ports \subseteq used /\ Foreign(f)
         /\ \A c \in Clients : f.kind = "BYE" /\ Bound(c) => f.src # udp[c]
<1>1. PICK q \in Known \ except : f = Datagram(k, HostAddr, client_addrs[q], i)
  BY DEF FanOut
<1>2. q \in Pid \ except /\ client_addrs[q] \in Addr
  BY <1>1 DEF Known, IInv, TypeOK
<1>3. Claim(client_addrs[q], q)
  BY DEF Claim
<1>4. /\ f.kind = k /\ f.src = HostAddr /\ f.dst = client_addrs[q] /\ f.id = i
      /\ HostAddr \notin Ports
  BY <1>1, SoftENetAssumption DEF Datagram, SoftENetAssumption
<1>5. client_addrs[q] \in used
  BY <1>2, <1>3 DEF KInv, PortsUsed
<1>6. Foreign(f)
  BY <1>2, <1>3, <1>4 DEF Foreign
<1> QED
  BY <1>4, <1>5, <1>6, Ids

LEMMA KnownHello ==
  ASSUME IInv, IInv', KInv, NEW m \in net, HostReceives(m), HandleHello(m),
         HelloAgain(m) => ClaimsShrink, HelloRefused(m) => ClaimsShrink,
         HelloAccepted(m) => \A a \in Addr, p \in Pid :
            Claim(a, p)' => Claim(a, p) \/ (a = m.src /\ p = next_client_id)
  PROVE  KInv'
<1> USE DEF sessionVars, boundVars, tableVars, viewVars
<1>1. m.src \in Ports /\ m.src \in Addr /\ m.src # HostAddr /\ m.src \in used
  BY SoftENetAssumption DEF IInv, NetOK, SoftENetAssumption, Addr, HostReceives, KInv, PortsUsed
<1>2. CASE HelloRefused(m)
  <2> DEFINE nothing == {}
  <2>1. net' \subseteq net \cup nothing
    BY <1>2, Kept DEF HelloRefused
  <2>2. \A f \in nothing : FALSE
    OBVIOUS
  <2> HIDE DEF nothing
  <2>3. UNCHANGED <<udp, next_client_id, addr_to_id, hosts, used, puppets>>
    BY <1>2 DEF HelloRefused, HostReceives
  <2> QED
    BY <1>2, <2>1, <2>2, <2>3, KnownQuiet
<1>3. CASE HelloAgain(m)
  <2> DEFINE w == Datagram("WELCOME", HostAddr, m.src, addr_to_id[m.src])
             ms == {w}
  <2>1. net' \subseteq net \cup ms
    BY <1>3, Sent DEF HelloAgain
  <2>2. UNCHANGED <<udp, next_client_id, addr_to_id, hosts, used, puppets>>
    BY <1>3 DEF HelloAgain, HostReceives
  <2>3. \A f \in ms : /\ {f.src, f.dst} \cap Ports \subseteq used /\ Foreign(f)
                      /\ \A c \in Clients : f.kind = "BYE" /\ Bound(c) => f.src # udp[c]
    BY <1>1, SoftENetAssumption DEF Datagram, Foreign, SoftENetAssumption
  <2> HIDE DEF ms
  <2> QED
    BY <1>3, <2>1, <2>2, <2>3, KnownQuiet
<1>4. CASE HelloAccepted(m)
  <2> DEFINE pid == next_client_id
             w == Datagram("WELCOME", HostAddr, m.src, pid)
  <2>1. net' \subseteq net \cup {w}
    BY <1>4, Sent DEF HelloAccepted, Registers
  <2>2. w.kind = "WELCOME" /\ w.src = HostAddr /\ w.dst = m.src /\ w.id = pid
    BY DEF Datagram
  <2> HIDE DEF w
  <2>3. /\ UNCHANGED <<udp, hosts, used>> /\ udp[Server] = HostAddr
        /\ addr_to_id' = [addr_to_id EXCEPT ![m.src] = pid] /\ addr_to_id[m.src] = NoPid
        /\ next_client_id' = pid + 1
    BY <1>4 DEF HelloAccepted, Registers, HostReceives
  <2>4. pid \in Pid /\ pid \in Nat /\ NoPid \notin Pid /\ hosts # 0 /\ addr_to_id \in [Addr -> Pid \cup {NoPid}]
    BY <1>4, SoftENetAssumption, <2>3
       DEF SoftENetAssumption, HelloAccepted, Pid, NoPid, IInv, TypeOK, SocketsOK
  <2>5. \A p \in Pid : ~Claim(m.src, p) \/ \A c \in Clients : Bound(c) => udp[c] # m.src
    BY <2>3, <2>4 DEF KInv, OneId
  <2>6. \A a \in Addr, p \in Pid : Claim(a, p)' => Claim(a, p) \/ (a = m.src /\ p = pid)
    BY <1>4
  <2>7. \A c \in Clients : /\ Bound(c)' <=> Bound(c)
                           /\ Bound(c) => udp[c] \in Addr
    BY <2>3, Ids DEF Bound
  <2>8. PortsUsed'
    BY <1>1, <2>1, <2>2, <2>3, <2>6, <2>7, SoftENetAssumption
       DEF KInv, PortsUsed, SoftENetAssumption
  <2>9. OneId'
    <3> SUFFICES ASSUME NEW c \in Clients, Bound(c)
                 PROVE  /\ \A x \in net' : x.kind = "BYE" => x.src # udp'[c]
                        /\ \A p, q \in Pid : Claim(udp[c], p)' /\ Claim(udp[c], q)' => p = q
                        /\ \A p \in Pid : udp'[Server] = HostAddr /\ Claim(udp[c], p)'
                             => addr_to_id'[udp'[c]] = p
      BY <2>7 DEF OneId
    <3>1. \A x \in net' : x.kind = "BYE" => x.src # udp'[c]
      BY <2>1, <2>2, <2>3 DEF KInv, OneId
    <3>2. \A p \in Pid : Claim(udp[c], p)' => Claim(udp[c], p) \/ (udp[c] = m.src /\ p = pid)
      BY <2>3, <2>6, <2>7
    <3>3. \A p \in Pid : Claim(udp[c], p) => addr_to_id[udp[c]] = p
      BY <2>3 DEF KInv, OneId
    <3>4. \A p \in Pid : Claim(udp[c], p)' => addr_to_id'[udp'[c]] = p
      <4>1. CASE udp[c] = m.src
        BY <1>1, <2>3, <2>4, <2>5, <3>2, <4>1
      <4>2. CASE udp[c] # m.src
        BY <1>1, <2>3, <2>4, <2>7, <3>2, <3>3, <4>2
      <4> QED
        BY <4>1, <4>2
    <3> QED
      BY <3>1, <3>4
  <2>10. \A c \in Clients, q \in Pid : puppets'[c][q] = puppets[c][q]
    BY <1>4, SoftENetAssumption DEF HelloAccepted, Registers, SoftENetAssumption, IInv, TypeOK, Node
  <2>11. OthersOnly'
    <3>1. \A x \in net' : x.kind = "STATE" => x \in net
      BY <2>1, <2>2
    <3>2. \A i \in Pid : i < pid => i < next_client_id' /\ i # pid
      BY <2>3, <2>4 DEF Pid
    <3>3. ASSUME NEW c \in Clients, Bound(c)
          PROVE  /\ \A x \in net' : x.kind = "STATE" /\ x.dst = udp'[c] => ~Claim(udp[c], x.id)'
                 /\ \A q \in Pid : puppets'[c][q] # "none" => ~Claim(udp[c], q)'
      <4>1. \A p \in Pid : Claim(udp[c], p)' => Claim(udp[c], p) \/ p = pid
        BY <2>3, <2>6, <2>7, <3>3
      <4>2. \A x \in net' : x.kind = "STATE" /\ x.dst = udp'[c] => ~Claim(udp[c], x.id)'
        BY <2>3, <3>1, <3>2, <3>3, <4>1 DEF KInv, OthersOnly
      <4>3. \A q \in Pid : puppets'[c][q] # "none" => ~Claim(udp[c], q)'
        BY <2>10, <3>2, <3>3, <4>1 DEF KInv, OthersOnly
      <4> QED
        BY <4>2, <4>3
    <3>4. \A x \in net' : x.kind = "STATE" => x.id \in Pid /\ x.id < next_client_id'
      BY <3>1, <3>2 DEF KInv, OthersOnly
    <3>5. \A c \in Clients, q \in Pid : puppets'[c][q] # "none" => q < next_client_id'
      BY <2>10, <3>2 DEF KInv, OthersOnly
    <3> QED
      BY <2>3, <2>4, <2>7, <3>3, <3>4, <3>5 DEF OthersOnly
  <2> QED
    BY <2>8, <2>9, <2>11 DEF KInv
<1> QED
  BY <1>2, <1>3, <1>4 DEF HandleHello

LEMMA KnownState ==
  ASSUME IInv, IInv', KInv, ClaimsShrink, NEW m \in net, HostReceives(m), HandleState(m)
  PROVE  KInv'
<1> USE DEF sessionVars, boundVars, tableVars, viewVars
<1>1. CASE StateDropped(m)
  <2> DEFINE nothing == {}
  <2>1. net' \subseteq net \cup nothing
    BY <1>1, Kept DEF StateDropped
  <2>2. \A f \in nothing : FALSE
    OBVIOUS
  <2> HIDE DEF nothing
  <2>3. UNCHANGED <<udp, next_client_id, addr_to_id, hosts, used, puppets>>
    BY <1>1 DEF StateDropped, HostReceives
  <2> QED
    BY <2>1, <2>2, <2>3, KnownQuiet
<1>2. CASE StateAccepted(m)
  <2> DEFINE pid == StateId(m)
             ms == FanOut("STATE", m.id, {pid})
  <2>1. net' \subseteq net \cup ms
    BY <1>2, Sent DEF StateAccepted
  <2>2. /\ UNCHANGED <<udp, next_client_id, hosts, used>> /\ udp[Server] = HostAddr
        /\ addr_to_id' = [addr_to_id EXCEPT ![m.src] = pid]
    BY <1>2 DEF StateAccepted, HostReceives
  <2>3. m.kind = "STATE" /\ m.dst = HostAddr /\ m.id \in Pid /\ m.id < next_client_id
    BY DEF HandleState, HostReceives, IInv, NetOK, KInv, OthersOnly
  <2>4. /\ m.src \in Addr /\ pid \in Pid /\ Claim(m.src, pid)
        /\ \A a \in Addr : Claim(a, pid) => a = m.src
    BY <1>2, <2>3, SenderClaims DEF StateAccepted, StateId
  <2>5. m.id = pid \/ m.id = 1
    BY <2>3 DEF StateId, Pid
  <2>6. ASSUME NEW f \in ms
        PROVE  /\ {f.src, f.dst} \cap Ports \subseteq used /\ Foreign(f)
               /\ \A c \in Clients : f.kind = "BYE" /\ Bound(c) => f.src # udp[c]
    <3>1. \A c \in Clients, p \in Pid \ {pid} : Bound(c) /\ Claim(udp[c], p) => ~Claim(udp[c], m.id)
      BY <2>3, <2>4, <2>5, Ids DEF KInv, OneId
    <3> HIDE DEF pid
    <3> QED
      BY <2>3, <3>1, FanOutForeign
  <2>7. \A c \in Clients : Bound(c) => addr_to_id'[udp[c]] = addr_to_id[udp[c]]
    BY <2>2, <2>4, Ids DEF KInv, OneId, IInv, TypeOK
  <2>8. \A c \in Clients, q \in Pid : puppets'[c][q] = puppets[c][q]
    BY <1>2, SoftENetAssumption DEF StateAccepted, ApplyRemoteState, SoftENetAssumption, IInv, TypeOK, Node
  <2> HIDE DEF ms, pid
  <2>9. \A c \in Clients : Bound(c)' <=> Bound(c)
    BY <2>2 DEF Bound
  <2>10. used \subseteq used' /\ (\A c \in Clients : udp'[c] \in {udp[c], NoSocket}) /\ (hosts' = 0 => hosts = 0)
    BY <2>2
  <2> QED
    BY <2>1, <2>2, <2>6, <2>7, <2>8, <2>9, <2>10, KnownKept
<1> QED
  BY <1>1, <1>2 DEF HandleState

\* A BYE that reaches the host comes from a port whose client has left it.
LEMMA KnownBye ==
  ASSUME IInv, IInv', KInv, ClaimsShrink, NEW m \in net, HostReceives(m), HandleBye(m)
  PROVE  KInv'
<1> USE DEF sessionVars, boundVars
<1> DEFINE nothing == {}
<1>1. net' \subseteq net \cup nothing /\ \A f \in nothing : FALSE
  BY Kept DEF HandleBye
<1> HIDE DEF nothing
<1>2. /\ UNCHANGED <<udp, next_client_id, hosts, used>>
      /\ addr_to_id' = [addr_to_id EXCEPT ![m.src] = NoPid] /\ m.kind = "BYE"
  BY DEF HandleBye, HostReceives
<1>3. \A c \in Clients : Bound(c) => addr_to_id'[udp[c]] = addr_to_id[udp[c]]
  BY <1>2, Ids DEF KInv, OneId, IInv, TypeOK
<1>4. \A c \in Clients, q \in Pid : puppets'[c][q] = puppets[c][q]
  BY SoftENetAssumption DEF HandleBye, SoftENetAssumption, IInv, TypeOK, Node
<1>5. \A c \in Clients : Bound(c)' <=> Bound(c)
  BY <1>2 DEF Bound
<1>6. used \subseteq used' /\ (\A c \in Clients : udp'[c] \in {udp[c], NoSocket}) /\ (hosts' = 0 => hosts = 0)
  BY <1>2
<1> QED
  BY <1>1, <1>2, <1>3, <1>4, <1>5, <1>6, KnownKept

LEMMA KnownClient ==
  ASSUME IInv, IInv', KInv, ClaimsShrink, NEW c \in Clients, NEW m \in net, ClientReceives(c, m)
  PROVE  KInv'
<1> USE DEF sessionVars, boundVars, tableVars, viewVars
<1> DEFINE nothing == {}
<1>1. net' \subseteq net \cup nothing /\ \A f \in nothing : FALSE
  BY Kept DEF ClientReceives
<1> HIDE DEF nothing
<1>2. UNCHANGED <<udp, next_client_id, addr_to_id, hosts, used>> /\ udp[c] = m.dst
  BY DEF ClientReceives
<1>3. ASSUME NEW d \in Clients, NEW q \in Pid, puppets'[d][q] # "none"
      PROVE  \/ puppets[d][q] # "none"
             \/ q < next_client_id /\ (Bound(d) => ~Claim(udp[d], q))
  <2>1. CASE UNCHANGED puppets
    BY <1>3, <2>1
  <2>2. CASE m.kind = "STATE" /\ ApplyRemoteState(c, m.id)
    <3>1. m.id \in Pid /\ m.id < next_client_id /\ (Bound(c) => ~Claim(udp[c], m.id))
      BY <1>2, <2>2 DEF KInv, OthersOnly
    <3>2. puppets'[d][q] # puppets[d][q] => d = c /\ q = m.id
      BY <2>2, <3>1 DEF ApplyRemoteState, IInv, TypeOK, Node
    <3> QED
      BY <1>3, <3>1, <3>2
  <2> QED
    BY <2>1, <2>2 DEF ClientReceives, HandleWelcome, HandleRelayed, IgnoreBye
<1> QED
  BY <1>1, <1>2, <1>3, KnownQuiet

LEMMA KnownJoin ==
  ASSUME ~PortReuse, IInv, IInv', KInv, ClaimsShrink, NEW c \in Clients, Join(c)
  PROVE  KInv'
<1> USE DEF sessionVars, boundVars, tableVars, viewVars
<1>1. PICK a \in FreePorts : /\ udp' = [udp EXCEPT ![c] = a] /\ used' = used \cup {a}
                             /\ Transmit(net, {Hello(c, a)})
  BY DEF Join
<1>2. a \in Ports /\ a \in Addr /\ a \notin used /\ a # HostAddr /\ a # NoSocket
  BY SoftENetAssumption DEF SoftENetAssumption, FreePorts, Addr
<1>3. /\ \A x \in net' : x \in net \/ (x.kind = "HELLO" /\ x.src = a /\ x.dst = HostAddr)
      /\ UNCHANGED <<next_client_id, addr_to_id, hosts, puppets>>
  BY <1>1, SentFresh DEF Join, Hello, Datagram
<1>4. /\ udp'[Server] = udp[Server] /\ udp'[c] = a
      /\ \A d \in Clients : d # c => udp'[d] = udp[d] /\ (Bound(d)' => Bound(d))
      /\ \A d \in Clients : Bound(d) => udp[d] \in Addr
  BY <1>1, SoftENetAssumption, Ids DEF SoftENetAssumption, Bound, IInv, TypeOK, Node
<1>5. \A p \in Pid : ~Claim(a, p)
  BY <1>2 DEF KInv, PortsUsed
<1>6. \A b \in Addr, p \in Pid : Claim(b, p)' => Claim(b, p) /\ b # a
  BY <1>5 DEF ClaimsShrink
<1>7. PortsUsed'
  <2>1. \A d \in Clients : Bound(d)' => udp'[d] \in used'
    BY <1>1, <1>4 DEF KInv, PortsUsed
  <2>2. \A x \in net' : {x.src, x.dst} \cap Ports \subseteq used'
    BY <1>1, <1>3, SoftENetAssumption DEF SoftENetAssumption, KInv, PortsUsed
  <2>3. \A b \in Addr, p \in Pid : Claim(b, p)' => b \in used'
    BY <1>1, <1>6 DEF KInv, PortsUsed
  <2> QED
    BY <2>1, <2>2, <2>3 DEF PortsUsed
<1>8. OneId'
  <2>1. ASSUME NEW d \in Clients, Bound(d)'
        PROVE  /\ \A x \in net' : x.kind = "BYE" => x.src # udp'[d]
               /\ \A p, q \in Pid : Claim(udp[d], p)' /\ Claim(udp[d], q)' => p = q
               /\ \A p \in Pid : udp'[Server] = HostAddr /\ Claim(udp[d], p)' => addr_to_id'[udp'[d]] = p
    <3>1. CASE d = c
      <4>1. \A x \in net' : x.kind = "BYE" => x.src # a
        BY <1>2, <1>3 DEF KInv, PortsUsed
      <4>2. \A p \in Pid : ~(Claim(udp[d], p)')
        BY <1>2, <1>4, <1>6, <3>1
      <4> QED
        BY <1>4, <3>1, <4>1, <4>2
    <3>2. CASE d # c
      <4>1. \A p \in Pid : Claim(udp[d], p)' => Claim(udp[d], p)
        BY <1>4, <1>6, <2>1, <3>2
      <4> QED
        BY <1>3, <1>4, <2>1, <3>2, <4>1 DEF KInv, OneId
    <3> QED
      BY <3>1, <3>2
  <2> QED
    BY <2>1 DEF OneId
<1>9. OthersOnly'
  <2>1. ASSUME NEW d \in Clients, Bound(d)'
        PROVE  /\ \A x \in net' : x.kind = "STATE" /\ x.dst = udp'[d] => ~Claim(udp[d], x.id)'
               /\ \A q \in Pid : puppets'[d][q] # "none" => ~Claim(udp[d], q)'
    <3>1. \A x \in net' : x.kind = "STATE" => x \in net /\ x.id \in Pid
      BY <1>3 DEF KInv, OthersOnly
    <3>2. CASE d = c
      <4>1. \A p \in Pid : ~(Claim(udp[d], p)')
        BY <1>2, <1>4, <1>6, <3>2
      <4> QED
        BY <3>1, <4>1
    <3>3. CASE d # c
      <4>1. \A p \in Pid : Claim(udp[d], p)' => Claim(udp[d], p)
        BY <1>4, <1>6, <2>1, <3>3
      <4> QED
        BY <1>3, <1>4, <2>1, <3>1, <3>3, <4>1 DEF KInv, OthersOnly
    <3> QED
      BY <3>2, <3>3
  <2>2. \A x \in net' : x.kind = "STATE" => x.id \in Pid /\ x.id < next_client_id'
    BY <1>3 DEF KInv, OthersOnly
  <2> QED
    BY <1>3, <2>1, <2>2 DEF KInv, OthersOnly
<1> QED
  BY <1>7, <1>8, <1>9 DEF KInv

\* A BYE goes out together with the socket of its sender.
LEMMA KnownShutdown ==
  ASSUME IInv, IInv', KInv, ClaimsShrink, NEW n \in Node, Leave(n) \/ Crash(n)
  PROVE  KInv'
<1> USE DEF boundVars
<1> DEFINE ms == IF Leave(n) THEN Bye(n) ELSE {}
<1>1. /\ net' \subseteq net \cup ms /\ Shutdown(n)
      /\ UNCHANGED <<next_client_id, hosts, used>>
  BY SentFresh DEF Leave, Crash
<1>2. udp' = [udp EXCEPT ![n] = NoSocket] /\ udp \in [Node -> Addr \cup {NoSocket}] /\ HostAddr # NoSocket
  BY <1>1, SoftENetAssumption DEF Shutdown, IInv, TypeOK, SoftENetAssumption, Addr
<1>3. /\ \A c \in Clients : udp'[c] \in {udp[c], NoSocket} /\ (Bound(c)' => c # n)
      /\ udp'[Server] = HostAddr => udp[Server] = HostAddr /\ n # Server
  BY <1>2 DEF Node, Bound
<1>4. n # Server => addr_to_id' = addr_to_id
  BY <1>1 DEF Shutdown
<1>5. ASSUME NEW f \in ms
      PROVE  /\ {f.src, f.dst} \cap Ports \subseteq used /\ Foreign(f)
             /\ \A c \in Clients : f.kind = "BYE" /\ Bound(c)' => f.src # udp[c]
  <2>1. is_connected[n] /\ udp[n] # NoSocket
    BY <1>5 DEF Bye
  <2>2. CASE n = Server
    <3>1. f \in FanOut("BYE", 1, {})
      BY <1>5, <2>1, <2>2 DEF Bye
    <3>2. \A c \in Clients : Bound(c)' => Bound(c)
      BY <1>3 DEF Bound
    <3> QED
      BY <3>1, <3>2, FanOutForeign, Ids
  <2>3. CASE n # Server
    <3>1. f = Datagram("BYE", udp[n], HostAddr, local_peer_id[n]) /\ n \in Clients
      BY <1>5, <2>1, <2>3 DEF Bye, Node
    <3>2. f.kind = "BYE" /\ f.src = udp[n] /\ f.dst = HostAddr /\ HostAddr \notin Ports
      BY <3>1, SoftENetAssumption DEF Datagram, SoftENetAssumption
    <3>3. udp[n] \in used
      BY <2>1, <3>1 DEF KInv, PortsUsed, Bound
    <3>4. \A c \in Clients : c # n => udp[c] # udp[n]
      BY <2>1, <3>1 DEF IInv, SocketsOK
    <3> QED
      BY <1>3, <3>2, <3>3, <3>4 DEF Foreign
  <2> QED
    BY <2>2, <2>3
<1>6. \A c \in Clients, q \in Pid : puppets'[c][q] # "none" => puppets[c][q] # "none"
  BY <1>1 DEF Shutdown, NoPuppets, IInv, TypeOK, Node
<1> HIDE DEF ms
<1>7. used \subseteq used' /\ (hosts' = 0 => hosts = 0)
  BY <1>1
<1>8. \A c \in Clients : udp'[Server] = HostAddr /\ Bound(c)' => addr_to_id'[udp[c]] = addr_to_id[udp[c]]
  BY <1>3, <1>4
<1> QED
  BY <1>1, <1>3, <1>5, <1>6, <1>7, <1>8, KnownKept

\* Before the first host() there is nothing to keep.
LEMMA KnownHost ==
  ASSUME MaxHosts <= 1, IInv, IInv', KInv, ClaimsShrink, Host \/ HostBindFails
  PROVE  KInv'
<1> USE DEF sessionVars, boundVars
<1>1. hosts = 0 /\ hosts' # 0
  <2>1. MaxHosts \in Nat
    BY SoftENetAssumption DEF SoftENetAssumption
  <2>2. hosts \in 0..MaxHosts
    BY DEF IInv, TypeOK
  <2>3. hosts < MaxHosts /\ hosts' = hosts + 1
    BY DEF Host, HostBindFails
  <2> QED
    BY <2>1, <2>2, <2>3
<1>2. next_client_id' = next_client_id /\ UNCHANGED <<net, used>>
  BY <1>1 DEF Host, HostBindFails, KInv, OthersOnly, viewVars
<1>3. \A c \in Clients : udp'[c] = udp[c] /\ (Bound(c)' <=> Bound(c))
  BY SoftENetAssumption DEF Host, HostBindFails, SoftENetAssumption, IInv, TypeOK, Node, Bound
<1>4. \A a \in Addr, p \in Pid : ~Claim(a, p) /\ ~(Claim(a, p)')
  BY <1>1 DEF IInv, ClaimsIssued, ClaimsShrink
<1>5. \A c \in Clients : Bound(c) => udp[c] \in Addr
  BY Ids
<1>6. puppets' = puppets
  BY DEF Host, HostBindFails, viewVars
<1>7. PortsUsed'
  BY <1>2, <1>3, <1>4 DEF KInv, PortsUsed
<1>8. OneId'
  <2>1. ASSUME NEW c \in Clients, Bound(c)
        PROVE  /\ \A x \in net : x.kind = "BYE" => x.src # udp'[c]
               /\ \A p \in Pid : ~(Claim(udp[c], p)')
    BY <1>3, <1>4, <1>5, <2>1 DEF KInv, OneId
  <2> QED
    BY <1>2, <1>3, <2>1 DEF OneId
<1>9. OthersOnly'
  <2>1. \A c \in Clients, p \in Pid : Bound(c) => ~(Claim(udp[c], p)')
    BY <1>3, <1>4, <1>5
  <2>2. \A x \in net : x.kind = "STATE" => x.id \in Pid
    BY DEF KInv, OthersOnly
  <2> QED
    BY <1>1, <1>2, <1>3, <1>6, <2>1, <2>2 DEF KInv, OthersOnly
<1> QED
  BY <1>7, <1>8, <1>9 DEF KInv

LEMMA KnownNext ==
  ASSUME MaxHosts <= 1, ~PortReuse, IInv, KInv, [Next]_vars
  PROVE  KInv'
<1> USE DEF sessionVars, boundVars, tableVars, viewVars
<1>1. IInv' /\ TypeOK'
  BY IInvNext DEF IInv
<1>2. ASSUME net' \subseteq net, UNCHANGED <<udp, sessionVars, tableVars, hosts, used>>,
             \A c \in Clients, q \in Pid : puppets'[c][q] # "none" => puppets[c][q] # "none"
      PROVE  KInv'
  <2> DEFINE nothing == {}
  <2>1. net' \subseteq net \cup nothing /\ \A f \in nothing : FALSE
    BY <1>2
  <2> HIDE DEF nothing
  <2>2. ClaimsShrink
    BY <1>1, <1>2, <2>1, QuietStep
  <2> QED
    BY <1>1, <1>2, <2>1, <2>2, KnownQuiet
<1>3. CASE UNCHANGED vars \/ Tick
  BY <1>2, <1>3 DEF vars, Tick
<1>4. CASE ServerStep
  <2>1. CASE HostBroadcasts
    <3> DEFINE ms == FanOut("STATE", 1, {})
    <3>1. net' \subseteq net \cup ms /\ UNCHANGED <<udp, sessionVars, tableVars, hosts, used, puppets>>
      BY <2>1, SentFresh DEF HostBroadcasts
    <3>2. \A f \in ms : Harmless(f)
      BY FanOutIsHarmless
    <3>3. \A f \in ms : /\ {f.src, f.dst} \cap Ports \subseteq used /\ Foreign(f)
                        /\ \A c \in Clients : f.kind = "BYE" /\ Bound(c) => f.src # udp[c]
      BY Ids, FanOutForeign
    <3> HIDE DEF ms
    <3>4. ClaimsShrink
      BY <1>1, <3>1, <3>2, QuietStep
    <3> QED
      BY <1>1, <3>1, <3>3, <3>4, KnownQuiet
  <2> QED
    BY <1>1, <1>4, <2>1, HostStep, KnownHost DEF ServerStep
<1>5. ASSUME NEW c \in Clients, ClientStep(c)
      PROVE  KInv'
  <2>1. CASE Join(c)
    BY <1>1, <2>1, JoinStep, KnownJoin
  <2>2. CASE JoinFails(c)
    <3>1. ClaimsShrink
      BY <1>1, <2>2, JoinStep
    <3> DEFINE nothing == {}
    <3>2. net' \subseteq net \cup nothing /\ \A f \in nothing : FALSE
      BY <2>2 DEF JoinFails
    <3> HIDE DEF nothing
    <3>3. /\ UNCHANGED <<next_client_id, addr_to_id, hosts, used, puppets>>
          /\ \A d \in Clients : udp'[d] \in {udp[d], NoSocket}
          /\ udp'[Server] = udp[Server]
      BY <2>2, SoftENetAssumption DEF JoinFails, SoftENetAssumption, IInv, TypeOK, Node
    <3>4. used \subseteq used' /\ (hosts' = 0 => hosts = 0)
      BY <3>3
    <3> QED
      BY <1>1, <3>1, <3>2, <3>3, <3>4, KnownKept
  <2>3. CASE RetryHello(c)
    <3> DEFINE ms == {Hello(c, udp[c])}
    <3>1. udp[c] \in Ports /\ udp[c] \in used
      BY <2>3 DEF RetryHello, IInv, SocketsOK, KInv, PortsUsed, Bound
    <3>2. net' \subseteq net \cup ms /\ UNCHANGED <<udp, sessionVars, tableVars, hosts, used, puppets>>
      BY <2>3, SentFresh DEF RetryHello
    <3>3. \A f \in ms : /\ {f.src, f.dst} \cap Ports \subseteq used /\ Foreign(f) /\ Harmless(f)
                        /\ \A d \in Clients : f.kind = "BYE" /\ Bound(d) => f.src # udp[d]
      BY <3>1, SoftENetAssumption DEF Hello, Datagram, Foreign, Harmless, SoftENetAssumption
    <3> HIDE DEF ms
    <3>4. ClaimsShrink
      BY <1>1, <3>2, <3>3, QuietStep
    <3> QED
      BY <1>1, <3>2, <3>3, <3>4, KnownQuiet
  <2>4. CASE ClientBroadcasts(c)
    <3> DEFINE f == Datagram("STATE", udp[c], HostAddr, local_peer_id[c])
               ms == {f}
    <3>1. Online(c) /\ udp[c] \in used /\ local_peer_id[c] \in Pid /\ udp[c] \in Addr
      BY <2>4, Ids DEF ClientBroadcasts, IInv, SocketsOK, KInv, PortsUsed, Bound, Online
    <3>2. net' \subseteq net \cup ms /\ UNCHANGED <<udp, sessionVars, tableVars, hosts, used, puppets>>
      BY <2>4, SentFresh DEF ClientBroadcasts
    <3>3. local_peer_id[c] < next_client_id
      BY <3>1 DEF IInv, ClaimsIssued, Claim, ClientClaim
    <3>4. f.kind = "STATE" /\ f.src = udp[c] /\ f.dst = HostAddr /\ f.id = local_peer_id[c]
      BY DEF Datagram
    <3> HIDE DEF f
    <3>5. \A x \in ms : /\ {x.src, x.dst} \cap Ports \subseteq used /\ Foreign(x)
                        /\ \A d \in Clients : x.kind = "BYE" /\ Bound(d) => x.src # udp[d]
      BY <3>1, <3>3, <3>4, Ids, SoftENetAssumption DEF Foreign, SoftENetAssumption
    <3> HIDE DEF ms
    <3> QED
      BY <1>1, <2>4, <3>2, <3>5, BroadcastStep, KnownQuiet
  <2> QED
    BY <1>5, <2>1, <2>2, <2>3, <2>4 DEF ClientStep
<1>6. ASSUME NEW n \in Node, NodeStep(n)
      PROVE  KInv'
  <2>1. CASE FlushDeferred(n) \/ SceneChange(n) \/ PruneStale(n)
    <3>1. \A c \in Clients, q \in Pid : puppets'[c][q] # "none" => puppets[c][q] # "none"
      BY <2>1 DEF FlushDeferred, SceneChange, PruneStale, IInv, TypeOK, Node
    <3> QED
      BY <1>2, <2>1, <3>1 DEF FlushDeferred, SceneChange, PruneStale
  <2> QED
    BY <1>1, <1>6, <2>1, ShutdownStep, KnownShutdown DEF NodeStep
<1>7. ASSUME NEW m \in net, Receive(m)
      PROVE  KInv'
  <2>1. CASE HostReceives(m)
    <3>1. /\ m.dst = HostAddr /\ udp[Server] = HostAddr
          /\ UNCHANGED <<udp, sessionVars, boundVars>>
      BY <2>1 DEF HostReceives
    <3>2. CASE HandleHello(m)
      <4>1. HelloAgain(m) => ClaimsShrink
        BY <1>1, <3>1, <3>2, HelloAgainStep DEF HandleHello
      <4>2. HelloRefused(m) => ClaimsShrink
        <5> SUFFICES ASSUME HelloRefused(m) PROVE ClaimsShrink
          OBVIOUS
        <5> DEFINE nothing == {}
        <5>1. net' \subseteq net \cup nothing /\ \A f \in nothing : Harmless(f)
          BY Kept DEF HelloRefused
        <5> HIDE DEF nothing
        <5> QED
          BY <1>1, <3>1, <5>1, QuietStep DEF HelloRefused
      <4>3. HelloAccepted(m) => \A a \in Addr, p \in Pid :
               Claim(a, p)' => Claim(a, p) \/ (a = m.src /\ p = next_client_id)
        BY <1>1, <3>1, <3>2, HelloAcceptedStep DEF HandleHello
      <4> QED
        BY <1>1, <2>1, <3>2, <4>1, <4>2, <4>3, KnownHello
    <3>3. CASE HandleState(m)
      <4>1. CASE StateAccepted(m)
        BY <1>1, <2>1, <3>1, <3>3, <4>1, StateAcceptedStep, KnownState DEF HandleState
      <4>2. CASE StateDropped(m)
        BY <1>2, <3>1, <4>2, Kept DEF StateDropped
      <4> QED
        BY <3>3, <4>1, <4>2 DEF HandleState
    <3>4. CASE HandleBye(m)
      BY <1>1, <2>1, <3>1, <3>4, ByeStep, KnownBye
    <3> QED
      BY <2>1, <3>2, <3>3, <3>4 DEF HostReceives
  <2>2. ASSUME NEW c \in Clients, ClientReceives(c, m)
        PROVE  KInv'
    <3>1. CASE HandleWelcome(c, m)
      BY <1>1, <2>2, <3>1, WelcomeStep, KnownClient
    <3>2. CASE HandleRelayed(c, m) \/ IgnoreBye(m)
      <4> DEFINE nothing == {}
      <4>1. net' \subseteq net \cup nothing /\ \A f \in nothing : Harmless(f)
        BY <2>2, Kept DEF ClientReceives
      <4> HIDE DEF nothing
      <4>2. ClaimsShrink
        BY <1>1, <2>2, <3>2, <4>1, QuietStep DEF ClientReceives, HandleRelayed, IgnoreBye
      <4> QED
        BY <1>1, <2>2, <4>2, KnownClient
    <3> QED
      BY <2>2, <3>1, <3>2 DEF ClientReceives
  <2>3. CASE Undeliverable(m)
    BY <1>2, <2>3 DEF Undeliverable
  <2> QED
    BY <1>7, <2>1, <2>2, <2>3 DEF Receive
<1> QED
  BY <1>3, <1>4, <1>5, <1>6, <1>7 DEF Next

LEMMA KnownMeans == IInv /\ KInv => PlayersKnown
<1> SUFFICES ASSUME IInv, KInv, NEW c \in Clients, Online(c)
             PROVE  /\ addr_to_id[udp[c]] # NoPid => addr_to_id[udp[c]] = local_peer_id[c]
                    /\ puppets[c][local_peer_id[c]] = "none"
  BY DEF PlayersKnown, HostKnowsClientsOwnId, NoSelfPuppet
<1>1. Bound(c) /\ udp[c] \in Addr /\ local_peer_id[c] \in Pid
  BY Ids DEF Online, Bound, IInv, SocketsOK
<1>2. Claim(udp[c], local_peer_id[c])
  BY DEF Claim, ClientClaim
<1>3. addr_to_id[udp[c]] # NoPid => addr_to_id[udp[c]] \in Pid /\ Claim(udp[c], addr_to_id[udp[c]])
  BY <1>1 DEF IInv, TypeOK, Claim
<1> QED
  BY <1>1, <1>2, <1>3 DEF KInv, OneId, OthersOnly

\* In one host session, on ports that are not handed out twice, the host knows
\* every online client by the id that the client itself uses, and no client
\* sees a puppet of itself, for any number of clients and with loss,
\* duplication and reordering: HELLO, WELCOME, STATE and BYE of
\* _handle_host_packet and _handle_client_packet never make the two disagree.
THEOREM PlayersAlwaysKnown ==
  MaxHosts <= 1 /\ ~PortReuse => (Spec => []PlayersKnown)
<1> SUFFICES ASSUME MaxHosts <= 1, ~PortReuse PROVE Spec => []PlayersKnown
  OBVIOUS
<1>1. IInv /\ KInv /\ [Next]_vars => (IInv /\ KInv)'
  BY IInvNext, KnownNext
<1> QED
  BY <1>1, IInvInit, KnownInit, KnownMeans, PTL DEF Spec

-------------------------------------------------------------------------------
(* PadClaim.                                                               *)

\* ContestIsTracked, MeterBelowNeed and GuardOfContest of a pad record.
Tracked(p) == (p.current = CONTESTED) <=> (p.status = "contested")

Metered(p) ==
  /\ p.current = NEUTRAL => p.strength < SOFT_NEED
  /\ p.current = CONTESTED => p.strength < CLAIM_NEED
  /\ p.current \in Sides => p.strength = 0 /\ p.side = NoSide

Guarded(p) ==
  p.guard # NoSide =>
    /\ p.current = CONTESTED
    /\ ~p.guard_up => p.respawn > 0

\* A contest remembers a side, so its decay has somebody to fall back to.
Remembered(p) == p.current = CONTESTED => p.previous \in Sides

\* All but Guarded: what holds inside a tick as well.
Core(p) == p \in PadStates /\ Tracked(p) /\ Metered(p) /\ Remembered(p)

Good(p) == Core(p) /\ Guarded(p)

\* p and q agree on the owner and on whether he is contested.
SameHold(p, q) == q.current = p.current /\ q.previous = p.previous

PadInv ==
  /\ Good(pad)
  /\ occupant \in Sides \cup {NoSide}
  /\ ship \in Sides \cup {NoSide}
  /\ ship # NoSide => occupant # NoSide

-----------------------------------------------------------------------------
(* Numbers and names.                                                      *)

LEMMA Names ==
  /\ NEUTRAL \notin Sides /\ CONTESTED \notin Sides /\ NoSide \notin Sides
  /\ NEUTRAL # CONTESTED
  /\ Cybernex \in Sides
  /\ \A f \in Sides : Other(f) \in Sides /\ Other(f) # f
BY DEF NEUTRAL, CONTESTED, NoSide, Sides, Cybernex, gROT, Other

LEMMA BoostedNat ==
  ASSUME NEW a \in Nat \ {0}, NEW i \in Nat
  PROVE  Boosted(a, i) \in Nat \ {0}
<1>1. a * i \in Nat
  OBVIOUS
<1> DEFINE b == a * i
<1>2. b \div 100 \in Nat
  <2>1. b \in Nat
    BY <1>1
  <2> HIDE DEF b
  <2> QED
    BY <2>1
<1> QED
  BY <1>2 DEF Boosted

LEMMA Between ==
  ASSUME NEW a \in Int, NEW b \in Int
  PROVE  /\ Smaller(a, b) \in {a, b} /\ Smaller(a, b) <= a /\ Smaller(a, b) <= b
         /\ Larger(a, b) \in {a, b} /\ Larger(a, b) >= a /\ Larger(a, b) >= b
BY DEF Smaller, Larger

-----------------------------------------------------------------------------
(* The calls.                                                              *)

LEMMA ClearGuardLeaves ==
  ASSUME NEW p \in PadStates
  PROVE  /\ ClearGuard(p) \in PadStates
         /\ ClearGuard(p) = [p EXCEPT !.guard = NoSide, !.guard_up = FALSE]
         /\ ClearGuard(p).guard = NoSide
         /\ ClearGuard(p).current = p.current
         /\ ClearGuard(p).previous = p.previous
         /\ ClearGuard(p).progress = p.progress
         /\ ClearGuard(p).strength = p.strength
         /\ ClearGuard(p).side = p.side
         /\ ClearGuard(p).status = p.status
BY DEF ClearGuard, PadStates

LEMMA StartTransitionTurns ==
  ASSUME NEW p \in PadStates, NEW f \in Sides \cup {CONTESTED}
  PROVE  LET q == StartTransition(p, f) IN
         /\ q \in PadStates
         /\ q.current = f
         /\ p.current # f => q.previous = p.current
         /\ q.strength = p.strength
<1>1. 0 \in 0..TRANSITION
  BY PadAssumption DEF PadAssumption
<1>2. CASE f = p.current
  BY <1>2 DEF StartTransition
<1>3. CASE f # p.current
  <2> DEFINE q == [p EXCEPT !.previous = p.current, !.current = f,
                            !.progress = 0]
  <2>1. q \in PadStates
    BY <1>1 DEF PadStates
  <2>2. q.current = f /\ q.previous = p.current /\ q.strength = p.strength
    BY DEF PadStates
  <2> QED
    BY <1>3, <2>1, <2>2 DEF StartTransition
<1> QED
  BY <1>2, <1>3

LEMMA LockToHolds ==
  ASSUME NEW p \in PadStates, NEW f \in Sides
  PROVE  LET q == LockTo(p, f) IN
         /\ Good(q)
         /\ q.current = f /\ q.guard = NoSide /\ q.status = "claiming"
         /\ q.strength = 0 /\ q.side = NoSide
<1> DEFINE s == StartTransition(p, f)
           t == [s EXCEPT !.strength = 0, !.side = NoSide, !.status = "claiming"]
<1>1. s \in PadStates /\ s.current = f
  BY StartTransitionTurns
<1> HIDE DEF s
<1>2. /\ t \in PadStates /\ t.current = f /\ t.strength = 0
      /\ t.side = NoSide /\ t.status = "claiming"
  BY <1>1 DEF PadStates
<1>3. LockTo(p, f) = ClearGuard(t)
  BY DEF LockTo, s
<1> HIDE DEF t
<1>4. /\ ClearGuard(t) \in PadStates /\ ClearGuard(t).guard = NoSide
      /\ ClearGuard(t).current = f /\ ClearGuard(t).strength = 0
      /\ ClearGuard(t).side = NoSide /\ ClearGuard(t).status = "claiming"
  BY <1>2, ClearGuardLeaves
<1> QED
  BY <1>3, <1>4, Names
  DEF Good, Core, Tracked, Metered, Remembered, Guarded

LEMMA DefenderIsSide ==
  ASSUME NEW p \in PadStates
  PROVE  DefenderSide(p) \in Sides
BY PadAssumption DEF DefenderSide, FullyOwned, PadAssumption

LEMMA EnsureGuardKeeps ==
  ASSUME NEW p \in PadStates
  PROVE  LET q == EnsureGuard(p) IN
         /\ q \in PadStates
         /\ q.current = p.current /\ q.previous = p.previous
         /\ q.progress = p.progress /\ q.strength = p.strength
         /\ q.side = p.side /\ q.status = p.status /\ q.respawn = p.respawn
         /\ q.influence = p.influence
         /\ q = p \/ (q.guard = DefenderSide(p) /\ q.guard_up = TRUE)
<1> DEFINE r == [p EXCEPT !.guard = DefenderSide(p), !.guard_up = TRUE]
<1>1. EnsureGuard(p) = p \/ EnsureGuard(p) = r
  BY DEF EnsureGuard
<1>2. r \in PadStates
  BY DefenderIsSide DEF PadStates
<1>3. /\ r.current = p.current /\ r.previous = p.previous
      /\ r.progress = p.progress /\ r.strength = p.strength
      /\ r.side = p.side /\ r.status = p.status /\ r.respawn = p.respawn
      /\ r.influence = p.influence
      /\ r.guard = DefenderSide(p) /\ r.guard_up = TRUE
  BY DEF PadStates
<1> QED
  BY <1>1, <1>2, <1>3

LEMMA EnsureGuardGood ==
  ASSUME NEW p, Core(p)
  PROVE  /\ Core(EnsureGuard(p))
         /\ Guarded(p) /\ p.current = CONTESTED => Good(EnsureGuard(p))
         /\ SameHold(p, EnsureGuard(p))
<1> DEFINE q == EnsureGuard(p)
<1>1. /\ q \in PadStates
      /\ q.current = p.current /\ q.previous = p.previous
      /\ q.strength = p.strength /\ q.side = p.side /\ q.status = p.status
      /\ q = p \/ q.guard_up = TRUE
  BY EnsureGuardKeeps DEF Core
<1> HIDE DEF q
<1>2. Core(q) /\ SameHold(p, q)
  BY <1>1 DEF Core, Tracked, Metered, Remembered, SameHold
<1>3. Guarded(p) /\ p.current = CONTESTED => Guarded(q)
  BY <1>1 DEF Guarded
<1> QED
  BY <1>2, <1>3 DEF Good, q

LEMMA SidesKept ==
  ASSUME NEW p, Core(p), NEW q \in PadStates, SameHold(p, q),
         q.strength = p.strength, q.side = p.side,
         q.status = "contested" <=> p.status = "contested"
  PROVE  /\ Core(q)
         /\ Guarded(p) /\ q.guard = p.guard /\ q.guard_up = p.guard_up
              /\ q.respawn = p.respawn
              => Good(q)
<1>1. Core(q)
  BY DEF Core, Tracked, Metered, Remembered, SameHold
<1>2. Guarded(p) /\ q.guard = p.guard /\ q.guard_up = p.guard_up
        /\ q.respawn = p.respawn => Guarded(q)
  BY DEF Guarded, SameHold
<1> QED
  BY <1>1, <1>2 DEF Good

\* A guard set up in a contest that has just opened fights for the old owner.
LEMMA OpenContestOpens ==
  ASSUME NEW p \in PadStates, p.current \in Sides, p.guard = NoSide,
         NEW f \in Sides, NEW a \in ClaimAmounts
  PROVE  LET q == OpenContest(p, f, a) IN
         /\ Good(q)
         /\ q.current = CONTESTED /\ q.previous = p.current /\ q.side = f
         /\ q.strength = Larger(a, OPEN_MIN) /\ q.strength < CLAIM_NEED
         /\ q.influence = p.influence
         /\ q.guard \in {NoSide, p.current} /\ q.status = "contested"
<1> DEFINE o == [p EXCEPT !.previous = p.current, !.current = CONTESTED,
                          !.progress = TRANSITION, !.side = f,
                          !.strength = Larger(a, OPEN_MIN),
                          !.status = "contested"]
<1>1. /\ a \in Nat /\ OPEN_MIN \in Nat /\ TRANSITION \in 0..TRANSITION
      /\ a < CLAIM_NEED /\ OPEN_MIN < CLAIM_NEED
  BY PadAssumption DEF PadAssumption
<1>2. Larger(a, OPEN_MIN) \in Nat /\ Larger(a, OPEN_MIN) < CLAIM_NEED
  BY <1>1 DEF Larger
<1>3. o \in PadStates
  BY <1>1, <1>2 DEF PadStates
<1>4. /\ o.current = CONTESTED /\ o.previous = p.current /\ o.side = f
      /\ o.strength = Larger(a, OPEN_MIN) /\ o.status = "contested"
      /\ o.guard = NoSide /\ o.influence = p.influence
  BY DEF PadStates
<1>5. OpenContest(p, f, a) = EnsureGuard(o)
  BY DEF OpenContest
<1> HIDE DEF o
<1>6. Core(o) /\ Guarded(o)
  BY <1>2, <1>3, <1>4, Names
  DEF Core, Tracked, Metered, Remembered, Guarded
<1>7. Good(EnsureGuard(o))
  BY <1>4, <1>6, EnsureGuardGood
<1>8. DefenderSide(o) = p.current
  BY <1>4, Names DEF DefenderSide, FullyOwned
<1> DEFINE e == EnsureGuard(o)
<1>9. /\ e.current = o.current /\ e.previous = o.previous
      /\ e.strength = o.strength /\ e.side = o.side /\ e.status = o.status
      /\ e.influence = o.influence
      /\ e = o \/ e.guard = p.current
  BY <1>3, <1>8, EnsureGuardKeeps
<1>10. e.guard \in {NoSide, p.current}
  BY <1>4, <1>9
<1> HIDE DEF e
<1> QED
  BY <1>2, <1>4, <1>5, <1>7, <1>9, <1>10 DEF e

LEMMA MeterTowardMoves ==
  ASSUME NEW p \in PadStates, NEW f \in Sides, NEW b \in Nat
  PROVE  LET m == MeterToward(p, f, b) IN
         /\ m \in PadStates
         /\ SameHold(p, m)
         /\ m.status = p.status
         /\ m.guard = p.guard /\ m.guard_up = p.guard_up
         /\ m.respawn = p.respawn
         /\ p.side \in Sides \ {f} =>
              m.strength <= p.strength \/ m.strength <= b
<1>1. p.strength \in Nat
  BY DEF PadStates
<1>2. CASE p.side \in {NoSide, f}
  <2> DEFINE m == [p EXCEPT !.side = f, !.strength = @ + b]
  <2>1. MeterToward(p, f, b) = m
    BY <1>2 DEF MeterToward
  <2>0. p.strength + b \in Nat
    BY <1>1
  <2>2. m \in PadStates
    BY <2>0 DEF PadStates
  <2>3. /\ SameHold(p, m) /\ m.status = p.status /\ m.guard = p.guard
        /\ m.guard_up = p.guard_up /\ m.respawn = p.respawn
    BY DEF PadStates, SameHold
  <2>4. p.side \notin Sides \ {f}
    BY <1>2, Names
  <2> QED
    BY <2>1, <2>2, <2>3, <2>4
<1>3. CASE p.side \notin {NoSide, f} /\ p.strength > b
  <2> DEFINE m == [p EXCEPT !.strength = @ - b]
  <2>1. MeterToward(p, f, b) = m
    BY <1>3 DEF MeterToward
  <2>2. m \in PadStates
    BY <1>1, <1>3 DEF PadStates
  <2> QED
    BY <1>1, <2>1, <2>2 DEF PadStates, SameHold
<1>4. CASE p.side \notin {NoSide, f} /\ ~(p.strength > b)
  <2> DEFINE m == [p EXCEPT !.side = f, !.strength = b - @]
  <2>1. MeterToward(p, f, b) = m
    BY <1>4 DEF MeterToward
  <2>2. b - p.strength \in Nat
    BY <1>1, <1>4
  <2>3. m \in PadStates
    BY <2>2 DEF PadStates
  <2> QED
    BY <1>1, <2>1, <2>2, <2>3 DEF PadStates, SameHold
<1> QED
  BY <1>2, <1>3, <1>4

\* What a claim does with a Good pad: it counts, locks it or opens a contest.
NudgeOutcome(p, f, a, q) ==
  \/ SameHold(p, q)
  \/ /\ p.current \in {NEUTRAL, CONTESTED}
     /\ q.current = f /\ q.guard = NoSide /\ q.status = "claiming"
  \/ /\ p.current \in Sides \ {f}
     /\ q = OpenContest(p, f, a)

LEMMA NudgeClaimGood ==
  ASSUME NEW p, Good(p), NEW f \in Sides, NEW a \in ClaimAmounts
  PROVE  /\ Good(NudgeClaim(p, f, a))
         /\ NudgeOutcome(p, f, a, NudgeClaim(p, f, a))
<1> DEFINE b == Boosted(a, p.influence)
           m == MeterToward(p, f, b)
           n == NudgeClaim(p, f, a)
           c == [m EXCEPT !.status = "contested"]
<1>1. p \in PadStates /\ Tracked(p) /\ Metered(p) /\ Remembered(p) /\ Guarded(p)
  BY DEF Good, Core
<1>2. a \in Nat \ {0} /\ p.influence \in Nat
  BY <1>1, PadAssumption DEF PadAssumption, PadStates
<1>3. b \in Nat
  BY <1>2, BoostedNat
<1> HIDE DEF b
<1>4. /\ m \in PadStates /\ SameHold(p, m) /\ m.status = p.status
      /\ m.guard = p.guard /\ m.guard_up = p.guard_up /\ m.respawn = p.respawn
      /\ m.strength \in Nat
  <2>1. /\ m \in PadStates /\ SameHold(p, m) /\ m.status = p.status
        /\ m.guard = p.guard /\ m.guard_up = p.guard_up /\ m.respawn = p.respawn
    BY <1>1, <1>3, MeterTowardMoves
  <2> HIDE DEF m
  <2> QED
    BY <2>1 DEF PadStates
<1>5. CASE p.current = NEUTRAL
  <2>1. n = IF m.strength >= SOFT_NEED THEN LockTo(m, f) ELSE m
    BY <1>5 DEF NudgeClaim, b
  <2>2. m.current = p.current /\ m.previous = p.previous
    BY <1>4 DEF SameHold
  <2>3. CASE m.strength >= SOFT_NEED
    <3>1. Good(LockTo(m, f))
      BY <1>4, LockToHolds
    <3>2. /\ LockTo(m, f).current = f /\ LockTo(m, f).guard = NoSide
          /\ LockTo(m, f).status = "claiming"
      BY <1>4, LockToHolds
    <3> QED
      BY <1>5, <2>1, <2>3, <3>1, <3>2 DEF NudgeOutcome
  <2>4. CASE ~(m.strength >= SOFT_NEED)
    <3>1. m.strength < SOFT_NEED
      BY <1>4, <2>4, PadAssumption DEF PadAssumption
    <3> HIDE DEF m
    <3>2. Good(m)
      BY <1>1, <1>4, <1>5, <2>2, <3>1, Names
      DEF Good, Core, Tracked, Metered, Remembered, Guarded
    <3> QED
      BY <1>4, <2>1, <2>4, <3>2 DEF NudgeOutcome
  <2> QED
    BY <2>3, <2>4
<1>6. CASE p.current = CONTESTED
  <2>1. n = IF m.strength >= CLAIM_NEED THEN LockTo(m, f) ELSE c
    BY <1>6, Names DEF NudgeClaim, b
  <2>2. m.current = p.current /\ m.previous = p.previous
    BY <1>4 DEF SameHold
  <2>3. CASE m.strength >= CLAIM_NEED
    <3>1. Good(LockTo(m, f))
      BY <1>4, LockToHolds
    <3>2. /\ LockTo(m, f).current = f /\ LockTo(m, f).guard = NoSide
          /\ LockTo(m, f).status = "claiming"
      BY <1>4, LockToHolds
    <3> QED
      BY <1>6, <2>1, <2>3, <3>1, <3>2 DEF NudgeOutcome
  <2>4. CASE ~(m.strength >= CLAIM_NEED)
    <3>1. m.strength < CLAIM_NEED
      BY <1>4, <2>4, PadAssumption DEF PadAssumption
    <3> HIDE DEF m
    <3>2. /\ c \in PadStates /\ c.current = m.current /\ c.previous = m.previous
          /\ c.strength = m.strength /\ c.guard = m.guard
          /\ c.guard_up = m.guard_up /\ c.respawn = m.respawn
          /\ c.status = "contested"
      BY <1>4 DEF PadStates
    <3> HIDE DEF c
    <3>3. Good(c)
      BY <1>1, <1>4, <1>6, <2>2, <3>1, <3>2, Names
      DEF Good, Core, Tracked, Metered, Remembered, Guarded
    <3> QED
      BY <2>1, <2>2, <2>4, <3>2, <3>3 DEF NudgeOutcome, SameHold
  <2> QED
    BY <2>3, <2>4
<1>7. CASE p.current \in Sides /\ p.current # f
  <2>1. n = OpenContest(p, f, a)
    BY <1>7, Names DEF NudgeClaim
  <2>2. p.guard = NoSide
    BY <1>1, <1>7, Names DEF Guarded
  <2>3. Good(OpenContest(p, f, a))
    BY <1>1, <1>7, <2>2, OpenContestOpens
  <2> QED
    BY <1>7, <2>1, <2>3 DEF NudgeOutcome
<1>8. CASE p.current = f
  <2>1. n = p
    BY <1>8, Names DEF NudgeClaim
  <2> QED
    BY <2>1 DEF NudgeOutcome, SameHold
<1> QED
  BY <1>1, <1>5, <1>6, <1>7, <1>8 DEF PadStates

LEMMA DecayContestGood ==
  ASSUME NEW p, Good(p), p.status = "contested"
  PROVE  LET q == DecayContest(p) IN
         /\ Good(q)
         /\ SameHold(p, q) \/ q.current = p.previous
         /\ p.current = CONTESTED /\ p.previous \in Sides
<1> DEFINE d == [p EXCEPT !.strength = Larger(0, @ - DECAY_RATE)]
           o == [d EXCEPT !.side = NoSide, !.strength = 0]
           c == ClearGuard(o)
           e == [c EXCEPT !.current = p.previous, !.progress = TRANSITION,
                          !.status = "owned"]
<1>1. /\ p \in PadStates /\ Metered(p) /\ Guarded(p)
      /\ p.current = CONTESTED /\ p.previous \in Sides
  BY DEF Good, Core, Tracked, Remembered
<1>2. /\ p.strength \in Nat /\ p.strength < CLAIM_NEED
      /\ DECAY_RATE \in Nat /\ TRANSITION \in 0..TRANSITION
      /\ CLAIM_NEED \in Nat
  BY <1>1, PadAssumption DEF PadAssumption, PadStates, Metered
<1>3. /\ Larger(0, p.strength - DECAY_RATE) \in Nat
      /\ Larger(0, p.strength - DECAY_RATE) < CLAIM_NEED
  BY <1>2, PadAssumption DEF Larger, PadAssumption
<1>4. /\ d \in PadStates /\ SameHold(p, d)
      /\ d.strength < CLAIM_NEED /\ d.status = "contested"
      /\ d.guard = p.guard /\ d.guard_up = p.guard_up /\ d.respawn = p.respawn
  BY <1>1, <1>3 DEF PadStates, SameHold
<1>5. CASE d.strength > SPENT
  <2>1. DecayContest(p) = d
    BY <1>1, <1>5 DEF DecayContest
  <2> HIDE DEF d
  <2>2. d.current = CONTESTED /\ d.previous \in Sides
    BY <1>1, <1>4 DEF SameHold
  <2>3. Good(d)
    BY <1>1, <1>4, <2>2, Names
    DEF Good, Core, Tracked, Metered, Remembered, Guarded
  <2> QED
    BY <1>1, <1>4, <2>1, <2>3
<1>6. CASE ~(d.strength > SPENT)
  <2>1. DecayContest(p) = e
    BY <1>1, <1>6 DEF DecayContest
  <2>2. o \in PadStates /\ o.strength = 0 /\ o.side = NoSide
    BY <1>4 DEF PadStates
  <2> HIDE DEF o
  <2>3. /\ c \in PadStates /\ c.strength = 0 /\ c.side = NoSide
        /\ c.guard = NoSide
    BY <2>2, ClearGuardLeaves
  <2> HIDE DEF c
  <2>4. e \in PadStates
    <3>1. TRANSITION \in 0..TRANSITION
      BY <1>2
    <3> DEFINE f == p.previous
    <3>2. f \in Sides /\ c \in PadStates
      BY <1>1, <2>3
    <3> HIDE DEF f
    <3>3. [c EXCEPT !.current = f, !.progress = TRANSITION,
                    !.status = "owned"] \in PadStates
      BY <3>1, <3>2 DEF PadStates
    <3> QED
      BY <3>3 DEF f
  <2>5. /\ e.current = p.previous /\ e.strength = 0 /\ e.side = NoSide
        /\ e.guard = NoSide /\ e.status = "owned"
    BY <2>3 DEF PadStates
  <2> HIDE DEF e
  <2>6. Good(e)
    BY <1>1, <2>4, <2>5, Names
    DEF Good, Core, Tracked, Metered, Remembered, Guarded
  <2> QED
    BY <1>1, <2>1, <2>5, <2>6
<1> QED
  BY <1>5, <1>6

-----------------------------------------------------------------------------
(* The parts of a tick.                                                    *)

LEMMA TickTransitionGood ==
  ASSUME NEW p, Good(p)
  PROVE  Good(TickTransition(p)) /\ SameHold(p, TickTransition(p))
<1> DEFINE a == AdvanceTransition(p)
           o == [a EXCEPT !.status = "owned"]
<1>1. p \in PadStates /\ Tracked(p) /\ Core(p) /\ Guarded(p)
  BY DEF Good, Core
<1>2. Smaller(TRANSITION, p.progress + 1) \in 0..TRANSITION
  BY <1>1, PadAssumption DEF PadAssumption, PadStates, Smaller
<1>3. /\ a \in PadStates /\ SameHold(p, a) /\ a.strength = p.strength
      /\ a.side = p.side /\ a.status = p.status /\ a.guard = p.guard
      /\ a.guard_up = p.guard_up /\ a.respawn = p.respawn
  BY <1>1, <1>2 DEF AdvanceTransition, PadStates, SameHold
<1> HIDE DEF a
<1>4. Good(a)
  BY <1>1, <1>3, SidesKept
<1>5. CASE p.current # CONTESTED
  <2>1. /\ o \in PadStates /\ SameHold(p, o) /\ o.strength = p.strength
        /\ o.side = p.side /\ o.status = "owned" /\ o.guard = p.guard
        /\ o.guard_up = p.guard_up /\ o.respawn = p.respawn
    BY <1>3 DEF PadStates, SameHold
  <2>2. p.status # "contested"
    BY <1>1, <1>5 DEF Tracked
  <2> HIDE DEF o
  <2>3. Good(o)
    BY <1>1, <2>1, <2>2, SidesKept
  <2>4. TickTransition(p) \in {p, a, o}
    BY DEF TickTransition, a, o
  <2> QED
    BY <1>3, <1>4, <2>1, <2>3, <2>4 DEF SameHold
<1>6. CASE p.current = CONTESTED
  <2>1. TickTransition(p) = p
    BY <1>6 DEF TickTransition
  <2> QED
    BY <2>1 DEF SameHold
<1> QED
  BY <1>5, <1>6

LEMMA TickArenaInfluenceGood ==
  ASSUME NEW p, Good(p)
  PROVE  Good(TickArenaInfluence(p)) /\ SameHold(p, TickArenaInfluence(p))
<1> DEFINE q == TickArenaInfluence(p)
<1>1. p \in PadStates /\ Core(p) /\ Guarded(p)
  BY DEF Good, Core
<1>2. Larger(0, p.influence - INFLUENCE_DECAY) \in 0..INFLUENCE_MAX
  BY <1>1, PadAssumption DEF PadAssumption, PadStates, Larger
<1>3. /\ q \in PadStates /\ SameHold(p, q) /\ q.strength = p.strength
      /\ q.side = p.side /\ q.status = p.status /\ q.guard = p.guard
      /\ q.guard_up = p.guard_up /\ q.respawn = p.respawn
  BY <1>1, <1>2 DEF TickArenaInfluence, PadStates, SameHold
<1> HIDE DEF q
<1>4. Good(q)
  BY <1>1, <1>3, SidesKept
<1> QED
  BY <1>3, <1>4 DEF q

LEMMA TickGuardRespawnGood ==
  ASSUME NEW p, Good(p)
  PROVE  Good(TickGuardRespawn(p)) /\ SameHold(p, TickGuardRespawn(p))
<1> DEFINE r == [p EXCEPT !.respawn = 0]
           s == [p EXCEPT !.respawn = @ - 1]
           c == ClearGuard(r)
<1>1. /\ p \in PadStates /\ Core(p) /\ Guarded(p) /\ Tracked(p)
  BY DEF Good, Core
<1>2. p.respawn \in 0..RESPAWN /\ RESPAWN \in Nat
  BY <1>1, PadAssumption DEF PadAssumption, PadStates
<1>3. /\ r \in PadStates /\ SameHold(p, r) /\ r.strength = p.strength
      /\ r.side = p.side /\ r.status = p.status /\ r.guard = p.guard
      /\ r.guard_up = p.guard_up
  BY <1>1, <1>2 DEF PadStates, SameHold
<1>4. CASE p.status # "contested"
  <2>1. TickGuardRespawn(p) = r
    BY <1>4 DEF TickGuardRespawn
  <2> HIDE DEF r
  <2>2. p.guard = NoSide
    BY <1>1, <1>4 DEF Guarded, Tracked
  <2>3. Core(r) /\ Guarded(r)
    BY <1>1, <1>3, <2>2, SidesKept DEF Guarded
  <2> QED
    BY <1>3, <2>1, <2>3 DEF Good
<1>5. CASE p.status = "contested" /\ (GuardAlive(p) \/ p.respawn = 0)
  <2>1. TickGuardRespawn(p) = p
    BY <1>5 DEF TickGuardRespawn
  <2> QED
    BY <2>1 DEF SameHold
<1>6. CASE /\ p.status = "contested" /\ ~(GuardAlive(p) \/ p.respawn = 0)
           /\ p.respawn > 1
  <2>1. TickGuardRespawn(p) = s
    BY <1>6 DEF TickGuardRespawn
  <2>2. p.respawn - 1 \in 0..RESPAWN /\ p.respawn - 1 > 0
    BY <1>2, <1>6
  <2>3. /\ s \in PadStates /\ SameHold(p, s) /\ s.strength = p.strength
        /\ s.side = p.side /\ s.status = p.status /\ s.guard = p.guard
        /\ s.guard_up = p.guard_up /\ s.respawn > 0
    BY <1>1, <2>2 DEF PadStates, SameHold
  <2> HIDE DEF s
  <2>4. Core(s)
    BY <1>1, <2>3, SidesKept
  <2>5. Guarded(s)
    BY <1>1, <2>3 DEF Guarded, SameHold
  <2> QED
    BY <2>1, <2>3, <2>4, <2>5 DEF Good
<1>7. CASE /\ p.status = "contested" /\ ~(GuardAlive(p) \/ p.respawn = 0)
           /\ ~(p.respawn > 1)
  <2>1. TickGuardRespawn(p) = EnsureGuard(c)
    BY <1>7 DEF TickGuardRespawn
  <2> HIDE DEF r
  <2>2. /\ c \in PadStates /\ c.current = r.current /\ c.previous = r.previous
        /\ c.strength = r.strength /\ c.side = r.side /\ c.status = r.status
        /\ c.guard = NoSide
    BY <1>3, ClearGuardLeaves
  <2> HIDE DEF c
  <2>3. SameHold(p, c)
    BY <1>3, <2>2 DEF SameHold
  <2>4. Core(c) /\ Guarded(c)
    BY <1>1, <1>3, <2>2, <2>3, SidesKept DEF Guarded
  <2>5. c.current = CONTESTED
    BY <1>1, <1>7, <2>3 DEF Tracked, SameHold
  <2>6. Good(EnsureGuard(c)) /\ SameHold(c, EnsureGuard(c))
    BY <2>4, <2>5, EnsureGuardGood
  <2> QED
    BY <2>1, <2>3, <2>6 DEF SameHold
<1> QED
  BY <1>4, <1>5, <1>6, <1>7

LEMMA TickHarvestGood ==
  ASSUME NEW p, Good(p), p.current \in Sides
  PROVE  Good(TickHarvest(p)) /\ SameHold(p, TickHarvest(p))
<1> DEFINE q == TickHarvest(p)
           e == [p EXCEPT !.status = "depleted"]
           h == [p EXCEPT !.reserves = @ - Smaller(@, EXTRACT),
                          !.status = "extracting", !.paid = p.current]
<1>1. p \in PadStates /\ Core(p) /\ Guarded(p) /\ Tracked(p)
  BY DEF Good, Core
<1>2. p.status # "contested"
  BY <1>1, Names DEF Tracked
<1>3. p.reserves - Smaller(p.reserves, EXTRACT) \in 0..MAX_RESERVES
  BY <1>1, PadAssumption DEF PadAssumption, PadStates, Smaller
<1>4. /\ e \in PadStates /\ SameHold(p, e) /\ e.strength = p.strength
      /\ e.side = p.side /\ e.status # "contested" /\ e.guard = p.guard
      /\ e.guard_up = p.guard_up /\ e.respawn = p.respawn
  BY <1>1 DEF PadStates, SameHold
<1>5. /\ h \in PadStates /\ SameHold(p, h) /\ h.strength = p.strength
      /\ h.side = p.side /\ h.status # "contested" /\ h.guard = p.guard
      /\ h.guard_up = p.guard_up /\ h.respawn = p.respawn
  BY <1>1, <1>3 DEF PadStates, SameHold
<1>6. q = e \/ q = h
  BY DEF TickHarvest
<1> HIDE DEF q, e, h
<1>7. Good(q)
  BY <1>1, <1>2, <1>4, <1>5, <1>6, SidesKept
<1> QED
  BY <1>4, <1>5, <1>6, <1>7 DEF q

LEMMA TickReserveRegenGood ==
  ASSUME NEW p, Good(p)
  PROVE  Good(TickReserveRegen(p)) /\ SameHold(p, TickReserveRegen(p))
<1> DEFINE q == TickReserveRegen(p)
           n == Smaller(MAX_RESERVES, p.reserves + REGEN)
           s == IF FullyOwned(p) THEN "owned" ELSE "unclaimed"
           r == [p EXCEPT !.reserves = n]
           t == [p EXCEPT !.reserves = n, !.status = s]
<1>1. p \in PadStates /\ Core(p) /\ Guarded(p)
  BY DEF Good, Core
<1>2. n \in 0..MAX_RESERVES
  BY <1>1, PadAssumption DEF PadAssumption, PadStates, Smaller
<1>3. s \in {"owned", "unclaimed"}
  OBVIOUS
<1>4. q = p \/ q = r \/ (p.status = "depleted" /\ q = t)
  BY DEF TickReserveRegen
<1> HIDE DEF q, n, s
<1>5. /\ r \in PadStates /\ SameHold(p, r) /\ r.strength = p.strength
      /\ r.side = p.side /\ r.status = p.status /\ r.guard = p.guard
      /\ r.guard_up = p.guard_up /\ r.respawn = p.respawn
  BY <1>1, <1>2 DEF PadStates, SameHold
<1>6. /\ t \in PadStates /\ SameHold(p, t) /\ t.strength = p.strength
      /\ t.side = p.side /\ t.status # "contested" /\ t.guard = p.guard
      /\ t.guard_up = p.guard_up /\ t.respawn = p.respawn
  BY <1>1, <1>2, <1>3 DEF PadStates, SameHold
<1> HIDE DEF r, t
<1>7. Good(q)
  BY <1>1, <1>4, <1>5, <1>6, SidesKept
<1> QED
  BY <1>4, <1>5, <1>6, <1>7 DEF q, SameHold

LEMMA TickWorksGood ==
  ASSUME NEW p, Good(p)
  PROVE  Good(TickWorks(p)) /\ SameHold(p, TickWorks(p))
<1> DEFINE s == IF p.status = "extracting" THEN "owned" ELSE p.status
           q == [p EXCEPT !.status = s]
<1>1. p \in PadStates /\ Core(p) /\ Guarded(p)
  BY DEF Good, Core
<1>2. /\ s \in {"unclaimed", "claiming", "contested", "owned", "extracting",
                "depleted"}
      /\ s = "contested" <=> p.status = "contested"
  BY <1>1 DEF PadStates
<1> HIDE DEF s
<1>3. /\ q \in PadStates /\ SameHold(p, q) /\ q.strength = p.strength
      /\ q.side = p.side /\ q.status = s /\ q.guard = p.guard
      /\ q.guard_up = p.guard_up /\ q.respawn = p.respawn
  BY <1>1, <1>2 DEF PadStates, SameHold
<1> HIDE DEF q
<1>4. Good(q)
  BY <1>1, <1>2, <1>3, SidesKept
<1>5. Good(TickReserveRegen(q)) /\ SameHold(p, TickReserveRegen(q))
  BY <1>3, <1>4, TickReserveRegenGood DEF SameHold
<1>6. CASE FullyOwned(p)
  <2>1. Good(TickHarvest(p)) /\ SameHold(p, TickHarvest(p))
    BY <1>6, TickHarvestGood DEF FullyOwned
  <2> QED
    BY <1>5, <2>1 DEF TickWorks, q, s
<1>7. CASE ~FullyOwned(p)
  BY <1>5, <1>7 DEF TickWorks, q, s
<1> QED
  BY <1>6, <1>7

-----------------------------------------------------------------------------
(* The steps of PadHold that calls and ticks take.                         *)

Owner(p) == IF p.current = CONTESTED THEN p.previous ELSE p.current

PadHoldStep(p, q) ==
  \/ /\ Owner(q) = Owner(p)
     /\ q.current = CONTESTED <=> p.current = CONTESTED
  \/ /\ p.current = NEUTRAL /\ q.current \in Sides
  \/ /\ p.current \in Sides /\ q.current = CONTESTED
     /\ q.previous = p.current
  \/ /\ p.current = CONTESTED /\ q.current \in Sides

LEMMA HoldStepChain ==
  ASSUME NEW p, NEW q, NEW r
  PROVE  /\ SameHold(p, q) => PadHoldStep(p, q)
         /\ SameHold(p, q) /\ PadHoldStep(q, r) => PadHoldStep(p, r)
         /\ PadHoldStep(p, q) /\ SameHold(q, r) => PadHoldStep(p, r)
<1>1. SameHold(p, q) => PadHoldStep(p, q)
  BY DEF SameHold, PadHoldStep, Owner
<1>2. SameHold(p, q) => /\ Owner(q) = Owner(p)
                        /\ q.current = p.current /\ q.previous = p.previous
  BY DEF SameHold, Owner
<1>3. SameHold(q, r) => /\ Owner(r) = Owner(q)
                        /\ r.current = q.current /\ r.previous = q.previous
  BY DEF SameHold, Owner
<1>4. SameHold(p, q) /\ PadHoldStep(q, r) => PadHoldStep(p, r)
  BY <1>2 DEF PadHoldStep
<1>5. PadHoldStep(p, q) /\ SameHold(q, r) => PadHoldStep(p, r)
  BY <1>3 DEF PadHoldStep
<1> QED
  BY <1>1, <1>4, <1>5

LEMMA NudgeIsHoldStep ==
  ASSUME NEW p, Good(p), NEW f \in Sides, NEW a \in ClaimAmounts
  PROVE  PadHoldStep(p, NudgeClaim(p, f, a))
<1> DEFINE n == NudgeClaim(p, f, a)
<1>1. NudgeOutcome(p, f, a, n)
  BY NudgeClaimGood
<1> HIDE DEF n
<1> SUFFICES PadHoldStep(p, n)
  BY DEF n
<1>2. CASE SameHold(p, n)
  BY <1>2, HoldStepChain
<1>3. CASE p.current \in {NEUTRAL, CONTESTED} /\ n.current = f
  BY <1>3 DEF PadHoldStep
<1>4. CASE p.current \in Sides \ {f} /\ n = OpenContest(p, f, a)
  <2>1. p.guard = NoSide /\ p \in PadStates
    BY <1>4, Names DEF Good, Core, Guarded
  <2>2. n.current = CONTESTED /\ n.previous = p.current
    BY <1>4, <2>1, OpenContestOpens
  <2> QED
    BY <1>4, <2>2 DEF PadHoldStep
<1> QED
  BY <1>1, <1>2, <1>3, <1>4 DEF NudgeOutcome

\* Against the side that leads, one tick of the guard does not lock the pad.
LEMMA GuardCannotLock ==
  ASSUME NEW p, Good(p), p.current = CONTESTED,
         NEW h \in Sides, p.side \in Sides \ {h}
  PROVE  SameHold(p, NudgeClaim(p, h, GUARD_RATE))
<1> DEFINE b == Boosted(GUARD_RATE, p.influence)
           m == MeterToward(p, h, b)
           c == [m EXCEPT !.status = "contested"]
<1>1. /\ p \in PadStates /\ p.strength \in Nat /\ p.strength < CLAIM_NEED
      /\ p.influence \in 0..INFLUENCE_MAX
  BY DEF Good, Core, Metered, PadStates
<1>2. GUARD_RATE \in Nat \ {0} /\ p.influence \in Nat /\ CLAIM_NEED \in Nat
  BY <1>1, PadAssumption DEF PadAssumption, ClaimAmounts
<1>3. b \in Nat /\ b < CLAIM_NEED
  BY <1>1, <1>2, BoostedNat, PadAssumption DEF PadAssumption
<1> HIDE DEF b
<1>4. /\ m \in PadStates /\ SameHold(p, m)
      /\ m.strength <= p.strength \/ m.strength <= b
  BY <1>1, <1>3, MeterTowardMoves
<1> HIDE DEF m
<1>5. m.strength \in Nat
  BY <1>4 DEF PadStates
<1>6. ~(m.strength >= CLAIM_NEED)
  BY <1>1, <1>2, <1>3, <1>4, <1>5
<1>7. NudgeClaim(p, h, GUARD_RATE) = c
  BY <1>6, Names DEF NudgeClaim, m, b
<1>8. SameHold(m, c)
  BY <1>4 DEF SameHold, PadStates
<1> QED
  BY <1>4, <1>7, <1>8 DEF SameHold

\* The guard's part of an occupied tick.
GuardNudges(g) ==
  IF GuardAlive(g) THEN NudgeClaim(g, g.guard, GUARD_RATE) ELSE g

LEMMA ContestedTick ==
  ASSUME NEW n, Good(n), n.status = "contested"
  PROVE  LET r == GuardNudges(EnsureGuard(n)) IN
         /\ Good(r)
         /\ PadHoldStep(n, r)
         /\ n.guard \in {NoSide, n.previous} /\ n.side \in Sides \ {n.previous}
              => SameHold(n, r)
<1> DEFINE g == EnsureGuard(n)
           r == GuardNudges(g)
<1>1. Core(n) /\ Guarded(n) /\ n \in PadStates /\ n.current = CONTESTED
  BY DEF Good, Core, Tracked
<1>2. /\ Good(g) /\ SameHold(n, g) /\ g.side = n.side
      /\ g = n \/ g.guard = DefenderSide(n)
  BY <1>1, EnsureGuardGood, EnsureGuardKeeps
<1>3. DefenderSide(n) = n.previous
  BY <1>1, Names DEF DefenderSide, FullyOwned, Core, Remembered
<1> HIDE DEF g
<1>4. GUARD_RATE \in ClaimAmounts
  BY DEF ClaimAmounts
<1>5. CASE ~GuardAlive(g)
  <2>1. r = g
    BY <1>5 DEF GuardNudges
  <2> QED
    BY <1>2, <2>1, HoldStepChain DEF g
<1>6. CASE GuardAlive(g)
  <2>1. r = NudgeClaim(g, g.guard, GUARD_RATE)
    BY <1>6 DEF GuardNudges
  <2>2. g.guard \in Sides
    BY <1>2, <1>6 DEF GuardAlive, Good, Core, PadStates
  <2>3. Good(r)
    BY <1>2, <1>4, <2>1, <2>2, NudgeClaimGood
  <2>4. PadHoldStep(g, r)
    BY <1>2, <1>4, <2>1, <2>2, NudgeIsHoldStep
  <2>5. ASSUME n.guard \in {NoSide, n.previous}, n.side \in Sides \ {n.previous}
        PROVE  SameHold(n, r)
    <3>1. g.guard = n.previous
      BY <1>2, <1>3, <2>2, <2>5, Names
    <3>2. g.current = CONTESTED /\ g.side \in Sides \ {g.guard}
      BY <1>1, <1>2, <2>5, <3>1 DEF SameHold
    <3>3. SameHold(g, r)
      BY <1>2, <2>1, <2>2, <3>2, GuardCannotLock
    <3> QED
      BY <1>2, <3>3 DEF SameHold
  <2> HIDE DEF r
  <2>6. PadHoldStep(n, r)
    BY <1>2, <2>4, HoldStepChain
  <2> QED
    BY <2>3, <2>5, <2>6 DEF r, g
<1> QED
  BY <1>5, <1>6

\* Left over for the last line of _tick_occupy: a guard beside a held pad.
GuardToClear(q) == Core(q) /\ FullyOwned(q) /\ q.status # "contested"

LEMMA NoGuardOutside ==
  ASSUME NEW p, Good(p), p.status # "contested"
  PROVE  p.guard = NoSide /\ ~GuardAlive(p)
BY DEF Good, Core, Tracked, Guarded, GuardAlive

LEMMA TickOccupiedGood ==
  ASSUME NEW p, Good(p), occupant \in Sides
  PROVE  LET q == TickOccupied(p) IN
         /\ Good(q) \/ GuardToClear(q)
         /\ PadHoldStep(p, q)
<1> DEFINE hostile == FullyOwned(p) /\ p.current # occupant
           o == [p EXCEPT !.occupy_in = Smaller(OCCUPY_DELAY, @ + 1)]
           c == NudgeClaim(o, occupant, OCCUPY_RATE)
           n == OccupantNudges(p)
           g == IF hostile \/ n.status = "contested" THEN EnsureGuard(n) ELSE n
           r == GuardNudges(g)
<1>1. TickOccupied(p) = r
  BY DEF TickOccupied, GuardNudges
<1> SUFFICES (Good(r) \/ GuardToClear(r)) /\ PadHoldStep(p, r)
  BY <1>1
<1>2. p \in PadStates /\ Core(p) /\ Guarded(p)
  BY DEF Good, Core
<1>3. Smaller(OCCUPY_DELAY, p.occupy_in + 1) \in 0..OCCUPY_DELAY
  BY <1>2, PadAssumption DEF PadAssumption, PadStates, Smaller
<1>4. /\ o \in PadStates /\ SameHold(p, o) /\ o.strength = p.strength
      /\ o.side = p.side /\ o.status = p.status /\ o.guard = p.guard
      /\ o.guard_up = p.guard_up /\ o.respawn = p.respawn
      /\ o.progress = p.progress
  BY <1>2, <1>3 DEF PadStates, SameHold
<1>5. n \in {o, c}
  BY DEF OccupantNudges
<1> HIDE DEF n, o
<1>6. Good(o)
  BY <1>2, <1>4, SidesKept
<1>7. FullyOwned(o) <=> FullyOwned(p)
  BY <1>4 DEF FullyOwned, SameHold
<1>8. OCCUPY_RATE \in ClaimAmounts
  BY DEF ClaimAmounts
<1>9. Good(c) /\ NudgeOutcome(o, occupant, OCCUPY_RATE, c)
  BY <1>6, <1>8, NudgeClaimGood
<1>10. Good(n)
  BY <1>5, <1>6, <1>9
<1>11. CASE n.status = "contested" /\ SameHold(p, n)
  <2>1. r = GuardNudges(EnsureGuard(n))
    BY <1>11
  <2>2. Good(r) /\ PadHoldStep(n, r)
    BY <1>10, <1>11, <2>1, ContestedTick
  <2> QED
    BY <1>11, <2>2, HoldStepChain
<1>12. CASE /\ p.current \in Sides \ {occupant}
            /\ n = OpenContest(o, occupant, OCCUPY_RATE)
  <2>1. o.current = p.current /\ o.guard = NoSide
    BY <1>2, <1>4, <1>12, Names DEF SameHold, Guarded
  <2>2. /\ n.current = CONTESTED /\ n.previous = p.current
        /\ n.side = occupant /\ n.guard \in {NoSide, p.current}
        /\ n.status = "contested"
    BY <1>4, <1>8, <1>12, <2>1, OpenContestOpens
  <2>3. r = GuardNudges(EnsureGuard(n))
    BY <2>2
  <2>4. n.guard \in {NoSide, n.previous} /\ n.side \in Sides \ {n.previous}
    BY <1>12, <2>2
  <2>5. Good(r) /\ SameHold(n, r)
    BY <1>10, <2>2, <2>3, <2>4, ContestedTick
  <2>6. PadHoldStep(p, n)
    BY <1>12, <2>2 DEF PadHoldStep
  <2> QED
    BY <2>5, <2>6, HoldStepChain
<1>13. CASE n.status # "contested" /\ ~hostile
  <2>1. r = n
    BY <1>10, <1>13, NoGuardOutside DEF GuardNudges
  <2>2. PadHoldStep(o, n)
    <3>1. CASE n = o
      BY <3>1, HoldStepChain DEF SameHold
    <3>2. CASE n = c
      BY <1>6, <1>8, <3>2, NudgeIsHoldStep
    <3> QED
      BY <1>5, <3>1, <3>2
  <2> QED
    BY <1>4, <1>10, <2>1, <2>2, HoldStepChain
<1>14. CASE n.status # "contested" /\ hostile /\ n = o
  <2>1. g = EnsureGuard(o)
    BY <1>14
  <2> HIDE DEF g
  <2>2. /\ Core(g) /\ SameHold(o, g) /\ g.progress = o.progress
        /\ g.status = o.status /\ (g = o \/ g.guard = DefenderSide(o))
    <3>1. o \in PadStates /\ Core(o)
      BY <1>4, <1>6 DEF Good
    <3>2. Core(g) /\ SameHold(o, g)
      BY <2>1, <3>1, EnsureGuardGood
    <3> QED
      BY <2>1, <3>1, <3>2, EnsureGuardKeeps
  <2>3. DefenderSide(o) = o.current
    BY <1>7, <1>14 DEF DefenderSide
  <2>4. FullyOwned(g)
    BY <1>7, <1>14, <2>2 DEF FullyOwned, SameHold
  <2>5. r = g
    <3>1. CASE ~GuardAlive(g)
      BY <3>1 DEF GuardNudges
    <3>2. CASE GuardAlive(g)
      <4>1. ~GuardAlive(o)
        BY <1>6, <1>14, NoGuardOutside
      <4>2. g.guard = g.current
        BY <2>2, <2>3, <3>2, <4>1 DEF SameHold
      <4>3. NudgeClaim(g, g.guard, GUARD_RATE) = g
        BY <2>4, <4>2, Names DEF NudgeClaim, FullyOwned
      <4> QED
        BY <3>2, <4>3 DEF GuardNudges
    <3> QED
      BY <3>1, <3>2
  <2>6. GuardToClear(g)
    BY <1>14, <2>2, <2>4 DEF GuardToClear
  <2> QED
    BY <1>4, <2>2, <2>5, <2>6, HoldStepChain
<1>15. hostile /\ n = c => n = OpenContest(o, occupant, OCCUPY_RATE)
  BY <1>4, Names DEF NudgeClaim, FullyOwned, SameHold
<1>16. hostile => p.current \in Sides \ {occupant}
  BY DEF FullyOwned
<1>17. n.status = "contested" => SameHold(p, n) \/
         /\ p.current \in Sides \ {occupant}
         /\ n = OpenContest(o, occupant, OCCUPY_RATE)
  <2>1. CASE n = o
    BY <1>4, <2>1
  <2>2. CASE n = c
    <3>1. SameHold(o, n) => SameHold(p, n)
      BY <1>4 DEF SameHold
    <3>2. o.current = p.current
      BY <1>4 DEF SameHold
    <3> QED
      BY <1>9, <2>2, <3>1, <3>2 DEF NudgeOutcome
  <2> QED
    BY <1>5, <2>1, <2>2
<1> QED
  BY <1>5, <1>11, <1>12, <1>13, <1>14, <1>15, <1>16, <1>17

LEMMA TickOccupyGood ==
  ASSUME NEW p, Good(p), occupant \in Sides \cup {NoSide}
  PROVE  Good(TickOccupy(p)) /\ PadHoldStep(p, TickOccupy(p))
<1> DEFINE q == IF occupant # NoSide THEN TickOccupied(p) ELSE TickLeft(p)
           t == TickOccupy(p)
           c == ClearGuard(q)
<1>1. t = IF FullyOwned(q) /\ q.status # "contested" THEN c ELSE q
  BY DEF TickOccupy
<1>2. (Good(q) \/ GuardToClear(q)) /\ PadHoldStep(p, q)
  <2>1. CASE occupant # NoSide
    <3>1. q = TickOccupied(p) /\ occupant \in Sides
      BY <2>1
    <3> HIDE DEF q
    <3> QED
      BY <3>1, TickOccupiedGood
  <2>2. CASE occupant = NoSide
    <3> DEFINE o == [p EXCEPT !.occupy_in = 0]
    <3>1. q = IF o.status = "contested" THEN DecayContest(o) ELSE o
      BY <2>2 DEF TickLeft
    <3>2. p \in PadStates /\ Core(p) /\ Guarded(p) /\ 0 \in 0..OCCUPY_DELAY
      BY PadAssumption DEF Good, Core, PadAssumption
    <3>3. /\ o \in PadStates /\ SameHold(p, o) /\ o.strength = p.strength
          /\ o.side = p.side /\ o.status = p.status /\ o.guard = p.guard
          /\ o.guard_up = p.guard_up /\ o.respawn = p.respawn
      BY <3>2 DEF PadStates, SameHold
    <3> HIDE DEF o, q
    <3>4. Good(o)
      BY <3>2, <3>3, SidesKept
    <3>5. CASE o.status = "contested"
      <4>1. q = DecayContest(o)
        BY <3>1, <3>5
      <4>2. /\ Good(q) /\ (SameHold(o, q) \/ q.current = o.previous)
            /\ o.current = CONTESTED /\ o.previous \in Sides
        BY <3>4, <3>5, <4>1, DecayContestGood
      <4>3. PadHoldStep(o, q)
        BY <4>2, HoldStepChain DEF PadHoldStep
      <4> QED
        BY <3>3, <4>2, <4>3, HoldStepChain
    <3>6. CASE o.status # "contested"
      BY <3>1, <3>3, <3>4, <3>6, HoldStepChain
    <3> QED
      BY <3>5, <3>6
  <2> QED
    BY <2>1, <2>2
<1> HIDE DEF q, t
<1>3. CASE FullyOwned(q) /\ q.status # "contested"
  <2>1. Core(q)
    BY <1>2 DEF Good, GuardToClear
  <2>2. /\ c \in PadStates /\ c.guard = NoSide /\ SameHold(q, c)
        /\ c.strength = q.strength /\ c.side = q.side /\ c.status = q.status
    BY <2>1, ClearGuardLeaves DEF Core, SameHold
  <2> HIDE DEF c
  <2>3. Core(c) /\ Guarded(c)
    BY <2>1, <2>2, SidesKept DEF Guarded
  <2>4. t = c
    BY <1>1, <1>3
  <2> QED
    BY <1>2, <2>2, <2>3, <2>4, HoldStepChain DEF Good, t
<1>4. CASE ~(FullyOwned(q) /\ q.status # "contested")
  <2>1. t = q
    BY <1>1, <1>4
  <2>2. Good(q)
    BY <1>2, <1>4 DEF GuardToClear
  <2> QED
    BY <1>2, <2>1, <2>2 DEF t
<1> QED
  BY <1>3, <1>4

-----------------------------------------------------------------------------
(* The actions.                                                            *)

LEMMA ProcessGood ==
  ASSUME PadInv, Process
  PROVE  Good(pad') /\ PadHoldStep(pad, pad')
<1> DEFINE o == [pad EXCEPT !.paid = NoSide, !.claim_cd = Larger(0, @ - 1)]
           p == TickTransition(o)
           q == TickOccupy(p)
           g == TickGuardRespawn(q)
           r == TickArenaInfluence(g)
           w == TickWorks(r)
<1>1. pad' = w
  BY DEF Process
<1>2. Good(o) /\ SameHold(pad, o)
  <2>1. pad \in PadStates /\ Core(pad) /\ Guarded(pad)
    BY DEF PadInv, Good, Core
  <2>2. Larger(0, pad.claim_cd - 1) \in 0..PULSE_CD
    BY <2>1, PadAssumption DEF PadAssumption, PadStates, Larger
  <2>3. /\ o \in PadStates /\ SameHold(pad, o) /\ o.strength = pad.strength
        /\ o.side = pad.side /\ o.status = pad.status /\ o.guard = pad.guard
        /\ o.guard_up = pad.guard_up /\ o.respawn = pad.respawn
    BY <2>1, <2>2 DEF PadStates, SameHold
  <2> HIDE DEF o
  <2> QED
    BY <2>1, <2>3, SidesKept
<1> HIDE DEF o
<1>3. Good(p) /\ SameHold(o, p)
  BY <1>2, TickTransitionGood
<1> HIDE DEF p
<1>4. Good(q) /\ PadHoldStep(p, q)
  BY <1>3, TickOccupyGood DEF PadInv
<1> HIDE DEF q
<1>5. Good(g) /\ SameHold(q, g)
  BY <1>4, TickGuardRespawnGood
<1> HIDE DEF g
<1>6. Good(r) /\ SameHold(g, r)
  BY <1>5, TickArenaInfluenceGood
<1> HIDE DEF r
<1>7. Good(w) /\ SameHold(r, w)
  BY <1>6, TickWorksGood
<1> HIDE DEF w
<1>8. PadHoldStep(pad, q)
  BY <1>2, <1>3, <1>4, HoldStepChain
<1>9. PadHoldStep(pad, w)
  <2>1. SameHold(q, w)
    BY <1>5, <1>6, <1>7 DEF SameHold
  <2> QED
    BY <1>8, <2>1, HoldStepChain
<1> QED
  BY <1>1, <1>7, <1>9

LEMMA AmountsNamed ==
  /\ {PULSE_STR, CONSOLE_STR, SEED_STR, ADVANCE_STR} \subseteq ClaimAmounts
  /\ HackAmounts \subseteq ClaimAmounts
BY DEF ClaimAmounts

LEMMA ClaimPulseGood ==
  ASSUME PadInv, NEW f \in Sides, ClaimPulse(f)
  PROVE  Good(pad') /\ PadHoldStep(pad, pad')
<1> DEFINE n == NudgeClaim(pad, f, PULSE_STR)
           c == [n EXCEPT !.claim_cd = PULSE_CD]
<1>1. pad' = c
  BY DEF ClaimPulse
<1>2. Good(n) /\ PadHoldStep(pad, n)
  BY AmountsNamed, NudgeClaimGood, NudgeIsHoldStep DEF PadInv
<1> HIDE DEF n
<1>3. n \in PadStates /\ Core(n) /\ Guarded(n) /\ PULSE_CD \in 0..PULSE_CD
  BY <1>2, PadAssumption DEF Good, Core, PadAssumption
<1>4. /\ c \in PadStates /\ SameHold(n, c) /\ c.strength = n.strength
      /\ c.side = n.side /\ c.status = n.status /\ c.guard = n.guard
      /\ c.guard_up = n.guard_up /\ c.respawn = n.respawn
  BY <1>3 DEF PadStates, SameHold
<1> HIDE DEF c
<1>5. Good(c) /\ PadHoldStep(pad, c)
  BY <1>2, <1>3, <1>4, SidesKept, HoldStepChain
<1> QED
  BY <1>1, <1>5

LEMMA SeedClaimGood ==
  ASSUME PadInv, SeedClaim
  PROVE  Good(pad') /\ PadHoldStep(pad, pad')
<1> DEFINE n == IF pad.current = NEUTRAL
                THEN NudgeClaim(pad, default_faction, SEED_STR) ELSE pad
           c == [n EXCEPT !.seeded = TRUE]
<1>1. pad' = c
  BY DEF SeedClaim
<1>2. default_faction \in Sides
  BY PadAssumption DEF PadAssumption
<1>3. Good(n) /\ PadHoldStep(pad, n)
  <2>1. CASE pad.current = NEUTRAL
    <3>1. n = NudgeClaim(pad, default_faction, SEED_STR)
      BY <2>1
    <3> HIDE DEF n
    <3> QED
      BY <1>2, <3>1, AmountsNamed, NudgeClaimGood, NudgeIsHoldStep DEF PadInv
  <2>2. CASE pad.current # NEUTRAL
    <3>1. n = pad
      BY <2>2
    <3> HIDE DEF n
    <3> QED
      BY <3>1, HoldStepChain DEF PadInv, SameHold
  <2> QED
    BY <2>1, <2>2
<1> HIDE DEF n
<1>4. n \in PadStates /\ Core(n) /\ Guarded(n)
  BY <1>3 DEF Good, Core
<1>5. /\ c \in PadStates /\ SameHold(n, c) /\ c.strength = n.strength
      /\ c.side = n.side /\ c.status = n.status /\ c.guard = n.guard
      /\ c.guard_up = n.guard_up /\ c.respawn = n.respawn
  BY <1>4 DEF PadStates, SameHold
<1> HIDE DEF c
<1>6. Good(c) /\ PadHoldStep(pad, c)
  BY <1>3, <1>4, <1>5, SidesKept, HoldStepChain
<1> QED
  BY <1>1, <1>6

LEMMA GuardDownGood ==
  ASSUME NEW p, Good(p), p.guard # NoSide
  PROVE  Good(GuardDown(p)) /\ SameHold(p, GuardDown(p))
<1> DEFINE q == GuardDown(p)
<1>1. p \in PadStates /\ Core(p) /\ p.current = CONTESTED
  BY DEF Good, Core, Guarded
<1>2. RESPAWN \in 0..RESPAWN /\ RESPAWN > 0
  BY PadAssumption DEF PadAssumption
<1>3. /\ q \in PadStates /\ SameHold(p, q) /\ q.strength = p.strength
      /\ q.side = p.side /\ q.status = p.status /\ q.respawn > 0
  BY <1>1, <1>2 DEF GuardDown, PadStates, SameHold
<1> HIDE DEF q
<1>4. Core(q)
  BY <1>1, <1>3, SidesKept
<1>5. Guarded(q)
  BY <1>1, <1>3 DEF Guarded, SameHold
<1> QED
  BY <1>3, <1>4, <1>5 DEF Good, q

LEMMA GuardHackedGood ==
  ASSUME PadInv, NEW f \in Sides, NEW a \in HackAmounts, GuardHacked(f, a)
  PROVE  Good(pad') /\ PadHoldStep(pad, pad')
<1>1. pad.guard # NoSide /\ a \in ClaimAmounts /\ Good(pad)
  BY AmountsNamed DEF GuardHacked, PadInv
<1>2. PICK hurt \in {pad, GuardDown(pad)} :
        pad' = NudgeClaim([hurt EXCEPT !.guard = f], f, a)
  BY DEF GuardHacked
<1> DEFINE h == [hurt EXCEPT !.guard = f]
<1>3. Good(hurt) /\ SameHold(pad, hurt)
  BY <1>1, <1>2, GuardDownGood DEF SameHold
<1>4. hurt \in PadStates /\ Core(hurt) /\ Guarded(hurt)
  BY <1>3 DEF Good, Core
<1>5. hurt.guard # NoSide
  BY <1>1, <1>2 DEF GuardDown, Good, Core, PadStates
<1>6. /\ h \in PadStates /\ SameHold(hurt, h) /\ h.strength = hurt.strength
      /\ h.side = hurt.side /\ h.status = hurt.status
      /\ h.guard_up = hurt.guard_up /\ h.respawn = hurt.respawn
  BY <1>4 DEF PadStates, SameHold
<1> HIDE DEF h
<1>7. Core(h)
  BY <1>4, <1>6, SidesKept
<1>8. Guarded(h)
  BY <1>4, <1>5, <1>6 DEF Guarded, SameHold
<1>9. Good(h) /\ SameHold(pad, h)
  BY <1>3, <1>6, <1>7, <1>8 DEF Good, SameHold
<1>10. Good(NudgeClaim(h, f, a)) /\ PadHoldStep(h, NudgeClaim(h, f, a))
  BY <1>1, <1>9, NudgeClaimGood, NudgeIsHoldStep
<1> QED
  BY <1>2, <1>9, <1>10, HoldStepChain DEF h

LEMMA ApplyArenaInfluenceGood ==
  ASSUME PadInv, NEW a \in InfluenceAmounts, ApplyArenaInfluence(a)
  PROVE  Good(pad') /\ PadHoldStep(pad, pad')
<1> DEFINE q == [pad EXCEPT !.influence = Smaller(INFLUENCE_MAX, @ + a)]
<1>1. pad' = q
  BY DEF ApplyArenaInfluence
<1>2. pad \in PadStates /\ Core(pad) /\ Guarded(pad)
  BY DEF PadInv, Good, Core
<1>3. Smaller(INFLUENCE_MAX, pad.influence + a) \in 0..INFLUENCE_MAX
  BY <1>2, PadAssumption DEF PadAssumption, PadStates, Smaller
<1>4. /\ q \in PadStates /\ SameHold(pad, q) /\ q.strength = pad.strength
      /\ q.side = pad.side /\ q.status = pad.status /\ q.guard = pad.guard
      /\ q.guard_up = pad.guard_up /\ q.respawn = pad.respawn
  BY <1>2, <1>3 DEF PadStates, SameHold
<1> HIDE DEF q
<1>5. Good(q)
  BY <1>2, <1>4, SidesKept
<1> QED
  BY <1>1, <1>4, <1>5, HoldStepChain

\* The host hands the pad over, or opens a contest that the owner defends.
HandOverStep(p, q) ==
  \/ q.current \in Sides
  \/ q.current = CONTESTED /\ p.current = NEUTRAL /\ q.previous \in Sides
  \/ q.current = CONTESTED /\ p.current \in Sides /\ q.previous = p.current

LEMMA HeldGood ==
  ASSUME NEW p \in PadStates, p.current \in Sides, p.guard = NoSide,
         p.strength = 0, p.side = NoSide, p.status = "owned"
  PROVE  Good(p)
BY Names, PadAssumption
DEF Good, Core, Tracked, Metered, Remembered, Guarded, PadAssumption

LEMMA FlipGood ==
  ASSUME PadInv, FlipClusterOwner
  PROVE  Good(pad') /\ HandOverStep(pad, pad')
<1> DEFINE s == StartTransition(pad, Other(pad.current))
           q == [s EXCEPT !.progress = TRANSITION, !.status = "owned",
                          !.side = NoSide]
<1>1. pad' = q
  BY DEF FlipClusterOwner, Flip
<1>2. /\ pad \in PadStates /\ pad.current \in Sides /\ pad.strength = 0
      /\ pad.guard = NoSide
  BY Names DEF PadInv, Good, Core, Metered, Guarded, FlipClusterOwner, FullyOwned
<1>3. Other(pad.current) \in Sides
  BY <1>2, Names
<1>4. /\ s \in PadStates /\ s.current \in Sides /\ s.strength = 0
  BY <1>2, <1>3, StartTransitionTurns
<1>5. s.guard = NoSide
  BY <1>2 DEF StartTransition, PadStates
<1> HIDE DEF s
<1>6. TRANSITION \in 0..TRANSITION
  BY PadAssumption DEF PadAssumption
<1>7. /\ q \in PadStates /\ q.current \in Sides /\ q.strength = 0
      /\ q.guard = NoSide /\ q.side = NoSide /\ q.status = "owned"
  <2>1. q \in PadStates
    BY <1>4, <1>6, ZenonT(60) DEF PadStates
  <2> QED
    BY <1>4, <1>5, <2>1 DEF PadStates
<1> HIDE DEF q
<1>8. Good(q)
  BY <1>7, HeldGood
<1> QED
  BY <1>1, <1>7, <1>8 DEF HandOverStep

LEMMA LockAtOnceHolds ==
  ASSUME NEW p \in PadStates, NEW f \in Sides
  PROVE  LET q == [LockTo(p, f) EXCEPT !.progress = TRANSITION,
                                       !.status = "owned"]
         IN Good(q) /\ q.current = f
<1> DEFINE l == LockTo(p, f)
           q == [l EXCEPT !.progress = TRANSITION, !.status = "owned"]
<1>1. /\ Good(l) /\ l.current = f /\ l.guard = NoSide /\ l.strength = 0
      /\ l.side = NoSide
  BY LockToHolds
<1> HIDE DEF l
<1>2. l \in PadStates /\ TRANSITION \in 0..TRANSITION
  BY <1>1, PadAssumption DEF Good, Core, PadAssumption
<1>3. /\ q \in PadStates /\ q.current = f /\ q.guard = NoSide
      /\ q.strength = 0 /\ q.side = NoSide /\ q.status = "owned"
  BY <1>1, <1>2, ZenonT(60) DEF PadStates
<1> HIDE DEF q
<1>4. Good(q)
  BY <1>3, HeldGood
<1> QED
  BY <1>3, <1>4 DEF q, l

LEMMA LockOwnedGood ==
  ASSUME PadInv, NEW f \in Sides, LockOwned(f)
  PROVE  Good(pad') /\ HandOverStep(pad, pad')
BY LockAtOnceHolds DEF LockOwned, HandOverStep, PadInv, Good, Core

LEMMA AdvanceGood ==
  ASSUME PadInv, AdvanceContestedTransition
  PROVE  Good(pad') /\ PadHoldStep(pad, pad')
<1> DEFINE p == AdvanceTransition(pad)
<1>1. pad' = IF p.side = NoSide THEN p ELSE NudgeClaim(p, p.side, ADVANCE_STR)
  BY DEF AdvanceContestedTransition
<1>2. pad \in PadStates /\ Core(pad) /\ Guarded(pad)
  BY DEF PadInv, Good, Core
<1>3. Smaller(TRANSITION, pad.progress + 1) \in 0..TRANSITION
  BY <1>2, PadAssumption DEF PadAssumption, PadStates, Smaller
<1>4. /\ p \in PadStates /\ SameHold(pad, p) /\ p.strength = pad.strength
      /\ p.side = pad.side /\ p.status = pad.status /\ p.guard = pad.guard
      /\ p.guard_up = pad.guard_up /\ p.respawn = pad.respawn
  BY <1>2, <1>3 DEF AdvanceTransition, PadStates, SameHold
<1> HIDE DEF p
<1>5. Good(p)
  BY <1>2, <1>4, SidesKept
<1>6. CASE p.side = NoSide
  BY <1>1, <1>4, <1>5, <1>6, HoldStepChain
<1>7. CASE p.side # NoSide
  <2>1. p.side \in Sides
    BY <1>4, <1>7 DEF PadStates
  <2>2. /\ Good(NudgeClaim(p, p.side, ADVANCE_STR))
        /\ PadHoldStep(p, NudgeClaim(p, p.side, ADVANCE_STR))
    BY <1>5, <2>1, AmountsNamed, NudgeClaimGood, NudgeIsHoldStep
  <2> QED
    BY <1>1, <1>4, <1>7, <2>2, HoldStepChain
<1> QED
  BY <1>6, <1>7

LEMMA StartContestedGood ==
  ASSUME NEW p, Good(p), NEW dest \in Sides
  PROVE  LET q == StartContested(p, dest) IN
         Good(q) /\ (SameHold(p, q) \/ HandOverStep(p, q))
<1> DEFINE to == IF dest = p.current THEN Other(dest) ELSE dest
           f == IF p.current \in Sides THEN p.current ELSE Cybernex
           held == IF FullyOwned(p) THEN p
                   ELSE [LockTo(p, f) EXCEPT !.progress = TRANSITION,
                                             !.status = "owned"]
           o == [p EXCEPT !.side = dest, !.status = "contested"]
           s == StartTransition(held, CONTESTED)
           c == [s EXCEPT !.side = to, !.strength = Larger(@, DO_A_MIN),
                          !.status = "contested"]
           q == StartContested(p, dest)
<1> SUFFICES Good(q) /\ (SameHold(p, q) \/ HandOverStep(p, q))
  OBVIOUS
<1>1. q = IF p.current = CONTESTED THEN o ELSE c
  BY DEF StartContested
<1> HIDE DEF q
<1>2. /\ p \in PadStates /\ Core(p) /\ Guarded(p) /\ Tracked(p)
      /\ to \in Sides /\ f \in Sides
  BY Names DEF Good, Core
<1> HIDE DEF to, f
<1>3. CASE p.current = CONTESTED
  <2>1. /\ o \in PadStates /\ SameHold(p, o) /\ o.strength = p.strength
        /\ o.status = "contested" /\ o.guard = p.guard
        /\ o.guard_up = p.guard_up /\ o.respawn = p.respawn
    BY <1>2 DEF PadStates, SameHold
  <2> HIDE DEF o
  <2>2. Good(o)
    BY <1>2, <1>3, <2>1, Names
    DEF Good, Core, Tracked, Metered, Remembered, Guarded, SameHold
  <2> QED
    BY <1>1, <1>3, <2>1, <2>2
<1>4. CASE p.current # CONTESTED
  <2>1. Good(held) /\ held.current = f
    <3>1. CASE FullyOwned(p)
      BY <3>1 DEF FullyOwned, f
    <3>2. CASE ~FullyOwned(p)
      BY <1>2, <3>2, LockAtOnceHolds
    <3> QED
      BY <3>1, <3>2
  <2> HIDE DEF held
  <2>2. /\ held \in PadStates /\ held.guard = NoSide /\ held.strength = 0
        /\ held.current # CONTESTED
    BY <1>2, <2>1, Names DEF Good, Core, Guarded, Metered
  <2>3. /\ s \in PadStates /\ s.current = CONTESTED
        /\ s.previous = f /\ s.strength = 0
    BY <2>1, <2>2, StartTransitionTurns
  <2>4. s.guard = NoSide
    BY <2>2 DEF StartTransition, PadStates
  <2> HIDE DEF s
  <2>5. Larger(0, DO_A_MIN) \in Nat /\ Larger(0, DO_A_MIN) < CLAIM_NEED
    BY PadAssumption DEF PadAssumption, Larger
  <2>6. /\ c \in PadStates /\ c.current = CONTESTED /\ c.previous = f
        /\ c.strength < CLAIM_NEED /\ c.status = "contested"
        /\ c.guard = NoSide
    BY <1>2, <2>3, <2>4, <2>5, ZenonT(60) DEF PadStates
  <2> HIDE DEF c
  <2>7. Good(c)
    BY <1>2, <2>6, Names
    DEF Good, Core, Tracked, Metered, Remembered, Guarded
  <2>8. HandOverStep(p, c)
    <3>1. CASE p.current \in Sides
      BY <2>6, <3>1 DEF HandOverStep, f
    <3>2. CASE p.current = NEUTRAL
      BY <1>2, <2>6, <3>2 DEF HandOverStep
    <3> QED
      BY <1>2, <1>4, <3>1, <3>2 DEF PadStates
  <2> QED
    BY <1>1, <1>4, <2>7, <2>8
<1> QED
  BY <1>3, <1>4

-----------------------------------------------------------------------------
(* The specification.                                                      *)

InZone ==
  /\ occupant \in Sides \cup {NoSide}
  /\ ship \in Sides \cup {NoSide}
  /\ ship # NoSide => occupant # NoSide

\* What a step does to a pad: the owner changes as PadHold says.
PadStep ==
  /\ Good(pad')
  /\ \/ PadHoldStep(pad, pad')
     \/ (ST_F_OWNERSHIP \/ DO_A_OWNERSHIP) /\ HandOverStep(pad, pad')

LEMMA PadInvInit == PadInit => PadInv
<1> SUFFICES ASSUME PadInit PROVE PadInv
  OBVIOUS
<1>1. /\ 0 \in 0..TRANSITION /\ TRANSITION \in 0..TRANSITION /\ 0 \in Nat
      /\ 0 \in 0..RESPAWN /\ 0 \in 0..OCCUPY_DELAY /\ 0 \in 0..PULSE_CD
      /\ 0 \in 0..INFLUENCE_MAX /\ MAX_RESERVES \in 0..MAX_RESERVES
      /\ 0 < SOFT_NEED
  BY PadAssumption DEF PadAssumption
<1>2. pad \in PadStates
  BY <1>1 DEF PadInit, PadStates
<1>3. /\ pad.current = NEUTRAL /\ pad.strength = 0 /\ pad.status = "unclaimed"
      /\ pad.guard = NoSide
  BY DEF PadInit
<1>4. Good(pad)
  BY <1>1, <1>2, <1>3, Names
  DEF Good, Core, Tracked, Metered, Remembered, Guarded
<1> QED
  BY <1>4 DEF PadInit, PadInv

LEMMA PadInvNext ==
  ASSUME PadInv, [PadNext]_padVars
  PROVE  PadInv' /\ PadStep
<1>1. Good(pad) /\ SameHold(pad, pad)
  BY DEF PadInv, SameHold
<1>2. ASSUME UNCHANGED pad
      PROVE  PadStep
  BY <1>1, <1>2, HoldStepChain DEF PadStep
<1>3. ASSUME PadStep, UNCHANGED <<occupant, ship>>
      PROVE  PadInv' /\ PadStep
  BY <1>3 DEF PadStep, PadInv
<1>4. CASE Process
  BY <1>3, <1>4, ProcessGood DEF PadStep, Process
<1>5. CASE OutsideClaim
  <2>1. ASSUME NEW f \in Sides, ClaimPulse(f)
        PROVE  PadStep /\ UNCHANGED <<occupant, ship>>
    BY <2>1, ClaimPulseGood DEF PadStep, ClaimPulse
  <2>2. ASSUME NEW f \in Sides, ConsoleClaim(f)
        PROVE  PadStep /\ UNCHANGED <<occupant, ship>>
    BY <1>1, <2>2, AmountsNamed, NudgeClaimGood, NudgeIsHoldStep
    DEF PadStep, ConsoleClaim
  <2>3. ASSUME NEW f \in Sides, NEW a \in HackAmounts, OnHacked(f, a)
        PROVE  PadStep /\ UNCHANGED <<occupant, ship>>
    BY <1>1, <2>3, AmountsNamed, NudgeClaimGood, NudgeIsHoldStep
    DEF PadStep, OnHacked
  <2>4. ASSUME NEW f \in Sides, NEW a \in HackAmounts, GuardHacked(f, a)
        PROVE  PadStep /\ UNCHANGED <<occupant, ship>>
    BY <2>4, GuardHackedGood DEF PadStep, GuardHacked
  <2>5. ASSUME SeedClaim
        PROVE  PadStep /\ UNCHANGED <<occupant, ship>>
    BY <2>5, SeedClaimGood DEF PadStep, SeedClaim
  <2>6. PadStep /\ UNCHANGED <<occupant, ship>>
    BY <1>5, <2>1, <2>2, <2>3, <2>4, <2>5 DEF OutsideClaim
  <2> QED
    BY <1>3, <2>6
<1>6. CASE GuardDies
  <2>1. pad' = GuardDown(pad) /\ pad.guard # NoSide
    BY <1>6 DEF GuardDies, GuardAlive
  <2>2. Good(pad') /\ SameHold(pad, pad')
    BY <1>1, <2>1, GuardDownGood
  <2>3. PadStep /\ UNCHANGED <<occupant, ship>>
    BY <1>6, <2>2, HoldStepChain DEF PadStep, GuardDies
  <2> QED
    BY <1>3, <2>3
<1>7. CASE \E a \in InfluenceAmounts : ApplyArenaInfluence(a)
  BY <1>3, <1>7, ApplyArenaInfluenceGood DEF PadStep, ApplyArenaInfluence
<1>8. CASE FlipClusterOwner
  BY <1>3, <1>8, FlipGood DEF PadStep, FlipClusterOwner
<1>9. CASE HostClaim
  <2>1. ASSUME NEW f \in Sides, StartContestedTransition(f)
        PROVE  PadStep /\ UNCHANGED <<occupant, ship>>
    <3>1. pad' = StartContested(pad, f) /\ DO_A_OWNERSHIP
      BY <2>1 DEF StartContestedTransition
    <3>2. Good(pad') /\ (SameHold(pad, pad') \/ HandOverStep(pad, pad'))
      BY <1>1, <3>1, StartContestedGood
    <3> QED
      BY <2>1, <3>1, <3>2, HoldStepChain
      DEF PadStep, StartContestedTransition
  <2>2. ASSUME NEW f \in Sides, LockOwned(f)
        PROVE  PadStep /\ UNCHANGED <<occupant, ship>>
    BY <2>2, LockOwnedGood DEF PadStep, LockOwned
  <2>3. ASSUME AdvanceContestedTransition
        PROVE  PadStep /\ UNCHANGED <<occupant, ship>>
    BY <2>3, AdvanceGood DEF PadStep, AdvanceContestedTransition
  <2>4. PadStep /\ UNCHANGED <<occupant, ship>>
    BY <1>9, <2>1, <2>2, <2>3 DEF HostClaim
  <2> QED
    BY <1>3, <2>4
<1>10. CASE Move
  <2>1. UNCHANGED pad /\ InZone'
    BY <1>10 DEF Move, InZone
  <2> QED
    BY <1>1, <1>2, <2>1 DEF PadInv, InZone
<1>11. CASE UNCHANGED padVars
  BY <1>2, <1>3, <1>11 DEF padVars
<1> QED
  BY <1>4, <1>5, <1>6, <1>7, <1>8, <1>9, <1>10, <1>11 DEF PadNext

THEOREM PadInvAlways == PadSpec => []PadInv
<1>1. PadInit => PadInv
  BY PadInvInit
<1>2. PadInv /\ [PadNext]_padVars => PadInv'
  BY PadInvNext
<1> QED
  BY <1>1, <1>2, PTL DEF PadSpec

\* Every field of the pad keeps its type for any rates and thresholds.
THEOREM PadTypeCorrect == PadSpec => []PadTypeOK
<1>1. PadInv => PadTypeOK
  BY DEF PadInv, Good, Core, PadTypeOK
<1> QED
  BY <1>1, PadInvAlways, PTL

\* _status and current_faction never disagree about a contest, whatever
\* players, guard, hacks, host and ticks do in any order.
THEOREM ContestAlwaysTracked == PadSpec => []ContestIsTracked
<1>1. PadInv => ContestIsTracked
  BY DEF PadInv, Good, Core, Tracked, ContestIsTracked
<1> QED
  BY <1>1, PadInvAlways, PTL

\* No meter stands at its threshold and none is left over from a contest.
THEOREM MeterAlwaysBelow == PadSpec => []MeterBelowNeed
<1>1. PadInv => MeterBelowNeed
  BY DEF PadInv, Good, Core, Metered, MeterBelowNeed
<1> QED
  BY <1>1, PadInvAlways, PTL

\* No guard outlives its contest and a fallen one has its window running.
THEOREM GuardAlwaysOfContest == PadSpec => []GuardOfContest
<1>1. PadInv => GuardOfContest
  BY DEF PadInv, Good, Guarded, GuardOfContest
<1> QED
  BY <1>1, PadInvAlways, PTL

\* Neither a meter at its threshold nor a guard is left over from a contest.
THEOREM ContestAlwaysSound == PadSpec => []ContestSound
<1>1. MeterBelowNeed /\ GuardOfContest => ContestSound
  BY DEF ContestSound
<1> QED
  BY <1>1, MeterAlwaysBelow, GuardAlwaysOfContest, PTL

\* The pad implements PadHold: _process, claims, hacks and the host change
\* the owner of a pad only in the steps PadHold has.
THEOREM HoldKept == PadSpec => KeepsHold
<1>1. PadInit => Hold!Init
  BY Names DEF PadInit, Hold!Init
<1>2. PadInv /\ [PadNext]_padVars => [Hold!Next]_(Hold!vars)
  <2> SUFFICES ASSUME PadInv, [PadNext]_padVars PROVE [Hold!Next]_(Hold!vars)
    OBVIOUS
  <2>1. PadInv' /\ PadStep
    BY PadInvNext
  <2>2. pad.current = CONTESTED => pad.previous \in Sides
    BY DEF PadInv, Good, Core, Remembered
  <2>3. pad'.current = CONTESTED => pad'.previous \in Sides
    BY <2>1 DEF PadInv, Good, Core, Remembered
  <2>4. CASE PadHoldStep(pad, pad')
    <3>1. CASE /\ Owner(pad') = Owner(pad)
               /\ pad'.current = CONTESTED <=> pad.current = CONTESTED
      BY <3>1 DEF Owner, Hold!vars
    <3>2. CASE pad.current = NEUTRAL /\ pad'.current \in Sides
      BY <3>2, Names DEF Hold!Next, Hold!ClaimFree
    <3>3. CASE /\ pad.current \in Sides /\ pad'.current = CONTESTED
               /\ pad'.previous = pad.current
      BY <3>3, Names DEF Hold!Next, Hold!OpenContest
    <3>4. CASE pad.current = CONTESTED /\ pad'.current \in Sides
      BY <3>4, Names DEF Hold!Next, Hold!Resolve
    <3> QED
      BY <2>4, <3>1, <3>2, <3>3, <3>4 DEF PadHoldStep
  <2>5. CASE /\ ST_F_OWNERSHIP \/ DO_A_OWNERSHIP
             /\ HandOverStep(pad, pad')
    BY <2>2, <2>5, Names DEF Hold!Next, Hold!HandOver, HandOverStep
  <2> QED
    BY <2>1, <2>4, <2>5 DEF PadStep
<1> QED
  BY <1>1, <1>2, PadInvAlways, PTL DEF PadSpec, KeepsHold, Hold!Spec

-----------------------------------------------------------------------------
(* Who is paid.                                                            *)

PadFields == {"current", "previous", "progress", "strength", "side", "status", "guard", "guard_up", "respawn",
              "occupy_in", "claim_cd", "influence", "reserves", "seeded", "paid"}

\* From p to q nobody is paid, and nobody comes to hold the pad.
NoneGains(p, q) ==
  /\ DOMAIN q = PadFields /\ q.paid = p.paid
  /\ FullyOwned(q) => FullyOwned(p) /\ q.current = p.current

LEMMA NoneGainsChain ==
  ASSUME NEW p, NEW q, NEW r, NoneGains(p, q), NoneGains(q, r)
  PROVE  NoneGains(p, r)
BY DEF NoneGains

LEMMA TouchesOthers ==
  ASSUME NEW p, NEW q, DOMAIN q = PadFields, q.paid = p.paid, q.current = p.current, q.progress = p.progress
  PROVE  NoneGains(p, q)
BY DEF NoneGains, FullyOwned

LEMMA ClearGuardGains ==
  ASSUME NEW p, DOMAIN p = PadFields
  PROVE  NoneGains(p, ClearGuard(p))
<1> DEFINE q == ClearGuard(p)
<1>1. DOMAIN q = PadFields /\ q.paid = p.paid /\ q.current = p.current /\ q.progress = p.progress
  BY DEF ClearGuard, PadFields
<1> HIDE DEF q
<1> QED
  BY <1>1, TouchesOthers DEF q

LEMMA EnsureGuardGains ==
  ASSUME NEW p, DOMAIN p = PadFields
  PROVE  NoneGains(p, EnsureGuard(p))
<1> DEFINE q == EnsureGuard(p)
<1>1. DOMAIN q = PadFields /\ q.paid = p.paid /\ q.current = p.current /\ q.progress = p.progress
  BY DEF EnsureGuard, PadFields
<1> HIDE DEF q
<1> QED
  BY <1>1, TouchesOthers DEF q

LEMMA MeterGains ==
  ASSUME NEW p, DOMAIN p = PadFields, NEW f, NEW amount
  PROVE  NoneGains(p, MeterToward(p, f, amount))
<1> DEFINE q == MeterToward(p, f, amount)
<1>1. DOMAIN q = PadFields /\ q.paid = p.paid /\ q.current = p.current /\ q.progress = p.progress
  BY DEF MeterToward, PadFields
<1> HIDE DEF q
<1> QED
  BY <1>1, TouchesOthers DEF q

\* A lock starts a transition, which takes TRANSITION ticks.
LEMMA LockToGains ==
  ASSUME NEW p, DOMAIN p = PadFields, NEW f, p.current \notin Sides
  PROVE  NoneGains(p, LockTo(p, f))
<1> DEFINE q == LockTo(p, f)
<1>1. DOMAIN q = PadFields /\ q.paid = p.paid /\ (q.progress = 0 \/ q.current = p.current)
  BY DEF LockTo, StartTransition, ClearGuard, PadFields
<1> HIDE DEF q
<1>2. TRANSITION # 0
  BY PadAssumption DEF PadAssumption
<1>3. ~FullyOwned(q)
  BY <1>1, <1>2 DEF FullyOwned
<1> QED
  BY <1>1, <1>3 DEF NoneGains, q

LEMMA OpenContestGains ==
  ASSUME NEW p, DOMAIN p = PadFields, NEW f, NEW amount
  PROVE  NoneGains(p, OpenContest(p, f, amount))
<1> DEFINE o == [p EXCEPT !.previous = p.current, !.current = CONTESTED,
                          !.progress = TRANSITION, !.side = f,
                          !.strength = Larger(amount, OPEN_MIN),
                          !.status = "contested"]
<1>1. DOMAIN o = PadFields /\ o.paid = p.paid /\ o.current = CONTESTED
  BY DEF PadFields
<1>2. OpenContest(p, f, amount) = EnsureGuard(o)
  BY DEF OpenContest
<1> HIDE DEF o
<1>3. NoneGains(p, o)
  BY <1>1, Names DEF NoneGains, FullyOwned
<1> QED
  BY <1>1, <1>2, <1>3, EnsureGuardGains, NoneGainsChain

LEMMA NudgeClaimGains ==
  ASSUME NEW p, DOMAIN p = PadFields, NEW f, NEW amount
  PROVE  NoneGains(p, NudgeClaim(p, f, amount))
<1> DEFINE m == MeterToward(p, f, Boosted(amount, p.influence))
           c == [m EXCEPT !.status = "contested"]
           n == NudgeClaim(p, f, amount)
<1>1. NoneGains(p, m)
  BY MeterGains
<1>2. m.current = p.current
  BY DEF MeterToward, PadFields
<1>3. \/ n \in {m, c, OpenContest(p, f, amount), p}
      \/ n = LockTo(m, f) /\ p.current \in {NEUTRAL, CONTESTED}
  BY DEF NudgeClaim
<1> HIDE DEF m, n
<1>4. NoneGains(m, c)
  <2>1. DOMAIN m = PadFields
    BY <1>1 DEF NoneGains
  <2>2. DOMAIN c = PadFields /\ c.paid = m.paid /\ c.current = m.current /\ c.progress = m.progress
    BY <2>1 DEF PadFields
  <2> QED
    BY <2>2, TouchesOthers
<1>5. p.current \in {NEUTRAL, CONTESTED} => NoneGains(m, LockTo(m, f))
  <2>1. DOMAIN m = PadFields
    BY <1>1 DEF NoneGains
  <2> QED
    BY <1>2, <2>1, LockToGains, Names
<1>6. NoneGains(p, p) /\ NoneGains(p, OpenContest(p, f, amount))
  BY OpenContestGains, TouchesOthers
<1> HIDE DEF c
<1>7. NoneGains(p, c) /\ (p.current \in {NEUTRAL, CONTESTED} => NoneGains(p, LockTo(m, f)))
  BY <1>1, <1>4, <1>5, NoneGainsChain
<1> QED
  BY <1>1, <1>3, <1>6, <1>7 DEF n

LEMMA TickOccupiedGains ==
  ASSUME NEW p, DOMAIN p = PadFields, occupant \in Sides
  PROVE  NoneGains(p, TickOccupied(p))
<1> DEFINE o == [p EXCEPT !.occupy_in = Smaller(OCCUPY_DELAY, @ + 1)]
           n == OccupantNudges(p)
           g == IF (FullyOwned(p) /\ p.current # occupant) \/ n.status = "contested" THEN EnsureGuard(n) ELSE n
<1>1. NoneGains(p, o) /\ DOMAIN o = PadFields
  <2>1. DOMAIN o = PadFields /\ o.paid = p.paid /\ o.current = p.current /\ o.progress = p.progress
    BY DEF PadFields
  <2> QED
    BY <2>1, TouchesOthers
<1>2. n \in {o, NudgeClaim(o, occupant, OCCUPY_RATE)}
  BY DEF OccupantNudges
<1>3. TickOccupied(p) = IF GuardAlive(g) THEN NudgeClaim(g, g.guard, GUARD_RATE) ELSE g
  BY DEF TickOccupied
<1> HIDE DEF o, n
<1>4. NoneGains(o, NudgeClaim(o, occupant, OCCUPY_RATE))
  BY <1>1, NudgeClaimGains
<1>5. NoneGains(p, n) /\ DOMAIN n = PadFields
  <2>1. NoneGains(p, n)
    BY <1>1, <1>2, <1>4, NoneGainsChain
  <2> QED
    BY <2>1 DEF NoneGains
<1>6. NoneGains(n, EnsureGuard(n))
  BY <1>5, EnsureGuardGains
<1>7. NoneGains(p, g) /\ DOMAIN g = PadFields
  <2>1. NoneGains(p, g)
    BY <1>5, <1>6, NoneGainsChain
  <2> QED
    BY <2>1 DEF NoneGains
<1> HIDE DEF g
<1> QED
  BY <1>3, <1>7, NudgeClaimGains, NoneGainsChain DEF GuardAlive

LEMMA TickLeftLeaves ==
  ASSUME NEW p, DOMAIN p = PadFields
  PROVE  DOMAIN TickLeft(p) = PadFields /\ TickLeft(p).paid = p.paid
<1> DEFINE q == [p EXCEPT !.occupy_in = 0]
           d == [q EXCEPT !.strength = Larger(0, @ - DECAY_RATE)]
           over == ClearGuard([d EXCEPT !.side = NoSide, !.strength = 0])
<1>1. DOMAIN q = PadFields /\ q.paid = p.paid
  BY DEF PadFields
<1>2. TickLeft(p) \in {q, DecayContest(q)}
  BY DEF TickLeft
<1> HIDE DEF q
<1>3. DOMAIN d = PadFields /\ d.paid = p.paid
  BY <1>1 DEF PadFields
<1>4. DecayContest(q) \in
        {q, d, [over EXCEPT !.current = q.previous, !.progress = TRANSITION, !.status = "owned"],
         [over EXCEPT !.current = NEUTRAL, !.status = "unclaimed"]}
  BY DEF DecayContest
<1> HIDE DEF d
<1>5. DOMAIN over = PadFields /\ over.paid = p.paid
  BY <1>3 DEF ClearGuard, PadFields
<1> HIDE DEF over
<1>6. DOMAIN DecayContest(q) = PadFields /\ DecayContest(q).paid = p.paid
  BY <1>1, <1>3, <1>4, <1>5 DEF PadFields
<1> QED
  BY <1>1, <1>2, <1>6

\* An occupied pad gains no holder in a tick; one that nobody occupies may
\* fall back to its former side.
LEMMA TickOccupyGains ==
  ASSUME NEW p, DOMAIN p = PadFields, occupant \in Sides \cup {NoSide}
  PROVE  LET q == TickOccupy(p)
         IN  /\ DOMAIN q = PadFields /\ q.paid = p.paid
             /\ occupant # NoSide => NoneGains(p, q)
<1> DEFINE o == IF occupant # NoSide THEN TickOccupied(p) ELSE TickLeft(p)
<1>1. /\ DOMAIN o = PadFields /\ o.paid = p.paid
      /\ occupant # NoSide => NoneGains(p, o)
  BY TickOccupiedGains, TickLeftLeaves DEF NoneGains
<1>2. TickOccupy(p) \in {o, ClearGuard(o)}
  BY DEF TickOccupy
<1> HIDE DEF o
<1>3. NoneGains(o, ClearGuard(o))
  BY <1>1, ClearGuardGains
<1> DEFINE q == TickOccupy(p)
<1> HIDE DEF q
<1>4. DOMAIN q = PadFields /\ q.paid = p.paid
  BY <1>1, <1>2, <1>3 DEF NoneGains, q
<1>5. occupant # NoSide => NoneGains(p, q)
  BY <1>1, <1>2, <1>3, NoneGainsChain DEF q
<1> QED
  BY <1>4, <1>5 DEF q

LEMMA TickGuardRespawnGains ==
  ASSUME NEW p, DOMAIN p = PadFields
  PROVE  NoneGains(p, TickGuardRespawn(p))
<1> DEFINE r == [p EXCEPT !.respawn = 0]
           s == [p EXCEPT !.respawn = @ - 1]
           c == ClearGuard(r)
<1>1. DOMAIN r = PadFields /\ NoneGains(p, r)
  <2>1. DOMAIN r = PadFields /\ r.paid = p.paid /\ r.current = p.current /\ r.progress = p.progress
    BY DEF PadFields
  <2> QED
    BY <2>1, TouchesOthers
<1>2. NoneGains(p, s)
  <2>1. DOMAIN s = PadFields /\ s.paid = p.paid /\ s.current = p.current /\ s.progress = p.progress
    BY DEF PadFields
  <2> QED
    BY <2>1, TouchesOthers
<1>3. TickGuardRespawn(p) \in {p, r, s, EnsureGuard(c)}
  BY DEF TickGuardRespawn
<1> HIDE DEF r, s
<1>4. NoneGains(r, c)
  BY <1>1, ClearGuardGains
<1>5. NoneGains(c, EnsureGuard(c))
  BY <1>4, EnsureGuardGains DEF NoneGains
<1> HIDE DEF c
<1>6. NoneGains(p, EnsureGuard(c)) /\ NoneGains(p, p)
  BY <1>1, <1>4, <1>5, NoneGainsChain, TouchesOthers
<1> QED
  BY <1>1, <1>2, <1>3, <1>6

\* The works pay whoever holds the pad and is in the ring, or nobody.
LEMMA TickWorksPays ==
  ASSUME NEW p, DOMAIN p = PadFields, p.paid = NoSide, TickWorks(p).paid # NoSide
  PROVE  FullyOwned(p) /\ p.current \in {occupant, ship} /\ TickWorks(p).paid = p.current
<1> DEFINE s == [p EXCEPT !.status = IF @ = "extracting" THEN "owned" ELSE @]
<1>1. DOMAIN s = PadFields /\ s.paid = NoSide
  BY DEF PadFields
<1>2. TickWorks(p) = IF FullyOwned(p) /\ p.status # "contested" /\ OwnerInZone(p)
                     THEN TickHarvest(p) ELSE TickReserveRegen(s)
  BY DEF TickWorks
<1> HIDE DEF s
<1>3. TickReserveRegen(s).paid = NoSide
  BY <1>1 DEF TickReserveRegen, PadFields
<1>4. FullyOwned(p) /\ OwnerInZone(p) /\ TickWorks(p) = TickHarvest(p)
  BY <1>2, <1>3
<1>5. TickHarvest(p).paid \in {NoSide, p.current}
  BY DEF TickHarvest, PadFields
<1> QED
  BY <1>4, <1>5 DEF OwnerInZone

LEMMA ProcessPays ==
  ASSUME PadInv, Process, pad'.paid # NoSide
  PROVE  pad.current = pad'.paid /\ pad'.paid \in {occupant, ship}
<1> DEFINE o == [pad EXCEPT !.paid = NoSide, !.claim_cd = Larger(0, @ - 1)]
           p == TickTransition(o)
           q == TickOccupy(p)
           g == TickGuardRespawn(q)
           r == TickArenaInfluence(g)
<1>1. pad' = TickWorks(r)
  BY DEF Process
<1>2. DOMAIN o = PadFields /\ o.paid = NoSide /\ o.current = pad.current
  BY DEF PadInv, Good, Core, PadStates, PadFields
<1> HIDE DEF o
<1>3. DOMAIN p = PadFields /\ p.paid = NoSide /\ p.current = pad.current
  BY <1>2 DEF TickTransition, AdvanceTransition, PadFields
<1> HIDE DEF p
<1>4. DOMAIN q = PadFields /\ q.paid = NoSide /\ (occupant # NoSide => NoneGains(p, q))
  BY <1>3, TickOccupyGains DEF PadInv
<1> HIDE DEF q
<1>5. NoneGains(q, g) /\ DOMAIN g = PadFields
  BY <1>4, TickGuardRespawnGains DEF NoneGains
<1> HIDE DEF g
<1>6. NoneGains(g, r)
  <2>1. DOMAIN r = PadFields /\ r.paid = g.paid /\ r.current = g.current /\ r.progress = g.progress
    BY <1>5 DEF TickArenaInfluence, PadFields
  <2> QED
    BY <2>1, TouchesOthers
<1> HIDE DEF r
<1>7. NoneGains(q, r) /\ DOMAIN r = PadFields /\ r.paid = NoSide
  BY <1>4, <1>5, <1>6 DEF NoneGains
<1>8. FullyOwned(r) /\ r.current \in {occupant, ship} /\ pad'.paid = r.current
  BY <1>1, <1>7, TickWorksPays
<1>9. occupant # NoSide
  <2>1. r.current \in Sides
    BY <1>8 DEF FullyOwned
  <2> QED
    BY <1>8, <2>1, Names DEF PadInv
<1>10. r.current = pad.current
  BY <1>3, <1>4, <1>7, <1>8, <1>9 DEF NoneGains
<1> QED
  BY <1>8, <1>10

\* Only the side that held the pad before the tick is paid, and only when it
\* is in the ring: _tick_occupy may lock, open or drop a contest before
\* _tick_harvest runs in the same tick, but it never makes a new holder of
\* whoever is there.
THEOREM HarvestAlwaysPaysHolder == PadSpec => HarvestPaysHolder
<1>1. PadInv /\ [PadNext]_padVars =>
        [Process /\ pad'.paid # NoSide => pad.current = pad'.paid /\ pad'.paid \in {occupant, ship}]_padVars
  BY ProcessPays
<1> QED
  BY <1>1, PadInvAlways, PTL DEF PadSpec, HarvestPaysHolder

-------------------------------------------------------------------------------
(* ClashMatch.                                                             *)

World == [session : Session, file : Session \cup {NoFile}, war : Tracker,
          clash : Match, local : Local, paid : Nat, settled : Nat,
          behind : BOOLEAN, room : Nat]

\* No day key lies in the future.
PastDays(w) ==
  /\ w.session.day <= today
  /\ w.file # NoFile => w.file.day <= today

\* The WS of session s on the current date.
Earned(s) == IF s.day = today THEN s.daily ELSE 0

FileEarned(w) == IF w.file = NoFile THEN 0 ELSE Earned(w.file)

\* What the lost records may have handed back.
Returned == DAILY_CAP * lost

\* The disk accounts for as much as memory does unless the last save failed,
\* and memory for everything paid since midnight but what was handed back.
Accounted(w) ==
  /\ ~w.behind => FileEarned(w) >= Earned(w.session)
  /\ lost \in Nat /\ w.paid <= Returned + Earned(w.session)

\* The tracker mirrors the session on the day it is set to.
Mirrored(w) == w.war.day = w.session.day => w.war.daily = w.session.daily

\* MatchSettledOnce of the arena, without the COREs.
Settled(w) ==
  /\ w.settled = IF w.clash.ended THEN 1 ELSE 0
  /\ w.clash.cosmetic => w.clash.result = "WIN"
  /\ w.clash.ended => /\ w.session.result = w.clash.result
                      /\ w.session.cosmetic = w.clash.cosmetic
                      /\ w.local.title = w.clash.cosmetic
  /\ w.local.over => w.clash.ended /\ w.local.result = w.clash.result

Ledger(w) == w \in World /\ PastDays(w) /\ Accounted(w)

Sound(w) == Ledger(w) /\ Mirrored(w) /\ Settled(w)

\* What no call undoes.
Follows(w, v) ==
  /\ Earned(v.session) >= Earned(w.session)
  /\ v.local.over = w.local.over
  /\ w.clash.ended => v.clash.ended

LEMMA ReturnedNat == lost \in Nat => Returned \in Nat
  BY ClashAssumption DEF Returned, ClashAssumption

LEMMA EarnedNat ==
  ASSUME NEW w \in World
  PROVE  Earned(w.session) \in Nat
<1>1. w.session \in Session
  BY DEF World
<1>2. w.session.daily \in Nat
  BY <1>1 DEF Session, WS
<1> QED
  BY <1>2 DEF Earned

-----------------------------------------------------------------------------
(* The ledger's calls.                                                     *)

LEMMA RolledSession ==
  ASSUME today \in 1..MaxDay, NEW s \in Session
  PROVE  /\ Rolled(s) \in Session
         /\ Rolled(s).day = today
         /\ Rolled(s).daily = Earned(s)
         /\ Rolled(s).result = s.result
         /\ Rolled(s).cosmetic = s.cosmetic
<1>1. today \in Day /\ 0 \in WS
  BY ClashAssumption DEF Day, WS, ClashAssumption
<1>2. CASE s.day = today
  BY <1>2 DEF Rolled, Earned
<1>3. CASE s.day # today
  <2> DEFINE r == [s EXCEPT !.day = today, !.daily = 0]
  <2>1. r \in Session
    BY <1>1 DEF Session
  <2>2. r.day = today /\ r.daily = 0 /\ r.result = s.result /\ r.cosmetic = s.cosmetic
    BY DEF Session
  <2> QED
    BY <1>3, <2>1, <2>2 DEF Rolled, Earned
<1> QED
  BY <1>2, <1>3

LEMMA GrantedAmount ==
  ASSUME today \in 1..MaxDay, NEW w \in World, NEW amount \in Nat
  PROVE  /\ Granted(w, amount) \in Nat
         /\ Rolled(w.session).daily + Granted(w, amount) <= DAILY_CAP
<1>1. w.session \in Session
  BY DEF World
<1>2. Rolled(w.session).daily \in 0..DAILY_CAP
  BY <1>1, RolledSession DEF Session, WS
<1> QED
  BY <1>2, ClashAssumption DEF Granted, Least, ClashAssumption

\* A save changes nothing but the file, and makes it the session or is behind.
LEMMA SaveLedger ==
  ASSUME NEW w \in World, PastDays(w), lost \in Nat,
         w.paid <= Returned + Earned(w.session)
  PROVE  LET v == Save(w) IN
         /\ Ledger(v)
         /\ v.session = w.session /\ v.war = w.war /\ v.clash = w.clash
         /\ v.local = w.local /\ v.paid = w.paid /\ v.settled = w.settled
<1> DEFINE v == Save(w)
<1>1. /\ w.session \in Session /\ w.room \in Nat /\ w.behind \in BOOLEAN
      /\ Earned(w.session) \in Nat
  BY EarnedNat DEF World
<1>2. CASE w.room = 0
  <2>1. v = [w EXCEPT !.behind = TRUE]
    BY <1>2 DEF Save
  <2> HIDE DEF v
  <2>2. v \in World /\ v.behind
    BY <2>1 DEF World
  <2>3. /\ v.session = w.session /\ v.file = w.file /\ v.war = w.war
        /\ v.clash = w.clash /\ v.local = w.local /\ v.paid = w.paid
        /\ v.settled = w.settled
    BY <2>1 DEF World
  <2>4. Ledger(v)
    BY <2>2, <2>3 DEF Ledger, PastDays, Accounted
  <2> QED
    BY <2>3, <2>4 DEF v
<1>3. CASE w.room # 0
  <2>1. v = [w EXCEPT !.file = w.session, !.behind = FALSE, !.room = @ - 1]
    BY <1>3 DEF Save
  <2> HIDE DEF v
  <2>2. w.room - 1 \in Nat
    BY <1>1, <1>3
  <2>3. v \in World
    BY <1>1, <2>1, <2>2 DEF World
  <2>4. /\ v.session = w.session /\ v.file = w.session /\ v.war = w.war
        /\ v.clash = w.clash /\ v.local = w.local /\ v.paid = w.paid
        /\ v.settled = w.settled
    BY <2>1 DEF World
  <2>5. w.session # NoFile
    BY <1>1, NoFileAssumption
  <2>6. FileEarned(v) = Earned(v.session)
    BY <2>4, <2>5 DEF FileEarned
  <2>7. Ledger(v)
    BY <1>1, <2>3, <2>4, <2>6 DEF Ledger, PastDays, Accounted
  <2> QED
    BY <2>4, <2>7 DEF v
<1> QED
  BY <1>2, <1>3

LEMMA GrantLedger ==
  ASSUME today \in 1..MaxDay, NEW w, Ledger(w), NEW amount \in Nat
  PROVE  LET v == GrantWarScore(w, amount) IN
         /\ Ledger(v)
         /\ v.session.day = today
         /\ v.session.result = w.session.result
         /\ v.session.cosmetic = w.session.cosmetic
         /\ v.war = w.war /\ v.clash = w.clash /\ v.local = w.local
         /\ v.settled = w.settled
         /\ Earned(v.session) >= Earned(w.session)
<1> DEFINE s == Rolled(w.session)
           got == Granted(w, amount)
           t == [s EXCEPT !.daily = @ + got]
           u == [w EXCEPT !.session = t, !.paid = @ + got]
           v == GrantWarScore(w, amount)
<1>1. w \in World
  BY DEF Ledger
<1>2. /\ s \in Session /\ s.day = today /\ s.daily = Earned(w.session)
      /\ s.result = w.session.result /\ s.cosmetic = w.session.cosmetic
  BY <1>1, RolledSession DEF World
<1>3. got \in Nat /\ s.daily + got <= DAILY_CAP
  BY <1>1, GrantedAmount
<1>4. v = IF got > 0 THEN Save(u) ELSE u
  BY DEF GrantWarScore, Granted
<1> HIDE DEF s, got, v
<1>5. /\ t \in Session /\ t.day = today /\ t.daily = s.daily + got
      /\ t.result = s.result /\ t.cosmetic = s.cosmetic
  <2>1. s.daily \in WS /\ DAILY_CAP \in Nat
    BY <1>2, ClashAssumption DEF Session, ClashAssumption
  <2>2. s.daily + got \in WS
    BY <2>1, <1>3 DEF WS
  <2> QED
    BY <1>2, <2>2 DEF Session
<1> HIDE DEF t, u
<1>6. /\ u.session = t /\ u.file = w.file
      /\ u.paid = w.paid + got /\ u.behind = w.behind
      /\ u.war = w.war /\ u.clash = w.clash /\ u.local = w.local
      /\ u.settled = w.settled
  BY <1>1 DEF World, u
<1>7. u \in World
  <2>1. w.paid + got \in Nat
    BY <1>1, <1>3 DEF World
  <2> QED
    BY <1>1, <1>5, <2>1 DEF World, u
<1>8. PastDays(u)
  BY <1>5, <1>6 DEF Ledger, PastDays
<1>9. Earned(u.session) = Earned(w.session) + got /\ Earned(w.session) \in Nat
  BY <1>1, <1>2, <1>5, <1>6, EarnedNat DEF Earned
<1>10. lost \in Nat /\ u.paid <= Returned + Earned(u.session)
  <2>1. lost \in Nat /\ w.paid <= Returned + Earned(w.session) /\ w.paid \in Nat
    BY <1>1 DEF Ledger, Accounted, World
  <2> QED
    BY <2>1, <1>3, <1>6, <1>9, ReturnedNat
<1>11. CASE got > 0
  <2>1. v = Save(u)
    BY <1>4, <1>11
  <2>2. /\ Ledger(v) /\ v.session = t
        /\ v.war = w.war /\ v.clash = w.clash /\ v.local = w.local
        /\ v.settled = w.settled
    BY <2>1, <1>6, <1>7, <1>8, <1>10, SaveLedger
  <2>3. Earned(v.session) >= Earned(w.session)
    BY <2>2, <1>3, <1>6, <1>9
  <2> QED
    BY <2>2, <2>3, <1>2, <1>5 DEF v
<1>12. CASE ~(got > 0)
  <2>1. v = u /\ got = 0
    BY <1>3, <1>4, <1>12
  <2>2. FileEarned(u) = FileEarned(w) /\ Earned(u.session) = Earned(w.session)
    BY <2>1, <1>6, <1>9 DEF FileEarned
  <2>3. Ledger(u)
    BY <2>2, <1>6, <1>7, <1>8, <1>10 DEF Ledger, Accounted
  <2>4. Earned(v.session) >= Earned(w.session)
    BY <2>1, <2>2, <1>9
  <2> QED
    BY <2>1, <2>3, <2>4, <1>2, <1>5, <1>6 DEF v
<1> QED
  BY <1>11, <1>12

LEMMA AddMatchPointsLedger ==
  ASSUME today \in 1..MaxDay, NEW w, Ledger(w), NEW amount \in Nat
  PROVE  LET v == AddMatchPoints(w, amount) IN
         /\ Ledger(v) /\ Mirrored(v)
         /\ v.session.result = w.session.result
         /\ v.session.cosmetic = w.session.cosmetic
         /\ v.clash = w.clash /\ v.local = w.local
         /\ v.settled = w.settled
         /\ Earned(v.session) >= Earned(w.session)
<1> DEFINE u == GrantWarScore(w, amount)
           k == [day |-> u.session.day, daily |-> u.session.daily]
           v == AddMatchPoints(w, amount)
<1>1. /\ Ledger(u)
      /\ u.session.result = w.session.result
      /\ u.session.cosmetic = w.session.cosmetic
      /\ u.clash = w.clash /\ u.local = w.local
      /\ u.settled = w.settled
      /\ Earned(u.session) >= Earned(w.session)
  BY GrantLedger
<1>2. v = [u EXCEPT !.war = k]
  BY DEF AddMatchPoints
<1> HIDE DEF u, v
<1>3. u \in World
  BY <1>1 DEF Ledger
<1>4. k \in Tracker /\ k.day = u.session.day /\ k.daily = u.session.daily
  BY <1>3 DEF World, Session, Tracker
<1> HIDE DEF k
<1>5. /\ v.session = u.session /\ v.file = u.file /\ v.war = k /\ v.clash = u.clash
      /\ v.local = u.local /\ v.paid = u.paid /\ v.settled = u.settled
      /\ v.behind = u.behind
  BY <1>2, <1>3 DEF World
<1>6. v \in World
  BY <1>2, <1>3, <1>4 DEF World
<1>7. Ledger(v)
  BY <1>1, <1>5, <1>6 DEF Ledger, PastDays, Accounted, FileEarned
<1>8. Mirrored(v)
  BY <1>4, <1>5 DEF Mirrored
<1>9. /\ v.session.result = w.session.result
      /\ v.session.cosmetic = w.session.cosmetic
      /\ v.clash = w.clash /\ v.local = w.local
      /\ v.settled = w.settled
      /\ Earned(v.session) >= Earned(w.session)
  BY <1>1, <1>5
<1> QED
  BY <1>7, <1>8, <1>9 DEF v

LEMMA RememberResultLedger ==
  ASSUME NEW w, Ledger(w), NEW won \in BOOLEAN, NEW cosmetic \in BOOLEAN
  PROVE  LET v == RememberResult(w, won, cosmetic) IN
         /\ Ledger(v)
         /\ Mirrored(w) => Mirrored(v)
         /\ v.session.result = IF won THEN "WIN" ELSE "LOSS"
         /\ v.session.cosmetic = cosmetic
         /\ v.clash = w.clash /\ v.local = w.local
         /\ v.settled = w.settled + 1
         /\ Earned(v.session) = Earned(w.session)
<1> DEFINE r == IF won THEN "WIN" ELSE "LOSS"
           s == [w.session EXCEPT !.result = r, !.cosmetic = cosmetic]
           u == [w EXCEPT !.session = s, !.settled = @ + 1]
           v == RememberResult(w, won, cosmetic)
<1>1. w \in World /\ w.session \in Session /\ w.settled \in Nat
  BY DEF Ledger, World
<1>2. r \in Result
  BY DEF Result
<1>3. v = Save(u)
  BY DEF RememberResult
<1> HIDE DEF r, v
<1>4. s \in Session
  BY <1>1, <1>2 DEF Session
<1>5. /\ s.day = w.session.day /\ s.daily = w.session.daily
      /\ s.result = r /\ s.cosmetic = cosmetic
  BY <1>1 DEF Session
<1> HIDE DEF s, u
<1>6. /\ u.session = s /\ u.file = w.file /\ u.war = w.war /\ u.clash = w.clash
      /\ u.local = w.local /\ u.paid = w.paid /\ u.settled = w.settled + 1
  BY <1>1 DEF World, u
<1>7. u \in World
  <2>1. w.settled + 1 \in Nat
    BY <1>1
  <2> QED
    BY <1>1, <1>4, <2>1 DEF World, u
<1>8. PastDays(u)
  BY <1>5, <1>6 DEF Ledger, PastDays
<1>9. Earned(u.session) = Earned(w.session)
  BY <1>5, <1>6 DEF Earned
<1>10. lost \in Nat /\ u.paid <= Returned + Earned(u.session)
  BY <1>6, <1>9 DEF Ledger, Accounted
<1>11. /\ Ledger(v) /\ v.session = s /\ v.war = w.war /\ v.clash = w.clash
       /\ v.local = w.local /\ v.settled = w.settled + 1
  BY <1>3, <1>6, <1>7, <1>8, <1>10, SaveLedger
<1>12. Mirrored(w) => Mirrored(v)
  BY <1>5, <1>11 DEF Mirrored
<1>13. v.session.result = r /\ v.session.cosmetic = cosmetic
  BY <1>5, <1>11
<1>14. Earned(v.session) = Earned(w.session)
  BY <1>5, <1>11 DEF Earned
<1> QED
  BY <1>11, <1>12, <1>13, <1>14 DEF r, v

-----------------------------------------------------------------------------
(* The match's calls.                                                      *)

LEMMA Prices ==
  /\ {WIN_WS, LOSS_WS, KILL_WS, OBJECTIVE_WS, CAMP_WS, PRIME_WS} \subseteq Nat
  /\ {KillPressure, MinionPressure, CampPressure, PrimePressure, CorePressure,
      BeaconPressure} \subseteq Nat
  /\ StructurePressure \subseteq Nat /\ PresencePressure \subseteq Nat
  BY ClashAssumption DEF ClashAssumption

LEMMA AddMatchPointsSound ==
  ASSUME today \in 1..MaxDay, NEW w, Sound(w), NEW amount \in Nat
  PROVE  LET v == AddMatchPoints(w, amount) IN
         Sound(v) /\ Follows(w, v) /\ v.clash = w.clash
<1> DEFINE v == AddMatchPoints(w, amount)
<1>1. /\ Ledger(v) /\ Mirrored(v)
      /\ v.session.result = w.session.result
      /\ v.session.cosmetic = w.session.cosmetic
      /\ v.clash = w.clash /\ v.local = w.local
      /\ v.settled = w.settled
      /\ Earned(v.session) >= Earned(w.session)
  BY AddMatchPointsLedger DEF Sound
<1> HIDE DEF v
<1>2. Settled(v)
  BY <1>1 DEF Sound, Settled
<1>3. Sound(v) /\ Follows(w, v) /\ v.clash = w.clash
  BY <1>1, <1>2 DEF Sound, Follows
<1> QED
  BY <1>3 DEF v

\* A change of the match that keeps what Settled speaks about.
LEMMA MatchChange ==
  ASSUME NEW w, Sound(w), NEW c \in Match,
         c.ended = w.clash.ended, c.result = w.clash.result,
         c.cosmetic = w.clash.cosmetic
  PROVE  LET v == [w EXCEPT !.clash = c] IN
         Sound(v) /\ Follows(w, v) /\ v.clash = c
<1> DEFINE v == [w EXCEPT !.clash = c]
<1>1. w \in World
  BY DEF Sound, Ledger
<1>2. /\ v.session = w.session /\ v.file = w.file /\ v.war = w.war /\ v.clash = c
      /\ v.local = w.local /\ v.paid = w.paid /\ v.settled = w.settled
      /\ v.behind = w.behind
  BY <1>1 DEF World
<1>3. v \in World
  BY <1>1 DEF World
<1>4. Earned(w.session) \in Nat
  BY <1>1, EarnedNat
<1> HIDE DEF v
<1>5. Ledger(v) /\ Mirrored(v) /\ Settled(v)
  BY <1>2, <1>3 DEF Sound, Ledger, PastDays, Accounted, FileEarned, Mirrored, Settled
<1>6. Follows(w, v)
  BY <1>2, <1>4 DEF Follows
<1>7. Sound(v) /\ Follows(w, v) /\ v.clash = c
  BY <1>2, <1>5, <1>6 DEF Sound
<1> QED
  BY <1>7 DEF v

LEMMA EndMatchSound ==
  ASSUME today \in 1..MaxDay, NEW w, Sound(w), NEW won \in BOOLEAN
  PROVE  LET v == EndMatch(w, won) IN
         Sound(v) /\ Follows(w, v) /\ v.clash.ended
<1> DEFINE ws == IF won THEN WIN_WS ELSE LOSS_WS
           cosmetic == won /\ Granted(w, ws) = 0
           u == AddMatchPoints(w, ws)
           r == RememberResult(u, won, cosmetic)
           result == IF won THEN "WIN" ELSE "LOSS"
           v == [r EXCEPT !.clash.ended = TRUE, !.clash.result = result,
                          !.clash.cosmetic = cosmetic, !.local.title = cosmetic]
<1>1. CASE w.clash.ended
  <2>1. EndMatch(w, won) = w
    BY <1>1 DEF EndMatch
  <2>2. Follows(w, w)
    BY EarnedNat DEF Follows, Sound, Ledger
  <2> QED
    BY <1>1, <2>1, <2>2
<1>2. CASE ~w.clash.ended
  <2>1. EndMatch(w, won) = v
    BY <1>2 DEF EndMatch
  <2>2. ws \in Nat /\ cosmetic \in BOOLEAN /\ result \in Result
    BY Prices DEF Result
  <2>3. cosmetic => result = "WIN"
    OBVIOUS
  <2>4. /\ Ledger(u) /\ Mirrored(u) /\ u.clash = w.clash /\ u.local = w.local
        /\ u.settled = w.settled /\ Earned(u.session) >= Earned(w.session)
    BY <2>2, AddMatchPointsLedger DEF Sound
  <2> HIDE DEF cosmetic, ws, u
  <2>5. /\ Ledger(r) /\ Mirrored(r)
        /\ r.session.result = result /\ r.session.cosmetic = cosmetic
        /\ r.clash = w.clash /\ r.local = w.local
        /\ r.settled = w.settled + 1 /\ Earned(r.session) >= Earned(w.session)
    BY <2>2, <2>4, RememberResultLedger
  <2> HIDE DEF r, result
  <2>6. r \in World /\ r.clash \in Match /\ r.local \in Local
    BY <2>5 DEF Ledger, World
  <2> DEFINE c == [r.clash EXCEPT !.ended = TRUE, !.result = result, !.cosmetic = cosmetic]
             l == [r.local EXCEPT !.title = cosmetic]
  <2>7. v = [r EXCEPT !.clash = c, !.local = l]
    BY <2>6 DEF World, Match, Local
  <2>8. c \in Match /\ c.ended /\ c.result = result /\ c.cosmetic = cosmetic
    BY <2>2, <2>6 DEF Match
  <2>9. l \in Local /\ l.title = cosmetic /\ l.over = w.local.over
    BY <2>2, <2>5, <2>6 DEF Local
  <2> HIDE DEF v, c, l
  <2>10. /\ v.session = r.session /\ v.file = r.file /\ v.war = r.war /\ v.clash = c
         /\ v.local = l /\ v.paid = r.paid /\ v.settled = r.settled
         /\ v.behind = r.behind
    BY <2>6, <2>7 DEF World
  <2>11. v \in World
    BY <2>6, <2>7, <2>8, <2>9 DEF World
  <2>12. Ledger(v) /\ Mirrored(v)
    BY <2>5, <2>10, <2>11 DEF Ledger, PastDays, Accounted, FileEarned, Mirrored
  <2>13. ~w.local.over /\ w.settled = 0
    BY <1>2 DEF Sound, Settled
  <2>14. Settled(v)
    BY <2>3, <2>5, <2>8, <2>9, <2>10, <2>13 DEF Settled
  <2>15. Follows(w, v)
    BY <2>5, <2>8, <2>9, <2>10 DEF Follows
  <2> QED
    BY <2>1, <2>8, <2>10, <2>12, <2>14, <2>15 DEF Sound
<1> QED
  BY <1>1, <1>2

\* A running match has kills to go.
Open(w) == ~w.clash.ended => w.clash.kills < TARGET_KILLS

\* Follows is transitive over sound states.
LEMMA FollowsTransitive ==
  ASSUME NEW u, NEW v, NEW w, Sound(u), Sound(v), Sound(w),
         Follows(u, v), Follows(v, w)
  PROVE  Follows(u, w)
<1>1. {Earned(u.session), Earned(v.session), Earned(w.session)} \subseteq Nat
  BY EarnedNat DEF Sound, Ledger
<1> QED
  BY <1>1 DEF Follows

LEMMA AddPressureSound ==
  ASSUME today \in 1..MaxDay, NEW w, Sound(w), NEW lane \in Lanes, NEW amount \in Nat
  PROVE  LET v == AddPressure(w, lane, amount) IN
         Sound(v) /\ Follows(w, v) /\ (Open(w) => Open(v))
<1> DEFINE next == Least(w.clash.pressure[lane] + amount, PRESSURE_MAX)
           c == [w.clash EXCEPT !.pressure[lane] = next]
           p == [w EXCEPT !.clash = c]
           d == [p.clash EXCEPT !.claimed[lane] = TRUE]
           q == [p EXCEPT !.clash = d]
           r == AddMatchPoints(q, OBJECTIVE_WS)
           v == AddPressure(w, lane, amount)
<1>1. w \in World /\ w.clash \in Match
  BY DEF Sound, Ledger, World
<1>2. p = [w EXCEPT !.clash.pressure[lane] = next]
  BY <1>1 DEF World, Match
<1>3. next \in 0..PRESSURE_MAX
  BY <1>1, ClashAssumption DEF ClashAssumption, Least, Match
<1> HIDE DEF next
<1>4. /\ c \in Match /\ c.ended = w.clash.ended /\ c.result = w.clash.result
      /\ c.cosmetic = w.clash.cosmetic /\ c.kills = w.clash.kills
  BY <1>1, <1>3 DEF Match
<1> HIDE DEF c
<1>5. Sound(p) /\ Follows(w, p) /\ p.clash = c
  BY <1>4, MatchChange
<1> HIDE DEF p
<1>6. p \in World /\ p.clash \in Match
  BY <1>4, <1>5 DEF Sound, Ledger
<1>7. q = [p EXCEPT !.clash.claimed[lane] = TRUE]
  BY <1>6 DEF World, Match
<1>8. /\ d \in Match /\ d.ended = p.clash.ended /\ d.result = p.clash.result
      /\ d.cosmetic = p.clash.cosmetic /\ d.kills = p.clash.kills
  BY <1>6 DEF Match
<1> HIDE DEF d
<1>9. Sound(q) /\ Follows(p, q) /\ q.clash = d
  BY <1>5, <1>8, MatchChange
<1> HIDE DEF q
<1>10. Sound(r) /\ Follows(q, r) /\ r.clash = d
  BY <1>9, AddMatchPointsSound, Prices
<1> HIDE DEF r
<1>11. Follows(w, r)
  BY <1>5, <1>9, <1>10, FollowsTransitive
<1>12. /\ Sound(EndMatch(r, TRUE)) /\ Follows(r, EndMatch(r, TRUE))
       /\ EndMatch(r, TRUE).clash.ended
  BY <1>10, EndMatchSound
<1>13. Follows(w, EndMatch(r, TRUE))
  BY <1>10, <1>11, <1>12, FollowsTransitive
<1>14. (Open(w) => Open(p)) /\ (Open(w) => Open(r)) /\ Open(EndMatch(r, TRUE))
  BY <1>4, <1>5, <1>8, <1>10, <1>12 DEF Open
<1>15. v \in {p, r, EndMatch(r, TRUE)}
  BY <1>2, <1>7 DEF AddPressure, next, q, r
<1> HIDE DEF v
<1>16. Sound(v) /\ Follows(w, v) /\ (Open(w) => Open(v))
  BY <1>5, <1>10, <1>11, <1>12, <1>13, <1>14, <1>15
<1> QED
  BY <1>16 DEF v

LEMMA RegisterKillSound ==
  ASSUME today \in 1..MaxDay, NEW w, Sound(w), Open(w), ~w.clash.ended,
         NEW lane \in Lanes
  PROVE  LET v == RegisterKill(w, lane) IN
         Sound(v) /\ Follows(w, v) /\ Open(v)
<1> DEFINE c == [w.clash EXCEPT !.kills = @ + 1]
           k == [w EXCEPT !.clash = c]
           a == AddMatchPoints(k, KILL_WS)
           b == AddPressure(a, lane, KillPressure)
           v == RegisterKill(w, lane)
<1>1. w \in World /\ w.clash \in Match
  BY DEF Sound, Ledger, World
<1>2. k = [w EXCEPT !.clash.kills = @ + 1]
  BY <1>1 DEF World, Match
<1>3. w.clash.kills + 1 \in 0..TARGET_KILLS
  BY <1>1, ClashAssumption DEF Open, Match, ClashAssumption
<1>4. /\ c \in Match /\ c.ended = w.clash.ended /\ c.result = w.clash.result
      /\ c.cosmetic = w.clash.cosmetic
  BY <1>1, <1>3 DEF Match
<1> HIDE DEF c
<1>5. Sound(k) /\ Follows(w, k)
  BY <1>4, MatchChange
<1> HIDE DEF k
<1>6. Sound(a) /\ Follows(k, a)
  BY <1>5, AddMatchPointsSound, Prices
<1> HIDE DEF a
<1>7. Sound(b) /\ Follows(a, b)
  BY <1>6, AddPressureSound, Prices
<1>8. Follows(w, b)
  BY <1>5, <1>6, <1>7, FollowsTransitive
<1>9. v = IF b.clash.kills >= TARGET_KILLS THEN EndMatch(b, TRUE) ELSE b
  BY <1>2 DEF RegisterKill, a
<1> HIDE DEF b, v
<1>10. CASE b.clash.kills >= TARGET_KILLS
  <2>1. Sound(v) /\ Follows(b, v) /\ v.clash.ended
    BY <1>7, <1>9, <1>10, EndMatchSound
  <2>2. Sound(v) /\ Follows(w, v) /\ Open(v)
    BY <2>1, <1>7, <1>8, FollowsTransitive DEF Open
  <2> QED
    BY <2>2 DEF v
<1>11. CASE ~(b.clash.kills >= TARGET_KILLS)
  <2>1. b.clash.kills \in Nat /\ TARGET_KILLS \in Nat
    BY <1>7, ClashAssumption DEF Sound, Ledger, World, Match, ClashAssumption
  <2>2. b.clash.kills < TARGET_KILLS
    BY <2>1, <1>11
  <2>3. v = b
    BY <1>9, <1>11
  <2>4. Sound(v) /\ Follows(w, v) /\ Open(v)
    BY <2>2, <2>3, <1>7, <1>8 DEF Open
  <2> QED
    BY <2>4 DEF v
<1> QED
  BY <1>10, <1>11

LEMMA RegisterCampDownSound ==
  ASSUME today \in 1..MaxDay, NEW w, Sound(w), Open(w),
         NEW pressure \in Nat, NEW ws \in Nat
  PROVE  LET v == RegisterCampDown(w, pressure, ws) IN
         Sound(v) /\ Follows(w, v) /\ Open(v)
<1> DEFINE p == AddPressure(w, MID, pressure)
           v == RegisterCampDown(w, pressure, ws)
<1>1. MID \in Lanes
  BY ClashAssumption DEF ClashAssumption
<1>2. Sound(p) /\ Follows(w, p) /\ Open(p)
  BY <1>1, AddPressureSound
<1> HIDE DEF p
<1>3. /\ Sound(AddMatchPoints(p, ws)) /\ Follows(p, AddMatchPoints(p, ws))
      /\ AddMatchPoints(p, ws).clash = p.clash
  BY <1>2, AddMatchPointsSound
<1>4. Follows(w, AddMatchPoints(p, ws)) /\ Open(AddMatchPoints(p, ws))
  BY <1>2, <1>3, FollowsTransitive DEF Open
<1> QED
  BY <1>3, <1>4 DEF RegisterCampDown, p

LEMMA RegisterCoreDownSound ==
  ASSUME today \in 1..MaxDay, NEW w, Sound(w), NEW fac
  PROVE  LET v == RegisterCoreDown(w, fac) IN
         Sound(v) /\ Follows(w, v) /\ v.clash.ended
<1> DEFINE p == AddPressure(w, MID, CorePressure)
           e == EndMatch(p, fac # Player)
<1>1. CASE w.clash.ended
  <2>1. Follows(w, w)
    BY EarnedNat DEF Follows, Sound, Ledger
  <2> QED
    BY <1>1, <2>1 DEF RegisterCoreDown
<1>2. CASE ~w.clash.ended
  <2>1. MID \in Lanes /\ CorePressure \in Nat
    BY ClashAssumption DEF ClashAssumption
  <2>2. Sound(p) /\ Follows(w, p)
    BY <2>1, AddPressureSound
  <2> HIDE DEF p
  <2>3. Sound(e) /\ Follows(p, e) /\ e.clash.ended
    BY <2>2, EndMatchSound
  <2>4. Follows(w, e)
    BY <2>2, <2>3, FollowsTransitive
  <2> QED
    BY <1>2, <2>3, <2>4 DEF RegisterCoreDown, p
<1> QED
  BY <1>1, <1>2

LEMMA SyncSound ==
  ASSUME NEW w, Sound(w), w.clash.ended
  PROVE  LET v == SyncFromClash(w) IN
         /\ Sound(v) /\ v.clash = w.clash /\ v.local.over /\ v.session = w.session
<1> DEFINE title == w.clash.cosmetic /\ w.clash.result = "WIN"
           l == [over |-> TRUE, result |-> w.clash.result, title |-> title]
           v == SyncFromClash(w)
<1>1. w \in World /\ w.clash \in Match
  BY DEF Sound, Ledger, World
<1>2. l \in Local /\ l.over /\ l.result = w.clash.result /\ l.title = title
  BY <1>1 DEF Local, Match
<1>3. title = w.clash.cosmetic
  BY <1>1 DEF Sound, Settled, Match
<1>4. v = [w EXCEPT !.local = l]
  BY DEF SyncFromClash
<1> HIDE DEF v, l, title
<1>5. /\ v.session = w.session /\ v.file = w.file /\ v.war = w.war
      /\ v.clash = w.clash /\ v.local = l /\ v.paid = w.paid /\ v.settled = w.settled
      /\ v.behind = w.behind
  BY <1>1, <1>4 DEF World
<1>6. v \in World
  BY <1>1, <1>2, <1>4 DEF World
<1>7. Sound(v)
  BY <1>2, <1>3, <1>5, <1>6 DEF Sound, Ledger, PastDays, Accounted, FileEarned, Mirrored, Settled
<1> QED
  BY <1>2, <1>5, <1>7 DEF v

\* MatchSettledOnce of the isolated local match.
ProbeSettled(w) ==
  /\ w.settled = IF w.local.over THEN 1 ELSE 0
  /\ w.local.over => /\ w.session.result = w.local.result
                     /\ w.session.cosmetic = w.local.title

LEMMA ResolveLocalSound ==
  ASSUME today \in 1..MaxDay, NEW w, Ledger(w), ProbeSettled(w), ~w.local.over,
         NEW fac
  PROVE  LET v == ResolveLocal(w, fac) IN
         Ledger(v) /\ ProbeSettled(v) /\ Earned(v.session) >= Earned(w.session)
<1> DEFINE won == fac # Player
           ws == IF won THEN WIN_WS ELSE LOSS_WS
           cosmetic == won /\ Granted(w, ws) = 0
           u == GrantWarScore(w, ws)
           r == RememberResult(u, won, cosmetic)
           result == IF won THEN "WIN" ELSE "LOSS"
           l == [over |-> TRUE, result |-> result, title |-> cosmetic]
           v == [r EXCEPT !.local = l]
<1>1. ResolveLocal(w, fac) = v
  BY DEF ResolveLocal
<1>2. ws \in Nat /\ cosmetic \in BOOLEAN /\ won \in BOOLEAN /\ result \in Result
  BY Prices DEF Result
<1>3. /\ Ledger(u) /\ u.local = w.local /\ u.settled = w.settled
      /\ Earned(u.session) >= Earned(w.session)
  BY <1>2, GrantLedger
<1> HIDE DEF cosmetic, ws, u, won
<1>4. /\ Ledger(r) /\ r.session.result = result /\ r.session.cosmetic = cosmetic
      /\ r.settled = w.settled + 1 /\ Earned(r.session) >= Earned(w.session)
  BY <1>2, <1>3, RememberResultLedger, SMTT(30)
<1> HIDE DEF r, result
<1>5. r \in World
  BY <1>4 DEF Ledger
<1>6. l \in Local /\ l.over /\ l.result = result /\ l.title = cosmetic
  BY <1>2 DEF Local
<1> HIDE DEF l
<1>7. /\ v.session = r.session /\ v.file = r.file /\ v.local = l
      /\ v.paid = r.paid /\ v.settled = r.settled /\ v.behind = r.behind
  BY <1>5 DEF World
<1>8. v \in World
  BY <1>5, <1>6 DEF World
<1> HIDE DEF v
<1>9. Ledger(v)
  BY <1>4, <1>7, <1>8 DEF Ledger, PastDays, Accounted, FileEarned
<1>10. w.settled = 0
  BY DEF ProbeSettled
<1>11. ProbeSettled(v)
  BY <1>4, <1>6, <1>7, <1>10 DEF ProbeSettled
<1> QED
  BY <1>1, <1>4, <1>7, <1>9, <1>11

-----------------------------------------------------------------------------
(* The inductive invariant.  ClashTypeOK alone is not inductive: a kill counts  *)
(* up to TARGET_KILLS only because a running match is below it.            *)

\* The state between two handlers.
Now == At(0)

ArenaOK ==
  /\ Sound(Now)
  /\ Open(Now)
  /\ (\E f \in Factions : ~cores[f]) => clash.ended /\ local.over

ClashInv ==
  /\ today \in 1..MaxDay
  /\ scene \in {"space", "arena", "probe"}
  /\ cores \in [Factions -> BOOLEAN]
  /\ lost \in 0..MaxLost
  /\ Ledger(Now)
  /\ scene = "arena" => ArenaOK
  /\ scene = "probe" => ProbeSettled(Now)
  /\ scene = "space" => local = FreshLocal /\ settled = 0

\* Time goes on, and what was earned since midnight is not taken back unless
\* the record is lost.
Forward ==
  \/ UNCHANGED <<today, lost>> /\ EarnedToday' >= EarnedToday
  \/ today' > today /\ EarnedToday' = 0 /\ lost' = lost
  \/ today' = today /\ lost' = lost + 1

LEMMA Fresh ==
  /\ FreshSession \in Session /\ FreshTracker \in Tracker
  /\ FreshMatch \in Match /\ FreshLocal \in Local
<1>1. 0 \in Day /\ 0 \in WS /\ 0 \in 0..TARGET_KILLS /\ 0 \in 0..PRESSURE_MAX
  BY ClashAssumption DEF ClashAssumption, Day, WS
<1> QED
  BY <1>1 DEF FreshSession, FreshTracker, FreshMatch, FreshLocal, Session, Tracker,
              Match, Local, Result

LEMMA NowFields ==
  /\ Now.session = session /\ Now.file = file /\ Now.war = war
  /\ Now.clash = clash /\ Now.local = local /\ Now.paid = paid
  /\ Now.settled = settled /\ Now.behind = behind
  BY DEF Now, At

LEMMA NextFields ==
  /\ Now'.session = session' /\ Now'.file = file' /\ Now'.war = war'
  /\ Now'.clash = clash' /\ Now'.local = local' /\ Now'.paid = paid'
  /\ Now'.settled = settled' /\ Now'.behind = behind'
  BY DEF Now, At

LEMMA AtFields ==
  ASSUME NEW n
  PROVE  /\ At(n).session = session /\ At(n).file = file /\ At(n).war = war
         /\ At(n).clash = clash /\ At(n).local = local /\ At(n).paid = paid
         /\ At(n).settled = settled /\ At(n).behind = behind
  BY DEF At

LEMMA WorldFields ==
  ASSUME NEW w \in World
  PROVE  /\ w.session \in Session /\ w.file \in Session \cup {NoFile}
         /\ w.war \in Tracker /\ w.clash \in Match /\ w.local \in Local
         /\ w.paid \in Nat /\ w.settled \in Nat /\ w.behind \in BOOLEAN
  BY DEF World

LEMMA AtWorld ==
  ASSUME NEW n \in Nat
  PROVE  At(n) \in World <=>
           /\ session \in Session /\ file \in Session \cup {NoFile}
           /\ war \in Tracker /\ clash \in Match /\ local \in Local
           /\ paid \in Nat /\ settled \in Nat /\ behind \in BOOLEAN
<1>1. ASSUME At(n) \in World
      PROVE  /\ session \in Session /\ file \in Session \cup {NoFile}
             /\ war \in Tracker /\ clash \in Match /\ local \in Local
             /\ paid \in Nat /\ settled \in Nat /\ behind \in BOOLEAN
  <2> DEFINE w == At(n)
  <2>1. w \in World
    BY <1>1
  <2>2. /\ w.session = session /\ w.file = file /\ w.war = war
        /\ w.clash = clash /\ w.local = local /\ w.paid = paid
        /\ w.settled = settled /\ w.behind = behind
    BY AtFields
  <2> HIDE DEF w
  <2> QED
    BY <2>1, <2>2, WorldFields
<1>2. ASSUME session \in Session, file \in Session \cup {NoFile},
             war \in Tracker, clash \in Match, local \in Local,
             paid \in Nat, settled \in Nat, behind \in BOOLEAN
      PROVE  At(n) \in World
  BY <1>2 DEF At, World
<1> QED
  BY <1>1, <1>2

LEMMA NowWorld ==
  Now \in World <=> /\ session \in Session /\ file \in Session \cup {NoFile}
                    /\ war \in Tracker /\ clash \in Match /\ local \in Local
                    /\ paid \in Nat /\ settled \in Nat /\ behind \in BOOLEAN
  BY AtWorld DEF Now

\* How many saves the disk will take says nothing about the state before.
LEMMA AnyRoom ==
  ASSUME NEW n \in Room
  PROVE  /\ Ledger(Now) => Ledger(At(n))
         /\ Sound(Now) => Sound(At(n))
         /\ Open(Now) => Open(At(n))
         /\ ProbeSettled(Now) => ProbeSettled(At(n))
<1> DEFINE a == At(n)
<1>1. a \in World <=> Now \in World
  BY AtWorld, NowWorld DEF Room
<1>2. /\ a.session = Now.session /\ a.file = Now.file /\ a.war = Now.war
      /\ a.clash = Now.clash /\ a.local = Now.local /\ a.paid = Now.paid
      /\ a.settled = Now.settled /\ a.behind = Now.behind
  BY AtFields, NowFields
<1> HIDE DEF a
<1>3. Ledger(Now) => Ledger(a)
  BY <1>1, <1>2 DEF Ledger, PastDays, Accounted, FileEarned
<1>4. Sound(Now) => Sound(a)
  BY <1>2, <1>3 DEF Sound, Mirrored, Settled
<1>5. (Open(Now) => Open(a)) /\ (ProbeSettled(Now) => ProbeSettled(a))
  BY <1>2 DEF Open, ProbeSettled
<1> QED
  BY <1>3, <1>4, <1>5 DEF a

LEMMA NextWorld ==
  ASSUME session' \in Session, file' \in Session \cup {NoFile},
         war' \in Tracker, clash' \in Match, local' \in Local,
         paid' \in Nat, settled' \in Nat, behind' \in BOOLEAN
  PROVE  Now' \in World
  BY DEF Now, At, World

LEMMA Adopt ==
  ASSUME NEW w \in World, Becomes(w)
  PROVE  /\ Now' \in World
         /\ Now'.session = w.session /\ Now'.file = w.file /\ Now'.war = w.war
         /\ Now'.clash = w.clash /\ Now'.local = w.local /\ Now'.paid = w.paid
         /\ Now'.settled = w.settled /\ Now'.behind = w.behind
<1>1. Now' \in World
  BY WorldFields, NextWorld DEF Becomes
<1> QED
  BY <1>1, NextFields DEF Becomes

\* What the handler leaves is what the next one finds.
LEMMA AdoptSound ==
  ASSUME NEW w \in World, Becomes(w), UNCHANGED <<today, lost>>
  PROVE  /\ Ledger(w) => Ledger(Now)'
         /\ Sound(w) => Sound(Now)'
         /\ Open(w) => Open(Now)'
         /\ ProbeSettled(w) => ProbeSettled(Now)'
<1>1. /\ Now' \in World
      /\ Now'.session = w.session /\ Now'.file = w.file /\ Now'.war = w.war
      /\ Now'.clash = w.clash /\ Now'.local = w.local /\ Now'.paid = w.paid
      /\ Now'.settled = w.settled /\ Now'.behind = w.behind
  BY Adopt
<1>2. Ledger(w) => Ledger(Now)'
  BY <1>1 DEF Ledger, PastDays, Accounted, FileEarned, Earned, Returned
<1>3. (Mirrored(w) => Mirrored(Now)') /\ (Settled(w) => Settled(Now)')
  BY <1>1 DEF Mirrored, Settled
<1>4. (Open(w) => Open(Now)') /\ (ProbeSettled(w) => ProbeSettled(Now)')
  BY <1>1 DEF Open, ProbeSettled
<1> QED
  BY <1>2, <1>3, <1>4 DEF Sound

LEMMA InvType == ClashInv => ClashTypeOK
  BY NowWorld DEF ClashInv, Ledger, ClashTypeOK

LEMMA ClashInvInit == ClashInit => ClashInv
<1> SUFFICES ASSUME ClashInit PROVE ClashInv
  OBVIOUS
<1>1. Now \in World
  BY Fresh, NowWorld DEF ClashInit
<1>2. 1 \in 1..MaxDay /\ 0 \in 0..MaxLost
  BY ClashAssumption DEF ClashAssumption
<1>3. Ledger(Now)
  <2>1. FreshSession.day = 0 /\ FreshSession.daily = 0
    BY DEF FreshSession
  <2>2. Now.session = FreshSession /\ Now.file = NoFile /\ Now.paid = 0 /\ today = 1
    BY NowFields DEF ClashInit
  <2>3. PastDays(Now) /\ Accounted(Now)
    <3>1. lost = 0 /\ Returned \in Nat /\ Earned(Now.session) = 0 /\ FileEarned(Now) = 0
      BY <2>1, <2>2, ReturnedNat DEF ClashInit, Earned, FileEarned
    <3> QED
      BY <2>1, <2>2, <3>1 DEF PastDays, Accounted
  <2> QED
    BY <1>1, <2>3 DEF Ledger
<1> QED
  BY <1>2, <1>3 DEF ClashInit, ClashInv

-----------------------------------------------------------------------------
(* Every step keeps the invariant.                                         *)

\* A handler of the arena that leaves the CORE turrets alone.
LEMMA ArenaHandler ==
  ASSUME ClashInv, scene = "arena", NEW n \in Room, NEW w, Becomes(w),
         Sound(w), Follows(At(n), w), Open(w),
         UNCHANGED <<today, scene, cores, lost>>
  PROVE  ClashInv' /\ Forward
<1>1. Ledger(Now)' /\ Sound(Now)' /\ Open(Now)'
  BY AdoptSound DEF Sound, Ledger
<1>2. (\E f \in Factions : ~cores[f]) => clash.ended /\ local.over
  BY DEF ClashInv, ArenaOK
<1>3. ((\E f \in Factions : ~cores[f]) => clash.ended /\ local.over)'
  BY <1>2, AtFields DEF Becomes, Follows
<1>4. EarnedToday' >= EarnedToday
  BY AtFields DEF Becomes, Follows, Earned, EarnedToday
<1> QED
  BY <1>1, <1>3, <1>4 DEF ClashInv, ArenaOK, Forward

LEMMA KillStep ==
  ASSUME ClashInv, Kill
  PROVE  ClashInv' /\ Forward
<1>1. PICK lane \in Lanes, n \in Room : Becomes(RegisterKill(At(n), lane))
  BY DEF Kill
<1>2. /\ today \in 1..MaxDay /\ Sound(At(n)) /\ Open(At(n)) /\ ~At(n).clash.ended
      /\ scene = "arena"
  BY AtFields, AnyRoom DEF ClashInv, ArenaOK, Kill, Playing
<1> DEFINE w == RegisterKill(At(n), lane)
<1>3. Sound(w) /\ Follows(At(n), w) /\ Open(w)
  BY <1>2, RegisterKillSound
<1>4. UNCHANGED <<today, scene, cores, lost>>
  BY DEF Kill
<1> QED
  BY <1>1, <1>2, <1>3, <1>4, ArenaHandler

\* The handlers that only add pressure.
LEMMA PressureStep ==
  ASSUME ClashInv, scene = "arena", NEW lane \in Lanes, NEW amount \in Nat,
         NEW n \in Room, Becomes(AddPressure(At(n), lane, amount)),
         UNCHANGED <<today, scene, cores, lost>>
  PROVE  ClashInv' /\ Forward
<1>1. today \in 1..MaxDay /\ Sound(At(n)) /\ Open(At(n))
  BY AnyRoom DEF ClashInv, ArenaOK
<1> DEFINE w == AddPressure(At(n), lane, amount)
<1>2. Sound(w) /\ Follows(At(n), w) /\ Open(w)
  BY <1>1, AddPressureSound
<1> QED
  BY <1>2, ArenaHandler

LEMMA CampStep ==
  ASSUME ClashInv, CampDown
  PROVE  ClashInv' /\ Forward
<1>1. PICK n \in Room, pressure \in Nat, ws \in Nat :
        Becomes(RegisterCampDown(At(n), pressure, ws))
  BY Prices DEF CampDown
<1>2. today \in 1..MaxDay /\ Sound(At(n)) /\ Open(At(n)) /\ scene = "arena"
  BY AnyRoom DEF ClashInv, ArenaOK, CampDown, Playing
<1> DEFINE w == RegisterCampDown(At(n), pressure, ws)
<1>3. Sound(w) /\ Follows(At(n), w) /\ Open(w)
  BY <1>2, RegisterCampDownSound
<1>4. UNCHANGED <<today, scene, cores, lost>>
  BY DEF CampDown
<1> QED
  BY <1>1, <1>2, <1>3, <1>4, ArenaHandler

LEMMA ClashHoldStep ==
  ASSUME ClashInv, HoldHome
  PROVE  ClashInv' /\ Forward
<1> DEFINE c == [clash EXCEPT !.pressure = [l \in Lanes |->
                  IF @[l] >= HoldDecay THEN @[l] - HoldDecay ELSE 0]]
           w == [At(0) EXCEPT !.clash = c]
<1>1. /\ scene = "arena" /\ Sound(At(0)) /\ Open(At(0)) /\ clash \in Match
      /\ paid \in Nat /\ 0 \in Room
  BY NowWorld, AnyRoom DEF Room, ClashInv, ArenaOK, Ledger, HoldHome, Playing
<1>2. [l \in Lanes |-> IF clash.pressure[l] >= HoldDecay
                         THEN clash.pressure[l] - HoldDecay ELSE 0]
        \in [Lanes -> 0..PRESSURE_MAX]
  BY <1>1, ClashAssumption DEF Match, ClashAssumption
<1>3. /\ c \in Match /\ c.ended = clash.ended /\ c.result = clash.result
      /\ c.cosmetic = clash.cosmetic /\ c.kills = clash.kills
  BY <1>1, <1>2 DEF Match
<1>4. clash' = c /\ UNCHANGED <<session, file, war, local, paid, settled, behind>>
  BY DEF HoldHome
<1> HIDE DEF c
<1>5. Sound(w) /\ Follows(At(0), w) /\ w.clash = c
  BY <1>1, <1>3, MatchChange, AtFields
<1>6. Open(w)
  BY <1>1, <1>3, <1>5, AtFields DEF Open
<1>7. Becomes(w)
  BY <1>4 DEF Becomes, At
<1>8. UNCHANGED <<today, scene, cores, lost>>
  BY DEF HoldHome
<1> QED
  BY <1>1, <1>5, <1>6, <1>7, <1>8, ArenaHandler

LEMMA CoreStep ==
  ASSUME ClashInv, NEW fac \in Factions, CoreDies(fac)
  PROVE  ClashInv' /\ Forward
<1>1. PICK n \in Room :
        LET r == RegisterCoreDown(At(n), fac)
        IN  Becomes(IF r.local.over THEN r ELSE SyncFromClash(r))
  BY DEF CoreDies
<1> DEFINE r == RegisterCoreDown(At(n), fac)
           w == IF r.local.over THEN r ELSE SyncFromClash(r)
<1>2. today \in 1..MaxDay /\ scene = "arena" /\ Sound(At(n))
  BY AnyRoom DEF ClashInv, ArenaOK, CoreDies
<1>3. Sound(r) /\ Follows(At(n), r) /\ r.clash.ended
  BY <1>2, RegisterCoreDownSound
<1>4. Becomes(w)
  BY <1>1
<1> HIDE DEF r
<1>5. Sound(w) /\ w.clash.ended /\ w.local.over /\ w.session = r.session
  BY <1>3, SyncSound
<1> HIDE DEF w
<1>6. UNCHANGED <<today, scene, lost>> /\ cores' \in [Factions -> BOOLEAN]
  BY DEF CoreDies, ClashInv
<1>7. w \in World /\ Ledger(w) /\ Open(w)
  BY <1>5 DEF Sound, Ledger, Open
<1>8. Ledger(Now)' /\ Sound(Now)' /\ Open(Now)'
  BY <1>4, <1>5, <1>6, <1>7, AdoptSound
<1>9. clash'.ended /\ local'.over
  BY <1>4, <1>5 DEF Becomes
<1>10. EarnedToday' >= EarnedToday
  BY <1>3, <1>4, <1>5, <1>6, AtFields DEF Becomes, Follows, Earned, EarnedToday
<1> QED
  BY <1>2, <1>6, <1>8, <1>9, <1>10 DEF ClashInv, ArenaOK, Forward

LEMMA EnterStep ==
  ASSUME ClashInv, EnterArena
  PROVE  ClashInv' /\ Forward
<1> DEFINE s == Rolled(session)
           t == [day |-> s.day, daily |-> s.daily]
<1>1. /\ today \in 1..MaxDay /\ Now \in World /\ session \in Session
      /\ file \in Session \cup {NoFile} /\ paid \in Nat /\ behind \in BOOLEAN
  BY NowWorld DEF ClashInv, Ledger
<1>2. /\ s \in Session /\ s.day = today /\ s.daily = Earned(session)
  BY <1>1, RolledSession
<1>3. /\ session' = s /\ war' = t /\ clash' = FreshMatch /\ local' = FreshLocal
      /\ settled' = 0 /\ scene' = "arena" /\ cores' = [f \in Factions |-> TRUE]
      /\ UNCHANGED <<today, file, paid, behind, lost>>
  BY DEF EnterArena
<1> HIDE DEF s
<1>4. t \in Tracker /\ t.day = s.day /\ t.daily = s.daily
  BY <1>2 DEF Session, Tracker
<1> HIDE DEF t
<1>5. Now' \in World
  BY <1>1, <1>2, <1>3, <1>4, Fresh, NextWorld
<1>6. Ledger(Now)'
  <2>1. (PastDays(Now) /\ Accounted(Now))'
    BY <1>1, <1>2, <1>3, NowFields, NextFields
    DEF ClashInv, Ledger, PastDays, Accounted, FileEarned, Earned, Returned
  <2> QED
    BY <1>5, <2>1 DEF Ledger
<1>7. Mirrored(Now)'
  BY <1>3, <1>4, NextFields DEF Mirrored
<1>8. /\ clash'.ended = FALSE /\ clash'.cosmetic = FALSE /\ clash'.kills = 0
      /\ local'.over = FALSE
  BY <1>3 DEF FreshMatch, FreshLocal
<1>9. Settled(Now)' /\ Open(Now)'
  BY <1>3, <1>8, NextFields, ClashAssumption DEF Settled, Open, ClashAssumption
<1>10. ArenaOK'
  BY <1>3, <1>6, <1>7, <1>9 DEF ArenaOK, Sound
<1>11. EarnedToday' = EarnedToday /\ EarnedToday \in Nat
  BY <1>1, <1>2, <1>3, NowFields, EarnedNat DEF Earned, EarnedToday
<1> QED
  BY <1>1, <1>3, <1>6, <1>10, <1>11 DEF ClashInv, Forward

\* The ledger part of the state is untouched.
LEMMA LedgerStays ==
  ASSUME ClashInv, UNCHANGED <<today, session, file, paid, behind, lost>>,
         war' \in Tracker, clash' \in Match, local' \in Local, settled' \in Nat
  PROVE  Ledger(Now)' /\ Forward
<1>1. /\ session \in Session /\ file \in Session \cup {NoFile} /\ paid \in Nat
      /\ behind \in BOOLEAN
  BY NowWorld DEF ClashInv, Ledger
<1>2. Now' \in World
  BY <1>1, NextWorld
<1>3. (PastDays(Now) /\ Accounted(Now))'
  BY NowFields, NextFields
  DEF ClashInv, Ledger, PastDays, Accounted, FileEarned, Earned, Returned
<1>4. EarnedToday' = EarnedToday /\ EarnedToday \in Nat
  BY NowFields, EarnedNat DEF ClashInv, Ledger, Earned, EarnedToday
<1> QED
  BY <1>1, <1>2, <1>3, <1>4 DEF Ledger, Forward

LEMMA LeaveStep ==
  ASSUME ClashInv, LeaveArena
  PROVE  ClashInv' /\ Forward
<1>1. Ledger(Now)' /\ Forward
  BY Fresh, LedgerStays DEF LeaveArena
<1> QED
  BY <1>1 DEF ClashInv, LeaveArena

LEMMA StartIsolatedStep ==
  ASSUME ClashInv, StartIsolated
  PROVE  ClashInv' /\ Forward
<1>1. war \in Tracker /\ clash \in Match /\ local \in Local /\ settled \in Nat
  BY NowWorld DEF ClashInv, Ledger
<1>2. Ledger(Now)' /\ Forward
  BY <1>1, LedgerStays DEF StartIsolated
<1>3. ~local'.over /\ settled' = 0
  <2>1. local' = FreshLocal /\ settled' = 0
    BY DEF ClashInv, StartIsolated
  <2>2. FreshLocal.over = FALSE
    BY DEF FreshLocal
  <2> QED
    BY <2>1, <2>2
<1>4. ProbeSettled(Now)'
  BY <1>3, NextFields DEF ProbeSettled
<1> QED
  BY <1>2, <1>4 DEF ClashInv, StartIsolated

LEMMA IsolatedCoreStep ==
  ASSUME ClashInv, NEW fac \in Factions, IsolatedCoreDies(fac)
  PROVE  ClashInv' /\ Forward
<1>1. PICK n \in Room :
        Becomes(IF local.over THEN At(n) ELSE ResolveLocal(At(n), fac))
  BY DEF IsolatedCoreDies
<1> DEFINE w == IF local.over THEN At(n) ELSE ResolveLocal(At(n), fac)
<1>2. /\ today \in 1..MaxDay /\ Ledger(At(n)) /\ ProbeSettled(At(n))
      /\ At(n).local = local /\ scene = "probe"
  BY AtFields, AnyRoom DEF ClashInv, IsolatedCoreDies
<1>3. Ledger(w) /\ ProbeSettled(w) /\ Earned(w.session) >= EarnedToday
  <2>1. EarnedToday = Earned(At(n).session) /\ EarnedToday \in Nat
    BY <1>2, AtFields, EarnedNat DEF Ledger, Earned, EarnedToday
  <2> QED
    BY <1>2, <2>1, ResolveLocalSound
<1>4. Becomes(w) /\ UNCHANGED <<today, scene, lost>>
  BY <1>1 DEF IsolatedCoreDies
<1>5. cores' \in [Factions -> BOOLEAN]
  BY DEF IsolatedCoreDies, ClashInv
<1> HIDE DEF w
<1>6. Ledger(Now)' /\ ProbeSettled(Now)'
  BY <1>3, <1>4, AdoptSound DEF Ledger
<1>7. Forward
  BY <1>3, <1>4 DEF Becomes, Forward, Earned, EarnedToday
<1> QED
  BY <1>2, <1>4, <1>5, <1>6, <1>7 DEF ClashInv

LEMMA ClashShutdownStep ==
  ASSUME ClashInv, ShutdownIsolated
  PROVE  ClashInv' /\ Forward
<1>1. war \in Tracker /\ clash \in Match
  BY NowWorld DEF ClashInv, Ledger
<1>2. Ledger(Now)' /\ Forward
  BY <1>1, Fresh, LedgerStays DEF ShutdownIsolated
<1> QED
  BY <1>2 DEF ClashInv, ShutdownIsolated

\* Midnight leaves yesterday's totals behind: no day key is the new day's.
LEMMA MidnightStep ==
  ASSUME ClashInv, Midnight
  PROVE  ClashInv' /\ Forward
<1>1. /\ today \in 1..MaxDay /\ Ledger(Now) /\ today' = today + 1 /\ today < MaxDay
      /\ paid' = 0
      /\ UNCHANGED <<scene, cores, session, file, war, clash, local, settled,
                     behind, lost>>
  BY DEF ClashInv, Midnight
<1>2. today' \in 1..MaxDay /\ today' > today
  BY <1>1, ClashAssumption DEF ClashAssumption
<1>3. /\ session \in Session /\ file \in Session \cup {NoFile}
      /\ war \in Tracker /\ clash \in Match /\ local \in Local /\ settled \in Nat
      /\ behind \in BOOLEAN
  BY <1>1, NowWorld DEF Ledger
<1>4. Now' \in World
  BY <1>1, <1>3, NextWorld
<1>5. /\ session.day < today' /\ session.day <= today'
      /\ file # NoFile => file.day < today' /\ file.day <= today'
  <2>1. session.day \in Nat /\ (file # NoFile => file.day \in Nat)
    BY <1>3 DEF Session, Day
  <2> QED
    BY <1>1, <2>1, NowFields DEF Ledger, PastDays
<1>6. session.day # today' /\ (file # NoFile => file.day # today')
  <2>1. session.day \in Nat /\ (file # NoFile => file.day \in Nat)
    BY <1>3 DEF Session, Day
  <2> QED
    BY <1>1, <1>5, <2>1
<1>7. PastDays(Now)' /\ Accounted(Now)'
  <2>1. lost' \in Nat /\ Returned' \in Nat
    BY <1>1, ReturnedNat DEF Ledger, Accounted, Returned
  <2>2. EarnedToday' = 0 /\ Earned(session)' = EarnedToday'
    BY <1>1, <1>6 DEF Earned, EarnedToday
  <2>3. Now'.paid = 0 /\ PastDays(Now)'
    BY <1>1, <1>5, NextFields DEF PastDays
  <2>4. FileEarned(Now)' >= EarnedToday'
    BY <1>1, <1>6, <2>2, NextFields DEF FileEarned, Earned
  <2>5. Now'.paid <= Returned' + EarnedToday'
    <3>1. \A r \in Nat : \A e : e = 0 => 0 <= r + e
      OBVIOUS
    <3> QED
      BY <2>1, <2>2, <2>3, <3>1
  <2> QED
    BY <2>1, <2>2, <2>3, <2>4, <2>5, NextFields DEF Accounted
<1>8. Ledger(Now)'
  BY <1>4, <1>7 DEF Ledger
<1>9. scene' = "arena" => ArenaOK'
  <2> SUFFICES ASSUME scene = "arena" PROVE ArenaOK'
    BY <1>1
  <2>1. Mirrored(Now)' /\ Settled(Now)' /\ Open(Now)'
    BY <1>1, NowFields, NextFields
    DEF ClashInv, ArenaOK, Sound, Mirrored, Settled, Open
  <2> QED
    BY <1>1, <1>8, <2>1 DEF ClashInv, ArenaOK, Sound
<1>10. scene' = "probe" => ProbeSettled(Now)'
  BY <1>1, NowFields, NextFields DEF ClashInv, ProbeSettled
<1>11. EarnedToday' = 0
  BY <1>1, <1>6 DEF EarnedToday
<1> QED
  BY <1>1, <1>2, <1>8, <1>9, <1>10, <1>11 DEF ClashInv, Forward

LEMMA SaveStep ==
  ASSUME ClashInv, SaveElsewhere
  PROVE  ClashInv' /\ Forward
<1>1. PICK n \in Room : Becomes(Save(At(n)))
  BY DEF SaveElsewhere
<1> DEFINE a == At(n)
           w == Save(a)
<1>2. UNCHANGED <<today, scene, cores, lost>>
  BY DEF SaveElsewhere
<1>3. Ledger(a)
  BY AnyRoom DEF ClashInv
<1>4. /\ a.session = session /\ a.war = war /\ a.clash = clash /\ a.local = local
      /\ a.settled = settled
  BY AtFields
<1>5. Becomes(w)
  BY <1>1
<1> HIDE DEF a
<1>6. /\ Ledger(w) /\ w.session = session /\ w.war = war /\ w.clash = clash
      /\ w.local = local /\ w.settled = settled
  BY <1>3, <1>4, SaveLedger DEF Ledger, Accounted
<1> HIDE DEF w
<1>7. Ledger(Now)'
  BY <1>2, <1>5, <1>6, AdoptSound DEF Ledger
<1>8. UNCHANGED <<session, war, clash, local, settled>>
  BY <1>5, <1>6 DEF Becomes
<1>9. scene' = "arena" => ArenaOK'
  <2> SUFFICES ASSUME scene = "arena" PROVE ArenaOK'
    BY <1>2
  <2>1. Mirrored(Now)' /\ Settled(Now)' /\ Open(Now)'
    BY <1>8, NowFields, NextFields
    DEF ClashInv, ArenaOK, Sound, Mirrored, Settled, Open
  <2> QED
    BY <1>2, <1>7, <1>8, <2>1 DEF ClashInv, ArenaOK, Sound
<1>10. scene' = "probe" => ProbeSettled(Now)'
  BY <1>2, <1>8, NowFields, NextFields DEF ClashInv, ProbeSettled
<1>11. EarnedToday' = EarnedToday /\ EarnedToday \in Nat
  BY <1>2, <1>8, NowFields, EarnedNat DEF ClashInv, Ledger, Earned, EarnedToday
<1> QED
  BY <1>2, <1>7, <1>8, <1>9, <1>10, <1>11 DEF ClashInv, Forward

\* One record more is lost: one allowance more may have been handed back.
LEMMA ReturnedGrows ==
  ASSUME lost \in Nat, lost' = lost + 1
  PROVE  Returned' = Returned + DAILY_CAP
<1>1. DAILY_CAP \in Nat
  BY ClashAssumption DEF ClashAssumption
<1>2. DAILY_CAP * (lost + 1) = DAILY_CAP * lost + DAILY_CAP
  BY <1>1
<1> QED
  BY <1>2 DEF Returned

LEMMA LoseStep ==
  ASSUME ClashInv, LoseRecord
  PROVE  lost' = lost + 1 /\ lost' \in 0..MaxLost
  BY ClashAssumption DEF ClashInv, LoseRecord, ClashAssumption

LEMMA LoadedSession ==
  ASSUME today \in 1..MaxDay, NEW f \in Session \cup {NoFile},
         f # NoFile => f.day <= today
  PROVE  /\ Loaded(f) \in Session
         /\ Loaded(f).day <= today
         /\ Earned(Loaded(f)) = IF f = NoFile THEN 0 ELSE Earned(f)
<1>1. CASE f = NoFile
  <2>1. FreshSession.day = 0 /\ FreshSession.daily = 0
    BY DEF FreshSession
  <2> QED
    BY <1>1, <2>1, Fresh DEF Loaded, Earned
<1>2. CASE f # NoFile
  <2>1. /\ Rolled(f) \in Session /\ Rolled(f).day = today
        /\ Rolled(f).daily = Earned(f)
    BY <1>2, RolledSession
  <2> QED
    BY <1>2, <2>1 DEF Loaded, Earned
<1> QED
  BY <1>1, <1>2

\* The process starts again and reads f: either everything is there, or the
\* loss is counted.
LEMMA StartAgainStep ==
  ASSUME ClashInv, NEW f \in {file, NoFile}, StartAgain(f),
         file' \in {file, NoFile}, f = file => file' = file,
         \/ lost' = lost + 1
         \/ lost' = lost /\ f = file /\ ~behind,
         lost' \in 0..MaxLost
  PROVE  ClashInv' /\ Forward
<1>1. /\ today \in 1..MaxDay /\ session \in Session /\ paid \in Nat
      /\ file \in Session \cup {NoFile} /\ PastDays(Now) /\ Accounted(Now)
      /\ lost \in Nat /\ Now \in World
  BY NowWorld DEF ClashInv, Ledger, Accounted
<1>2. /\ scene' = "space" /\ session' = Loaded(f) /\ behind' = FALSE
      /\ war' = FreshTracker /\ clash' = FreshMatch /\ local' = FreshLocal
      /\ settled' = 0 /\ UNCHANGED <<today, cores, paid>>
  BY DEF StartAgain
<1>3. file # NoFile => file.day <= today
  BY <1>1, NowFields DEF PastDays
<1>4. /\ session' \in Session /\ session'.day <= today
      /\ Earned(session)' = IF f = NoFile THEN 0 ELSE Earned(f)
  BY <1>1, <1>2, <1>3, LoadedSession DEF Earned
<1>5. Now' \in World
  BY <1>1, <1>2, <1>4, Fresh, NextWorld
<1>6. PastDays(Now)'
  BY <1>2, <1>3, <1>4, NextFields DEF PastDays
<1>7. /\ EarnedToday = Earned(Now.session) /\ EarnedToday \in Nat
      /\ EarnedToday <= DAILY_CAP /\ DAILY_CAP \in Nat
  <2>1. EarnedToday = Earned(Now.session) /\ EarnedToday \in Nat
    BY <1>1, NowFields, EarnedNat DEF Earned, EarnedToday
  <2>2. session.daily \in 0..DAILY_CAP /\ DAILY_CAP \in Nat
    BY <1>1, ClashAssumption DEF Session, WS, ClashAssumption
  <2> QED
    BY <2>1, <2>2 DEF EarnedToday
<1>8. EarnedToday' = Earned(session)' /\ EarnedToday' \in Nat
  <2>1. session'.daily \in Nat
    BY <1>4 DEF Session, WS
  <2> QED
    BY <2>1 DEF Earned, EarnedToday
<1>9. FileEarned(Now)' >= EarnedToday'
  <2>1. Now'.file = file' /\ UNCHANGED today
    BY <1>2, NextFields
  <2>2. CASE file' = f
    BY <1>4, <1>8, <2>1, <2>2 DEF FileEarned, Earned
  <2>3. CASE file' # f
    <3>1. f = NoFile /\ file' = file /\ file # NoFile
      BY <2>3
    <3>2. EarnedToday' = 0
      BY <1>4, <1>8, <3>1
    <3>3. file.daily \in Nat
      BY <1>1, <3>1 DEF Session, WS
    <3> QED
      BY <2>1, <3>1, <3>2, <3>3 DEF FileEarned, Earned
  <2> QED
    BY <2>2, <2>3
<1>10. paid <= Returned + EarnedToday /\ Returned \in Nat
  BY <1>1, <1>7, NowFields, ReturnedNat DEF Accounted
<1>11. Now'.paid = paid /\ Now'.session = session'
  BY <1>2, NextFields
<1>12. CASE lost' = lost /\ f = file /\ ~behind
  <2>1. Earned(session)' = FileEarned(Now) /\ FileEarned(Now) >= EarnedToday
    BY <1>1, <1>4, <1>7, <1>12, NowFields DEF Accounted, FileEarned
  <2>2. Returned' = Returned
    BY <1>12 DEF Returned
  <2>3. paid <= Returned' + EarnedToday'
    BY <1>1, <1>7, <1>8, <1>10, <2>1, <2>2
  <2>4. Accounted(Now)'
    BY <1>1, <1>8, <1>9, <1>11, <1>12, <2>3 DEF Accounted
  <2>5. Forward
    BY <1>2, <1>8, <1>12, <2>1 DEF Forward
  <2> QED
    BY <1>1, <1>2, <1>5, <1>6, <2>4, <2>5 DEF ClashInv, Ledger
<1>13. CASE lost' = lost + 1
  <2>1. Returned' = Returned + DAILY_CAP
    BY <1>1, <1>13, ReturnedGrows
  <2>2. paid <= Returned' + EarnedToday'
    BY <1>1, <1>7, <1>8, <1>10, <2>1
  <2>3. lost' \in Nat
    BY <1>1, <1>13
  <2>4. Accounted(Now)'
    BY <1>8, <1>9, <1>11, <2>2, <2>3 DEF Accounted
  <2> QED
    BY <1>1, <1>2, <1>5, <1>6, <1>13, <2>4 DEF ClashInv, Forward, Ledger
<1> QED
  BY <1>12, <1>13

LEMMA StutterStep ==
  ASSUME ClashInv, UNCHANGED clashVars
  PROVE  ClashInv' /\ Forward
<1>1. Now \in World /\ paid \in Nat
  BY NowWorld DEF ClashInv, Ledger
<1>2. Now' = Now /\ UNCHANGED <<today, scene, cores, lost, local, settled, clash>>
  BY DEF clashVars, Now, At
<1>3. Ledger(Now)' /\ (Sound(Now) => Sound(Now)') /\ (Open(Now) => Open(Now)')
      /\ (ProbeSettled(Now) => ProbeSettled(Now)')
  BY <1>2 DEF ClashInv, Ledger, PastDays, Accounted, FileEarned, Earned, Returned, Sound,
              Mirrored, Settled, Open, ProbeSettled
<1>4. EarnedToday' = EarnedToday /\ EarnedToday \in Nat
  BY <1>1, NowFields, EarnedNat DEF clashVars, Earned, EarnedToday
<1> QED
  BY <1>1, <1>2, <1>3, <1>4 DEF ClashInv, ArenaOK, Forward, clashVars

LEMMA ClashInvNext == ClashInv /\ [ClashNext]_clashVars => ClashInv' /\ Forward
<1> SUFFICES ASSUME ClashInv, [ClashNext]_clashVars PROVE ClashInv' /\ Forward
  OBVIOUS
<1>1. CASE EnterArena
  BY <1>1, EnterStep
<1>2. CASE LeaveArena
  BY <1>2, LeaveStep
<1>3. CASE Kill
  BY <1>3, KillStep
<1>4. CASE MinionDown
  BY <1>4, PressureStep, Prices DEF MinionDown, Playing
<1>5. CASE CampDown
  BY <1>5, CampStep
<1>6. CASE StructureDown
  <2>1. PICK lane \in Lanes, amount \in StructurePressure, n \in Room :
          Becomes(AddPressure(At(n), lane, amount))
    BY <1>6 DEF StructureDown
  <2>2. amount \in Nat /\ scene = "arena" /\ UNCHANGED <<today, scene, cores, lost>>
    BY <1>6, Prices DEF StructureDown, Playing
  <2> QED
    BY <2>1, <2>2, PressureStep
<1>7. CASE Advance
  <2>1. PICK lane \in Lanes, amount \in PresencePressure, n \in Room :
          Becomes(AddPressure(At(n), lane, amount))
    BY <1>7 DEF Advance
  <2>2. amount \in Nat /\ scene = "arena" /\ UNCHANGED <<today, scene, cores, lost>>
    BY <1>7, Prices DEF Advance, Playing
  <2> QED
    BY <2>1, <2>2, PressureStep
<1>8. CASE HoldHome
  BY <1>8, ClashHoldStep
<1>9. CASE BeaconClaimed
  BY <1>9, PressureStep, Prices DEF BeaconClaimed
<1>10. CASE \E fac \in Factions : CoreDies(fac)
  BY <1>10, CoreStep
<1>11. CASE StartIsolated
  BY <1>11, StartIsolatedStep
<1>12. CASE ShutdownIsolated
  BY <1>12, ClashShutdownStep
<1>13. CASE \E fac \in Factions : IsolatedCoreDies(fac)
  BY <1>13, IsolatedCoreStep
<1>14. CASE Midnight
  BY <1>14, MidnightStep
<1>15. CASE SaveElsewhere
  BY <1>15, SaveStep
<1>16. CASE Restart
  <2>1. CASE behind
    <3>1. LoseRecord /\ StartAgain(file) /\ file' = file
      BY <1>16, <2>1 DEF Restart
    <3> QED
      BY <3>1, LoseStep, StartAgainStep
  <2>2. CASE ~behind
    <3>1. lost' = lost /\ StartAgain(file) /\ file' = file /\ lost' \in 0..MaxLost
      BY <1>16, <2>2 DEF Restart, ClashInv
    <3> QED
      BY <2>2, <3>1, StartAgainStep
  <2> QED
    BY <2>1, <2>2
<1>17. CASE CrashWhileSaving
  BY <1>17, LoseStep, StartAgainStep DEF CrashWhileSaving
<1>19. CASE RestartUnread
  BY <1>19, LoseStep, StartAgainStep DEF RestartUnread
<1>18. CASE UNCHANGED clashVars
  BY <1>18, StutterStep
<1> QED
  BY <1>1, <1>2, <1>3, <1>4, <1>5, <1>6, <1>7, <1>8, <1>9, <1>10, <1>11, <1>12,
     <1>13, <1>14, <1>15, <1>16, <1>17, <1>18, <1>19 DEF ClashNext

\* The inductive invariant holds in every reachable state.
THEOREM InvCorrect == ClashSpec => []ClashInv
<1>1. ClashInit => ClashInv
  BY ClashInvInit
<1>2. ClashInv /\ [ClashNext]_clashVars => ClashInv'
  BY ClashInvNext
<1> QED
  BY <1>1, <1>2, PTL DEF ClashSpec

\* Every variable keeps its type: no total passes the cap, no lane passes
\* PRESSURE_MAX, no running match counts past TARGET_KILLS.
THEOREM ClashTypeCorrect == ClashSpec => []ClashTypeOK
BY InvCorrect, InvType, PTL

-----------------------------------------------------------------------------
(* What the invariant says.                                                *)

\* Each lost record hands back one allowance at most, and the session counts
\* the rest.
LEMMA PaidWithinCap == ClashInv => DailyCap
<1> SUFFICES ASSUME ClashInv PROVE DailyCap
  OBVIOUS
<1>1. /\ session \in Session /\ lost \in Nat /\ paid \in Nat
      /\ paid <= Returned + Earned(session)
  BY NowFields, NowWorld DEF ClashInv, Ledger, Accounted
<1>2. DAILY_CAP \in Nat /\ Earned(session) \in 0..DAILY_CAP
  BY <1>1, ClashAssumption DEF ClashAssumption, Earned, Session, WS
<1>3. DAILY_CAP * (lost + 1) = Returned + DAILY_CAP /\ Returned \in Nat
  <2>1. DAILY_CAP * (lost + 1) = DAILY_CAP * lost + DAILY_CAP
    BY <1>1, <1>2
  <2> QED
    BY <2>1, <1>1, ReturnedNat DEF Returned
<1>4. paid <= DAILY_CAP * (lost + 1)
  <2> HIDE DEF Returned
  <2> QED
    BY <1>1, <1>2, <1>3
<1> QED
  BY <1>4 DEF DailyCap

\* Whatever the number of matches, scene changes and restarts of a day, the
\* player is paid at most DAILY_CAP, and once more for each loss of the day's
\* record: a save that failed or was cut off, a load that failed.
THEOREM CapHolds == ClashSpec => []DailyCap
<1>1. ClashInv => DailyCap
  BY PaidWithinCap
<1> QED
  BY <1>1, InvCorrect, PTL

\* The HUD's total and the session's agree on the day they share, failed saves
\* and midnights included.
THEOREM LedgersStayEqual == ClashSpec => []LedgersAgree
<1>1. ClashInv => LedgersAgree
  BY NowFields DEF ClashInv, ArenaOK, Sound, Mirrored, LedgersAgree
<1> QED
  BY <1>1, InvCorrect, PTL

\* Each match, in the arena or isolated, is settled once and shown alike.
THEOREM SettledOnce == ClashSpec => []MatchSettledOnce
<1>1. ASSUME ClashInv PROVE MatchSettledOnce
  <2>1. CASE scene = "arena"
    <3>1. Settled(Now) /\ ((\E f \in Factions : ~cores[f]) => clash.ended /\ local.over)
      BY <1>1, <2>1 DEF ClashInv, ArenaOK, Sound
    <3> QED
      BY <2>1, <3>1, NowFields DEF Settled, MatchSettledOnce
  <2>2. CASE scene = "probe"
    <3>1. ProbeSettled(Now)
      BY <1>1, <2>2 DEF ClashInv
    <3> QED
      BY <2>2, <3>1, NowFields DEF ProbeSettled, MatchSettledOnce
  <2>3. CASE scene = "space"
    BY <2>3 DEF MatchSettledOnce
  <2> QED
    BY <1>1, <2>1, <2>2, <2>3 DEF ClashInv
<1> QED
  BY <1>1, InvCorrect, PTL

\* The initial session has earned nothing.
LEMMA AllowanceInit == ClashInit => Allowance!Init
<1>1. SUFFICES ASSUME ClashInit PROVE Allowance!Init
  OBVIOUS
<1>2. FreshSession.daily = 0
  BY DEF FreshSession
<1>3. EarnedToday = 0 /\ today \in Nat /\ lost = 0
  BY <1>1, <1>2 DEF ClashInit, EarnedToday
<1> QED
  BY <1>3 DEF Allowance!Init

LEMMA Difference ==
  ASSUME NEW cap \in Nat, NEW a \in Nat, NEW b \in 0..cap, b > a
  PROVE  \E n \in 1..cap : b = a + n
<1>1. b - a \in 1..cap /\ b = a + (b - a)
  OBVIOUS
<1> QED
  BY <1>1

\* A step forward maps to a step of the allowance or to a stutter.
LEMMA AllowanceNext ==
  ASSUME ClashInv, ClashInv', Forward
  PROVE  [Allowance!Earn \/ Allowance!NewDay \/ Allowance!Lose]_<<today, EarnedToday, lost>>
<1>1. DAILY_CAP \in Nat
  BY ClashAssumption DEF ClashAssumption
<1>2. EarnedToday \in 0..DAILY_CAP
  <2>1. session \in Session
    BY NowWorld DEF ClashInv, Ledger
  <2> QED
    BY <1>1, <2>1 DEF EarnedToday, Session, WS
<1>3. EarnedToday' \in 0..DAILY_CAP
  <2>1. Now' \in World
    BY DEF ClashInv, Ledger
  <2>2. session' \in Session
    BY <2>1, WorldFields, NextFields
  <2> QED
    BY <1>1, <2>2 DEF EarnedToday, Session, WS
<1>4. CASE UNCHANGED <<today, lost>> /\ EarnedToday' = EarnedToday
  BY <1>4
<1>5. CASE UNCHANGED <<today, lost>> /\ EarnedToday' > EarnedToday
  <2>1. PICK n \in 1..DAILY_CAP : EarnedToday' = EarnedToday + n
    BY <1>1, <1>2, <1>3, <1>5, Difference
  <2>2. EarnedToday' <= DAILY_CAP
    BY <1>1, <1>3
  <2> QED
    BY <1>5, <2>1, <2>2 DEF Allowance!Earn
<1>6. CASE today' > today /\ EarnedToday' = 0 /\ lost' = lost
  BY <1>6 DEF Allowance!NewDay
<1>7. CASE today' = today /\ lost' = lost + 1
  BY <1>3, <1>7 DEF Allowance!Lose
<1> QED
  BY <1>1, <1>2, <1>3, <1>4, <1>5, <1>6, <1>7 DEF Forward

\* The ledger implements DailyAllowance: every step earns within the cap,
\* opens a new day, loses the record (a failed or cut-off save, a failed load),
\* or is invisible to the allowance.
THEOREM AllowanceKept == ClashSpec => KeepsAllowance
<1>1. ClashInv /\ [ClashNext]_clashVars => Forward
  BY ClashInvNext
<1>2. ClashInv /\ ClashInv' /\ Forward
        => [Allowance!Earn \/ Allowance!NewDay \/ Allowance!Lose]_<<today, EarnedToday, lost>>
  BY AllowanceNext
<1> QED
  BY <1>1, <1>2, AllowanceInit, InvCorrect, PTL
     DEF ClashSpec, KeepsAllowance, Allowance!Spec

===============================================================================

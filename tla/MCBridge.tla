------------------------------- MODULE MCBridge -------------------------------
(***************************************************************************)
(* Bridge for TLC.  The initial state picks a scenario, which bounds what  *)
(* the user and the clients do: their product would be too large.          *)
(***************************************************************************)
EXTENDS Bridge

CONSTANTS MaxServers, Upload, Clients, Single

VARIABLE scenario  \* how many servers, clients and messages, and of which kinds

MCServers == 1..MaxServers

S(name, servers, clients, each, msgs, kinds, ages, stops) ==
  [name |-> name, servers |-> servers, clients |-> clients, each |-> each, msgs |-> msgs, kinds |-> kinds,
   ages |-> ages, stops |-> stops]

Scenarios ==
  { S("upload", 1, Upload, 2, MaxMsgs, {"chunk"}, FALSE, FALSE),
    S("shutdown", 1, Upload, 2, 0, {}, TRUE, TRUE),
    S("cancel", 1, Single, 1, 2, {"chunk", "handshake", "junk"}, TRUE, TRUE),
    S("heartbeat", 1, Upload, 2, 1, {"ping"}, TRUE, FALSE),
    S("clients", 1, Clients, 3, 0, {}, FALSE, FALSE),
    S("restart", 2, Single, 1, 0, {}, FALSE, TRUE) }

MCInit == BridgeInit /\ scenario \in Scenarios

Within ==
  /\ Cardinality({g \in Servers : mpc'[g] # "off"}) <= scenario.servers
  /\ scenario.stops \/ main' # "join"
  /\ scenario.ages \/ \A g \in Servers, c \in Conns : lastPing'[g][c] # "old"
  /\ \A g \in Servers : Cardinality({c \in Conns : owner'[c] = g}) <= scenario.each
  /\ \A c \in Conns : owner'[c] # 0 => c \in scenario.clients
  /\ nsent' <= scenario.msgs
  /\ \A c \in Conns : \A i \in DOMAIN inbox'[c] : inbox'[c][i].kind \in scenario.kinds

MCNext == Next /\ Within /\ UNCHANGED scenario
MCSpec == MCInit /\ [][MCNext]_<<vars, scenario>> /\ Fairness
=============================================================================

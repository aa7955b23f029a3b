------------------------------- MODULE MCWsPair --------------------------------
(***************************************************************************)
(* Instances of WsPair: families of configurations, one per question.      *)
(***************************************************************************)
EXTENDS WsPair

Factory(snct, cnct, smwb, cmwb, require) ==
  [snct |-> snct, cnct |-> cnct, smwb |-> smwb, cmwb |-> cmwb, require |-> require]

\* What enable_*_permessage_deflate configures.
ServerDefault == Factory(FALSE, FALSE, 12, 12, FALSE)
ClientDefault == [snct |-> FALSE, cnct |-> FALSE, smwb |-> NoBits, cmwb |-> Asked]

Config(client, server, frames, fins, sizes, ping, closers, failers, cuts, foreign) ==
  [client |-> client, server |-> server, frames |-> frames, fins |-> fins, sizes |-> sizes,
   ping |-> ping, closers |-> closers, failers |-> failers, cuts |-> cuts,
   foreign |-> foreign]

Frames2(c, s) == [e \in Endpoints |-> IF e = "client" THEN c ELSE s]

Client(offers) == [origin |-> "here", offers |-> offers, subs |-> <<>>]
Server(factories) == [origins |-> {}, factories |-> factories, subs |-> <<>>]

ServerFactories ==
  {f \in {Factory(a, b, s, c, r) : a \in BOOLEAN, b \in BOOLEAN,
            s \in {NoBits} \cup Windows, c \in {NoBits} \cup Windows,
            r \in BOOLEAN} : f.require => f.cmwb # NoBits}

\* Every pair of factories, and two compressed frames to the server.
Negotiating ==
  {Config(Client(<<o>>), Server(<<f>>), Frames2(2, 0), {TRUE}, {1}, -1, {}, {}, FALSE, "none") :
     o \in Params, f \in ServerFactories}

\* Several offers, several factories: the client has to find out which one.
Choosing ==
  LET Offers == {p \in Params : p.snct = FALSE /\ p.smwb = NoBits}
      Some == {f \in ServerFactories : ~f.snct /\ ~f.cnct /\ f.smwb = NoBits}
  IN  {Config(Client(<<o, q>>), Server(<<f, g>>), Frames2(1, 0), {TRUE}, {1}, -1, {}, {}, FALSE, "none") :
         o \in Offers, q \in Offers, f \in Some, g \in Some}

\* Subprotocols and origins.
Subs == {<<>>, <<"a">>, <<"b">>, <<"a", "b">>, <<"b", "a">>}
Admitting ==
  {Config([origin |-> "here", offers |-> <<>>, subs |-> s],
          [origins |-> o, factories |-> <<>>, subs |-> t],
          Frames2(0, 0), {}, {}, -1, {"client"}, {}, TRUE, "none") :
     s \in Subs, t \in Subs, o \in {{}, {"here"}, {"there"}}}

\* Traffic: messages in fragments, pings, closes and failures of both.
Talking ==
  {Config(Client(<<ClientDefault>>), Server(<<ServerDefault>>), Frames2(2, 1), BOOLEAN, {1, 2}, 0,
          Endpoints, {"client"}, FALSE, "none")}
Cutting ==
  {Config(Client(<<>>), Server(<<>>), Frames2(1, 1), {TRUE}, {1}, -1, Endpoints, {}, TRUE, "none")}

\* Another implementation at either end.
Strange ==
  {Config([origin |-> "here", offers |-> <<ClientDefault>>, subs |-> <<"a">>],
          [origins |-> {}, factories |-> <<ServerDefault>>, subs |-> <<"a">>],
          [x \in Endpoints |-> IF x = e THEN 2 ELSE 0], {TRUE}, {1}, -1, Endpoints, {}, TRUE, e) : e \in Endpoints}

MCConfigs == Negotiating \cup Choosing \cup Admitting \cup Talking \cup Cutting
             \cup Strange

================================================================================

------------------------------ MODULE Negotiation ------------------------------
(***************************************************************************)
(* The opening handshake of lib/websockets as a computation: what a        *)
(* ServerProtocol answers to the request of a ClientProtocol, and what the *)
(* client makes of the answer.  The payloads of the headers are records;   *)
(* the parameters of permessage-deflate keep their values, because both    *)
(* endpoints derive the configuration of their (de)compressor from them.   *)
(*                                                                         *)
(* A window is a number of bits, NoBits for the None of the code and Asked *)
(* for the True of client_max_window_bits (offered without a value).       *)
(***************************************************************************)
EXTENDS Integers, Sequences, SequencesExt

CONSTANT Windows            \* the values a *_max_window_bits may have

ASSUME WindowsAssumption == Windows \subseteq 8..15

NoBits == 0
Asked  == 1
NoExt  == [enabled |-> FALSE]
NoSub  == "none"            \* no subprotocol

Params == [snct: BOOLEAN, cnct: BOOLEAN, smwb: {NoBits} \cup Windows,
           cmwb: {NoBits, Asked} \cup Windows]

\* The configuration of one endpoint's PerMessageDeflate.
Extension(remoteNct, localNct, remoteBits, localBits) ==
  LET Full(bits) == IF bits = NoBits THEN 15 ELSE bits
  IN  [enabled |-> TRUE, remoteNct |-> remoteNct, localNct |-> localNct,
       remoteBits |-> Full(remoteBits), localBits |-> Full(localBits)]

\* The smaller of two windows, where None means no limit.
Narrower(a, b) ==
  IF a = NoBits THEN b ELSE IF b = NoBits \/ a < b THEN a ELSE b

--------------------------------------------------------------------------------
(* ServerPerMessageDeflateFactory.process_request_params *)

\* The factory raises NegotiationError: the offer is skipped.
ServerDeclines(cfg, req) ==
  cfg.cmwb # NoBits /\ cfg.require /\ req.cmwb = NoBits

ServerParams(cfg, req) ==
  [snct |-> cfg.snct \/ req.snct,
   cnct |-> cfg.cnct \/ req.cnct,
   smwb |-> Narrower(cfg.smwb, req.smwb),
   cmwb |-> IF req.cmwb = NoBits THEN NoBits
            ELSE IF req.cmwb = Asked THEN cfg.cmwb
            ELSE Narrower(cfg.cmwb, req.cmwb)]

ServerExtension(resp) == Extension(resp.cnct, resp.snct, resp.cmwb, resp.smwb)

(* ClientPerMessageDeflateFactory.process_response_params *)

\* The factory raises NegotiationError: the answer is not one to its offer.
ClientRefuses(cfg, resp) ==
  \/ resp.cmwb = Asked
  \/ cfg.snct /\ ~resp.snct
  \/ cfg.smwb # NoBits /\ (resp.smwb = NoBits \/ resp.smwb > cfg.smwb)
  \/ cfg.cmwb = NoBits /\ resp.cmwb # NoBits
  \/ cfg.cmwb \in Windows /\ resp.cmwb > cfg.cmwb

ClientExtension(cfg, resp) ==
  Extension(resp.snct, cfg.cnct \/ resp.cnct, resp.smwb,
            IF resp.cmwb = NoBits /\ cfg.cmwb \in Windows THEN cfg.cmwb
            ELSE resp.cmwb)

--------------------------------------------------------------------------------
(* ServerProtocol.process_request and ClientProtocol.process_response.     *)
(* srv: origins (a set, or {} for no check), factories, subs.              *)
(* cli: origin, offers (its factories), subs.                              *)

\* The indices of the server's factories that take an offer, for each offer.
Takers(factories, req) ==
  {j \in DOMAIN factories : ~ServerDeclines(factories[j], req)}

Least(S) == CHOOSE i \in S : \A j \in S : i <= j

\* The first offer some factory takes, by the first factory that takes it;
\* later ones are skipped as duplicates.
ProcessExtensions(factories, offers) ==
  LET taken == {i \in DOMAIN offers : Takers(factories, offers[i]) # {}}
      i == Least(taken)
      j == Least(Takers(factories, offers[i]))
  IN  IF taken = {} THEN [enabled |-> FALSE]
      ELSE [enabled |-> TRUE, params |-> ServerParams(factories[j], offers[i])]

\* select_subprotocol: the first of the server's the client offers too.
SelectSubprotocol(mine, offered) ==
  IF mine = <<>> \/ offered = <<>> THEN NoSub
  ELSE LET shared == {i \in DOMAIN mine : mine[i] \in ToSet(offered)}
       IN  IF shared = {} THEN NoSub ELSE mine[Least(shared)]

SubprotocolMissing(srv, request) ==
  srv.subs # <<>> /\ SelectSubprotocol(srv.subs, request.subs) = NoSub

Reject(status) ==
  [kind |-> "response", status |-> status, valid |-> TRUE, ext |-> NoExt,
   sub |-> NoSub]

\* accept: the response to a request; invalid upgrade 426, origin 403, else 400.
Accept(srv, request) ==
  CASE ~request.upgrade -> Reject(426)
    [] request.upgrade /\ ~request.valid -> Reject(400)
    [] request.upgrade /\ request.valid /\ srv.origins # {}
         /\ request.origin \notin srv.origins -> Reject(403)
    [] OTHER ->
         IF SubprotocolMissing(srv, request) THEN Reject(400)
         ELSE [kind |-> "response", status |-> 101, valid |-> TRUE,
               ext |-> ProcessExtensions(srv.factories, request.offers),
               sub |-> SelectSubprotocol(srv.subs, request.subs)]

\* The extension list accept leaves on the server (also when it then rejects
\* the request for its subprotocol, where nothing reads it any more).
Accepted(response) ==
  IF response.ext.enabled THEN ServerExtension(response.ext.params) ELSE NoExt

\* connect: the request of a client.
Connect(cli) ==
  [kind |-> "request", upgrade |-> TRUE, valid |-> TRUE, origin |-> cli.origin,
   offers |-> cli.offers, subs |-> cli.subs]

Matching(cli, response) ==
  {i \in DOMAIN cli.offers : ~ClientRefuses(cli.offers[i], response.ext.params)}

\* process_response raises InvalidHandshake.
ResponseRefused(cli, response) ==
  \/ response.status # 101
  \/ ~response.valid
  \/ response.ext.enabled /\ Matching(cli, response) = {}
  \/ response.sub # NoSub /\ response.sub \notin ToSet(cli.subs)

ClientAccepted(cli, response) ==
  IF response.ext.enabled
  THEN ClientExtension(cli.offers[Least(Matching(cli, response))],
                       response.ext.params)
  ELSE NoExt

\* The compressor of one endpoint and the decompressor of the other agree.
Compatible(local, remote) ==
  IF local.enabled
  THEN /\ remote.enabled
       /\ local.localNct = remote.remoteNct
       /\ local.localBits <= remote.remoteBits
  ELSE ~remote.enabled

================================================================================

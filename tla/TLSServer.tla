----------------------------- MODULE TLSServer -----------------------------
(***************************************************************************)
(* The handlers of TLSHandshakeServer (src/simple_tls/tls/                 *)
(* handshake_server.py) that every protocol version shares: the            *)
(* ClientHello, plain or encrypted, the version it is answered with, the   *)
(* tickets the server can open, and the end of the handshake.              *)
(***************************************************************************)
EXTENDS TLSConnection

sv == ep[Server]

ServerIn(state) == sv.pc = "dispatch" /\ sv.state = state
ServerReads(state) == ServerIn(state) /\ HasMessage(sv)

\* handshake.parse_as of another message type, or data behind the last message of an epoch
ServerExpects(type, last) ==
    /\ Current(sv).type = type
    /\ last => ~HasUnprocessed(sv)

NotExpected(type, last) == <<~ServerExpects(type, last), "unexpected_message">>

\* _do_start_accept
StartAccept ==
    /\ ServerIn("START_ACCEPT")
    /\ Yield(Server, SetState(sv, "READ_CLIENT_HELLO"), "OK")

-----------------------------------------------------------------------------
(* The encrypted ClientHello                                               *)

\* _decrypt_ech_payload: the HPKE context opens what its peer sealed, in order.
OpensECH(e, m) ==
    /\ cfg.server_ech /\ m.ech # <<>>
    /\ m.ech[1].config = "good" /\ m.ech[1].seq = e.hpke

\* The inner hello takes the place of the outer one
Decrypted(e) ==
    [e EXCEPT !.incoming[1] = @.ech[1].hello, !.hpke = @ + 1, !.ech_status = "ACCEPTED"]

\* _decrypt_ech: no configuration of the server opens it, and the outer hello counts.
DecryptECH(e) ==
    IF "ech" \notin Current(e).has THEN e
    ELSE IF OpensECH(e, Current(e)) THEN Decrypted(e)
    ELSE [e EXCEPT !.ech_status = "REJECTED"]

-----------------------------------------------------------------------------
(* The ClientHello                                                         *)

LegacyVersion(m) == IF "lv12" \in m.has THEN 12 ELSE 11

\* The versions of supported_versions, or else the one of the hello itself
OfferedVersions(m) ==
    LET named == {v \in 11..13 : VersionName[v] \in m.has}
    IN IF named = {} THEN {LegacyVersion(m)} ELSE named

\* The highest version both have, or 0
Negotiates(m) ==
    LET common == OfferedVersions(m) \cap (cfg.smin..cfg.smax)
    IN IF common = {} THEN 0 ELSE CHOOSE v \in common : \A w \in common : w <= v

\* _do_read_client_hello: settles the version and leaves the message for the next handler.
ReadClientHello ==
    /\ ServerReads("READ_CLIENT_HELLO")
    /\ LET e == DecryptECH(sv)
           v == Negotiates(Current(e))
       IN Checked(Server, e, <<NotExpected("client_hello", FALSE), <<v = 0, "protocol_version">>>>,
            Yield(Server, SetState([e EXCEPT !.version = v],
                                   IF v >= 13 THEN "SELECT_PARAMETERS_TLS13"
                                   ELSE "SELECT_PARAMETERS"), "OK"))

\* _decrypt_session: a ticket this server issued, for the version it is used with
OpensTicket(e) == cfg.tickets /\ cfg.ticket = "good" /\ cfg.tver = e.version

\* An empty certificate is refused if one is required.
RefusesEmptyNever(cert) == ~cert /\ FALSE   \* mutant
RefusesEmpty(cert) == ~cert /\ cfg.verify = "REQUIRED"

\* _do_finish_server_handshake
FinishServerHandshake ==
    /\ ServerIn("FINISHED_SERVER_HANDSHAKE")
    /\ Yield(Server, SetState([sv EXCEPT !.established = TRUE], "DONE"), "OK")

ServerBegins == StartAccept \/ ReadClientHello

ServerEnds == FinishServerHandshake

=============================================================================

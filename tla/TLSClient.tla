----------------------------- MODULE TLSClient -----------------------------
(***************************************************************************)
(* The handlers of TLSHandshakeClient (src/simple_tls/tls/                 *)
(* handshake_client.py) that every protocol version shares: the            *)
(* ClientHello, plain or encrypted, early data, the ServerHello that       *)
(* settles the version, and the end of the handshake.  A handler runs      *)
(* while do_handshake dispatches (pc = "dispatch") and ends with a Status  *)
(* for the connection or with an alert.                                    *)
(***************************************************************************)
EXTENDS TLSConnection

cl == ep[Client]

ClientIn(state) == cl.pc = "dispatch" /\ cl.state = state

\* A handler that reads a message, with one at hand
ClientReads(state) == ClientIn(state) /\ HasMessage(cl)

\* handshake.parse_as of another message type, or data behind the last message of an epoch
ClientExpects(type, last) ==
    /\ Current(cl).type = type
    /\ last => ~HasUnprocessed(cl)

Unexpected(type, last) == <<~ClientExpects(type, last), "unexpected_message">>

-----------------------------------------------------------------------------
(* Versions, and the ClientHello.                                          *)

\* _client_version: what a client without supported_versions asks for
ClientVersion == Min2(cfg.cmax, 12)

\* _get_extensions for a hello that is "plain", or the "outer" or "inner" one of an
\* encrypted ClientHello; what a hello offers below TLS 1.3 is never in the inner one.
HelloExtensions(e, hello, retry) ==
    LET old == cfg.cmin <= 12 /\ hello # "inner"
        new == cfg.cmax >= 13
    IN {LegacyName[ClientVersion]} \cup Has(e.session_id, "sid")
         \cup Has(old /\ cfg.npn, "npn") \cup Has(old /\ cfg.client_etm, "etm")
         \cup Has(old /\ cfg.client_ems, "ems")
         \cup Has(old /\ e.session_ticket # "none", e.session_ticket)
         \cup (IF new THEN {VersionName[v] : v \in (IF old THEN cfg.cmin ELSE 13)..cfg.cmax}
                           \cup {e.group}
               ELSE {})
         \cup Has(new /\ cfg.alps, "alps")
         \cup Has(new /\ e.early_offered /\ ~retry, "early")
         \cup Has(hello = "inner", "ech_inner")
         \cup Has(new /\ hello # "inner" /\ cfg.ech # "none", "ech")

Binder(e, transcript) == IF e.psk THEN Proof(BinderKey, transcript) ELSE NoProof

\* _build_client_hello: the offered ticket with its binder over the transcript so far
ClientHello(e, retry) ==
    Message("client_hello",
            HelloExtensions(e, IF e.ech_context THEN "outer" ELSE "plain", retry)
                \cup Has(e.psk, "psk"),
            Binder(e, e.transcript))

InnerHello(e, retry) ==
    Message("client_hello", HelloExtensions(e, "inner", retry) \cup Has(e.psk, "psk"),
            Binder(e, e.inner))

\* _build_encrypted_client_hello: the inner hello, with the binder over the inner
\* transcript, sealed in an outer one that offers a random ticket instead.
EncryptedClientHello(e, retry) ==
    [Message("client_hello",
             HelloExtensions(e, "outer", retry) \cup Has(e.psk, "grease_psk"), NoProof)
        EXCEPT !.ech = <<[config |-> cfg.ech, seq |-> e.hpke, hello |-> InnerHello(e, retry)]>>]

\* The inner transcript and the sequence number of the HPKE context move with each hello.
SendEncrypted(e, retry) ==
    LET sealed == AddMessage(e, EncryptedClientHello(e, retry))
    IN [sealed EXCEPT !.inner = Append(@, Hashed(InnerHello(e, retry))), !.hpke = @ + 1]

\* _select_ech_config: a configuration that the server still knows ("good") or not ("stale")
SelectsECHConfig == cfg.ech \in {"good", "stale"} /\ cfg.cmax >= 13

\* The session to offer: one of a version that may be negotiated, and below TLS 1.3 only
\* in the clear.
OffersSession ==
    /\ cfg.ticket # "none" /\ cfg.tver \in cfg.cmin..cfg.cmax
    /\ ~(cfg.tver < 13 /\ SelectsECHConfig)

\* _do_start_connect: the share of the client's first group; the ticket and early data
\* if it has them; the encrypted hello if it has a configuration for one.
StartConnect ==
    /\ ClientIn("START_CONNECT")
    /\ LET psk == OffersSession /\ cfg.tver >= 13
           ticket == OffersSession /\ cfg.tver < 13
           e == [cl EXCEPT !.group = IF cfg.cmax >= 13 THEN "g1" ELSE "none",
                           !.psk = psk,
                           !.early_offered = psk /\ cfg.client_early /\ MaxEarlyData > 0,
                           !.session_id = ticket \/ (cfg.cmax >= 13 /\ cfg.client_compat),
                           !.session_ticket = IF ticket THEN "ticket"
                                              ELSE IF cfg.callback THEN "wants_ticket" ELSE @,
                           !.ech_context = SelectsECHConfig]
           h == IF SelectsECHConfig THEN SendEncrypted(e, FALSE)
                ELSE AddMessage(e, ClientHello(e, FALSE))
       IN Yield(Client, SetState(h, "ENTER_EARLY_DATA"), "FLUSH_HANDSHAKE")

-----------------------------------------------------------------------------
(* Early data                                                              *)

\* mutant: early data may be written before its key is installed
EnterEarlyDataInTheClear ==
    /\ ClientIn("ENTER_EARLY_DATA")
    /\ LET e == [cl EXCEPT !.version = cfg.tver, !.early_version = TRUE,
                           !.session_max = MaxEarlyData, !.in_early = TRUE, !.can_write = TRUE]
       IN IF cl.early_offered
          THEN Yield(Client, SetState(e, "READ_SERVER_HELLO"), "EARLY_RETURN")
          ELSE Yield(Client, SetState(cl, "READ_SERVER_HELLO"), "OK")

\* _do_enter_early_data: the key comes from the hello that offers the early data.
EnterEarlyData ==
    /\ ClientIn("ENTER_EARLY_DATA")
    /\ IF ~cl.early_offered
       THEN Yield(Client, SetState(cl, "READ_SERVER_HELLO"), "OK")
       ELSE LET e == [cl EXCEPT !.sched = Extract(NewSchedule, TRUE, "none"),
                               !.version = cfg.tver, !.early_version = TRUE,
                               !.session_max = MaxEarlyData]
                hello == IF e.ech_context THEN e.inner ELSE e.transcript
                k == SetupWrite([e EXCEPT !.enc["ZERO_RTT"] = Key("c e traffic", e.sched, hello)],
                                "ZERO_RTT")
                w == [k EXCEPT !.in_early = TRUE, !.can_write = TRUE]
            IN IF cfg.client_compat
               THEN Yield(Client, SetState(w, "ENTER_EARLY_DATA_COMPAT"),
                          "WRITE_CHANGE_CIPHER_SPEC")
               ELSE Yield(Client, SetState(w, "READ_SERVER_HELLO"), "EARLY_RETURN")

\* _do_enter_early_data_compat_css
EnterEarlyDataCompat ==
    /\ ClientIn("ENTER_EARLY_DATA_COMPAT")
    /\ Yield(Client, SetState(cl, "READ_SERVER_HELLO"), "EARLY_RETURN")

-----------------------------------------------------------------------------
(* The ServerHello                                                         *)

\* The version a ServerHello settles: that of supported_versions, or else its own
SettledVersion(m) == IF "sv13" \in m.has THEN 13 ELSE IF "lv12" \in m.has THEN 12 ELSE 11

DowngradeDetected(m, v) ==
    \/ {"sentinel12", "sentinel11"} \cap m.has # {} /\ cfg.cmax >= 13 /\ v < 13
    \/ "sentinel11" \in m.has /\ cfg.cmax = 12 /\ v < 12

\* _process_extensions below TLS 1.3, and the key exchange of the suite
ProcessExtensions(e, m) ==
    [e EXCEPT !.ticket_expected = "ticket" \in m.has, !.ems = "ems" \in m.has,
              !.etm = "etm" \in m.has, !.npn = "npn" \in m.has, !.anon = "anon" \in m.has,
              !.kea = CHOOSE k \in {"ECDHE", "DHE", "RSA"} : k \in m.has]

\* _do_read_server_hello: settles the version.  A TLS 1.3 hello is left for the next
\* handlers; below TLS 1.3 the echo of the session id means the session is resumed.
ReadServerHello ==
    /\ ClientReads("READ_SERVER_HELLO")
    /\ LET m == Current(cl)
           v == SettledVersion(m)
           final == [cl EXCEPT !.version = v, !.early_version = FALSE]
           e == [final EXCEPT !.ech_status = IF cl.ech_context THEN "REJECTED" ELSE @,
                              !.reused = cl.session_id /\ "echo" \in m.has, !.session_max = 0]
           x == ProcessExtensions(e, m)
       IN Checked(Client, cl,
            <<Unexpected("server_hello", FALSE),
              <<"sv13" \in m.has /\ (cfg.cmax <= 12 \/ "lv12" \notin m.has), "illegal_parameter">>,
              <<v \notin cfg.cmin..cfg.cmax, "protocol_version">>>>,
            Checked(Client, final, <<<<cl.early_offered /\ v # cfg.tver, "protocol_version">>>>,
              IF v >= 13 THEN Yield(Client, SetState(final, "COMPAT_CSS_TLS13"), "OK")
              ELSE Checked(Client, final,
                <<<<DowngradeDetected(m, v), "illegal_parameter">>,
                  <<e.reused /\ (cfg.ticket = "none" \/ cl.ech_context), "illegal_parameter">>,
                  <<e.reused /\ cfg.tver # v, "illegal_parameter">>,
                  <<e.reused /\ cfg.session_ems # x.ems, "handshake_failure">>>>,
                Yield(Client,
                      SetState(NextHandshake(IF e.reused THEN DeriveKey(Client, x, SessionSecret(x))
                                             ELSE x),
                               "READ_SERVER_CERTIFICATE"), "OK"))))

-----------------------------------------------------------------------------
(* The end of the handshake, and what may follow it.                       *)

\* _do_finish_client_handshake: not with a rejected ECH; below TLS 1.3 the new session is
\* handed to the application here.
FinishClientHandshake ==
    /\ ClientIn("FINISH_CLIENT_HANDSHAKE")
    /\ Checked(Client, cl, <<<<cl.ech_status = "REJECTED", "ech_required">>>>,
         Yield(Client,
               SetState([cl EXCEPT !.established = TRUE,
                                   !.tickets = IF cl.version < 13 /\ ~cl.reused /\ cfg.callback
                                               THEN @ + 1 ELSE @], "DONE"), "OK"))

\* _do_read_post_handshake: a TLS 1.3 ticket is kept if the application wants tickets, and
\* read() goes on when no message is left.  (KeyUpdate has its own module.)
ClientReadPostHandshake ==
    /\ ClientIn("READ_POST_HANDSHAKE")
    /\ IF ~HasMessage(cl) THEN Yield(Client, SetState(cl, "DONE"), "OK")
       ELSE Checked(Client, cl,
              <<<<cl.version < 13 \/ Current(cl).type # "new_session_ticket",
                  "unexpected_message">>>>,
              Yield(Client,
                    NextUnhashed(Assert([cl EXCEPT !.tickets = IF cfg.callback THEN @ + 1 ELSE @],
                                        cl.sched.gen = 3)), "OK"))

ClientBegins ==
    \/ StartConnect \/ EnterEarlyData \/ EnterEarlyDataCompat \/ ReadServerHello

ClientEnds == FinishClientHandshake \/ ClientReadPostHandshake

=============================================================================

---------------------------- MODULE TLS12Server ----------------------------
(***************************************************************************)
(* The handlers of TLSHandshakeServer (src/simple_tls/tls/                 *)
(* handshake_server.py) for the versions up to TLS 1.2, one action per     *)
(* handler.                                                                *)
(***************************************************************************)
EXTENDS TLSServer

\* The handlers that read a message, with what lets them do without one
TLS12ServerReadStates ==
    {"SELECT_PARAMETERS", "READ_CLIENT_KEY_EXCHANGE", "READ_CLIENT_FINISHED"}
        \cup Has(sv.cert_requested, "READ_CLIENT_CERTIFICATE")
        \cup Has(sv.peer_cert, "READ_CLIENT_CERTIFICATE_VERIFY")
        \cup Has(sv.npn, "READ_NEXT_PROTO")

-----------------------------------------------------------------------------
(* _do_select_parameters                                                   *)

\* Without a credential only an anonymous suite is left; RSA key exchange needs one.
Anonymous == cfg.server_cert = "none"
Supports(k) ==
    CASE k = "ECDHE" -> cfg.groups
      [] k = "DHE"   -> cfg.dh
      [] k = "RSA"   -> ~Anonymous

\* The key exchanges of the suites both sides have, and the one the server ranks first
CommonSuites ==
    {k \in {"ECDHE", "DHE", "RSA"} :
        k \in cfg.kea /\ Supports(k) /\ cfg.suites /\ (Anonymous => cfg.anon)}
Rank == [ECDHE |-> 1, DHE |-> 2, RSA |-> 3]
FirstSuite == CHOOSE k \in CommonSuites : \A j \in CommonSuites : Rank[k] <= Rank[j]

\* mutant: a session without the extended master secret is resumed with it
ResumesAnyEMS(e) == OpensTicket(e)

\* A session without the extended master secret is not resumed with it.
ResumesSession(e) == OpensTicket(e) /\ ~(e.ems /\ ~cfg.session_ems)

\* _process_extensions below TLS 1.3.  (ALPN leaves no NPN to ask for: cfg.npn is without it.)
ServerExtensions(e, m) ==
    [e EXCEPT !.ems = "ems" \in m.has, !.etm = cfg.server_etm /\ "etm" \in m.has,
              !.npn = cfg.npn /\ "npn" \in m.has]

\* _do_select_parameters with _process_extensions: the suite, what the extensions agree,
\* and whether the session of the client's ticket is resumed
SelectParameters ==
    /\ ServerReads("SELECT_PARAMETERS")
    /\ LET m == Current(sv)
           x == ServerExtensions([Assert(sv, sv.ech_status # "ACCEPTED") EXCEPT
                                    !.kea = FirstSuite, !.anon = Anonymous], m)
           opens == "ticket" \in m.has /\ OpensTicket(x)
           resumed == DeriveKey(Server, [x EXCEPT !.reused = TRUE], SessionSecret(x))
           new == [x EXCEPT
                    !.ticket_expected = cfg.tickets /\ {"ticket", "wants_ticket"} \cap m.has # {},
                    !.cert_requested = cfg.verify # "NONE" /\ ~Anonymous]
       IN Checked(Server, sv, <<<<CommonSuites = {}, "handshake_failure">>>>,
            Checked(Server, x, <<<<opens /\ cfg.session_ems /\ ~x.ems, "handshake_failure">>>>,
              Yield(Server,
                    SetState(NextHandshake(IF opens /\ ResumesSession(x) THEN resumed ELSE new),
                             "SEND_SERVER_HELLO"), "OK")))

-----------------------------------------------------------------------------
(* The server's flight                                                     *)

\* A hello that answers for less than the server could do says so.
Sentinel(e) ==
    Has(e.version = 12 /\ e.version < cfg.smax, "sentinel12")
        \cup Has(e.version = 11 /\ e.version < cfg.smax, "sentinel11")

\* _do_send_server_hello: its version is the one the client named, negotiated or not.
SendServerHello ==
    /\ ServerIn("SEND_SERVER_HELLO")
    /\ LET hello == Plainly("server_hello",
               {LegacyName[LegacyVersion(sv.transcript[1])], sv.kea}
                 \cup Sentinel(sv) \cup Has(sv.reused, "echo") \cup Has(sv.anon, "anon")
                 \cup Has(sv.ems, "ems") \cup Has(sv.etm, "etm") \cup Has(sv.npn, "npn")
                 \cup Has(sv.ticket_expected, "ticket"))
       IN Yield(Server, SetState(AddMessage(sv, hello),
                                 IF sv.reused THEN "SEND_SESSION_TICKET"
                                 ELSE "SEND_SERVER_CERTIFICATE"), "OK")

\* _do_send_server_certificate
SendServerCertificate ==
    /\ ServerIn("SEND_SERVER_CERTIFICATE")
    /\ Yield(Server, SetState(IF sv.anon THEN sv ELSE AddMessage(sv, Plainly("certificate", {"cert"})),
                              "SEND_SERVER_KEY_EXCHANGE"), "OK")

\* _do_send_server_key_exchange: the share, signed together with the two randoms
SendServerKeyExchange ==
    /\ ServerIn("SEND_SERVER_KEY_EXCHANGE")
    /\ LET share == Message("server_key_exchange",
                            {sv.kea} \cup Has(sv.version = 12 /\ ~sv.anon, "sigalg"),
                            IF sv.anon THEN NoProof
                            ELSE Proof(NoKey, SubSeq(sv.transcript, 1, 2)))
       IN Yield(Server, SetState(IF sv.kea = "RSA" THEN sv ELSE AddMessage(sv, share),
                                 "SEND_SERVER_HELLO_DONE"), "OK")

\* _do_send_server_hello_done, after the request for a certificate
SendServerHelloDone ==
    /\ ServerIn("SEND_SERVER_HELLO_DONE")
    /\ LET e == IF sv.cert_requested THEN AddMessage(sv, Plainly("certificate_request", {})) ELSE sv
       IN Yield(Server, SetState(AddMessage(e, Plainly("server_hello_done", {})),
                                 "READ_CLIENT_CERTIFICATE"), "FLUSH_HANDSHAKE")

-----------------------------------------------------------------------------
(* The client's flight                                                     *)

\* _do_read_client_certificate
ReadClientCertificate ==
    /\ ServerIn("READ_CLIENT_CERTIFICATE")
    /\ LET next == "VERIFY_CLIENT_CERTIFICATE"
           cert == "cert" \in Current(sv).has
       IN \/ /\ ~sv.cert_requested
             /\ Yield(Server, SetState(sv, next), "OK")
          \/ /\ sv.cert_requested /\ HasMessage(sv)
             /\ Checked(Server, sv,
                  <<NotExpected("certificate", FALSE),
                    <<RefusesEmpty(cert), "certificate_required">>>>,
                  Yield(Server, SetState(NextHandshake([sv EXCEPT !.peer_cert = cert]), next), "OK"))

\* _do_verify_client_certificate
VerifyClientCertificate ==
    /\ ServerIn("VERIFY_CLIENT_CERTIFICATE")
    /\ Checked(Server, sv, <<<<sv.peer_cert /\ cfg.client_cert = "bad", "bad_certificate">>>>,
         Yield(Server, SetState(sv, "READ_CLIENT_KEY_EXCHANGE"), "OK"))

\* The extended master secret covers the message that is read.
ReadsKeyExchange(e) ==
    LET n == NextHandshake(e) IN DeriveKey(Server, n, MasterSecret(n))

\* _do_read_client_key_exchange
ReadClientKeyExchange ==
    /\ ServerReads("READ_CLIENT_KEY_EXCHANGE")
    /\ Checked(Server, sv, <<NotExpected("client_key_exchange", FALSE)>>,
         Yield(Server, SetState(ReadsKeyExchange(sv), "READ_CLIENT_CERTIFICATE_VERIFY"), "OK"))

\* _do_read_client_certificate_verify
ReadClientCertificateVerify ==
    /\ ServerIn("READ_CLIENT_CERTIFICATE_VERIFY")
    /\ LET next == "READ_CHANGE_CIPHER_SPEC"
       IN \/ /\ ~sv.peer_cert
             /\ Yield(Server, SetState(sv, next), "OK")
          \/ /\ sv.peer_cert /\ HasMessage(sv)
             /\ Checked(Server, sv,
                  <<NotExpected("certificate_verify", FALSE),
                    <<Current(sv).proof.th # sv.transcript, "decrypt_error">>>>,
                  Yield(Server, SetState(NextHandshake([sv EXCEPT !.authenticated = TRUE]), next),
                        "OK"))

\* _do_read_change_cipher_spec
ServerReadCCS ==
    /\ ServerIn("READ_CHANGE_CIPHER_SPEC")
    /\ Yield(Server, SetState(sv, "PROCESS_CHANGE_CIPHER_SPEC"), "READ_CHANGE_CIPHER_SPEC")

\* _do_process_change_cipher_spec
ServerProcessCCS ==
    /\ ServerIn("PROCESS_CHANGE_CIPHER_SPEC")
    /\ Yield(Server, SetState(SetupRead(sv, "APPLICATION_DATA"), "READ_NEXT_PROTO"), "OK")

\* _do_read_next_proto
ReadNextProto ==
    /\ ServerIn("READ_NEXT_PROTO")
    /\ \/ /\ ~sv.npn
          /\ Yield(Server, SetState(sv, "READ_CLIENT_FINISHED"), "OK")
       \/ /\ sv.npn /\ HasMessage(sv)
          /\ Checked(Server, sv, <<NotExpected("next_protocol", FALSE)>>,
               Yield(Server, SetState(NextHandshake(sv), "READ_CLIENT_FINISHED"), "OK"))

\* _do_read_client_finished
ReadClientFinished ==
    /\ ServerReads("READ_CLIENT_FINISHED")
    /\ Checked(Server, sv,
         <<NotExpected("finished", FALSE),
           <<Current(sv).proof # FinishedProof(sv, "client finished"), "decrypt_error">>>>,
         Yield(Server, SetState(NextHandshake(sv),
                                IF sv.reused THEN "FINISHED_SERVER_HANDSHAKE"
                                ELSE "SEND_SESSION_TICKET"), "OK"))

-----------------------------------------------------------------------------
(* The end                                                                 *)

\* _do_send_session_ticket: the ticket that was promised, if it can be sealed
SendSessionTicket ==
    /\ ServerIn("SEND_SESSION_TICKET")
    /\ Yield(Server,
             SetState(IF sv.ticket_expected /\ cfg.seals
                      THEN AddMessage(sv, Plainly("new_session_ticket", {})) ELSE sv,
                      "SEND_CHANGE_CIPHER_SPEC"), "PACK_FLIGHT")

\* _do_send_change_cipher_spec
ServerSendCCS ==
    /\ ServerIn("SEND_CHANGE_CIPHER_SPEC")
    /\ Yield(Server, SetState(sv, "SEND_SERVER_FINISHED"), "WRITE_CHANGE_CIPHER_SPEC")

\* _do_send_server_finished: first of all messages under the new key
SendServerFinished ==
    /\ ServerIn("SEND_SERVER_FINISHED")
    /\ LET e == SetupWrite(sv, "APPLICATION_DATA")
       IN Yield(Server,
                SetState(AddMessage(e, Message("finished", {}, FinishedProof(e, "server finished"))),
                         IF sv.reused THEN "READ_CHANGE_CIPHER_SPEC"
                         ELSE "FINISHED_SERVER_HANDSHAKE"), "FLUSH_HANDSHAKE")

TLS12ServerHandshake ==
    \/ SelectParameters \/ SendServerHello \/ SendServerCertificate \/ SendServerKeyExchange
    \/ SendServerHelloDone \/ ReadClientCertificate \/ VerifyClientCertificate
    \/ ReadClientKeyExchange \/ ReadClientCertificateVerify \/ ServerReadCCS \/ ServerProcessCCS
    \/ ReadNextProto \/ ReadClientFinished \/ SendSessionTicket \/ ServerSendCCS
    \/ SendServerFinished

=============================================================================

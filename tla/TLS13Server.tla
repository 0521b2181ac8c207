---------------------------- MODULE TLS13Server ----------------------------
(***************************************************************************)
(* The TLS 1.3 handshake handlers of TLSHandshakeServer                    *)
(* (src/simple_tls/tls/handshake_server.py), one action per handler.       *)
(***************************************************************************)
EXTENDS TLSServer

\* The handlers that read a message, with what lets them do without one
TLS13ServerReadStates ==
    {"SELECT_PARAMETERS_TLS13", "READ_SECOND_CLIENT_HELLO_TLS13", "READ_CLIENT_FINISHED_TLS13"}
        \cup Has(sv.early_status = "ACCEPTED", "PROCESS_END_OF_EARLY_DATA_TLS13")
        \cup Has(sv.has_alps /\ sv.early_status # "ACCEPTED",
                 "READ_CLIENT_ENCRYPTED_EXTENSIONS_TLS13")
        \cup Has(sv.cert_requested, "READ_CLIENT_CERTIFICATE_TLS13")
        \cup Has(sv.peer_cert, "READ_CLIENT_CERTIFICATE_VERIFY_TLS13")

-----------------------------------------------------------------------------
(* _do_select_parameters_tls13                                             *)

\* The server's groups, most preferred first; the client supports all of them, and g1
\* stands for the groups it sends a share for.
ServerGroups == IF cfg.hrr THEN <<"g2", "g1">> ELSE <<"g1", "g2">>

\* The ticket decrypts to a valid session, and its binder must then match.
Resumes(m) == "psk" \in m.has /\ OpensTicket(sv)
BinderMatches(m) == m.proof = Proof(BinderKey, sv.transcript)

AcceptsEarlyData(reused, retry) == cfg.server_early /\ reused /\ ~retry /\ MaxEarlyData > 0

SelectParametersTLS13 ==
    /\ ServerReads("SELECT_PARAMETERS_TLS13")
    /\ LET m == Current(sv)
           reused == Resumes(m)
           dhe == ~(reused /\ cfg.psk_ke)
           first == ServerGroups[1]
           retry == dhe /\ first \notin m.has
           offered == "early" \in m.has
           accepted == offered /\ AcceptsEarlyData(reused, retry)
           e == NextHandshake([sv EXCEPT
                    !.reused = reused, !.psk = reused,
                    !.sched = Extract(NewSchedule, reused, "none"),
                    !.group = IF dhe /\ ~retry THEN first ELSE "none",
                    !.has_alps = cfg.alps /\ "alps" \in m.has,
                    !.early_offered = offered,
                    !.session_max = IF offered /\ reused THEN MaxEarlyData ELSE 0])
           d == IF accepted THEN DeriveRead([e EXCEPT !.early_status = "ACCEPTED"],
                                            "ZERO_RTT", "c e traffic")
                ELSE IF offered THEN [e EXCEPT !.early_status = "REJECTED", !.skip_early = TRUE]
                ELSE e
       IN Checked(Server, sv,
            <<<<HasUnprocessed(sv), "unexpected_message">>,
              <<~cfg.suites, "handshake_failure">>,
              <<reused /\ ~BinderMatches(m), "decrypt_error">>,
              <<~reused /\ cfg.server_cert = "none", "handshake_failure">>,
              <<offered /\ {"psk", "grease_psk"} \cap m.has = {}, "illegal_parameter">>>>,
            IF retry
            THEN Yield(Server, SetState(HashForRetry(d), "SEND_HELLO_RETRY_REQUEST_TLS13"), "OK")
            ELSE Yield(Server, SetState(d, "SEND_SERVER_HELLO_TLS13"), "OK"))

\* _apply_ech_acceptance: the hello carries the confirmation that ECH was accepted.
Confirming(m) ==
    IF sv.ech_status = "ACCEPTED" THEN [m EXCEPT !.proof = Confirmation(sv.transcript, m)] ELSE m

\* _do_send_hello_retry_request_tls13
SendHelloRetryRequest ==
    /\ ServerIn("SEND_HELLO_RETRY_REQUEST_TLS13")
    /\ LET hrr == Plainly("server_hello", {"lv12", "sv13", "hrr", ServerGroups[1]}
                                              \cup Has(sv.ech_status = "ACCEPTED", "ech"))
       IN Yield(Server, SetState(AddMessage([sv EXCEPT !.hrr = TRUE], Confirming(hrr)),
                                 "HRR_COMPAT_CSS_TLS13"), "FLUSH_HANDSHAKE")

\* _do_hrr_compat_ccs_tls13
HRRCompatCCS ==
    /\ ServerIn("HRR_COMPAT_CSS_TLS13")
    /\ Yield(Server, SetState(sv, "READ_SECOND_CLIENT_HELLO_TLS13"),
             IF cfg.server_compat THEN "WRITE_CHANGE_CIPHER_SPEC" ELSE "OK")

\* _do_read_second_client_hello_tls13: encrypted again if the first one was; the share
\* asked for, and a binder over the transcript with the retry request in it.
ReadSecondClientHello ==
    /\ ServerReads("READ_SECOND_CLIENT_HELLO_TLS13")
    /\ LET encrypted == sv.ech_status = "ACCEPTED"
           e == IF encrypted /\ OpensECH(sv, Current(sv)) THEN Decrypted(sv) ELSE sv
           m == Current(e)
       IN Checked(Server, e,
            <<NotExpected("client_hello", TRUE),
              <<encrypted /\ "ech" \notin Current(sv).has, "missing_extension">>,
              <<encrypted /\ ~OpensECH(sv, Current(sv)), "decrypt_error">>,
              <<VersionName[sv.version] \notin m.has, "protocol_version">>,
              <<ServerGroups[1] \notin m.has, "illegal_parameter">>,
              <<sv.psk /\ "psk" \notin m.has, "missing_extension">>,
              <<sv.psk /\ ~BinderMatches(m), "decrypt_error">>>>,
            Yield(Server, SetState(NextHandshake([e EXCEPT !.group = ServerGroups[1]]),
                                   "SEND_SERVER_HELLO_TLS13"), "OK"))

\* _do_send_server_hello_tls13: key exchange and handshake secrets.
SendServerHelloTLS13 ==
    /\ ServerIn("SEND_SERVER_HELLO_TLS13")
    /\ LET hello == Confirming(Plainly("server_hello", {"lv12", "sv13"} \cup Has(sv.psk, "psk")
                                                          \cup Has(sv.group # "none", sv.group)))
           e == AddMessage(Assert([sv EXCEPT !.sched = Extract(@, @.psk, sv.group)],
                                  sv.sched.gen = 1), hello)
       IN Yield(Server,
                SetState(DeriveRead(DeriveWrite(e, "HANDSHAKE", "s hs traffic"),
                                    "HANDSHAKE", "c hs traffic"),
                         "SERVER_HELLO_COMPAT_CSS_TLS13"), "PACK_FLIGHT")

\* _do_server_hello_compat_ccs_tls13
ServerHelloCompatCCS ==
    /\ ServerIn("SERVER_HELLO_COMPAT_CSS_TLS13")
    /\ Yield(Server, SetState(sv, "SEND_ENCRYPTED_EXTENSIONS_TLS13"),
             IF cfg.server_compat /\ ~sv.hrr THEN "WRITE_CHANGE_CIPHER_SPEC" ELSE "OK")

\* _do_send_encrypted_extensions_tls13: and, unless resuming, the certificate messages.
SendEncryptedExtensions ==
    /\ ServerIn("SEND_ENCRYPTED_EXTENSIONS_TLS13")
    /\ LET accepted == sv.early_status = "ACCEPTED"
           asks == cfg.verify # "NONE"
           e == AddMessage(SetupWrite(sv, "HANDSHAKE"),
                           Plainly("encrypted_extensions",
                                   Has(accepted, "early")
                                       \cup Has(sv.has_alps /\ ~accepted, "alps")
                                       \cup Has(sv.ech_status = "REJECTED" /\ cfg.server_ech,
                                                "retry_configs")))
           r == IF asks THEN AddMessage([e EXCEPT !.cert_requested = TRUE],
                                        Plainly("certificate_request", {})) ELSE e
           d == AddMessage(r, Plainly("certificate", {"cert"}))
           v == AddMessage(d, Message("certificate_verify", {}, Proof(NoKey, d.transcript)))
       IN Yield(Server, SetState(IF sv.reused THEN e ELSE v, "SEND_SERVER_FINISHED_TLS13"), "OK")

\* mutant: the flight is packed and not sent
SendServerFinishedUnflushed ==
    /\ ServerIn("SEND_SERVER_FINISHED_TLS13")
    /\ LET f == AddMessage(sv, Message("finished", {},
                                       Proof(sv.enc["HANDSHAKE"], sv.transcript)))
           e == [f EXCEPT !.sched = Extract(@, @.psk, @.dhe)]
       IN Yield(Server,
                SetState(DeriveRead(DeriveWrite(e, "APPLICATION_DATA", "s ap traffic"),
                                    "APPLICATION_DATA", "c ap traffic"),
                         "READ_SECOND_CLIENT_FLIGHT_TLS13"), "PACK_FLIGHT")

\* _do_send_server_finished_tls13
SendServerFinishedTLS13 ==
    /\ ServerIn("SEND_SERVER_FINISHED_TLS13")
    /\ LET f == AddMessage(Assert(sv, sv.sched.gen = 2),
                           Message("finished", {}, Proof(sv.enc["HANDSHAKE"], sv.transcript)))
           e == [f EXCEPT !.sched = Extract(@, @.psk, @.dhe)]
       IN Yield(Server,
                SetState(DeriveRead(DeriveWrite(e, "APPLICATION_DATA", "s ap traffic"),
                                    "APPLICATION_DATA", "c ap traffic"),
                         "READ_SECOND_CLIENT_FLIGHT_TLS13"), "FLUSH_HANDSHAKE")

\* _do_read_second_client_flight_tls13: with early data accepted, the application reads
\* (and may already write) before the handshake goes on.
ReadSecondClientFlight ==
    /\ ServerIn("READ_SECOND_CLIENT_FLIGHT_TLS13")
    /\ LET e == SetupWrite(sv, "APPLICATION_DATA")
           r == [SetupRead(e, "ZERO_RTT") EXCEPT !.can_write = TRUE, !.can_read = TRUE,
                                                 !.in_early = TRUE]
           next == "PROCESS_END_OF_EARLY_DATA_TLS13"
       IN IF sv.early_status = "ACCEPTED"
          THEN Yield(Server, SetState(r, next), "READ_END_OF_EARLY_DATA")
          ELSE Yield(Server, SetState(e, next), "OK")

\* What follows early data is read under the handshake key.
ToHandshakeOldKey(e) == SetState(e, "READ_CLIENT_ENCRYPTED_EXTENSIONS_TLS13")   \* mutant
ToHandshake(e) ==
    SetState(SetupRead(e, "HANDSHAKE"), "READ_CLIENT_ENCRYPTED_EXTENSIONS_TLS13")

\* _do_process_end_of_early_data_tls13
ProcessEndOfEarlyData ==
    /\ ServerIn("PROCESS_END_OF_EARLY_DATA_TLS13")
    /\ \/ /\ sv.early_status # "ACCEPTED"
          /\ Yield(Server, ToHandshake(sv), "OK")
       \/ /\ sv.early_status = "ACCEPTED" /\ HasMessage(sv)
          /\ Checked(Server, sv, <<NotExpected("end_of_early_data", TRUE)>>,
               Yield(Server, ToHandshake(NextHandshake(EndEarlyData(sv))), "OK"))

\* _do_read_client_encrypted_extensions_tls13
ReadClientEncryptedExtensions ==
    /\ ServerIn("READ_CLIENT_ENCRYPTED_EXTENSIONS_TLS13")
    /\ LET next == "READ_CLIENT_CERTIFICATE_TLS13"
       IN \/ /\ sv.state \notin TLS13ServerReadStates
             /\ Yield(Server, SetState(sv, next), "OK")
          \/ /\ sv.state \in TLS13ServerReadStates /\ HasMessage(sv)
             /\ Checked(Server, sv,
                  <<NotExpected("encrypted_extensions", FALSE),
                    <<"alps" \notin Current(sv).has, "missing_extension">>>>,
                  Yield(Server, SetState(NextHandshake(sv), next), "OK"))

\* _do_read_client_certificate_tls13
ReadClientCertificateTLS13 ==
    /\ ServerIn("READ_CLIENT_CERTIFICATE_TLS13")
    /\ \/ /\ ~sv.cert_requested
          /\ Yield(Server, SetState(sv, "READ_CLIENT_FINISHED_TLS13"), "OK")
       \/ /\ sv.cert_requested /\ HasMessage(sv)
          /\ LET cert == "cert" \in Current(sv).has
             IN Checked(Server, sv,
                  <<NotExpected("certificate", FALSE),
                    <<RefusesEmpty(cert), "certificate_required">>,
                    <<cert /\ cfg.client_cert = "bad", "bad_certificate">>>>,
                  Yield(Server, SetState(NextHandshake([sv EXCEPT !.peer_cert = cert]),
                                         "READ_CLIENT_CERTIFICATE_VERIFY_TLS13"), "OK"))

\* _do_read_client_certificate_verify_tls13
ReadClientCertificateVerifyTLS13 ==
    /\ ServerIn("READ_CLIENT_CERTIFICATE_VERIFY_TLS13")
    /\ LET next == "READ_CLIENT_FINISHED_TLS13"
       IN \/ /\ ~sv.peer_cert
             /\ Yield(Server, SetState(sv, next), "OK")
          \/ /\ sv.peer_cert /\ HasMessage(sv)
             /\ Checked(Server, sv,
                  <<NotExpected("certificate_verify", FALSE),
                    <<Current(sv).proof.th # sv.transcript, "decrypt_error">>>>,
                  Yield(Server, SetState(NextHandshake([sv EXCEPT !.authenticated = TRUE]), next),
                        "OK"))

\* _do_read_client_finished_tls13
ReadClientFinishedTLS13 ==
    /\ ServerReads("READ_CLIENT_FINISHED_TLS13")
    /\ Checked(Server, sv,
         <<NotExpected("finished", TRUE),
           <<Current(sv).proof # Proof(sv.dec["HANDSHAKE"], sv.transcript), "decrypt_error">>>>,
         Yield(Server, SetState(SetupRead(NextHandshake(sv), "APPLICATION_DATA"),
                                "SEND_NEWSESSION_TICKET_TLS13"), "OK"))

\* mutant: one ticket too many
SendThreeTickets ==
    /\ ServerIn("SEND_NEWSESSION_TICKET_TLS13")
    /\ LET ticket == Plainly("new_session_ticket", {})
       IN Yield(Server, SetState(AddUnhashed(AddUnhashed(AddUnhashed(sv, ticket), ticket), ticket),
                                 "FINISHED_SERVER_HANDSHAKE"), "PACK_FLIGHT")

\* _do_send_new_session_ticket_tls13: two tickets, sealed now, sent with the next flush.
SendNewSessionTicket ==
    /\ ServerIn("SEND_NEWSESSION_TICKET_TLS13")
    /\ LET ticket == Plainly("new_session_ticket", {})
           e == Assert(sv, sv.sched.gen = 3)
           next == "FINISHED_SERVER_HANDSHAKE"
       IN IF ~cfg.tickets THEN Yield(Server, SetState(sv, next), "OK")
          ELSE Yield(Server,
                     SetState(IF cfg.seals THEN AddUnhashed(AddUnhashed(e, ticket), ticket) ELSE e,
                              next), "PACK_FLIGHT")

TLS13ServerHandshake ==
    \/ SelectParametersTLS13 \/ SendHelloRetryRequest \/ HRRCompatCCS \/ ReadSecondClientHello
    \/ SendServerHelloTLS13 \/ ServerHelloCompatCCS \/ SendEncryptedExtensions
    \/ SendServerFinishedTLS13 \/ ReadSecondClientFlight \/ ProcessEndOfEarlyData
    \/ ReadClientEncryptedExtensions \/ ReadClientCertificateTLS13
    \/ ReadClientCertificateVerifyTLS13 \/ ReadClientFinishedTLS13 \/ SendNewSessionTicket

=============================================================================

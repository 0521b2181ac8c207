---------------------------- MODULE TLS13Client ----------------------------
(***************************************************************************)
(* The TLS 1.3 handlers of TLSHandshakeClient                              *)
(* (src/simple_tls/tls/handshake_client.py), one action per handler.  A    *)
(* handler runs while do_handshake dispatches (pc = "dispatch") and ends   *)
(* with a Status for the connection or with an alert.                      *)
(***************************************************************************)
EXTENDS TLSClient

\* The handlers that read a message, with what lets them do without one
TLS13ClientReadStates ==
    {"READ_HRR_TLS13", "READ_SERVER_HELLO_TLS13", "READ_ENCRYPTED_EXTENSIONS_TLS13",
     "READ_SERVER_CERTIFICATE_TLS13", "READ_SERVER_CERTIFICATE_VERIFY_TLS13",
     "READ_SERVER_FINISHED_TLS13"}
        \cup Has(~cl.reused, "READ_CERTIFICATE_REQUEST_TLS13")

-----------------------------------------------------------------------------
\* _check_ech_confirmation
Confirms(m, inner) == m.proof = Confirmation(inner, m)

\* _do_compat_ccs_tls13
CompatCCS ==
    /\ ClientIn("COMPAT_CSS_TLS13")
    /\ Yield(Client, SetState(cl, "READ_HRR_TLS13"),
             IF cfg.client_compat /\ ~cl.early_offered
             THEN "WRITE_CHANGE_CIPHER_SPEC" ELSE "OK")

\* An encrypted hello answered by a retry request: was it accepted?
RetryECH(e, m) ==
    IF ~e.ech_context THEN e
    ELSE LET r == [e EXCEPT !.inner = ForRetry(@)]
         IN IF "ech" \in m.has /\ Confirms(m, r.inner)
            THEN [r EXCEPT !.inner = Append(@, Hashed(m)), !.ech_status = "ACCEPTED"]
            ELSE [r EXCEPT !.ech_status = "REJECTED"]

\* _do_read_hrr_tlsv13: a retry request restarts the transcripts, replaces the key share
\* and ends early data; a proper ServerHello is left for the next handler.
ReadHRR ==
    /\ ClientReads("READ_HRR_TLS13")
    /\ LET m == Current(cl)
           fresh == [cl EXCEPT !.sched = NewSchedule]
           h == RetryECH(HashForRetry([fresh EXCEPT !.hrr = TRUE]), m)
           e == NextHandshake([h EXCEPT !.group = CHOOSE g \in {"g1", "g2"} : g \in m.has])
       IN Checked(Client, cl, <<Unexpected("server_hello", TRUE)>>,
            IF "hrr" \notin m.has
            THEN Yield(Client, SetState(fresh, "READ_SERVER_HELLO_TLS13"), "OK")
            ELSE Checked(Client, cl,
                   <<<<cl.group \in m.has, "illegal_parameter">>,
                     <<~cl.ech_context /\ "ech" \in m.has, "unsupported_extension">>>>,
                   Yield(Client,
                         SetState(IF e.in_early THEN SetupWrite(EndEarlyData(e), "INITIAL") ELSE e,
                                  "SEND_SECOND_CLIENT_HELLO_TLS13"), "OK")))

\* _do_send_second_client_hello_tls13: encrypted again only if the first one was accepted.
SendSecondClientHello ==
    /\ ClientIn("SEND_SECOND_CLIENT_HELLO_TLS13")
    /\ LET e == IF cl.ech_status = "ACCEPTED" THEN SendEncrypted(cl, TRUE)
                ELSE AddMessage(cl, ClientHello(cl, TRUE))
       IN Yield(Client, SetState(e, "READ_SERVER_HELLO_TLS13"), "FLUSH_HANDSHAKE")

\* With its encrypted hello accepted, the client goes on with the inner transcript.
AcceptECH(e, m) ==
    IF ~e.ech_context \/ e.ech_status = "REJECTED" THEN e
    ELSE IF Confirms(m, e.inner)
    THEN [e EXCEPT !.ech_status = "ACCEPTED", !.transcript = e.inner, !.inner = <<>>]
    ELSE [e EXCEPT !.ech_status = "REJECTED"]

\* _do_read_server_hello_tls13: the pre-shared key, the key exchange, the handshake keys.
\* The session object is replaced here: by a copy of the offered one without its
\* ticket_max_early_data, or by a new one.
ReadServerHelloTLS13 ==
    /\ ClientReads("READ_SERVER_HELLO_TLS13")
    /\ LET m == Current(cl)
           a == AcceptECH(cl, m)
           psk == "psk" \in m.has
           dhe == IF cl.group \in m.has THEN cl.group ELSE "none"
           e == NextHandshake([a EXCEPT
                    !.sched = Extract(Extract(IF psk THEN NewSchedule ELSE @, psk, "none"), psk, dhe),
                    !.psk = @ /\ ~psk, !.reused = psk, !.session_max = 0])
           k == SetupRead(DeriveWrite(DeriveRead(e, "HANDSHAKE", "s hs traffic"),
                                      "HANDSHAKE", "c hs traffic"), "HANDSHAKE")
       IN Checked(Client, cl,
            <<<<~ClientExpects("server_hello", TRUE) \/ "hrr" \in m.has, "unexpected_message">>,
              <<cl.ech_status = "ACCEPTED" /\ a.ech_status = "REJECTED", "illegal_parameter">>,
              <<psk /\ (~cl.psk \/ a.ech_status = "REJECTED"), "unsupported_extension">>,
              <<psk /\ cfg.tver # cl.version, "illegal_parameter">>,
              <<dhe = "none" /\ ~(psk /\ cfg.psk_ke), "missing_extension">>>>,
            Yield(Client, SetState(IF cl.early_offered THEN k ELSE SetupWrite(k, "HANDSHAKE"),
                                   "READ_ENCRYPTED_EXTENSIONS_TLS13"), "OK"))

\* _do_read_encrypted_extensions_tls13 with _process_extensions: was the early data
\* accepted?  If not, the handshake write key that waited for the answer is installed.
ReadEncryptedExtensions ==
    /\ ClientReads("READ_ENCRYPTED_EXTENSIONS_TLS13")
    /\ LET m == Current(cl)
           early == "early" \in m.has
           status == IF early THEN "ACCEPTED"
                     ELSE IF cl.early_offered THEN "REJECTED" ELSE cl.early_status
           e == NextHandshake([cl EXCEPT !.early_status = status,
                                         !.retry_configs = "retry_configs" \in m.has])
           a == IF early
                THEN [Assert(e, cl.early_offered /\ cl.reused) EXCEPT !.has_alps = cfg.alps]
                ELSE IF e.early_offered THEN SetupWrite(e, "HANDSHAKE") ELSE e
       IN Checked(Client, cl,
            <<Unexpected("encrypted_extensions", FALSE),
              <<early /\ ~cl.early_offered, "unsupported_extension">>,
              <<"retry_configs" \in m.has /\ cl.ech_status = "ACCEPTED", "illegal_parameter">>,
              <<early /\ cl.hrr, "unsupported_extension">>,
              <<early /\ cl.ech_status = "REJECTED", "illegal_parameter">>>>,
            Yield(Client, SetState([a EXCEPT !.has_alps = @ \/ "alps" \in m.has],
                                   "READ_CERTIFICATE_REQUEST_TLS13"), "OK"))

\* _do_read_certificate_request_tls13: neither request nor certificate when resuming.
ReadCertificateRequestTLS13 ==
    /\ ClientIn("READ_CERTIFICATE_REQUEST_TLS13")
    /\ \/ /\ cl.reused
          /\ Yield(Client, SetState(cl, "READ_SERVER_FINISHED_TLS13"), "OK")
       \/ /\ ~cl.reused /\ HasMessage(cl)
          /\ LET e == IF Current(cl).type = "certificate_request"
                      THEN NextHandshake([cl EXCEPT !.cert_requested = TRUE]) ELSE cl
             IN Yield(Client, SetState(e, "READ_SERVER_CERTIFICATE_TLS13"), "OK")

\* _do_read_server_certificate_tls13: the name to verify is that of the server, or the
\* public one of a configuration the server rejected.
ReadServerCertificateTLS13 ==
    /\ ClientReads("READ_SERVER_CERTIFICATE_TLS13")
    /\ LET verdict == IF cl.ech_status = "REJECTED" THEN cfg.public_cert ELSE cfg.server_cert
       IN Checked(Client, cl,
            <<Unexpected("certificate", FALSE),
              <<"cert" \notin Current(cl).has, "certificate_required">>,
              <<verdict = "bad", "bad_certificate">>>>,
            Yield(Client, SetState(NextHandshake([cl EXCEPT !.peer_cert = TRUE]),
                                   "READ_SERVER_CERTIFICATE_VERIFY_TLS13"), "OK"))

\* _do_read_server_certificate_verify_tls13: the signature covers the transcript so far.
ReadServerCertificateVerifyTLS13 ==
    /\ ClientReads("READ_SERVER_CERTIFICATE_VERIFY_TLS13")
    /\ Checked(Client, cl,
         <<Unexpected("certificate_verify", FALSE),
           <<Current(cl).proof.th # cl.transcript, "decrypt_error">>>>,
         Yield(Client, SetState(NextHandshake([cl EXCEPT !.authenticated = TRUE]),
                                "READ_SERVER_FINISHED_TLS13"), "OK"))

DeriveApplicationKeys(e) ==
    DeriveWrite(DeriveRead(e, "APPLICATION_DATA", "s ap traffic"),
                "APPLICATION_DATA", "c ap traffic")

\* The server's Finished is hashed, and the keys derived from the transcript with it
AcceptFinishedUnhashed(e) == NextHandshake(DeriveApplicationKeys(e))   \* mutant
AcceptFinished(e) == DeriveApplicationKeys(NextHandshake(e))

\* _do_read_server_finished_tls13: check the verify data, then derive the application keys.
ReadServerFinishedTLS13 ==
    /\ ClientReads("READ_SERVER_FINISHED_TLS13")
    /\ LET k == AcceptFinished(Assert([cl EXCEPT !.sched = Extract(@, @.psk, @.dhe)],
                                      cl.sched.gen = 2))
       IN Checked(Client, cl,
            <<Unexpected("finished", TRUE),
              <<Current(cl).proof # Proof(cl.dec["HANDSHAKE"], cl.transcript), "decrypt_error">>>>,
            Yield(Client, SetState(k, "SEND_END_OF_EARLY_DATA_TLS13"), "OK"))

\* _do_send_end_of_early_data_tls13: sealed, like all early data, under the 0-RTT key.
SendEndOfEarlyData ==
    /\ ClientIn("SEND_END_OF_EARLY_DATA_TLS13")
    /\ LET e == IF cl.early_status = "ACCEPTED"
                THEN EndEarlyData(AddMessage(cl, Plainly("end_of_early_data", {}))) ELSE cl
       IN Yield(Client, SetState(e, "SEND_CLIENT_ENCRYPTED_EXTENSIONS_TLS13"), "PACK_FLIGHT")

\* _do_send_client_encrypted_extensions_tls13
SendClientEncryptedExtensions ==
    /\ ClientIn("SEND_CLIENT_ENCRYPTED_EXTENSIONS_TLS13")
    /\ LET accepted == cl.early_status = "ACCEPTED"
           e == IF accepted THEN SetupWrite(cl, "HANDSHAKE") ELSE cl
           x == IF cl.has_alps /\ ~accepted
                THEN AddMessage(e, Plainly("encrypted_extensions", {"alps"})) ELSE e
       IN Yield(Client, SetState(x, "SEND_CLIENT_CERTIFICATE_TLS13"), "OK")

\* _do_send_client_certificate_tls13 with _send_certificate_tls13: an empty certificate
\* when there is no credential, or none for a server that rejected the encrypted hello.
SendClientCertificateTLS13 ==
    /\ ClientIn("SEND_CLIENT_CERTIFICATE_TLS13")
    /\ LET signs == cfg.client_cert # "none" /\ cl.ech_status # "REJECTED"
           cert == AddMessage(cl, Plainly("certificate", Has(signs, "cert")))
           e == IF ~cl.cert_requested THEN cl
                ELSE IF ~signs THEN cert
                ELSE AddMessage(cert, Message("certificate_verify", {},
                                              Proof(NoKey, cert.transcript)))
       IN Yield(Client, SetState(e, "SEND_CLIENT_FINISHED_TLS13"), "OK")

\* _do_send_client_finished_tls13
SendClientFinishedTLS13 ==
    /\ ClientIn("SEND_CLIENT_FINISHED_TLS13")
    /\ Yield(Client,
             SetState(AddMessage(cl, Message("finished", {},
                                            Proof(cl.enc["HANDSHAKE"], cl.transcript))),
                      "COMPLETE_SECOND_FLIGHT_TLS13"), "FLUSH_HANDSHAKE")

\* _do_complete_second_flight_tls13
CompleteSecondFlight ==
    /\ ClientIn("COMPLETE_SECOND_FLIGHT_TLS13")
    /\ Yield(Client, SetState(SetupWrite(SetupRead(cl, "APPLICATION_DATA"), "APPLICATION_DATA"),
                              "FINISH_CLIENT_HANDSHAKE"), "OK")

TLS13ClientHandshake ==
    \/ CompatCCS \/ ReadHRR \/ SendSecondClientHello \/ ReadServerHelloTLS13
    \/ ReadEncryptedExtensions \/ ReadCertificateRequestTLS13 \/ ReadServerCertificateTLS13
    \/ ReadServerCertificateVerifyTLS13 \/ ReadServerFinishedTLS13 \/ SendEndOfEarlyData
    \/ SendClientEncryptedExtensions \/ SendClientCertificateTLS13 \/ SendClientFinishedTLS13
    \/ CompleteSecondFlight

=============================================================================

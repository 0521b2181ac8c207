---------------------------- MODULE TLS12Client ----------------------------
(***************************************************************************)
(* The handlers of TLSHandshakeClient (src/simple_tls/tls/                 *)
(* handshake_client.py) for the versions up to TLS 1.2, one action per     *)
(* handler.                                                                *)
(***************************************************************************)
EXTENDS TLSClient

\* The handlers that read a message, with what lets them do without one
TLS12ClientReadStates ==
    {"READ_SERVER_HELLO_DONE", "READ_SERVER_FINISHED"}
        \cup Has(~cl.reused /\ ~cl.anon, "READ_SERVER_CERTIFICATE")
        \cup Has(cfg.status_request, "READ_CERTIFICATE_STATUS")
        \cup Has(cl.kea # "RSA", "READ_SERVER_KEY_EXCHANGE")
        \cup Has(~cl.anon, "READ_CERTIFICATE_REQUEST")
        \cup Has(cl.ticket_expected, "READ_SESSION_TICKET")

-----------------------------------------------------------------------------
(* The server's flight                                                     *)

\* _do_read_server_certificate: none when resuming or with an anonymous suite
ReadServerCertificate ==
    /\ ClientIn("READ_SERVER_CERTIFICATE")
    /\ \/ /\ cl.reused
          /\ Yield(Client, SetState(cl, "READ_SESSION_TICKET"), "OK")
       \/ /\ ~cl.reused /\ cl.anon
          /\ Yield(Client, SetState(cl, "READ_SERVER_KEY_EXCHANGE"), "OK")
       \/ /\ ~cl.reused /\ ~cl.anon /\ HasMessage(cl)
          /\ Checked(Client, cl,
               <<Unexpected("certificate", FALSE),
                 <<"cert" \notin Current(cl).has, "certificate_required">>,
                 <<cfg.server_cert = "bad", "bad_certificate">>>>,
               Yield(Client, SetState(NextHandshake([cl EXCEPT !.peer_cert = TRUE]),
                                      "READ_CERTIFICATE_STATUS"), "OK"))

\* _do_read_certificate_status: the message is optional even when asked for.
ReadCertificateStatus ==
    /\ ClientIn("READ_CERTIFICATE_STATUS")
    /\ cfg.status_request => HasMessage(cl)
    /\ LET e == IF cfg.status_request /\ Current(cl).type = "certificate_status"
                THEN NextHandshake(cl) ELSE cl
       IN Yield(Client, SetState(e, "READ_SERVER_KEY_EXCHANGE"), "OK")

\* The share is signed together with the two randoms, in the form of the version.
SignedShare(m) ==
    <<<<("sigalg" \in m.has) # (cl.version = 12), "illegal_parameter">>,
      <<m.proof # Proof(NoKey, SubSeq(cl.transcript, 1, 2)), "decrypt_error">>>>

\* _do_read_server_key_exchange
ReadServerKeyExchange ==
    /\ ClientIn("READ_SERVER_KEY_EXCHANGE")
    /\ LET next == "READ_CERTIFICATE_REQUEST"
       IN \/ /\ cl.kea = "RSA"
             /\ Yield(Client, SetState(cl, next), "OK")
          \/ /\ cl.kea # "RSA" /\ HasMessage(cl)
             /\ Checked(Client, cl,
                  <<Unexpected("server_key_exchange", FALSE)>>
                     \o (IF cl.anon THEN <<>> ELSE SignedShare(Current(cl))),
                  Yield(Client, SetState(NextHandshake([cl EXCEPT !.authenticated = ~cl.anon]), next),
                        "OK"))

\* _do_read_certificate_request
ReadCertificateRequest ==
    /\ ClientIn("READ_CERTIFICATE_REQUEST")
    /\ ~cl.anon => HasMessage(cl)
    /\ LET e == IF ~cl.anon /\ Current(cl).type = "certificate_request"
                THEN NextHandshake([cl EXCEPT !.cert_requested = TRUE]) ELSE cl
       IN Yield(Client, SetState(e, "READ_SERVER_HELLO_DONE"), "OK")

\* _do_read_server_hello_done
ReadServerHelloDone ==
    /\ ClientReads("READ_SERVER_HELLO_DONE")
    /\ Checked(Client, cl, <<Unexpected("server_hello_done", FALSE)>>,
         Yield(Client, SetState(NextHandshake(cl), "SEND_CLIENT_CERTIFICATE"), "OK"))

-----------------------------------------------------------------------------
(* The client's flight                                                     *)

Signs == cl.cert_requested /\ cfg.client_cert # "none"

\* _do_send_client_certificate: an empty one without a credential
SendClientCertificate ==
    /\ ClientIn("SEND_CLIENT_CERTIFICATE")
    /\ Yield(Client,
             SetState(IF cl.cert_requested
                      THEN AddMessage(cl, Plainly("certificate", Has(Signs, "cert"))) ELSE cl,
                      "SEND_CLIENT_KEY_EXCHANGE"), "OK")

\* _do_send_client_key_exchange: the extended master secret covers this message.  A
\* premaster secret sent to the certified key authenticates whoever can use it.
SendClientKeyExchange ==
    /\ ClientIn("SEND_CLIENT_KEY_EXCHANGE")
    /\ LET e == AddMessage([cl EXCEPT !.authenticated = @ \/ cl.kea = "RSA"],
                           Plainly("client_key_exchange", {cl.kea}))
       IN Yield(Client, SetState(DeriveKey(Client, e, MasterSecret(e)),
                                 "SEND_CLIENT_CERTIFICATE_VERIFY"), "OK")

\* _do_send_client_certificate_verify
SendClientCertificateVerify ==
    /\ ClientIn("SEND_CLIENT_CERTIFICATE_VERIFY")
    /\ Yield(Client,
             SetState(IF Signs THEN AddMessage(cl, Message("certificate_verify", {},
                                                           Proof(NoKey, cl.transcript)))
                      ELSE cl, "SEND_CHANGE_CIPHER_SPEC"), "PACK_FLIGHT")

\* _do_send_change_cipher_spec
ClientSendCCS ==
    /\ ClientIn("SEND_CHANGE_CIPHER_SPEC")
    /\ Yield(Client, SetState(SetupWrite(cl, "APPLICATION_DATA"), "SEND_CLIENT_FINISHED"),
             "WRITE_CHANGE_CIPHER_SPEC")

\* _do_send_client_finished, after the protocol chosen by NPN
SendClientFinished ==
    /\ ClientIn("SEND_CLIENT_FINISHED")
    /\ LET e == SetupWrite(cl, "APPLICATION_DATA")
           n == IF cl.npn THEN AddMessage(e, Plainly("next_protocol", {})) ELSE e
       IN Yield(Client,
                SetState(AddMessage(n, Message("finished", {}, FinishedProof(n, "client finished"))),
                         "FINISH_FLIGHT"), "FLUSH_HANDSHAKE")

\* _do_finish_flight: when resuming, the client's Finished is the last.
FinishFlight ==
    /\ ClientIn("FINISH_FLIGHT")
    /\ Yield(Client, SetState(cl, IF cl.reused THEN "FINISH_CLIENT_HANDSHAKE"
                                  ELSE "READ_SESSION_TICKET"), "OK")

-----------------------------------------------------------------------------
(* The end                                                                 *)

\* _do_read_session_ticket: a ticket that was promised has to come.
ReadSessionTicket ==
    /\ ClientIn("READ_SESSION_TICKET")
    /\ LET next == "PROCESS_CHANGE_CIPHER_SPEC"
       IN \/ /\ ~cl.ticket_expected
             /\ Yield(Client, SetState(cl, next), "READ_CHANGE_CIPHER_SPEC")
          \/ /\ cl.ticket_expected /\ HasMessage(cl)
             /\ Checked(Client, cl, <<Unexpected("new_session_ticket", FALSE)>>,
                  Yield(Client, SetState(NextHandshake(cl), next), "READ_CHANGE_CIPHER_SPEC"))

\* mutant: the key is not changed
ClientProcessCCSOldKey ==
    /\ ClientIn("PROCESS_CHANGE_CIPHER_SPEC")
    /\ Yield(Client, SetState(cl, "READ_SERVER_FINISHED"), "OK")

\* _do_process_change_cipher_spec
ClientProcessCCS ==
    /\ ClientIn("PROCESS_CHANGE_CIPHER_SPEC")
    /\ Yield(Client, SetState(SetupRead(cl, "APPLICATION_DATA"), "READ_SERVER_FINISHED"), "OK")

\* _do_read_server_finished
ReadServerFinished ==
    /\ ClientReads("READ_SERVER_FINISHED")
    /\ Checked(Client, cl,
         <<Unexpected("finished", FALSE),
           <<Current(cl).proof # FinishedProof(cl, "server finished"), "decrypt_error">>>>,
         Yield(Client, SetState(NextHandshake(cl),
                                IF cl.reused THEN "SEND_CHANGE_CIPHER_SPEC"
                                ELSE "FINISH_CLIENT_HANDSHAKE"), "OK"))

TLS12ClientHandshake ==
    \/ ReadServerCertificate \/ ReadCertificateStatus \/ ReadServerKeyExchange
    \/ ReadCertificateRequest \/ ReadServerHelloDone \/ SendClientCertificate
    \/ SendClientKeyExchange \/ SendClientCertificateVerify \/ ClientSendCCS
    \/ SendClientFinished \/ FinishFlight \/ ReadSessionTicket \/ ClientProcessCCS
    \/ ReadServerFinished

=============================================================================

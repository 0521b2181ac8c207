---------------------------- MODULE TLSHandshake ----------------------------
(***************************************************************************)
(* A client and a server of this library talking to each other: the        *)
(* composition of TLSConnection with the handlers of both sides and of all *)
(* protocol versions, and what the handshake promises to the two           *)
(* applications.                                                           *)
(***************************************************************************)
EXTENDS TLS12Client, TLS13Client, TLS12Server, TLS13Server

CONSTANT Configs   \* the pairs of configurations to explore

ASSUME ConfigsAssumption ==
    \A c \in Configs :
        /\ c.ticket \in {"none", "unknown", "good"} /\ c.tver \in 11..13
        /\ c.writes \in Nat
        /\ c.cmin \in 11..c.cmax /\ c.cmax \in 11..13
        /\ c.smin \in 11..c.smax /\ c.smax \in 11..13
        /\ c.server_cert \in {"good", "bad", "none"}
        /\ c.client_cert \in {"good", "bad", "none"}
        /\ c.public_cert \in {"good", "bad"}
        /\ c.verify \in {"NONE", "OPTIONAL", "REQUIRED"}
        /\ c.kea \subseteq {"ECDHE", "DHE", "RSA"}
        /\ c.ech \in {"none", "grease", "good", "stale"}
        /\ {c.nonblocking, c.split, c.alps, c.client_early, c.server_early, c.client_compat,
            c.server_compat, c.psk_ke, c.hrr, c.tickets, c.suites, c.npn, c.client_etm,
            c.server_etm, c.client_ems, c.session_ems, c.callback, c.dh, c.groups, c.anon,
            c.seals, c.server_ech, c.status_request} \subseteq BOOLEAN

Init ==
    /\ cfg \in Configs
    /\ ep = [s \in Side |-> NewEndpoint(IF s = Client THEN "START_CONNECT" ELSE "START_ACCEPT")]
    /\ wire = [s \in Side |-> <<>>]
    /\ sent = [s \in Side |-> <<>>]
    /\ got = [s \in Side |-> <<>>]

\* _read_handshake returned None: Status.READ_HANDSHAKE
ClientNeedsMessage ==
    /\ cl.pc = "dispatch" /\ ~HasMessage(cl)
    /\ cl.state \in {"READ_SERVER_HELLO"} \cup TLS12ClientReadStates \cup TLS13ClientReadStates
    /\ Yield(Client, cl, "READ_HANDSHAKE")

ServerNeedsMessage ==
    /\ sv.pc = "dispatch" /\ ~HasMessage(sv)
    /\ sv.state \in {"READ_CLIENT_HELLO"} \cup TLS12ServerReadStates \cup TLS13ServerReadStates
    /\ Yield(Server, sv, "READ_HANDSHAKE")

\* TLSHandshake.do_handshake: the handler of the state the handshake is in
ClientHandshake ==
    \/ ClientNeedsMessage \/ ClientBegins \/ TLS12ClientHandshake \/ TLS13ClientHandshake
    \/ ClientEnds
ServerHandshake ==
    \/ ServerNeedsMessage \/ ServerBegins \/ TLS12ServerHandshake \/ TLS13ServerHandshake
    \/ ServerEnds

\* Both applications may stop once their handshake is complete or has failed.
Terminated ==
    /\ \A s \in Side : ep[s].pc = "idle" /\ (Done(ep[s]) \/ ep[s].err # "none")
    /\ UNCHANGED vars

Next ==
    \/ \E s \in Side : Application(s) \/ Connection(s) \/ Receive(s)
    \/ ClientHandshake
    \/ ServerHandshake
    \/ Terminated

\* A call once made runs to its end, what was sent arrives in the end, and each application
\* keeps reading, which drives the handshake as long as it is not complete.  Nothing
\* obliges anyone to write.
Fairness ==
    /\ \A s \in Side : WF_vars(Connection(s)) /\ SF_vars(Receive(s)) /\ SF_vars(CallRead(s))
    /\ WF_vars(ClientHandshake)
    /\ WF_vars(ServerHandshake)

Spec == Init /\ [][Next]_vars
FairSpec == Spec /\ Fairness

-----------------------------------------------------------------------------
(* Types                                                                   *)

Pcs == {"idle", "loop", "dispatch", "open", "write", "return"}
Statuses == {"OK", "PACK_FLIGHT", "FLUSH_HANDSHAKE", "READ_HANDSHAKE", "READ_CHANGE_CIPHER_SPEC",
             "WRITE_CHANGE_CIPHER_SPEC", "EARLY_RETURN", "READ_END_OF_EARLY_DATA"}

\* The fields of every endpoint and the records in flight are of their types.
TypeOK ==
    /\ \A s \in Side :
        /\ ep[s].pc \in Pcs /\ ep[s].status \in Statuses
        /\ ep[s].op \in {"none", "read", "write", "do_handshake"}
        /\ ep[s].wepoch \in Epochs /\ ep[s].wstate.seq \in Nat /\ ep[s].rstate.seq \in Nat
        /\ ep[s].sched.gen \in 0..3
        /\ ep[s].version \in {0} \cup 11..13
        /\ {ep[s].early_status, ep[s].ech_status} \subseteq {"NONE", "ACCEPTED", "REJECTED"}
        /\ ep[s].writes \in 0..cfg.writes /\ ep[s].tickets \in 0..2
        /\ \A i \in DOMAIN wire[s] : wire[s][i].type \in {"handshake", "appdata", "alert", "ccs"}

-----------------------------------------------------------------------------
(* What the two configurations should make of the connection.              *)

\* The client's hello can be decrypted, and then offers TLS 1.3 alone.
ECHAccepted == cfg.ech = "good" /\ cfg.cmax = 13 /\ cfg.server_ech
ECHRejected == cfg.ech \in {"good", "stale"} /\ cfg.cmax = 13 /\ ~ECHAccepted

\* A client that goes no further than TLS 1.2 names its highest version only.
ClientOffers ==
    IF ECHAccepted THEN {13} ELSE IF cfg.cmax = 13 THEN cfg.cmin..13 ELSE {cfg.cmax}

\* The highest version both sides are configured for, 0 if there is none
BestVersion ==
    LET common == ClientOffers \cap (cfg.smin..cfg.smax)
    IN IF common = {} THEN 0 ELSE CHOOSE v \in common : \A w \in common : w <= v

\* The client offers a session of that version and the server still knows it.
Resumption ==
    /\ cfg.ticket = "good" /\ cfg.tickets /\ ~ECHRejected
    /\ cfg.tver = BestVersion /\ cfg.tver >= cfg.cmin
    /\ BestVersion < 13 => cfg.session_ems = cfg.client_ems

\* Neither side has a reason to refuse the other.
Authenticates ==
    /\ cfg.server_cert = "good"
    /\ cfg.verify = "REQUIRED" => cfg.client_cert = "good"
    /\ cfg.verify = "OPTIONAL" => cfg.client_cert # "bad"
SuitesFit ==
    cfg.suites /\ (BestVersion < 13 =>
        IF cfg.server_cert = "none"
        THEN cfg.anon /\ ((cfg.groups /\ "ECDHE" \in cfg.kea) \/ (cfg.dh /\ "DHE" \in cfg.kea))
        ELSE "RSA" \in cfg.kea \/ (cfg.groups /\ "ECDHE" \in cfg.kea) \/ (cfg.dh /\ "DHE" \in cfg.kea))
EarlyDowngrade ==
    /\ cfg.ticket # "none" /\ cfg.tver = 13 /\ cfg.tver \in cfg.cmin..cfg.cmax
    /\ cfg.client_early /\ MaxEarlyData > 0 /\ BestVersion \notin {0, 13}
LosesEMS ==
    /\ cfg.ticket = "good" /\ cfg.tickets /\ cfg.tver = BestVersion /\ BestVersion < 13
    /\ cfg.session_ems /\ ~cfg.client_ems

\* The server promises a ticket in TLS 1.2 that it then cannot seal.
UnkeptPromise == BestVersion < 13 /\ cfg.tickets /\ ~cfg.seals /\ ~Resumption

Compatible ==
    /\ BestVersion # 0 /\ SuitesFit /\ ~ECHRejected /\ ~EarlyDowngrade /\ ~LosesEMS
    /\ ~UnkeptPromise
    /\ Resumption \/ Authenticates \/ (cfg.server_cert = "none" /\ BestVersion < 13)

\* The alerts by which a side refuses the other's configuration
PolicyAlerts ==
    {"handshake_failure", "bad_certificate", "certificate_required", "protocol_version"}
        \cup Has(ECHRejected, "ech_required")
        \cup Has(UnkeptPromise \/ EarlyDowngrade, "unexpected_message")

-----------------------------------------------------------------------------
(* Safety                                                                  *)

\* No assert statement of connection.py, handshake*.py and utils.py fails: keys are not
\* changed over unsealed messages, the key schedule is at the stage it is used for, early
\* data is closed only while open, read() meets a handshake record before the end of the
\* handshake only in early data, no plaintext exceeds the record limit.
AssertionsHold == \A s \in Side : ep[s].ok

\* Two endpoints of this library never meet a record they cannot open, a message they do
\* not expect or a proof that fails: a handshake fails for a reason of configuration only.
OnlyPolicyFailures ==
    \A s \in Side : /\ ep[s].err \in {"none", "remote_alert"} \cup PolicyAlerts
                    /\ Compatible => ep[s].err = "none"

\* A side that fails with an alert of its own is the only one: the peer can read the alert
\* in whatever epoch it is and fails with it, never by failing to open it.  (Two reasons to
\* refuse may meet when the client only reports at the end that its hello was not
\* decrypted, or has sent early data to a server that takes none in its version.)
AlertsAreUnderstood ==
    \A s \in Side :
        ep[s].err \notin {"none", "remote_alert"} /\ ~EarlyDowngrade /\ ~ECHRejected
            => ep[Peer(s)].err \in {"none", "remote_alert"}

\* When both handshakes are complete, the two ends hold the same transcript up to the
\* last Finished, matching traffic keys in both directions, and the same view of the
\* version, resumption, retry, early data, application settings and extensions; and the
\* version is the best one both are configured for.
Agreement ==
    LET c == ep[Client]
        s == ep[Server]
    IN (c.established /\ s.established) =>
        /\ c.version = s.version /\ c.version = BestVersion
        /\ c.transcript = s.transcript
        /\ c.enc["APPLICATION_DATA"] = s.dec["APPLICATION_DATA"]
        /\ s.enc["APPLICATION_DATA"] = c.dec["APPLICATION_DATA"]
        /\ <<c.reused, c.hrr, c.early_status, c.has_alps, c.cert_requested>>
             = <<s.reused, s.hrr, s.early_status, s.has_alps, s.cert_requested>>
        /\ <<c.secret, c.kea, c.anon, c.ems, c.etm, c.npn>>
             = <<s.secret, s.kea, s.anon, s.ems, s.etm, s.npn>>
        /\ c.ech_status = "ACCEPTED" <=> s.ech_status = "ACCEPTED"

\* A completed handshake authenticated the peer: by the resumed session, or by a valid
\* certificate and a signature over the transcript, which a server asks for on demand;
\* only a client that offers anonymous suites goes without.  A client that encrypts its
\* hello never completes with a server that could not read it.
Authentication ==
    /\ ep[Client].established =>
          /\ \/ ep[Client].reused /\ Resumption
             \/ ep[Client].authenticated /\ cfg.server_cert = "good"
             \/ ep[Client].anon /\ cfg.anon /\ ep[Client].version < 13
          /\ cfg.ech \in {"good", "stale"} /\ cfg.cmax = 13 => ep[Client].ech_status = "ACCEPTED"
    /\ ep[Server].established /\ cfg.verify = "REQUIRED" =>
          \/ ep[Server].reused /\ Resumption
          \/ ep[Server].authenticated /\ cfg.client_cert = "good"
          \/ ep[Server].anon /\ cfg.anon /\ ep[Server].version < 13

\* The records a side has sealed and that are not opened yet
InFlight(s) == wire[Peer(s)] \o ep[s].outbio \o ep[s].pending

\* Application data is sealed under a 0-RTT or an application traffic key, never in the
\* clear and never under a handshake key (write() while can_early_write holds).
DataLabels == {"c e traffic", "c ap traffic", "s ap traffic", "client write", "server write",
               "client write etm", "server write etm"}
AppDataEpoch ==
    \A s \in Side : \A i \in DOMAIN InFlight(s) :
        InFlight(s)[i].type = "appdata" => InFlight(s)[i].key.label \in DataLabels

\* The same for an application that repeats a call until it is done.
AppDataEpochBlocking == ~cfg.nonblocking => AppDataEpoch

\* No sequence number is used twice under one key: neither by two records in flight nor
\* again by the current write state, whatever order packing, flushing and key changes take.
NonceUniqueness ==
    \A s \in Side :
        LET f == InFlight(s)
        IN \A i \in DOMAIN f : f[i].key # NoKey =>
              /\ \A j \in DOMAIN f : j # i => <<f[i].key, f[i].seq>> # <<f[j].key, f[j].seq>>
              /\ f[i].key = ep[s].wstate.key => f[i].seq < ep[s].wstate.seq

\* What read() returns is what the peer's write() took, in order, without gap or
\* repetition; only early data the server rejected is left out, and no side has the
\* early data delivered when the server did not accept it.
Accepted(s) ==
    SelectSeq(sent[s], LAMBDA d : d.early => ep[Server].early_status = "ACCEPTED")
DataIntegrity ==
    \A s \in Side :
        LET took == Accepted(Peer(s))
        IN /\ Len(got[s]) <= Len(took)
           /\ \A i \in DOMAIN got[s] : got[s][i] = took[i]

\* Records that do not open are discarded only while early data may still arrive: once the
\* server's handshake is complete every such record is an error again, and early data can
\* no longer be read or written outside the handshake.
SkippingEnds ==
    Done(ep[Server]) =>
        ~ep[Server].skip_early /\ ~ep[Server].can_read /\ ~ep[Server].can_write
                               /\ ~ep[Server].in_early

-----------------------------------------------------------------------------
(* Liveness                                                                *)

\* Configurations that fit each other lead to a completed handshake on both sides.
CompatibleCompletes == Compatible => <>(Done(ep[Client]) /\ Done(ep[Server]))

\* A handshake that fails on one side fails on the other too: nobody is left waiting.
FailureIsShared ==
    \A s \in Side : ep[s].err # "none" ~> ep[Peer(s)].err # "none"

-----------------------------------------------------------------------------
(* What the documentation and the tests promise.                           *)

EarlySent ==
    LET data == sent[Client]
        total[i \in 0..Len(data)] ==
            IF i = 0 THEN 0 ELSE total[i - 1] + (IF data[i].early THEN data[i].size ELSE 0)
    IN total[Len(data)]

\* session.py on ticket_max_early_data: the early data sent after the ClientHello stays
\* within the limit of the ticket, for an application that repeats a call until it is done.
EarlyDataLimit == ~cfg.nonblocking => EarlySent <= MaxEarlyData

\* The handshake tests assert the same negotiated version of both sides.
VersionsAgree ==
    HasFinalVersion(ep[Client]) /\ HasFinalVersion(ep[Server])
        => ep[Client].version = ep[Server].version

=============================================================================

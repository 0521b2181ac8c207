--------------------------- MODULE MCTLSHandshake ---------------------------
(***************************************************************************)
(* Instances of TLSHandshake for TLC: slices of the configuration space,   *)
(* each with the choices that matter to the question its run asks.         *)
(***************************************************************************)
EXTENDS TLSHandshake

Common == [writes |-> 0, nonblocking |-> FALSE, split |-> FALSE, alps |-> FALSE, ticket |-> "none",
           client_early |-> FALSE, server_early |-> FALSE, client_compat |-> TRUE,
           server_compat |-> TRUE, psk_ke |-> FALSE, hrr |-> FALSE, server_cert |-> "good",
           client_cert |-> "none", verify |-> "NONE", tickets |-> TRUE, suites |-> TRUE,
           cmin |-> 11, cmax |-> 13, smin |-> 11, smax |-> 13, tver |-> 13, npn |-> FALSE,
           client_etm |-> FALSE, server_etm |-> TRUE, client_ems |-> TRUE, session_ems |-> TRUE,
           callback |-> TRUE, kea |-> {"ECDHE", "DHE", "RSA"}, dh |-> FALSE, groups |-> TRUE,
           anon |-> FALSE, seals |-> TRUE, ech |-> "none", server_ech |-> FALSE,
           public_cert |-> "good", status_request |-> FALSE]
Only12 == [Common EXCEPT !.cmax = 12, !.tver = 12]

B == BOOLEAN
Certs == {"good", "bad", "none"}
Modes == {"NONE", "OPTIONAL", "REQUIRED"}

\* Full TLS 1.3 handshakes: certificates of both sides, retry, settings, flights of one or
\* many records
Full13Configs ==
    {[Common EXCEPT !.split = s, !.alps = a, !.hrr = h, !.client_compat = k, !.server_compat = s,
                    !.server_cert = sc, !.client_cert = cc, !.verify = v, !.suites = u] :
        s \in B, a \in B, h \in B, k \in B, sc \in Certs, cc \in Certs, v \in Modes, u \in B}

\* Full TLS 1.2 and 1.1 handshakes: key exchanges, certificates, extensions, tickets
Full12Configs ==
    {[Only12 EXCEPT !.split = s, !.npn = s, !.client_etm = s, !.client_ems = e, !.kea = k,
                    !.status_request = e, !.dh = d, !.groups = ~d, !.anon = a,
                    !.server_cert = sc, !.client_cert = cc, !.verify = v] :
        s \in B, e \in B, k \in {{"ECDHE", "DHE", "RSA"}, {"RSA"}}, d \in B, a \in B,
        sc \in Certs, cc \in Certs, v \in Modes}

\* Ranges of versions, tickets wanted and promised or not.  (A server below TLS 1.2 and a
\* client above it are the subject of a run of their own.)
VersionConfigs ==
    {[Common EXCEPT !.cmin = c[1], !.cmax = c[2], !.smin = d[1], !.smax = d[2], !.split = s,
                    !.tickets = t, !.seals = e, !.callback = b] :
        c \in {<<11, 11>>, <<11, 12>>, <<12, 13>>, <<13, 13>>},
        d \in {<<11, 12>>, <<12, 12>>, <<11, 13>>, <<13, 13>>},
        s \in B, t \in B, e \in B, b \in B}

\* Encrypted hellos that the server can decrypt or not, in one or two hellos
ECHConfigs ==
    {[Common EXCEPT !.ech = x, !.server_ech = k, !.hrr = h, !.split = s, !.smax = m,
                    !.public_cert = p, !.server_cert = IF p = "bad" THEN "bad" ELSE "good",
                    !.verify = v, !.client_cert = "good"] :
        x \in {"grease", "good", "stale"}, k \in B, h \in B, s \in B, m \in {12, 13},
        p \in {"good", "bad"}, v \in {"NONE", "REQUIRED"}}

FullConfigs == Full13Configs \cup Full12Configs \cup VersionConfigs \cup ECHConfigs

\* Early data offered with a ticket the server knows or not, to a server that takes early
\* data or not, with and without a key exchange, a retry, and flights of many records
OfferConfigs ==
    {[Common EXCEPT !.split = ~h, !.alps = h, !.client_compat = h, !.hrr = h, !.psk_ke = p,
                    !.ticket = "good", !.client_early = TRUE, !.server_early = TRUE, !.writes = 2] :
        h \in B, p \in B}
      \cup
    {[Common EXCEPT !.split = h, !.alps = h, !.client_compat = ~h, !.hrr = h, !.ticket = a[1],
                    !.client_early = TRUE, !.server_early = a[2], !.writes = 2] :
        h \in B, a \in {<<"unknown", TRUE>>, <<"good", FALSE>>}}

\* Applications that give up a call to make another one.  (What this does to early data
\* that is not accepted is the subject of a run of its own.)
NonBlockingConfigs ==
    {[Common EXCEPT !.split = e, !.alps = ~e, !.ticket = "good", !.client_early = e,
                    !.server_early = TRUE, !.writes = IF e THEN 2 ELSE 1, !.nonblocking = TRUE] :
        e \in B}

\* Resumption without early data
ResumeConfigs ==
    {[Common EXCEPT !.split = s, !.alps = s, !.hrr = h, !.psk_ke = p, !.ticket = t,
                    !.verify = "REQUIRED", !.client_cert = "good", !.writes = 1] :
        s \in B, h \in B, p \in B, t \in {"unknown", "good"}}

\* Resumption below TLS 1.3, with and without the extended master secret
Resume12Configs ==
    {[Only12 EXCEPT !.split = s, !.npn = s, !.client_etm = s, !.ticket = t, !.client_ems = e,
                    !.session_ems = f, !.cmax = v[1], !.smax = v[2], !.nonblocking = s, !.writes = 1] :
        s \in B, t \in {"unknown", "good"}, e \in B, f \in B, v \in {<<12, 13>>, <<13, 12>>}}

\* Early data in an encrypted hello, and early data for a server that has gone back to 1.2
EarlyECHConfigs ==
    {[Common EXCEPT !.ticket = "good", !.client_early = TRUE, !.server_early = TRUE,
                    !.ech = x[1], !.server_ech = x[2], !.smax = x[3], !.hrr = h, !.writes = 1] :
        x \in {<<"none", FALSE, 12>>, <<"good", TRUE, 13>>, <<"good", FALSE, 13>>,
               <<"good", FALSE, 12>>}, h \in B}

EarlyConfigs ==
    OfferConfigs \cup NonBlockingConfigs \cup ResumeConfigs \cup Resume12Configs
        \cup EarlyECHConfigs

\* One of each kind, for the temporal properties
LiveConfigs ==
    {[Common EXCEPT !.hrr = h, !.tickets = h, !.ticket = t, !.client_early = TRUE, !.server_early = TRUE,
                    !.verify = "REQUIRED", !.client_cert = c, !.server_cert = d, !.smax = m,
                    !.ech = x, !.server_ech = h, !.writes = 1] :
        h \in B, t \in {"none", "good"}, c \in {"good", "none"}, d \in {"good", "bad"},
        m \in {12, 13}, x \in {"none", "good"}}
      \cup {[Only12 EXCEPT !.ticket = t, !.client_ems = e, !.npn = TRUE, !.seals = e, !.writes = 1] :
        t \in {"none", "good"}, e \in B}

\* A client of every version and a server that stops at TLS 1.1
OldServerConfigs == {[Common EXCEPT !.cmax = c, !.smax = 11] : c \in {11, 13}}

\* A ticket the server does not know, its flight in many records
RejectConfigs ==
    {[Common EXCEPT !.split = TRUE, !.ticket = "unknown", !.client_early = TRUE,
                    !.server_early = TRUE, !.nonblocking = TRUE, !.writes = 2]}

=============================================================================

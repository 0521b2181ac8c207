------------------------------ MODULE Sessions ------------------------------
(***************************************************************************)
(* Sessions and tickets over several connections (tls/session.py, the      *)
(* parts of handshake_client.py and handshake_server.py that offer, open,  *)
(* seal, renew and store sessions, and pyssl/_session.py).                 *)
(*                                                                         *)
(* A client application makes connections to one server and offers on each *)
(* the session it was given last.  It opens them one at a time; the        *)
(* tickets of one may arrive while others are made.  Time passes between   *)
(* any two steps; the clocks need not agree, and either may be set back.   *)
(* The server may restart, which loses its tickets.  Handshakes themselves *)
(* are the subject of TLSHandshake: here they succeed, and a connection is *)
(* the steps that touch a session.                                         *)
(***************************************************************************)
EXTENDS Integers, Sequences

CONSTANTS
    MaxConns,   \* bound: the connections made after the first
    MaxNow,     \* bound: real time, in ticks of half a second
    MaxWait,    \* bound: the ticks that pass during a handshake
    MaxFaults,  \* bound: restarts and clocks set back
    Kinds,      \* <<version, cipher suite>>: what a connection may come to use
    Lags        \* by how much the server's clock may be behind

ASSUME BoundsAssumption == MaxConns \in Nat /\ MaxNow \in Nat /\ MaxWait \in Nat /\ MaxFaults \in Nat /\ Lags \subseteq Int

\* Durations in ticks, in the order of the code's: a renewal at the client (100 s), what
\* SSLSession allows (7200 s), DEFAULT_TIMEOUT (86400 s)
Second == 2
Renewal == 2
Allowed == 4
DefaultTimeout == 6

VARIABLES
    now,       \* real time in ticks
    lag,       \* lag[s]: how far the clock of side s is behind
    store,     \* TicketAEAD._sessions: store[t], the bytes sealed as ticket t
    faults,    \* the restarts and clocks set back so far
    lost,      \* the tickets up to this one were sealed before the server's last restart
    kept,      \* the SSLSession the application offers next
    ticket,    \* of the ticket in kept, a history: the lifetime it came with, when it was sent by
               \* the server's clock and received by the client's, and how long that took
    conn       \* conn[c]: connection c

vars == <<now, lag, faults, store, lost, kept, ticket, conn>>

Client == "client"
Server == "server"
Conns == 1..MaxConns
UtcNow(s) == now - lag[s]

MaxOf(a, b) == IF a > b THEN a ELSE b
MinOf(a, b) == IF a < b THEN a ELSE b
WholeSeconds(t) == t - (t % Second)

Ticket(id, lifetime, sent, received, delay) ==
    [id |-> id, lifetime |-> lifetime, sent |-> sent, received |-> received, delay |-> delay]
NoTicket == Ticket(0, 0, 0, 0, 0)

-----------------------------------------------------------------------------
(* TLSSession                                                              *)

Session(server, kind, secret, peer, time) ==
    [is_server |-> server, kind |-> kind, secret |-> secret, peer_cert |-> peer,
     time |-> time, timeout |-> DefaultTimeout, ticket |-> 0, not_resumable |-> TRUE]
NoSession == Session(FALSE, <<0, "none">>, <<>>, 0, 0)

\* mutant: a timeout may fall below zero
RebaseTimeBelow(s, t) == [s EXCEPT !.time = t, !.timeout = @ - (t - s.time)]

\* rebase_time: the clock may have been set back.
RebaseTime(s, t) ==
    [s EXCEPT !.time = t,
              !.timeout = IF s.time > t THEN 0 ELSE MaxOf(0, s.timeout - (t - s.time))]

SetTimeoutRaises(s, timeout) == [s EXCEPT !.timeout = timeout]   \* mutant
SetTimeout(s, timeout) == [s EXCEPT !.timeout = MinOf(@, timeout)]

\* mutant: renewed in full
RenewTimeoutAlways(s, t, timeout) == [s EXCEPT !.time = t, !.timeout = @ + timeout]
RenewTimeout(s, t, timeout) ==
    LET r == RebaseTime(s, t) IN [r EXCEPT !.timeout = MaxOf(@, timeout)]

TimeValidUnchecked(s, t) == t >= s.time   \* mutant
TimeValid(s, t) == t >= s.time /\ t <= s.time + s.timeout

CopyAnonymous(s) == [s EXCEPT !.not_resumable = TRUE, !.ticket = 0, !.peer_cert = 0]   \* mutant

\* copy, without and with its ticket.  (What include_noauth adds is not told apart here.)
Copy(s) == [s EXCEPT !.not_resumable = TRUE, !.ticket = 0]
CopyWithTicket(s) == [s EXCEPT !.not_resumable = TRUE]

\* to_bytes, from_bytes: times in whole seconds; certificates and not_resumable left out.
ToBytes(s) ==
    [s EXCEPT !.time = WholeSeconds(@), !.timeout = WholeSeconds(@), !.peer_cert = 0,
              !.not_resumable = FALSE]

-----------------------------------------------------------------------------
(* One connection                                                          *)

NewConn ==
    [phase |-> "new", kind |-> <<0, "none">>, offered |-> NoSession, reused |-> FALSE,
     ticket |-> NoTicket, server |-> NoSession, client |-> NoSession, tickets |-> <<>>,
     mismatch |-> FALSE, started |-> 0]

\* A connection with no ticket to come has no more to do with sessions.
Closed == [NewConn EXCEPT !.phase = "closed"]

\* _do_start_connect, of a client of every version: the connection comes to use some version
\* and cipher suite.
StartConnect(c, kind) ==
    /\ conn[c].phase = "new" /\ (c > 1 => conn[c - 1].phase \in {"open", "closed"})
    /\ LET offers == /\ kept # NoSession /\ ~kept.is_server /\ kept.ticket # 0
                     /\ TimeValid(kept, UtcNow(Client))
       IN conn' = [conn EXCEPT ![c].phase = "offered", ![c].kind = kind, ![c].started = now,
                               ![c].offered = IF offers THEN kept ELSE NoSession,
                               ![c].ticket = IF offers THEN ticket ELSE NoTicket]
    /\ UNCHANGED <<now, lag, faults, store, lost, kept, ticket>>

Known(t) == t > lost

\* _decrypt_session
DecryptSession(t, kind) ==
    LET s == store[t]
    IN IF /\ t # 0 /\ Known(t)
          /\ TimeValid(s, UtcNow(Server)) /\ s.is_server /\ s.kind = kind /\ ~s.not_resumable
       THEN s ELSE NoSession

\* The secrets a full handshake agrees on; the certificate the client verifies in it
FullSecret(c) == <<c>>

\* The session of a connection that resumes: renewed in TLS 1.3, as it is below.
Accept(s, kind) ==
    IF kind[1] = 13 THEN RenewTimeout(Copy(s), UtcNow(Server), DefaultTimeout) ELSE s

\* _do_select_parameters, _do_select_parameters_tls13.  A binder or a Finished that does not
\* match is refused.
SelectParameters(c) ==
    /\ conn[c].phase = "offered"
    /\ LET k == conn[c]
           s == DecryptSession(k.offered.ticket, k.kind)
           reuses == s # NoSession
       IN conn' = [conn EXCEPT
             ![c].phase = "selected", ![c].reused = reuses,
             ![c].mismatch = reuses /\ s.secret # k.offered.secret,
             ![c].server = IF reuses THEN Accept(s, k.kind)
                           ELSE Session(TRUE, k.kind, FullSecret(c), 0, UtcNow(Server))]
    /\ UNCHANGED <<now, lag, faults, store, lost, kept, ticket>>

ClientCopy(s, kind) ==
    IF kind[1] = 13 THEN RenewTimeout(Copy(s), UtcNow(Client), Renewal) ELSE Copy(s)

\* _do_read_server_hello, _do_read_server_hello_tls13, and the certificate
ReadServerHello(c) ==
    /\ conn[c].phase = "selected" /\ ~conn[c].mismatch
    /\ LET k == conn[c]
       IN conn' = [conn EXCEPT
             ![c].phase = "agreed",
             ![c].client = IF k.reused THEN ClientCopy(k.offered, k.kind)
                           ELSE Session(FALSE, k.kind, FullSecret(c), 1, UtcNow(Client))]
    /\ UNCHANGED <<now, lag, faults, store, lost, kept, ticket>>

\* The resumption secret of a ticket's nonce.  Below TLS 1.3 the master secret is kept.
ResumptionSecret(c, kind, nonce) == IF kind[1] = 13 THEN <<c, nonce>> ELSE FullSecret(c)

Nonces(kind) == IF kind[1] = 13 THEN <<0, 1>> ELSE <<0>>

\* mutant: the lifetime the server itself uses
LifetimeInFull(s) == DefaultTimeout
Lifetime(s) == WholeSeconds(s.timeout)

\* _encrypt_session and seal for each nonce
Sealed(s, c, kind) ==
    [i \in DOMAIN Nonces(kind) |->
        ToBytes([Copy(s) EXCEPT !.secret = ResumptionSecret(c, kind, Nonces(kind)[i])])]

\* _do_send_session_ticket (not when a session is resumed), _do_send_new_session_ticket_tls13
SendTickets(c) ==
    /\ conn[c].phase = "agreed"
    /\ LET k == conn[c]
           s == RebaseTime(k.server, UtcNow(Server))
           new == IF k.kind[1] < 13 /\ k.reused THEN <<>> ELSE Sealed(s, c, k.kind)
       IN /\ store' = store \o new
          /\ conn' = [conn EXCEPT ![c] =
                IF new = <<>> THEN Closed
                ELSE [@ EXCEPT !.phase = "open", !.started = 0, !.server = s,
                               !.tickets = [i \in DOMAIN new |->
                    Ticket(Len(store) + i, Lifetime(s), UtcNow(Server), 0, now)]]]
    /\ UNCHANGED <<now, lag, faults, lost, kept, ticket>>

Wrap(s) == SetTimeout(s, Allowed)

\* mutant: the secret of the connection's first ticket with every ticket
FromTicketFirst(s, c, kind, nonce, t, lifetime) ==
    [SetTimeout(RebaseTime(CopyWithTicket(s), UtcNow(Client)), lifetime)
        EXCEPT !.ticket = t, !.not_resumable = FALSE, !.secret = ResumptionSecret(c, kind, 0)]

\* What the callback is given: the ticket with the connection's session.  The lifetime of a
\* ticket of TLS 1.2 is not looked at.
FromTicket(s, c, kind, nonce, t, lifetime) ==
    LET r == RebaseTime(CopyWithTicket(s), UtcNow(Client))
        l == IF kind[1] = 13 THEN SetTimeout(r, lifetime) ELSE r
    IN [l EXCEPT !.ticket = t, !.not_resumable = FALSE,
                 !.secret = ResumptionSecret(c, kind, nonce)]

\* The tickets of the connection are in flight, the first of them is read: _post_handshake_tls13,
\* _do_read_session_ticket with _do_finish_client_handshake, and SSLSession.__init__ in the
\* callback.
ReadTicket(c) ==
    /\ conn[c].phase = "open"
    /\ LET k == conn[c]
           t == Head(k.tickets)
           nonce == Len(Nonces(k.kind)) - Len(k.tickets)
       IN /\ kept' = Wrap(FromTicket(k.client, c, k.kind, nonce, t.id, t.lifetime))
          /\ ticket' = Ticket(t.id, t.lifetime, t.sent, UtcNow(Client), now - t.delay)
          /\ conn' = [conn EXCEPT ![c] =
                IF Len(k.tickets) = 1 THEN Closed ELSE [k EXCEPT !.tickets = Tail(@)]]
    /\ UNCHANGED <<now, lag, faults, store, lost>>

\* The connection ends with tickets unread.
Close(c) ==
    /\ conn[c].phase = "open"
    /\ conn' = [conn EXCEPT ![c] = Closed]
    /\ UNCHANGED <<now, lag, faults, store, lost, kept, ticket>>

\* The first connection was made at once and its tickets read.
Init ==
    /\ now = 0 /\ faults = 0 /\ lost = 0
    /\ \E l \in Lags : lag = [s \in {Client, Server} |-> IF s = Server THEN l ELSE 0]
    /\ \E kind \in Kinds :
          LET s == Session(TRUE, kind, FullSecret(0), 0, UtcNow(Server))
              n == Len(Nonces(kind))
          IN /\ store = Sealed(s, 0, kind)
             /\ kept = Wrap(FromTicket(Session(FALSE, kind, FullSecret(0), 1, UtcNow(Client)), 0,
                                      kind, n - 1, n, Lifetime(s)))
             /\ ticket = Ticket(n, Lifetime(s), UtcNow(Server), UtcNow(Client), 0)
    /\ conn = [c \in Conns |-> NewConn]

Tick ==
    /\ now < MaxNow
    /\ \A c \in Conns : conn[c].phase \in {"offered", "selected", "agreed"} =>
                          now < conn[c].started + MaxWait
    /\ now' = now + 1
    /\ UNCHANGED <<lag, faults, store, lost, kept, ticket, conn>>

\* A clock is set back.
SetBack(s) ==
    /\ faults < MaxFaults /\ faults' = faults + 1
    /\ lag' = [lag EXCEPT ![s] = @ + 3]
    /\ UNCHANGED <<now, store, lost, kept, ticket, conn>>

\* The server's process ends and another takes its place: TicketAEAD keeps its tickets in
\* memory.  Handshakes end with it; tickets on their way can still be read.
Restart ==
    /\ faults < MaxFaults /\ faults' = faults + 1
    /\ lost' = Len(store)
    /\ conn' = [c \in Conns |-> IF conn[c].phase \in {"new", "open"} THEN conn[c] ELSE Closed]
    /\ UNCHANGED <<now, lag, store, kept, ticket>>

Next ==
    \/ \E c \in Conns :
          \/ \E kind \in Kinds : StartConnect(c, kind)
          \/ SelectParameters(c)
          \/ ReadServerHello(c)
          \/ SendTickets(c)
          \/ ReadTicket(c)
          \/ Close(c)
    \/ Tick
    \/ \E s \in {Client, Server} : SetBack(s)
    \/ Restart

Spec == Init /\ [][Next]_vars

-----------------------------------------------------------------------------
(* What is to hold over the connections.                                   *)

Expiry(s) == s.time + s.timeout
NotSetBack == lag[Client] = 0 /\ lag[Server] \in Lags

\* Sessions are of their side, what the application keeps can be offered, and no timeout is
\* negative or longer than allowed.
TypeOK ==
    /\ lost \in 0..Len(store) /\ ticket.id = kept.ticket
    /\ \A t \in DOMAIN store :
          store[t].is_server /\ store[t].timeout \in 0..DefaultTimeout /\ ~store[t].not_resumable
    /\ kept # NoSession =>
          /\ ~kept.is_server /\ ~kept.not_resumable
          /\ kept.ticket \in DOMAIN store /\ kept.timeout \in 0..Allowed
    /\ \A c \in Conns : conn[c].client.timeout \in 0..DefaultTimeout
                      /\ conn[c].server.timeout \in 0..DefaultTimeout

\* The secret the client keeps with a ticket is the one the server sealed in it, whichever
\* of the tickets of whichever connection was read last: no binder is refused
\* ("binder mismatch", _do_select_parameters_tls13).
SecretsAgree ==
    /\ \A c \in Conns : ~conn[c].mismatch
    /\ kept # NoSession => store[kept.ticket].secret = kept.secret /\ store[kept.ticket].kind = kept.kind

\* Through any number of resumptions the client knows the certificate it verified in the
\* full handshake (peer_cert and verified_peer_cert in TLSSession.copy).
IdentityKept ==
    /\ kept # NoSession => kept.peer_cert = 1
    /\ \A c \in Conns : conn[c].phase \in {"agreed", "open"} => conn[c].client.peer_cert = 1

Offers(c) == conn[c].phase = "new" /\ conn'[c].phase = "offered" /\ conn'[c].offered # NoSession
Answers(c) ==
    conn[c].phase = "offered" /\ conn'[c].phase = "selected" /\ conn[c].offered # NoSession

\* By its own clock the server resumes no session beyond the lifetime it told the client
\* with the ticket: times are kept in whole seconds, and a renewal is told.
ServerHonoursLifetime ==
    [][\A c \in Conns : (Answers(c) /\ conn'[c].reused) =>
          UtcNow(Server) <= conn[c].ticket.sent + conn[c].ticket.lifetime]_vars

\* By its own clock the client offers no ticket of TLS 1.3 beyond the lifetime it was told,
\* and none beyond what SSLSession allows, however the session was renewed before.
ClientHonoursLifetime ==
    [][\A c \in Conns : Offers(c) =>
          LET age == UtcNow(Client) - ticket.received
          IN age <= Allowed /\ (kept.kind[1] = 13 => age <= ticket.lifetime)]_vars

\* A ticket of TLS 1.3 that the server has and that fits is refused only at the end of its
\* lifetime: in its last second, or later by no more than messages took.
RefusedOnlyAtExpiry ==
    [][\A c \in Conns : LET k == conn[c]
                            t == k.ticket
          IN (/\ Answers(c) /\ ~conn'[c].reused /\ NotSetBack
              /\ Known(t.id) /\ k.offered.kind = k.kind /\ k.kind[1] = 13) =>
             /\ UtcNow(Server) > t.sent + t.lifetime - Second
             /\ UtcNow(Server) <= t.sent + t.lifetime + t.delay + (now - k.started)]_vars

\* renew_timeout(100): a session that a resumption gives the client expires no later than the
\* session it offered, than the renewal from the ServerHello on, or than at once.
RenewalBounded ==
    [][\A c \in Conns : (conn[c].reused /\ conn[c].tickets # conn'[c].tickets /\ kept' # kept) =>
          \/ Expiry(kept') <= Expiry(conn[c].offered)
          \/ Expiry(kept') <= conn[c].client.time + Renewal
          \/ Expiry(kept') = UtcNow(Client)]_vars

=============================================================================

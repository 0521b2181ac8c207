--------------------------- MODULE TLSConnection ---------------------------
(***************************************************************************)
(* One TLS connection: the two endpoints, each a TLSConnection object      *)
(* (src/simple_tls/tls/connection.py) that owns a TLSHandshake object      *)
(* (handshake.py), and the reliable byte stream between them.  This module *)
(* holds their state, the record layer (sealing, packing, flushing,        *)
(* opening, alerts), the loop of TLSConnection.do_handshake that acts on   *)
(* the Status a handshake handler returns, and the calls an application    *)
(* makes: do_handshake, read and write.  The handlers themselves are in    *)
(* TLSClient, TLSServer and the modules of the two protocol versions.      *)
(*                                                                         *)
(* A call runs to its end before the application makes another one; what   *)
(* it wrote to the outgoing BIO is sent to the peer when the call ends and *)
(* arrives in order but not all at once.  A call that finds no complete    *)
(* record raises TLSWantReadError and is made again later.                 *)
(***************************************************************************)
EXTENDS Integers, Sequences

CONSTANTS
    RecordLimit,   \* _send_record_limit and _recv_record_limit (2^14 bytes in the code)
    Overhead,      \* what sealing adds to a plaintext: type byte and AEAD tag
    MaxEarlyData,  \* ticket_max_early_data of the session the client offers
    WriteSizes     \* the sizes of the data an application passes to write()

ASSUME ConstantsAssumption ==
    /\ RecordLimit \in Nat \ {0} /\ Overhead \in Nat
    /\ MaxEarlyData \in Nat
    /\ WriteSizes \subseteq Nat \ {0}

VARIABLES
    cfg,    \* the two configurations, fixed for the connection, and how the applications
            \* use it: cfg.writes bounds the calls of write() per side
    ep,     \* ep[s]: the TLSConnection of side s and its TLSHandshake
    wire,   \* wire[s]: records on their way to s or in its incoming BIO
    sent,   \* sent[s]: history of the application data write() reported as written
    got     \* got[s]: history of the application data read() returned

vars == <<cfg, ep, wire, sent, got>>

Client == "client"
Server == "server"
Side == {Client, Server}
Peer(s) == IF s = Client THEN Server ELSE Client

Min2(a, b) == IF a <= b THEN a ELSE b

-----------------------------------------------------------------------------
(* Keys, transcripts, messages and records.  A key is the term it is       *)
(* derived from, so two keys are equal exactly when both sides fed the key *)
(* schedule the same secrets, label and transcript.                        *)

Key(label, sched, th) == [label |-> label, sched |-> sched, th |-> th]

NoSchedule == [gen |-> 0, psk |-> FALSE, dhe |-> "none"]
NoKey == Key("none", NoSchedule, <<>>)
NewSchedule == NoSchedule
Extract(k, psk, dhe) == [gen |-> k.gen + 1, psk |-> psk, dhe |-> dhe]

\* A handshake message: its type, the extensions and contents the handlers look at,
\* its verify data (Finished, CertificateVerify), binder (ClientHello) or confirmation
\* (ServerHello), and the encrypted ClientHello it carries, if any.
NoProof == [key |-> NoKey, th |-> <<>>]
Proof(k, th) == [key |-> k, th |-> th]
Message(type, has, proof) == [type |-> type, has |-> has, proof |-> proof, ech |-> <<>>]
Plainly(type, has) == Message(type, has, NoProof)

Has(cond, x) == IF cond THEN {x} ELSE {}

\* The key the pre_shared_key binders are computed with, on both sides
BinderKey == Key("res binder", Extract(NewSchedule, TRUE, "none"), <<>>)

\* What a message adds to the transcript.  Its verify data is a function of what
\* precedes it, so it is left out of the hash.
Hashed(m) == [type |-> m.type, has |-> m.has]

\* KeySchedule.ech_accept_confirmation: a server proves that it holds the inner hello by
\* a value over the transcript with that hello and its own in it.
ConfirmationKey == Key("ech accept confirmation", NoSchedule, <<>>)
Confirmation(transcript, hello) == Proof(ConfirmationKey, Append(transcript, Hashed(hello)))

\* ConnectionState: a record is opened only with the key and number it was sealed with.
ConnectionState(key) == [key |-> key, seq |-> 0]

\* _record_version: 10 stands for TLSv1, what is written before a version is known.
RecordVersion(e) == IF e.version = 0 THEN 10 ELSE Min2(12, e.version)

Record(e, type, cs, msgs, desc, data) ==
    [type |-> type, ver |-> RecordVersion(e), key |-> cs.key, seq |-> cs.seq, msgs |-> msgs,
     desc |-> desc, data |-> data]

NoData == [size |-> 0, n |-> 0, early |-> FALSE]

\* Protocol versions in supported_versions and in the legacy version of a hello
VersionName == [v \in 11..13 |-> CASE v = 11 -> "v11" [] v = 12 -> "v12" [] v = 13 -> "v13"]
LegacyName == [v \in 11..12 |-> IF v = 11 THEN "lv11" ELSE "lv12"]

Epochs == {"INITIAL", "ZERO_RTT", "HANDSHAKE", "APPLICATION_DATA"}

\* A fresh TLSConnection with its TLSHandshake in the given first state.
NewEndpoint(state) ==
    [state |-> state, status |-> "OK", pc |-> "idle", op |-> "none", size |-> 0,
     retry |-> FALSE, writes |-> 0, err |-> "none", ok |-> TRUE,
     incoming |-> <<>>, outgoing |-> <<>>, pending |-> <<>>, outbio |-> <<>>,
     wstate |-> ConnectionState(NoKey), rstate |-> ConnectionState(NoKey),
     wepoch |-> "INITIAL", wshut |-> "NONE", rshut |-> "NONE",
     processed |-> 0, ignored |-> 0,
     version |-> 0, early_version |-> FALSE, transcript |-> <<>>, sched |-> NoSchedule,
     enc |-> [x \in Epochs |-> NoKey], dec |-> [x \in Epochs |-> NoKey],
     early_offered |-> FALSE, early_status |-> "NONE", in_early |-> FALSE,
     skip_early |-> FALSE, can_read |-> FALSE, can_write |-> FALSE,
     psk |-> FALSE, reused |-> FALSE, hrr |-> FALSE, group |-> "none",
     session_max |-> 0, has_alps |-> FALSE, cert_requested |-> FALSE,
     peer_cert |-> FALSE, authenticated |-> FALSE, tickets |-> 0, established |-> FALSE,
     session_id |-> FALSE, session_ticket |-> "none", ticket_expected |-> FALSE,
     kea |-> "none", anon |-> FALSE, ems |-> FALSE, etm |-> FALSE, npn |-> FALSE,
     secret |-> NoKey,
     ech_context |-> FALSE, ech_status |-> "NONE", inner |-> <<>>, hpke |-> 0,
     retry_configs |-> FALSE]

Done(e) == e.state = "DONE"

\* _has_final_version, and the question most of the record layer asks with it
HasFinalVersion(e) == e.version # 0 /\ ~e.early_version
SpeaksTLS13(e) == HasFinalVersion(e) /\ e.version >= 13

-----------------------------------------------------------------------------
(* TLSHandshake: what the handlers of both sides are made of.              *)

Assert(e, c) == [e EXCEPT !.ok = @ /\ c]

SetState(e, state) == [e EXCEPT !.state = state]

\* _add_message: queue for the next flight, and hash unless update_hash is false.
AddMessage(e, m) ==
    [e EXCEPT !.outgoing = Append(@, m), !.transcript = Append(@, Hashed(m))]
AddUnhashed(e, m) == [e EXCEPT !.outgoing = Append(@, m)]

\* _read_handshake returns the first complete message and keeps it in _cache until
\* _next_handshake; the rest is has_unprocessed_data().
HasMessage(e) == e.incoming # <<>>
Current(e) == Head(e.incoming)
HasUnprocessed(e) == Tail(e.incoming) # <<>>
NextHandshake(e) ==
    [e EXCEPT !.transcript = Append(@, Hashed(Current(e))), !.incoming = Tail(@)]
NextUnhashed(e) == [e EXCEPT !.incoming = Tail(@)]

\* Transcript.update_for_hello_retry_request
ForRetry(transcript) == <<[type |-> "message_hash", has |-> transcript[1].has]>>
HashForRetry(e) == [e EXCEPT !.transcript = ForRetry(@)]

DeriveWrite(e, epoch, label) ==
    [e EXCEPT !.enc[epoch] = Key(label, e.sched, e.transcript)]
DeriveRead(e, epoch, label) ==
    [e EXCEPT !.dec[epoch] = Key(label, e.sched, e.transcript)]

\* _setup_traffic: a new key may only be installed for writing once every message
\* of the old epoch has been sealed.
SetupRead(e, epoch) == [e EXCEPT !.rstate = ConnectionState(e.dec[epoch])]
SetupWrite(e, epoch) ==
    Assert([e EXCEPT !.wstate = ConnectionState(e.enc[epoch]), !.wepoch = epoch],
           e.outgoing = <<>>)

\* The keys of a TLS 1.2 connection all come from the master secret, which is that of the
\* resumed session or the one the key exchange gives: with the extended master secret it
\* depends on the transcript up to the key exchange.
SessionSecret(e) == Key("master", [gen |-> e.version, psk |-> TRUE, dhe |-> "none"], <<>>)
MasterSecret(e) ==
    Key("master", [gen |-> e.version, psk |-> FALSE, dhe |-> e.kea],
        IF e.ems THEN e.transcript ELSE <<>>)

\* _derive_key: one key block for both directions
DeriveKey(s, e, secret) ==
    LET label(side) == CASE side = Client -> IF e.etm THEN "client write etm" ELSE "client write"
                         [] side = Server -> IF e.etm THEN "server write etm" ELSE "server write"
    IN [e EXCEPT !.secret = secret,
                 !.enc["APPLICATION_DATA"] = [secret EXCEPT !.label = label(s)],
                 !.dec["APPLICATION_DATA"] = [secret EXCEPT !.label = label(Peer(s))]]

\* _derive_finished_verify_data
FinishedProof(e, label) == Proof([e.secret EXCEPT !.label = label], e.transcript)

\* close_early_data and _close_early_data
CloseEarlyData(e) == [e EXCEPT !.skip_early = FALSE, !.can_read = FALSE, !.can_write = FALSE]
EndEarlyData(e) == CloseEarlyData([Assert(e, e.in_early) EXCEPT !.in_early = FALSE])

MaxEarly(e) == IF e.in_early THEN e.session_max ELSE 0

-----------------------------------------------------------------------------
(* The record layer of TLSConnection, sending.                             *)

SealSameNumber(cs, n) == cs   \* mutant
Seal(cs, n) == IF cs.key = NoKey THEN cs ELSE [cs EXCEPT !.seq = @ + n]

\* _pack_handshake: the queued messages, sealed under the current key.  A flight
\* longer than a record is split; cfg.split stands for a flight that long.
PackHandshake(e) ==
    IF e.outgoing = <<>> THEN e
    ELSE LET chunks == IF cfg.split THEN [i \in DOMAIN e.outgoing |-> <<e.outgoing[i]>>]
                                    ELSE <<e.outgoing>>
             records == [i \in DOMAIN chunks |->
                            Record(e, "handshake", Seal(e.wstate, i - 1), chunks[i], "none", NoData)]
         IN [e EXCEPT !.pending = @ \o records,
                      !.wstate = Seal(@, Len(chunks)),
                      !.outgoing = <<>>]

\* _flush_handshake: nothing leaves after the write side was shut down.
FlushHandshake(e) ==
    LET p == PackHandshake(e)
    IN IF p.wshut # "NONE" THEN p
       ELSE [p EXCEPT !.outbio = @ \o p.pending, !.pending = <<>>]

\* _write: what is pending goes first.
Write(e, type, desc, data) ==
    LET f == FlushHandshake(e)
    IN [f EXCEPT !.outbio = Append(@, Record(e, type, f.wstate, <<>>, desc, data)),
                 !.wstate = Seal(@, 1)]

\* _write_ccs: always in the clear.
WriteCCS(e) ==
    [e EXCEPT !.pending =
        Append(@, Record(e, "ccs", ConnectionState(NoKey), <<>>, "none", NoData))]

\* mutant: the error is raised and the peer not told
SendAlertSilently(e, desc) == [e EXCEPT !.err = desc, !.wshut = "ERROR"]

\* _send_alert, fatal: the alert is sent unless the write side is shut down already,
\* and the call ends with TLSLocalAlert.
SendAlert(e, desc) ==
    LET w == IF e.wshut = "NONE"
             THEN [Write(e, "alert", desc, NoData) EXCEPT !.wshut = "ERROR"]
             ELSE e
    IN [w EXCEPT !.err = desc]

-----------------------------------------------------------------------------
(* The record layer of TLSConnection, receiving.                           *)

CipherText(r) == r.data.size + Overhead
Decrypts(e, r) == r.key = e.rstate.key /\ r.seq = e.rstate.seq

\* hide_content_type: only under a TLS 1.3 key, where an alert in the clear can be told
\* from a sealed record.
HidesType(key) ==
    key.label \in {"c e traffic", "c hs traffic", "s hs traffic", "c ap traffic", "s ap traffic"}

\* What _open_record_internal makes of record r, in the order of its checks.
Verdict(e, r) ==
    IF e.rstate.key # NoKey /\ r.ver # RecordVersion(e) THEN "wrong_version"
    ELSE IF r.type = "ccs" /\ SpeaksTLS13(e)
    THEN IF e.established THEN "late_ccs" ELSE "skip"
    ELSE IF e.rstate.key = NoKey
    THEN IF e.skip_early /\ r.key # NoKey THEN "skip_early"
         ELSE IF r.key # NoKey THEN "outer_data"
         ELSE IF r.type = "alert" THEN "alert" ELSE "deliver"
    ELSE IF r.key = NoKey /\ r.type = "alert" /\ HidesType(e.rstate.key) /\ e.rstate.seq = 0
    THEN "alert"
    ELSE IF Decrypts(e, r) THEN (IF r.type = "alert" THEN "alert" ELSE "deliver")
    ELSE IF e.skip_early THEN "skip_early"
    ELSE "bad_record_mac"

\* mutant: the skipping of early data goes on
OpenedStillSkipping(e, r) ==
    IF e.rstate.key # NoKey /\ Decrypts(e, r) THEN [e EXCEPT !.rstate.seq = @ + 1] ELSE e

\* The side effects of opening r: the sequence number moves, and the first record
\* that is not skipped ends the skipping of early data.
Opened(e, r) ==
    LET o == IF e.rstate.key # NoKey /\ Decrypts(e, r)
             THEN [e EXCEPT !.rstate.seq = @ + 1] ELSE e
    IN IF o.skip_early THEN CloseEarlyData(o) ELSE o

-----------------------------------------------------------------------------
(* Ending a call: the outgoing BIO is handed to the transport.             *)

Set(s, e) ==
    /\ ep' = [ep EXCEPT ![s] = e]
    /\ UNCHANGED <<cfg, wire, sent, got>>

EndCall(s, e, rest) ==
    /\ ep' = [ep EXCEPT ![s] = [e EXCEPT !.pc = "idle", !.outbio = <<>>]]
    /\ wire' = [wire EXCEPT ![s] = rest, ![Peer(s)] = @ \o e.outbio]
    /\ UNCHANGED cfg

\* The call raises: a local or a remote fatal alert.
Fail(s, e, rest) == EndCall(s, [e EXCEPT !.retry = FALSE], rest) /\ UNCHANGED <<sent, got>>

-----------------------------------------------------------------------------
(* The calls of the application.                                           *)

Ready(s) == ep[s].pc = "idle" /\ ep[s].err = "none"

\* A fresh call needs the last one to have ended, or an application that gives up
\* waiting for it (cfg.nonblocking).
MayCall(s) == Ready(s) /\ (ep[s].retry => cfg.nonblocking)

Enter(s, op, size, direct, pc) ==
    Set(s, [ep[s] EXCEPT !.op = op, !.size = size, !.retry = FALSE,
                         !.pc = IF direct THEN pc ELSE "loop"])

\* Where read() and write() start: they drive the handshake unless it is complete
\* or early data may pass.
EnterRead(s) == Enter(s, "read", 0, Done(ep[s]) \/ ep[s].can_read, "open")
EnterWrite(s, n) == Enter(s, "write", n, Done(ep[s]) \/ ep[s].can_write, "write")
EnterHandshake(s) == Enter(s, "do_handshake", 0, FALSE, "loop")

\* TLSConnection.do_handshake, from the application
CallHandshake(s) ==
    /\ MayCall(s) /\ ~Done(ep[s])
    /\ EnterHandshake(s)

\* TLSConnection.read
CallRead(s) ==
    /\ MayCall(s)
    /\ Done(ep[s]) \/ ep[s].can_read => wire[s] # <<>>
    /\ EnterRead(s)

\* TLSConnection.write
CallWrite(s, n) ==
    /\ MayCall(s) /\ ep[s].writes < cfg.writes
    /\ EnterWrite(s, n)

\* A call that raised TLSWantReadError is repeated while something is on its way.
Retry(s) ==
    /\ Ready(s) /\ ep[s].retry /\ wire[s] # <<>>
    /\ CASE ep[s].op = "read" -> EnterRead(s)
         [] ep[s].op = "write" -> EnterWrite(s, ep[s].size)
         [] OTHER -> EnterHandshake(s)

\* do_handshake is back: the call that needed it goes on.
Returned(e) ==
    [e EXCEPT !.pc = CASE e.op = "read" -> "open" [] e.op = "write" -> "write"
                       [] OTHER -> "return"]

ReturnFromHandshake(s) ==
    /\ ep[s].pc = "return"
    /\ EndCall(s, ep[s], wire[s])
    /\ UNCHANGED <<sent, got>>

-----------------------------------------------------------------------------
(* The loop of TLSConnection.do_handshake: act on the status, then call    *)
(* the handshake ("dispatch").                                             *)

AtLoop(s, status) == ep[s].pc = "loop" /\ ep[s].status = status
Dispatch(e) == [e EXCEPT !.pc = "dispatch"]

LoopStart(s) == AtLoop(s, "OK") /\ Set(s, Dispatch(ep[s]))

\* mutant: nothing is sealed before the keys change
LoopPackNothing(s) == AtLoop(s, "PACK_FLIGHT") /\ Set(s, Dispatch(ep[s]))

LoopPackFlight(s) ==
    AtLoop(s, "PACK_FLIGHT") /\ Set(s, Dispatch(PackHandshake(ep[s])))

LoopFlushHandshake(s) ==
    AtLoop(s, "FLUSH_HANDSHAKE") /\ Set(s, Dispatch(FlushHandshake(ep[s])))

LoopWriteCCS(s) ==
    AtLoop(s, "WRITE_CHANGE_CIPHER_SPEC") /\ Set(s, Dispatch(WriteCCS(ep[s])))

\* Neither an early nor a complete handshake is reported to a client whose encrypted
\* hello was rejected.
NotRejected(s, e) == Assert(e, s = Client => e.ech_status # "REJECTED")

LoopEarlyReturn(s) ==
    /\ AtLoop(s, "EARLY_RETURN")
    /\ Set(s, Returned(NotRejected(s, [ep[s] EXCEPT !.status = "OK"])))

LoopEndOfEarlyData(s) ==
    /\ AtLoop(s, "READ_END_OF_EARLY_DATA")
    /\ Set(s, IF ep[s].can_read THEN Returned(ep[s])
              ELSE Dispatch([ep[s] EXCEPT !.status = "OK"]))

\* A handler returned status: Status.OK with the handshake done ends do_handshake,
\* any other status is acted on.
Yield(s, e, status) ==
    LET y == [e EXCEPT !.status = status]
    IN Set(s, IF status # "OK" THEN [y EXCEPT !.pc = "loop"]
              ELSE IF Done(y) THEN Returned(NotRejected(s, y)) ELSE y)

\* A handler raised an alert.
Alert(s, e, desc) == Fail(s, SendAlert(e, desc), wire[s])

\* A handler's checks, in the order of the code, each with the alert it raises when its
\* condition holds; the handler goes on when none does.
Checked(s, e, checks, step) ==
    LET raised == {i \in DOMAIN checks : checks[i][1]}
    IN IF raised = {} THEN step
       ELSE \E i \in raised : (\A j \in raised : i <= j) /\ Alert(s, e, checks[i][2])

-----------------------------------------------------------------------------
(* Opening records: for _read_handshake in the loop, or for read().        *)

Opening(s) ==
    ep[s].pc = "open" \/ AtLoop(s, "READ_HANDSHAKE") \/ AtLoop(s, "READ_CHANGE_CIPHER_SPEC")

\* TLSWantReadError: the next record has not been sent, or has not arrived in full.
WantRead(s) ==
    /\ Opening(s)
    /\ EndCall(s, [ep[s] EXCEPT !.retry = TRUE], wire[s])
    /\ UNCHANGED <<sent, got>>

Incoming(s, verdict) ==
    /\ Opening(s) /\ wire[s] # <<>>
    /\ Verdict(ep[s], Head(wire[s])) = verdict

\* SkipDataException for a compatibility change_cipher_spec
SkipCCS(s) ==
    /\ Incoming(s, "skip")
    /\ wire' = [wire EXCEPT ![s] = Tail(@)]
    /\ UNCHANGED <<cfg, ep, sent, got>>

\* _skip_early_data
SkipEarlyData(s) ==
    /\ Incoming(s, "skip_early")
    /\ LET e == [ep[s] EXCEPT !.ignored = @ + CipherText(Head(wire[s]))]
       IN IF e.ignored > RecordLimit
          THEN Fail(s, SendAlert(e, "too_many_early_data"), Tail(wire[s]))
          ELSE /\ ep' = [ep EXCEPT ![s] = e]
               /\ wire' = [wire EXCEPT ![s] = Tail(@)]
               /\ UNCHANGED <<cfg, sent, got>>

\* A record that ends the connection: a fatal alert of the peer (_process_alert, raised
\* as TLSRemoteAlert), or a record the record layer answers with an alert of its own.
FatalRecord(s) ==
    \E verdict \in {"alert", "bad_record_mac", "wrong_version", "late_ccs", "outer_data"} :
        /\ Incoming(s, verdict)
        /\ Fail(s, CASE verdict = "alert" ->
                        [Opened(ep[s], Head(wire[s])) EXCEPT !.rshut = "ERROR",
                                                             !.err = "remote_alert"]
                     [] verdict = "bad_record_mac" -> SendAlert(ep[s], verdict)
                     [] verdict = "wrong_version" -> SendAlert(ep[s], "protocol_version")
                     [] OTHER -> SendAlert(ep[s], "unexpected_message"),
                Tail(wire[s]))

Deliver(s, e) ==
    /\ ep' = [ep EXCEPT ![s] = e]
    /\ wire' = [wire EXCEPT ![s] = Tail(@)]
    /\ UNCHANGED <<cfg, sent, got>>

Feed(e, r) == [e EXCEPT !.incoming = @ \o r.msgs]

\* _read_handshake of the loop: a handshake record is fed to the handshake.
LoopReadHandshake(s) ==
    /\ AtLoop(s, "READ_HANDSHAKE") /\ Incoming(s, "deliver")
    /\ LET r == Head(wire[s])
           e == Opened(ep[s], r)
       IN IF r.type = "handshake"
          THEN Deliver(s, Dispatch(Feed(e, r)))
          ELSE Fail(s, SendAlert(e, "unexpected_message"), Tail(wire[s]))

\* _read_ccs: nothing but a change_cipher_spec will do.
LoopReadCCS(s) ==
    /\ AtLoop(s, "READ_CHANGE_CIPHER_SPEC") /\ Incoming(s, "deliver")
    /\ LET r == Head(wire[s])
           e == Opened(ep[s], r)
       IN IF r.type = "ccs" THEN Deliver(s, Dispatch(e))
          ELSE Fail(s, SendAlert(e, "unexpected_message"), Tail(wire[s]))

\* read(): a handshake record either ends the early data or is a post-handshake message.
ReadHandshakeRecord(s) ==
    /\ ep[s].pc = "open" /\ Incoming(s, "deliver")
    /\ Head(wire[s]).type = "handshake"
    /\ LET r == Head(wire[s])
           e == Feed(Opened(ep[s], r), r)
       IN Deliver(s, IF Done(e)
                     THEN [e EXCEPT !.state = "READ_POST_HANDSHAKE", !.pc = "loop"]
                     ELSE [CloseEarlyData(Assert(e, e.can_read)) EXCEPT !.pc = "loop"])

\* read(): application data, counted against the limit while it is early data.
ReadApplicationData(s) ==
    /\ ep[s].pc = "open" /\ Incoming(s, "deliver")
    /\ Head(wire[s]).type = "appdata"
    /\ LET r == Head(wire[s])
           o == Opened(ep[s], r)
           e == IF s = Server /\ o.can_read THEN [o EXCEPT !.processed = @ + r.data.size] ELSE o
       IN IF s = Server /\ e.can_read /\ e.processed > MaxEarly(e)
          THEN Fail(s, SendAlert(e, "too_much_early_data"), Tail(wire[s]))
          ELSE /\ EndCall(s, e, Tail(wire[s]))
               /\ got' = [got EXCEPT ![s] = Append(@, r.data)]
               /\ UNCHANGED sent

\* Python's data[:cap] for a cap that may be negative
SliceLength(n, cap) ==
    IF cap >= 0 THEN Min2(n, cap) ELSE IF n + cap > 0 THEN n + cap ELSE 0

EarlyCapUncounted(e) == Min2(RecordLimit, MaxEarly(e))   \* mutant
EarlyCap(e) == Min2(RecordLimit, MaxEarly(e) - e.processed)

\* What write() returns, of the n bytes it sent
ReportsAll(e, n) == e.size   \* mutant
Reports(e, n) == n

\* write(), once the handshake is out of the way: truncate, flush, seal, and close
\* the early data when its limit is reached.
WriteApplicationData(s) ==
    /\ ep[s].pc = "write"
    /\ LET e == ep[s]
           early == s = Client /\ e.can_write
           cap == IF early THEN EarlyCap(e) ELSE RecordLimit
           n == IF e.size > cap THEN SliceLength(e.size, cap) ELSE e.size
           data == [size |-> n, n |-> e.writes + 1, early |-> e.wepoch = "ZERO_RTT"]
           w == IF n = 0 THEN FlushHandshake(e)
                ELSE Assert(Write(e, "appdata", "none", data), n <= RecordLimit)
           c == IF early THEN [w EXCEPT !.processed = @ + n] ELSE w
           d == IF early /\ c.processed >= MaxEarly(c) THEN CloseEarlyData(c) ELSE c
       IN /\ EndCall(s, [d EXCEPT !.writes = @ + 1], wire[s])
          /\ sent' = [sent EXCEPT ![s] = IF n = 0 THEN @ ELSE Append(@, [data EXCEPT !.size = Reports(e, n)])]
          /\ UNCHANGED got

Application(s) ==
    \/ CallHandshake(s) \/ CallRead(s)
    \/ \E n \in WriteSizes : CallWrite(s, n)

Connection(s) ==
    \/ Retry(s) \/ ReturnFromHandshake(s)
    \/ LoopStart(s) \/ LoopPackFlight(s) \/ LoopFlushHandshake(s) \/ LoopWriteCCS(s)
    \/ LoopEarlyReturn(s) \/ LoopEndOfEarlyData(s)
    \/ WantRead(s) \/ WriteApplicationData(s)

Receive(s) ==
    \/ LoopReadHandshake(s) \/ LoopReadCCS(s) \/ ReadHandshakeRecord(s) \/ ReadApplicationData(s)
    \/ SkipCCS(s) \/ SkipEarlyData(s) \/ FatalRecord(s)

=============================================================================

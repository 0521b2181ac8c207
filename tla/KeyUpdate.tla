------------------------------ MODULE KeyUpdate ------------------------------
(***************************************************************************)
(* A TLS 1.3 connection after its handshake: writing, reading, updating    *)
(* the traffic keys and closing (TLSConnection.update_key, read, write and *)
(* shutdown in connection.py; send_key_update, _do_process_update_traffic, *)
(* _do_complete_update_traffic and _post_handshake_tls13, which            *)
(* handshake_client.py and handshake_server.py implement alike).           *)
(*                                                                         *)
(* update_key() only queues the KeyUpdate message.  The next read() or     *)
(* write() finds the handshake not done, seals the message under the old   *)
(* key and changes the write key; it leaves with the next flush, which     *)
(* only a write or an alert causes.  A call is one step here: the object   *)
(* is not shared and what a call wrote reaches the peer when it ends.      *)
(***************************************************************************)
EXTENDS Integers, Sequences, FiniteSets

CONSTANTS
    MaxUpdates,   \* bound: calls of update_key() per side
    MaxWrites     \* bound: calls of write() per side

ASSUME BoundsAssumption == MaxUpdates \in Nat /\ MaxWrites \in Nat

VARIABLES
    out,    \* out[s]: the writing half of side s
    in,     \* in[s]: the reading half of side s
    calls   \* calls[s]: the calls of s so far

vars == <<out, in, calls>>

Client == "client"
Server == "server"
Side == {Client, Server}
Peer(s) == IF s = Client THEN Server ELSE Client

\* A record: what it holds, the generation of the key it is sealed with and its number.
\* "update" and "request" are KeyUpdate messages without and with update_requested.
Kinds == {"ticket", "data", "update", "request", "close_notify", "fatal"}
Record(kind, gen, seq) == [kind |-> kind, gen |-> gen, seq |-> seq]
KeyUpdates == {"update", "request"}
Alerts == {"close_notify", "fatal"}

-----------------------------------------------------------------------------

\* A side whose handshake is complete.  gen and seq are the generation of the write key and
\* the next number; line holds the records sealed that the peer has not opened, of which
\* the first "sent" are flushed and the others in _pending_flight; queued is the message
\* in the handshake's outgoing flight.  The server may have tickets it has not flushed.
Writer(state, queued, gen, seq, shut, line, sent) ==
    [state |-> state, queued |-> queued, gen |-> gen, seq |-> seq, shut |-> shut,
     line |-> line, sent |-> sent]
Reader(gen, seq, shut, err) == [gen |-> gen, seq |-> seq, shut |-> shut, err |-> err]

NewWriter(line) == Writer("DONE", "none", 0, Len(line), "NONE", line, 0)
NewReader == Reader(0, 0, "NONE", "none")

Calls(updates, requests, writes) ==
    [updates |-> updates, requests |-> requests, writes |-> writes]

Init ==
    /\ \E tickets \in {<<>>, <<Record("ticket", 0, 0)>>} :
          out = [s \in Side |-> NewWriter(IF s = Server THEN tickets ELSE <<>>)]
    /\ in = [s \in Side |-> NewReader]
    /\ calls = [s \in Side |-> Calls(0, 0, 0)]

\* _seal_record
Seal(w, kind) ==
    Writer(w.state, w.queued, w.gen, w.seq + 1, w.shut,
           Append(w.line, Record(kind, w.gen, w.seq)), w.sent)

Queue(w, state, kind) == Writer(state, kind, w.gen, w.seq, w.shut, w.line, w.sent)
ShutDown(w, how) == Writer(w.state, w.queued, w.gen, w.seq, how, w.line, w.sent)

\* _pack_handshake: what is queued is sealed under the current key.
Pack(w) ==
    IF w.queued = "none" THEN w ELSE Queue(Seal(w, w.queued), w.state, "none")

\* mutant: the key changes and its sequence number goes on
NewWriteKeyOldNumber(w) == Writer("DONE", w.queued, w.gen + 1, w.seq, w.shut, w.line, w.sent)

\* _do_complete_update_traffic
NewWriteKey(w) == Writer("DONE", w.queued, w.gen + 1, 0, w.shut, w.line, w.sent)

\* mutant: the key changes before the message is sealed
DriveKeyFirst(w) == IF w.state = "DONE" THEN w ELSE Pack(NewWriteKey(w))

\* do_handshake, in the state PROCESS_UPDATE_TRAFFIC: pack, then change the key.
Drive(w) == IF w.state = "DONE" THEN w ELSE NewWriteKey(Pack(w))

\* _write, on a side that is not shut down: flush what is queued or pending, seal, send.
SendAll(w) == Writer(w.state, w.queued, w.gen, w.seq, w.shut, w.line, Len(w.line))
Write(w, kind) == SendAll(Seal(Pack(w), kind))

Usable(s) == in[s].err = "none"

-----------------------------------------------------------------------------

\* TLSConnection.update_key: refused (ValueError) unless the state is DONE.
UpdateKey(s, kind) ==
    /\ Usable(s) /\ calls[s].updates < MaxUpdates
    /\ out[s].state = "DONE"
    /\ out' = [out EXCEPT ![s] = Queue(@, "PROCESS_UPDATE_TRAFFIC", kind)]
    /\ calls' = [calls EXCEPT ![s] =
                    Calls(@.updates + 1, @.requests + (IF kind = "request" THEN 1 ELSE 0),
                          @.writes)]
    /\ UNCHANGED in

\* TLSConnection.do_handshake, or a read() that finds nothing to read.
DoHandshake(s) ==
    /\ Usable(s) /\ out[s].state # "DONE"
    /\ out' = [out EXCEPT ![s] = Drive(@)]
    /\ UNCHANGED <<in, calls>>

\* mutant: data is written after shutdown()
WriteDataShut(s) ==
    /\ Usable(s) /\ calls[s].writes < MaxWrites
    /\ out' = [out EXCEPT ![s] = Write(Drive(@), "data")]
    /\ calls' = [calls EXCEPT ![s] = Calls(@.updates, @.requests, @.writes + 1)]
    /\ UNCHANGED in

\* TLSConnection.write: after shutdown() it raises TLSEOFError, with the handshake driven.
WriteData(s) ==
    /\ Usable(s) /\ calls[s].writes < MaxWrites
    /\ out' = [out EXCEPT ![s] = IF out[s].shut = "NONE" THEN Write(Drive(@), "data")
                                                         ELSE Drive(@)]
    /\ calls' = [calls EXCEPT ![s] = Calls(@.updates, @.requests, @.writes + 1)]
    /\ UNCHANGED in

\* mutant: shutdown() changes the write key whether or not it packed a KeyUpdate
CloseNotifyNewKey(s) ==
    /\ Usable(s) /\ out[s].shut = "NONE"
    /\ out' = [out EXCEPT ![s] = ShutDown(SendAll(Seal(NewWriteKey(Pack(@)), "close_notify")),
                                         "CLOSE_NOTIFY")]
    /\ UNCHANGED <<in, calls>>

\* TLSConnection.shutdown: does not drive the handshake.
CloseNotify(s) ==
    /\ Usable(s) /\ out[s].shut = "NONE"
    /\ out' = [out EXCEPT ![s] = ShutDown(Write(@, "close_notify"), "CLOSE_NOTIFY")]
    /\ UNCHANGED <<in, calls>>

Opens(r, m) == m.gen = r.gen /\ m.seq = r.seq

\* _send_alert, fatal
FatalAlert(w) ==
    IF w.shut = "NONE" THEN ShutDown(Write(w, "fatal"), "ERROR") ELSE w

\* mutant: the answer to a request is forgotten
AnswerNothing(w, m) == w

\* An update_requested is answered: the answer is sealed and the write key changed; it is
\* flushed with what is written next.
Answer(w, m) ==
    IF m.kind = "request" THEN NewWriteKey(Pack(Queue(w, w.state, "update"))) ELSE w

\* What reading makes of a record it can open: a KeyUpdate changes the read key.
Opened(r, m) ==
    IF m.kind \in KeyUpdates THEN Reader(r.gen + 1, 0, r.shut, r.err)
    ELSE IF m.kind = "close_notify" THEN Reader(r.gen, r.seq + 1, "CLOSE_NOTIFY", r.err)
    ELSE IF m.kind = "fatal" THEN Reader(r.gen, r.seq + 1, "ERROR", "remote_alert")
    ELSE Reader(r.gen, r.seq + 1, r.shut, r.err)

BadRecord(r) == Reader(r.gen, r.seq, r.shut, "bad_record_mac")

\* A record of the peer is in the incoming BIO, and not only in its _pending_flight.
ArrivedUnflushed(s) == out[Peer(s)].line # <<>>   \* mutant
Arrived(s) == out[Peer(s)].sent > 0

\* The peer's half without the record that was read
Taken(w) == Writer(w.state, w.queued, w.gen, w.seq, w.shut, Tail(w.line), w.sent - 1)

\* TLSConnection.read, one record of it: drive the handshake, open the record, handle it.
\* After a KeyUpdate read() goes on to the next record.
Read(s) ==
    /\ Usable(s) /\ in[s].shut = "NONE" /\ Arrived(s)
    /\ LET m == Head(out[Peer(s)].line)
           w == Drive(out[s])
           opens == Opens(in[s], m)
       IN /\ in' = [in EXCEPT ![s] = IF opens THEN Opened(@, m) ELSE BadRecord(@)]
          /\ out' = [out EXCEPT ![s] = IF opens THEN Answer(w, m) ELSE FatalAlert(w),
                                ![Peer(s)] = Taken(@)]
          /\ UNCHANGED calls

Next ==
    \E s \in Side :
        \/ \E kind \in KeyUpdates : UpdateKey(s, kind)
        \/ DoHandshake(s)
        \/ WriteData(s)
        \/ CloseNotify(s)
        \/ Read(s)

Spec == Init /\ [][Next]_vars

-----------------------------------------------------------------------------
(* What the two ends promise each other.                                   *)

Shutdowns == {"NONE", "CLOSE_NOTIFY", "ERROR"}
RecordType == [kind : Kinds, gen : Nat, seq : Nat]
WriterType ==
    [state : {"DONE", "PROCESS_UPDATE_TRAFFIC"}, queued : {"none"} \cup KeyUpdates,
     gen : Nat, seq : Nat, shut : Shutdowns, line : Seq(RecordType), sent : Nat]
ReaderType ==
    [gen : Nat, seq : Nat, shut : Shutdowns, err : {"none", "bad_record_mac", "remote_alert"}]

\* Both halves of both sides are of their types, and no more is flushed than was sealed.
TypeOK ==
    /\ out \in [Side -> WriterType]
    /\ in \in [Side -> ReaderType]
    /\ calls \in [Side -> [updates : Nat, requests : Nat, writes : Nat]]
    /\ \A s \in Side : out[s].sent <= Len(out[s].line)

Active(r) == r.err = "none" /\ r.shut = "NONE"

\* The key generation and number after record m are gen and seq.
Follows(m, gen, seq) ==
    IF m.kind \in KeyUpdates THEN gen = m.gen + 1 /\ seq = 0
                             ELSE gen = m.gen /\ seq = m.seq + 1

\* The line of a writer w leads from what the reader r expects to what w seals next.  Only
\* a close_notify may break the chain.
HeadOpens(w, r) ==
    (Active(r) /\ Len(w.line) > 0 /\ w.line[1].kind # "close_notify") => Opens(r, w.line[1])
Linked(w) ==
    \A i \in 1..(Len(w.line) - 1) :
        (w.line[i].kind \notin Alerts /\ w.line[i + 1].kind # "close_notify")
            => Follows(w.line[i], w.line[i + 1].gen, w.line[i + 1].seq)
LastLeads(w) ==
    (Len(w.line) > 0 /\ w.line[Len(w.line)].kind \notin Alerts)
        => Follows(w.line[Len(w.line)], w.gen, w.seq)
EmptyMeets(w, r) == (Len(w.line) = 0 /\ Active(r)) => (r.gen = w.gen /\ r.seq = w.seq)

\* The writer's shutdown is told by an alert on its way, or the reader has met it.
AlertOnItsWay(w, r) ==
    /\ (w.shut # "NONE" /\ Active(r)) => \E i \in 1..Len(w.line) : w.line[i].kind \in Alerts
    /\ \A i \in 1..Len(w.line) : w.line[i].kind \in Alerts => w.shut # "NONE"
    /\ \A i \in 1..Len(w.line) : w.line[i].kind = "close_notify" => w.shut = "CLOSE_NOTIFY"
    /\ ~Active(r) => w.shut # "NONE"
    /\ r.err = "bad_record_mac" => w.shut = "CLOSE_NOTIFY"

\* A KeyUpdate is queued only in the state PROCESS_UPDATE_TRAFFIC; if it was flushed before
\* the key changed, a close_notify went with it and is the last record.
UpdateInHand(w) ==
    /\ w.queued # "none" => w.state # "DONE"
    /\ (w.state # "DONE" /\ w.queued = "none") =>
          w.shut # "NONE" /\ (Len(w.line) > 0 => w.line[Len(w.line)].kind \in Alerts)

Chain(w, r) ==
    /\ HeadOpens(w, r)
    /\ Linked(w)
    /\ LastLeads(w)
    /\ EmptyMeets(w, r)
    /\ AlertOnItsWay(w, r)
    /\ UpdateInHand(w)

\* Each direction is a chain of keys from what its reader expects to what its writer seals
\* next (_derive_upd_secret_tls13 on both sides): with TypeOK, an inductive invariant.
ChainInvariant == \A s \in Side : Chain(out[s], in[Peer(s)])

\* However updates of both sides, their answers, writes and shutdown() interleave, the only
\* record a side cannot open is a close_notify directly behind a KeyUpdate, sealed under the
\* key that the KeyUpdate retired: update_key() was called and no read, write or handshake
\* before shutdown().  A side whose updates are complete has its close_notify read.
CloseFailsOnlyBehindUpdate ==
    [][\A s \in Side :
          (in[s].err = "none" /\ in'[s].err = "bad_record_mac") =>
              LET m == Head(out[Peer(s)].line)
              IN m.kind = "close_notify" /\ in[s].gen = m.gen + 1 /\ in[s].seq = 0]_vars

Requests(w) ==
    Cardinality({i \in 1..Len(w.line) : w.line[i].kind = "request"})
        + (IF w.queued = "request" THEN 1 ELSE 0)

\* A side changes its write key once for each of its own updates and once for each request
\* of its peer that it has read: no request is dropped or answered twice.
RequestsAnswered ==
    \A s \in Side :
        out[s].gen + (IF out[s].state = "DONE" THEN 0 ELSE 1)
            = calls[s].updates + calls[Peer(s)].requests - Requests(out[Peer(s)])

\* The connection seen as a channel: keys, numbers and what is flushed left out
Item(m) ==
    IF m.kind = "data" THEN "data" ELSE IF m.kind \in Alerts THEN "end" ELSE "control"
Flight(w) == [i \in 1..Len(w.line) |-> Item(w.line[i])]
Reading(r) == IF r.err # "none" THEN "failed" ELSE IF r.shut # "NONE" THEN "ended" ELSE "open"

Channel ==
    INSTANCE SecureChannel WITH
        flight <- [s \in Side |-> Flight(out[s])],
        shut <- [s \in Side |-> out[s].shut # "NONE"],
        reading <- [s \in Side |-> Reading(in[s])]

\* update_key, its answers and when anything is flushed are invisible: the connection is a
\* channel in which data is read in the order it was written and reading ends, or fails,
\* only at an alert.
ImplementsChannel == Channel!Spec

\* pyssl/_object.py: unwrap() is to "Start the SSL shutdown handshake", so the peer of a
\* side that closes reads its close_notify.
CloseNotifyIsRead == \A s \in Side : in[s].err # "bad_record_mac"

=============================================================================

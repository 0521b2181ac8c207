# Verification of simple-tls

TLA+ models of [simple-tls](../src/README.md), a TLS 1.0–1.3 implementation in Python, with
TLC runs on small instances and TLAPS proofs. Paths below are relative to
`src/src/simple_tls/`.

## 1. The system

### Parts, state and operations

| part | state | operations |
|---|---|---|
| `tls/connection.py` `TLSConnection` | incoming and outgoing BIO, read and write `ConnectionState` (key, sequence number), `_pending_flight` (sealed, not flushed), `_handshake_status`, two shutdown states, early-data counters | `do_handshake`, `read`, `write`, `shutdown`, `update_key`, `bio_read`, `bio_write` |
| `tls/handshake.py` `TLSHandshake` | state of the state machine, `_incoming_data`, `_outgoing_messages` (not sealed), transcript, key schedule, secrets per epoch, early-data flags | `do_handshake` dispatches one handler per state; `feed_data`, `_add_message`, `_setup_traffic*`, `close_early_data`, `_verify_x509` |
| `tls/handshake_client.py`, `tls/handshake_server.py` | key shares, pre-shared keys, offered session, ECH context with its inner transcript, peer parameters | 20 TLS 1.3 handlers and as many TLS 1.0–1.2 handlers each, post-handshake messages |
| `tls/utils.py` | `Transcript`, `KeySchedule` | hash, extract, derive; SAN and EKU validators |
| `tls/session.py`, `pyssl/_session.py` | `TLSSession`: secret, ticket, time and timeout, early-data limit, peer certificates; `TicketAEAD`: the tickets sealed; `SSLSession` | copy, rebase, renew, serialize; seal, open |
| `crypto/verification.py` | queue of chains and set of pairs seen, during one call | breadth-first search for chains, validation of a chain, extension policies |
| `pyssl/_socket.py` `SSLSocket` | `_sslobj`, `_pending_write` | `_drive_tls`, `_tls_send`, `_tls_recv`, `read`, `write`, `do_handshake`, `unwrap` |
| `pyssl/_object.py`, `_context.py` | wrappers and configuration | |
| `tls/cipher.py`, `key.py`, `keyexchange.py`, `messages.py`, `extensions.py`, `crypto/*`, `ext/*` | none that outlives a call | cryptography and codecs |

A handler never touches the record layer: it returns a `Status` and `TLSConnection.do_handshake`
acts on it (`PACK_FLIGHT` seals what is queued, `FLUSH_HANDSHAKE` also sends it,
`READ_HANDSHAKE` opens a record, `READ_CHANGE_CIPHER_SPEC`, `WRITE_CHANGE_CIPHER_SPEC`,
`EARLY_RETURN` and `READ_END_OF_EARLY_DATA` leave the loop for 0-RTT data). Key changes are the
exception: a handler installs them directly (`_setup_traffic`), which is why the order of statuses
and key changes matters. When no complete record is there a call raises `TLSWantReadError`; the
status is kept and the same or another call continues from it.

### What is hard

* **Order of sealing and key changes.** Messages wait in two queues (`_outgoing_messages`,
  `_pending_flight`), the first not yet sealed, the second sealed and not sent; below TLS 1.3 a
  ChangeCipherSpec record stands between two keys.
* **Two state machines that depend on flags** (version, resumption, retry, early data accepted or
  not, client authentication, extensions) and must take the same branch.
* **Encrypted client hello**: two transcripts until the server's confirmation says which one counts.
* **0-RTT**: application data passes before the handshake is complete, the server discards
  what it does not accept, limits are counted on both sides.
* **Re-entry** after `TLSWantReadError`, from `read`, `write` or `do_handshake`.
* **Key updates** of both sides crossing each other and a shutdown.
* **Tickets** that arrive late or after those of a newer connection, lifetimes by two clocks,
  renewals, a server that restarts.
* **Chains of certificates** that are cross-certified, renewed or circular, cut by a depth limit
  and by a set of pairs already seen.
* **Sockets** that take part of a record, block, or time out.

The library has no threads, and its only memory beyond a connection is the server's
`TicketAEAD`; TCP neither loses nor reorders what it delivers.

## 2. Modules

| module | models |
|---|---|
| `TLSConnection` | record layer, `do_handshake` loop, `read`/`write`, `TLSHandshake` helpers, the byte stream between the two ends |
| `TLSClient`, `TLSServer` | the handlers every version shares: hellos, versions, encrypted hello, early data, the end of the handshake |
| `TLS13Client`, `TLS13Server` | one action per TLS 1.3 handler |
| `TLS12Client`, `TLS12Server` | one action per handler of TLS 1.0–1.2 |
| `TLSHandshake` | composition of the seven; properties of the handshake |
| `MCTLSHandshake` | slices of the configuration space for TLC |
| `KeyUpdate` | a connection after its handshake: data, key updates, shutdown |
| `SecureChannel` | what such a connection promises, without keys; `KeyUpdate` implements it |
| `KeyUpdate_proofs` | the theorems about `KeyUpdate`: keys in step, which close_notify fails to open, the answers to requests, the refinement of `SecureChannel` |
| `Sessions`, `MCSessions` | sessions and tickets over several connections, two clocks, restarts |
| `Verification`, `MCVerification` | building and validating certificate chains; certificates for TLC |
| `SocketDriver` | `SSLSocket` over a socket |
| `Sessions_proofs`, `SocketDriver_proofs` | the theorems about these components |
| `Verification_proofs` | that a chain that is trusted is a valid one; that a valid one is found, and a shortest first |
| `TLSHandshake_proofs` | what every handler and step of the handshake leaves alone, and the end of the skipping of early data |
| `TLSHandshake_nonces` | no key and sequence number of the handshake's records is used twice |
| `TLSHandshake_appdata` | the keys application data is sealed under, and the limit of early data |
| `TLSHandshake_auth` | that a completed handshake has authenticated the peer |

### The handshake

`ep[s]` is the `TLSConnection` of side `s` with its `TLSHandshake`; fields have the names of the
attributes where possible (`incoming` = `_incoming_data` by messages, `outgoing` =
`_outgoing_messages`, `pending` = `_pending_flight`, `outbio`, `wstate`/`rstate`,
`can_write` = `_can_early_write`, `inner` = `_inner_transcript`, `processed`, `ignored`, ...). `ok`
becomes false when an `assert` of the code fails; `err` is the alert that ended the connection. `pc`
says where in a call the side is: `loop` (acting on the status), `dispatch` (in the handshake's
handlers), `open` (`read` opening records), `write`, `return`. A step is one handler, one loop
iteration or one record; steps of the two sides interleave freely. What a call wrote to the
outgoing BIO is handed to the stream when the call ends; a record may be late, which is the
`WantRead` step that is possible whenever a record is wanted, also with records in `wire`.

A handler's checks are a list of (condition, alert) in the order of the code (`Checked`), then its
effect and the `Status` it returns (`Yield`).

Abstractions. A **key** is the term (label, key schedule or master secret, transcript) it is derived
from, so two ends hold the same key exactly if they derived it alike; a record opens if key and
sequence number match. **Verify data**, binders, signatures and the ECH confirmation are the key and
transcript they cover. A **message** is its type and the extensions the handlers branch on; an
**encrypted hello** is a field of the outer hello with the configuration, the HPKE sequence number
and the inner hello. **Versions** are 11 (all below TLS 1.2, which differ in the record layer only),
12 and 13. **Cipher suites** are their key exchange, ECDHE, DHE or RSA, with or without a certificate.
**Certificates** are good, bad or missing here (`Verification` is about what makes them so); the
client always verifies. The client's key shares are one group `g1`, and `cfg.hrr` makes the server
prefer `g2`. `cfg.split` puts every message of a flight in a record of its own (a flight longer than a
record), otherwise a flight is one record. A ticket is good (the server decrypts it), unknown or
absent. Both sides share the ALPS, ALPN and NPN configuration and a PSK mode. Alerts and errors that
only a malformed message provokes are left out; the wrong-type, trailing-data and failed-proof
paths are in.

### KeyUpdate and SecureChannel

`out[s]` and `in[s]` are the two halves of a side; keys are generations. `line` holds the records
sealed and not opened by the peer, in order, of which `sent` are flushed and the rest are in
`_pending_flight`. A call is one step, except that `Read` is one record of `read()`. Both
handshake classes implement the handlers alike.

`SecureChannel` has a queue of items per direction: data, control items nobody notices and an end,
the only item at which reading may end or fail. The mapping forgets keys, numbers, the queue of
the handshake and what is flushed (`Flight`, `Reading`).

### Sessions

`store` is the dictionary of `TicketAEAD`, `kept` the `SSLSession` the application offers next, and
`conn[c]` one connection, whose handshake is five steps: offer, select, read the ServerHello, send
tickets, read tickets. A ticket of an older connection may be read after one of a newer connection.
`now` is real time in half seconds, so that truncation to whole seconds shows; `lag[s]` is the clock
error of a side. Durations keep the order of the code's (renewal 100 s < 7200 s < a day) and not
their ratio. `Restart` empties `TicketAEAD` and ends the server's handshakes; `SetBack` sets a
clock back.

### Verification

`PopChain`, `SkipIssuer` and `TryIssuer` are the loops of `_candidate_chains`, `AcceptLink`,
`RefuseLink` and `VerifyLeaf` those of `_verify_chain`; a generator that yields is the
change of `result` from `searching` to `verifying` and back. A certificate is a record of what the
code looks at, a signature the key that made it. What the answer is to mean is stated on its own,
over paths in the graph of the certificates (`AnchoredPaths`, `Valid`). What the search may miss depends
on names: `seen_sigpairs` remembers pairs of a name and a certificate, not paths. `Unambiguous` is
the condition under which that loses nothing: certificates of one name differ in their serial numbers,
hold one key, are fit to issue, and have one issuer that signed them all, or else no certificate has a fault.

### SocketDriver

One step per socket call and per call of the TLS object. The TLS object is reduced to flights
(each answered by the peer), data, alerts and end of stream; a record is two bytes. The
socket holds `SendBuffer` bytes and is blocking, non-blocking or has a timeout. `socket.send`
taking nothing without an error does not happen for non-empty data and is left out.

## 3. Runs

| run | instance | result |
|---|---|---|
| `full` | full handshakes: TLS 1.3 and TLS 1.2 with every combination of certificates and extensions, 16 pairs of version ranges, encrypted hellos | `AssertionsHold`, `OnlyPolicyFailures`, `AlertsAreUnderstood`, `Agreement`, `Authentication` hold |
| `early` | resumption in 1.2 and 1.3, 0-RTT, one or two writes per side of 1 or 3 bytes, limit 3; blocking and non-blocking applications | `TypeOK`, `OnlyPolicyFailures`, `Agreement`, `NonceUniqueness`, `DataIntegrity`, `AppDataEpochBlocking`, `EarlyDataLimit`, `SkippingEnds` hold |
| `live` | 68 configurations of every kind, fair | `CompatibleCompletes`, `FailureIsShared` hold |
| `keyupdate` | two updates and a write per side, shutdowns | `TypeOK`, `ChainInvariant`, `RequestsAnswered`, `CloseFailsOnlyBehindUpdate` hold; `ImplementsChannel`: it refines `SecureChannel` |
| `sessions` | three connections, 3 seconds, one fault | seven properties hold |
| `chain` | leaf, two intermediates certified several ways, two roots, one defect | `TypeOK`, `Sound`, `Complete`, `ShortestFirst`, `UnknownCaIsNoPath`, `Terminates` hold |
| `socket` | all three kinds of socket, 3-byte buffer, 2-byte records, a peer that may send a bad record, close or end | seven properties hold |
| `version` | client of 1.1–1.3, server of 1.1 | `VersionsAgree` fails |
| `stale_early_write` | 0-RTT rejected, non-blocking | `AppDataEpoch` fails |
| `close_after_update` | `update_key()`, `shutdown()` | `CloseNotifyIsRead` fails |
| `path_len` | the certificates of `chain` | `PathLengthRespected` fails |
| `socket_timeout` | socket with a timeout | `StreamIntact` fails |

**Bounds.** Handshakes are finite, so only writes, updates, connections and peer data are bounded.
Two writes per side allow one before and one after the moment early data ends, and a second that
meets the limit; sizes 1 and 3 with limit 3 reach it exactly, exceed it and stay below;
`RecordLimit = 8` keeps skipped early data within its budget. The configurations of `full` and
`early` leave out the cases that the violation runs show (a server below TLS 1.2 with a client above
it, rejected early data with a non-blocking application). Two updates per side let a side's own
update cross an answer it owes. In `sessions` two connections after the first let one resume a
resumed session while tickets of both are under way; six ticks pass the longest timeout (six) and the
renewal, and one tick of waiting is half a second, enough to cross a second. A 3-byte socket buffer and
2-byte records let every record be cut. The certificates of `chain` have paths of up to four issuers, two
certificates for one name, a renewed key, circles of two, ways up that part and meet again, and depth
limits from 3 to 6.

**Fairness.** `live`: a call once made runs on (weak, the code is a loop), what was sent arrives
in the end (strong on `Receive`, because an early attempt may find the record incomplete any
finite number of times), and both applications keep calling `read`, which drives the handshake
(strong, since a call makes the next one impossible until it ends). Nobody has to write.
`chain`: `verify` runs by itself (weak). `socket`: the driver runs on, the network delivers and the
peer answers (weak), and the application calls `do_handshake` again when a call gave up (strong).

Deadlock is checked for the handshake (`Terminated` is the only allowed end: both sides done or
failed). The other models may stop: applications need not call anything more, time and
connections are bounded, and a search ends.

**Mutants.** Operators marked `mutant` are plausible bugs (a flight not packed, a sequence number
not reset, a missing flush, an issuer's signature not checked, a session renewed in full); replacing
the original by one breaks the property it is listed for in `PROJECT.json`.

**What is accepted as a failure of configuration.** `OnlyPolicyFailures` requires compatible
configurations to succeed and names the alerts of the others. Three of them are no
mismatch of the two applications' wishes: a TLS 1.2 server whose `TicketAEAD` returns `None` after
the ticket was promised (`UnkeptPromise`), early data sent to a server that has gone back to
TLS 1.2 (`EarlyDowngrade`), and a session with the extended master secret offered by a client that
no longer offers it (`LosesEMS`, which RFC 7627 demands to fail).

### What the failing runs show

1. *Version of the ServerHello* (`handshake_server.py:615`). Below TLS 1.3 the server answers with the
   legacy version of the ClientHello. A client of several versions up to 1.3 names 1.2 there, and
   a server that stops at TLS 1.1 continues with 1.1 while the client settles on 1.2.
2. *Rejected 0-RTT leaves early writing open* (`handshake_client.py:1421`). The client
   installs the handshake write key but `can_early_write` stays true. A non-blocking
   application that writes before the handshake is complete sends its data under the handshake key.
3. *`shutdown()` after `update_key()`* (`connection.py:334`): the close_notify is sealed
   under the key the peer has just dropped.
4. *Path length* (`verification.py:388`): the count is compared before the child is added, so each
   constraint admits one intermediate too many.
5. *Timeouts* (`_socket.py:639`): `TimeoutError` is not a `BlockingIOError`; the rest of the record is lost.

### Observations without a run of their own

* *Negative early-data bound* (`connection.py:281-287`). From the moment the session is replaced
  (`handshake_client.py:1307`, the copy has no `ticket_max_early_data`), `max_early_data` is 0 and the
  slice bound `0 - processed` negative: a long write of a non-blocking application trips the
  assertion at line 562, a shorter one is cut, and the ticket's limit no longer binds.
* *Skipping budget* (`connection.py:771`): one record limit of ciphertext, against a default ticket
  limit of 0xFFFF; a client that stayed within its ticket may have its connection ended.
* *Repeated writes* (`_socket.py:605`): on a non-blocking socket `SSLWantWriteError` means both "not
  taken" and "taken, not yet sent"; a repeated write sends the data twice. At line 601 it replaces
  the `SSLError` of a failed call.
* *Ambiguous names* (`verification.py:338`): where several certificates bear one name, the pair seen
  first hides the same pair behind another certificate; if the first path through it is refused, a
  valid path may never be tried. That takes no forged certificate: with N1 issued by P and N2, of the same
  name and key, by S, and P and S both certified by D, the chain through P goes on from D to the anchor
  first. If P has expired that chain is refused, but the pair of D and the anchor is seen, and the valid
  chain through S ends at D. `Complete` and `ShortestFirst` are stated for `Unambiguous` certificates.
* *Validators* (`utils.py:370`, `handshake.py:1069`): an IP address in no entry is not refused; what a
  validator raises is no `VerificationError` and ends the search, although another chain of the
  same leaf could only be refused for the same reason.
* *Anchors* are not checked for their own validity period.
* *TLS 1.2 tickets* (`handshake_client.py:1030`): the client does not look at the lifetime of the ticket.
* *Server tickets* do not carry the client's certificate: on the server a resumed session has no
  `peer_cert`.
* `_decrypt_session` (`handshake_server.py:1974`) leaves its local `session` unbound if a ticket
  decrypts and does not parse.

## 4. Proofs

TLC checks the instances of section 3; the theorems below hold for every value of the constants.
Each rests on an inductive invariant `Inv` that TLC checked first on the instance of the run, on
one lemma per action that keeps it, and on lemmas about the operators the actions are made of.

### KeyUpdate

`KeyUpdate_proofs`: `TypeCorrect` (`TypeOK`), `ChainsHold` (`ChainInvariant`), `OnlyRetiredCloseFails`
(`CloseFailsOnlyBehindUpdate`). That the next record opens depends on every record before it.
`ChainInvariant` says for each direction that the first record in line is what
the reader expects (`HeadOpens`), that consecutive records follow each other with a new
generation after a KeyUpdate (`Linked`), that the last leads to the writer's current key
(`LastLeads`), or that reader and writer meet when the line is empty (`EmptyMeets`), and that only a
close_notify breaks the chain (`AlertOnItsWay`, `UpdateInHand`). With `TypeOK` it is
inductive. The lemmas follow the operators: what sealing, packing, driving, writing, closing,
answering and taking do to a writer and its chain; `WriterStep` and `ReadStep` put them together for an
action, `NextStep` for a step.

`ChainInvariant` leaves open which close_notify fails. `CloseInv` adds it: a close_notify follows the
record before it, or stands directly behind a KeyUpdate under the same key (`CloseLinked`), so at
the head of the line it opens or is under the key the reader has just given up (`CloseMeets`).
`ShutdownCloses` is where `shutdown()` packs a queued KeyUpdate and seals without driving the
handshake. A side whose updates are complete before `shutdown()` has its close_notify read.

Also there, `EveryRequestAnswered` (`RequestsAnswered`). A writer's generation is the number
of updates it made and of requests it has answered; the requests not answered yet are counted
by `Requests` over the line and the queue, which the lemmas follow through sealing, flushing
and reading.

The last part of the module is `Refinement`, that every behaviour is one of `SecureChannel` under the
mapping of `ImplementsChannel`. The initial states are mapped and every action is a step of the
channel or a stutter; that a reader which fails has met an end is where `ChainInvariant` is used.

### SocketDriver

`SocketDriver_proofs`: `TypeCorrect`, `OnlyTimeoutLoses`, `NoCiphertextLost` (`CiphertextConserved`),
`AssertionHolds` (`NothingPending`), `AlertBeforeError` (`FailureIsTold`), `EveryWriteOnce`
(`BlockingWritesOnce`), for any size of the socket's buffer and any number of flights, writes and
records of the peer. The invariant says what is where in every phase of a call: outside `_tls_send`
no ciphertext is in the driver's hands but `_pending_write`, and when the TLS object is called not
even that (`AtRest`); a call at hand has no result yet (`AtWork`). Each action's lemma shows that
it also leaves the stream unbroken (`Conserves`), except for a full socket with a timeout. So
`OnlyTimeoutLoses` holds of every kind of socket: only a `TimeoutError` raised with data in hand can
break the stream. `NoCiphertextLost` follows for sockets without a timeout; for the others run
`socket_timeout` shows the loss. For the writes a second invariant
orders the data made, the data reported and the call at hand (`Ordered`, by the phase of the call),
which is what makes "at most once" inductive.

### Verification

`Verification_proofs`: `TypeCorrect` (`TypeOK`), `TrustIsSound` (`Sound`), for every set of certificates, also
with circles and repeated names. The invariant says of every chain in the queue that it starts at
the leaf, that each certificate is a possible issuer of the one before, that it is within the
depth and, where it is complete, ends at an anchor (`QueueInv`); of the chain being verified that its
links up to the one at hand are valid (`VerifyInv`); and of an answer that it is valid throughout.
`InputsAssumption` states what a call is: sequences of certificates, a positive depth
(`verification.py:244` raises `ValueError` otherwise), times and path lengths that are integers.

In the second half of the module: `ValidPathIsTrusted` (`Complete`), `ShortestIsTrusted` (`ShortestFirst`) and
`UnknownCaMeansNoPath` (`UnknownCaIsNoPath`), that the search, which does not look at every path, misses none that
matters. Where serial numbers differ, the search by chains is one by certificates (`Seen`): each is come to
once. Two invariants make it a breadth-first search of the graph. `ClosedInv`: what a certificate that was found
leads to has been found or waits to be tried (`Waits`: in the queue, in the chain being verified,
or among the issuers left of the chain at hand). `LevelInv`: the ends of all paths no longer than the
chain at hand have been found. When the first chain of the next length is popped nothing waits for
shorter ones (`OrderInv`), which closes the level (`LevelDone`). So an empty queue means that the end of
every path was found (`AllFound`), and `unknown_ca` that none of them was an anchor (`AnchorInv`). For the other
two theorems `ValidInv` says that the chain that first came to the end of a valid path is being verified, or
trusted, and is no longer than the path. It is kept because no link of that chain is refused
(`ValidTransfers`): place by place it has the path's certificates or others of the same name and key that are fit
(`SamePlaces`), and the code's count of issuers below is no more than the one the path length bounds
(`CountInv`, `CountShift`: the leaf may be counted, but the child at hand is not).

`PathsTo` is a recursive function, so these proofs need induction over numbers. The
library's induction rules are of no use here, since none of the installed provers can instantiate their
operator parameter; `LeastNumber` gets it from the library's theorem that `<` is well founded on `Nat`, and
`CountingUp` states it for sets of numbers. `PathsToUnfolds` shows from it that the function exists, without
which a recursive definition says nothing.

### Sessions

`Sessions_proofs`: `TypeCorrect` (`TypeOK`), `ResumptionSecretsAgree` (`SecretsAgree`), `IdentitySurvives`
(`IdentityKept`) and the action properties `ServerKeepsToLifetime` (`ServerHonoursLifetime`),
`ClientKeepsToLifetime` (`ClientHonoursLifetime`) and `RenewalIsBounded` (`RenewalBounded`), for any
number of connections, any time and clocks, any faults and any set of `Kinds`. The invariant ties every
session of the client, kept or offered, to the ticket it came with (`SealedIn`), every ticket to the bytes
sealed in it (`Told`: sealed no later than it was sent, for no longer than was told), the tickets in
flight to their nonces (`FlightInv`), and the client's session of a resumption to what it offered
(`Bounded`). The store only grows, so what was tied once stays tied (`InvGrows`).

### TLSHandshake

`TLSHandshake_proofs`: `SkippingEndsHolds` (`SkippingEnds`), for all configurations of `Configs`, all limits and
write sizes, and any order of calls, records and handlers. An endpoint has some sixty fields and there
are some eighty handlers and steps, so the proof starts from frames: one lemma per operator that
names the fields it may change (`Frame`), and one per handler that names the fields of the core
(`Core`: write state, keys, early data, resumption) it changes, the key it derives (`Derived`) or installs
(`Installed`) and the state it moves to (`Moves`, `Turn`), or that it raises an alert with the core as it was (`Raises`).
The invariant `SkipInv` says that a server skips records (`skip_early`) only in the states between its
answer to the hello and the client's Finished, with early data rejected and no message in hand
(`SkipsRejected`), and that early data is open to the application only while the server waits for the end
of what it accepted (`OpensAccepted`). `SkippingEnds` alone is not inductive: that the skipping is over
when the client's Finished is handled follows from a message being in hand, and the first message to
arrive ends it (`Opened`).

`TLSHandshake_nonces`: `NonceUniquenessHolds` (`NonceUniqueness`), in the same generality, from the same lemmas about
the handlers. A record takes the number of the write state and moves it on, wherever in the flight it
is put (`InsertClear`), and the network takes records away (`TailClear`); what is left to exclude is that a
key is installed again, with its count at zero, after something was sealed under it. `NonceInv` bounds the
labels of the keys a side may have used, in flight or current, by the state of its handshake (`Labels`), and
the labels of the keys it has derived by their epochs (`Derivable`). Each handler that installs a key
moves to a state whose labels include the new one, and the new one is not among the labels of the
state it left. `NonceUniqueness` alone is not inductive, and three facts are needed that are not about keys:
the client takes its early data for accepted only from the EncryptedExtensions on (`Stage`), since that
decides whether its handshake key is installed before or after the server's Finished; a resumption puts
the server's TLS 1.2 Finished before the client's, so the labels depend on `reused`; and a TLS 1.2 client
installs its key at the change_cipher_spec and once more at its Finished, which is harmless only because
nothing is sealed under it in between (`Switching`). On the
instances of `early` and `full` TLC finds `NonceInv`, given to it as an invariant, true in every state.

`TLSHandshake_appdata`: `AppDataEpochBlockingHolds` (`AppDataEpochBlocking`) and `EarlyDataLimitHolds`
(`EarlyDataLimit`), in the same generality. Both are false of a non-blocking application (finding 2 of
section 3 and the negative bound among the observations), so the proof has to say what a
*blocking* one does that keeps it safe. A client may write while early data is open; the ServerHello
replaces its key while `can_early_write` may still be true. What saves it is that this happens inside a call that
is not `write()`, and that a blocking application repeats that call until the handshake is complete: as long
as early writing is open before the last states, the early key is in use with the limit of the offered
session, or the client is bound to another call (`Committed`, in `ClientApp`); and a `write()` that enters
`do_handshake` comes out of it early (`Entering`). A server writes only after it has installed its
application key (`ServerApp`). `KeysInv` says by the state of the handshake when the key in use is an
application key (`Keyed`) and when one is derived that a later handler will install (`Derives`); again
`reused` decides the order below TLS 1.3. The records themselves are followed as in `TLSHandshake_nonces`: nothing that is
packed, flushed, put before a ChangeCipherSpec or lost makes application data of another key (`Proper`,
`Tidy`). For the limit, `Counted` says that until the handshake ends the client has counted all it sent
(`processed`) and the count is within the limit; `SliceFits` is the arithmetic of the slice `write()` takes.
`EarlySent` is a recursive sum, so that a step adds the size of what it sends needs induction over
numbers (`TotalsExist`, `TotalsAgree`, by `LeastNumber` as in `Verification_proofs`). The
part of `AppInv` that is new (`Guarded`) was true in every state of `early` and `full` when TLC was given it as an
invariant.

`TLSHandshake_auth`: `AuthenticationHolds` (`Authentication`), in the same generality. It is the one theorem about both
sides at once. A side believes what the other's messages say, so `AuthInv` has two halves. The first bounds what
either side may say (`ClientSays`, `ServerSays`): a client's first hello offers its versions, and a session only if it
may be resumed (`FirstHello`, for an encrypted hello the inner one); a server picks a session only where there is one,
an anonymous suite only where both allow it, and asks for a retry only after a hello; a certificate comes from a side
that has one. Every message is followed from the handler that queues it through `outgoing`, sealed records
(`pending`, `outbio`), the wire and the peer's `incoming` to the handler that reads it (`Loud`, `Honesty`). The second
says, state by state, what a side that got there must have seen (`ClientClaims`, `ServerClaims`): in which states the
certificate is asked for, is there, is verified, and its signature checked, unless the session was resumed or the
suite anonymous; and how far the question of the encrypted hello is settled. `Authentication` alone is not inductive:
it speaks of completed handshakes, and a side completes on what its earlier states let through, which depends
in turn on the peer's messages. Three facts make it so. The claims are those of a side that has not
failed, since what a handler that fails leaves behind need not fit its state; a completed handshake keeps its `Goal`
without them. What a client may say depends on whether the server has read its first hello (`Past`): a second hello is
made under other rules, and must not come before it. And the version a server selects is the best of those
that first hello offered (`BestVersion`), on which it rests that a session it resumes is one that both may resume and
that an anonymous suite is never one of TLS 1.3.

The attempt also found two definitions that could not be reasoned about, both restated and neither changed on any
instance: `ClientOffers` was a `CASE` with two overlapping arms, for which TLA+ promises neither of the values (TLC took the
first), and the suites both sides have were a filtered sequence where the code only takes the first that fits
(`FirstSuite`).

### Model-checked only

* Liveness, which the prover does not do: `CompatibleCompletes`, `FailureIsShared`, `Terminates`,
  `HandshakeCompletes`, `CloseArrives`.
* `RefusedOnlyAtExpiry` of `Sessions`: its hypothesis that no clock was set back looks at the lags of the
  moment, and for lags in general a clock that was set back may be one of them again.
* Five properties of the handshake (`TLSHandshake`): `Agreement`, `OnlyPolicyFailures`, `AlertsAreUnderstood`,
  `DataIntegrity` and `AssertionsHold`. For `Authentication` it was enough to bound what each message may say. These need
  to know which message comes next and under which key, in every pair of states of some forty handlers
  each: even `DataIntegrity` rests on the two sides having derived the same handshake key, since a rejected 0-RTT
  client whose Finished did not open would have it skipped as early data. That product of states is what TLC
  enumerates on the instances.
* `TypeOK` there needs, besides the contents of messages and records, the number of tickets in flight.

## 5. Not modelled

Post-handshake authentication (the server never asks for it), cookies, resumption by session id (the
server keeps no sessions), certificate compression, the splitting of records in TLS 1.0, warning alerts,
malformed input, the choice of signature algorithms, loading of files, the getters and
`sendall`/`connect`/`accept` of `SSLSocket`, codecs, and cryptography. `PROJECT.json` lists every component
with the reason.

## 6. Plan

1. *Done*: handshakes of TLS 1.0–1.3 with 0-RTT and encrypted hello, key updates with an abstract
   channel, sessions, certificate chains, the socket driver; proofs for all of them, for certificate
   chains also that the search is complete, and for the handshake the end of early data
   (`SkippingEnds`), the nonces (`NonceUniqueness`), the keys of application data
   (`AppDataEpochBlocking`), the limit of early data (`EarlyDataLimit`), and authentication (`Authentication`).
2. Proofs about `TLSHandshake` that need the order of what is in flight: `Agreement`, on the frames of
   `TLSHandshake_proofs` and the messages of `TLSHandshake_auth`.
3. Models: post-handshake authentication in `KeyUpdate`; record splitting; `sendall` over
   `SocketDriver`.

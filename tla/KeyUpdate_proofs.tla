--------------------------- MODULE KeyUpdate_proofs ---------------------------
(***************************************************************************)
(* Proofs about KeyUpdate for every number of updates and writes: the type *)
(* invariant, the chain of keys that ties each reader to its writer, that  *)
(* only a close_notify directly behind a KeyUpdate can fail to open, that  *)
(* every update_requested is answered exactly once, and that KeyUpdate     *)
(* implements SecureChannel: key updates, their answers and what is        *)
(* flushed when cannot be seen by the two applications.                    *)
(***************************************************************************)
EXTENDS KeyUpdate, SequenceTheorems, FiniteSetTheorems, TLAPS

-----------------------------------------------------------------------------
(* The types of what the steps of a call compute                           *)

\* What _seal_record does to the writing half: one record more, of the current key.
LEMMA SealFacts ==
    ASSUME NEW w \in WriterType, NEW kind \in Kinds
    PROVE  LET m == Record(kind, w.gen, w.seq)
           IN /\ m \in RecordType
              /\ m.kind = kind /\ m.gen = w.gen /\ m.seq = w.seq
              /\ Append(w.line, m) \in Seq(RecordType)
              /\ Seal(w, kind).line = Append(w.line, m) /\ Seal(w, kind).seq = w.seq + 1
              /\ Seal(w, kind).gen = w.gen /\ Seal(w, kind).state = w.state
              /\ Seal(w, kind).queued = w.queued /\ Seal(w, kind).shut = w.shut
              /\ Seal(w, kind).sent = w.sent
              /\ Seal(w, kind) \in WriterType
              /\ Len(Append(w.line, m)) = Len(w.line) + 1
<1> DEFINE m == Record(kind, w.gen, w.seq)
<1>1. m \in RecordType /\ m.kind = kind /\ m.gen = w.gen /\ m.seq = w.seq
  BY DEF Record, RecordType, WriterType
<1>2. w.line \in Seq(RecordType)
  BY DEF WriterType
<1>3. Append(w.line, m) \in Seq(RecordType) /\ Len(Append(w.line, m)) = Len(w.line) + 1
  BY <1>1, <1>2, AppendProperties
<1> HIDE DEF m
<1>4. /\ Seal(w, kind).line = Append(w.line, m) /\ Seal(w, kind).seq = w.seq + 1
      /\ Seal(w, kind).gen = w.gen /\ Seal(w, kind).state = w.state
      /\ Seal(w, kind).queued = w.queued /\ Seal(w, kind).shut = w.shut
      /\ Seal(w, kind).sent = w.sent
  BY DEF Seal, Writer, m
<1>5. Seal(w, kind) \in WriterType
  BY <1>3 DEF WriterType, Seal, Writer, m
<1> QED BY <1>1, <1>3, <1>4, <1>5 DEF m

\* What _pack_handshake does: the queued message, if any, is sealed.
LEMMA PackFacts ==
    ASSUME NEW w \in WriterType
    PROVE  /\ Pack(w) \in WriterType
           /\ Pack(w).queued = "none" /\ Pack(w).state = w.state /\ Pack(w).gen = w.gen
           /\ Pack(w).shut = w.shut /\ Pack(w).sent = w.sent
           /\ w.queued = "none" => Pack(w) = w
           /\ w.queued # "none" =>
                 /\ w.queued \in Kinds /\ w.queued \in KeyUpdates
                 /\ Pack(w).line = Append(w.line, Record(w.queued, w.gen, w.seq))
           /\ Len(Pack(w).line) >= Len(w.line)
<1>1. CASE w.queued = "none"
  BY <1>1 DEF Pack, WriterType
<1>2. CASE w.queued # "none"
  <2>1. w.queued \in Kinds /\ w.queued \in KeyUpdates
    BY <1>2 DEF WriterType, Kinds, KeyUpdates
  <2>2. Pack(w) = Queue(Seal(w, w.queued), w.state, "none")
    BY <1>2 DEF Pack
  <2> DEFINE x == Seal(w, w.queued)
  <2>3. /\ x \in WriterType /\ x.line = Append(w.line, Record(w.queued, w.gen, w.seq))
        /\ x.gen = w.gen /\ x.state = w.state /\ x.shut = w.shut /\ x.sent = w.sent
        /\ Len(x.line) = Len(w.line) + 1
    BY <2>1, SealFacts
  <2> HIDE DEF x
  <2>4. /\ Queue(x, w.state, "none") \in WriterType
        /\ Queue(x, w.state, "none").line = x.line
        /\ Queue(x, w.state, "none").queued = "none"
        /\ Queue(x, w.state, "none").state = w.state /\ Queue(x, w.state, "none").gen = x.gen
        /\ Queue(x, w.state, "none").shut = x.shut /\ Queue(x, w.state, "none").sent = x.sent
    BY <2>3 DEF Queue, Writer, WriterType
  <2>5. w.line \in Seq(RecordType) /\ Len(w.line) \in Nat
    BY LenProperties DEF WriterType
  <2> QED BY <1>2, <2>1, <2>2, <2>3, <2>4, <2>5 DEF x
<1> QED BY <1>1, <1>2

-----------------------------------------------------------------------------
(* Records added to a chain                                                *)

\* The elements of a line with one record more
LEMMA AppendFacts ==
    ASSUME NEW l \in Seq(RecordType), NEW m \in RecordType
    PROVE  /\ Append(l, m) \in Seq(RecordType)
           /\ Len(l) \in Nat
           /\ Len(Append(l, m)) = Len(l) + 1
           /\ \A i \in 1..Len(l) : Append(l, m)[i] = l[i]
           /\ Append(l, m)[Len(l) + 1] = m
BY AppendProperties, LenProperties

\* A record sealed under the key and number of the writer extends the chain.
LEMMA AppendChain ==
    ASSUME NEW w \in WriterType, NEW x \in WriterType, NEW r \in ReaderType,
           NEW m \in RecordType, x.line = Append(w.line, m),
           m.gen = w.gen, m.seq = w.seq,
           HeadOpens(w, r), Linked(w), LastLeads(w), EmptyMeets(w, r)
    PROVE  /\ HeadOpens(x, r) /\ Linked(x) /\ EmptyMeets(x, r)
           /\ Len(x.line) = Len(w.line) + 1 /\ Len(w.line) \in Nat
           /\ \A i \in 1..Len(w.line) : x.line[i] = w.line[i]
           /\ x.line[Len(w.line) + 1] = m
<1>1. w.line \in Seq(RecordType)
  BY DEF WriterType
<1>2. /\ Len(w.line) \in Nat /\ Len(x.line) = Len(w.line) + 1
      /\ \A i \in 1..Len(w.line) : x.line[i] = w.line[i]
      /\ x.line[Len(w.line) + 1] = m
  BY <1>1, AppendFacts
<1>3. HeadOpens(x, r)
  BY <1>2 DEF HeadOpens, EmptyMeets, Opens
<1>4. Linked(x)
  <2> SUFFICES ASSUME NEW i \in 1..(Len(x.line) - 1),
                      x.line[i].kind \notin Alerts, x.line[i + 1].kind # "close_notify"
               PROVE  Follows(x.line[i], x.line[i + 1].gen, x.line[i + 1].seq)
    BY DEF Linked
  <2>1. CASE i < Len(w.line)
    BY <1>2, <2>1 DEF Linked
  <2>2. CASE i = Len(w.line)
    BY <1>2, <2>2 DEF LastLeads
  <2> QED BY <1>2, <2>1, <2>2
<1>5. EmptyMeets(x, r)
  BY <1>2 DEF EmptyMeets
<1> QED BY <1>2, <1>3, <1>4, <1>5

\* The alerts of a line that a record other than an alert was added to
LEMMA AppendAlerts ==
    ASSUME NEW w \in WriterType, NEW x \in WriterType, NEW r \in ReaderType, NEW m \in RecordType,
           Len(w.line) \in Nat, Len(x.line) = Len(w.line) + 1,
           \A i \in 1..Len(w.line) : x.line[i] = w.line[i],
           x.line[Len(w.line) + 1] = m, m.kind \notin Alerts, x.shut = w.shut,
           AlertOnItsWay(w, r)
    PROVE  AlertOnItsWay(x, r)
<1>1. \A i \in 1..Len(x.line) : i \in 1..Len(w.line) \/ i = Len(w.line) + 1
  OBVIOUS
<1>2. \A i \in 1..Len(w.line) : i \in 1..Len(x.line)
  OBVIOUS
<1>3. (x.shut # "NONE" /\ Active(r)) => \E i \in 1..Len(x.line) : x.line[i].kind \in Alerts
  BY <1>2 DEF AlertOnItsWay
<1>4. /\ \A i \in 1..Len(x.line) : x.line[i].kind \in Alerts => x.shut # "NONE"
      /\ \A i \in 1..Len(x.line) : x.line[i].kind = "close_notify" => x.shut = "CLOSE_NOTIFY"
  BY <1>1 DEF AlertOnItsWay, Alerts
<1> QED BY <1>3, <1>4 DEF AlertOnItsWay

\* A KeyUpdate and the key change that follows it extend the chain, even after shutdown().
LEMMA UpdateChain ==
    ASSUME NEW w \in WriterType, NEW r \in ReaderType, w.sent <= Len(w.line),
           w.queued # "none", HeadOpens(w, r), Linked(w), LastLeads(w), EmptyMeets(w, r),
           AlertOnItsWay(w, r)
    PROVE  /\ NewWriteKey(Pack(w)) \in WriterType
           /\ Chain(NewWriteKey(Pack(w)), r)
           /\ NewWriteKey(Pack(w)).sent <= Len(NewWriteKey(Pack(w)).line)
           /\ NewWriteKey(Pack(w)).state = "DONE" /\ NewWriteKey(Pack(w)).queued = "none"
           /\ NewWriteKey(Pack(w)).shut = w.shut
<1> DEFINE p == Pack(w)
           x == NewWriteKey(p)
           m == Record(w.queued, w.gen, w.seq)
<1>1. /\ p \in WriterType /\ p.queued = "none" /\ p.shut = w.shut /\ p.sent = w.sent
      /\ p.gen = w.gen /\ p.line = Append(w.line, m)
      /\ w.queued \in KeyUpdates /\ w.queued \in Kinds
  BY PackFacts
<1>2. m \in RecordType /\ m.kind = w.queued /\ m.gen = w.gen /\ m.seq = w.seq
  BY <1>1, SealFacts
<1> HIDE DEF p, m
<1>3. /\ x \in WriterType /\ x.state = "DONE" /\ x.queued = "none" /\ x.gen = w.gen + 1
      /\ x.seq = 0 /\ x.shut = w.shut /\ x.line = Append(w.line, m) /\ x.sent = w.sent
  BY <1>1 DEF NewWriteKey, Writer, WriterType
<1> HIDE DEF x
<1>4. /\ HeadOpens(x, r) /\ Linked(x) /\ EmptyMeets(x, r)
      /\ Len(x.line) = Len(w.line) + 1 /\ Len(w.line) \in Nat
      /\ \A i \in 1..Len(w.line) : x.line[i] = w.line[i]
      /\ x.line[Len(w.line) + 1] = m
  BY <1>2, <1>3, AppendChain
<1>5. LastLeads(x)
  BY <1>1, <1>2, <1>3, <1>4 DEF LastLeads, Follows
<1>6. m.kind \notin Alerts
  BY <1>1, <1>2 DEF KeyUpdates, Alerts
<1>7. AlertOnItsWay(x, r)
  BY <1>2, <1>3, <1>4, <1>6, AppendAlerts
<1>8. UpdateInHand(x)
  BY <1>3 DEF UpdateInHand
<1>9. x.sent <= Len(x.line)
  BY <1>3, <1>4 DEF WriterType
<1> QED BY <1>3, <1>4, <1>5, <1>7, <1>8, <1>9 DEF Chain, x, p

\* do_handshake, driven by read() and write(), keeps the chain and ends in DONE.
LEMMA DriveChain ==
    ASSUME NEW w \in WriterType, NEW r \in ReaderType, w.sent <= Len(w.line), Chain(w, r)
    PROVE  /\ Drive(w) \in WriterType /\ Chain(Drive(w), r)
           /\ Drive(w).sent <= Len(Drive(w).line)
           /\ Drive(w).state = "DONE" /\ Drive(w).queued = "none" /\ Drive(w).shut = w.shut
<1>1. CASE w.state = "DONE"
  <2>1. w.queued = "none"
    BY <1>1 DEF Chain, UpdateInHand
  <2> QED BY <1>1, <2>1 DEF Drive
<1>2. CASE w.state # "DONE" /\ w.queued # "none"
  BY <1>2, UpdateChain DEF Drive, Chain
<1>3. CASE w.state # "DONE" /\ w.queued = "none"
  <2> DEFINE x == NewWriteKey(w)
  <2>1. Drive(w) = x
    BY <1>3, PackFacts DEF Drive
  <2>2. /\ x \in WriterType /\ x.state = "DONE" /\ x.queued = "none" /\ x.shut = w.shut
        /\ x.line = w.line /\ x.sent = w.sent
    BY <1>3 DEF NewWriteKey, Writer, WriterType
  <2>3. w.shut # "NONE" /\ (Len(w.line) > 0 => w.line[Len(w.line)].kind \in Alerts)
    BY <1>3 DEF Chain, UpdateInHand
  <2>4. w.line \in Seq(RecordType) /\ Len(w.line) \in Nat
    BY LenProperties DEF WriterType
  <2> HIDE DEF x
  <2>5. HeadOpens(x, r) /\ Linked(x) /\ AlertOnItsWay(x, r)
    BY <2>2 DEF Chain, HeadOpens, Linked, AlertOnItsWay
  <2>6. LastLeads(x)
    BY <2>2, <2>3 DEF LastLeads
  <2>7. EmptyMeets(x, r)
    BY <2>2, <2>3, <2>4 DEF EmptyMeets, Chain, AlertOnItsWay
  <2>8. UpdateInHand(x)
    BY <2>2 DEF UpdateInHand
  <2> QED BY <2>1, <2>2, <2>5, <2>6, <2>7, <2>8 DEF Chain
<1> QED BY <1>1, <1>2, <1>3

\* What Write computes when nothing is queued: one record more, and all of them sent.
LEMMA WriteFacts ==
    ASSUME NEW w \in WriterType, NEW kind \in Kinds
    PROVE  LET p == Pack(w)
               m == Record(kind, p.gen, p.seq)
               x == Write(w, kind)
           IN /\ p \in WriterType /\ m \in RecordType
              /\ m.kind = kind /\ m.gen = p.gen /\ m.seq = p.seq
              /\ x \in WriterType /\ x.line = Append(p.line, m) /\ x.sent = Len(x.line)
              /\ x.gen = w.gen /\ x.seq = p.seq + 1 /\ x.shut = w.shut /\ x.state = w.state
              /\ x.queued = "none"
<1> DEFINE p == Pack(w)
           m == Record(kind, p.gen, p.seq)
           y == Seal(p, kind)
           x == SendAll(y)
<1>1. /\ p \in WriterType /\ p.gen = w.gen /\ p.shut = w.shut /\ p.state = w.state
      /\ p.queued = "none"
  BY PackFacts
<1>2. Write(w, kind) = x
  BY DEF Write
<1> HIDE DEF p
<1>3. /\ m \in RecordType /\ m.kind = kind /\ m.gen = p.gen /\ m.seq = p.seq
      /\ y \in WriterType /\ y.line = Append(p.line, m) /\ y.seq = p.seq + 1
      /\ y.gen = p.gen /\ y.state = p.state /\ y.queued = p.queued /\ y.shut = p.shut
  BY <1>1, SealFacts
<1> HIDE DEF y, m
<1>4. y.line \in Seq(RecordType) /\ Len(y.line) \in Nat
  BY <1>3, LenProperties DEF WriterType
<1>5. /\ x \in WriterType /\ x.line = y.line /\ x.sent = Len(x.line) /\ x.gen = y.gen
      /\ x.seq = y.seq /\ x.shut = y.shut /\ x.state = y.state /\ x.queued = y.queued
  BY <1>3, <1>4 DEF SendAll, Writer, WriterType
<1> QED BY <1>1, <1>2, <1>3, <1>5 DEF p, m

\* write() of data, in the state DONE, extends the chain.
LEMMA WriteDataChain ==
    ASSUME NEW w \in WriterType, NEW r \in ReaderType, Chain(w, r),
           w.state = "DONE", w.queued = "none"
    PROVE  /\ Write(w, "data") \in WriterType /\ Chain(Write(w, "data"), r)
           /\ Write(w, "data").sent <= Len(Write(w, "data").line)
<1> DEFINE m == Record("data", w.gen, w.seq)
           x == Write(w, "data")
<1>1. Pack(w) = w /\ "data" \in Kinds
  BY PackFacts DEF Kinds
<1>2. /\ m \in RecordType /\ m.kind = "data" /\ m.gen = w.gen /\ m.seq = w.seq
      /\ x \in WriterType /\ x.line = Append(w.line, m) /\ x.sent = Len(x.line)
      /\ x.gen = w.gen /\ x.seq = w.seq + 1 /\ x.shut = w.shut /\ x.state = w.state
      /\ x.queued = "none"
  BY <1>1, WriteFacts
<1> HIDE DEF x, m
<1>3. /\ HeadOpens(x, r) /\ Linked(x) /\ EmptyMeets(x, r)
      /\ Len(x.line) = Len(w.line) + 1 /\ Len(w.line) \in Nat
      /\ \A i \in 1..Len(w.line) : x.line[i] = w.line[i]
      /\ x.line[Len(w.line) + 1] = m
  BY <1>2, AppendChain DEF Chain
<1>4. LastLeads(x)
  BY <1>2, <1>3 DEF LastLeads, Follows, KeyUpdates
<1>5. m.kind \notin Alerts
  BY <1>2 DEF Alerts
<1>6. AlertOnItsWay(x, r)
  BY <1>2, <1>3, <1>5, AppendAlerts DEF Chain
<1>7. UpdateInHand(x)
  BY <1>2 DEF UpdateInHand
<1> QED BY <1>2, <1>3, <1>4, <1>6, <1>7 DEF Chain, x

\* The facts about shutting down that an alert at the end of the line establishes
LEMMA LastAlert ==
    ASSUME NEW x \in WriterType, NEW r \in ReaderType, NEW w \in WriterType,
           Len(x.line) \in Nat, Len(x.line) > 0,
           x.line[Len(x.line)].kind \in Alerts, x.shut # "NONE",
           \A i \in 1..Len(x.line) : x.line[i].kind = "close_notify" => x.shut = "CLOSE_NOTIFY",
           w.shut = "NONE", AlertOnItsWay(w, r)
    PROVE  LastLeads(x) /\ EmptyMeets(x, r) /\ AlertOnItsWay(x, r)
<1>1. Active(r) /\ r.err # "bad_record_mac"
  BY DEF AlertOnItsWay
<1>2. Len(x.line) \in 1..Len(x.line)
  OBVIOUS
<1> QED BY <1>1, <1>2 DEF LastLeads, EmptyMeets, AlertOnItsWay

\* A fatal alert is sealed under the key the reader expects it under.
LEMMA FatalChain ==
    ASSUME NEW w \in WriterType, NEW r \in ReaderType, w.sent <= Len(w.line), Chain(w, r),
           w.state = "DONE", w.queued = "none"
    PROVE  /\ FatalAlert(w) \in WriterType /\ Chain(FatalAlert(w), r)
           /\ FatalAlert(w).sent <= Len(FatalAlert(w).line)
           /\ w.shut # "NONE" => FatalAlert(w) = w
<1>1. CASE w.shut # "NONE"
  BY <1>1 DEF FatalAlert
<1>2. CASE w.shut = "NONE"
  <2> DEFINE m == Record("fatal", w.gen, w.seq)
             y == Write(w, "fatal")
             x == ShutDown(y, "ERROR")
  <2>1. Pack(w) = w /\ "fatal" \in Kinds
    BY PackFacts DEF Kinds
  <2>2. /\ m \in RecordType /\ m.kind = "fatal" /\ m.gen = w.gen /\ m.seq = w.seq
        /\ y \in WriterType /\ y.line = Append(w.line, m) /\ y.sent = Len(y.line)
        /\ y.state = w.state /\ y.queued = "none"
    BY <2>1, WriteFacts
  <2>3. FatalAlert(w) = x
    BY <1>2 DEF FatalAlert
  <2> HIDE DEF y, m
  <2>4. /\ x \in WriterType /\ x.line = Append(w.line, m) /\ x.sent = Len(x.line)
        /\ x.shut = "ERROR" /\ x.state = "DONE" /\ x.queued = "none"
    BY <2>2 DEF ShutDown, Writer, WriterType, Shutdowns
  <2> HIDE DEF x
  <2>5. /\ HeadOpens(x, r) /\ Linked(x) /\ EmptyMeets(x, r)
        /\ Len(x.line) = Len(w.line) + 1 /\ Len(w.line) \in Nat
        /\ \A i \in 1..Len(w.line) : x.line[i] = w.line[i]
        /\ x.line[Len(w.line) + 1] = m
    BY <2>2, <2>4, AppendChain DEF Chain
  <2>6. \A i \in 1..Len(x.line) : x.line[i].kind = "close_notify" => x.shut = "CLOSE_NOTIFY"
    <3>1. \A i \in 1..Len(w.line) : w.line[i].kind # "close_notify"
      BY <1>2 DEF Chain, AlertOnItsWay
    <3>2. \A i \in 1..Len(x.line) : i \in 1..Len(w.line) \/ i = Len(w.line) + 1
      BY <2>5
    <3> QED BY <2>2, <2>5, <3>1, <3>2
  <2>7. LastLeads(x) /\ AlertOnItsWay(x, r)
    <3>1. x.line[Len(x.line)].kind \in Alerts /\ x.shut # "NONE" /\ Len(x.line) > 0
          /\ Len(x.line) \in Nat
      BY <2>2, <2>4, <2>5 DEF Alerts
    <3> QED BY <1>2, <2>4, <2>6, <3>1, LastAlert DEF Chain
  <2>8. UpdateInHand(x)
    BY <2>4 DEF UpdateInHand
  <2>9. x.sent <= Len(x.line)
    BY <2>4, <2>5
  <2> QED BY <1>2, <2>3, <2>4, <2>5, <2>7, <2>8, <2>9 DEF Chain
<1> QED BY <1>1, <1>2

\* shutdown() keeps the chain up to the close_notify, whether or not a KeyUpdate was queued.
LEMMA CloseChain ==
    ASSUME NEW w \in WriterType, NEW r \in ReaderType, Chain(w, r), w.shut = "NONE"
    PROVE  LET x == ShutDown(Write(w, "close_notify"), "CLOSE_NOTIFY")
           IN x \in WriterType /\ Chain(x, r) /\ x.sent <= Len(x.line)
<1> DEFINE p == Pack(w)
           m == Record("close_notify", p.gen, p.seq)
           y == Write(w, "close_notify")
           x == ShutDown(y, "CLOSE_NOTIFY")
<1>1. "close_notify" \in Kinds
  BY DEF Kinds
<1>2. /\ p \in WriterType /\ m \in RecordType /\ m.kind = "close_notify"
      /\ y \in WriterType /\ y.line = Append(p.line, m) /\ y.sent = Len(y.line)
      /\ y.state = w.state /\ y.queued = "none"
  BY <1>1, WriteFacts
<1>3. HeadOpens(p, r) /\ Linked(p)
  <2>1. CASE w.queued = "none"
    BY <2>1, PackFacts DEF Chain
  <2>2. CASE w.queued # "none"
    <3> DEFINE k == Record(w.queued, w.gen, w.seq)
    <3>1. w.queued \in Kinds /\ p.line = Append(w.line, k)
      BY <2>2, PackFacts
    <3>2. k \in RecordType /\ k.gen = w.gen /\ k.seq = w.seq
      BY <3>1, SealFacts
    <3> HIDE DEF p, k
    <3> QED BY <1>2, <3>1, <3>2, AppendChain DEF Chain
  <2> QED BY <2>1, <2>2
<1> HIDE DEF y, m, p
<1>4. /\ x \in WriterType /\ x.line = Append(p.line, m) /\ x.sent = Len(x.line)
      /\ x.shut = "CLOSE_NOTIFY" /\ x.state = w.state /\ x.queued = "none"
  BY <1>2 DEF ShutDown, Writer, WriterType, Shutdowns
<1> HIDE DEF x
<1>5. /\ Len(p.line) \in Nat /\ Len(x.line) = Len(p.line) + 1
      /\ \A i \in 1..Len(p.line) : x.line[i] = p.line[i]
      /\ x.line[Len(p.line) + 1] = m
  <2>1. p.line \in Seq(RecordType)
    BY <1>2 DEF WriterType
  <2> QED BY <1>2, <1>4, <2>1, AppendFacts
<1>6. HeadOpens(x, r)
  BY <1>2, <1>3, <1>5 DEF HeadOpens
<1>7. Linked(x)
  <2> SUFFICES ASSUME NEW i \in 1..(Len(x.line) - 1),
                      x.line[i].kind \notin Alerts, x.line[i + 1].kind # "close_notify"
               PROVE  Follows(x.line[i], x.line[i + 1].gen, x.line[i + 1].seq)
    BY DEF Linked
  <2>1. i < Len(p.line)
    BY <1>2, <1>5
  <2>2. /\ i \in 1..(Len(p.line) - 1)
        /\ x.line[i] = p.line[i] /\ x.line[i + 1] = p.line[i + 1]
    BY <1>5, <2>1
  <2> QED BY <1>3, <2>2 DEF Linked
<1>8. x.line[Len(x.line)].kind \in Alerts /\ Len(x.line) > 0 /\ Len(x.line) \in Nat
  BY <1>2, <1>5 DEF Alerts
<1>9. LastLeads(x) /\ EmptyMeets(x, r) /\ AlertOnItsWay(x, r)
  BY <1>4, <1>8, LastAlert DEF Chain
<1>10. UpdateInHand(x)
  BY <1>4, <1>8 DEF UpdateInHand
<1> QED BY <1>4, <1>6, <1>7, <1>8, <1>9, <1>10 DEF Chain, x, y

\* The answer to an update_requested extends the answering side's own chain.
LEMMA AnswerChain ==
    ASSUME NEW w \in WriterType, NEW r \in ReaderType, w.sent <= Len(w.line), Chain(w, r),
           NEW m
    PROVE  /\ Answer(w, m) \in WriterType /\ Chain(Answer(w, m), r)
           /\ Answer(w, m).sent <= Len(Answer(w, m).line)
           /\ Answer(w, m).shut = w.shut
<1>1. CASE m.kind # "request"
  BY <1>1 DEF Answer
<1>2. CASE m.kind = "request"
  <2> DEFINE q == Queue(w, w.state, "update")
  <2>1. /\ q \in WriterType /\ q.queued = "update" /\ q.gen = w.gen /\ q.seq = w.seq
        /\ q.shut = w.shut /\ q.line = w.line /\ q.sent = w.sent
    BY DEF Queue, Writer, WriterType, KeyUpdates
  <2>2. Answer(w, m) = NewWriteKey(Pack(q))
    BY <1>2 DEF Answer
  <2> HIDE DEF q
  <2>3. /\ HeadOpens(q, r) /\ Linked(q) /\ LastLeads(q) /\ EmptyMeets(q, r)
        /\ AlertOnItsWay(q, r)
    BY <2>1 DEF Chain, HeadOpens, Linked, LastLeads, EmptyMeets, AlertOnItsWay
  <2> QED BY <2>1, <2>2, <2>3, UpdateChain
<1> QED BY <1>1, <1>2

-----------------------------------------------------------------------------
(* A record taken from a chain                                             *)

\* What remains of the writer's half
LEMMA TakenFacts ==
    ASSUME NEW w \in WriterType, w.sent > 0, w.sent <= Len(w.line)
    PROVE  /\ Taken(w) \in WriterType /\ Taken(w).sent <= Len(Taken(w).line)
           /\ Taken(w).gen = w.gen /\ Taken(w).seq = w.seq /\ Taken(w).shut = w.shut
           /\ Taken(w).state = w.state /\ Taken(w).queued = w.queued
           /\ Len(w.line) \in Nat /\ Len(w.line) > 0
           /\ Len(Taken(w).line) = Len(w.line) - 1
           /\ \A i \in 1..Len(Taken(w).line) : Taken(w).line[i] = w.line[i + 1]
           /\ Head(w.line) = w.line[1] /\ w.line[1] \in RecordType
<1>1. w.line \in Seq(RecordType) /\ Len(w.line) \in Nat /\ w.sent \in Nat
  BY LenProperties DEF WriterType
<1>2. Len(w.line) > 0 /\ w.line # <<>>
  BY <1>1
<1>3. /\ Tail(w.line) \in Seq(RecordType) /\ Len(Tail(w.line)) = Len(w.line) - 1
      /\ \A i \in 1..Len(Tail(w.line)) : Tail(w.line)[i] = w.line[i + 1]
      /\ Head(w.line) = w.line[1]
  BY <1>1, <1>2, HeadTailProperties
<1>4. w.line[1] \in RecordType
  BY <1>1, <1>2, ElementOfSeq
<1>5. /\ Taken(w).gen = w.gen /\ Taken(w).seq = w.seq /\ Taken(w).shut = w.shut
      /\ Taken(w).state = w.state /\ Taken(w).queued = w.queued
      /\ Taken(w).line = Tail(w.line) /\ Taken(w).sent = w.sent - 1
  BY DEF Taken, Writer
<1>6. w.sent - 1 \in Nat
  BY <1>1
<1>7. Taken(w) \in WriterType
  BY <1>3, <1>6 DEF Taken, Writer, WriterType
<1> QED BY <1>1, <1>2, <1>3, <1>4, <1>5, <1>7

\* What remains of the chain when only the reader's expectation is left to see to
LEMMA TakenChain ==
    ASSUME NEW w \in WriterType, NEW r \in ReaderType, NEW q \in ReaderType,
           w.sent > 0, w.sent <= Len(w.line), Chain(w, r), Active(r),
           HeadOpens(Taken(w), q), EmptyMeets(Taken(w), q),
           Active(q) => w.line[1].kind \notin Alerts,
           ~Active(q) => w.shut # "NONE",
           q.err = "bad_record_mac" => w.shut = "CLOSE_NOTIFY"
    PROVE  Chain(Taken(w), q)
<1> DEFINE x == Taken(w)
<1>1. /\ x.gen = w.gen /\ x.seq = w.seq /\ x.shut = w.shut
      /\ x.state = w.state /\ x.queued = w.queued
      /\ Len(w.line) \in Nat /\ Len(w.line) > 0 /\ Len(x.line) = Len(w.line) - 1
      /\ \A i \in 1..Len(x.line) : x.line[i] = w.line[i + 1]
  BY TakenFacts
<1> HIDE DEF x
<1>2. Linked(x)
  <2> SUFFICES ASSUME NEW i \in 1..(Len(x.line) - 1),
                      x.line[i].kind \notin Alerts, x.line[i + 1].kind # "close_notify"
               PROVE  Follows(x.line[i], x.line[i + 1].gen, x.line[i + 1].seq)
    BY DEF Linked
  <2>1. i + 1 \in 1..(Len(w.line) - 1) /\ x.line[i] = w.line[i + 1]
        /\ x.line[i + 1] = w.line[(i + 1) + 1]
    BY <1>1
  <2> QED BY <2>1 DEF Chain, Linked
<1>3. LastLeads(x)
  BY <1>1 DEF Chain, LastLeads
<1>4. UpdateInHand(x)
  BY <1>1 DEF Chain, UpdateInHand
<1>5. AlertOnItsWay(x, q)
  <2>1. ASSUME x.shut # "NONE", Active(q)
        PROVE  \E i \in 1..Len(x.line) : x.line[i].kind \in Alerts
    <3>1. PICK j \in 1..Len(w.line) : w.line[j].kind \in Alerts
      BY <1>1, <2>1 DEF Chain, AlertOnItsWay
    <3>2. j # 1
      BY <2>1, <3>1
    <3>3. j - 1 \in 1..Len(x.line) /\ x.line[j - 1] = w.line[j]
      BY <1>1, <3>2
    <3> QED BY <3>1, <3>3
  <2>2. \A i \in 1..Len(x.line) : i + 1 \in 1..Len(w.line) /\ x.line[i] = w.line[i + 1]
    BY <1>1
  <2>3. /\ \A i \in 1..Len(x.line) : x.line[i].kind \in Alerts => x.shut # "NONE"
        /\ \A i \in 1..Len(x.line) : x.line[i].kind = "close_notify" => x.shut = "CLOSE_NOTIFY"
    BY <1>1, <2>2 DEF Chain, AlertOnItsWay
  <2> QED BY <1>1, <2>1, <2>3 DEF AlertOnItsWay
<1> QED BY <1>2, <1>3, <1>4, <1>5 DEF Chain, x

\* Opening the record at the head of the chain moves the reader along it.
LEMMA OpenedChain ==
    ASSUME NEW w \in WriterType, NEW r \in ReaderType,
           w.sent > 0, w.sent <= Len(w.line), Chain(w, r), Active(r), Opens(r, w.line[1])
    PROVE  Opened(r, w.line[1]) \in ReaderType /\ Chain(Taken(w), Opened(r, w.line[1]))
<1> DEFINE m == w.line[1]
           q == Opened(r, m)
           x == Taken(w)
<1>1. /\ Len(w.line) \in Nat /\ Len(w.line) > 0 /\ Len(x.line) = Len(w.line) - 1
      /\ \A i \in 1..Len(x.line) : x.line[i] = w.line[i + 1]
      /\ m \in RecordType /\ x.gen = w.gen /\ x.seq = w.seq
  BY TakenFacts
<1>2. q \in ReaderType
  BY <1>1 DEF Opened, Reader, ReaderType, RecordType, Shutdowns
<1>3. CASE m.kind \in Alerts
  <2>1. ~Active(q) /\ q.err # "bad_record_mac"
    BY <1>3 DEF Opened, Reader, Active, Alerts, KeyUpdates
  <2>2. w.shut # "NONE"
    BY <1>1, <1>3 DEF Chain, AlertOnItsWay
  <2>3. HeadOpens(x, q) /\ EmptyMeets(x, q)
    BY <2>1 DEF HeadOpens, EmptyMeets
  <2> QED BY <1>2, <2>1, <2>2, <2>3, TakenChain
<1>4. CASE m.kind \notin Alerts
  <2>1. Active(q) /\ Follows(m, q.gen, q.seq) /\ q.err # "bad_record_mac"
    BY <1>4 DEF Opened, Reader, Active, Alerts, KeyUpdates, Follows, Opens
  <2>2. HeadOpens(x, q)
    <3> SUFFICES ASSUME Len(x.line) > 0, x.line[1].kind # "close_notify"
                 PROVE  Opens(q, x.line[1])
      BY DEF HeadOpens
    <3>1. 1 \in 1..(Len(w.line) - 1) /\ x.line[1] = w.line[1 + 1]
      BY <1>1
    <3>2. Follows(m, x.line[1].gen, x.line[1].seq)
      BY <1>4, <3>1 DEF Chain, Linked
    <3> QED BY <2>1, <3>2 DEF Follows, Opens
  <2>3. EmptyMeets(x, q)
    <3> SUFFICES ASSUME Len(x.line) = 0
                 PROVE  q.gen = w.gen /\ q.seq = w.seq
      BY <1>1 DEF EmptyMeets
    <3>1. Len(w.line) = 1
      <4>1. Len(w.line) \in Nat /\ Len(x.line) = Len(w.line) - 1
        BY <1>1
      <4> DEFINE a == Len(w.line)
                 b == Len(x.line)
      <4>2. a \in Nat /\ b = a - 1 /\ b = 0
        BY <4>1
      <4> HIDE DEF a, b
      <4>3. a = 1
        BY <4>2
      <4> QED BY <4>3 DEF a
    <3>2. Follows(m, w.gen, w.seq)
      BY <1>4, <3>1 DEF Chain, LastLeads
    <3> QED BY <2>1, <3>2 DEF Follows
  <2> QED BY <1>2, <1>4, <2>1, <2>2, <2>3, TakenChain
<1> QED BY <1>3, <1>4

\* A record that does not open is a close_notify.
LEMMA BadRecordChain ==
    ASSUME NEW w \in WriterType, NEW r \in ReaderType,
           w.sent > 0, w.sent <= Len(w.line), Chain(w, r), Active(r), ~Opens(r, w.line[1])
    PROVE  BadRecord(r) \in ReaderType /\ Chain(Taken(w), BadRecord(r))
<1>1. Len(w.line) \in Nat /\ Len(w.line) > 0
  BY TakenFacts
<1>2. w.line[1].kind = "close_notify"
  BY <1>1 DEF Chain, HeadOpens
<1>3. w.shut = "CLOSE_NOTIFY"
  BY <1>1, <1>2 DEF Chain, AlertOnItsWay
<1>4. BadRecord(r) \in ReaderType /\ ~Active(BadRecord(r))
  BY DEF BadRecord, Reader, ReaderType, Active
<1>5. HeadOpens(Taken(w), BadRecord(r)) /\ EmptyMeets(Taken(w), BadRecord(r))
  BY <1>4 DEF HeadOpens, EmptyMeets
<1> QED BY <1>3, <1>4, <1>5, TakenChain

-----------------------------------------------------------------------------
(* The invariant                                                           *)

Inv == TypeOK /\ ChainInvariant

\* Peer exchanges the two sides.
LEMMA PeerFacts ==
    ASSUME NEW s \in Side
    PROVE  Peer(s) \in Side /\ Peer(s) # s /\ Peer(Peer(s)) = s
           /\ \A t \in Side : t = s \/ t = Peer(s)
BY DEF Side, Peer, Client, Server

\* The invariant, side by side
LEMMA InvFacts ==
    ASSUME Inv, NEW s \in Side
    PROVE  /\ out[s] \in WriterType /\ in[s] \in ReaderType
           /\ out[Peer(s)] \in WriterType /\ in[Peer(s)] \in ReaderType
           /\ out[s].sent <= Len(out[s].line) /\ out[Peer(s)].sent <= Len(out[Peer(s)].line)
           /\ Chain(out[s], in[Peer(s)]) /\ Chain(out[Peer(s)], in[s])
BY PeerFacts DEF Inv, TypeOK, ChainInvariant

\* A step that changes the writing half of one side only
LEMMA WriterStep ==
    ASSUME Inv, NEW s \in Side, NEW w \in WriterType, Chain(w, in[Peer(s)]),
           w.sent <= Len(w.line), out' = [out EXCEPT ![s] = w], in' = in,
           calls' \in [Side -> [updates : Nat, requests : Nat, writes : Nat]]
    PROVE  Inv'
<1>1. out \in [Side -> WriterType] /\ in \in [Side -> ReaderType]
  BY DEF Inv, TypeOK
<1>2. out' \in [Side -> WriterType] /\ out'[s] = w
      /\ \A t \in Side : t # s => out'[t] = out[t]
  BY <1>1
<1>3. \A t \in Side : out'[t].sent <= Len(out'[t].line)
  BY <1>2 DEF Inv, TypeOK
<1>4. \A t \in Side : Chain(out'[t], in'[Peer(t)])
  BY <1>2 DEF Inv, ChainInvariant
<1> QED BY <1>1, <1>2, <1>3, <1>4 DEF Inv, TypeOK, ChainInvariant

\* Every step of a call keeps the invariant.
LEMMA ReadStep ==
    ASSUME Inv, NEW s \in Side, Read(s)
    PROVE  Inv'
<1> DEFINE p == Peer(s)
           m == Head(out[p].line)
           w == Drive(out[s])
           x == IF Opens(in[s], m) THEN Answer(w, m) ELSE FatalAlert(w)
           q == IF Opens(in[s], m) THEN Opened(in[s], m) ELSE BadRecord(in[s])
<1>1. /\ out[s] \in WriterType /\ in[s] \in ReaderType
      /\ out[p] \in WriterType /\ in[p] \in ReaderType
      /\ out[s].sent <= Len(out[s].line) /\ out[p].sent <= Len(out[p].line)
      /\ Chain(out[s], in[p]) /\ Chain(out[p], in[s])
  BY InvFacts
<1>2. Active(in[s]) /\ out[p].sent > 0
  BY DEF Read, Usable, Active, Arrived
<1>3. /\ w \in WriterType /\ Chain(w, in[p]) /\ w.sent <= Len(w.line)
      /\ w.state = "DONE" /\ w.queued = "none"
  BY <1>1, DriveChain
<1>4. /\ Taken(out[p]) \in WriterType /\ Taken(out[p]).sent <= Len(Taken(out[p]).line)
      /\ m = out[p].line[1]
  BY <1>1, <1>2, TakenFacts
<1>5. q \in ReaderType /\ Chain(Taken(out[p]), q)
  <2>1. CASE Opens(in[s], m)
    BY <1>1, <1>2, <1>4, <2>1, OpenedChain
  <2>2. CASE ~Opens(in[s], m)
    BY <1>1, <1>2, <1>4, <2>2, BadRecordChain
  <2> QED BY <2>1, <2>2
<1>6. x \in WriterType /\ Chain(x, in[p]) /\ x.sent <= Len(x.line)
  <2> HIDE DEF w, m
  <2>1. CASE Opens(in[s], m)
    BY <1>1, <1>3, <2>1, AnswerChain
  <2>2. CASE ~Opens(in[s], m)
    BY <1>1, <1>3, <2>2, FatalChain
  <2> QED BY <2>1, <2>2
<1>7. /\ in' = [in EXCEPT ![s] = q]
      /\ out' = [out EXCEPT ![s] = x, ![p] = Taken(out[p])]
      /\ calls' = calls
  <2>1. p # s /\ p \in Side
    BY PeerFacts
  <2>2. out \in [Side -> WriterType]
    BY DEF Inv, TypeOK
  <2> QED BY <2>1, <2>2 DEF Read
<1>8. out \in [Side -> WriterType] /\ in \in [Side -> ReaderType]
      /\ calls \in [Side -> [updates : Nat, requests : Nat, writes : Nat]]
  BY DEF Inv, TypeOK
<1>9. p \in Side /\ p # s /\ Peer(p) = s /\ \A t \in Side : t = s \/ t = p
  BY PeerFacts
<1> HIDE DEF x, q, w, m, p
<1>10. /\ out' \in [Side -> WriterType] /\ out'[s] = x /\ out'[p] = Taken(out[p])
       /\ in' \in [Side -> ReaderType] /\ in'[s] = q /\ in'[p] = in[p]
  BY <1>4, <1>5, <1>6, <1>7, <1>8, <1>9
<1>11. \A t \in Side : out'[t].sent <= Len(out'[t].line)
  BY <1>4, <1>6, <1>9, <1>10
<1>12. \A t \in Side : Chain(out'[t], in'[Peer(t)])
  BY <1>5, <1>6, <1>9, <1>10 DEF p
<1> QED BY <1>7, <1>8, <1>10, <1>11, <1>12 DEF Inv, TypeOK, ChainInvariant

\* TypeOK and ChainInvariant together are kept by every step.
LEMMA NextStep ==
    ASSUME Inv, Next
    PROVE  Inv'
<1> DEFINE Counts == [updates : Nat, requests : Nat, writes : Nat]
<1>1. calls \in [Side -> Counts]
  BY DEF Inv, TypeOK
<1>2. ASSUME NEW s \in Side, NEW kind \in KeyUpdates, UpdateKey(s, kind)
      PROVE  Inv'
  <2> DEFINE w == out[s]
             x == Queue(w, "PROCESS_UPDATE_TRAFFIC", kind)
             r == in[Peer(s)]
  <2>1. w \in WriterType /\ w.sent <= Len(w.line) /\ Chain(w, r) /\ r \in ReaderType
    BY InvFacts
  <2>2. /\ x \in WriterType /\ x.gen = w.gen /\ x.seq = w.seq /\ x.shut = w.shut
        /\ x.line = w.line /\ x.sent = w.sent /\ x.queued = kind /\ kind # "none"
        /\ x.state = "PROCESS_UPDATE_TRAFFIC"
    BY <2>1 DEF Queue, Writer, WriterType, KeyUpdates
  <2>3. out' = [out EXCEPT ![s] = x] /\ in' = in
    BY <1>2 DEF UpdateKey
  <2>4. calls' \in [Side -> Counts]
    BY <1>1, <1>2 DEF UpdateKey, Calls
  <2> HIDE DEF x, w, r
  <2>5. Chain(x, r)
    BY <2>1, <2>2 DEF Chain, HeadOpens, Linked, LastLeads, EmptyMeets, AlertOnItsWay,
                      UpdateInHand
  <2> QED BY <2>1, <2>2, <2>3, <2>4, <2>5, WriterStep DEF r
<1>3. ASSUME NEW s \in Side, DoHandshake(s)
      PROVE  Inv'
  <2>1. out' = [out EXCEPT ![s] = Drive(out[s])] /\ in' = in /\ calls' = calls
    BY <1>3 DEF DoHandshake
  <2> QED BY <1>1, <2>1, InvFacts, DriveChain, WriterStep
<1>4. ASSUME NEW s \in Side, WriteData(s)
      PROVE  Inv'
  <2> DEFINE w == Drive(out[s])
             x == IF out[s].shut = "NONE" THEN Write(w, "data") ELSE w
  <2>1. /\ w \in WriterType /\ Chain(w, in[Peer(s)]) /\ w.sent <= Len(w.line)
        /\ w.state = "DONE" /\ w.queued = "none" /\ in[Peer(s)] \in ReaderType
    BY InvFacts, DriveChain
  <2>2. out' = [out EXCEPT ![s] = x] /\ in' = in
    BY <1>4 DEF WriteData
  <2>3. calls' \in [Side -> Counts]
    BY <1>1, <1>4 DEF WriteData, Calls
  <2> HIDE DEF w
  <2>4. x \in WriterType /\ Chain(x, in[Peer(s)]) /\ x.sent <= Len(x.line)
    BY <2>1, WriteDataChain
  <2> HIDE DEF x
  <2> QED BY <2>2, <2>3, <2>4, WriterStep
<1>5. ASSUME NEW s \in Side, CloseNotify(s)
      PROVE  Inv'
  <2> DEFINE x == ShutDown(Write(out[s], "close_notify"), "CLOSE_NOTIFY")
  <2>1. out' = [out EXCEPT ![s] = x] /\ in' = in /\ calls' = calls /\ out[s].shut = "NONE"
    BY <1>5 DEF CloseNotify
  <2>2. /\ out[s] \in WriterType /\ in[Peer(s)] \in ReaderType
        /\ Chain(out[s], in[Peer(s)])
    BY InvFacts
  <2>3. x \in WriterType /\ Chain(x, in[Peer(s)]) /\ x.sent <= Len(x.line)
    BY <2>1, <2>2, CloseChain
  <2> HIDE DEF x
  <2> QED BY <1>1, <2>1, <2>3, WriterStep
<1>6. ASSUME NEW s \in Side, Read(s)
      PROVE  Inv'
  BY <1>6, ReadStep
<1> QED BY <1>2, <1>3, <1>4, <1>5, <1>6 DEF Next

\* A connection whose handshake has just completed satisfies the invariant, with or
\* without tickets that wait to be flushed.
LEMMA InitInv == Init => Inv
<1> SUFFICES ASSUME Init PROVE Inv
  OBVIOUS
<1>1. PICK tickets \in {<<>>, <<Record("ticket", 0, 0)>>} :
         out = [s \in Side |-> NewWriter(IF s = Server THEN tickets ELSE <<>>)]
  BY DEF Init
<1>2. in = [s \in Side |-> NewReader] /\ calls = [s \in Side |-> Calls(0, 0, 0)]
  BY DEF Init
<1>3. NewReader \in ReaderType /\ NewReader.gen = 0 /\ NewReader.seq = 0
      /\ NewReader.err = "none" /\ NewReader.shut = "NONE"
  BY DEF NewReader, Reader, ReaderType, Shutdowns
<1>4. Record("ticket", 0, 0) \in RecordType /\ Record("ticket", 0, 0).kind = "ticket"
      /\ Record("ticket", 0, 0).gen = 0 /\ Record("ticket", 0, 0).seq = 0
  BY DEF Record, RecordType, Kinds
<1>5. ASSUME NEW l \in {<<>>, <<Record("ticket", 0, 0)>>}
      PROVE  /\ NewWriter(l) \in WriterType /\ NewWriter(l).sent <= Len(NewWriter(l).line)
             /\ Chain(NewWriter(l), NewReader)
  <2> DEFINE w == NewWriter(l)
  <2>1. \/ l = <<>> /\ Len(l) = 0
        \/ Len(l) = 1 /\ l[1] = Record("ticket", 0, 0)
    OBVIOUS
  <2>2. l \in Seq(RecordType)
    <3> DEFINE t == Record("ticket", 0, 0)
    <3>1. t \in RecordType
      BY <1>4
    <3> HIDE DEF t
    <3>2. <<>> \in Seq(RecordType) /\ <<t>> \in Seq(RecordType)
      BY <3>1
    <3> QED BY <3>2 DEF t
  <2>3. /\ w \in WriterType /\ w.line = l /\ w.sent = 0 /\ w.gen = 0 /\ w.seq = Len(l)
        /\ w.queued = "none" /\ w.state = "DONE" /\ w.shut = "NONE"
    BY <2>1, <2>2 DEF NewWriter, Writer, WriterType, Shutdowns
  <2> HIDE DEF w
  <2>4. \A i \in 1..Len(l) : i = 1 /\ l[i].kind = "ticket"
    <3>1. CASE Len(l) = 0
      BY <3>1
    <3>2. CASE Len(l) = 1 /\ l[1] = Record("ticket", 0, 0)
      BY <1>4, <3>2
    <3> QED BY <2>1, <3>1, <3>2
  <2>5. HeadOpens(w, NewReader) /\ EmptyMeets(w, NewReader)
    BY <1>3, <1>4, <2>1, <2>3 DEF HeadOpens, EmptyMeets, Opens
  <2>6. Linked(w)
    BY <2>1, <2>3 DEF Linked
  <2>7. LastLeads(w)
    BY <1>4, <2>1, <2>3 DEF LastLeads, Follows, KeyUpdates
  <2>8. AlertOnItsWay(w, NewReader)
    BY <1>3, <2>3, <2>4 DEF AlertOnItsWay, Active, Alerts
  <2>9. UpdateInHand(w)
    BY <2>3 DEF UpdateInHand
  <2> QED BY <2>1, <2>3, <2>5, <2>6, <2>7, <2>8, <2>9 DEF Chain, w
<1>6. \A s \in Side : \E l \in {<<>>, <<Record("ticket", 0, 0)>>} : out[s] = NewWriter(l)
  BY <1>1
<1>7. \A s \in Side : out[s] \in WriterType /\ out[s].sent <= Len(out[s].line)
                      /\ Chain(out[s], NewReader)
  BY <1>5, <1>6
<1>8. out \in [Side -> WriterType]
  BY <1>1, <1>7
<1>9. \A s \in Side : in[Peer(s)] = NewReader
  BY <1>2, PeerFacts
<1>10. calls \in [Side -> [updates : Nat, requests : Nat, writes : Nat]]
  BY <1>2 DEF Calls
<1> QED BY <1>2, <1>3, <1>7, <1>8, <1>9, <1>10 DEF Inv, TypeOK, ChainInvariant

-----------------------------------------------------------------------------
(* The theorems                                                            *)

\* Both invariants hold of every behaviour.
THEOREM Invariance == Spec => []Inv
<1>1. Init => Inv
  BY InitInv
<1>2. Inv /\ [Next]_vars => Inv'
  <2> SUFFICES ASSUME Inv, [Next]_vars PROVE Inv'
    OBVIOUS
  <2>1. CASE Next
    BY <2>1, NextStep
  <2>2. CASE UNCHANGED vars
    BY <2>2 DEF vars, Inv, TypeOK, ChainInvariant
  <2> QED BY <2>1, <2>2
<1> QED BY <1>1, <1>2, PTL DEF Spec

\* The halves of both sides keep their types, and no more is flushed than was sealed.
THEOREM TypeCorrect == Spec => []TypeOK
<1>1. Inv => TypeOK
  BY DEF Inv
<1> QED BY <1>1, Invariance, PTL

\* Each direction stays a chain of keys, whatever both sides do.
THEOREM ChainsHold == Spec => []ChainInvariant
<1>1. Inv => ChainInvariant
  BY DEF Inv
<1> QED BY <1>1, Invariance, PTL

-----------------------------------------------------------------------------
(* Which close_notify fails to open.  The chain says nothing of the key of *)
(* a close_notify; here it follows the record before it, or is directly    *)
(* behind a KeyUpdate and sealed under the same key.                       *)

\* A close_notify m behind record k
ClosesBehind(k, m) == Follows(k, m.gen, m.seq) \/ (k.kind \in KeyUpdates /\ m.gen = k.gen)

\* A close_notify under the key that the reader has just given up
Retired(m, r) == r.gen = m.gen + 1 /\ r.seq = 0

CloseMeets(w, r) ==
    (Active(r) /\ Len(w.line) > 0 /\ w.line[1].kind = "close_notify")
        => Opens(r, w.line[1]) \/ Retired(w.line[1], r)
CloseLinked(w) ==
    \A i \in 1..(Len(w.line) - 1) :
        (w.line[i].kind \notin Alerts /\ w.line[i + 1].kind = "close_notify")
            => ClosesBehind(w.line[i], w.line[i + 1])
Closing(w, r) == CloseMeets(w, r) /\ CloseLinked(w)

CloseInv == \A s \in Side : Closing(out[s], in[Peer(s)])

\* A record sealed that is no close_notify leaves both as they are.
LEMMA AppendCloses ==
    ASSUME NEW w \in WriterType, NEW r, NEW x, NEW m \in RecordType,
           x.line = Append(w.line, m), m.kind # "close_notify", Closing(w, r)
    PROVE  Closing(x, r)
<1>1. w.line \in Seq(RecordType)
  BY DEF WriterType
<1>2. /\ Len(w.line) \in Nat /\ Len(x.line) = Len(w.line) + 1
      /\ \A i \in 1..Len(w.line) : x.line[i] = w.line[i]
      /\ x.line[Len(w.line) + 1] = m
  BY <1>1, AppendFacts
<1>3. CloseMeets(x, r)
  BY <1>2 DEF CloseMeets, Closing
<1>4. CloseLinked(x)
  <2> SUFFICES ASSUME NEW i \in 1..(Len(x.line) - 1),
                      x.line[i].kind \notin Alerts, x.line[i + 1].kind = "close_notify"
               PROVE  ClosesBehind(x.line[i], x.line[i + 1])
    BY DEF CloseLinked
  <2>1. i # Len(w.line)
    BY <1>2
  <2>2. i \in 1..(Len(w.line) - 1) /\ x.line[i] = w.line[i] /\ x.line[i + 1] = w.line[i + 1]
    BY <1>2, <2>1
  <2> QED BY <2>2 DEF Closing, CloseLinked
<1> QED BY <1>3, <1>4 DEF Closing

\* _pack_handshake seals a KeyUpdate or nothing.
LEMMA PackCloses ==
    ASSUME NEW w \in WriterType, NEW r, Closing(w, r)
    PROVE  Closing(Pack(w), r)
<1>1. CASE w.queued = "none"
  BY <1>1, PackFacts
<1>2. CASE w.queued # "none"
  <2> DEFINE m == Record(w.queued, w.gen, w.seq)
             x == Pack(w)
  <2>1. w.queued \in Kinds /\ w.queued \in KeyUpdates /\ x.line = Append(w.line, m)
    BY <1>2, PackFacts
  <2>2. m \in RecordType /\ m.kind # "close_notify"
    BY <2>1, SealFacts DEF KeyUpdates
  <2> HIDE DEF m, x
  <2>3. Closing(x, r)
    BY <2>1, <2>2, AppendCloses
  <2> QED BY <2>3 DEF x
<1> QED BY <1>1, <1>2

\* Neither do_handshake nor the answer to a request seals anything else.
LEMMA DriveCloses ==
    ASSUME NEW w \in WriterType, NEW r, Closing(w, r)
    PROVE  Closing(Drive(w), r) /\ \A m : Closing(Answer(w, m), r)
<1>1. ASSUME NEW p, Closing(p, r)
      PROVE  Closing(NewWriteKey(p), r)
  <2>1. NewWriteKey(p).line = p.line
    BY DEF NewWriteKey, Writer
  <2> QED BY <1>1, <2>1 DEF Closing, CloseMeets, CloseLinked
<1>2. Closing(Drive(w), r)
  BY <1>1, PackCloses DEF Drive
<1>3. ASSUME NEW m
      PROVE  Closing(Answer(w, m), r)
  <2> DEFINE q == Queue(w, w.state, "update")
  <2>1. q \in WriterType /\ q.line = w.line
    BY DEF Queue, Writer, WriterType, KeyUpdates
  <2> HIDE DEF q
  <2>2. Closing(q, r)
    BY <2>1 DEF Closing, CloseMeets, CloseLinked
  <2>3. Closing(NewWriteKey(Pack(q)), r)
    BY <1>1, <2>1, <2>2, PackCloses
  <2> QED BY <2>3 DEF Answer, q
<1> QED BY <1>2, <1>3

\* Data and fatal alerts are no close_notify.
LEMMA WriteCloses ==
    ASSUME NEW w \in WriterType, NEW r, NEW kind \in Kinds, kind # "close_notify",
           Closing(w, r)
    PROVE  Closing(Write(w, kind), r)
<1> DEFINE p == Pack(w)
           m == Record(kind, p.gen, p.seq)
           x == Write(w, kind)
<1>1. /\ p \in WriterType /\ m \in RecordType /\ m.kind = kind
      /\ x.line = Append(p.line, m)
  BY WriteFacts
<1>2. Closing(p, r)
  BY PackCloses
<1> HIDE DEF p, m, x
<1>3. Closing(x, r)
  BY <1>1, <1>2, AppendCloses
<1> QED BY <1>3 DEF x

\* shutdown(): the close_notify follows the line, or the KeyUpdate it has just packed.
LEMMA ShutdownCloses ==
    ASSUME NEW w \in WriterType, NEW r \in ReaderType, Chain(w, r), w.shut = "NONE",
           Closing(w, r)
    PROVE  Closing(ShutDown(Write(w, "close_notify"), "CLOSE_NOTIFY"), r)
<1> DEFINE p == Pack(w)
           m == Record("close_notify", p.gen, p.seq)
           y == Write(w, "close_notify")
           x == ShutDown(y, "CLOSE_NOTIFY")
<1>1. "close_notify" \in Kinds
  BY DEF Kinds
<1>2. /\ p \in WriterType /\ m \in RecordType /\ m.kind = "close_notify"
      /\ m.gen = p.gen /\ m.seq = p.seq /\ y.line = Append(p.line, m) /\ p.gen = w.gen
  BY <1>1, WriteFacts, PackFacts
<1>3. x.line = y.line
  BY DEF ShutDown, Writer
<1>4. Closing(p, r)
  BY PackCloses
<1>5. w.line \in Seq(RecordType) /\ p.line \in Seq(RecordType) /\ Len(w.line) \in Nat
  BY <1>2, LenProperties DEF WriterType
<1> HIDE DEF x, y, m
<1>6. /\ Len(p.line) \in Nat /\ Len(x.line) = Len(p.line) + 1
      /\ \A i \in 1..Len(p.line) : x.line[i] = p.line[i]
      /\ x.line[Len(p.line) + 1] = m
  BY <1>2, <1>3, <1>5, AppendFacts
<1>7. /\ Len(p.line) = 0 => (Active(r) => Opens(r, m))
      /\ Len(p.line) > 0 /\ p.line[Len(p.line)].kind \notin Alerts
            => ClosesBehind(p.line[Len(p.line)], m)
  <2>1. CASE w.queued = "none"
    <3>1. p = w
      BY <2>1, PackFacts
    <3> HIDE DEF p
    <3> QED BY <1>2, <3>1 DEF Chain, EmptyMeets, LastLeads, Opens, ClosesBehind
  <2>2. CASE w.queued # "none"
    <3> DEFINE k == Record(w.queued, w.gen, w.seq)
    <3>1. w.queued \in Kinds /\ w.queued \in KeyUpdates /\ p.line = Append(w.line, k)
      BY <2>2, PackFacts
    <3>2. k \in RecordType /\ k.kind = w.queued /\ k.gen = w.gen
      BY <3>1, SealFacts
    <3> HIDE DEF p, k
    <3>3. Len(p.line) = Len(w.line) + 1 /\ p.line[Len(w.line) + 1] = k
      BY <1>5, <3>1, <3>2, AppendFacts
    <3>4. Len(p.line) > 0 /\ p.line[Len(p.line)] = k
      BY <1>5, <3>3
    <3>5. ClosesBehind(k, m)
      BY <1>2, <3>1, <3>2 DEF ClosesBehind
    <3> QED BY <3>4, <3>5
  <2> QED BY <2>1, <2>2
<1> HIDE DEF p
<1>8. CloseMeets(x, r)
  <2>1. CASE Len(p.line) = 0
    BY <1>6, <1>7, <2>1 DEF CloseMeets
  <2>2. CASE Len(p.line) > 0
    BY <1>4, <1>6, <2>2 DEF CloseMeets, Closing
  <2> QED BY <1>6, <2>1, <2>2
<1>9. CloseLinked(x)
  <2> SUFFICES ASSUME NEW i \in 1..(Len(x.line) - 1),
                      x.line[i].kind \notin Alerts, x.line[i + 1].kind = "close_notify"
               PROVE  ClosesBehind(x.line[i], x.line[i + 1])
    BY DEF CloseLinked
  <2>1. CASE i = Len(p.line)
    BY <1>6, <1>7, <2>1
  <2>2. CASE i # Len(p.line)
    <3>1. i \in 1..(Len(p.line) - 1) /\ x.line[i] = p.line[i] /\ x.line[i + 1] = p.line[i + 1]
      BY <1>6, <2>2
    <3> QED BY <1>4, <3>1 DEF Closing, CloseLinked
  <2> QED BY <2>1, <2>2
<1> QED BY <1>8, <1>9 DEF Closing, x, y

\* Reading brings the next record to the reader, who knows what is behind the last.
LEMMA TakenCloses ==
    ASSUME NEW w \in WriterType, NEW r \in ReaderType, w.sent > 0, w.sent <= Len(w.line),
           Closing(w, r), Active(r)
    PROVE  /\ Opens(r, w.line[1]) => Closing(Taken(w), Opened(r, w.line[1]))
           /\ Closing(Taken(w), BadRecord(r))
<1> DEFINE x == Taken(w)
           m == w.line[1]
           q == Opened(r, m)
<1>1. /\ Len(w.line) \in Nat /\ Len(w.line) > 0 /\ Len(x.line) = Len(w.line) - 1
      /\ \A i \in 1..Len(x.line) : x.line[i] = w.line[i + 1]
      /\ m \in RecordType
  BY TakenFacts
<1> HIDE DEF x
<1>2. CloseLinked(x)
  <2> SUFFICES ASSUME NEW i \in 1..(Len(x.line) - 1),
                      x.line[i].kind \notin Alerts, x.line[i + 1].kind = "close_notify"
               PROVE  ClosesBehind(x.line[i], x.line[i + 1])
    BY DEF CloseLinked
  <2>1. i + 1 \in 1..(Len(w.line) - 1) /\ x.line[i] = w.line[i + 1]
        /\ x.line[i + 1] = w.line[(i + 1) + 1]
    BY <1>1
  <2> QED BY <2>1 DEF Closing, CloseLinked
<1>3. ASSUME Opens(r, m)
      PROVE  CloseMeets(x, q)
  <2> SUFFICES ASSUME Active(q), Len(x.line) > 0, x.line[1].kind = "close_notify"
               PROVE  Opens(q, x.line[1]) \/ Retired(x.line[1], q)
    BY DEF CloseMeets
  <2>1. m.kind \notin Alerts
    BY DEF Opened, Reader, Active, Alerts, KeyUpdates
  <2>2. Follows(m, q.gen, q.seq) /\ (m.kind \in KeyUpdates => q.gen = m.gen + 1 /\ q.seq = 0)
    BY <1>3, <2>1 DEF Opened, Reader, Alerts, KeyUpdates, Follows, Opens
  <2>3. 1 \in 1..(Len(w.line) - 1) /\ x.line[1] = w.line[1 + 1]
    BY <1>1
  <2>4. ClosesBehind(m, x.line[1])
    BY <2>1, <2>3 DEF Closing, CloseLinked
  <2> HIDE DEF m, q
  <2> QED BY <2>2, <2>4 DEF ClosesBehind, Follows, Opens, Retired
<1>4. CloseMeets(x, BadRecord(r))
  BY DEF CloseMeets, BadRecord, Reader, Active
<1> QED BY <1>2, <1>3, <1>4 DEF Closing, x

\* Every step keeps what is said of a close_notify.
LEMMA CloseStep ==
    ASSUME Inv, CloseInv, Next
    PROVE  CloseInv'
<1> USE DEF CloseInv
<1>1. ASSUME NEW s \in Side, NEW x, Closing(x, in[Peer(s)]),
             out' = [out EXCEPT ![s] = x], in' = in
      PROVE  CloseInv'
  <2>1. out \in [Side -> WriterType]
    BY DEF Inv, TypeOK
  <2>2. \A t \in Side : out'[t] = IF t = s THEN x ELSE out[t]
    BY <1>1, <2>1
  <2> QED BY <1>1, <2>2
<1>2. ASSUME NEW s \in Side, NEW kind \in KeyUpdates, UpdateKey(s, kind)
      PROVE  CloseInv'
  <2> DEFINE x == Queue(out[s], "PROCESS_UPDATE_TRAFFIC", kind)
  <2>1. out' = [out EXCEPT ![s] = x] /\ in' = in
    BY <1>2 DEF UpdateKey
  <2>2. x.line = out[s].line
    BY DEF Queue, Writer
  <2> HIDE DEF x
  <2>3. Closing(x, in[Peer(s)])
    BY <2>2 DEF Closing, CloseMeets, CloseLinked
  <2> QED BY <1>1, <2>1, <2>3
<1>3. ASSUME NEW s \in Side, DoHandshake(s)
      PROVE  CloseInv'
  <2>1. out' = [out EXCEPT ![s] = Drive(out[s])] /\ in' = in
    BY <1>3 DEF DoHandshake
  <2>2. Closing(Drive(out[s]), in[Peer(s)])
    BY InvFacts, DriveCloses
  <2> QED BY <1>1, <2>1, <2>2
<1>4. ASSUME NEW s \in Side, WriteData(s)
      PROVE  CloseInv'
  <2> DEFINE w == Drive(out[s])
             x == IF out[s].shut = "NONE" THEN Write(w, "data") ELSE w
  <2>1. out' = [out EXCEPT ![s] = x] /\ in' = in
    BY <1>4 DEF WriteData
  <2>2. w \in WriterType /\ Closing(w, in[Peer(s)])
    BY InvFacts, DriveChain, DriveCloses
  <2>3. "data" \in Kinds
    BY DEF Kinds
  <2> HIDE DEF w
  <2>4. Closing(x, in[Peer(s)])
    BY <2>2, <2>3, WriteCloses
  <2> HIDE DEF x
  <2> QED BY <1>1, <2>1, <2>4
<1>5. ASSUME NEW s \in Side, CloseNotify(s)
      PROVE  CloseInv'
  <2> DEFINE x == ShutDown(Write(out[s], "close_notify"), "CLOSE_NOTIFY")
  <2>1. out' = [out EXCEPT ![s] = x] /\ in' = in /\ out[s].shut = "NONE"
    BY <1>5 DEF CloseNotify
  <2>2. Closing(x, in[Peer(s)])
    BY <2>1, InvFacts, ShutdownCloses
  <2> HIDE DEF x
  <2> QED BY <1>1, <2>1, <2>2
<1>6. ASSUME NEW s \in Side, Read(s)
      PROVE  CloseInv'
  <2> DEFINE p == Peer(s)
             m == Head(out[p].line)
             w == Drive(out[s])
             x == IF Opens(in[s], m) THEN Answer(w, m) ELSE FatalAlert(w)
             q == IF Opens(in[s], m) THEN Opened(in[s], m) ELSE BadRecord(in[s])
  <2>1. /\ out[s] \in WriterType /\ out[p] \in WriterType /\ in[s] \in ReaderType
        /\ in[p] \in ReaderType /\ Chain(out[s], in[p])
        /\ out[s].sent <= Len(out[s].line) /\ out[p].sent <= Len(out[p].line)
    BY InvFacts
  <2>2. p \in Side /\ p # s /\ Peer(p) = s /\ \A t \in Side : t = s \/ t = p
    BY PeerFacts
  <2>3. Active(in[s]) /\ out[p].sent > 0
    BY <1>6 DEF Read, Usable, Active, Arrived
  <2>4. m = out[p].line[1]
    BY <2>1, <2>3, TakenFacts
  <2>5. Closing(Taken(out[p]), q)
    BY <2>1, <2>2, <2>3, <2>4, TakenCloses
  <2>6. w \in WriterType /\ Closing(w, in[p])
    BY <2>1, DriveChain, DriveCloses
  <2>7. Closing(FatalAlert(w), in[p])
    <3> HIDE DEF w
    <3>1. "fatal" \in Kinds
      BY DEF Kinds
    <3>2. Closing(Write(w, "fatal"), in[p])
      BY <2>6, <3>1, WriteCloses
    <3>3. ShutDown(Write(w, "fatal"), "ERROR").line = Write(w, "fatal").line
      BY DEF ShutDown, Writer
    <3>4. Closing(ShutDown(Write(w, "fatal"), "ERROR"), in[p])
      BY <3>2, <3>3 DEF Closing, CloseMeets, CloseLinked
    <3> QED BY <2>6, <3>4 DEF FatalAlert
  <2>8. Closing(x, in[p])
    BY <2>6, <2>7, DriveCloses
  <2>9. in' = [in EXCEPT ![s] = q] /\ out' = [out EXCEPT ![s] = x, ![p] = Taken(out[p])]
    <3>1. out \in [Side -> WriterType]
      BY DEF Inv, TypeOK
    <3> QED BY <1>6, <2>2, <3>1 DEF Read
  <2> HIDE DEF p, m, w, x, q
  <2>10. out'[s] = x /\ out'[p] = Taken(out[p]) /\ in'[s] = q /\ in'[p] = in[p]
    BY <2>2, <2>9 DEF Inv, TypeOK
  <2>11. Closing(out'[s], in'[Peer(s)]) /\ Closing(out'[p], in'[Peer(p)])
    BY <2>2, <2>5, <2>8, <2>10 DEF p
  <2> QED BY <2>2, <2>11
<1> QED BY <1>2, <1>3, <1>4, <1>5, <1>6 DEF Next

\* There is no close_notify when the handshake completes.
LEMMA CloseInit == Init => CloseInv
<1> SUFFICES ASSUME Init, NEW s \in Side PROVE Closing(out[s], in[Peer(s)])
  BY DEF CloseInv
<1>1. Inv
  BY InitInv
<1>2. out[s].shut = "NONE"
  BY DEF Init, NewWriter, Writer
<1>3. out[s] \in WriterType /\ Chain(out[s], in[Peer(s)]) /\ Len(out[s].line) \in Nat
  BY <1>1, InvFacts, LenProperties DEF WriterType
<1>4. \A i \in 1..Len(out[s].line) : out[s].line[i].kind # "close_notify"
  BY <1>2, <1>3 DEF Chain, AlertOnItsWay
<1> QED BY <1>3, <1>4 DEF Closing, CloseMeets, CloseLinked

\* The record that a step fails to open is a close_notify under the retired key.
LEMMA FailsOnlyRetired ==
    ASSUME Inv, CloseInv, Next, NEW s \in Side,
           in[s].err = "none", in'[s].err = "bad_record_mac"
    PROVE  LET m == Head(out[Peer(s)].line)
           IN m.kind = "close_notify" /\ in[s].gen = m.gen + 1 /\ in[s].seq = 0
<1> DEFINE w == out[Peer(s)]
           m == Head(w.line)
<1>1. in' # in
  OBVIOUS
<1>2. PICK t \in Side : Read(t)
  BY <1>1 DEF Next, UpdateKey, DoHandshake, WriteData, CloseNotify
<1>3. in \in [Side -> ReaderType]
  BY DEF Inv, TypeOK
<1>4. t = s
  BY <1>2, <1>3 DEF Read
<1>5. Read(s)
  BY <1>2, <1>4
<1>6. /\ w \in WriterType /\ w.sent > 0 /\ w.sent <= Len(w.line) /\ Active(in[s])
      /\ Chain(w, in[s]) /\ Closing(w, in[s])
  BY <1>5, InvFacts, PeerFacts DEF Read, Usable, Active, Arrived, CloseInv
<1>7. m = w.line[1] /\ Len(w.line) > 0 /\ m \in RecordType
  BY <1>6, TakenFacts
<1>8. ~Opens(in[s], m)
  <2> SUFFICES ASSUME Opens(in[s], m) PROVE FALSE
    OBVIOUS
  <2>1. in'[s] = Opened(in[s], m)
    BY <1>3, <1>5 DEF Read
  <2> HIDE DEF m
  <2>2. Opened(in[s], m).err \in {in[s].err, "remote_alert"}
    BY DEF Opened, Reader
  <2> QED BY <2>1, <2>2
<1> HIDE DEF w, m
<1>9. m.kind = "close_notify"
  BY <1>6, <1>7, <1>8 DEF Chain, HeadOpens
<1>10. Retired(m, in[s])
  BY <1>6, <1>7, <1>8, <1>9 DEF Closing, CloseMeets
<1> QED BY <1>9, <1>10 DEF Retired, w, m

\* For any number of updates, answers and writes, the only record that a side fails to open
\* is a close_notify directly behind a KeyUpdate, under the key the KeyUpdate retired: the
\* one that shutdown() seals between update_key() and the call that completes it.
THEOREM OnlyRetiredCloseFails == Spec => CloseFailsOnlyBehindUpdate
<1>1. Init => CloseInv
  BY CloseInit
<1>2. Inv /\ CloseInv /\ [Next]_vars => CloseInv'
  <2> SUFFICES ASSUME Inv, CloseInv, [Next]_vars PROVE CloseInv'
    OBVIOUS
  <2>1. CASE Next
    BY <2>1, CloseStep
  <2>2. CASE UNCHANGED vars
    BY <2>2 DEF vars, CloseInv
  <2> QED BY <2>1, <2>2
<1> DEFINE Fails ==
      \A s \in Side :
          (in[s].err = "none" /\ in'[s].err = "bad_record_mac") =>
              LET m == Head(out[Peer(s)].line)
              IN m.kind = "close_notify" /\ in[s].gen = m.gen + 1 /\ in[s].seq = 0
<1>3. Inv /\ CloseInv /\ [Next]_vars => [Fails]_vars
  BY FailsOnlyRetired
<1> QED BY <1>1, <1>2, <1>3, Invariance, PTL DEF Spec, CloseFailsOnlyBehindUpdate

-----------------------------------------------------------------------------
(* Counting the requests of a line: by the positions they stand at, one    *)
(* more when a record is sealed and the same ones, shifted, when one is    *)
(* read.                                                                   *)

At(l) == {i \in 1..Len(l) : l[i].kind = "request"}
IsRequest(m) == IF m.kind = "request" THEN 1 ELSE 0

\* The positions of a line are finitely many.
LEMMA AtFinite ==
    ASSUME NEW l \in Seq(RecordType)
    PROVE  IsFiniteSet(At(l)) /\ Cardinality(At(l)) \in Nat
<1>1. Len(l) \in Nat
  BY LenProperties
<1>2. IsFiniteSet(1..Len(l))
  BY <1>1, FS_Interval
<1>3. At(l) \subseteq 1..Len(l)
  BY DEF At
<1>4. IsFiniteSet(At(l))
  BY <1>2, <1>3, FS_Subset
<1> QED BY <1>4, FS_CardinalityType

\* A record sealed adds its position if it is a request.
LEMMA AtAppend ==
    ASSUME NEW l \in Seq(RecordType), NEW m \in RecordType
    PROVE  Cardinality(At(Append(l, m))) = Cardinality(At(l)) + IsRequest(m)
<1> DEFINE n == Len(l) + 1
           k == Append(l, m)
<1>1. /\ Len(l) \in Nat /\ Len(k) = n
      /\ \A i \in 1..Len(l) : k[i] = l[i]
      /\ k[n] = m
  BY AppendFacts
<1>2. IsFiniteSet(At(l)) /\ Cardinality(At(l)) \in Nat
  BY AtFinite
<1> HIDE DEF k
<1>3. n \notin At(l)
  BY <1>1 DEF At
<1>4. CASE m.kind = "request"
  <2>1. At(k) = At(l) \cup {n}
    BY <1>1, <1>4 DEF At
  <2>2. Cardinality(At(l) \cup {n}) = Cardinality(At(l)) + 1
    <3> HIDE DEF n
    <3> QED BY <1>2, <1>3, FS_AddElement
  <2> QED BY <1>4, <2>1, <2>2 DEF IsRequest, k
<1>5. CASE m.kind # "request"
  <2>1. At(k) = At(l)
    BY <1>1, <1>5 DEF At
  <2> QED BY <1>2, <1>5, <2>1 DEF IsRequest, k
<1> QED BY <1>4, <1>5

\* The first record read takes its own position away and shifts the others.
LEMMA AtTail ==
    ASSUME NEW l \in Seq(RecordType), Len(l) > 0
    PROVE  Cardinality(At(l)) = Cardinality(At(Tail(l))) + IsRequest(l[1])
<1> DEFINE k == Tail(l)
           rest == At(l) \ {1}
           shift == [i \in rest |-> i - 1]
<1>1. /\ Len(l) \in Nat /\ k \in Seq(RecordType) /\ Len(k) = Len(l) - 1
      /\ \A i \in 1..Len(k) : k[i] = l[i + 1]
  <2>1. Len(l) \in Nat /\ l # <<>>
    BY LenProperties
  <2> QED BY <2>1, HeadTailProperties
<1>2. IsFiniteSet(At(l)) /\ Cardinality(At(l)) \in Nat
  BY AtFinite
<1>3. /\ IsFiniteSet(rest)
      /\ Cardinality(rest) = IF 1 \in At(l) THEN Cardinality(At(l)) - 1 ELSE Cardinality(At(l))
  BY <1>2, FS_RemoveElement
<1> HIDE DEF k
<1>4. \A i \in rest : i \in 2..Len(l) /\ l[i].kind = "request"
  BY <1>1 DEF At
<1>5. shift \in [rest -> At(k)]
  <2> SUFFICES ASSUME NEW i \in rest
               PROVE  i - 1 \in At(k)
    OBVIOUS
  <2>1. i - 1 \in 1..Len(k) /\ k[i - 1] = l[i]
    BY <1>1, <1>4
  <2> QED BY <1>4, <2>1 DEF At
<1>6. \A j \in At(k) : j + 1 \in rest /\ (j + 1) - 1 = j
  BY <1>1 DEF At
<1>7. \A i, j \in rest : shift[i] = shift[j] => i = j
  BY <1>1, <1>4
<1>8. \A j \in At(k) : \E i \in rest : shift[i] = j
  BY <1>6
<1> HIDE DEF rest, shift
<1>9. shift \in Bijection(rest, At(k))
  BY <1>5, <1>7, <1>8 DEF Bijection, Injection, IsInjective, Surjection
<1>10. Cardinality(At(k)) = Cardinality(rest)
  <2>1. ExistsBijection(rest, At(k))
    BY <1>9 DEF ExistsBijection
  <2> QED BY <1>3, <2>1, FS_Bijection
<1>11. 1 \in At(l) <=> l[1].kind = "request"
  BY <1>1 DEF At
<1> QED BY <1>2, <1>3, <1>10, <1>11 DEF IsRequest, k

-----------------------------------------------------------------------------
(* The requests of a writing half through the steps of a call              *)

\* The key changes of w, done or about to be done
Changes(w) == w.gen + (IF w.state = "DONE" THEN 0 ELSE 1)

\* The line and what is queued are all that counts.
LEMMA RequestsFacts ==
    ASSUME NEW w \in WriterType
    PROVE  /\ Requests(w) = Cardinality(At(w.line)) + (IF w.queued = "request" THEN 1 ELSE 0)
           /\ Requests(w) \in Nat /\ Cardinality(At(w.line)) \in Nat /\ Changes(w) \in Nat
<1>1. w.line \in Seq(RecordType) /\ w.gen \in Nat
  BY DEF WriterType
<1>2. Cardinality(At(w.line)) \in Nat
  BY <1>1, AtFinite
<1>3. Requests(w) = Cardinality(At(w.line)) + (IF w.queued = "request" THEN 1 ELSE 0)
  BY DEF Requests, At
<1> QED BY <1>1, <1>2, <1>3 DEF Changes

\* A request that is sealed is no longer queued.
LEMMA PackRequests ==
    ASSUME NEW w \in WriterType
    PROVE  Requests(Pack(w)) = Requests(w) /\ Changes(Pack(w)) = Changes(w)
<1>1. CASE w.queued = "none"
  BY <1>1, PackFacts
<1>2. CASE w.queued # "none"
  <2> DEFINE m == Record(w.queued, w.gen, w.seq)
             p == Pack(w)
  <2>1. /\ p \in WriterType /\ p.line = Append(w.line, m) /\ p.queued = "none"
        /\ p.state = w.state /\ p.gen = w.gen /\ w.queued \in Kinds
    BY <1>2, PackFacts
  <2>2. m \in RecordType /\ m.kind = w.queued
    BY <2>1, SealFacts
  <2> HIDE DEF m, p
  <2>3. w.line \in Seq(RecordType)
    BY DEF WriterType
  <2>4. Cardinality(At(p.line)) = Cardinality(At(w.line)) + IsRequest(m)
    BY <2>1, <2>2, <2>3, AtAppend
  <2>5. Requests(p) = Requests(w)
    <3>1. /\ Requests(p) = Cardinality(At(p.line)) + 0 /\ Cardinality(At(p.line)) \in Nat
          /\ Requests(w) = Cardinality(At(w.line)) + (IF w.queued = "request" THEN 1 ELSE 0)
      BY <2>1, RequestsFacts
    <3>2. IsRequest(m) = IF w.queued = "request" THEN 1 ELSE 0
      BY <2>2 DEF IsRequest
    <3> QED BY <2>4, <3>1, <3>2
  <2> QED BY <2>1, <2>5 DEF Changes, p
<1> QED BY <1>1, <1>2

\* Changing the key counts what was about to be done as done.
LEMMA DriveRequests ==
    ASSUME NEW w \in WriterType
    PROVE  Requests(Drive(w)) = Requests(w) /\ Changes(Drive(w)) = Changes(w)
<1>1. CASE w.state = "DONE"
  BY <1>1 DEF Drive
<1>2. CASE w.state # "DONE"
  <2> DEFINE p == Pack(w)
             x == NewWriteKey(p)
  <2>1. Drive(w) = x /\ p \in WriterType /\ p.gen = w.gen /\ p.queued = "none"
    BY <1>2, PackFacts DEF Drive
  <2> HIDE DEF p
  <2>2. /\ x.line = p.line /\ x.queued = p.queued /\ x.gen = p.gen + 1 /\ x.state = "DONE"
    BY DEF NewWriteKey, Writer
  <2>3. Requests(x) = Requests(p)
    BY <2>2 DEF Requests
  <2>4. w.gen \in Nat
    BY DEF WriterType
  <2>5. Changes(x) = Changes(w)
    BY <1>2, <2>1, <2>2, <2>4 DEF Changes
  <2> QED BY <2>1, <2>3, <2>5, PackRequests DEF p
<1> QED BY <1>1, <1>2

\* Data and alerts are no requests.
LEMMA WriteRequests ==
    ASSUME NEW w \in WriterType, NEW kind \in Kinds, kind # "request"
    PROVE  Requests(Write(w, kind)) = Requests(w) /\ Changes(Write(w, kind)) = Changes(w)
<1> DEFINE p == Pack(w)
           m == Record(kind, p.gen, p.seq)
           x == Write(w, kind)
<1>1. /\ p \in WriterType /\ m \in RecordType /\ m.kind = kind
      /\ x \in WriterType /\ x.line = Append(p.line, m)
      /\ x.gen = w.gen /\ x.state = w.state /\ x.queued = "none"
  BY WriteFacts
<1>2. p.queued = "none" /\ Requests(p) = Requests(w)
  BY PackFacts, PackRequests
<1> HIDE DEF x, m, p
<1>3. p.line \in Seq(RecordType)
  BY <1>1 DEF WriterType
<1>4. Cardinality(At(x.line)) = Cardinality(At(p.line)) + IsRequest(m)
  BY <1>1, <1>3, AtAppend
<1>5. Requests(x) = Requests(p)
  <2>1. /\ Requests(x) = Cardinality(At(x.line)) + 0
        /\ Requests(p) = Cardinality(At(p.line)) + 0 /\ Cardinality(At(p.line)) \in Nat
    BY <1>1, <1>2, RequestsFacts
  <2>2. IsRequest(m) = 0
    BY <1>1 DEF IsRequest
  <2> QED BY <1>4, <2>1, <2>2
<1> QED BY <1>1, <1>2, <1>5 DEF Changes, x

\* Shutting down only marks the half.
LEMMA ShutDownRequests ==
    ASSUME NEW w, NEW how
    PROVE  Requests(ShutDown(w, how)) = Requests(w) /\ Changes(ShutDown(w, how)) = Changes(w)
<1>1. /\ ShutDown(w, how).line = w.line /\ ShutDown(w, how).queued = w.queued
      /\ ShutDown(w, how).gen = w.gen /\ ShutDown(w, how).state = w.state
  BY DEF ShutDown, Writer
<1> QED BY <1>1 DEF Requests, Changes

\* A request is answered by one key change, and anything else by none.
LEMMA AnswerRequests ==
    ASSUME NEW w \in WriterType, w.state = "DONE", w.queued = "none", NEW m
    PROVE  /\ Requests(Answer(w, m)) = Requests(w)
           /\ Changes(Answer(w, m)) = Changes(w) + IsRequest(m)
<1>1. Changes(w) \in Nat
  BY RequestsFacts
<1>2. CASE m.kind # "request"
  BY <1>1, <1>2 DEF Answer, IsRequest
<1>3. CASE m.kind = "request"
  <2> DEFINE q == Queue(w, w.state, "update")
             p == Pack(q)
             x == NewWriteKey(p)
  <2>1. /\ q \in WriterType /\ q.queued = "update" /\ q.line = w.line /\ q.gen = w.gen
    BY DEF Queue, Writer, WriterType, KeyUpdates
  <2>2. Requests(q) = Requests(w)
    BY <2>1 DEF Requests
  <2>3. Answer(w, m) = x
    BY <1>3 DEF Answer
  <2> HIDE DEF q
  <2>4. p.gen = w.gen /\ Requests(p) = Requests(q)
    BY <2>1, PackFacts, PackRequests
  <2> HIDE DEF p
  <2>5. x.line = p.line /\ x.queued = p.queued /\ x.gen = p.gen + 1 /\ x.state = "DONE"
    BY DEF NewWriteKey, Writer
  <2>6. Requests(x) = Requests(p)
    BY <2>5 DEF Requests
  <2>7. w.gen \in Nat
    BY DEF WriterType
  <2>8. Changes(x) = Changes(w) + 1
    BY <2>4, <2>5, <2>7 DEF Changes
  <2> QED BY <1>3, <2>2, <2>3, <2>4, <2>6, <2>8 DEF IsRequest
<1> QED BY <1>2, <1>3

\* A record read is counted no longer.
LEMMA TakenRequests ==
    ASSUME NEW w \in WriterType, w.sent > 0, w.sent <= Len(w.line)
    PROVE  /\ Requests(w) = Requests(Taken(w)) + IsRequest(w.line[1])
           /\ Changes(Taken(w)) = Changes(w)
<1>1. /\ Taken(w) \in WriterType /\ Taken(w).queued = w.queued /\ Taken(w).gen = w.gen
      /\ Taken(w).state = w.state /\ Len(w.line) > 0
  BY TakenFacts
<1>2. Taken(w).line = Tail(w.line) /\ w.line \in Seq(RecordType)
  BY DEF Taken, Writer, WriterType
<1>3. Cardinality(At(w.line)) = Cardinality(At(Taken(w).line)) + IsRequest(w.line[1])
  BY <1>1, <1>2, AtTail
<1>4. Requests(w) = Requests(Taken(w)) + IsRequest(w.line[1])
  BY <1>1, <1>3, RequestsFacts DEF IsRequest
<1> QED BY <1>1, <1>4 DEF Changes

-----------------------------------------------------------------------------
(* The invariant                                                           *)

Counts == [updates : Nat, requests : Nat, writes : Nat]

\* The equation of one side, over the counters of both
Answered(w, c, x, d) == Changes(w) = c.updates + d.requests - Requests(x)

\* RequestsAnswered, side by side
LEMMA AnsweredBySide ==
    RequestsAnswered <=>
        \A s \in Side : Answered(out[s], calls[s], out[Peer(s)], calls[Peer(s)])
BY DEF RequestsAnswered, Answered, Changes

\* A step of s that adds du key changes and dr requests to its counters and to its half
LEMMA AnsweredStep ==
    ASSUME Inv, RequestsAnswered, NEW s \in Side, NEW w \in WriterType, NEW c \in Counts,
           NEW du \in {0, 1}, NEW dr \in {0, 1},
           out' = [out EXCEPT ![s] = w], calls' = [calls EXCEPT ![s] = c],
           Changes(w) = Changes(out[s]) + du, Requests(w) = Requests(out[s]) + dr,
           c.updates = calls[s].updates + du, c.requests = calls[s].requests + dr
    PROVE  RequestsAnswered'
<1> DEFINE p == Peer(s)
<1>1. p \in Side /\ p # s /\ Peer(p) = s /\ \A t \in Side : t = s \/ t = p
  BY PeerFacts
<1>2. out \in [Side -> WriterType] /\ calls \in [Side -> Counts]
  BY DEF Inv, TypeOK, Counts
<1>3. /\ Changes(out[s]) \in Nat /\ Requests(out[s]) \in Nat
      /\ Changes(out[p]) \in Nat /\ Requests(out[p]) \in Nat
  BY <1>1, <1>2, RequestsFacts
<1>4. /\ calls[s].updates \in Nat /\ calls[s].requests \in Nat
      /\ calls[p].updates \in Nat /\ calls[p].requests \in Nat
  BY <1>1, <1>2 DEF Counts
<1>5. /\ Answered(out[s], calls[s], out[p], calls[p])
      /\ Answered(out[p], calls[p], out[s], calls[s])
  BY <1>1, AnsweredBySide
<1>6. out'[s] = w /\ out'[p] = out[p] /\ calls'[s] = c /\ calls'[p] = calls[p]
  BY <1>1, <1>2
<1> HIDE DEF p
<1>7. Answered(w, c, out[p], calls[p])
  BY <1>3, <1>4, <1>5 DEF Answered
<1>8. Answered(out[p], calls[p], w, c)
  BY <1>3, <1>4, <1>5 DEF Answered
<1>9. Answered(out'[s], calls'[s], out'[p], calls'[p])
  BY <1>6, <1>7
<1>10. Answered(out'[p], calls'[p], out'[s], calls'[s])
  BY <1>6, <1>8
<1>11. \A t \in Side : Answered(out'[t], calls'[t], out'[Peer(t)], calls'[Peer(t)])
  BY <1>1, <1>9, <1>10 DEF p
<1> QED BY <1>11 DEF RequestsAnswered, Answered, Changes

\* read(): the request taken from the peer's line is answered in the same step.
LEMMA AnsweredRead ==
    ASSUME Inv, RequestsAnswered, NEW s \in Side, Read(s)
    PROVE  RequestsAnswered'
<1> DEFINE p == Peer(s)
           m == Head(out[p].line)
           w == Drive(out[s])
           x == IF Opens(in[s], m) THEN Answer(w, m) ELSE FatalAlert(w)
           y == Taken(out[p])
<1>1. /\ out[s] \in WriterType /\ in[s] \in ReaderType
      /\ out[p] \in WriterType /\ in[p] \in ReaderType
      /\ out[s].sent <= Len(out[s].line) /\ out[p].sent <= Len(out[p].line)
      /\ Chain(out[s], in[p]) /\ Chain(out[p], in[s])
  BY InvFacts
<1>2. Active(in[s]) /\ out[p].sent > 0
  BY DEF Read, Usable, Active, Arrived
<1>3. /\ w \in WriterType /\ w.state = "DONE" /\ w.queued = "none"
      /\ Requests(w) = Requests(out[s]) /\ Changes(w) = Changes(out[s])
  BY <1>1, DriveChain, DriveRequests
<1>4. m = out[p].line[1] /\ Len(out[p].line) > 0 /\ y \in WriterType
  BY <1>1, <1>2, TakenFacts
<1>5. Requests(out[p]) = Requests(y) + IsRequest(m) /\ Changes(y) = Changes(out[p])
  BY <1>1, <1>2, <1>4, TakenRequests
<1>6. Requests(x) = Requests(out[s]) /\ Changes(x) = Changes(out[s]) + IsRequest(m)
  <2>1. CASE Opens(in[s], m)
    BY <1>3, <2>1, AnswerRequests
  <2>2. CASE ~Opens(in[s], m)
    <3>1. m.kind = "close_notify"
      BY <1>1, <1>2, <1>4, <2>2 DEF Chain, HeadOpens
    <3>2. IsRequest(m) = 0
      BY <3>1 DEF IsRequest
    <3>3. Requests(FatalAlert(w)) = Requests(w) /\ Changes(FatalAlert(w)) = Changes(w)
      <4>1. "fatal" \in Kinds
        BY DEF Kinds
      <4> HIDE DEF w
      <4>2. /\ Requests(Write(w, "fatal")) = Requests(w)
            /\ Changes(Write(w, "fatal")) = Changes(w)
        BY <1>3, <4>1, WriteRequests
      <4> QED BY <4>2, ShutDownRequests DEF FatalAlert
    <3>4. Changes(out[s]) \in Nat
      BY <1>1, RequestsFacts
    <3> QED BY <1>3, <2>2, <3>2, <3>3, <3>4
  <2> QED BY <2>1, <2>2
<1>7. out' = [out EXCEPT ![s] = x, ![p] = y] /\ calls' = calls
  <2>1. p # s /\ p \in Side
    BY PeerFacts
  <2>2. out \in [Side -> WriterType]
    BY DEF Inv, TypeOK
  <2> QED BY <2>1, <2>2 DEF Read
<1>8. p \in Side /\ p # s /\ Peer(p) = s /\ \A t \in Side : t = s \/ t = p
  BY PeerFacts
<1>9. out \in [Side -> WriterType] /\ calls \in [Side -> Counts]
  BY DEF Inv, TypeOK, Counts
<1>10. /\ Changes(out[s]) \in Nat /\ Requests(out[s]) \in Nat
       /\ Changes(out[p]) \in Nat /\ Requests(y) \in Nat /\ IsRequest(m) \in Nat
  BY <1>1, <1>4, RequestsFacts DEF IsRequest
<1>11. /\ calls[s].updates \in Nat /\ calls[s].requests \in Nat
       /\ calls[p].updates \in Nat /\ calls[p].requests \in Nat
  BY <1>8, <1>9 DEF Counts
<1>12. /\ Answered(out[s], calls[s], out[p], calls[p])
       /\ Answered(out[p], calls[p], out[s], calls[s])
  BY <1>8, AnsweredBySide
<1> HIDE DEF p, m, w, x, y
<1>13. out'[s] = x /\ out'[p] = y
  BY <1>7, <1>8, <1>9
<1>14. Answered(x, calls[s], y, calls[p])
  BY <1>5, <1>6, <1>10, <1>11, <1>12 DEF Answered
<1>15. Answered(y, calls[p], x, calls[s])
  BY <1>5, <1>6, <1>10, <1>11, <1>12 DEF Answered
<1>16. /\ Answered(out'[s], calls'[s], out'[p], calls'[p])
       /\ Answered(out'[p], calls'[p], out'[s], calls'[s])
  BY <1>7, <1>13, <1>14, <1>15
<1>17. \A t \in Side : Answered(out'[t], calls'[t], out'[Peer(t)], calls'[Peer(t)])
  BY <1>8, <1>16 DEF p
<1> QED BY <1>17 DEF RequestsAnswered, Answered, Changes

\* Every step keeps the balance of key changes and requests.
LEMMA AnsweredNext ==
    ASSUME Inv, RequestsAnswered, Next
    PROVE  RequestsAnswered'
<1>1. calls \in [Side -> Counts]
  BY DEF Inv, TypeOK, Counts
<1>2. \A s \in Side : /\ calls[s] \in Counts /\ calls[s].updates \in Nat
                      /\ calls[s].requests \in Nat
  BY <1>1 DEF Counts
<1>3. \A s \in Side : /\ out[s] \in WriterType
                      /\ Changes(out[s]) \in Nat /\ Requests(out[s]) \in Nat
  BY InvFacts, RequestsFacts
<1>4. ASSUME NEW s \in Side, NEW w \in WriterType,
             out' = [out EXCEPT ![s] = w], calls' = calls,
             Changes(w) = Changes(out[s]), Requests(w) = Requests(out[s])
      PROVE  RequestsAnswered'
  <2>1. calls' = [calls EXCEPT ![s] = calls[s]]
    BY <1>1, <1>4
  <2>2. /\ Changes(w) = Changes(out[s]) + 0 /\ Requests(w) = Requests(out[s]) + 0
        /\ calls[s].updates = calls[s].updates + 0 /\ calls[s].requests = calls[s].requests + 0
    BY <1>2, <1>3, <1>4
  <2> QED BY <1>2, <1>4, <2>1, <2>2, AnsweredStep
<1>5. ASSUME NEW s \in Side, NEW kind \in KeyUpdates, UpdateKey(s, kind)
      PROVE  RequestsAnswered'
  <2> DEFINE w == out[s]
             x == Queue(w, "PROCESS_UPDATE_TRAFFIC", kind)
             dr == IF kind = "request" THEN 1 ELSE 0
             c == Calls(calls[s].updates + 1, calls[s].requests + dr, calls[s].writes)
  <2>1. /\ out' = [out EXCEPT ![s] = x] /\ calls' = [calls EXCEPT ![s] = c]
        /\ w.state = "DONE"
    BY <1>5 DEF UpdateKey
  <2>2. w \in WriterType /\ w.queued = "none"
    BY <2>1, InvFacts DEF Chain, UpdateInHand
  <2>3. /\ x \in WriterType /\ x.gen = w.gen /\ x.line = w.line /\ x.queued = kind
        /\ x.state = "PROCESS_UPDATE_TRAFFIC"
    BY <2>2 DEF Queue, Writer, WriterType
  <2>4. /\ c \in Counts /\ c.updates = calls[s].updates + 1
        /\ c.requests = calls[s].requests + dr /\ dr \in {0, 1}
    BY <1>2 DEF Calls, Counts
  <2> HIDE DEF x, c
  <2>5. Changes(x) = Changes(w) + 1
    BY <2>1, <2>2, <2>3 DEF Changes, WriterType
  <2>6. Requests(x) = Requests(w) + dr
    <3>1. /\ Requests(x) = Cardinality(At(w.line)) + dr
          /\ Requests(w) = Cardinality(At(w.line)) + 0 /\ Cardinality(At(w.line)) \in Nat
      BY <2>2, <2>3, RequestsFacts
    <3> QED BY <3>1, <2>4
  <2> HIDE DEF dr
  <2> QED BY <2>1, <2>3, <2>4, <2>5, <2>6, AnsweredStep DEF w
<1>6. ASSUME NEW s \in Side, DoHandshake(s)
      PROVE  RequestsAnswered'
  <2>1. out' = [out EXCEPT ![s] = Drive(out[s])] /\ calls' = calls
    BY <1>6 DEF DoHandshake
  <2>2. Drive(out[s]) \in WriterType
    BY InvFacts, DriveChain
  <2> QED BY <1>3, <1>4, <2>1, <2>2, DriveRequests
<1>7. ASSUME NEW s \in Side, WriteData(s)
      PROVE  RequestsAnswered'
  <2> DEFINE w == Drive(out[s])
             x == IF out[s].shut = "NONE" THEN Write(w, "data") ELSE w
             c == Calls(calls[s].updates, calls[s].requests, calls[s].writes + 1)
  <2>1. w \in WriterType /\ Requests(w) = Requests(out[s]) /\ Changes(w) = Changes(out[s])
    BY <1>3, InvFacts, DriveChain, DriveRequests
  <2>2. out' = [out EXCEPT ![s] = x] /\ calls' = [calls EXCEPT ![s] = c]
    BY <1>7 DEF WriteData
  <2>3. "data" \in Kinds
    BY DEF Kinds
  <2> HIDE DEF w
  <2>4. x \in WriterType /\ Requests(x) = Requests(w) /\ Changes(x) = Changes(w)
    BY <2>1, <2>3, WriteRequests, WriteFacts
  <2>5. c \in Counts /\ c.updates = calls[s].updates + 0 /\ c.requests = calls[s].requests + 0
    BY <1>2 DEF Calls, Counts
  <2> HIDE DEF x, c
  <2>6. Changes(x) = Changes(out[s]) + 0 /\ Requests(x) = Requests(out[s]) + 0
    BY <1>3, <2>1, <2>4
  <2> QED BY <2>2, <2>4, <2>5, <2>6, AnsweredStep
<1>8. ASSUME NEW s \in Side, CloseNotify(s)
      PROVE  RequestsAnswered'
  <2> DEFINE y == Write(out[s], "close_notify")
             x == ShutDown(y, "CLOSE_NOTIFY")
  <2>1. out' = [out EXCEPT ![s] = x] /\ calls' = calls /\ out[s].shut = "NONE"
    BY <1>8 DEF CloseNotify
  <2>2. "close_notify" \in Kinds
    BY DEF Kinds
  <2>3. x \in WriterType
    BY <2>1, InvFacts, CloseChain
  <2>4. Requests(y) = Requests(out[s]) /\ Changes(y) = Changes(out[s])
    BY <1>3, <2>2, WriteRequests
  <2> HIDE DEF y
  <2>5. Requests(x) = Requests(y) /\ Changes(x) = Changes(y)
    BY ShutDownRequests
  <2> HIDE DEF x
  <2> QED BY <1>4, <2>1, <2>3, <2>4, <2>5
<1>9. ASSUME NEW s \in Side, Read(s)
      PROVE  RequestsAnswered'
  BY <1>9, AnsweredRead
<1> QED BY <1>5, <1>6, <1>7, <1>8, <1>9 DEF Next

\* At first no key was changed, nothing was asked and tickets are no requests.
LEMMA AnsweredInit == Init => RequestsAnswered
<1> SUFFICES ASSUME Init PROVE RequestsAnswered
  OBVIOUS
<1>1. PICK tickets \in {<<>>, <<Record("ticket", 0, 0)>>} :
         out = [s \in Side |-> NewWriter(IF s = Server THEN tickets ELSE <<>>)]
  BY DEF Init
<1>2. \A s \in Side : \E l \in {<<>>, <<Record("ticket", 0, 0)>>} : out[s] = NewWriter(l)
  BY <1>1
<1>3. ASSUME NEW l \in {<<>>, <<Record("ticket", 0, 0)>>}
      PROVE  Changes(NewWriter(l)) = 0 /\ Requests(NewWriter(l)) = 0
  <2>1. /\ NewWriter(l).line = l /\ NewWriter(l).queued = "none" /\ NewWriter(l).gen = 0
        /\ NewWriter(l).state = "DONE"
    BY DEF NewWriter, Writer
  <2>2. \A i \in 1..Len(l) : l[i].kind # "request"
    <3>1. CASE l = <<>>
      BY <3>1
    <3>2. CASE l = <<Record("ticket", 0, 0)>>
      <4>1. Len(l) = 1 /\ l[1] = Record("ticket", 0, 0)
        BY <3>2
      <4> QED BY <4>1 DEF Record
    <3> QED BY <3>1, <3>2
  <2>3. {i \in 1..Len(l) : l[i].kind = "request"} = {}
    BY <2>2
  <2>4. Requests(NewWriter(l)) = Cardinality({}) + 0
    BY <2>1, <2>3 DEF Requests
  <2> QED BY <2>1, <2>4, FS_EmptySet DEF Changes
<1>4. \A s \in Side : Changes(out[s]) = 0 /\ Requests(out[s]) = 0
  BY <1>2, <1>3
<1>5. \A s \in Side : calls[s].updates = 0 /\ calls[s].requests = 0
  BY DEF Init, Calls
<1>6. \A s \in Side : Answered(out[s], calls[s], out[Peer(s)], calls[Peer(s)])
  BY <1>4, <1>5, PeerFacts DEF Answered
<1> QED BY <1>6, AnsweredBySide

\* A side changes its write key once for each of its updates and once for each request it
\* has read, however updates, answers, writes and closes interleave.
THEOREM EveryRequestAnswered == Spec => []RequestsAnswered
<1>1. Init => RequestsAnswered
  BY AnsweredInit
<1>2. Inv /\ RequestsAnswered /\ [Next]_vars => RequestsAnswered'
  <2> SUFFICES ASSUME Inv, RequestsAnswered, [Next]_vars PROVE RequestsAnswered'
    OBVIOUS
  <2>1. CASE Next
    BY <2>1, AnsweredNext
  <2>2. CASE UNCHANGED vars
    BY <2>2 DEF vars, RequestsAnswered
  <2> QED BY <2>1, <2>2
<1> QED BY <1>1, <1>2, Invariance, PTL DEF Spec

-----------------------------------------------------------------------------
(* The refinement of SecureChannel.  Every step of a call is a step of the *)
(* channel or leaves it alone; that a record of data or control always     *)
(* opens is ChainInvariant.                                                *)

Items == {"data", "control", "end"}

-----------------------------------------------------------------------------
(* The items of a line                                                     *)

\* A line seen as items has its length, and one item for each record.
LEMMA FlightFacts ==
    ASSUME NEW w \in WriterType
    PROVE  /\ Flight(w) \in Seq(Items)
           /\ Len(w.line) \in Nat /\ Len(Flight(w)) = Len(w.line)
           /\ \A i \in 1..Len(w.line) : Flight(w)[i] = Item(w.line[i])
<1>1. w.line \in Seq(RecordType) /\ Len(w.line) \in Nat
  BY LenProperties DEF WriterType
<1>2. \A m : Item(m) \in Items
  BY DEF Item, Items
<1>3. Flight(w) \in [1..Len(w.line) -> Items]
  BY <1>2 DEF Flight
<1>4. Flight(w) \in Seq(Items)
  BY <1>1, <1>3, SeqDef
<1>5. DOMAIN Flight(w) = 1..Len(w.line) /\ DOMAIN Flight(w) = 1..Len(Flight(w))
      /\ Len(Flight(w)) \in Nat
  BY <1>3, <1>4, LenProperties
<1>6. Len(Flight(w)) = Len(w.line)
  BY <1>1, <1>5
<1>7. \A i \in 1..Len(w.line) : Flight(w)[i] = Item(w.line[i])
  BY DEF Flight
<1> QED BY <1>1, <1>4, <1>6, <1>7

\* A record sealed adds its item.
LEMMA FlightAppend ==
    ASSUME NEW w \in WriterType, NEW x \in WriterType, NEW m \in RecordType,
           x.line = Append(w.line, m)
    PROVE  Flight(x) = Flight(w) \o <<Item(m)>>
<1> DEFINE f == Flight(w)
           g == Flight(x)
           h == f \o <<Item(m)>>
<1>1. w.line \in Seq(RecordType)
  BY DEF WriterType
<1>2. /\ Len(x.line) = Len(w.line) + 1
      /\ \A i \in 1..Len(w.line) : x.line[i] = w.line[i]
      /\ x.line[Len(w.line) + 1] = m
  BY <1>1, AppendFacts
<1>3. /\ f \in Seq(Items) /\ Len(w.line) \in Nat /\ Len(f) = Len(w.line)
      /\ \A i \in 1..Len(w.line) : f[i] = Item(w.line[i])
  BY FlightFacts
<1>4. /\ g \in Seq(Items) /\ Len(g) = Len(x.line)
      /\ \A i \in 1..Len(x.line) : g[i] = Item(x.line[i])
  BY FlightFacts
<1>5. Item(m) \in Items
  BY DEF Item, Items
<1> HIDE DEF f, g
<1>6. /\ h \in Seq(Items) /\ Len(h) = Len(f) + 1
      /\ \A i \in 1..Len(f) : h[i] = f[i]
      /\ h[Len(f) + 1] = Item(m)
  <2>1. h = Append(f, Item(m))
    BY <1>3, <1>5, AppendIsConcat
  <2> HIDE DEF h
  <2> QED BY <1>3, <1>5, <2>1, AppendProperties
<1> HIDE DEF h
<1>7. ASSUME NEW i \in 1..Len(g)
      PROVE  g[i] = h[i]
  <2>1. CASE i \in 1..Len(f)
    BY <1>2, <1>3, <1>4, <1>6, <2>1
  <2>2. CASE i = Len(f) + 1
    BY <1>2, <1>3, <1>4, <1>6, <2>2
  <2> QED BY <1>2, <1>3, <1>4, <2>1, <2>2
<1>8. Len(g) = Len(h)
  BY <1>2, <1>3, <1>4, <1>6
<1> QED BY <1>4, <1>6, <1>7, <1>8, SeqEqual DEF f, g, h

\* A record read removes its item.
LEMMA FlightTaken ==
    ASSUME NEW w \in WriterType, w.sent > 0, w.sent <= Len(w.line)
    PROVE  /\ Flight(w) # <<>> /\ Head(Flight(w)) = Item(w.line[1])
           /\ Flight(Taken(w)) = Tail(Flight(w))
<1> DEFINE f == Flight(w)
           g == Flight(Taken(w))
<1>1. /\ Taken(w) \in WriterType
      /\ Len(w.line) \in Nat /\ Len(w.line) > 0 /\ Len(Taken(w).line) = Len(w.line) - 1
      /\ \A i \in 1..Len(Taken(w).line) : Taken(w).line[i] = w.line[i + 1]
  BY TakenFacts
<1>2. /\ f \in Seq(Items) /\ Len(f) = Len(w.line)
      /\ \A i \in 1..Len(w.line) : f[i] = Item(w.line[i])
  BY FlightFacts
<1>3. /\ g \in Seq(Items) /\ Len(g) = Len(Taken(w).line)
      /\ \A i \in 1..Len(Taken(w).line) : g[i] = Item(Taken(w).line[i])
  BY <1>1, FlightFacts
<1> HIDE DEF f, g
<1>4. f # <<>> /\ Head(f) = f[1] /\ f[1] = Item(w.line[1])
  BY <1>1, <1>2
<1>5. /\ Tail(f) \in Seq(Items) /\ Len(Tail(f)) = Len(f) - 1
      /\ \A i \in 1..Len(Tail(f)) : Tail(f)[i] = f[i + 1]
  BY <1>2, <1>4, HeadTailProperties
<1>6. Len(g) = Len(Tail(f)) /\ \A i \in 1..Len(g) : g[i] = Tail(f)[i]
  BY <1>1, <1>2, <1>3, <1>5
<1>7. g = Tail(f)
  BY <1>3, <1>5, <1>6, SeqEqual
<1> QED BY <1>4, <1>7 DEF f, g

-----------------------------------------------------------------------------
(* The items the steps of a call add                                       *)

One == {<<>>, <<"control">>}
Controls == {<<>>, <<"control">>, <<"control", "control">>}

\* What is queued is sealed as one control item, or nothing is.
LEMMA PackItems ==
    ASSUME NEW w \in WriterType
    PROVE  \E c \in One : Flight(Pack(w)) = Flight(w) \o c
<1>1. CASE w.queued = "none"
  <2>1. Pack(w) = w /\ Flight(w) \in Seq(Items)
    BY <1>1, PackFacts, FlightFacts
  <2>2. Flight(w) = Flight(w) \o <<>>
    BY <2>1, ConcatEmptySeq
  <2> QED BY <2>1, <2>2 DEF One
<1>2. CASE w.queued # "none"
  <2> DEFINE m == Record(w.queued, w.gen, w.seq)
  <2>1. /\ Pack(w) \in WriterType /\ Pack(w).line = Append(w.line, m)
        /\ w.queued \in Kinds /\ w.queued \in KeyUpdates
    BY <1>2, PackFacts
  <2>2. m \in RecordType /\ m.kind = w.queued
    BY <2>1, SealFacts
  <2> HIDE DEF m
  <2>3. Item(m) = "control"
    BY <2>1, <2>2 DEF Item, KeyUpdates, Alerts
  <2>4. Flight(Pack(w)) = Flight(w) \o <<"control">>
    BY <2>1, <2>2, <2>3, FlightAppend
  <2> QED BY <2>4 DEF One
<1> QED BY <1>1, <1>2

\* The key change seals nothing.
LEMMA DriveItems ==
    ASSUME NEW w \in WriterType
    PROVE  \E c \in One : Flight(Drive(w)) = Flight(w) \o c
<1>1. CASE w.state = "DONE"
  <2>1. Drive(w) = w /\ Flight(w) \in Seq(Items)
    BY <1>1, FlightFacts DEF Drive
  <2>2. Flight(w) = Flight(w) \o <<>>
    BY <2>1, ConcatEmptySeq
  <2> QED BY <2>1, <2>2 DEF One
<1>2. CASE w.state # "DONE"
  <2>1. Drive(w) = NewWriteKey(Pack(w))
    BY <1>2 DEF Drive
  <2>2. Flight(NewWriteKey(Pack(w))) = Flight(Pack(w))
    BY DEF NewWriteKey, Writer, Flight
  <2> QED BY <2>1, <2>2, PackItems
<1> QED BY <1>1, <1>2

\* The answer to a request is one more control item.
LEMMA AnswerItems ==
    ASSUME NEW w \in WriterType, NEW m
    PROVE  \E c \in One : Flight(Answer(w, m)) = Flight(w) \o c
<1>1. CASE m.kind # "request"
  <2>1. Answer(w, m) = w /\ Flight(w) \in Seq(Items)
    BY <1>1, FlightFacts DEF Answer
  <2>2. Flight(w) = Flight(w) \o <<>>
    BY <2>1, ConcatEmptySeq
  <2> QED BY <2>1, <2>2 DEF One
<1>2. CASE m.kind = "request"
  <2> DEFINE q == Queue(w, w.state, "update")
  <2>1. q \in WriterType /\ q.line = w.line
    BY DEF Queue, Writer, WriterType, KeyUpdates
  <2>2. Flight(q) = Flight(w)
    BY <2>1 DEF Flight
  <2>3. Answer(w, m) = NewWriteKey(Pack(q))
    BY <1>2 DEF Answer
  <2> HIDE DEF q
  <2>4. Flight(NewWriteKey(Pack(q))) = Flight(Pack(q))
    BY DEF NewWriteKey, Writer, Flight
  <2> QED BY <2>1, <2>2, <2>3, <2>4, PackItems
<1> QED BY <1>1, <1>2

\* Two steps that add at most one control item each add at most two.
LEMMA TwoControls ==
    ASSUME NEW f \in Seq(Items), NEW c \in One, NEW d \in One
    PROVE  \E e \in Controls : (f \o c) \o d = f \o e
<1>1. c \in Seq(Items) /\ d \in Seq(Items)
  <2>1. "control" \in Items
    BY DEF Items
  <2>2. <<>> \in Seq(Items) /\ <<"control">> \in Seq(Items)
    BY <2>1
  <2> QED BY <2>2 DEF One
<1>2. (f \o c) \o d = f \o (c \o d)
  BY <1>1, ConcatAssociative, SMTT(40)
<1>3. c \o d \in Controls
  <2>1. CASE c = <<>>
    BY <1>1, <2>1, ConcatEmptySeq DEF One, Controls
  <2>2. CASE d = <<>>
    BY <1>1, <2>2, ConcatEmptySeq DEF One, Controls
  <2>3. CASE c = <<"control">> /\ d = <<"control">>
    <3>1. c \o d = Append(c, "control")
      BY <1>1, <2>3, AppendIsConcat DEF Items
    <3> DEFINE a == Append(c, "control")
               e == <<"control", "control">>
    <3>2. "control" \in Items /\ Len(c) = 1 /\ c[1] = "control"
      BY <2>3 DEF Items
    <3>3. a \in Seq(Items) /\ Len(a) = 2 /\ a[1] = "control" /\ a[2] = "control"
      <4>1. /\ a \in Seq(Items) /\ Len(a) = Len(c) + 1
            /\ \A i \in 1..Len(c) : a[i] = c[i]
            /\ a[Len(c) + 1] = "control"
        BY <1>1, <3>2, AppendProperties, ZenonT(60)
      <4> HIDE DEF a
      <4> QED BY <3>2, <4>1
    <3>4. e \in Seq(Items) /\ Len(e) = 2 /\ e[1] = "control" /\ e[2] = "control"
      BY <3>2
    <3>5. a = e
      <4> HIDE DEF a, e
      <4> QED BY <3>3, <3>4, SeqEqual
    <3> QED BY <3>1, <3>5 DEF Controls
  <2> QED BY <2>1, <2>2, <2>3 DEF One
<1> QED BY <1>2, <1>3

\* write() of data or of an alert adds its item after what was queued.
LEMMA WriteItems ==
    ASSUME NEW w \in WriterType, NEW kind \in Kinds, NEW m \in RecordType, m.kind = kind
    PROVE  \E c \in One : Flight(Write(w, kind)) = (Flight(w) \o c) \o <<Item(m)>>
<1> DEFINE p == Pack(w)
           n == Record(kind, p.gen, p.seq)
           x == Write(w, kind)
<1>1. p \in WriterType /\ n \in RecordType /\ n.kind = kind /\ x \in WriterType
      /\ x.line = Append(p.line, n)
  BY WriteFacts
<1>2. Item(n) = Item(m)
  BY <1>1 DEF Item
<1> HIDE DEF n, x, p
<1>3. Flight(x) = Flight(p) \o <<Item(m)>>
  BY <1>1, <1>2, FlightAppend
<1> QED BY <1>3, PackItems DEF p, x

-----------------------------------------------------------------------------
(* The channel's variables as state functions                              *)

flight == [s \in Side |-> Flight(out[s])]
shut == [s \in Side |-> out[s].shut # "NONE"]
reading == [s \in Side |-> Reading(in[s])]

\* The names of the channel module are those of this one.
LEMMA ChannelNames ==
    /\ Channel!Side = Side /\ Channel!Controls = Controls
    /\ \A s : Channel!Peer(s) = Peer(s)
BY DEF Channel!Side, Channel!Controls, Channel!Peer, Side, Controls, Peer, Client, Server

\* A step that replaces the writing half of s by x
LEMMA FlightStep ==
    ASSUME NEW s \in Side, NEW x, out \in [Side -> WriterType], out' = [out EXCEPT ![s] = x]
    PROVE  /\ flight' = [flight EXCEPT ![s] = Flight(x)]
           /\ (x.shut # "NONE") = (out[s].shut # "NONE") => shut' = shut
           /\ x.shut # "NONE" => shut' = [shut EXCEPT ![s] = TRUE]
<1>1. \A t \in Side : out'[t] = IF t = s THEN x ELSE out[t]
  OBVIOUS
<1>2. flight' = [flight EXCEPT ![s] = Flight(x)]
  BY <1>1 DEF flight
<1>3. (x.shut # "NONE") = (out[s].shut # "NONE") => shut' = shut
  BY <1>1 DEF shut
<1>4. x.shut # "NONE" => shut' = [shut EXCEPT ![s] = TRUE]
  BY <1>1 DEF shut
<1> QED BY <1>2, <1>3, <1>4

-----------------------------------------------------------------------------
(* Every step of a call is a step of the channel                           *)

\* Calls that only write: the writing half of s becomes x.
LEMMA WriterChannelStep ==
    ASSUME Inv, NEW s \in Side, NEW x, in[s].err = "none",
           out' = [out EXCEPT ![s] = x], in' = in, NEW c \in Controls
    PROVE  /\ (x.shut = out[s].shut /\ Flight(x) = Flight(out[s]) \o c)
                 => Channel!Control(s)
           /\ (out[s].shut = "NONE" /\ x.shut = "NONE"
                 /\ Flight(x) = (Flight(out[s]) \o c) \o <<"data">>)
                 => Channel!Write(s)
           /\ (out[s].shut = "NONE" /\ x.shut # "NONE"
                 /\ Flight(x) = (Flight(out[s]) \o c) \o <<"end">>)
                 => Channel!Close(s)
<1>1. out \in [Side -> WriterType]
  BY DEF Inv, TypeOK
<1>2. /\ flight' = [flight EXCEPT ![s] = Flight(x)]
      /\ (x.shut # "NONE") = (out[s].shut # "NONE") => shut' = shut
      /\ x.shut # "NONE" => shut' = [shut EXCEPT ![s] = TRUE]
  BY <1>1, FlightStep
<1>3. flight[s] = Flight(out[s]) /\ (shut[s] = (out[s].shut # "NONE"))
  BY DEF flight, shut
<1>4. reading[s] # "failed" /\ reading' = reading
  BY DEF reading, Reading
<1>5. ASSUME x.shut = out[s].shut, Flight(x) = Flight(out[s]) \o c
      PROVE  Channel!Control(s)
  <2>1. flight' = [flight EXCEPT ![s] = flight[s] \o c] /\ shut' = shut
    BY <1>2, <1>3, <1>5
  <2> QED BY <1>4, <2>1, ChannelNames DEF Channel!Control, flight, shut, reading
<1>6. ASSUME out[s].shut = "NONE", x.shut = "NONE",
             Flight(x) = (Flight(out[s]) \o c) \o <<"data">>
      PROVE  Channel!Write(s)
  <2>1. /\ flight' = [flight EXCEPT ![s] = (flight[s] \o c) \o <<"data">>]
        /\ shut' = shut /\ ~shut[s]
    BY <1>2, <1>3, <1>6
  <2> QED BY <1>4, <2>1, ChannelNames DEF Channel!Write, flight, shut, reading
<1>7. ASSUME out[s].shut = "NONE", x.shut # "NONE",
             Flight(x) = (Flight(out[s]) \o c) \o <<"end">>
      PROVE  Channel!Close(s)
  <2>1. /\ flight' = [flight EXCEPT ![s] = (flight[s] \o c) \o <<"end">>]
        /\ shut' = [shut EXCEPT ![s] = TRUE] /\ ~shut[s]
    BY <1>2, <1>3, <1>7
  <2> QED BY <1>4, <2>1, ChannelNames DEF Channel!Close, flight, shut, reading
<1> QED BY <1>5, <1>6, <1>7

\* What the writing halves of read() become: x for s, and its peer's without the record.
LEMMA ReaderFlights ==
    ASSUME Inv, NEW s \in Side, NEW x, out[Peer(s)].sent > 0,
           out' = [out EXCEPT ![s] = x, ![Peer(s)] = Taken(out[Peer(s)])]
    PROVE  /\ flight' = [flight EXCEPT ![s] = Flight(x), ![Peer(s)] = Tail(flight[Peer(s)])]
           /\ (x.shut # "NONE") = (out[s].shut # "NONE") => shut' = shut
           /\ x.shut # "NONE" => shut' = [shut EXCEPT ![s] = TRUE]
           /\ flight[Peer(s)] # <<>>
           /\ Head(flight[Peer(s)]) = Item(out[Peer(s)].line[1])
<1> DEFINE p == Peer(s)
           y == Taken(out[p])
<1>1. p \in Side /\ p # s /\ \A t \in Side : t = s \/ t = p
  BY PeerFacts
<1>2. out \in [Side -> WriterType] /\ out[p].sent <= Len(out[p].line)
  BY <1>1 DEF Inv, TypeOK
<1>3. y.shut = out[p].shut
  BY <1>1, <1>2, TakenFacts
<1>4. /\ Flight(out[p]) # <<>> /\ Head(Flight(out[p])) = Item(out[p].line[1])
      /\ Flight(y) = Tail(Flight(out[p]))
  BY <1>1, <1>2, FlightTaken
<1>5. flight[p] = Flight(out[p])
  BY <1>1 DEF flight
<1> HIDE DEF p, y
<1>6. \A t \in Side : out'[t] = IF t = s THEN x ELSE y
  BY <1>1, <1>2 DEF p, y
<1>7. flight' = [flight EXCEPT ![s] = Flight(x), ![p] = Flight(y)]
  <2>1. \A t \in Side : Flight(out'[t]) = IF t = s THEN Flight(x) ELSE Flight(y)
    <3>1. out'[s] = x /\ \A t \in Side : t # s => out'[t] = y
      BY <1>6
    <3>2. ASSUME NEW t \in Side, t # s
          PROVE  Flight(out'[t]) = Flight(y)
      BY <3>1, <3>2
    <3>3. Flight(out'[s]) = Flight(x)
      BY <3>1
    <3> QED BY <3>2, <3>3
  <2>2. flight' = [t \in Side |-> Flight(out'[t])]
    BY DEF flight
  <2>3. DOMAIN flight = Side
    BY DEF flight
  <2>4. flight' = [t \in Side |-> IF t = s THEN Flight(x) ELSE Flight(y)]
    BY <2>1, <2>2
  <2>5. \A t \in Side : [flight EXCEPT ![s] = Flight(x), ![p] = Flight(y)][t]
                             = IF t = s THEN Flight(x) ELSE Flight(y)
    BY <1>1, <2>3
  <2> QED BY <2>3, <2>4, <2>5
<1>8. (x.shut # "NONE") = (out[s].shut # "NONE") => shut' = shut
  BY <1>1, <1>3, <1>6 DEF shut
<1>9. x.shut # "NONE" => shut' = [shut EXCEPT ![s] = TRUE]
  BY <1>1, <1>3, <1>6 DEF shut
<1> QED BY <1>4, <1>5, <1>7, <1>8, <1>9 DEF p

\* read() of a record is the reading of its item.  A record that does not open is a
\* close_notify, and the side that was still open tells its peer.
LEMMA ReadChannelStep ==
    ASSUME Inv, NEW s \in Side, Read(s)
    PROVE  Channel!Read(s) \/ Channel!ReadEnd(s) \/ Channel!ReadFails(s)
<1> DEFINE p == Peer(s)
           m == Head(out[p].line)
           w == Drive(out[s])
           x == IF Opens(in[s], m) THEN Answer(w, m) ELSE FatalAlert(w)
           q == IF Opens(in[s], m) THEN Opened(in[s], m) ELSE BadRecord(in[s])
<1>1. /\ out[s] \in WriterType /\ in[s] \in ReaderType
      /\ out[p] \in WriterType /\ in[p] \in ReaderType
      /\ out[s].sent <= Len(out[s].line) /\ out[p].sent <= Len(out[p].line)
      /\ Chain(out[s], in[p]) /\ Chain(out[p], in[s])
  BY InvFacts
<1>2. Active(in[s]) /\ out[p].sent > 0
  BY DEF Read, Usable, Active, Arrived
<1>3. /\ w \in WriterType /\ Chain(w, in[p]) /\ w.sent <= Len(w.line)
      /\ w.state = "DONE" /\ w.queued = "none" /\ w.shut = out[s].shut
  BY <1>1, DriveChain
<1>4. m = out[p].line[1] /\ m \in RecordType /\ Len(out[p].line) > 0
  BY <1>1, <1>2, TakenFacts
<1>5. PICK c1 \in One : Flight(w) = Flight(out[s]) \o c1
  BY <1>1, DriveItems
<1>6. in' = [in EXCEPT ![s] = q]
      /\ out' = [out EXCEPT ![s] = x, ![p] = Taken(out[p])]
  <2>1. p # s /\ p \in Side
    BY PeerFacts
  <2>2. out \in [Side -> WriterType]
    BY DEF Inv, TypeOK
  <2> QED BY <2>1, <2>2 DEF Read
<1>7. /\ flight' = [flight EXCEPT ![s] = Flight(x), ![p] = Tail(flight[p])]
      /\ (x.shut # "NONE") = (out[s].shut # "NONE") => shut' = shut
      /\ x.shut # "NONE" => shut' = [shut EXCEPT ![s] = TRUE]
      /\ flight[p] # <<>> /\ Head(flight[p]) = Item(m)
  <2> HIDE DEF x
  <2> QED BY <1>2, <1>4, <1>6, ReaderFlights
<1>8. reading[s] = "open" /\ reading' = [reading EXCEPT ![s] = Reading(q)]
  <2>1. in \in [Side -> ReaderType]
    BY DEF Inv, TypeOK
  <2> HIDE DEF q
  <2> QED BY <1>2, <1>6, <2>1 DEF reading, Reading, Active
<1>9. flight[s] = Flight(out[s]) /\ (shut[s] = (out[s].shut # "NONE"))
      /\ Flight(out[s]) \in Seq(Items)
  BY <1>1, FlightFacts DEF flight, shut
<1>10. c1 \in Controls
  BY DEF One, Controls
<1>11. CASE Opens(in[s], m)
  <2>1. x.shut = out[s].shut
    BY <1>1, <1>3, <1>11, AnswerChain
  <2>2. PICK c \in Controls : Flight(x) = flight[s] \o c
    <3>1. PICK c2 \in One : Flight(Answer(w, m)) = Flight(w) \o c2
      BY <1>3, AnswerItems
    <3>2. Flight(x) = (Flight(out[s]) \o c1) \o c2
      BY <1>5, <1>11, <3>1
    <3>3. PICK e \in Controls : (Flight(out[s]) \o c1) \o c2 = Flight(out[s]) \o e
      BY <1>9, TwoControls
    <3> QED BY <1>9, <3>2, <3>3
  <2>3. /\ flight' = [flight EXCEPT ![s] = flight[s] \o c, ![p] = Tail(flight[p])]
        /\ shut' = shut
    BY <1>7, <2>1, <2>2
  <2>4. CASE m.kind \notin Alerts
    <3>1. Item(m) # "end"
      BY <2>4 DEF Item
    <3>2. Reading(q) = "open"
      BY <1>2, <1>11, <2>4 DEF Opened, Reader, Reading, Active, Alerts, KeyUpdates
    <3>3. reading' = reading
      BY <1>8, <3>2 DEF reading
    <3>4. Channel!Read(s)
      <4> HIDE DEF p, m, w, x, q
      <4> QED BY <1>7, <1>8, <2>3, <3>1, <3>3, ChannelNames
              DEF Channel!Read, Channel!Readable, flight, shut, reading, p
    <3> QED BY <3>4
  <2>5. CASE m.kind \in Alerts
    <3>1. Item(m) = "end"
      BY <2>5 DEF Item, Alerts
    <3>2. Reading(q) \in {"ended", "failed"}
      BY <1>2, <1>11, <2>5 DEF Opened, Reader, Reading, Active, Alerts, KeyUpdates
    <3>3. Channel!ReadEnd(s)
      <4> HIDE DEF p, m, w, x, q
      <4> QED BY <1>7, <1>8, <2>3, <3>1, <3>2, ChannelNames, ZenonT(40)
              DEF Channel!ReadEnd, Channel!Readable, flight, shut, reading, p
    <3> QED BY <3>3
  <2> QED BY <2>4, <2>5
<1>12. CASE ~Opens(in[s], m)
  <2>1. m.kind = "close_notify"
    BY <1>1, <1>2, <1>4, <1>12 DEF Chain, HeadOpens
  <2>2. Item(m) = "end"
    BY <2>1 DEF Item, Alerts
  <2>3. Reading(q) = "failed"
    BY <1>12 DEF BadRecord, Reader, Reading
  <2>4. CASE out[s].shut # "NONE"
    <3>1. x = w
      BY <1>3, <1>12, <2>4 DEF FatalAlert
    <3>2. /\ flight' = [flight EXCEPT ![s] = flight[s] \o c1, ![p] = Tail(flight[p])]
          /\ shut' = shut
      BY <1>3, <1>5, <1>7, <1>9, <3>1
    <3>3. Channel!ReadEnd(s)
      <4> HIDE DEF p, m, w, x, q
      <4> QED BY <1>7, <1>8, <1>10, <2>2, <2>3, <3>2, ChannelNames, ZenonT(40)
              DEF Channel!ReadEnd, Channel!Readable, flight, shut, reading, p
    <3> QED BY <3>3
  <2>5. CASE out[s].shut = "NONE"
    <3> DEFINE y == Write(w, "fatal")
               k == Record("fatal", w.gen, w.seq)
    <3>1. x = ShutDown(y, "ERROR")
      BY <1>3, <1>12, <2>5 DEF FatalAlert
    <3>2. x.shut = "ERROR" /\ Flight(x) = Flight(y)
      BY <3>1 DEF ShutDown, Writer, Flight
    <3>3. k \in RecordType /\ k.kind = "fatal" /\ y \in WriterType /\ y.line = Append(w.line, k)
      <4>1. Pack(w) = w /\ "fatal" \in Kinds
        BY <1>3, PackFacts DEF Kinds
      <4> QED BY <1>3, <4>1, WriteFacts
    <3> HIDE DEF y, k, w
    <3>4. Item(k) = "end"
      BY <3>3 DEF Item, Alerts
    <3>5. Flight(x) = (flight[s] \o c1) \o <<"end">>
      BY <1>3, <1>5, <1>9, <3>2, <3>3, <3>4, FlightAppend
    <3>6. /\ flight' = [flight EXCEPT ![s] = (flight[s] \o c1) \o <<"end">>,
                                      ![p] = Tail(flight[p])]
          /\ shut' = [shut EXCEPT ![s] = TRUE] /\ ~shut[s]
      BY <1>7, <1>9, <2>5, <3>2, <3>5
    <3>7. Channel!ReadFails(s)
      <4> HIDE DEF p, m, x, q
      <4> QED BY <1>7, <1>8, <1>10, <2>2, <2>3, <3>6, ChannelNames, ZenonT(40)
              DEF Channel!ReadFails, Channel!Readable, flight, shut, reading, p
    <3> QED BY <3>7
  <2> QED BY <2>4, <2>5
<1> QED BY <1>11, <1>12

\* Every step of KeyUpdate is a step of the channel, or one it does not see.
LEMMA ChannelStep ==
    ASSUME Inv, Next
    PROVE  Channel!Next \/ UNCHANGED <<flight, shut, reading>>
<1>1. ASSUME NEW s \in Side, NEW kind \in KeyUpdates, UpdateKey(s, kind)
      PROVE  UNCHANGED <<flight, shut, reading>>
  <2> DEFINE x == Queue(out[s], "PROCESS_UPDATE_TRAFFIC", kind)
  <2>1. out \in [Side -> WriterType]
    BY DEF Inv, TypeOK
  <2>2. out' = [out EXCEPT ![s] = x] /\ in' = in
    BY <1>1 DEF UpdateKey
  <2>3. x.shut = out[s].shut /\ x.line = out[s].line
    BY DEF Queue, Writer
  <2> HIDE DEF x
  <2>4. flight' = [flight EXCEPT ![s] = Flight(x)] /\ shut' = shut
    BY <2>1, <2>2, <2>3, FlightStep
  <2>5. Flight(x) = Flight(out[s]) /\ flight[s] = Flight(out[s])
    BY <2>3 DEF Flight, flight
  <2>6. flight' = flight
    BY <2>4, <2>5 DEF flight
  <2> QED BY <2>2, <2>4, <2>6 DEF reading
<1>2. ASSUME NEW s \in Side, DoHandshake(s)
      PROVE  Channel!Control(s)
  <2> DEFINE x == Drive(out[s])
  <2>1. out' = [out EXCEPT ![s] = x] /\ in' = in /\ in[s].err = "none"
    BY <1>2 DEF DoHandshake, Usable
  <2>2. x.shut = out[s].shut /\ out[s] \in WriterType
    BY InvFacts, DriveChain
  <2>3. PICK c \in One : Flight(x) = Flight(out[s]) \o c
    BY <2>2, DriveItems
  <2>4. c \in Controls
    BY DEF One, Controls
  <2> HIDE DEF x
  <2> QED BY <2>1, <2>2, <2>3, <2>4, WriterChannelStep
<1>3. ASSUME NEW s \in Side, WriteData(s)
      PROVE  Channel!Write(s) \/ Channel!Control(s)
  <2> DEFINE w == Drive(out[s])
             x == IF out[s].shut = "NONE" THEN Write(w, "data") ELSE w
  <2>1. out' = [out EXCEPT ![s] = x] /\ in' = in /\ in[s].err = "none"
    BY <1>3 DEF WriteData, Usable
  <2>2. out[s] \in WriterType /\ w \in WriterType /\ w.shut = out[s].shut /\ w.queued = "none"
    BY InvFacts, DriveChain
  <2>3. PICK c \in One : Flight(w) = Flight(out[s]) \o c
    BY <2>2, DriveItems
  <2>4. c \in Controls
    BY DEF One, Controls
  <2>5. CASE out[s].shut # "NONE"
    <3>1. x = w
      BY <2>5
    <3> HIDE DEF x, w
    <3> QED BY <2>1, <2>2, <2>3, <2>4, <3>1, WriterChannelStep
  <2>6. CASE out[s].shut = "NONE"
    <3> DEFINE k == Record("data", w.gen, w.seq)
    <3>1. x = Write(w, "data") /\ Pack(w) = w /\ "data" \in Kinds
      BY <2>2, <2>6, PackFacts DEF Kinds
    <3> HIDE DEF x, w
    <3>2. /\ k \in RecordType /\ k.kind = "data"
          /\ x \in WriterType /\ x.line = Append(w.line, k) /\ x.shut = "NONE"
      BY <2>2, <2>6, <3>1, WriteFacts
    <3> HIDE DEF k
    <3>3. Item(k) = "data"
      BY <3>2 DEF Item
    <3>4. Flight(x) = (Flight(out[s]) \o c) \o <<"data">>
      BY <2>2, <2>3, <3>2, <3>3, FlightAppend
    <3> QED BY <2>1, <2>4, <2>6, <3>2, <3>4, WriterChannelStep
  <2> QED BY <2>5, <2>6
<1>4. ASSUME NEW s \in Side, CloseNotify(s)
      PROVE  Channel!Close(s)
  <2> DEFINE y == Write(out[s], "close_notify")
             x == ShutDown(y, "CLOSE_NOTIFY")
             k == Record("close_notify", 0, 0)
  <2>1. /\ out' = [out EXCEPT ![s] = x] /\ in' = in /\ in[s].err = "none"
        /\ out[s].shut = "NONE"
    BY <1>4 DEF CloseNotify, Usable
  <2>2. x.shut = "CLOSE_NOTIFY" /\ Flight(x) = Flight(y)
    BY DEF ShutDown, Writer, Flight
  <2>3. /\ k \in RecordType /\ k.kind = "close_notify" /\ "close_notify" \in Kinds
        /\ Item(k) = "end"
    BY DEF Record, RecordType, Kinds, Item, Alerts
  <2>4. out[s] \in WriterType
    BY InvFacts
  <2> HIDE DEF y, k
  <2>5. PICK c \in One : Flight(y) = (Flight(out[s]) \o c) \o <<"end">>
    BY <2>3, <2>4, WriteItems, SMTT(40) DEF y
  <2>6. c \in Controls
    BY DEF One, Controls
  <2> HIDE DEF x
  <2> QED BY <2>1, <2>2, <2>5, <2>6, WriterChannelStep
<1>5. ASSUME NEW s \in Side, Read(s)
      PROVE  Channel!Read(s) \/ Channel!ReadEnd(s) \/ Channel!ReadFails(s)
  BY <1>5, ReadChannelStep
<1>6. \A s \in Side : s \in Channel!Side
  BY ChannelNames
<1> QED BY <1>1, <1>2, <1>3, <1>4, <1>5, <1>6 DEF Next, Channel!Next

\* The connection starts as an empty channel, but for the server's tickets.
LEMMA ChannelInit == Init => Channel!Init
<1> SUFFICES ASSUME Init PROVE Channel!Init
  OBVIOUS
<1>1. PICK tickets \in {<<>>, <<Record("ticket", 0, 0)>>} :
         out = [s \in Side |-> NewWriter(IF s = Server THEN tickets ELSE <<>>)]
  BY DEF Init
<1>2. in = [s \in Side |-> NewReader]
  BY DEF Init
<1>3. ASSUME NEW l \in {<<>>, <<Record("ticket", 0, 0)>>}
      PROVE  Flight(NewWriter(l)) \in Controls /\ NewWriter(l).shut = "NONE"
  <2>1. NewWriter(l).line = l /\ NewWriter(l).shut = "NONE"
    BY DEF NewWriter, Writer
  <2>2. Flight(NewWriter(l)) = [i \in 1..Len(l) |-> Item(l[i])]
    BY <2>1 DEF Flight
  <2>3. CASE l = <<>>
    BY <2>1, <2>2, <2>3 DEF Controls
  <2>4. CASE l = <<Record("ticket", 0, 0)>>
    <3>1. Len(l) = 1 /\ Item(l[1]) = "control"
      BY <2>4 DEF Record, Item, Alerts
    <3>2. Flight(NewWriter(l)) = <<"control">>
      BY <2>2, <3>1
    <3> QED BY <2>1, <3>2 DEF Controls
  <2> QED BY <2>3, <2>4
<1>4. \A s \in Side : \E l \in {<<>>, <<Record("ticket", 0, 0)>>} : out[s] = NewWriter(l)
  BY <1>1
<1>5. \A s \in Side : Flight(out[s]) \in Controls /\ out[s].shut = "NONE"
  BY <1>3, <1>4
<1>6. flight \in [Side -> Controls]
  BY <1>5 DEF flight
<1>7. shut = [s \in Side |-> FALSE]
  BY <1>5 DEF shut
<1>8. reading = [s \in Side |-> "open"]
  BY <1>2 DEF reading, Reading, NewReader, Reader
<1> QED BY <1>6, <1>7, <1>8, ChannelNames DEF Channel!Init, flight, shut, reading

\* The connection with its key updates implements the channel without keys: data is read
\* in the order it was written, and reading ends, or fails, only at an alert.
THEOREM Refinement == Spec => ImplementsChannel
<1>1. Init => Channel!Init
  BY ChannelInit
<1>2. Inv /\ [Next]_vars => [Channel!Next]_Channel!vars
  <2> SUFFICES ASSUME Inv, [Next]_vars PROVE [Channel!Next]_Channel!vars
    OBVIOUS
  <2>1. CASE Next
    BY <2>1, ChannelStep DEF Channel!vars, flight, shut, reading
  <2>2. CASE UNCHANGED vars
    BY <2>2 DEF vars, Channel!vars
  <2> QED BY <2>1, <2>2
<1> QED BY <1>1, <1>2, Invariance, PTL DEF Spec, ImplementsChannel, Channel!Spec

=============================================================================

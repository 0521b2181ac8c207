--------------------------- MODULE SecureChannel ---------------------------
(***************************************************************************)
(* What an established connection promises its two applications, without   *)
(* keys, numbers or flushing: in each direction a queue of items, read in  *)
(* the order they were written.  "control" items (tickets, KeyUpdates) are *)
(* read without being noticed; an "end" (a close_notify or a fatal alert)  *)
(* is the only item at which reading may end, or fail.                     *)
(***************************************************************************)
EXTENDS Integers, Sequences

VARIABLES
    flight,    \* flight[s]: the items written by s that its peer has not read
    shut,      \* shut[s]: s writes no more data
    reading    \* reading[s]: "open", "ended" or "failed"

vars == <<flight, shut, reading>>

Side == {"client", "server"}
Peer(s) == IF s = "client" THEN "server" ELSE "client"
Items == {"data", "control", "end"}

\* What may precede an item or follow from one: up to two control items
Controls == {<<>>, <<"control">>, <<"control", "control">>}

Init ==
    /\ flight \in [Side -> Controls]
    /\ shut = [s \in Side |-> FALSE]
    /\ reading = [s \in Side |-> "open"]

\* s puts control items into its queue, or nothing.
Control(s) ==
    /\ reading[s] # "failed"
    /\ \E c \in Controls : flight' = [flight EXCEPT ![s] = @ \o c]
    /\ UNCHANGED <<shut, reading>>

Write(s) ==
    /\ reading[s] # "failed" /\ ~shut[s]
    /\ \E c \in Controls : flight' = [flight EXCEPT ![s] = (@ \o c) \o <<"data">>]
    /\ UNCHANGED <<shut, reading>>

Close(s) ==
    /\ reading[s] # "failed" /\ ~shut[s]
    /\ \E c \in Controls : flight' = [flight EXCEPT ![s] = (@ \o c) \o <<"end">>]
    /\ shut' = [shut EXCEPT ![s] = TRUE]
    /\ UNCHANGED reading

Readable(s) == reading[s] = "open" /\ flight[Peer(s)] # <<>>

\* Data or control is read, which may be answered by control items.
Read(s) ==
    /\ Readable(s) /\ Head(flight[Peer(s)]) # "end"
    /\ \E c \in Controls : flight' = [flight EXCEPT ![s] = @ \o c, ![Peer(s)] = Tail(@)]
    /\ UNCHANGED <<shut, reading>>

ReadEnd(s) ==
    /\ Readable(s) /\ Head(flight[Peer(s)]) = "end"
    /\ \E how \in {"ended", "failed"} : reading' = [reading EXCEPT ![s] = how]
    /\ \E c \in Controls : flight' = [flight EXCEPT ![s] = @ \o c, ![Peer(s)] = Tail(@)]
    /\ UNCHANGED shut

\* Reading fails, and the peer is told.
ReadFails(s) ==
    /\ Readable(s) /\ Head(flight[Peer(s)]) = "end" /\ ~shut[s]
    /\ reading' = [reading EXCEPT ![s] = "failed"]
    /\ \E c \in Controls :
          flight' = [flight EXCEPT ![s] = (@ \o c) \o <<"end">>, ![Peer(s)] = Tail(@)]
    /\ shut' = [shut EXCEPT ![s] = TRUE]

Next ==
    \E s \in Side : Control(s) \/ Write(s) \/ Close(s) \/ Read(s) \/ ReadEnd(s) \/ ReadFails(s)

Spec == Init /\ [][Next]_vars

=============================================================================

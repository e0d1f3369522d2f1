----------------------------- MODULE AtLeastOnce -----------------------------
(***************************************************************************)
(* What the stream and a consumer group promise together: the writer       *)
(* (writer.py:1-9), and the sessioniser while its statements succeed       *)
(* ("same ... property", sessioniser.py:4-6).  An entry may be stored many *)
(* times over, and a crash may repeat work, but an entry leaves the        *)
(* consumer group's responsibility only once its event is stored -- or     *)
(* once MAXLEN has trimmed it from the stream.                             *)
(*                                                                         *)
(* Nothing here knows of batches, pending lists, cursors or processes.     *)
(***************************************************************************)
EXTENDS Integers, Sequences

CONSTANT Events

VARIABLES
    log,      \* everything published, in order
    floor,    \* the oldest position the stream still holds
    stored,   \* events with a row, or counted in one, in the database
    settled   \* positions the consumer group will never be given again

vars == <<log, floor, stored, settled>>

Init ==
    /\ log = <<>>
    /\ floor = 1
    /\ stored = {}
    /\ settled = {}

(* An event is published; retention may move, never past the end. *)
Publish ==
    /\ \E e \in Events : log' = Append(log, e)
    /\ floor' \in floor .. Len(log) + 1
    /\ UNCHANGED <<stored, settled>>

(* Published events get their rows, or are counted in some. *)
Store ==
    /\ \E ids \in SUBSET (1 .. Len(log)) :
          stored' = stored \cup {log[i] : i \in ids}
    /\ UNCHANGED <<log, floor, settled>>

(* Positions are given up for good: each is stored already, or trimmed. *)
Settle ==
    /\ \E ids \in SUBSET (1 .. Len(log)) :
          /\ \A i \in ids : log[i] \in stored \/ i < floor
          /\ settled' = settled \cup ids
    /\ UNCHANGED <<log, floor, stored>>

Next == Publish \/ Store \/ Settle

Spec == Init /\ [][Next]_vars
=============================================================================

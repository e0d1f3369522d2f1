------------------------------ MODULE MCWriter ------------------------------
(* Instances of Writer for TLC. *)
EXTENDS Writer

CONSTANTS e1, e2

(* Two events are enough for an entry that repeats an earlier one's event,   *)
(* and for a batch of which the database refuses one row.                    *)
MCEvents == {e1, e2}
OneRejected == {e2}
NoneRejected == {}

Reconnects == {"postgres"}
=============================================================================

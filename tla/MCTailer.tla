------------------------------ MODULE MCTailer ------------------------------
(* Instances of Tailer for TLC. *)
EXTENDS Tailer

(* The second line the decoy writes is not an event. *)
SecondIsJunk == {2}
NoJunk == {}
=============================================================================

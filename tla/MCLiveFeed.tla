----------------------------- MODULE MCLiveFeed -----------------------------
(* Instances of LiveFeed for TLC. *)
EXTENDS LiveFeed

(* The third entry repeats the first one's event; the second cannot be       *)
(* decoded.                                                                  *)
ThirdRepeats == <<1, 2, 1, 3, 4>>
SecondIsBad == {2}
=============================================================================

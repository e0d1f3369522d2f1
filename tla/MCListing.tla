----------------------------- MODULE MCListing -----------------------------
(* Instances of Listing for TLC. *)
EXTENDS Listing

(* Rows of one time on either side of the end of a page. *)
MCIds == 1 .. 5
MCAt == <<1, 2, 2, 2, 3>>
MCLimits == {1, 2}
=============================================================================

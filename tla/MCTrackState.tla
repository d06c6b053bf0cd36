---------------------------- MODULE MCTrackState ----------------------------
(***************************************************************************)
(* Two tracks, two shelf zones, every kind of camera. A tick is a quarter  *)
(* of a tenth of a second, so that a dwell may lie between two tenths; the *)
(* thresholds are scaled down to it: the TTL, the checkout threshold and   *)
(* the staff interval of 5, 5 and 30 s are 2, 2 and 4 ticks, and frames    *)
(* are 1 or 3 ticks apart.                                                 *)
(*                                                                         *)
(* The frame is 3 x 3 pixels, and a tripwire goes through its middle, in   *)
(* any of the four directions; the store is on either side.  The foot      *)
(* points are in every half and on the line.                               *)
(***************************************************************************)
EXTENDS TrackState

Corners == {<<0, 2>>, <<1, 1>>, <<2, 0>>}

Across ==
    [segment : {<<<<1, 0>>, <<1, 2>>>>, <<<<1, 2>>, <<1, 0>>>>}, inside : {"left", "right"}]
    \cup
    [segment : {<<<<0, 1>>, <<2, 1>>>>, <<<<2, 1>>, <<0, 1>>>>}, inside : {"top", "bottom"}]
=============================================================================

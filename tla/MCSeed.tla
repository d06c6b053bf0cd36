------------------------------- MODULE MCSeed -------------------------------
(***************************************************************************)
(* A batch of two.  A tick is a quarter of an hour for the entries, and    *)
(* stays are counted in ticks as well; a day of five hours, of which two   *)
(* are open.  The draws have a stay far below the minimum, an entry that   *)
(* would be in the future, one in the hour after closing time, a checkout  *)
(* as early and as late as can be.                                         *)
(***************************************************************************)
EXTENDS Seed

Drawn(back, late, stay, lead, stage) ==
    [back |-> back, late |-> late, ago |-> 1, stay |-> stay, lead |-> lead,
     stage |-> stage, visits |-> <<1>>]

SomeDraws ==
    { Drawn(0, 3, -2, 1, Bought), Drawn(1, 0, 5, 6, Queued),
      Drawn(1, 3, 5, 1, Bought), Drawn(0, 1, 2, 4, Queued),
      Drawn(3, 4, 3, 2, 3), Drawn(4, 1, 1, 1, 1) }
=============================================================================

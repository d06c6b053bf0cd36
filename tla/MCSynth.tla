------------------------------ MODULE MCSynth ------------------------------
(***************************************************************************)
(* Two customers and a member of staff.  A unit of time is 10 s: the join  *)
(* window is 9, the re-entry gap 6, 20 s of dwell are 2, receipts follow   *)
(* the checkout after 2 to 7.                                              *)
(***************************************************************************)
EXTENDS Synth

CONSTANTS c1, c2, s1, t, z1, z2

Drawn(e, stroll, q, r) ==
    [enter |-> e, stroll |-> stroll, queues |-> q, receipt |-> r]

OneShelf == <<[zone |-> z1, dwell |-> 1]>>
TwoShelves == <<[zone |-> z1, dwell |-> 1], [zone |-> z2, dwell |-> 3]>>
SameShelf == <<[zone |-> z1, dwell |-> 1], [zone |-> z1, dwell |-> 2]>>

\* Nothing bought, with or without a walk to the till; a bill at once; a late
\* bill; a late bill of a slower shopper, at the till when an earlier one pays.
SomeTrips ==
    { Drawn(0, SameShelf, FALSE, None), Drawn(1, OneShelf, TRUE, None),
      Drawn(0, OneShelf, TRUE, 2), Drawn(0, OneShelf, TRUE, 7),
      Drawn(1, TwoShelves, TRUE, 7) }

TwoCustomers == <<c1, c2>>

Short == [walk |-> 1, hop |-> 0, queue |-> 1, linger |-> 1, browse |-> 2, out |-> 1]

OnePing == <<[label |-> s1, at |-> 3]>>
=============================================================================

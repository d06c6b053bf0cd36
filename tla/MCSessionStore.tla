--------------------------- MODULE MCSessionStore ---------------------------
(***************************************************************************)
(* Small feeds for the session store.  A unit of time stands for 30 s, so  *)
(* the join window of 90 s is 3, the re-entry gap of 60 s is 2, and dwell  *)
(* is counted in units of 10 s: 20 s is 2.                                 *)
(***************************************************************************)
EXTENDS SessionStore

CONSTANTS p, q, t, z1, z2

Env(id, type, label, ts) ==
    [id |-> id, type |-> type, embedding |-> label, track |-> t,
     role |-> "customer", ts |-> ts, zone |-> None, dwell |-> 0]

InZone(id, type, label, zone, dwell) ==
    [Env(id, type, label, 1) EXCEPT !.zone = zone, !.dwell = dwell]

Receipt(id, ts) == [Env(id, "pos_receipt", None, ts) EXCEPT !.track = None]

\* Two shoppers, two checkouts of one of them on either side of a receipt,
\* two receipts for one checkout, a receipt out of everyone's window, one
\* more receipt than the buffer holds, and an exit and a re-entry around it.
JoinFeed ==
    {Env(1, "person_entered", p, 0), Env(2, "person_entered", q, 0),
     Env(3, "person_exited", p, 5),  Env(4, "person_entered", p, 6),
     Env(5, "checkout_observed", p, 2), Env(6, "checkout_observed", p, 4),
     Env(7, "checkout_observed", q, 6),
     Receipt(8, 4), Receipt(9, 4), Receipt(10, 1), Receipt(11, 20)}

\* A shopper who leaves and returns before and after the re-entry gap, in any
\* order, and visits two zones; one known by track alone, who is staff; an
\* entry nobody can be named for.
VisitFeed ==
    {Env(1, "person_entered", p, 0), Env(2, "person_exited", p, 3),
     Env(3, "person_entered", p, 4), Env(4, "person_exited", p, 6),
     Env(5, "person_entered", p, 8),
     Env(6, "person_entered", None, 1), Env(7, "person_exited", None, 3),
     Env(8, "staff_observed", None, 2),
     InZone(9, "zone_entered", p, z2, 0), InZone(10, "zone_dwell", p, z1, 2),
     [Env(11, "person_entered", None, 0) EXCEPT !.track = None]}
=============================================================================

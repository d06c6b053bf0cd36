---------------------------- MODULE MCAggregator ----------------------------
(***************************************************************************)
(* One shopper who enters, dwells in a zone and queues, and a receipt,     *)
(* from three producers, with an entry that does not parse, failing        *)
(* queries, a failing bus and crashes.  Times as in MCSessionStore.        *)
(***************************************************************************)
EXTENDS Aggregator

CONSTANTS p, z1

Env(id, type, ts) ==
    [id |-> id, type |-> type, embedding |-> p, track |-> p,
     role |-> "customer", ts |-> ts, zone |-> None, dwell |-> 0]

Entered == Env(1, "person_entered", 0)
Dwell == [Env(2, "zone_dwell", 1) EXCEPT !.zone = z1, !.dwell = 2]
Checkout == Env(3, "checkout_observed", 2)
Receipt == [Env(4, "pos_receipt", 3) EXCEPT !.embedding = None, !.track = None]

Feed == {Entered, Dwell, Checkout, Receipt}

\* The door, a shelf and the till cameras are one worker each; so is the POS.
Producers == {<<Entered, Dwell>>, <<Checkout>>, <<Malformed, Receipt>>}
=============================================================================

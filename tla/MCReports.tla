----------------------------- MODULE MCReports -----------------------------
(***************************************************************************)
(* Days of a small store: one with four shoppers who only look around, and *)
(* one with two who also buy while a reader asks for the sales.            *)
(***************************************************************************)
EXTENDS Reports

LookingAround == [enter |-> 4, visit |-> 4, buy |-> 0, staff |-> 1, ask |-> 0]
Selling       == [enter |-> 2, visit |-> 1, buy |-> 2, staff |-> 1, ask |-> 1]

TheDays == {LookingAround, Selling}
=============================================================================

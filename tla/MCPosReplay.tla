----------------------------- MODULE MCPosReplay -----------------------------
(***************************************************************************)
(* A file out of order with two receipts of one minute and a row without a *)
(* total, a file with nothing usable, and one with a single receipt.       *)
(***************************************************************************)
EXTENDS PosReplay

Receipt(invoice, ts) == [invoice |-> invoice, ts |-> ts, total |-> 1]

CsvFiles == << <<Receipt(1, 13), Receipt(2, 11), [Receipt(3, 12) EXCEPT !.total = None],
                 Receipt(4, 11)>>,
               <<[Receipt(5, 10) EXCEPT !.ts = None]>>,
               <<Receipt(6, 3)>> >>
=============================================================================

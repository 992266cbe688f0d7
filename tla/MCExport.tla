-------------------------------- MODULE MCExport --------------------------------
(* The export worker on two sales and a void, where a write lands with its     *)
(* answer or never, and on one sale without, where two writes may land late.   *)
EXTENDS ExportWorker

MCScopes == {[sales |-> 2, voids |-> 1, late |-> 0],
             [sales |-> 1, voids |-> 0, late |-> 2]}

\* A void and a late write together: the sheet may go back (Converged).
MCOvertakenScopes == {[sales |-> 1, voids |-> 1, late |-> 1]}

\* One sale and one late write: a second row (OneRowPerSale).
MCSleepingScopes == {[sales |-> 1, voids |-> 0, late |-> 1]}
===============================================================================

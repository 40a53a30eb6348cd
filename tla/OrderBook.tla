------------------------------ MODULE OrderBook -----------------------------
(***************************************************************************)
(* What the order handlers promise of a receipt, with threads, databases   *)
(* and failures left out.  An order is open from its placement until it is *)
(* closed because it was sold, or voided; it is sold on its day by someone *)
(* who picked it while it was open; a sale is never undone.                *)
(***************************************************************************)
EXTENDS Naturals

CONSTANTS Receipts, Days

VARIABLES
    open,    \* receipts in the list of orders to prepare
    picking, \* <<day, receipt>> of the orders being stocked out
    sold,    \* <<day, receipt>> of the sales
    voided  \* receipts a client has asked to void, not yet answered

bookVars == <<open, picking, sold, voided>>

BookInit == open = {} /\ picking = {} /\ sold = {} /\ voided = {}

Place(r) ==
    /\ r \notin open
    /\ open' = open \cup {r}
    /\ UNCHANGED <<picking, sold, voided>>

Pick(d, r) ==
    /\ r \in open
    /\ picking' = picking \cup {<<d, r>>}
    /\ UNCHANGED <<open, sold, voided>>

Sell(d, r) ==
    /\ <<d, r>> \in picking \ sold
    /\ sold' = sold \cup {<<d, r>>}
    /\ UNCHANGED <<open, picking, voided>>

\* Someone else may still be stocking the same order out.
Close(d, r) ==
    /\ <<d, r>> \in picking \cap sold
    /\ open' = open \ {r}
    /\ picking' \in {picking, picking \ {<<d, r>>}}
    /\ UNCHANGED <<sold, voided>>

Void(r) ==
    /\ open' = open \ {r}
    /\ voided' = voided \cup {r}
    /\ UNCHANGED <<picking, sold>>

\* Requests end: answered, refused, failed or lost.
Drop ==
    /\ picking' \subseteq picking
    /\ voided' \subseteq voided
    /\ UNCHANGED <<open, sold>>

BookNext ==
    \/ \E r \in Receipts : Place(r) \/ Void(r)
    \/ \E d \in Days, r \in Receipts : Pick(d, r) \/ Sell(d, r) \/ Close(d, r)
    \/ Drop

BookSpec == BookInit /\ [][BookNext]_bookVars
=============================================================================

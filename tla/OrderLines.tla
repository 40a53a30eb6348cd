----------------------------- MODULE OrderLines -----------------------------
(***************************************************************************)
(* The data the order handlers compute on: the rows of tb_config_ware, the *)
(* lines of an order, and what one turn of the loops over those lines does *)
(* to them (HytradeInfoRouter::OnRouteHandler, ModifyStockOrderRouter::    *)
(* OnRouteHandler).  Amounts, images and extensions are left out: nothing  *)
(* the handlers decide depends on them.                                    *)
(***************************************************************************)
EXTENDS Integers, Sequences

CONSTANTS
    Codes,    \* the ware codes, primary key of tb_config_ware
    Prices,   \* stands for the name and the prices of a ware
    Receipts, \* the receipt numbers, primary key of tb_order
    MaxDay,   \* bound on the dates
    NoRow     \* what a lookup by primary key finds when there is no row

Days == 1 .. MaxDay

\* A row of tb_config_ware, less its key.
WareRow == [stock : Int, price : Prices]

\* One element of the "wares" array of an order.  Bound: the code takes any
\* toInt() for the count, of which the ones below zero are left out.
Line == [code : Codes, count : Nat]

\* A row of tb_order, less its key.  "day" is the date part of order->time:
\* it picks the business database the order will be written to.
Order == [uuid : Nat, day : Days, wares : Seq(Line)]

ASSUME NoRowAssumption == NoRow \notin WareRow /\ NoRow \notin Order

\* An empty wareEntityMap (QMap<QString, ConfigWareEntityPtr>).
NoWares == [c \in Codes |-> NoRow]

\* Variant: a line is refused only once the ware has run out.
CoversUntilEmpty(row, line) == row.stock > 0

\* The stock test both handlers make before they accept a line.
Covers(row, line) == row.stock >= line.count

\* wareEntity->SetStock(wareStock - saleCount)
Deduct(row, line) == [row EXCEPT !.stock = @ - line.count]

\* The line that operate 2 looks for: the first one with its code ("break").
FirstOfCode(lines, i) == \A j \in 1 .. i - 1 : lines[j].code # lines[i].code

\* What operate 2 makes of the stored lines: every element of the request's
\* array overwrites the count of the first stored line with the same code,
\* so the last element of a code wins and a second line of a code is kept.
MergeDetail(lines, detail) ==
    [i \in DOMAIN lines |->
        LET last == {k \in DOMAIN detail :
                        /\ detail[k].code = lines[i].code
                        /\ \A l \in k + 1 .. Len(detail) :
                                detail[l].code # lines[i].code}
        IN  IF last # {} /\ FirstOfCode(lines, i)
            THEN [lines[i] EXCEPT !.count = detail[CHOOSE k \in last : TRUE].count]
            ELSE lines[i]]

\* The fields of a "modify ware" request that are present replace the row's;
\* Keep stands for a field the request does not have.
CONSTANT Keep

WareEdit == [stock : Int \cup {Keep}, price : Prices \cup {Keep}]

ASSUME KeepAssumption == Keep \notin Int /\ Keep \notin Prices

EditRow(row, edit) ==
    [stock |-> IF edit.stock = Keep THEN row.stock ELSE edit.stock,
     price |-> IF edit.price = Keep THEN row.price ELSE edit.price]
=============================================================================

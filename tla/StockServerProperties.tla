------------------------ MODULE StockServerProperties -----------------------
(***************************************************************************)
(* What the handlers of StockServer.tla promise together.                  *)
(***************************************************************************)
EXTENDS StockServer

OutPoints == {"outLine", "outUpdateList", "outAdd", "outDelete"}
OrderPoints == OutPoints \cup {"hytradeLine", "hytradeAdd", "modifyUpdate"}

DbTypeOK ==
    /\ wares \in [Codes -> WareRow \cup {NoRow}]
    /\ temp \in [Receipts -> Order \cup {NoRow}]
    /\ business \in [Days -> [Receipts -> Order \cup {NoRow}]]

ProcTypeOK ==
    /\ configWares \in [Codes -> WareRow \cup {NoRow}]
    /\ today \in Days
    /\ nextUuid \in Nat
    /\ edits \in Nat

HandlerTypeOK ==
    /\ pc \in [Workers -> Points]
    /\ op \in [Workers -> Requests]
    /\ no \in [Workers -> Receipts \cup {NoRow}]
    /\ orderEntity \in [Workers -> Order \cup {NoRow}]
    /\ todo \in [Workers -> Seq(Line)]
    /\ wareEntityMap \in [Workers -> [Codes -> WareRow \cup {NoRow}]]
    /\ tradeErrorWare \in [Workers -> BOOLEAN]
    /\ answer \in [Workers -> Answers]

GhostTypeOK ==
    /\ cut \in [Workers -> [Codes -> Nat]]
    /\ taken \in [Codes -> Nat]
    /\ supply \in [Codes -> Int]
    /\ committed \subseteq Nat
    /\ voided \subseteq Nat

\* The loops have a line to look at, and the handlers of orders hold one.
ControlOK ==
    \A w \in Workers :
        /\ pc[w] \in {"hytradeLine", "outLine"} => todo[w] # <<>>
        /\ pc[w] \in OrderPoints => no[w] \in Receipts /\ orderEntity[w] # NoRow

\* An order in Temp.db has lines, and so has one about to be written there.
TempHasLines == \A r \in Receipts : temp[r] # NoRow => temp[r].wares # <<>>
EntityHasLines ==
    \A w \in Workers :
        At(w, "modifyUpdate") \/ (At(w, "hytradeAdd") /\ ~tradeErrorWare[w])
            => orderEntity[w].wares # <<>>

\* The type of every variable, and what each point of a handler relies on:
\* Head(todo) and the order it holds exist.
TypeOK ==
    DbTypeOK /\ ProcTypeOK /\ HandlerTypeOK /\ GhostTypeOK /\ ControlOK

-----------------------------------------------------------------------------
(* Stock.                                                                  *)

\* No interleaving of stock-outs, edits, uploads, failures and crashes makes
\* a stock negative: each handler writes back the remainder of a row it has
\* itself compared with the line (HytradeInfoRouter.cpp:126,
\* ModifyStockOrderRouter.cpp:150), never an amount relative to the row.
StockNeverNegative ==
    \A c \in Codes : wares[c] # NoRow => wares[c].stock >= 0

\* However stock-outs of several threads overlap, and whatever stale row an
\* image upload or a price change writes back, no more leaves tb_config_ware
\* than the stock-outs written took (ModifyStockOrderRouter.cpp:162-169):
\* stale rows can only lose a deduction.  Holds while no request sets a stock.
NoStockVanishes ==
    \A c \in Codes : StockOf(wares[c]) >= supply[c] - taken[c]

\* When handlers do not overlap nothing is lost either way.
StockBooksBalance ==
    \A c \in Codes : StockOf(wares[c]) = supply[c] - taken[c]

-----------------------------------------------------------------------------
(* Orders.                                                                 *)

\* An order in a business database has had its stock-out written to
\* tb_config_ware, whatever failed before or after
\* (ModifyStockOrderRouter.cpp:169 comes before :184).
SoldWasTaken ==
    \A d \in Days, r \in Receipts :
        business[d][r] # NoRow => business[d][r].uuid \in committed

\* A stock-out answered with success has its order in the business database
\* of the order's own date, with the lines the stock was taken for, even if
\* other threads void, modify or place the receipt again meanwhile.
SuccessMeansSold ==
    \A w \in Workers :
        At(w, "reply") /\ op[w] = "stockOut" /\ answer[w] = "SUCCESS"
            => business[orderEntity[w].day][no[w]] = orderEntity[w]

\* The uuids orders are placed with, and where the order with one of them is.
Uuids == 1 .. MaxOrders
InTemp(u, r) == temp[r] # NoRow /\ temp[r].uuid = u
Sold(u, r) == \E d \in Days : business[d][r] # NoRow /\ business[d][r].uuid = u

\* A thread writes Temp.db for an order of the receipt it read before, while
\* another one than u was the receipt's.
WritesForAnother(w, u, r) ==
    /\ pc[w] \in {"outDelete", "modifyUpdate"} /\ pc'[w] = "reply"
    /\ answer'[w] = "SUCCESS"
    /\ no[w] = r /\ orderEntity[w].uuid # u

\* An order that was placed leaves Temp.db only when it is voided itself, or
\* is itself in a business database: neither an error nor a crash between the
\* insert and the delete (ModifyStockOrderRouter.cpp:184,196) loses it.  The
\* one exception: these statements name the receipt, not the order, so a thread
\* that read an order since voided or sold deletes or overwrites the one placed
\* in its stead (ModifyStockOrderRouter.cpp:196,245).
NoOrderLost ==
    [][\A u \in Uuids, r \in Receipts :
        InTemp(u, r) /\ ~InTemp(u, r)'
            => \/ u \in voided'
               \/ Sold(u, r)
               \/ \E w \in Workers : WritesForAnother(w, u, r)]_vars

\* An order comes into Temp.db only when it is placed, and is then neither
\* voided nor sold: a modification written after its order was voided or
\* stocked out brings nothing back (ModifyStockOrderRouter.cpp:212,245).  The
\* one exception: the receipt was placed again meanwhile, and the older order
\* is written over the new one.
NoOrderComesBack ==
    [][\A u \in Uuids, r \in Receipts :
        ~InTemp(u, r) /\ InTemp(u, r)'
            => \E w \in Workers :
                /\ no[w] = r /\ temp'[r] = orderEntity[w]
                /\ \/ /\ At(w, "hytradeAdd") /\ temp[r] = NoRow
                      /\ u \notin voided /\ ~Sold(u, r)
                   \/ At(w, "modifyUpdate") /\ temp[r] # NoRow]_vars

\* What a business database holds is final: a receipt placed and stocked out
\* a second time on its day does not replace the first sale.
SalesAreFinal ==
    [][\A d \in Days, r \in Receipts :
        business[d][r] # NoRow => business'[d][r] = business[d][r]]_vars

\* A receipt and its order are in Temp.db and in a business database at the
\* same time only while a thread is about to delete it, when no call fails
\* and the process does not die in between and nobody writes a stale copy.
SoldLeavesTemp ==
    \A d \in Days, r \in Receipts :
        /\ temp[r] # NoRow
        /\ business[d][r] # NoRow
        /\ temp[r].uuid = business[d][r].uuid
        => \E w \in Workers : At(w, "outDelete") /\ no[w] = r

\* UpdateList is never given an empty list, which QdOrmDaoUpdate asserts
\* (Q_ASSERT_X(!t.isEmpty())): no order without lines reaches Temp.db.
UpdateListNotEmpty ==
    \A w \in Workers :
        At(w, "outUpdateList") => \E c \in Codes : wareEntityMap[w][c] # NoRow

\* A stock-out comes to UpdateList with the row of every ware its order names,
\* and of no other, and has deducted the first line of each, however many lines
\* of a ware there are and whatever operate 2 had made of them before
\* (ModifyStockOrderRouter.cpp:108-166): only further lines of a ware are lost.
StockOutTakesFirstLines ==
    \A w \in Workers : At(w, "outUpdateList") =>
        LET lines == orderEntity[w].wares
        IN  /\ \A c \in Codes : wareEntityMap[w][c] # NoRow
                                    <=> \E i \in DOMAIN lines : lines[i].code = c
            /\ \A i \in DOMAIN lines : FirstOfCode(lines, i)
                    => cut[w][lines[i].code] = lines[i].count

-----------------------------------------------------------------------------
(* The abstract order book.                                                *)

OpenReceipts == {r \in Receipts : temp[r] # NoRow}
Sales == {s \in Days \X Receipts : business[s[1]][s[2]] # NoRow}
StockingOut == {w \in Workers : pc[w] \in OutPoints}
Picked == {<<orderEntity[w].day, no[w]>> : w \in StockingOut}
Voiders == {w \in Workers : op[w] = "void" /\ answer[w] = "SUCCESS"}
Voided == {no[w] : w \in Voiders}

Book == INSTANCE OrderBook WITH
            open <- OpenReceipts, picking <- Picked, sold <- Sales,
            voided <- Voided

\* The handlers implement the order book: whatever the interleaving, the
\* failures and the crashes, only an open order is picked, only a picked one
\* is sold, and an open one is closed only when sold or voided.
ImplementsOrderBook == Book!BookSpec

-----------------------------------------------------------------------------
(* Every request is answered, or lost with the process that served it.     *)

EveryRequestEnds == \A w \in Workers : ~At(w, "idle") ~> At(w, "idle")

-----------------------------------------------------------------------------
(* What the code's comments and messages say, and the code does not do.    *)

\* ModifyStockOrderRouter.cpp:88: operate 3 voids the order.  An order voided
\* with success is not in a business database.
VoidedIsNotSold ==
    \A d \in Days, r \in Receipts :
        business[d][r] # NoRow => business[d][r].uuid \notin voided

\* ... nor does it come back to Temp.db.
VoidedStaysGone ==
    \A r \in Receipts : temp[r] # NoRow => temp[r].uuid \notin voided
=============================================================================

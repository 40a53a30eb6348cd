----------------------------- MODULE StockServer ----------------------------
(***************************************************************************)
(* The order and ware handlers of the server (ModuleProtocol/Server/Sale   *)
(* and .../Storage) run by the threads of the HTTP pool over three SQLite  *)
(* databases: StockServer.db (tb_config_ware), Temp.db (orders to prepare) *)
(* and one business database a day (orders stocked out).                   *)
(*                                                                         *)
(* A step is one call of DmlBase, which holds the lock of its database for *)
(* that call only (DmlBase.h); between two calls every other thread may    *)
(* run.  What a handler does in its own memory is part of the call before  *)
(* or after it.                                                            *)
(***************************************************************************)
EXTENDS OrderLines

CONSTANTS
    Workers,       \* threads of the pool that handle requests
    OrderWares,    \* the "wares" arrays clients place orders with
    DetailWares,   \* the "wares" arrays of operate 2
    InitialWares,  \* content of tb_config_ware when the server starts
    AddRequests,   \* <<code, row>>: requests that add a ware
    EditRequests,  \* <<code, edit>>: requests that modify a ware
    SqlMayFail,    \* may a statement fail for a reason of its own?
    MayCrash,      \* may the process die?
    MaxOrders,     \* bound on the orders placed
    MaxEdits       \* bound on the modifications and uploads of wares

ASSUME StockServerAssumption ==
    /\ OrderWares \subseteq Seq(Line)
    /\ DetailWares \subseteq Seq(Line)
    /\ InitialWares \in [Codes -> WareRow \cup {NoRow}]
    /\ AddRequests \subseteq Codes \X WareRow
    /\ EditRequests \subseteq Codes \X WareEdit
    /\ SqlMayFail \in BOOLEAN
    /\ MayCrash \in BOOLEAN
    /\ MaxOrders \in Nat
    /\ MaxEdits \in Nat
    /\ MaxDay \in Nat \ {0}

VARIABLES
    \* the databases
    wares,          \* tb_config_ware of StockServer.db
    temp,           \* tb_order of Temp.db
    business,       \* tb_order of the business database of each day
    \* the process
    configWares,    \* ConfigManager::m_configWares, read once at start
    today,
    nextUuid,       \* MathUtil::GetUUID: never the same twice
    edits,          \* modifications and uploads so far
    \* the handler each thread is in
    pc,
    op,             \* which request it serves
    no,             \* receiptNo / orderNo of the request
    orderEntity,
    todo,           \* the lines the loop has yet to look at
    wareEntityMap,
    tradeErrorWare, \* is tradeErrorWareArr not empty?
    answer,
    \* history, read by no action
    cut,            \* units of each ware the thread's wareEntityMap deducts
    taken,          \* units deducted by the stock-outs written so far
    supply,         \* units tb_config_ware was given
    committed,      \* uuids whose stock-out has been written to the wares
    voided          \* uuids removed by an order voided with success

dbVars    == <<wares, temp, business>>
procVars  == <<configWares, today, nextUuid, edits>>
reqVars   == <<op, no, orderEntity>>
loopVars  == <<todo, wareEntityMap, tradeErrorWare, cut>>
ghostVars == <<taken, supply, committed, voided>>
vars == <<dbVars, procVars, reqVars, loopVars, ghostVars, pc, answer>>

Points == {"idle", "hytradeLine", "hytradeAdd", "outLine", "outUpdateList",
           "outAdd", "outDelete", "modifyUpdate", "editUpdate", "reply"}
Requests == {"none", "hytrade", "stockOut", "modify", "void", "addWare",
             "editWare"}
Answers == {"none", "SUCCESS", "SQL_ERROR", "INSUFFICIENT_STOCK",
            "TRADE_ERROR_WARE", "WARE_ERROR"}
NoCut == [c \in Codes |-> 0]
StockOf(row) == IF row = NoRow THEN 0 ELSE row.stock

Init ==
    /\ wares = InitialWares
    /\ temp = [r \in Receipts |-> NoRow]
    /\ business = [d \in Days |-> [r \in Receipts |-> NoRow]]
    /\ configWares = InitialWares
    /\ today = 1
    /\ nextUuid = 1
    /\ edits = 0
    /\ pc = [w \in Workers |-> "idle"]
    /\ op = [w \in Workers |-> "none"]
    /\ no = [w \in Workers |-> NoRow]
    /\ orderEntity = [w \in Workers |-> NoRow]
    /\ todo = [w \in Workers |-> <<>>]
    /\ wareEntityMap = [w \in Workers |-> NoWares]
    /\ tradeErrorWare = [w \in Workers |-> FALSE]
    /\ answer = [w \in Workers |-> "none"]
    /\ cut = [w \in Workers |-> NoCut]
    /\ taken = NoCut
    /\ supply = [c \in Codes |-> StockOf(InitialWares[c])]
    /\ committed = {}
    /\ voided = {}

-----------------------------------------------------------------------------
(* Steps every handler shares.                                             *)

At(w, point) == pc[w] = point

\* The thread takes a request off the pool's queue.
Accept(w, request, receipt, point) ==
    /\ pc[w] = "idle"
    /\ pc' = [pc EXCEPT ![w] = point]
    /\ op' = [op EXCEPT ![w] = request]
    /\ no' = [no EXCEPT ![w] = receipt]

\* The handler returns; its local variables go out of scope.
Finish(w, code) ==
    /\ pc' = [pc EXCEPT ![w] = "reply"]
    /\ answer' = [answer EXCEPT ![w] = code]
    /\ todo' = [todo EXCEPT ![w] = <<>>]
    /\ wareEntityMap' = [wareEntityMap EXCEPT ![w] = NoWares]
    /\ tradeErrorWare' = [tradeErrorWare EXCEPT ![w] = FALSE]
    /\ cut' = [cut EXCEPT ![w] = NoCut]

\* Variant: the loop of a stock-out looks at the same line again and again.
AdvanceNowhere(w, next) ==
    /\ todo' = IF next = "hytradeAdd" THEN [todo EXCEPT ![w] = Tail(@)] ELSE todo
    /\ pc' = [pc EXCEPT ![w] = IF next = "hytradeAdd" /\ Len(todo[w]) = 1
                               THEN next ELSE @]
    /\ UNCHANGED answer

\* Variant: a stock-out inserts the order and forgets UpdateList.
AdvanceToAdd(w, next) ==
    /\ todo' = [todo EXCEPT ![w] = Tail(@)]
    /\ pc' = [pc EXCEPT ![w] = CASE Len(todo[w]) > 1 -> @
                                  [] next = "outUpdateList" -> "outAdd"
                                  [] OTHER -> next]
    /\ UNCHANGED answer

\* The loop over the lines goes on, or leaves for `next' after the last one.
Advance(w, next) ==
    /\ todo' = [todo EXCEPT ![w] = Tail(@)]
    /\ pc' = [pc EXCEPT ![w] = IF Len(todo[w]) > 1 THEN @ ELSE next]
    /\ UNCHANGED answer

\* Variant: the row is deducted from but not kept.
HoldNothing(w, code, row) == UNCHANGED wareEntityMap

\* wareEntityMap[wareCode] = wareEntity
Hold(w, code, row) ==
    wareEntityMap' = [wareEntityMap EXCEPT ![w][code] = row]

\* UPDATE tb_config_ware ... WHERE code = ...: every column of each row the
\* handler holds; a key without a row is no error.
WriteWares(w) ==
    wares' = [c \in Codes |-> IF wareEntityMap[w][c] # NoRow /\ wares[c] # NoRow
                              THEN wareEntityMap[w][c]
                              ELSE wares[c]]

-----------------------------------------------------------------------------
(* HytradeInfoRouter: place an order.                                      *)

\* Variant: an order without wares is let through.
HytradeInfoUnchecked(w, r, lines) ==
    /\ nextUuid <= MaxOrders
    /\ Accept(w, "hytrade", r, "hytradeLine")
    /\ orderEntity' = [orderEntity EXCEPT
                        ![w] = [uuid |-> nextUuid, day |-> today, wares |-> <<>>]]
    /\ nextUuid' = nextUuid + 1
    /\ todo' = [todo EXCEPT ![w] = lines]
    /\ UNCHANGED <<dbVars, configWares, today, edits, wareEntityMap,
                   tradeErrorWare, cut, answer, ghostVars>>

HytradeInfo(w, r, lines) ==
    /\ lines # <<>>
    /\ nextUuid <= MaxOrders
    /\ Accept(w, "hytrade", r, "hytradeLine")
    /\ orderEntity' = [orderEntity EXCEPT
                        ![w] = [uuid |-> nextUuid, day |-> today, wares |-> <<>>]]
    /\ nextUuid' = nextUuid + 1
    /\ todo' = [todo EXCEPT ![w] = lines]
    /\ UNCHANGED <<dbVars, configWares, today, edits, wareEntityMap,
                   tradeErrorWare, cut, answer, ghostVars>>

\* The row the loop compares a line with: the one it holds, else the table's.
RowFor(w, code) ==
    IF wareEntityMap[w][code] # NoRow THEN wareEntityMap[w][code] ELSE wares[code]

HytradeLine(w) ==
    LET line == Head(todo[w])
        row  == RowFor(w, line.code)
        held == wareEntityMap[w][line.code] # NoRow
    IN  /\ At(w, "hytradeLine")
        /\ \/ /\ row = NoRow
              /\ Finish(w, "SQL_ERROR")
              /\ UNCHANGED orderEntity
           \/ /\ row # NoRow /\ ~Covers(row, line) /\ held
              /\ Finish(w, "INSUFFICIENT_STOCK")
              /\ UNCHANGED orderEntity
           \/ /\ row # NoRow /\ ~Covers(row, line) /\ ~held
              /\ Advance(w, "hytradeAdd")
              /\ tradeErrorWare' = [tradeErrorWare EXCEPT ![w] = TRUE]
              /\ UNCHANGED <<wareEntityMap, cut, orderEntity>>
           \/ /\ row # NoRow /\ Covers(row, line)
              /\ Advance(w, "hytradeAdd")
              /\ Hold(w, line.code, Deduct(row, line))
              /\ orderEntity' = [orderEntity EXCEPT
                                    ![w].wares = Append(@, line)]
              /\ UNCHANGED <<tradeErrorWare, cut>>
        /\ UNCHANGED <<dbVars, procVars, op, no, ghostVars>>

\* Variant: the stock is deducted when the order is placed.
HytradeAddDeducts(w) ==
    /\ At(w, "hytradeAdd") /\ ~tradeErrorWare[w] /\ temp[no[w]] = NoRow
    /\ WriteWares(w)
    /\ temp' = [temp EXCEPT ![no[w]] = orderEntity[w]]
    /\ Finish(w, "SUCCESS")
    /\ UNCHANGED <<business, procVars, reqVars, ghostVars>>

\* The end of HytradeInfo: refuse, or insert into Temp.db.
HytradeAdd(w) ==
    LET r == no[w]
    IN  /\ At(w, "hytradeAdd")
        /\ \/ /\ tradeErrorWare[w]
              /\ Finish(w, "TRADE_ERROR_WARE")
              /\ UNCHANGED temp
           \/ /\ ~tradeErrorWare[w] /\ temp[r] # NoRow
              /\ Finish(w, "SQL_ERROR")
              /\ UNCHANGED temp
           \/ /\ ~tradeErrorWare[w] /\ temp[r] = NoRow
              /\ temp' = [temp EXCEPT ![r] = orderEntity[w]]
              /\ Finish(w, "SUCCESS")
        /\ UNCHANGED <<wares, business, procVars, reqVars, ghostVars>>

-----------------------------------------------------------------------------
(* ModifyStockOrderRouter, operate 1: stock an order out.                  *)

StockOutFind(w, r) ==
    /\ \/ /\ temp[r] # NoRow
          /\ Accept(w, "stockOut", r, "outLine")
          /\ orderEntity' = [orderEntity EXCEPT ![w] = temp[r]]
          /\ todo' = [todo EXCEPT ![w] = temp[r].wares]
          /\ UNCHANGED answer
       \/ /\ temp[r] = NoRow \/ SqlMayFail
          /\ Accept(w, "stockOut", r, "reply")
          /\ answer' = [answer EXCEPT ![w] = "SQL_ERROR"]
          /\ UNCHANGED <<orderEntity, todo>>
    /\ UNCHANGED <<dbVars, procVars, wareEntityMap, tradeErrorWare, cut,
                   ghostVars>>

\* Variant: the row is read, deducted from and kept again for each line.
StockOutLineAgain(w) ==
    LET line == Head(todo[w])
        row  == wares[line.code]
    IN  /\ At(w, "outLine")
        /\ row # NoRow /\ Covers(row, line)
        /\ Advance(w, "outUpdateList")
        /\ Hold(w, line.code, Deduct(row, line))
        /\ cut' = [cut EXCEPT ![w][line.code] = line.count]
        /\ UNCHANGED <<dbVars, procVars, reqVars, tradeErrorWare, ghostVars>>

StockOutLine(w) ==
    LET line == Head(todo[w])
        row  == RowFor(w, line.code)
        held == wareEntityMap[w][line.code] # NoRow
    IN  /\ At(w, "outLine")
        /\ \/ /\ row = NoRow
              /\ Finish(w, "SQL_ERROR")
           \/ /\ row # NoRow /\ ~Covers(row, line)
              /\ Finish(w, "INSUFFICIENT_STOCK")
           \/ /\ row # NoRow /\ Covers(row, line) /\ held
              /\ Advance(w, "outUpdateList")
              /\ UNCHANGED <<wareEntityMap, tradeErrorWare, cut>>
           \/ /\ row # NoRow /\ Covers(row, line) /\ ~held
              /\ Advance(w, "outUpdateList")
              /\ Hold(w, line.code, Deduct(row, line))
              /\ cut' = [cut EXCEPT ![w][line.code] = line.count]
              /\ UNCHANGED tradeErrorWare
        /\ UNCHANGED <<dbVars, procVars, reqVars, ghostVars>>

\* Variant: the order is deleted from Temp.db before it is inserted.
StockOutUpdateListThenDelete(w) ==
    /\ At(w, "outUpdateList")
    /\ WriteWares(w)
    /\ taken' = [c \in Codes |-> taken[c] + cut[w][c]]
    /\ committed' = committed \cup {orderEntity[w].uuid}
    /\ pc' = [pc EXCEPT ![w] = "outDelete"]
    /\ UNCHANGED <<temp, business, procVars, reqVars, loopVars, answer,
                   supply, voided>>

\* One transaction over the rows of wareEntityMap.
StockOutUpdateList(w) ==
    /\ At(w, "outUpdateList")
    /\ WriteWares(w)
    /\ taken' = [c \in Codes |-> taken[c] + cut[w][c]]
    /\ committed' = committed \cup {orderEntity[w].uuid}
    /\ pc' = [pc EXCEPT ![w] = "outAdd"]
    /\ UNCHANGED <<temp, business, procVars, reqVars, loopVars, answer,
                   supply, voided>>

\* Variant: the result of the insert is not looked at.
StockOutAddUnchecked(w) ==
    /\ At(w, "outAdd")
    /\ business' = [business EXCEPT ![orderEntity[w].day][no[w]] =
                        IF @ = NoRow THEN orderEntity[w] ELSE @]
    /\ pc' = [pc EXCEPT ![w] = "outDelete"]
    /\ UNCHANGED <<wares, temp, procVars, reqVars, loopVars, answer, ghostVars>>

\* Variant: Save (insert or replace) instead of Add.
StockOutSave(w) ==
    /\ At(w, "outAdd")
    /\ business' = [business EXCEPT ![orderEntity[w].day][no[w]] = orderEntity[w]]
    /\ pc' = [pc EXCEPT ![w] = "outDelete"]
    /\ UNCHANGED <<wares, temp, procVars, reqVars, loopVars, answer, ghostVars>>

\* Insert into the business database of the order's date.
StockOutAdd(w) ==
    LET d == orderEntity[w].day
        r == no[w]
    IN  /\ At(w, "outAdd")
        /\ \/ /\ business[d][r] = NoRow
              /\ business' = [business EXCEPT ![d][r] = orderEntity[w]]
              /\ pc' = [pc EXCEPT ![w] = "outDelete"]
              /\ UNCHANGED <<loopVars, answer>>
           \/ /\ business[d][r] # NoRow
              /\ Finish(w, "SQL_ERROR")
              /\ UNCHANGED business
        /\ UNCHANGED <<wares, temp, procVars, reqVars, ghostVars>>

\* Variant: the order stays in Temp.db.
StockOutKeep(w) ==
    /\ At(w, "outDelete")
    /\ Finish(w, "SUCCESS")
    /\ UNCHANGED <<dbVars, procVars, reqVars, ghostVars>>

\* Delete from Temp.db; a key without a row is no error.
StockOutDelete(w) ==
    /\ At(w, "outDelete")
    /\ temp' = [temp EXCEPT ![no[w]] = NoRow]
    /\ Finish(w, "SUCCESS")
    /\ UNCHANGED <<wares, business, procVars, reqVars, ghostVars>>

-----------------------------------------------------------------------------
(* ModifyStockOrderRouter, operates 2 and 3: modify an order, void it.     *)

ModifyFind(w, r, detail) ==
    /\ \/ /\ temp[r] # NoRow
          /\ Accept(w, "modify", r, "modifyUpdate")
          /\ orderEntity' = [orderEntity EXCEPT
                ![w] = [temp[r] EXCEPT !.wares = MergeDetail(@, detail)]]
          /\ UNCHANGED answer
       \/ /\ temp[r] = NoRow \/ SqlMayFail
          /\ Accept(w, "modify", r, "reply")
          /\ answer' = [answer EXCEPT ![w] = "SQL_ERROR"]
          /\ UNCHANGED orderEntity
    /\ UNCHANGED <<dbVars, procVars, loopVars, ghostVars>>

\* Variant: Save (insert or replace) instead of UpdateById.
ModifySave(w) ==
    /\ At(w, "modifyUpdate")
    /\ temp' = [temp EXCEPT ![no[w]] = orderEntity[w]]
    /\ Finish(w, "SUCCESS")
    /\ UNCHANGED <<wares, business, procVars, reqVars, ghostVars>>

\* UPDATE ... WHERE receipt_no = ...: no error when the row is gone.
ModifyUpdate(w) ==
    /\ At(w, "modifyUpdate")
    /\ temp' = [temp EXCEPT ![no[w]] = IF @ = NoRow THEN NoRow ELSE orderEntity[w]]
    /\ Finish(w, "SUCCESS")
    /\ UNCHANGED <<wares, business, procVars, reqVars, ghostVars>>

VoidOrder(w, r) ==
    /\ Accept(w, "void", r, "reply")
    /\ \/ /\ temp' = [temp EXCEPT ![r] = NoRow]
          /\ answer' = [answer EXCEPT ![w] = "SUCCESS"]
          /\ voided' = IF temp[r] = NoRow THEN voided
                       ELSE voided \cup {temp[r].uuid}
       \/ /\ SqlMayFail
          /\ answer' = [answer EXCEPT ![w] = "SQL_ERROR"]
          /\ UNCHANGED <<temp, voided>>
    /\ UNCHANGED <<wares, business, procVars, orderEntity, loopVars,
                   taken, supply, committed>>

-----------------------------------------------------------------------------
(* ModifyConfigWareRouter: add a ware, modify a ware.                      *)

AddWare(w, c, row) ==
    /\ Accept(w, "addWare", NoRow, "reply")
    /\ \/ /\ wares[c] = NoRow
          /\ wares' = [wares EXCEPT ![c] = row]
          /\ supply' = [supply EXCEPT ![c] = @ + row.stock]
          /\ answer' = [answer EXCEPT ![w] = "SUCCESS"]
       \/ /\ wares[c] # NoRow \/ SqlMayFail
          /\ answer' = [answer EXCEPT ![w] = "SQL_ERROR"]
          /\ UNCHANGED <<wares, supply>>
    /\ UNCHANGED <<temp, business, procVars, orderEntity, loopVars,
                   taken, committed, voided>>

EditWareFind(w, c, edit) ==
    /\ edits < MaxEdits
    /\ edits' = edits + 1
    /\ \/ /\ wares[c] # NoRow
          /\ Accept(w, "editWare", NoRow, "editUpdate")
          /\ wareEntityMap' = [wareEntityMap EXCEPT
                                ![w][c] = EditRow(wares[c], edit)]
          /\ UNCHANGED answer
       \/ /\ wares[c] = NoRow \/ SqlMayFail
          /\ Accept(w, "editWare", NoRow, "reply")
          /\ answer' = [answer EXCEPT ![w] = "WARE_ERROR"]
          /\ UNCHANGED wareEntityMap
    /\ UNCHANGED <<dbVars, configWares, today, nextUuid, orderEntity, todo,
                   tradeErrorWare, cut, ghostVars>>

EditWareUpdate(w) ==
    /\ At(w, "editUpdate")
    /\ WriteWares(w)
    /\ Finish(w, "SUCCESS")
    /\ UNCHANGED <<temp, business, procVars, reqVars, ghostVars>>

\* ConfigManager::onUploadWareImage, on the manager's own thread: the row
\* written is the one ConfigManager read when it started.
UploadWareImage(c) ==
    /\ edits < MaxEdits
    /\ edits' = edits + 1
    /\ configWares[c] # NoRow
    /\ wares' = [wares EXCEPT ![c] = IF @ = NoRow THEN NoRow ELSE configWares[c]]
    /\ UNCHANGED <<temp, business, configWares, today, nextUuid, reqVars,
                   loopVars, ghostVars, pc, answer>>

-----------------------------------------------------------------------------
(* Failures, the end of a request, the calendar.                           *)

\* The points where the next thing a handler does is a call of DmlBase.
CallPending(w) ==
    \/ pc[w] \in {"outUpdateList", "outAdd", "outDelete", "modifyUpdate",
                  "editUpdate"}
    \/ At(w, "hytradeAdd") /\ ~tradeErrorWare[w]
    \/ /\ pc[w] \in {"hytradeLine", "outLine"}
       /\ wareEntityMap[w][Head(todo[w]).code] = NoRow

\* Variant: UpdateList fails after its first row and does not roll back.
SqlErrorNoRollback(w) ==
    /\ SqlMayFail
    /\ CallPending(w)
    /\ \/ At(w, "outUpdateList") /\ \E c \in Codes :
            wares' = [wares EXCEPT ![c] = RowFor(w, c)]
       \/ ~At(w, "outUpdateList") /\ UNCHANGED wares
    /\ Finish(w, "SQL_ERROR")
    /\ UNCHANGED <<temp, business, procVars, reqVars, ghostVars>>

\* That call fails: every handler answers at once, and undoes nothing of what
\* it has written.  (A handler's first call fails in the request's action.)
SqlError(w) ==
    /\ SqlMayFail
    /\ CallPending(w)
    /\ Finish(w, "SQL_ERROR")
    /\ UNCHANGED <<dbVars, procVars, reqVars, ghostVars>>

\* The answer is sent, or lost: the client may ask again either way.
Reply(w) ==
    /\ At(w, "reply")
    /\ pc' = [pc EXCEPT ![w] = "idle"]
    /\ op' = [op EXCEPT ![w] = "none"]
    /\ no' = [no EXCEPT ![w] = NoRow]
    /\ orderEntity' = [orderEntity EXCEPT ![w] = NoRow]
    /\ answer' = [answer EXCEPT ![w] = "none"]
    /\ UNCHANGED <<dbVars, procVars, loopVars, ghostVars>>

\* The process dies and is started again: the databases keep what was
\* written, ConfigManager reads the wares anew, every request is lost.
Restart ==
    /\ configWares' = wares
    /\ pc' = [w \in Workers |-> "idle"]
    /\ op' = [w \in Workers |-> "none"]
    /\ no' = [w \in Workers |-> NoRow]
    /\ orderEntity' = [w \in Workers |-> NoRow]
    /\ todo' = [w \in Workers |-> <<>>]
    /\ wareEntityMap' = [w \in Workers |-> NoWares]
    /\ tradeErrorWare' = [w \in Workers |-> FALSE]
    /\ answer' = [w \in Workers |-> "none"]
    /\ cut' = [w \in Workers |-> NoCut]
    /\ UNCHANGED <<dbVars, today, nextUuid, edits, ghostVars>>

Crash == MayCrash /\ Restart

\* An order without wares: `reponse' is used before it is created.
HytradeNoWares(w) == At(w, "idle") /\ <<>> \in OrderWares /\ Restart

NextDay ==
    /\ today < MaxDay
    /\ today' = today + 1
    /\ UNCHANGED <<dbVars, configWares, nextUuid, edits, reqVars, loopVars,
                   ghostVars, pc, answer>>

-----------------------------------------------------------------------------

\* A request arrives and the handler makes its first call.
Request(w) ==
    \/ \E r \in Receipts :
        \/ \E lines \in OrderWares : HytradeInfo(w, r, lines)
        \/ StockOutFind(w, r)
        \/ \E detail \in DetailWares : ModifyFind(w, r, detail)
        \/ VoidOrder(w, r)
    \/ \E q \in AddRequests : AddWare(w, q[1], q[2])
    \/ \E q \in EditRequests : EditWareFind(w, q[1], q[2])
    \/ HytradeNoWares(w)

\* A handler goes on.
Continue(w) ==
    \/ HytradeLine(w) \/ HytradeAdd(w)
    \/ StockOutLine(w) \/ StockOutUpdateList(w)
    \/ StockOutAdd(w) \/ StockOutDelete(w)
    \/ ModifyUpdate(w)
    \/ EditWareUpdate(w)
    \/ SqlError(w)
    \/ Reply(w)

Next ==
    \/ \E w \in Workers : Request(w) \/ Continue(w)
    \/ \E c \in Codes : UploadWareImage(c)
    \/ Crash
    \/ NextDay

\* A pool thread that has a request keeps running.
Fairness == \A w \in Workers : WF_vars(Continue(w))

Spec == Init /\ [][Next]_vars /\ Fairness
=============================================================================

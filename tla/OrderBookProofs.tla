--------------------------- MODULE OrderBookProofs --------------------------
(***************************************************************************)
(* The handlers implement the order book of OrderBook.tla, for any number  *)
(* of threads and orders: every step of a handler, a failure or a crash is *)
(* a step of the book or leaves the book as it is.                         *)
(***************************************************************************)
EXTENDS StockServerProofs

-----------------------------------------------------------------------------
(* What the book sees of a thread.                                         *)

\* A request to void is answered by the call that voids.
VoidInv == \A w \in Workers : op[w] = "void" => At(w, "reply")

\* The thread picks no order, and counts as voiding none, that it did not.
NoMoreSeen(w) ==
    /\ pc'[w] \in OutPoints =>
          /\ pc[w] \in OutPoints
          /\ no'[w] = no[w] /\ orderEntity'[w] = orderEntity[w]
    /\ op'[w] = "void" /\ answer'[w] = "SUCCESS" =>
          /\ op[w] = "void" /\ answer[w] = "SUCCESS"
          /\ no'[w] = no[w]

NoLessSeen(w) ==
    /\ pc[w] \in OutPoints =>
          /\ pc'[w] \in OutPoints
          /\ no'[w] = no[w] /\ orderEntity'[w] = orderEntity[w]
    /\ op[w] = "void" /\ answer[w] = "SUCCESS" =>
          /\ op'[w] = "void" /\ answer'[w] = "SUCCESS"
          /\ no'[w] = no[w]

LEMMA SeenShrinks ==
    ASSUME \A w \in Workers : NoMoreSeen(w)
    PROVE  Picked' \subseteq Picked /\ Voided' \subseteq Voided
  BY DEF NoMoreSeen, Picked, StockingOut, Voided, Voiders

LEMMA SeenStays ==
    ASSUME \A w \in Workers : NoMoreSeen(w) /\ NoLessSeen(w)
    PROVE  UNCHANGED <<Picked, Voided>>
<1>1. Picked' \subseteq Picked /\ Voided' \subseteq Voided
  BY SeenShrinks
<1>2. Picked \subseteq Picked' /\ Voided \subseteq Voided'
  BY DEF NoLessSeen, Picked, StockingOut, Voided, Voiders
<1>3. QED
  BY <1>1, <1>2

LEMMA SameIsSeen ==
    ASSUME NEW w \in Workers, SameThread(w)
    PROVE  NoMoreSeen(w) /\ NoLessSeen(w)
  BY DEF SameThread, NoMoreSeen, NoLessSeen

\* A step of a thread that stocks no order out, before or after.
LEMMA PickedStays ==
    ASSUME NEW w \in Workers, pc[w] \notin OutPoints, pc'[w] \notin OutPoints,
           \A v \in Workers \ {w} : NoMoreSeen(v) /\ NoLessSeen(v)
    PROVE  Picked' = Picked
<1>1. StockingOut' = StockingOut
  BY DEF StockingOut, NoMoreSeen, NoLessSeen
<1>2. \A v \in StockingOut : no'[v] = no[v] /\ orderEntity'[v] = orderEntity[v]
  BY DEF StockingOut, NoLessSeen
<1>3. QED
  BY <1>1, <1>2 DEF Picked

\* A step of a thread that serves no request to void, before or after.
LEMMA VoidedStays ==
    ASSUME NEW w \in Workers, op[w] # "void", op'[w] # "void",
           \A v \in Workers \ {w} : NoMoreSeen(v) /\ NoLessSeen(v)
    PROVE  Voided' = Voided
<1>1. Voiders' = Voiders
  BY DEF Voiders, NoMoreSeen, NoLessSeen
<1>2. \A v \in Voiders : no'[v] = no[v]
  BY DEF Voiders, NoLessSeen
<1>3. QED
  BY <1>1, <1>2 DEF Voided

LEMMA OthersSeen ==
    ASSUME TypeInv, NEW w \in Workers,
           (Request(w) /\ ~HytradeNoWares(w)) \/ Continue(w)
    PROVE  \A v \in Workers \ {w} : NoMoreSeen(v) /\ NoLessSeen(v)
  BY RequestOfOne, ContinueOfOne, SameIsSeen

\* Requests end.
LEMMA Quiet ==
    ASSUME UNCHANGED <<OpenReceipts, Sales>>, \A w \in Workers : NoMoreSeen(w)
    PROVE  Book!Drop
  BY SeenShrinks DEF Book!Drop

LEMMA InitVoid == Init => VoidInv
  BY DEF Init, VoidInv

LEMMA RequestVoid ==
    ASSUME TypeInv, VoidInv, NEW w \in Workers, Request(w), ~HytradeNoWares(w)
    PROVE  VoidInv'
<1>1. ASSUME NEW v \in Workers \ {w}
      PROVE  op'[v] = "void" => pc'[v] = "reply"
  BY <1>1, RequestOfOne DEF SameThread, VoidInv, At
<1>2. op'[w] = "void" => pc'[w] = "reply"
  BY DEF Request, HytradeInfo, StockOutFind, ModifyFind, VoidOrder, AddWare,
         EditWareFind, Accept, TypeInv, TypeOK, HandlerTypeOK
<1>3. QED
  BY <1>1, <1>2 DEF VoidInv, At

LEMMA ContinueVoid ==
    ASSUME TypeInv, VoidInv, NEW w \in Workers, Continue(w)
    PROVE  VoidInv'
<1> USE DEF TypeInv, TypeOK, HandlerTypeOK
<1>1. ASSUME NEW v \in Workers \ {w}
      PROVE  op'[v] = "void" => pc'[v] = "reply"
  BY <1>1, ContinueOfOne DEF SameThread, VoidInv, At
<1>2. CASE Reply(w)
  BY <1>1, <1>2 DEF Reply, VoidInv, At
<1>3. CASE ~Reply(w)
  <2>1. pc[w] # "reply" /\ UNCHANGED op
    BY <1>3
    DEF Continue, HytradeLine, HytradeAdd, StockOutLine, StockOutUpdateList,
        StockOutAdd, StockOutDelete, ModifyUpdate, EditWareUpdate, SqlError,
        CallPending, At, reqVars
  <2>2. QED
    BY <1>1, <2>1 DEF VoidInv, At
<1>4. QED
  BY <1>2, <1>3

LEMMA NextVoid ==
    ASSUME TypeInv, VoidInv, [Next]_vars
    PROVE  VoidInv'
<1>1. CASE Restart
  BY <1>1 DEF Restart, VoidInv
<1>2. ASSUME UNCHANGED <<op, pc>>
      PROVE  VoidInv'
  BY <1>2 DEF VoidInv, At
<1>3. QED
  BY <1>1, <1>2, RequestVoid, ContinueVoid
  DEF Next, Crash, HytradeNoWares, UploadWareImage, NextDay, reqVars, vars

-----------------------------------------------------------------------------
(* Requests.                                                               *)

\* Operate 1 picks an order it finds.
LEMMA FindPicks ==
    ASSUME SafetyInv, VoidInv, NEW w \in Workers, NEW r \in Receipts,
           StockOutFind(w, r), Request(w), ~HytradeNoWares(w)
    PROVE  Book!BookNext
<1> USE DEF SafetyInv, TypeInv, TypeOK, HandlerTypeOK, DbTypeOK, Accept
<1>1. UNCHANGED <<OpenReceipts, Sales>>
  BY DEF StockOutFind, dbVars, OpenReceipts, Sales
<1>2. \A v \in Workers \ {w} : NoMoreSeen(v) /\ NoLessSeen(v)
  BY OthersSeen
<1>3. pc[w] = "idle" /\ op[w] # "void" /\ op'[w] = "stockOut"
  BY DEF StockOutFind, VoidInv, At
<1>4. CASE pc'[w] = "reply"
  <2>1. NoMoreSeen(w)
    BY <1>3, <1>4 DEF NoMoreSeen, OutPoints
  <2>2. QED
    BY <1>1, <1>2, <2>1, Quiet DEF Book!BookNext
<1>5. CASE /\ temp[r] # NoRow
           /\ pc'[w] = "outLine"
           /\ no'[w] = r
           /\ orderEntity'[w] = temp[r]
  <2>1. r \in OpenReceipts
    BY <1>5 DEF OpenReceipts
  <2>2. temp[r].day \in Days
    BY <1>5 DEF Order
  <2>3. Picked' = Picked \cup {<<temp[r].day, r>>}
    <3>1. StockingOut' = StockingOut \cup {w}
      BY <1>2, <1>5 DEF StockingOut, NoMoreSeen, NoLessSeen, OutPoints
    <3>2. \A v \in StockingOut : no'[v] = no[v] /\ orderEntity'[v] = orderEntity[v]
      BY <1>2, <1>3 DEF StockingOut, NoLessSeen, OutPoints
    <3>3. <<orderEntity'[w].day, no'[w]>> = <<temp[r].day, r>>
      BY <1>5
    <3>4. Picked' = {<<orderEntity'[v].day, no'[v]>> : v \in StockingOut \cup {w}}
      BY <3>1 DEF Picked
    <3>5. Picked' = {<<orderEntity'[v].day, no'[v]>> : v \in StockingOut}
                        \cup {<<temp[r].day, r>>}
      BY <3>3, <3>4
    <3>6. {<<orderEntity'[v].day, no'[v]>> : v \in StockingOut} = Picked
      BY <3>2 DEF Picked
    <3>7. QED
      BY <3>5, <3>6
  <2>4. Voided' = Voided
    BY <1>2, <1>3, VoidedStays
  <2>5. Book!Pick(temp[r].day, r)
    BY <1>1, <2>1, <2>3, <2>4 DEF Book!Pick
  <2>6. QED
    BY <2>2, <2>5 DEF Book!BookNext
<1>6. QED
  BY <1>4, <1>5 DEF StockOutFind
\* Operate 3 voids an order, or finds none to void.
LEMMA VoidVoids ==
    ASSUME SafetyInv, VoidInv, NEW w \in Workers, NEW r \in Receipts,
           VoidOrder(w, r), Request(w), ~HytradeNoWares(w)
    PROVE  Book!BookNext
<1> USE DEF SafetyInv, TypeInv, TypeOK, HandlerTypeOK, DbTypeOK, Accept
<1>1. Sales' = Sales
  BY DEF VoidOrder, Sales
<1>2. \A v \in Workers \ {w} : NoMoreSeen(v) /\ NoLessSeen(v)
  BY OthersSeen
<1>3. pc[w] = "idle" /\ op[w] # "void" /\ pc'[w] = "reply" /\ no'[w] = r
  BY DEF VoidOrder, VoidInv, At
<1>4. CASE UNCHANGED temp /\ answer'[w] = "SQL_ERROR"
  <2>1. NoMoreSeen(w) /\ UNCHANGED OpenReceipts
    BY <1>3, <1>4 DEF NoMoreSeen, OutPoints, OpenReceipts
  <2>2. QED
    BY <1>1, <1>2, <2>1, Quiet DEF Book!BookNext
<1>5. CASE temp' = [temp EXCEPT ![r] = NoRow] /\ answer'[w] = "SUCCESS"
  <2>1. OpenReceipts' = OpenReceipts \ {r}
    BY <1>5 DEF OpenReceipts
  <2>2. Picked' = Picked
    BY <1>2, <1>3, PickedStays DEF OutPoints
  <2>3. Voided' = Voided \cup {r}
    <3>1. Voiders' = Voiders \cup {w}
      BY <1>2, <1>3, <1>5 DEF Voiders, NoMoreSeen, NoLessSeen, VoidOrder
    <3>2. \A v \in Voiders : no'[v] = no[v]
      BY <1>2, <1>3 DEF Voiders, NoLessSeen
    <3>3. QED
      BY <1>3, <3>1, <3>2 DEF Voided
  <2>4. Book!Void(r)
    BY <1>1, <2>1, <2>2, <2>3 DEF Book!Void
  <2>5. QED
    BY <2>4 DEF Book!BookNext
<1>6. QED
  BY <1>4, <1>5 DEF VoidOrder

LEMMA RequestBook ==
    ASSUME SafetyInv, VoidInv, NEW w \in Workers, Request(w), ~HytradeNoWares(w)
    PROVE  Book!BookNext
<1>1. ASSUME UNCHANGED <<OpenReceipts, Sales>>, NoMoreSeen(w)
      PROVE  Book!BookNext
  BY <1>1, RequestOfOne, SameIsSeen, Quiet DEF SafetyInv, Book!BookNext
<1> USE DEF SafetyInv, TypeInv, TypeOK, HandlerTypeOK, Accept, NoMoreSeen,
            OutPoints, dbVars, OpenReceipts, Sales
<1>2. ASSUME NEW r \in Receipts, NEW lines \in OrderWares,
             HytradeInfo(w, r, lines)
      PROVE  Book!BookNext
  BY <1>1, <1>2 DEF HytradeInfo
<1>3. ASSUME NEW r \in Receipts, NEW detail \in DetailWares,
             ModifyFind(w, r, detail)
      PROVE  Book!BookNext
  BY <1>1, <1>3 DEF ModifyFind
<1>4. ASSUME NEW q \in AddRequests, AddWare(w, q[1], q[2])
      PROVE  Book!BookNext
  BY <1>1, <1>4 DEF AddWare
<1>5. ASSUME NEW q \in EditRequests, EditWareFind(w, q[1], q[2])
      PROVE  Book!BookNext
  BY <1>1, <1>5 DEF EditWareFind
<1>6. QED
  BY <1>2, <1>3, <1>4, <1>5, FindPicks, VoidVoids DEF Request

-----------------------------------------------------------------------------
(* Handlers.                                                               *)

\* The insert of operate 1 sells an order the thread picked.
LEMMA AddSells ==
    ASSUME SafetyInv, NEW w \in Workers, StockOutAdd(w)
    PROVE  Book!BookNext
<1> DEFINE d == orderEntity[w].day
           r == no[w]
<1> USE DEF SafetyInv, TypeInv, TypeOK, HandlerTypeOK, DbTypeOK
<1>1. \A v \in Workers \ {w} : NoMoreSeen(v) /\ NoLessSeen(v)
  BY OthersSeen DEF Continue
<1>2. pc[w] = "outAdd" /\ UNCHANGED <<op, no, orderEntity, temp, OpenReceipts>>
  BY DEF StockOutAdd, At, reqVars, OpenReceipts
<1>3. CASE business' = business /\ Finish(w, "SQL_ERROR")
  <2>1. NoMoreSeen(w)
    BY <1>2, <1>3 DEF Finish, NoMoreSeen, OutPoints
  <2>2. QED
    BY <1>1, <1>2, <1>3, <2>1, Quiet DEF Sales, Book!BookNext
<1>4. CASE /\ business[d][r] = NoRow
           /\ business' = [business EXCEPT ![d][r] = orderEntity[w]]
           /\ pc' = [pc EXCEPT ![w] = "outDelete"]
           /\ UNCHANGED answer
  <2>1. d \in Days /\ r \in Receipts /\ orderEntity[w] # NoRow
    BY <1>2 DEF ControlOK, OrderPoints, OutPoints, Order
  <2>2. UNCHANGED <<Picked, Voided>>
    BY <1>1, <1>2, <1>4, SeenStays DEF NoMoreSeen, NoLessSeen, OutPoints
  <2>3. <<d, r>> \in Picked
    BY <1>2 DEF Picked, StockingOut, OutPoints
  <2>4. \A e \in Days, q \in Receipts :
            business'[e][q] # NoRow <=> business[e][q] # NoRow \/ <<e, q>> = <<d, r>>
    BY <1>4, <2>1
  <2>5. Sales' = Sales \cup {<<d, r>>} /\ <<d, r>> \notin Sales
    BY <1>4, <2>1, <2>4 DEF Sales
  <2>6. Book!Sell(d, r)
    BY <1>2, <2>2, <2>3, <2>5 DEF Book!Sell
  <2>7. QED
    BY <2>1, <2>6 DEF Book!BookNext
<1>5. QED
  BY <1>3, <1>4 DEF StockOutAdd

\* The delete of operate 1 closes an order the thread picked and sold; some
\* other thread may still be stocking it out.
LEMMA DeleteCloses ==
    ASSUME SafetyInv, VoidInv, NEW w \in Workers, StockOutDelete(w)
    PROVE  Book!BookNext
<1> DEFINE d == orderEntity[w].day
           r == no[w]
<1> USE DEF SafetyInv, TypeInv, TypeOK, HandlerTypeOK, DbTypeOK
<1>1. \A v \in Workers \ {w} : NoMoreSeen(v) /\ NoLessSeen(v)
  BY OthersSeen DEF Continue
<1>2. /\ pc[w] = "outDelete" /\ op[w] # "void" /\ pc'[w] = "reply"
      /\ UNCHANGED <<op, no, orderEntity, business, Sales>>
  BY DEF StockOutDelete, At, VoidInv, Finish, reqVars, Sales
<1>3. d \in Days /\ r \in Receipts /\ business[d][r] # NoRow
  BY <1>2, NoRowAssumption DEF ThreadInv, SaleInv, At, Order
<1>4. OpenReceipts' = OpenReceipts \ {r}
  BY DEF StockOutDelete, OpenReceipts
<1>5. <<d, r>> \in Picked \cap Sales
  BY <1>2, <1>3 DEF Picked, StockingOut, OutPoints, Sales
<1>6. Voided' = Voided
  BY <1>1, <1>2, VoidedStays
<1>7. StockingOut' = StockingOut \ {w}
  BY <1>1, <1>2 DEF StockingOut, NoMoreSeen, NoLessSeen, OutPoints
<1>8. Picked' \in {Picked, Picked \ {<<d, r>>}}
  <2> DEFINE rest == {<<orderEntity[v].day, no[v]>> : v \in StockingOut \ {w}}
  <2>1. Picked' = rest
    BY <1>2, <1>7 DEF Picked
  <2>2. w \in StockingOut
    BY <1>2 DEF StockingOut, OutPoints
  <2>3. Picked = rest \cup {<<d, r>>}
    BY <2>2 DEF Picked
  <2> HIDE DEF rest
  <2>4. CASE <<d, r>> \in rest
    BY <2>1, <2>3, <2>4
  <2>5. CASE <<d, r>> \notin rest
    BY <2>1, <2>3, <2>5
  <2>6. QED
    BY <2>4, <2>5
<1>9. Book!Close(d, r)
  BY <1>2, <1>4, <1>5, <1>6, <1>8 DEF Book!Close
<1>10. QED
  BY <1>3, <1>9 DEF Book!BookNext
\* The insert of HytradeInfo places an order.
LEMMA AddPlaces ==
    ASSUME SafetyInv, VoidInv, NEW w \in Workers, HytradeAdd(w)
    PROVE  Book!BookNext
<1> USE DEF SafetyInv, TypeInv, TypeOK, HandlerTypeOK, DbTypeOK
<1>1. \A v \in Workers \ {w} : NoMoreSeen(v) /\ NoLessSeen(v)
  BY OthersSeen DEF Continue
<1>2. /\ pc[w] = "hytradeAdd" /\ op[w] # "void" /\ pc'[w] = "reply"
      /\ UNCHANGED <<op, no, orderEntity, business, Sales>>
  BY DEF HytradeAdd, At, VoidInv, Finish, reqVars, Sales
<1>3. NoMoreSeen(w) /\ NoLessSeen(w)
  BY <1>2 DEF NoMoreSeen, NoLessSeen, OutPoints
<1>4. CASE UNCHANGED temp
  BY <1>1, <1>2, <1>3, <1>4, Quiet DEF OpenReceipts, Book!BookNext
<1>5. CASE /\ temp[no[w]] = NoRow
           /\ temp' = [temp EXCEPT ![no[w]] = orderEntity[w]]
  <2>1. no[w] \in Receipts /\ orderEntity[w] # NoRow
    BY <1>2 DEF ControlOK, OrderPoints
  <2>2. OpenReceipts' = OpenReceipts \cup {no[w]} /\ no[w] \notin OpenReceipts
    BY <1>5, <2>1 DEF OpenReceipts
  <2>3. Book!Place(no[w])
    BY <1>1, <1>2, <1>3, <2>2, SeenStays DEF Book!Place
  <2>4. QED
    BY <2>1, <2>3 DEF Book!BookNext
<1>6. QED
  BY <1>4, <1>5 DEF HytradeAdd

LEMMA ContinueBook ==
    ASSUME SafetyInv, VoidInv, NEW w \in Workers, Continue(w)
    PROVE  Book!BookNext
<1>1. ASSUME UNCHANGED <<OpenReceipts, Sales>>, NoMoreSeen(w)
      PROVE  Book!BookNext
  BY <1>1, ContinueOfOne, SameIsSeen, Quiet DEF SafetyInv, Book!BookNext
<1> USE DEF SafetyInv, TypeInv, TypeOK, HandlerTypeOK, OpenReceipts, Sales,
            dbVars, reqVars, At
<1>2. ASSUME NEW code, Finish(w, code), UNCHANGED op, op[w] # "void"
      PROVE  NoMoreSeen(w)
  BY <1>2 DEF Finish, NoMoreSeen, OutPoints
<1>3. ASSUME NEW next, Advance(w, next), UNCHANGED <<op, no>>, op[w] # "void",
             pc'[w] \in OutPoints =>
                pc[w] \in OutPoints /\ orderEntity'[w] = orderEntity[w]
      PROVE  NoMoreSeen(w)
  BY <1>3 DEF NoMoreSeen
<1>4. CASE HytradeLine(w)
  <2>1. op[w] # "void" /\ UNCHANGED <<op, no, OpenReceipts, Sales>>
    BY <1>4 DEF HytradeLine, VoidInv
  <2>2. ASSUME Advance(w, "hytradeAdd")
        PROVE  pc'[w] \notin OutPoints
    BY <1>4, <2>2 DEF HytradeLine, Advance, OutPoints
  <2>3. QED
    BY <1>1, <1>2, <1>3, <1>4, <2>1, <2>2 DEF HytradeLine
<1>5. CASE StockOutLine(w)
  <2>1. op[w] # "void" /\ UNCHANGED <<op, no, orderEntity, OpenReceipts, Sales>>
    BY <1>5 DEF StockOutLine, VoidInv
  <2>2. pc[w] \in OutPoints
    BY <1>5 DEF StockOutLine, OutPoints
  <2>3. QED
    BY <1>1, <1>2, <1>3, <1>5, <2>1, <2>2 DEF StockOutLine
<1>6. CASE StockOutUpdateList(w)
  <2>1. op[w] # "void" /\ UNCHANGED <<op, no, orderEntity, OpenReceipts, Sales>>
    BY <1>6 DEF StockOutUpdateList, VoidInv
  <2>2. pc[w] \in OutPoints
    BY <1>6 DEF StockOutUpdateList, OutPoints
  <2>3. QED
    BY <1>1, <2>1, <2>2 DEF NoMoreSeen
<1>7. CASE ModifyUpdate(w)
  <2>1. op[w] # "void" /\ UNCHANGED <<op, Sales>> /\ Finish(w, "SUCCESS")
    BY <1>7 DEF ModifyUpdate, VoidInv
  <2>2. orderEntity[w] # NoRow
    BY <1>7 DEF ModifyUpdate, ControlOK, OrderPoints
  <2>3. OpenReceipts' = OpenReceipts
    BY <1>7, <2>2 DEF ModifyUpdate, DbTypeOK
  <2>4. QED
    BY <1>1, <1>2, <2>1, <2>3
<1>8. CASE EditWareUpdate(w) \/ SqlError(w)
  <2>1. op[w] # "void" /\ UNCHANGED <<op, OpenReceipts, Sales>>
    BY <1>8 DEF EditWareUpdate, SqlError, VoidInv, CallPending
  <2>2. QED
    BY <1>1, <1>2, <1>8, <2>1 DEF EditWareUpdate, SqlError
<1>9. CASE Reply(w)
  <2>1. NoMoreSeen(w)
    BY <1>9 DEF Reply, NoMoreSeen, OutPoints
  <2>2. QED
    BY <1>1, <1>9, <2>1 DEF Reply
<1>10. QED
  BY <1>4, <1>5, <1>6, <1>7, <1>8, <1>9, AddPlaces, AddSells, DeleteCloses
  DEF Continue

-----------------------------------------------------------------------------
(* Every step.                                                             *)

LEMMA NextBook ==
    ASSUME SafetyInv, VoidInv, [Next]_vars
    PROVE  [Book!BookNext]_<<OpenReceipts, Picked, Sales, Voided>>
<1>1. CASE Restart
  <2>1. UNCHANGED <<OpenReceipts, Sales>> /\ \A w \in Workers : NoMoreSeen(w)
    BY <1>1 DEF Restart, dbVars, OpenReceipts, Sales, NoMoreSeen, OutPoints
  <2>2. QED
    BY <2>1, Quiet DEF Book!BookNext
<1>2. ASSUME UNCHANGED <<temp, business, pc, op, no, orderEntity, answer>>
      PROVE  UNCHANGED <<OpenReceipts, Picked, Sales, Voided>>
  BY <1>2 DEF OpenReceipts, Picked, StockingOut, Sales, Voided, Voiders
<1>3. QED
  BY <1>1, <1>2, RequestBook, ContinueBook
  DEF Next, Crash, HytradeNoWares, UploadWareImage, NextDay, reqVars, dbVars, vars

LEMMA InitBook == Init => Book!BookInit
  BY DEF Init, Book!BookInit, OpenReceipts, Sales, Picked, StockingOut, Voided,
         Voiders, OutPoints

\* HytradeInfoRouter and ModifyStockOrderRouter implement the order book: only
\* an open order is picked, only a picked one is sold (once a day), and an
\* open one is closed only by the thread that found it sold, or by a client.
THEOREM OrderBookIsImplemented == Spec => ImplementsOrderBook
<1>1. Init => VoidInv /\ Book!BookInit
  BY InitVoid, InitBook
<1>2. (SafetyInv /\ VoidInv) /\ [Next]_vars =>
          VoidInv' /\ [Book!BookNext]_<<OpenReceipts, Picked, Sales, Voided>>
  BY NextVoid, NextBook DEF SafetyInv
<1>3. QED
  BY <1>1, <1>2, SafetyInvHolds, PTL
  DEF Spec, ImplementsOrderBook, Book!BookSpec, Book!bookVars
=============================================================================

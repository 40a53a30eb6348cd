-------------------------- MODULE StockServerProofs -------------------------
(***************************************************************************)
(* Proofs about StockServer.tla, for every number of threads, receipts and *)
(* wares, every set of requests and every bound.                           *)
(***************************************************************************)
EXTENDS StockServerProperties, SequenceTheorems, TLAPS

-----------------------------------------------------------------------------
(* The helpers on rows and lines.                                          *)

\* A deduction makes a row of a row (wareEntity->SetStock).
LEMMA DeductType ==
    ASSUME NEW row \in WareRow, NEW line \in Line
    PROVE  Deduct(row, line) \in WareRow
  BY DEF Deduct, WareRow, Line

\* So does a modification of a ware.
LEMMA EditRowType ==
    ASSUME NEW row \in WareRow, NEW edit \in WareEdit
    PROVE  EditRow(row, edit) \in WareRow
  BY DEF EditRow, WareRow, WareEdit

\* Operate 2 keeps the number of lines and only changes counts.
LEMMA MergeDetailType ==
    ASSUME NEW lines \in Seq(Line), NEW detail \in Seq(Line)
    PROVE  /\ MergeDetail(lines, detail) \in Seq(Line)
           /\ lines # <<>> => MergeDetail(lines, detail) # <<>>
<1> DEFINE Last(i) == {k \in DOMAIN detail :
                        /\ detail[k].code = lines[i].code
                        /\ \A l \in k + 1 .. Len(detail) :
                                detail[l].code # lines[i].code}
           New(i) == IF Last(i) # {} /\ FirstOfCode(lines, i)
                     THEN [lines[i] EXCEPT
                             !.count = detail[CHOOSE k \in Last(i) : TRUE].count]
                     ELSE lines[i]
<1>1. \A i \in DOMAIN lines : New(i) \in Line
  <2> SUFFICES ASSUME NEW i \in DOMAIN lines
               PROVE  New(i) \in Line
    OBVIOUS
  <2>1. lines[i] \in Line
    OBVIOUS
  <2>2. ASSUME Last(i) # {}
        PROVE  detail[CHOOSE k \in Last(i) : TRUE].count \in Nat
    <3>1. (CHOOSE k \in Last(i) : TRUE) \in DOMAIN detail
      BY <2>2
    <3>2. detail[CHOOSE k \in Last(i) : TRUE] \in Line
      BY <3>1
    <3>3. QED
      BY <3>2 DEF Line
  <2>3. QED
    BY <2>1, <2>2 DEF Line
<1>2. MergeDetail(lines, detail) = [i \in DOMAIN lines |-> New(i)]
  BY DEF MergeDetail
<1>3. DOMAIN lines = 1 .. Len(lines) /\ Len(lines) \in Nat
  OBVIOUS
<1> HIDE DEF New
<1>4. MergeDetail(lines, detail) \in [1 .. Len(lines) -> Line]
  BY <1>1, <1>2, <1>3
<1>5. MergeDetail(lines, detail) \in Seq(Line)
  BY <1>3, <1>4, SeqDef
<1>6. DOMAIN MergeDetail(lines, detail) = DOMAIN lines
  BY <1>2
<1>7. ASSUME MergeDetail(lines, detail) = <<>>
      PROVE  lines = <<>>
  BY <1>6, <1>7
<1>8. QED
  BY <1>5, <1>7

-----------------------------------------------------------------------------
(* Type correctness.  The loops take the head of todo, which a stock-out    *)
(* fills with the lines of an order read from Temp.db: that it is not empty *)
(* rests on every order there having lines.                                 *)

TypeInv == TypeOK /\ TempHasLines /\ EntityHasLines

LEMMA InitTypeInv == Init => TypeInv
<1> SUFFICES ASSUME Init PROVE TypeInv
  OBVIOUS
<1> USE StockServerAssumption DEF Init
<1>1. DbTypeOK
  BY DEF DbTypeOK
<1>2. ProcTypeOK
  BY DEF ProcTypeOK, Days
<1>3. HandlerTypeOK
  BY DEF HandlerTypeOK, Points, Requests, Answers, NoWares
<1>4. GhostTypeOK
  BY DEF GhostTypeOK, NoCut, StockOf, WareRow
<1>5. ControlOK /\ TempHasLines /\ EntityHasLines
  BY DEF ControlOK, TempHasLines, EntityHasLines, OrderPoints, OutPoints, At
<1>6. QED
  BY <1>1, <1>2, <1>3, <1>4, <1>5 DEF TypeInv, TypeOK

\* What a handler leaves behind when it returns.
LEMMA FinishType ==
    ASSUME TypeInv, NEW w \in Workers, NEW code \in Answers, Finish(w, code),
           UNCHANGED <<op, no, orderEntity>>
    PROVE  /\ HandlerTypeOK'
           /\ cut' \in [Workers -> [Codes -> Nat]]
           /\ ControlOK'
           /\ EntityHasLines'
<1> USE DEF TypeInv, TypeOK, Finish
<1>1. HandlerTypeOK'
  BY DEF HandlerTypeOK, Points, NoWares
<1>2. cut' \in [Workers -> [Codes -> Nat]]
  BY DEF GhostTypeOK, NoCut
<1>3. ControlOK'
  BY DEF ControlOK, HandlerTypeOK, OrderPoints, OutPoints
<1>4. EntityHasLines'
  BY DEF EntityHasLines, HandlerTypeOK, At
<1>5. QED
  BY <1>1, <1>2, <1>3, <1>4

LEMMA HytradeInfoType ==
    ASSUME TypeInv, NEW w \in Workers, NEW r \in Receipts,
           NEW lines \in OrderWares, HytradeInfo(w, r, lines)
    PROVE  TypeInv'
<1> USE StockServerAssumption
    DEF TypeInv, TypeOK, HytradeInfo, Accept, dbVars, ghostVars
<1>1. DbTypeOK' /\ GhostTypeOK'
  BY DEF DbTypeOK, GhostTypeOK
<1>2. ProcTypeOK'
  BY DEF ProcTypeOK
<1>3. [uuid |-> nextUuid, day |-> today, wares |-> <<>>] \in Order
  BY DEF ProcTypeOK, Order
<1>4. HandlerTypeOK'
  BY <1>3 DEF HandlerTypeOK, Points, Requests
<1>5. ControlOK'
  BY <1>3, NoRowAssumption DEF ControlOK, HandlerTypeOK, OrderPoints, OutPoints
<1>6. TempHasLines' /\ EntityHasLines'
  BY DEF TempHasLines, EntityHasLines, HandlerTypeOK, At
<1>7. QED
  BY <1>1, <1>2, <1>4, <1>5, <1>6
\* What the steps of the loops do to one thread's variables.
LEMMA RowForType ==
    ASSUME TypeInv, NEW w \in Workers, NEW c \in Codes
    PROVE  RowFor(w, c) \in WareRow \cup {NoRow}
  BY DEF TypeInv, TypeOK, DbTypeOK, HandlerTypeOK, RowFor

LEMMA HoldType ==
    ASSUME TypeInv, NEW w \in Workers, NEW c \in Codes, NEW row \in WareRow,
           Hold(w, c, row)
    PROVE  wareEntityMap' \in [Workers -> [Codes -> WareRow \cup {NoRow}]]
  BY DEF TypeInv, TypeOK, HandlerTypeOK, Hold

LEMMA WriteWaresType ==
    ASSUME TypeInv, NEW w \in Workers, WriteWares(w)
    PROVE  wares' \in [Codes -> WareRow \cup {NoRow}]
  BY DEF TypeInv, TypeOK, DbTypeOK, HandlerTypeOK, WriteWares

LEMMA TailNotEmpty ==
    ASSUME NEW s \in Seq(Line), Len(s) > 1
    PROVE  Tail(s) # <<>>
<1>1. s # <<>> /\ Len(s) \in Nat
  BY EmptySeq, LenProperties
<1>2. Len(Tail(s)) = Len(s) - 1
  BY <1>1, HeadTailProperties
<1>3. \A n \in Nat : n > 1 => n - 1 # 0
  OBVIOUS
<1>4. Len(Tail(s)) # 0
  BY <1>1, <1>2, <1>3, Zenon
<1>5. QED
  BY <1>4, EmptySeq, Zenon

\* The loop goes on only with a line left to look at.
LEMMA AdvanceType ==
    ASSUME TypeInv, NEW w \in Workers,
           NEW next \in Points \ {"hytradeLine", "outLine"},
           todo[w] # <<>>, Advance(w, next)
    PROVE  /\ todo' \in [Workers -> Seq(Line)]
           /\ pc' \in [Workers -> Points]
           /\ \A v \in Workers :
                pc'[v] \in {"hytradeLine", "outLine"} => todo'[v] # <<>>
           /\ pc'[w] \in {pc[w], next}
           /\ \A v \in Workers \ {w} : pc'[v] = pc[v]
<1> USE DEF TypeInv, TypeOK, HandlerTypeOK, Advance
<1>1. /\ Tail(todo[w]) \in Seq(Line)
      /\ Len(Tail(todo[w])) = Len(todo[w]) - 1
      /\ Len(todo[w]) \in Nat
  BY HeadTailProperties, LenProperties
<1>2. Len(todo[w]) > 1 => Tail(todo[w]) # <<>>
  BY <1>1, TailNotEmpty
<1>3. /\ todo' \in [Workers -> Seq(Line)]
      /\ pc' \in [Workers -> Points]
      /\ pc'[w] \in {pc[w], next}
      /\ \A v \in Workers \ {w} : pc'[v] = pc[v]
  BY <1>1
<1>4. ASSUME NEW v \in Workers, pc'[v] \in {"hytradeLine", "outLine"}
      PROVE  todo'[v] # <<>>
  <2>1. CASE v = w
    BY <1>2, <1>4, <2>1
  <2>2. CASE v # w
    BY <1>4, <2>2 DEF ControlOK
  <2>3. QED
    BY <2>1, <2>2
<1>5. QED
  BY <1>3, <1>4

LEMMA HytradeLineType ==
    ASSUME TypeInv, NEW w \in Workers, HytradeLine(w)
    PROVE  TypeInv'
<1> DEFINE line == Head(todo[w])
           row  == RowFor(w, line.code)
<1> USE DEF dbVars, procVars, ghostVars
<1>1. todo[w] # <<>> /\ line \in Line /\ line.code \in Codes
  <2>1. todo[w] # <<>> /\ todo[w] \in Seq(Line)
    BY DEF TypeInv, TypeOK, ControlOK, HandlerTypeOK, HytradeLine, At
  <2>2. line \in Line
    BY <2>1, HeadTailProperties
  <2>3. QED
    BY <2>1, <2>2 DEF Line
<1>2. row \in WareRow \cup {NoRow}
  BY <1>1, RowForType
<1>3. DbTypeOK' /\ ProcTypeOK' /\ TempHasLines'
  BY DEF TypeInv, TypeOK, DbTypeOK, ProcTypeOK, TempHasLines, HytradeLine
<1>4. ASSUME NEW code \in Answers, Finish(w, code), UNCHANGED orderEntity
      PROVE  TypeInv'
  <2>1. UNCHANGED <<op, no, orderEntity>>
    BY <1>4 DEF HytradeLine
  <2>2. HandlerTypeOK' /\ cut' \in [Workers -> [Codes -> Nat]] /\ ControlOK'
                       /\ EntityHasLines'
    BY <1>4, <2>1, FinishType
  <2>3. GhostTypeOK'
    BY <2>2 DEF GhostTypeOK, TypeInv, TypeOK, HytradeLine
  <2>4. QED
    BY <1>3, <2>2, <2>3 DEF TypeInv, TypeOK
<1>5. ASSUME Advance(w, "hytradeAdd"), UNCHANGED cut,
             wareEntityMap' \in [Workers -> [Codes -> WareRow \cup {NoRow}]],
             \/ /\ tradeErrorWare' = [tradeErrorWare EXCEPT ![w] = TRUE]
                /\ UNCHANGED orderEntity
             \/ /\ orderEntity' = [orderEntity EXCEPT ![w].wares = Append(@, line)]
                /\ UNCHANGED tradeErrorWare
      PROVE  TypeInv'
  <2>1. /\ todo' \in [Workers -> Seq(Line)]
        /\ pc' \in [Workers -> Points]
        /\ \A v \in Workers :
             pc'[v] \in {"hytradeLine", "outLine"} => todo'[v] # <<>>
        /\ pc'[w] \in {"hytradeLine", "hytradeAdd"}
        /\ \A v \in Workers \ {w} : pc'[v] = pc[v]
    <3>1. "hytradeAdd" \in Points \ {"hytradeLine", "outLine"}
      BY DEF Points
    <3>2. pc[w] = "hytradeLine"
      BY DEF HytradeLine, At
    <3>3. QED
      BY <1>1, <1>5, <3>1, <3>2, AdvanceType
  <2>2. orderEntity[w] \in Order /\ no[w] \in Receipts /\ orderEntity[w] # NoRow
    BY DEF TypeInv, TypeOK, ControlOK, OrderPoints, HandlerTypeOK, HytradeLine, At
  <2>3. /\ [orderEntity[w] EXCEPT !.wares = Append(@, line)] \in Order
        /\ Append(orderEntity[w].wares, line) # <<>>
    <3>1. orderEntity[w].wares \in Seq(Line)
      BY <2>2 DEF Order
    <3>2. /\ Append(orderEntity[w].wares, line) \in Seq(Line)
          /\ Append(orderEntity[w].wares, line) # <<>>
      BY <1>1, <3>1, AppendProperties
    <3>3. QED
      BY <2>2, <3>2 DEF Order
  <2>4. /\ orderEntity' \in [Workers -> Order \cup {NoRow}]
        /\ orderEntity'[w] \in Order
        /\ tradeErrorWare' \in [Workers -> BOOLEAN]
        /\ ~tradeErrorWare'[w] => orderEntity'[w].wares # <<>>
        /\ \A v \in Workers \ {w} : /\ orderEntity'[v] = orderEntity[v]
                                    /\ tradeErrorWare'[v] = tradeErrorWare[v]
    <3>1. CASE /\ tradeErrorWare' = [tradeErrorWare EXCEPT ![w] = TRUE]
               /\ UNCHANGED orderEntity
      BY <2>2, <3>1 DEF TypeInv, TypeOK, HandlerTypeOK
    <3>2. CASE /\ orderEntity' = [orderEntity EXCEPT ![w].wares = Append(@, line)]
               /\ UNCHANGED tradeErrorWare
      <4>1. orderEntity' = [orderEntity EXCEPT
                    ![w] = [orderEntity[w] EXCEPT !.wares = Append(@, line)]]
        BY <3>2
      <4>2. orderEntity'[w] = [orderEntity[w] EXCEPT !.wares = Append(@, line)]
        BY <4>1 DEF TypeInv, TypeOK, HandlerTypeOK
      <4>3. orderEntity'[w].wares = Append(orderEntity[w].wares, line)
        BY <4>2, <2>2 DEF Order
      <4>4. QED
        BY <2>3, <3>2, <4>1, <4>2, <4>3 DEF TypeInv, TypeOK, HandlerTypeOK
    <3>3. QED
      BY <1>5, <3>1, <3>2
  <2>5. UNCHANGED <<op, no, answer>>
    BY <1>5 DEF HytradeLine, Advance
  <2>6. HandlerTypeOK' /\ GhostTypeOK'
    BY <1>5, <2>1, <2>4, <2>5
    DEF HandlerTypeOK, GhostTypeOK, TypeInv, TypeOK, HytradeLine
  <2>7. ControlOK'
    <3> SUFFICES ASSUME NEW v \in Workers, pc'[v] \in OrderPoints
                 PROVE  no'[v] \in Receipts /\ orderEntity'[v] # NoRow
      BY <2>1 DEF ControlOK
    <3>1. CASE v = w
      BY <2>2, <2>4, <2>5, <3>1, NoRowAssumption
    <3>2. CASE v # w
      BY <2>1, <2>4, <2>5, <3>2 DEF ControlOK, TypeInv, TypeOK
    <3>3. QED
      BY <3>1, <3>2
  <2>8. EntityHasLines'
    BY <2>1, <2>4 DEF EntityHasLines, TypeInv, At
  <2>9. QED
    BY <1>3, <2>6, <2>7, <2>8 DEF TypeInv, TypeOK
<1>6. CASE row = NoRow
  BY <1>4, <1>6 DEF HytradeLine, Answers
<1>7. CASE row # NoRow /\ ~Covers(row, line) /\ wareEntityMap[w][line.code] # NoRow
  BY <1>4, <1>7 DEF HytradeLine, Answers
<1>8. CASE row # NoRow /\ ~Covers(row, line) /\ wareEntityMap[w][line.code] = NoRow
  BY <1>5, <1>8 DEF HytradeLine, TypeInv, TypeOK, HandlerTypeOK
<1>9. CASE row # NoRow /\ Covers(row, line)
  <2>1. Deduct(row, line) \in WareRow
    BY <1>1, <1>2, <1>9, DeductType
  <2>2. Hold(w, line.code, Deduct(row, line))
    BY <1>9 DEF HytradeLine
  <2>3. wareEntityMap' \in [Workers -> [Codes -> WareRow \cup {NoRow}]]
    BY <1>1, <2>1, <2>2, HoldType
  <2>4. QED
    BY <1>5, <1>9, <2>3 DEF HytradeLine
<1>10. QED
  BY <1>6, <1>7, <1>8, <1>9
\* A handler that returns after a last call, whatever the call wrote.
LEMMA ReturnType ==
    ASSUME TypeInv, NEW w \in Workers, NEW code \in Answers, Finish(w, code),
           UNCHANGED <<reqVars, procVars, ghostVars>>,
           DbTypeOK', TempHasLines'
    PROVE  TypeInv'
<1> USE DEF reqVars, procVars, ghostVars
<1>1. UNCHANGED <<op, no, orderEntity>>
  OBVIOUS
<1>2. HandlerTypeOK' /\ cut' \in [Workers -> [Codes -> Nat]] /\ ControlOK'
                     /\ EntityHasLines'
  BY <1>1, FinishType
<1>3. GhostTypeOK' /\ ProcTypeOK'
  BY <1>2 DEF GhostTypeOK, ProcTypeOK, TypeInv, TypeOK
<1>4. QED
  BY <1>2, <1>3 DEF TypeInv, TypeOK

LEMMA HytradeAddType ==
    ASSUME TypeInv, NEW w \in Workers, HytradeAdd(w)
    PROVE  TypeInv'
<1> USE DEF HytradeAdd
<1>1. UNCHANGED <<reqVars, procVars, ghostVars, wares, business>>
  OBVIOUS
<1>2. no[w] \in Receipts /\ orderEntity[w] \in Order
  BY DEF TypeInv, TypeOK, ControlOK, HandlerTypeOK, OrderPoints, At
<1>3. CASE UNCHANGED temp
  <2>1. DbTypeOK' /\ TempHasLines'
    BY <1>1, <1>3 DEF TypeInv, TypeOK, DbTypeOK, TempHasLines
  <2>2. PICK code \in Answers : Finish(w, code)
    BY DEF Answers
  <2>3. QED
    BY <1>1, <2>1, <2>2, ReturnType
<1>4. CASE /\ ~tradeErrorWare[w]
           /\ temp' = [temp EXCEPT ![no[w]] = orderEntity[w]]
           /\ Finish(w, "SUCCESS")
  <2>1. orderEntity[w].wares # <<>>
    BY <1>4 DEF TypeInv, EntityHasLines
  <2>2. DbTypeOK' /\ TempHasLines'
    BY <1>1, <1>2, <1>4, <2>1 DEF TypeInv, TypeOK, DbTypeOK, TempHasLines
  <2>3. QED
    BY <1>1, <1>4, <2>2, ReturnType DEF Answers
<1>5. QED
  BY <1>3, <1>4

\* A request answered with its first call.
LEMMA AnswerType ==
    ASSUME TypeInv, NEW w \in Workers, NEW request \in Requests,
           NEW receipt \in Receipts \cup {NoRow}, NEW code \in Answers,
           Accept(w, request, receipt, "reply"),
           answer' = [answer EXCEPT ![w] = code],
           UNCHANGED <<orderEntity, loopVars>>
    PROVE  HandlerTypeOK' /\ ControlOK' /\ EntityHasLines'
<1> USE DEF TypeInv, TypeOK, HandlerTypeOK, Accept, loopVars
<1>1. HandlerTypeOK'
  BY DEF Points
<1>2. ControlOK' /\ EntityHasLines'
  BY DEF ControlOK, OrderPoints, OutPoints, EntityHasLines, At
<1>3. QED
  BY <1>1, <1>2

LEMMA StockOutFindType ==
    ASSUME TypeInv, NEW w \in Workers, NEW r \in Receipts, StockOutFind(w, r)
    PROVE  TypeInv'
<1> USE DEF TypeInv, TypeOK, StockOutFind, Accept, dbVars, procVars, ghostVars
<1>1. DbTypeOK' /\ GhostTypeOK' /\ ProcTypeOK' /\ TempHasLines'
  BY DEF DbTypeOK, GhostTypeOK, ProcTypeOK, TempHasLines
<1>2. CASE temp[r] # NoRow /\ pc' = [pc EXCEPT ![w] = "outLine"]
  <2>1. temp[r] \in Order /\ temp[r].wares \in Seq(Line) /\ temp[r].wares # <<>>
    BY <1>2 DEF DbTypeOK, TempHasLines, Order
  <2>2. /\ orderEntity' = [orderEntity EXCEPT ![w] = temp[r]]
        /\ todo' = [todo EXCEPT ![w] = temp[r].wares]
        /\ UNCHANGED answer
        /\ UNCHANGED <<wareEntityMap, tradeErrorWare>>
    <3>1. pc'[w] = "outLine"
      BY <1>2 DEF HandlerTypeOK
    <3>2. pc' # [pc EXCEPT ![w] = "reply"]
      BY <3>1 DEF HandlerTypeOK
    <3>3. QED
      BY <3>2
  <2>3. HandlerTypeOK'
    <3>1. /\ orderEntity' \in [Workers -> Order \cup {NoRow}]
          /\ todo' \in [Workers -> Seq(Line)]
      BY <2>1, <2>2 DEF HandlerTypeOK
    <3>2. /\ pc' \in [Workers -> Points]
          /\ op' \in [Workers -> Requests]
      BY <1>2 DEF HandlerTypeOK, Points, Requests
    <3>3. no' = [no EXCEPT ![w] = r] /\ no \in [Workers -> Receipts \cup {NoRow}]
      BY DEF HandlerTypeOK
    <3>4. no' \in [Workers -> Receipts \cup {NoRow}]
      BY <3>3
    <3>5. QED
      BY <2>2, <3>1, <3>2, <3>4 DEF HandlerTypeOK
  <2>4. ControlOK' /\ EntityHasLines'
    BY <1>2, <2>1, <2>2, NoRowAssumption
    DEF ControlOK, HandlerTypeOK, OrderPoints, OutPoints, EntityHasLines, At
  <2>5. QED
    BY <1>1, <2>3, <2>4
<1>3. CASE /\ Accept(w, "stockOut", r, "reply")
           /\ answer' = [answer EXCEPT ![w] = "SQL_ERROR"]
           /\ UNCHANGED <<orderEntity, todo>>
  <2>1. UNCHANGED <<orderEntity, loopVars>>
    BY <1>3 DEF loopVars
  <2>2. HandlerTypeOK' /\ ControlOK' /\ EntityHasLines'
    BY <1>3, <2>1, AnswerType DEF Requests, Answers
  <2>3. QED
    BY <1>1, <2>2
<1>4. QED
  BY <1>2, <1>3
LEMMA StockOutLineType ==
    ASSUME TypeInv, NEW w \in Workers, StockOutLine(w)
    PROVE  TypeInv'
<1> DEFINE line == Head(todo[w])
           row  == RowFor(w, line.code)
<1> USE DEF dbVars, procVars, reqVars, ghostVars
<1>1. todo[w] # <<>> /\ line \in Line /\ line.code \in Codes
  <2>1. todo[w] # <<>> /\ todo[w] \in Seq(Line)
    BY DEF TypeInv, TypeOK, ControlOK, HandlerTypeOK, StockOutLine, At
  <2>2. line \in Line
    BY <2>1, HeadTailProperties
  <2>3. QED
    BY <2>1, <2>2 DEF Line
<1>2. row \in WareRow \cup {NoRow}
  BY <1>1, RowForType
<1>3. DbTypeOK' /\ ProcTypeOK' /\ TempHasLines'
  BY DEF TypeInv, TypeOK, DbTypeOK, ProcTypeOK, TempHasLines, StockOutLine
<1>4. ASSUME NEW code \in Answers, Finish(w, code)
      PROVE  TypeInv'
  BY <1>3, <1>4, ReturnType DEF StockOutLine
<1>5. ASSUME Advance(w, "outUpdateList"), UNCHANGED tradeErrorWare,
             wareEntityMap' \in [Workers -> [Codes -> WareRow \cup {NoRow}]],
             cut' \in [Workers -> [Codes -> Nat]]
      PROVE  TypeInv'
  <2>1. /\ todo' \in [Workers -> Seq(Line)]
        /\ pc' \in [Workers -> Points]
        /\ \A v \in Workers :
             pc'[v] \in {"hytradeLine", "outLine"} => todo'[v] # <<>>
        /\ pc'[w] \in {"outLine", "outUpdateList"}
        /\ \A v \in Workers \ {w} : pc'[v] = pc[v]
    <3>1. "outUpdateList" \in Points \ {"hytradeLine", "outLine"}
      BY DEF Points
    <3>2. pc[w] = "outLine"
      BY DEF StockOutLine, At
    <3>3. QED
      BY <1>1, <1>5, <3>1, <3>2, AdvanceType
  <2>2. UNCHANGED <<op, no, orderEntity, answer>>
    BY <1>5 DEF StockOutLine, Advance
  <2>3. HandlerTypeOK' /\ GhostTypeOK'
    BY <1>5, <2>1, <2>2
    DEF HandlerTypeOK, GhostTypeOK, TypeInv, TypeOK, StockOutLine
  <2>4. ControlOK' /\ EntityHasLines'
    <3>1. no[w] \in Receipts /\ orderEntity[w] # NoRow
      BY DEF TypeInv, TypeOK, ControlOK, OrderPoints, OutPoints, StockOutLine, At
    <3>2. \A v \in Workers : pc'[v] \in OrderPoints
                                => no[v] \in Receipts /\ orderEntity[v] # NoRow
      BY <2>1, <3>1 DEF TypeInv, TypeOK, ControlOK
    <3>3. QED
      BY <1>5, <2>1, <2>2, <3>2 DEF ControlOK, EntityHasLines, TypeInv, At
  <2>5. QED
    BY <1>3, <2>3, <2>4 DEF TypeInv, TypeOK
<1>6. CASE row = NoRow
  BY <1>4, <1>6 DEF StockOutLine, Answers
<1>7. CASE row # NoRow /\ ~Covers(row, line)
  BY <1>4, <1>7 DEF StockOutLine, Answers
<1>8. CASE row # NoRow /\ Covers(row, line) /\ wareEntityMap[w][line.code] # NoRow
  BY <1>5, <1>8 DEF StockOutLine, TypeInv, TypeOK, HandlerTypeOK, GhostTypeOK
<1>9. CASE row # NoRow /\ Covers(row, line) /\ wareEntityMap[w][line.code] = NoRow
  <2>1. Deduct(row, line) \in WareRow
    BY <1>1, <1>2, <1>9, DeductType
  <2>2. wareEntityMap' \in [Workers -> [Codes -> WareRow \cup {NoRow}]]
    BY <1>1, <1>9, <2>1, HoldType DEF StockOutLine
  <2>3. cut' = [cut EXCEPT ![w][line.code] = line.count] /\ line.count \in Nat
    BY <1>1, <1>9 DEF StockOutLine, Line
  <2>4. cut' \in [Workers -> [Codes -> Nat]]
    BY <1>1, <2>3 DEF TypeInv, TypeOK, GhostTypeOK
  <2>5. QED
    BY <1>5, <1>9, <2>2, <2>4 DEF StockOutLine
<1>10. QED
  BY <1>6, <1>7, <1>8, <1>9

LEMMA StockOutUpdateListType ==
    ASSUME TypeInv, NEW w \in Workers, StockOutUpdateList(w)
    PROVE  TypeInv'
<1> USE DEF TypeInv, TypeOK, StockOutUpdateList, procVars, reqVars, loopVars
<1>1. orderEntity[w] \in Order /\ orderEntity[w].uuid \in Nat
      /\ no[w] \in Receipts /\ orderEntity[w] # NoRow
  BY DEF ControlOK, OrderPoints, OutPoints, HandlerTypeOK, At, Order
<1>2. DbTypeOK'
  BY WriteWaresType DEF DbTypeOK
<1>3. ProcTypeOK' /\ HandlerTypeOK' /\ TempHasLines'
  BY DEF ProcTypeOK, HandlerTypeOK, Points, TempHasLines
<1>4. GhostTypeOK'
  <2>1. taken' \in [Codes -> Nat]
    <3>1. \A c \in Codes : taken[c] \in Nat /\ cut[w][c] \in Nat
      BY DEF GhostTypeOK
    <3>2. \A c \in Codes : taken[c] + cut[w][c] \in Nat
      BY <3>1
    <3>3. QED
      BY <3>2
  <2>2. committed' \subseteq Nat
    BY <1>1 DEF GhostTypeOK
  <2>3. QED
    BY <2>1, <2>2 DEF GhostTypeOK
<1>5. ControlOK' /\ EntityHasLines'
  BY <1>1 DEF ControlOK, EntityHasLines, HandlerTypeOK, OrderPoints, OutPoints, At
<1>6. QED
  BY <1>2, <1>3, <1>4, <1>5

LEMMA StockOutAddType ==
    ASSUME TypeInv, NEW w \in Workers, StockOutAdd(w)
    PROVE  TypeInv'
<1> USE DEF StockOutAdd
<1>1. orderEntity[w] \in Order /\ orderEntity[w].day \in Days
      /\ no[w] \in Receipts /\ orderEntity[w] # NoRow
  BY DEF TypeInv, TypeOK, ControlOK, OrderPoints, OutPoints, HandlerTypeOK,
         At, Order
<1>2. UNCHANGED <<wares, temp, procVars, reqVars, ghostVars>>
  OBVIOUS
<1>3. CASE /\ business' = [business EXCEPT ![orderEntity[w].day][no[w]] = orderEntity[w]]
           /\ pc' = [pc EXCEPT ![w] = "outDelete"]
           /\ UNCHANGED <<loopVars, answer>>
  <2> USE <1>2, <1>3 DEF TypeInv, TypeOK, procVars, reqVars, loopVars, ghostVars
  <2>1. DbTypeOK' /\ ProcTypeOK' /\ GhostTypeOK' /\ TempHasLines'
    BY <1>1 DEF DbTypeOK, ProcTypeOK, GhostTypeOK, TempHasLines
  <2>2. HandlerTypeOK' /\ ControlOK' /\ EntityHasLines'
    BY <1>1 DEF HandlerTypeOK, ControlOK, EntityHasLines, Points, OrderPoints,
                OutPoints, At
  <2>3. QED
    BY <2>1, <2>2
<1>4. CASE Finish(w, "SQL_ERROR") /\ UNCHANGED business
  <2>1. DbTypeOK' /\ TempHasLines'
    BY <1>2, <1>4 DEF TypeInv, TypeOK, DbTypeOK, TempHasLines
  <2>2. QED
    BY <1>2, <1>4, <2>1, ReturnType DEF Answers
<1>5. QED
  BY <1>3, <1>4

LEMMA StockOutDeleteType ==
    ASSUME TypeInv, NEW w \in Workers, StockOutDelete(w)
    PROVE  TypeInv'
<1>1. DbTypeOK' /\ TempHasLines'
  BY DEF TypeInv, TypeOK, DbTypeOK, TempHasLines, StockOutDelete
<1>2. QED
  BY <1>1, ReturnType DEF StockOutDelete, Answers
LEMMA ModifyFindType ==
    ASSUME TypeInv, NEW w \in Workers, NEW r \in Receipts,
           NEW detail \in DetailWares, ModifyFind(w, r, detail)
    PROVE  TypeInv'
<1> USE DEF TypeInv, TypeOK, ModifyFind, Accept, dbVars, procVars, loopVars,
            ghostVars
<1>1. DbTypeOK' /\ GhostTypeOK' /\ ProcTypeOK' /\ TempHasLines'
  BY DEF DbTypeOK, GhostTypeOK, ProcTypeOK, TempHasLines
<1>2. CASE /\ temp[r] # NoRow
           /\ pc' = [pc EXCEPT ![w] = "modifyUpdate"]
           /\ op' = [op EXCEPT ![w] = "modify"]
           /\ no' = [no EXCEPT ![w] = r]
           /\ orderEntity' = [orderEntity EXCEPT
                ![w] = [temp[r] EXCEPT !.wares = MergeDetail(@, detail)]]
           /\ UNCHANGED answer
  <2> DEFINE order == [temp[r] EXCEPT !.wares = MergeDetail(@, detail)]
  <2>1. temp[r] \in Order /\ temp[r].wares \in Seq(Line) /\ temp[r].wares # <<>>
    BY <1>2 DEF DbTypeOK, TempHasLines, Order
  <2>2. /\ MergeDetail(temp[r].wares, detail) \in Seq(Line)
        /\ MergeDetail(temp[r].wares, detail) # <<>>
    BY <2>1, MergeDetailType, StockServerAssumption
  <2>3. /\ order \in Order
        /\ order.wares # <<>>
        /\ order # NoRow
    BY <2>1, <2>2, NoRowAssumption DEF Order
  <2>4. orderEntity' = [orderEntity EXCEPT ![w] = order]
    BY <1>2
  <2> HIDE DEF order
  <2>5. HandlerTypeOK'
    <3>1. orderEntity' \in [Workers -> Order \cup {NoRow}]
      BY <2>3, <2>4 DEF HandlerTypeOK
    <3>2. /\ pc' \in [Workers -> Points]
          /\ op' \in [Workers -> Requests]
      BY <1>2 DEF HandlerTypeOK, Points, Requests
    <3>3. no \in [Workers -> Receipts \cup {NoRow}]
      BY DEF HandlerTypeOK
    <3>4. no' \in [Workers -> Receipts \cup {NoRow}]
      BY <1>2, <3>3
    <3>5. QED
      BY <1>2, <3>1, <3>2, <3>4 DEF HandlerTypeOK
  <2>6. ControlOK' /\ EntityHasLines'
    BY <1>2, <2>3, <2>4
    DEF ControlOK, HandlerTypeOK, OrderPoints, OutPoints, EntityHasLines, At
  <2>7. QED
    BY <1>1, <2>5, <2>6
<1>3. CASE /\ Accept(w, "modify", r, "reply")
           /\ answer' = [answer EXCEPT ![w] = "SQL_ERROR"]
           /\ UNCHANGED orderEntity
  <2>1. UNCHANGED <<orderEntity, loopVars>>
    BY <1>3 DEF loopVars
  <2>2. HandlerTypeOK' /\ ControlOK' /\ EntityHasLines'
    BY <1>3, <2>1, AnswerType DEF Requests, Answers
  <2>3. QED
    BY <1>1, <2>2
<1>4. QED
  BY <1>2, <1>3

LEMMA ModifyUpdateType ==
    ASSUME TypeInv, NEW w \in Workers, ModifyUpdate(w)
    PROVE  TypeInv'
<1>1. /\ no[w] \in Receipts /\ orderEntity[w] \in Order
      /\ orderEntity[w].wares # <<>>
  BY DEF TypeInv, TypeOK, ControlOK, HandlerTypeOK, OrderPoints, EntityHasLines,
         ModifyUpdate, At
<1>2. DbTypeOK' /\ TempHasLines'
  BY <1>1 DEF TypeInv, TypeOK, DbTypeOK, TempHasLines, ModifyUpdate
<1>3. QED
  BY <1>2, ReturnType DEF ModifyUpdate, Answers

LEMMA VoidOrderType ==
    ASSUME TypeInv, NEW w \in Workers, NEW r \in Receipts, VoidOrder(w, r)
    PROVE  TypeInv'
<1> USE DEF VoidOrder
<1>1. PICK code \in Answers : answer' = [answer EXCEPT ![w] = code]
  BY DEF Answers
<1>2. HandlerTypeOK' /\ ControlOK' /\ EntityHasLines'
  BY <1>1, AnswerType DEF Requests
<1>3. DbTypeOK' /\ TempHasLines' /\ ProcTypeOK'
  BY DEF TypeInv, TypeOK, DbTypeOK, TempHasLines, ProcTypeOK, procVars
<1>4. voided' \subseteq Nat
  <2>1. temp[r] # NoRow => temp[r].uuid \in Nat
    BY DEF TypeInv, TypeOK, DbTypeOK, Order
  <2>2. voided \subseteq Nat
    BY DEF TypeInv, TypeOK, GhostTypeOK
  <2>3. QED
    BY <2>1, <2>2
<1>5. GhostTypeOK'
  BY <1>4 DEF TypeInv, TypeOK, GhostTypeOK, loopVars
<1>6. QED
  BY <1>2, <1>3, <1>5 DEF TypeInv, TypeOK

LEMMA AddWareType ==
    ASSUME TypeInv, NEW w \in Workers, NEW c \in Codes, NEW row \in WareRow,
           AddWare(w, c, row)
    PROVE  TypeInv'
<1> USE DEF AddWare
<1>1. PICK code \in Answers : answer' = [answer EXCEPT ![w] = code]
  BY DEF Answers
<1>2. HandlerTypeOK' /\ ControlOK' /\ EntityHasLines'
  BY <1>1, AnswerType DEF Requests
<1>3. DbTypeOK' /\ TempHasLines' /\ ProcTypeOK'
  BY DEF TypeInv, TypeOK, DbTypeOK, TempHasLines, ProcTypeOK, procVars
<1>4. supply' \in [Codes -> Int]
  <2>1. supply[c] + row.stock \in Int /\ supply \in [Codes -> Int]
    BY DEF TypeInv, TypeOK, GhostTypeOK, WareRow
  <2>2. QED
    BY <2>1
<1>5. GhostTypeOK'
  BY <1>4 DEF TypeInv, TypeOK, GhostTypeOK, loopVars
<1>6. QED
  BY <1>2, <1>3, <1>5 DEF TypeInv, TypeOK

LEMMA EditWareFindType ==
    ASSUME TypeInv, NEW w \in Workers, NEW c \in Codes, NEW edit \in WareEdit,
           EditWareFind(w, c, edit)
    PROVE  TypeInv'
<1> USE DEF TypeInv, TypeOK, EditWareFind, Accept, dbVars, ghostVars
<1>1. DbTypeOK' /\ GhostTypeOK' /\ TempHasLines'
  BY DEF DbTypeOK, GhostTypeOK, TempHasLines
<1>2. ProcTypeOK'
  BY DEF ProcTypeOK
<1>3. wareEntityMap' \in [Workers -> [Codes -> WareRow \cup {NoRow}]]
  <2>1. wares[c] # NoRow => EditRow(wares[c], edit) \in WareRow
    BY EditRowType DEF DbTypeOK
  <2>2. CASE UNCHANGED wareEntityMap
    BY <2>2 DEF HandlerTypeOK
  <2>3. CASE /\ wares[c] # NoRow
             /\ wareEntityMap' = [wareEntityMap EXCEPT
                                   ![w][c] = EditRow(wares[c], edit)]
    <3>1. EditRow(wares[c], edit) \in WareRow
      BY <2>1, <2>3
    <3>2. wareEntityMap \in [Workers -> [Codes -> WareRow \cup {NoRow}]]
      BY DEF HandlerTypeOK
    <3>3. QED
      BY <2>3, <3>1, <3>2
  <2>4. QED
    BY <2>2, <2>3
<1>4. HandlerTypeOK'
  BY <1>3 DEF HandlerTypeOK, Points, Requests, Answers
<1>5. ControlOK' /\ EntityHasLines'
  BY DEF ControlOK, HandlerTypeOK, OrderPoints, OutPoints, EntityHasLines, At
<1>6. QED
  BY <1>1, <1>2, <1>4, <1>5

LEMMA EditWareUpdateType ==
    ASSUME TypeInv, NEW w \in Workers, EditWareUpdate(w)
    PROVE  TypeInv'
<1>1. DbTypeOK' /\ TempHasLines'
  BY WriteWaresType DEF TypeInv, TypeOK, DbTypeOK, TempHasLines, EditWareUpdate
<1>2. QED
  BY <1>1, ReturnType DEF EditWareUpdate, Answers

LEMMA UploadWareImageType ==
    ASSUME TypeInv, NEW c \in Codes, UploadWareImage(c)
    PROVE  TypeInv'
<1> USE DEF TypeInv, TypeOK, UploadWareImage, reqVars, loopVars, ghostVars
<1>1. DbTypeOK' /\ ProcTypeOK' /\ GhostTypeOK'
  BY DEF DbTypeOK, ProcTypeOK, GhostTypeOK
<1>2. HandlerTypeOK' /\ ControlOK' /\ TempHasLines' /\ EntityHasLines'
  BY DEF HandlerTypeOK, ControlOK, TempHasLines, EntityHasLines, At
<1>3. QED
  BY <1>1, <1>2

LEMMA SqlErrorType ==
    ASSUME TypeInv, NEW w \in Workers, SqlError(w)
    PROVE  TypeInv'
<1>1. DbTypeOK' /\ TempHasLines'
  BY DEF TypeInv, TypeOK, DbTypeOK, TempHasLines, SqlError, dbVars
<1>2. QED
  BY <1>1, ReturnType DEF SqlError, Answers

LEMMA ReplyType ==
    ASSUME TypeInv, NEW w \in Workers, Reply(w)
    PROVE  TypeInv'
<1> USE DEF TypeInv, TypeOK, Reply, dbVars, procVars, loopVars, ghostVars
<1>1. DbTypeOK' /\ ProcTypeOK' /\ GhostTypeOK' /\ TempHasLines'
  BY DEF DbTypeOK, ProcTypeOK, GhostTypeOK, TempHasLines
<1>2. HandlerTypeOK'
  BY DEF HandlerTypeOK, Points, Requests, Answers
<1>3. ControlOK' /\ EntityHasLines'
  BY DEF ControlOK, HandlerTypeOK, OrderPoints, OutPoints, EntityHasLines, At
<1>4. QED
  BY <1>1, <1>2, <1>3

LEMMA RestartType ==
    ASSUME TypeInv, Restart
    PROVE  TypeInv'
<1> USE DEF TypeInv, TypeOK, Restart, dbVars, ghostVars
<1>1. DbTypeOK' /\ ProcTypeOK' /\ GhostTypeOK' /\ TempHasLines'
  BY DEF DbTypeOK, ProcTypeOK, GhostTypeOK, TempHasLines, NoCut
<1>2. HandlerTypeOK'
  BY DEF HandlerTypeOK, Points, Requests, Answers, NoWares
<1>3. ControlOK' /\ EntityHasLines'
  BY DEF ControlOK, OrderPoints, OutPoints, EntityHasLines, At
<1>4. QED
  BY <1>1, <1>2, <1>3

LEMMA NextDayType ==
    ASSUME TypeInv, NextDay
    PROVE  TypeInv'
<1> USE DEF TypeInv, TypeOK, NextDay, dbVars, reqVars, loopVars, ghostVars
<1>1. DbTypeOK' /\ GhostTypeOK' /\ TempHasLines'
  BY DEF DbTypeOK, GhostTypeOK, TempHasLines
<1>2. ProcTypeOK'
  BY StockServerAssumption DEF ProcTypeOK, Days
<1>3. HandlerTypeOK' /\ ControlOK' /\ EntityHasLines'
  BY DEF HandlerTypeOK, ControlOK, EntityHasLines, At
<1>4. QED
  BY <1>1, <1>2, <1>3

LEMMA StutterType == ASSUME TypeInv, UNCHANGED vars PROVE TypeInv'
  BY DEF TypeInv, TypeOK, DbTypeOK, ProcTypeOK, HandlerTypeOK, GhostTypeOK,
         ControlOK, TempHasLines, EntityHasLines, At,
         vars, dbVars, procVars, reqVars, loopVars, ghostVars

LEMMA NextTypeInv == TypeInv /\ [Next]_vars => TypeInv'
<1> SUFFICES ASSUME TypeInv, [Next]_vars PROVE TypeInv'
  OBVIOUS
<1>1. ASSUME NEW w \in Workers, Request(w)
      PROVE  TypeInv'
  <2>1. ASSUME NEW r \in Receipts, NEW lines \in OrderWares,
               HytradeInfo(w, r, lines)
        PROVE  TypeInv'
    BY <2>1, HytradeInfoType
  <2>2. ASSUME NEW r \in Receipts, StockOutFind(w, r)
        PROVE  TypeInv'
    BY <2>2, StockOutFindType
  <2>3. ASSUME NEW r \in Receipts, NEW detail \in DetailWares,
               ModifyFind(w, r, detail)
        PROVE  TypeInv'
    BY <2>3, ModifyFindType
  <2>4. ASSUME NEW r \in Receipts, VoidOrder(w, r)
        PROVE  TypeInv'
    BY <2>4, VoidOrderType
  <2>5. ASSUME NEW q \in AddRequests, AddWare(w, q[1], q[2])
        PROVE  TypeInv'
    <3>1. q[1] \in Codes /\ q[2] \in WareRow
      BY StockServerAssumption
    <3>2. QED
      BY <2>5, <3>1, AddWareType
  <2>6. ASSUME NEW q \in EditRequests, EditWareFind(w, q[1], q[2])
        PROVE  TypeInv'
    <3>1. q[1] \in Codes /\ q[2] \in WareEdit
      BY StockServerAssumption
    <3>2. QED
      BY <2>6, <3>1, EditWareFindType
  <2>7. CASE HytradeNoWares(w)
    BY <2>7, RestartType DEF HytradeNoWares
  <2>8. QED
    BY <1>1, <2>1, <2>2, <2>3, <2>4, <2>5, <2>6, <2>7 DEF Request
<1>2. ASSUME NEW w \in Workers, Continue(w)
      PROVE  TypeInv'
  BY <1>2, HytradeLineType, HytradeAddType, StockOutLineType,
     StockOutUpdateListType, StockOutAddType, StockOutDeleteType,
     ModifyUpdateType, EditWareUpdateType, SqlErrorType, ReplyType DEF Continue
<1>3. QED
  BY <1>1, <1>2, UploadWareImageType, RestartType, NextDayType, StutterType
  DEF Next, Crash

\* Every variable keeps its type, and every loop of every handler has a line
\* to look at, however the handlers interleave, fail and crash.
THEOREM TypeCorrect == Spec => []TypeOK
<1>1. Spec => []TypeInv
  BY InitTypeInv, NextTypeInv, PTL DEF Spec
<1>2. TypeInv => TypeOK
  BY DEF TypeInv
<1>3. QED
  BY <1>1, <1>2, PTL
-----------------------------------------------------------------------------
(* What no step of any thread undoes.                                       *)

SalesGrow == \A d \in Days, r \in Receipts :
                business[d][r] # NoRow => business'[d][r] = business[d][r]

\* The steps that leave the sales and the record of stock-outs alone.
LEMMA RequestKeepsSales ==
    ASSUME NEW w \in Workers, Request(w)
    PROVE  UNCHANGED <<business, committed>>
  BY DEF Request, HytradeInfo, StockOutFind, ModifyFind, VoidOrder, AddWare,
         EditWareFind, HytradeNoWares, Restart, dbVars, ghostVars

LEMMA ContinueSales ==
    ASSUME NEW w \in Workers, Continue(w)
    PROVE  /\ business' = business \/ StockOutAdd(w)
           /\ committed' = committed \/ StockOutUpdateList(w)
<1>1. CASE HytradeLine(w)
  BY <1>1 DEF HytradeLine, dbVars, ghostVars
<1>2. CASE HytradeAdd(w)
  BY <1>2 DEF HytradeAdd, ghostVars
<1>3. CASE StockOutLine(w)
  BY <1>3 DEF StockOutLine, dbVars, ghostVars
<1>4. CASE StockOutUpdateList(w)
  BY <1>4 DEF StockOutUpdateList
<1>5. CASE StockOutAdd(w)
  BY <1>5 DEF StockOutAdd, ghostVars
<1>6. CASE StockOutDelete(w) \/ ModifyUpdate(w) \/ EditWareUpdate(w)
  BY <1>6 DEF StockOutDelete, ModifyUpdate, EditWareUpdate, ghostVars
<1>7. CASE SqlError(w) \/ Reply(w)
  BY <1>7 DEF SqlError, Reply, dbVars, ghostVars
<1>8. QED
  BY <1>1, <1>2, <1>3, <1>4, <1>5, <1>6, <1>7 DEF Continue

LEMMA NothingUndone ==
    ASSUME TypeInv, [Next]_vars
    PROVE  SalesGrow /\ committed \subseteq committed'
<1>1. ASSUME UNCHANGED <<business, committed>>
      PROVE  SalesGrow /\ committed \subseteq committed'
  BY <1>1 DEF SalesGrow
<1>2. ASSUME NEW w \in Workers, Continue(w)
      PROVE  SalesGrow /\ committed \subseteq committed'
  <2>1. SalesGrow
    <3>1. CASE business' = business
      BY <3>1 DEF SalesGrow
    <3>2. CASE StockOutAdd(w)
      BY <3>2 DEF StockOutAdd, SalesGrow, TypeInv, TypeOK, DbTypeOK
    <3>3. QED
      BY <1>2, <3>1, <3>2, ContinueSales
  <2>2. committed \subseteq committed'
    BY <1>2, ContinueSales DEF StockOutUpdateList
  <2>3. QED
    BY <2>1, <2>2
<1>3. CASE \E w \in Workers : Request(w)
  BY <1>1, <1>3, RequestKeepsSales
<1>4. CASE \E w \in Workers : Continue(w)
  BY <1>2, <1>4
<1>5. CASE \E c \in Codes : UploadWareImage(c)
  BY <1>1, <1>5 DEF UploadWareImage, ghostVars
<1>6. CASE Crash \/ NextDay
  BY <1>1, <1>6 DEF Crash, Restart, NextDay, dbVars, ghostVars
<1>7. CASE UNCHANGED vars
  BY <1>1, <1>7 DEF vars, dbVars, ghostVars
<1>8. QED
  BY <1>3, <1>4, <1>5, <1>6, <1>7 DEF Next

\* What a business database holds is final.
THEOREM SalesStayFinal == Spec => SalesAreFinal
<1>1. TypeInv /\ [Next]_vars =>
        [\A d \in Days, r \in Receipts :
            business[d][r] # NoRow => business'[d][r] = business[d][r]]_vars
  BY NothingUndone DEF SalesGrow
<1>2. QED
  BY <1>1, InitTypeInv, NextTypeInv, PTL DEF Spec, SalesAreFinal
-----------------------------------------------------------------------------
(* The stock-out, one thread at a time.  What makes a sale safe is what the *)
(* thread knows at each point of operate 1: that its map is not empty, that *)
(* the stock has been taken, that its order is in the business database.    *)

\* Only a stock-out answers as one.
OpInv(w) == op[w] = "stockOut" => pc[w] \in OutPoints \cup {"reply"}

HeldInv(w) ==
    At(w, "outUpdateList") => \E c \in Codes : wareEntityMap[w][c] # NoRow

TakenInv(w) ==
    pc[w] \in {"outAdd", "outDelete"} => orderEntity[w].uuid \in committed

SaleInv(w) ==
    At(w, "outDelete") \/ (At(w, "reply") /\ op[w] = "stockOut" /\ answer[w] = "SUCCESS")
        => /\ no[w] \in Receipts
           /\ orderEntity[w] \in Order
           /\ business[orderEntity[w].day][no[w]] = orderEntity[w]

ThreadInv(w) == OpInv(w) /\ HeldInv(w) /\ TakenInv(w) /\ SaleInv(w)

SafetyInv == TypeInv /\ SoldWasTaken /\ \A w \in Workers : ThreadInv(w)

\* The thread is where it was.
SameThread(w) ==
    /\ pc'[w] = pc[w]
    /\ op'[w] = op[w]
    /\ no'[w] = no[w]
    /\ orderEntity'[w] = orderEntity[w]
    /\ wareEntityMap'[w] = wareEntityMap[w]
    /\ answer'[w] = answer[w]

LEMMA InitSafetyInv == Init => SafetyInv
<1> SUFFICES ASSUME Init PROVE SafetyInv
  OBVIOUS
<1>1. TypeInv
  BY InitTypeInv
<1>2. SoldWasTaken
  BY DEF Init, SoldWasTaken
<1>3. ASSUME NEW w \in Workers PROVE ThreadInv(w)
  BY <1>3 DEF Init, ThreadInv, OpInv, HeldInv, TakenInv, SaleInv, At, OutPoints
<1>4. QED
  BY <1>1, <1>2, <1>3 DEF SafetyInv

\* A sale found by a thread stays the one it found.
LEMMA SaleStays ==
    ASSUME TypeInv, SalesGrow, NEW w \in Workers,
           no[w] \in Receipts, orderEntity[w] \in Order,
           business[orderEntity[w].day][no[w]] = orderEntity[w]
    PROVE  business'[orderEntity[w].day][no[w]] = orderEntity[w]
<1>1. orderEntity[w].day \in Days /\ orderEntity[w] # NoRow
  BY NoRowAssumption DEF Order
<1>2. QED
  BY <1>1 DEF SalesGrow

\* A step of one thread leaves the others where they were.
LEMMA RequestOfOne ==
    ASSUME TypeInv, NEW w \in Workers, Request(w), ~HytradeNoWares(w),
           NEW v \in Workers \ {w}
    PROVE  SameThread(v)
<1> USE DEF TypeInv, TypeOK, HandlerTypeOK, SameThread, Accept, loopVars
<1>1. ASSUME NEW r \in Receipts, NEW lines \in OrderWares,
             HytradeInfo(w, r, lines)
      PROVE  SameThread(v)
  BY <1>1 DEF HytradeInfo
<1>2. ASSUME NEW r \in Receipts, StockOutFind(w, r)
      PROVE  SameThread(v)
  BY <1>2 DEF StockOutFind
<1>3. ASSUME NEW r \in Receipts, NEW detail \in DetailWares,
             ModifyFind(w, r, detail)
      PROVE  SameThread(v)
  BY <1>3 DEF ModifyFind
<1>4. ASSUME NEW r \in Receipts, VoidOrder(w, r)
      PROVE  SameThread(v)
  BY <1>4 DEF VoidOrder
<1>5. ASSUME NEW q \in AddRequests, AddWare(w, q[1], q[2])
      PROVE  SameThread(v)
  BY <1>5 DEF AddWare
<1>6. ASSUME NEW q \in EditRequests, EditWareFind(w, q[1], q[2])
      PROVE  SameThread(v)
  BY <1>6 DEF EditWareFind
<1>7. QED
  BY <1>1, <1>2, <1>3, <1>4, <1>5, <1>6 DEF Request

LEMMA FinishOfOne ==
    ASSUME TypeInv, NEW w \in Workers, NEW code, Finish(w, code),
           UNCHANGED reqVars, NEW v \in Workers \ {w}
    PROVE  SameThread(v)
  BY DEF TypeInv, TypeOK, HandlerTypeOK, SameThread, Finish, reqVars

LEMMA ContinueOfOne ==
    ASSUME TypeInv, NEW w \in Workers, Continue(w), NEW v \in Workers \ {w}
    PROVE  SameThread(v)
<1> USE DEF TypeInv, TypeOK, HandlerTypeOK
<1>1. CASE HytradeLine(w)
  <2>1. ASSUME NEW code, Finish(w, code), UNCHANGED orderEntity
        PROVE  SameThread(v)
    BY <1>1, <2>1, FinishOfOne DEF HytradeLine, reqVars
  <2>2. ASSUME NEW line, NEW row,
               Advance(w, "hytradeAdd"),
               UNCHANGED wareEntityMap \/ Hold(w, line.code, row),
               \/ UNCHANGED orderEntity
               \/ orderEntity' = [orderEntity EXCEPT ![w].wares = Append(@, line)]
        PROVE  SameThread(v)
    BY <1>1, <2>2 DEF HytradeLine, SameThread, Advance, Hold
  <2>3. QED
    BY <1>1, <2>1, <2>2 DEF HytradeLine
<1>2. CASE HytradeAdd(w)
  BY <1>2, FinishOfOne DEF HytradeAdd
<1>3. CASE StockOutLine(w)
  <2>1. ASSUME NEW code, Finish(w, code)
        PROVE  SameThread(v)
    BY <1>3, <2>1, FinishOfOne DEF StockOutLine
  <2>2. ASSUME NEW c, NEW row, Advance(w, "outUpdateList"),
               UNCHANGED wareEntityMap \/ Hold(w, c, row)
        PROVE  SameThread(v)
    BY <1>3, <2>2 DEF StockOutLine, SameThread, Advance, Hold, reqVars
  <2>3. QED
    BY <1>3, <2>1, <2>2 DEF StockOutLine
<1>4. CASE StockOutUpdateList(w)
  BY <1>4 DEF StockOutUpdateList, SameThread, reqVars, loopVars
<1>5. CASE StockOutAdd(w)
  <2>1. CASE Finish(w, "SQL_ERROR")
    BY <1>5, <2>1, FinishOfOne DEF StockOutAdd
  <2>2. CASE pc' = [pc EXCEPT ![w] = "outDelete"] /\ UNCHANGED <<loopVars, answer>>
    BY <1>5, <2>2 DEF StockOutAdd, SameThread, reqVars, loopVars
  <2>3. QED
    BY <1>5, <2>1, <2>2 DEF StockOutAdd
<1>6. CASE StockOutDelete(w) \/ ModifyUpdate(w) \/ EditWareUpdate(w) \/ SqlError(w)
  BY <1>6, FinishOfOne DEF StockOutDelete, ModifyUpdate, EditWareUpdate, SqlError
<1>7. CASE Reply(w)
  BY <1>7 DEF Reply, SameThread, loopVars
<1>8. QED
  BY <1>1, <1>2, <1>3, <1>4, <1>5, <1>6, <1>7 DEF Continue

LEMMA OtherThreads ==
    ASSUME SafetyInv, [Next]_vars, NEW v \in Workers, SameThread(v)
    PROVE  ThreadInv(v)'
<1> USE DEF SafetyInv, ThreadInv, SameThread, At
<1>1. SalesGrow /\ committed \subseteq committed'
  BY NothingUndone
<1>2. OpInv(v)' /\ HeldInv(v)' /\ TakenInv(v)'
  BY <1>1 DEF OpInv, HeldInv, TakenInv
<1>3. SaleInv(v)'
  <2> SUFFICES ASSUME \/ At(v, "outDelete")
                      \/ At(v, "reply") /\ op[v] = "stockOut" /\ answer[v] = "SUCCESS"
               PROVE  /\ no[v] \in Receipts
                      /\ orderEntity[v] \in Order
                      /\ business'[orderEntity[v].day][no[v]] = orderEntity[v]
    BY DEF SaleInv
  <2>1. /\ no[v] \in Receipts
        /\ orderEntity[v] \in Order
        /\ business[orderEntity[v].day][no[v]] = orderEntity[v]
    BY DEF SaleInv
  <2>2. QED
    BY <1>1, <2>1, SaleStays
<1>4. QED
  BY <1>2, <1>3
-----------------------------------------------------------------------------
(* The thread that takes the step.                                         *)

\* A request found its thread idle; a stock-out that could not even read its
\* order is answered with an error.
LEMMA RequestThread ==
    ASSUME SafetyInv, NEW w \in Workers, Request(w), ~HytradeNoWares(w)
    PROVE  ThreadInv(w)'
<1> USE DEF SafetyInv, TypeInv, TypeOK, HandlerTypeOK, Accept
<1> DEFINE Arrived ==
        /\ pc'[w] \in {"hytradeLine", "outLine", "modifyUpdate", "editUpdate", "reply"}
        /\ op'[w] = "stockOut" =>
              \/ pc'[w] = "outLine"
              \/ pc'[w] = "reply" /\ answer'[w] = "SQL_ERROR"
<1>1. ASSUME NEW r \in Receipts, NEW lines \in OrderWares,
             HytradeInfo(w, r, lines)
      PROVE  Arrived
  BY <1>1 DEF HytradeInfo
<1>2. ASSUME NEW r \in Receipts, StockOutFind(w, r)
      PROVE  Arrived
  BY <1>2 DEF StockOutFind
<1>3. ASSUME NEW r \in Receipts, NEW detail \in DetailWares,
             ModifyFind(w, r, detail)
      PROVE  Arrived
  BY <1>3 DEF ModifyFind
<1>4. ASSUME NEW r \in Receipts, VoidOrder(w, r)
      PROVE  Arrived
  BY <1>4 DEF VoidOrder
<1>5. ASSUME NEW q \in AddRequests, AddWare(w, q[1], q[2])
      PROVE  Arrived
  BY <1>5 DEF AddWare
<1>6. ASSUME NEW q \in EditRequests, EditWareFind(w, q[1], q[2])
      PROVE  Arrived
  BY <1>6 DEF EditWareFind
<1>7. Arrived
  BY <1>1, <1>2, <1>3, <1>4, <1>5, <1>6 DEF Request
<1>8. QED
  BY <1>7 DEF ThreadInv, OpInv, HeldInv, TakenInv, SaleInv, At, OutPoints

\* A thread that answers, unless it answers a stock-out with success.
LEMMA FinishThread ==
    ASSUME SafetyInv, NEW w \in Workers, NEW code, Finish(w, code),
           UNCHANGED reqVars, op[w] # "stockOut" \/ code # "SUCCESS"
    PROVE  ThreadInv(w)'
<1>1. pc'[w] = "reply" /\ answer'[w] = code /\ op'[w] = op[w]
  BY DEF SafetyInv, TypeInv, TypeOK, HandlerTypeOK, Finish, reqVars
<1>2. QED
  BY <1>1 DEF ThreadInv, OpInv, HeldInv, TakenInv, SaleInv, At, OutPoints

\* A loop that moves on: the handler keeps its request, and the row it has
\* just deducted from is in its map.
LEMMA HytradeLineThread ==
    ASSUME SafetyInv, NEW w \in Workers, HytradeLine(w)
    PROVE  ThreadInv(w)'
<1> USE DEF SafetyInv, TypeInv, TypeOK, HandlerTypeOK
<1>1. op'[w] = op[w] /\ op[w] # "stockOut"
  BY DEF HytradeLine, ThreadInv, OpInv, At, OutPoints
<1>2. pc'[w] \in {"reply", "hytradeLine", "hytradeAdd"}
  BY DEF HytradeLine, Finish, Advance, At
<1>3. QED
  BY <1>1, <1>2 DEF ThreadInv, OpInv, HeldInv, TakenInv, SaleInv, At

LEMMA StockOutLineThread ==
    ASSUME SafetyInv, NEW w \in Workers, StockOutLine(w)
    PROVE  ThreadInv(w)'
<1> USE DEF SafetyInv, TypeInv, TypeOK, HandlerTypeOK
<1>1. ASSUME NEW code \in {"SQL_ERROR", "INSUFFICIENT_STOCK"}, Finish(w, code)
      PROVE  ThreadInv(w)'
  BY <1>1, FinishThread DEF StockOutLine
<1>2. ASSUME Advance(w, "outUpdateList"),
             \E c \in Codes : wareEntityMap'[w][c] # NoRow
      PROVE  ThreadInv(w)'
  <2>1. pc'[w] \in {"outLine", "outUpdateList"}
    BY <1>2 DEF StockOutLine, Advance, At
  <2>2. QED
    BY <1>2, <2>1 DEF ThreadInv, OpInv, HeldInv, TakenInv, SaleInv, At, OutPoints
<1>3. DEFINE line == Head(todo[w])
<1>4. line.code \in Codes /\ line \in Line
  <2>1. todo[w] \in Seq(Line) /\ todo[w] # <<>>
    BY DEF StockOutLine, At, ControlOK
  <2>2. line \in Line
    BY <2>1, HeadTailProperties
  <2>3. QED
    BY <2>2 DEF Line
<1>5. ASSUME UNCHANGED wareEntityMap, wareEntityMap[w][line.code] # NoRow
      PROVE  \E c \in Codes : wareEntityMap'[w][c] # NoRow
  BY <1>4, <1>5
<1>6. ASSUME NEW row \in WareRow, Hold(w, line.code, row)
      PROVE  \E c \in Codes : wareEntityMap'[w][c] # NoRow
  BY <1>4, <1>6, NoRowAssumption DEF Hold
<1>7. RowFor(w, line.code) # NoRow
          => Deduct(RowFor(w, line.code), line) \in WareRow
  BY <1>4, DeductType DEF RowFor, DbTypeOK
<1>8. QED
  BY <1>1, <1>2, <1>5, <1>6, <1>7 DEF StockOutLine
LEMMA UpdateListThread ==
    ASSUME SafetyInv, NEW w \in Workers, StockOutUpdateList(w)
    PROVE  ThreadInv(w)'
<1> USE DEF SafetyInv, TypeInv, TypeOK, HandlerTypeOK, StockOutUpdateList, reqVars
<1>1. pc'[w] = "outAdd" /\ op'[w] = op[w]
  OBVIOUS
<1>2. orderEntity'[w].uuid \in committed'
  OBVIOUS
<1>3. QED
  BY <1>1, <1>2 DEF ThreadInv, OpInv, HeldInv, TakenInv, SaleInv, At, OutPoints

LEMMA StockOutAddThread ==
    ASSUME SafetyInv, NEW w \in Workers, StockOutAdd(w)
    PROVE  ThreadInv(w)'
<1> DEFINE d == orderEntity[w].day
           r == no[w]
<1> USE DEF SafetyInv, TypeInv, TypeOK, HandlerTypeOK, reqVars, ghostVars
<1>1. CASE Finish(w, "SQL_ERROR")
  BY <1>1, FinishThread DEF StockOutAdd
<1>2. CASE /\ business[d][r] = NoRow
           /\ business' = [business EXCEPT ![d][r] = orderEntity[w]]
           /\ pc' = [pc EXCEPT ![w] = "outDelete"]
           /\ UNCHANGED <<loopVars, answer>>
  <2>1. orderEntity[w] \in Order /\ r \in Receipts
    BY DEF StockOutAdd, ControlOK, At, OrderPoints, OutPoints
  <2>2. d \in Days
    BY <2>1 DEF Order
  <2>3. business'[d][r] = orderEntity[w]
    BY <1>2, <2>1, <2>2 DEF DbTypeOK
  <2>4. pc'[w] = "outDelete" /\ UNCHANGED <<op, no, orderEntity, committed>>
    BY <1>2 DEF StockOutAdd
  <2>5. orderEntity[w].uuid \in committed
    BY DEF StockOutAdd, ThreadInv, TakenInv, At
  <2>6. SaleInv(w)'
    BY <2>1, <2>3, <2>4 DEF SaleInv
  <2>7. QED
    BY <2>4, <2>5, <2>6 DEF ThreadInv, OpInv, HeldInv, TakenInv, At, OutPoints
<1>3. QED
  BY <1>1, <1>2 DEF StockOutAdd

\* The sale the thread has made is still there when it answers.
LEMMA StockOutDeleteThread ==
    ASSUME SafetyInv, NEW w \in Workers, StockOutDelete(w)
    PROVE  ThreadInv(w)'
<1> USE DEF SafetyInv, TypeInv, TypeOK, HandlerTypeOK
<1>1. pc'[w] = "reply" /\ UNCHANGED <<business, op, no, orderEntity>>
  BY DEF StockOutDelete, Finish, reqVars
<1>2. /\ no[w] \in Receipts
      /\ orderEntity[w] \in Order
      /\ business[orderEntity[w].day][no[w]] = orderEntity[w]
  BY DEF StockOutDelete, ThreadInv, SaleInv, At
<1>3. SaleInv(w)'
  BY <1>1, <1>2 DEF SaleInv
<1>4. QED
  BY <1>1, <1>3 DEF ThreadInv, OpInv, HeldInv, TakenInv, At, OutPoints

LEMMA ContinueThread ==
    ASSUME SafetyInv, NEW w \in Workers, Continue(w)
    PROVE  ThreadInv(w)'
<1>1. CASE HytradeAdd(w) \/ ModifyUpdate(w) \/ EditWareUpdate(w)
  <2>1. op[w] # "stockOut"
    BY <1>1 DEF SafetyInv, ThreadInv, OpInv, OutPoints, At, HytradeAdd,
                ModifyUpdate, EditWareUpdate
  <2>2. QED
    BY <1>1, <2>1, FinishThread DEF HytradeAdd, ModifyUpdate, EditWareUpdate
<1>2. CASE SqlError(w)
  BY <1>2, FinishThread DEF SqlError
<1>3. CASE Reply(w)
  <2>1. pc'[w] = "idle" /\ op'[w] = "none"
    BY <1>3 DEF Reply, SafetyInv, TypeInv, TypeOK, HandlerTypeOK
  <2>2. QED
    BY <2>1 DEF ThreadInv, OpInv, HeldInv, TakenInv, SaleInv, At
<1>4. QED
  BY <1>1, <1>2, <1>3, HytradeLineThread, StockOutLineThread, UpdateListThread,
     StockOutAddThread, StockOutDeleteThread DEF Continue

-----------------------------------------------------------------------------
(* Every step, every thread.                                               *)

LEMMA NextThreads ==
    ASSUME SafetyInv, [Next]_vars, NEW v \in Workers
    PROVE  ThreadInv(v)'
<1>1. ASSUME NEW w \in Workers, Request(w), ~HytradeNoWares(w)
      PROVE  ThreadInv(v)'
  BY <1>1, RequestThread, RequestOfOne, OtherThreads DEF SafetyInv
<1>2. ASSUME NEW w \in Workers, Continue(w)
      PROVE  ThreadInv(v)'
  BY <1>2, ContinueThread, ContinueOfOne, OtherThreads DEF SafetyInv
<1>3. CASE Restart
  BY <1>3 DEF Restart, ThreadInv, OpInv, HeldInv, TakenInv, SaleInv, At
<1>4. ASSUME UNCHANGED <<reqVars, loopVars, pc, answer>>
      PROVE  ThreadInv(v)'
  BY <1>4, OtherThreads DEF SameThread, reqVars, loopVars
<1>5. CASE \E c \in Codes : UploadWareImage(c)
  BY <1>4, <1>5 DEF UploadWareImage
<1>6. CASE NextDay
  BY <1>4, <1>6 DEF NextDay
<1>7. CASE UNCHANGED vars
  BY <1>4, <1>7 DEF vars
<1>8. QED
  BY <1>1, <1>2, <1>3, <1>5, <1>6, <1>7 DEF Next, Crash, HytradeNoWares

\* Only the insert of a stock-out adds a sale, and its stock has been taken.
LEMMA NextSold ==
    ASSUME SafetyInv, [Next]_vars
    PROVE  SoldWasTaken'
<1> USE DEF SafetyInv
<1>1. SalesGrow /\ committed \subseteq committed'
  BY NothingUndone
<1>2. ASSUME UNCHANGED business
      PROVE  SoldWasTaken'
  BY <1>1, <1>2 DEF SoldWasTaken
<1>3. ASSUME NEW w \in Workers, Continue(w)
      PROVE  SoldWasTaken'
  <2>1. CASE StockOutAdd(w)
    <3>1. orderEntity[w].uuid \in committed'
      BY <1>1, <2>1 DEF StockOutAdd, ThreadInv, TakenInv, At
    <3>2. \A d \in Days, r \in Receipts :
             business'[d][r] = business[d][r] \/ business'[d][r] = orderEntity[w]
      BY <2>1 DEF StockOutAdd, TypeInv, TypeOK, DbTypeOK
    <3>3. QED
      BY <1>1, <3>1, <3>2 DEF SoldWasTaken
  <2>2. CASE ~StockOutAdd(w)
    BY <1>2, <1>3, <2>2
    DEF Continue, HytradeLine, HytradeAdd, StockOutLine, StockOutUpdateList,
        StockOutDelete, ModifyUpdate, EditWareUpdate, SqlError, Reply, dbVars
  <2>3. QED
    BY <2>1, <2>2
<1>4. ASSUME NEW w \in Workers, Request(w)
      PROVE  SoldWasTaken'
  BY <1>2, <1>4, RequestKeepsSales
<1>5. QED
  BY <1>2, <1>3, <1>4 DEF Next, Crash, Restart, UploadWareImage, NextDay, vars, dbVars

LEMMA NextSafetyInv ==
    ASSUME SafetyInv, [Next]_vars
    PROVE  SafetyInv'
  BY NextTypeInv, NextThreads, NextSold DEF SafetyInv

LEMMA SafetyInvHolds == Spec => []SafetyInv
  BY InitSafetyInv, NextSafetyInv, PTL DEF Spec

\* An order in a business database has had its stock-out written to
\* tb_config_ware: operate 1 inserts the order only after UpdateList
\* (ModifyStockOrderRouter.cpp:169,184), and nothing takes the record back.
THEOREM SoldOnlyIfTaken == Spec => []SoldWasTaken
<1>1. SafetyInv => SoldWasTaken
  BY DEF SafetyInv
<1>2. QED
  BY <1>1, SafetyInvHolds, PTL

\* Operate 1 answers SUCCESS only when its order, as it found it, is in the
\* business database of its date, whatever other threads do meanwhile.
THEOREM SuccessIsASale == Spec => []SuccessMeansSold
<1>1. SafetyInv => SuccessMeansSold
  BY DEF SafetyInv, ThreadInv, SaleInv, SuccessMeansSold
<1>2. QED
  BY <1>1, SafetyInvHolds, PTL

\* Operate 1 never hands UpdateList an empty list: every order in Temp.db has
\* a line, and the loop either leaves the handler or holds the line's row.
THEOREM UpdateListGetsRows == Spec => []UpdateListNotEmpty
<1>1. SafetyInv => UpdateListNotEmpty
  BY DEF SafetyInv, ThreadInv, HeldInv, UpdateListNotEmpty
<1>2. QED
  BY <1>1, SafetyInvHolds, PTL
-----------------------------------------------------------------------------
(* Whose an order is.  A uuid is given once, so the order that has it is     *)
(* under one receipt wherever it is, and is not placed a second time.       *)

\* The order with this uuid is under this receipt: in Temp.db, in a business
\* database, or in the hands of a thread.
Holds(w, u, r) == pc[w] \in OrderPoints /\ no[w] = r /\ orderEntity[w].uuid = u
Under(u, r) == InTemp(u, r) \/ Sold(u, r) \/ \E w \in Workers : Holds(w, u, r)

OneReceipt ==
    /\ \A u : \A r, s \in Receipts : Under(u, r) /\ Under(u, s) => r = s
    /\ \A u : \A r \in Receipts : Under(u, r) => u \in 0 .. nextUuid - 1

\* An order that is being placed is nowhere else.
PlacedOnce(w) ==
    pc[w] \in {"hytradeLine", "hytradeAdd"} =>
        \A r \in Receipts :
            /\ ~InTemp(orderEntity[w].uuid, r)
            /\ ~Sold(orderEntity[w].uuid, r)
            /\ \A v \in Workers \ {w} : ~Holds(v, orderEntity[w].uuid, r)

UuidInv == OneReceipt /\ \A w \in Workers : PlacedOnce(w)

LEMMA InitUuid == Init => UuidInv
  BY DEF Init, UuidInv, OneReceipt, PlacedOnce, Under, InTemp, Sold, Holds,
         OrderPoints, OutPoints

NewPoints == {"hytradeLine", "hytradeAdd"}

\* A thread that goes on with the order it holds.
GoesOn(w) ==
    pc'[w] \in OrderPoints =>
        /\ pc[w] \in OrderPoints
        /\ no'[w] = no[w] /\ orderEntity'[w].uuid = orderEntity[w].uuid
        /\ pc'[w] \in NewPoints => pc[w] \in NewPoints
        /\ pc'[w] \in OutPoints => pc[w] \in OutPoints

\* A thread comes to an order by reading it from Temp.db, or places it.
Finds(w, u, r) ==
    /\ pc[w] = "idle" /\ pc'[w] \in {"outLine", "modifyUpdate"}
    /\ InTemp(u, r)
Creates(w, u, r) ==
    /\ \E lines \in OrderWares : HytradeInfo(w, r, lines)
    /\ u = nextUuid

HoldMoves(w) ==
    \A r \in Receipts : \A u : Holds(w, u, r)' =>
        (Holds(w, u, r) /\ GoesOn(w)) \/ Finds(w, u, r) \/ Creates(w, u, r)

LEMMA GoingOn == ASSUME NEW w \in Workers, GoesOn(w) PROVE HoldMoves(w)
  BY DEF GoesOn, HoldMoves, Holds

LEMMA SameGoesOn ==
    ASSUME NEW w \in Workers, SameThread(w)
    PROVE  GoesOn(w)
  BY DEF SameThread, GoesOn

LEMMA FinishGoesOn ==
    ASSUME TypeInv, NEW w \in Workers, NEW code, Finish(w, code)
    PROVE  GoesOn(w)
  BY DEF TypeInv, TypeOK, HandlerTypeOK, Finish, GoesOn, OrderPoints, OutPoints

LEMMA RequestHolds ==
    ASSUME TypeInv, NEW w \in Workers, Request(w), ~HytradeNoWares(w)
    PROVE  HoldMoves(w)
<1> USE DEF TypeInv, TypeOK, HandlerTypeOK, Accept
<1>1. ASSUME pc'[w] \in {"reply", "editUpdate"}
      PROVE  HoldMoves(w)
  BY <1>1 DEF HoldMoves, Holds, OrderPoints, OutPoints
<1>2. ASSUME NEW r \in Receipts, NEW lines \in OrderWares,
             HytradeInfo(w, r, lines)
      PROVE  HoldMoves(w)
  <2>1. no'[w] = r /\ orderEntity'[w].uuid = nextUuid
    BY <1>2 DEF HytradeInfo
  <2>2. QED
    BY <1>2, <2>1 DEF HoldMoves, Holds, Creates
<1>3. ASSUME NEW r \in Receipts, StockOutFind(w, r)
      PROVE  HoldMoves(w)
  <2>1. CASE pc'[w] = "reply"
    BY <1>1, <2>1
  <2>2. CASE pc'[w] # "reply"
    <3>1. /\ pc[w] = "idle" /\ pc'[w] = "outLine" /\ no'[w] = r
          /\ temp[r] # NoRow /\ orderEntity'[w] = temp[r]
      BY <1>3, <2>2 DEF StockOutFind
    <3>2. QED
      BY <3>1 DEF HoldMoves, Holds, Finds, InTemp
  <2>3. QED
    BY <2>1, <2>2
<1>4. ASSUME NEW r \in Receipts, NEW detail \in DetailWares,
             ModifyFind(w, r, detail)
      PROVE  HoldMoves(w)
  <2>1. CASE pc'[w] = "reply"
    BY <1>1, <2>1
  <2>2. CASE pc'[w] # "reply"
    <3> DEFINE order == [temp[r] EXCEPT !.wares = MergeDetail(@, detail)]
    <3>1. /\ pc[w] = "idle" /\ pc'[w] = "modifyUpdate" /\ no'[w] = r
          /\ temp[r] # NoRow /\ orderEntity'[w] = order
      BY <1>4, <2>2 DEF ModifyFind
    <3>2. temp[r] \in Order
      BY <3>1 DEF DbTypeOK
    <3>3. order.uuid = temp[r].uuid
      BY <3>2 DEF Order
    <3> HIDE DEF order
    <3>4. orderEntity'[w].uuid = temp[r].uuid
      BY <3>1, <3>3
    <3>5. QED
      BY <3>1, <3>4 DEF HoldMoves, Holds, Finds, InTemp
  <2>3. QED
    BY <2>1, <2>2
<1>5. ASSUME NEW r \in Receipts, VoidOrder(w, r)
      PROVE  HoldMoves(w)
  BY <1>1, <1>5 DEF VoidOrder
<1>6. ASSUME NEW q \in AddRequests, AddWare(w, q[1], q[2])
      PROVE  HoldMoves(w)
  BY <1>1, <1>6 DEF AddWare
<1>7. ASSUME NEW q \in EditRequests, EditWareFind(w, q[1], q[2])
      PROVE  HoldMoves(w)
  BY <1>1, <1>7 DEF EditWareFind
<1>8. QED
  BY <1>2, <1>3, <1>4, <1>5, <1>6, <1>7 DEF Request

LEMMA ContinueGoesOn ==
    ASSUME TypeInv, NEW w \in Workers, Continue(w)
    PROVE  GoesOn(w)
<1> USE DEF TypeInv, TypeOK, HandlerTypeOK, reqVars
<1>1. ASSUME NEW from \in OrderPoints, pc[w] = from,
             UNCHANGED <<no, orderEntity>>,
             pc'[w] \in NewPoints => from \in NewPoints,
             pc'[w] \in OutPoints => from \in OutPoints
      PROVE  GoesOn(w)
  BY <1>1 DEF GoesOn
<1>2. CASE HytradeLine(w)
  <2>1. ASSUME NEW code, Finish(w, code)
        PROVE  GoesOn(w)
    BY <2>1, FinishGoesOn
  <2>2. ASSUME Advance(w, "hytradeAdd")
        PROVE  GoesOn(w)
    <3>1. pc[w] = "hytradeLine" /\ pc'[w] \in NewPoints /\ no' = no
      BY <1>2, <2>2 DEF HytradeLine, At, Advance, NewPoints
    <3>2. orderEntity[w] \in Order
      BY <3>1 DEF ControlOK, OrderPoints
    <3>3. orderEntity'[w].uuid = orderEntity[w].uuid
      <4>1. CASE UNCHANGED orderEntity
        BY <4>1
      <4>2. ASSUME NEW line,
                   orderEntity' = [orderEntity EXCEPT
                        ![w] = [orderEntity[w] EXCEPT !.wares = Append(@, line)]]
            PROVE  orderEntity'[w].uuid = orderEntity[w].uuid
        <5>1. orderEntity'[w] = [orderEntity[w] EXCEPT !.wares = Append(@, line)]
          BY <4>2
        <5>2. QED
          BY <3>2, <5>1 DEF Order
      <4>3. QED
        BY <1>2, <2>2, <4>1, <4>2 DEF HytradeLine
    <3>4. QED
      BY <3>1, <3>3 DEF GoesOn, OrderPoints, OutPoints, NewPoints
  <2>3. QED
    BY <1>2, <2>1, <2>2 DEF HytradeLine
<1>3. CASE StockOutLine(w)
  <2>1. ASSUME NEW code, Finish(w, code)
        PROVE  GoesOn(w)
    BY <2>1, FinishGoesOn
  <2>2. CASE Advance(w, "outUpdateList")
    BY <1>1, <1>3, <2>2
    DEF StockOutLine, At, Advance, OrderPoints, OutPoints, NewPoints
  <2>3. QED
    BY <1>3, <2>1, <2>2 DEF StockOutLine
<1>4. CASE StockOutUpdateList(w)
  BY <1>1, <1>4 DEF StockOutUpdateList, At, OrderPoints, OutPoints, NewPoints
<1>5. CASE StockOutAdd(w)
  <2>1. CASE Finish(w, "SQL_ERROR")
    BY <2>1, FinishGoesOn
  <2>2. CASE pc' = [pc EXCEPT ![w] = "outDelete"]
    BY <1>1, <1>5, <2>2 DEF StockOutAdd, At, OrderPoints, OutPoints, NewPoints
  <2>3. QED
    BY <1>5, <2>1, <2>2 DEF StockOutAdd
<1>6. CASE Reply(w)
  BY <1>6 DEF Reply, GoesOn, OrderPoints, OutPoints
<1>7. QED
  BY <1>2, <1>3, <1>4, <1>5, <1>6, FinishGoesOn
  DEF Continue, HytradeAdd, StockOutDelete, ModifyUpdate, EditWareUpdate, SqlError

\* What a step is to every thread.
LEMMA StepHolds ==
    ASSUME TypeInv, [Next]_vars, NEW v \in Workers
    PROVE  HoldMoves(v)
<1>1. ASSUME NEW w \in Workers, Request(w), ~HytradeNoWares(w)
      PROVE  HoldMoves(v)
  BY <1>1, RequestHolds, RequestOfOne, SameGoesOn, GoingOn
<1>2. ASSUME NEW w \in Workers, Continue(w)
      PROVE  HoldMoves(v)
  BY <1>2, ContinueGoesOn, ContinueOfOne, SameGoesOn, GoingOn
<1>3. CASE Restart
  BY <1>3 DEF Restart, HoldMoves, Holds, OrderPoints, OutPoints
<1>4. ASSUME UNCHANGED <<reqVars, loopVars, pc, answer>>
      PROVE  HoldMoves(v)
  BY <1>4, SameGoesOn, GoingOn DEF SameThread, reqVars, loopVars
<1>5. QED
  BY <1>1, <1>2, <1>3, <1>4
  DEF Next, Crash, HytradeNoWares, UploadWareImage, NextDay, vars

\* A thread writes the order it holds: to Temp.db, to a business database.
Writes(w, u, r) ==
    (HytradeAdd(w) \/ ModifyUpdate(w)) /\ Holds(w, u, r) /\ pc'[w] = "reply"
Sells(w, u, r) ==
    /\ StockOutAdd(w) /\ Holds(w, u, r)
    /\ pc'[w] = "outDelete" /\ no'[w] = r

LEMMA ContinueWrites ==
    ASSUME TypeInv, NEW w \in Workers, Continue(w), NEW u, NEW r \in Receipts,
           InTemp(u, r)'
    PROVE  InTemp(u, r) \/ Writes(w, u, r)
<1> USE DEF TypeInv, TypeOK, HandlerTypeOK, DbTypeOK
<1>1. ASSUME temp'[r] = temp[r]
      PROVE  InTemp(u, r)
  BY <1>1 DEF InTemp
<1>2. CASE HytradeAdd(w)
  <2>1. CASE temp' = [temp EXCEPT ![no[w]] = orderEntity[w]] /\ Finish(w, "SUCCESS")
    <3>1. pc[w] = "hytradeAdd" /\ pc'[w] = "reply"
      BY <1>2, <2>1 DEF HytradeAdd, At, Finish
    <3>2. CASE r = no[w]
      BY <1>2, <2>1, <3>1, <3>2 DEF InTemp, Writes, Holds, OrderPoints
    <3>3. CASE r # no[w]
      BY <1>1, <2>1, <3>3
    <3>4. QED
      BY <3>2, <3>3
  <2>2. QED
    BY <1>1, <1>2, <2>1 DEF HytradeAdd
<1>3. CASE ModifyUpdate(w)
  <2>1. pc[w] = "modifyUpdate" /\ pc'[w] = "reply"
    BY <1>3 DEF ModifyUpdate, At, Finish
  <2>2. CASE r = no[w] /\ temp[r] # NoRow
    BY <1>3, <2>1, <2>2 DEF ModifyUpdate, InTemp, Writes, Holds, OrderPoints
  <2>3. CASE ~(r = no[w] /\ temp[r] # NoRow)
    <3>1. temp'[r] = temp[r]
      BY <1>3, <2>3 DEF ModifyUpdate
    <3>2. QED
      BY <1>1, <3>1
  <2>4. QED
    BY <2>2, <2>3
<1>4. CASE StockOutDelete(w)
  BY <1>1, <1>4 DEF StockOutDelete, InTemp
<1>5. QED
  BY <1>1, <1>2, <1>3, <1>4
  DEF Continue, HytradeLine, StockOutLine, StockOutUpdateList, StockOutAdd,
      EditWareUpdate, SqlError, Reply, dbVars

LEMMA StepWrites ==
    ASSUME TypeInv, [Next]_vars, NEW u, NEW r \in Receipts, InTemp(u, r)'
    PROVE  InTemp(u, r) \/ \E w \in Workers : Continue(w) /\ Writes(w, u, r)
<1>1. ASSUME temp'[r] = temp[r]
      PROVE  InTemp(u, r)
  BY <1>1 DEF InTemp
<1>2. ASSUME NEW w \in Workers, NEW q \in Receipts, VoidOrder(w, q)
      PROVE  InTemp(u, r)
  BY <1>1, <1>2 DEF VoidOrder, InTemp, TypeInv, TypeOK, DbTypeOK
<1>3. ASSUME NEW w \in Workers, Request(w)
      PROVE  InTemp(u, r)
  BY <1>1, <1>2, <1>3
  DEF Request, HytradeInfo, StockOutFind, ModifyFind, AddWare, EditWareFind,
      HytradeNoWares, Restart, dbVars
<1>4. ASSUME NEW w \in Workers, Continue(w)
      PROVE  InTemp(u, r) \/ Writes(w, u, r)
  BY <1>4, ContinueWrites
<1>5. QED
  BY <1>1, <1>3, <1>4
  DEF Next, Crash, Restart, UploadWareImage, NextDay, vars, dbVars

LEMMA StepSells ==
    ASSUME TypeInv, [Next]_vars, NEW u, NEW r \in Receipts, Sold(u, r)'
    PROVE  Sold(u, r) \/ \E w \in Workers : Continue(w) /\ Sells(w, u, r)
<1> USE DEF TypeInv, TypeOK, HandlerTypeOK, DbTypeOK
<1>1. ASSUME UNCHANGED business
      PROVE  Sold(u, r)
  BY <1>1 DEF Sold
<1>2. ASSUME NEW w \in Workers, Continue(w)
      PROVE  Sold(u, r) \/ Sells(w, u, r)
  <2>1. CASE /\ StockOutAdd(w)
             /\ business[orderEntity[w].day][no[w]] = NoRow
             /\ business' = [business EXCEPT
                                ![orderEntity[w].day][no[w]] = orderEntity[w]]
             /\ pc' = [pc EXCEPT ![w] = "outDelete"]
    <3>1. pc[w] = "outAdd" /\ pc'[w] = "outDelete" /\ no' = no
      BY <2>1 DEF StockOutAdd, At, reqVars
    <3>2. PICK d \in Days : business'[d][r] # NoRow /\ business'[d][r].uuid = u
      BY DEF Sold
    <3>3. CASE business'[d][r] = business[d][r]
      BY <3>2, <3>3 DEF Sold
    <3>4. CASE business'[d][r] # business[d][r]
      <4>1. r = no[w] /\ business'[d][r] = orderEntity[w]
        BY <2>1, <3>4
      <4>2. QED
        BY <2>1, <3>1, <3>2, <4>1 DEF Sells, Holds, OrderPoints, OutPoints
    <3>5. QED
      BY <3>3, <3>4
  <2>2. QED
    BY <1>1, <1>2, <2>1, ContinueSales DEF StockOutAdd
<1>3. ASSUME NEW w \in Workers, Request(w)
      PROVE  Sold(u, r)
  BY <1>1, <1>3, RequestKeepsSales
<1>4. QED
  BY <1>1, <1>2, <1>3
  DEF Next, Crash, Restart, UploadWareImage, NextDay, vars, dbVars

\* Only a request to place an order takes a uuid.
LEMMA StepUuid ==
    ASSUME TypeInv, [Next]_vars
    PROVE  /\ nextUuid \in Nat
           /\ \/ nextUuid' = nextUuid
              \/ /\ nextUuid' = nextUuid + 1
                 /\ \E w \in Workers, r \in Receipts, lines \in OrderWares :
                        HytradeInfo(w, r, lines) /\ Request(w) /\ ~HytradeNoWares(w)
<1>1. nextUuid \in Nat
  BY DEF TypeInv, TypeOK, ProcTypeOK
<1>2. ASSUME NEW w \in Workers, NEW r \in Receipts, NEW lines \in OrderWares,
             HytradeInfo(w, r, lines)
      PROVE  /\ nextUuid' = nextUuid + 1
             /\ Request(w) /\ ~HytradeNoWares(w)
  <2>1. pc'[w] = "hytradeLine" /\ nextUuid' = nextUuid + 1
    BY <1>2 DEF HytradeInfo, Accept, TypeInv, TypeOK, HandlerTypeOK
  <2>2. QED
    BY <1>2, <2>1 DEF Request, HytradeNoWares, Restart
<1>3. ASSUME NEW w \in Workers, Request(w),
             ~\E r \in Receipts, lines \in OrderWares : HytradeInfo(w, r, lines)
      PROVE  nextUuid' = nextUuid
  BY <1>3
  DEF Request, StockOutFind, ModifyFind, VoidOrder, AddWare, EditWareFind,
      HytradeNoWares, Restart, procVars
<1>4. ASSUME NEW w \in Workers, Continue(w)
      PROVE  nextUuid' = nextUuid
  BY <1>4
  DEF Continue, HytradeLine, HytradeAdd, StockOutLine, StockOutUpdateList,
      StockOutAdd, StockOutDelete, ModifyUpdate, EditWareUpdate, SqlError,
      Reply, procVars
<1>5. QED
  BY <1>1, <1>2, <1>3, <1>4
  DEF Next, Crash, Restart, UploadWareImage, NextDay, vars, procVars

\* An order stays under its receipt; a new one is nowhere yet.
LEMMA UnderStays ==
    ASSUME TypeInv, [Next]_vars, NEW u, NEW r \in Receipts, Under(u, r)'
    PROVE  Under(u, r) \/ \E w \in Workers : Creates(w, u, r)
<1>1. CASE InTemp(u, r)'
  BY <1>1, StepWrites DEF Writes, Under
<1>2. CASE Sold(u, r)'
  BY <1>2, StepSells DEF Sells, Under
<1>3. ASSUME NEW w \in Workers, Holds(w, u, r)'
      PROVE  Under(u, r) \/ Creates(w, u, r)
  BY <1>3, StepHolds DEF HoldMoves, Finds, Under
<1>4. QED
  BY <1>1, <1>2, <1>3 DEF Under

\* One request is served in a step.
LEMMA OneCreates ==
    ASSUME TypeInv, NEW w \in Workers, NEW v \in Workers, NEW r \in Receipts,
           NEW s \in Receipts, NEW u, NEW t, Creates(w, u, r), Creates(v, t, s)
    PROVE  w = v /\ r = s /\ u = t /\ u = nextUuid /\ nextUuid' = nextUuid + 1
<1> USE DEF Creates, HytradeInfo, Accept, TypeInv, TypeOK, HandlerTypeOK
<1>1. pc[w] = "idle" /\ pc'[w] = "hytradeLine" /\ no'[w] = r
  OBVIOUS
<1>2. pc[v] = "idle" /\ no'[v] = s /\ \A x \in Workers \ {v} : pc'[x] = pc[x]
  OBVIOUS
<1>3. w = v
  BY <1>1, <1>2
<1>4. u = nextUuid /\ t = nextUuid /\ nextUuid' = nextUuid + 1
  OBVIOUS
<1>5. QED
  BY <1>1, <1>2, <1>3, <1>4

LEMMA NextOneReceipt ==
    ASSUME TypeInv, OneReceipt, [Next]_vars
    PROVE  OneReceipt'
<1>1. nextUuid \in Nat /\ nextUuid' \in {nextUuid, nextUuid + 1}
  BY StepUuid
<1>2. ASSUME NEW u, NEW r \in Receipts, Under(u, r)'
      PROVE  u \in 0 .. nextUuid' - 1
  <2>1. CASE Under(u, r)
    <3>1. u \in 0 .. nextUuid - 1
      BY <2>1 DEF OneReceipt
    <3>2. CASE nextUuid' = nextUuid
      BY <3>1, <3>2
    <3>3. CASE nextUuid' = nextUuid + 1
      BY <1>1, <3>1, <3>3
    <3>4. QED
      BY <1>1, <3>2, <3>3
  <2>2. CASE \E w \in Workers : Creates(w, u, r)
    BY <1>1, <2>2, OneCreates
  <2>3. QED
    BY <1>2, <2>1, <2>2, UnderStays
<1>3. ASSUME NEW u, NEW r \in Receipts, NEW s \in Receipts,
             Under(u, r)', Under(u, s)'
      PROVE  r = s
  <2>1. CASE Under(u, r) /\ Under(u, s)
    BY <2>1 DEF OneReceipt
  <2>2. ASSUME NEW q \in Receipts, Under(u, q), \E w \in Workers : Creates(w, u, r) \/ Creates(w, u, s)
        PROVE  FALSE
    <3>1. u = nextUuid /\ u \in 0 .. nextUuid - 1
      BY <2>2 DEF Creates, OneReceipt
    <3>2. QED
      BY <1>1, <3>1
  <2>3. CASE /\ \E w \in Workers : Creates(w, u, r)
             /\ \E w \in Workers : Creates(w, u, s)
    BY <2>3, OneCreates
  <2>4. QED
    BY <1>3, <2>1, <2>2, <2>3, UnderStays
<1>4. QED
  BY <1>2, <1>3 DEF OneReceipt

LEMMA NextPlacedOnce ==
    ASSUME TypeInv, UuidInv, [Next]_vars, NEW w \in Workers
    PROVE  PlacedOnce(w)'
<1> SUFFICES ASSUME pc'[w] \in NewPoints, NEW r \in Receipts,
                    NEW u, u = orderEntity'[w].uuid
             PROVE  /\ ~InTemp(u, r)' /\ ~Sold(u, r)'
                    /\ \A v \in Workers \ {w} : ~Holds(v, u, r)'
  BY DEF PlacedOnce, NewPoints, InTemp, Sold, Holds
<1>1. PICK q \in Receipts : Holds(w, u, q)'
  <2>1. TypeInv'
    BY NextTypeInv
  <2>2. pc'[w] \in OrderPoints
    BY DEF NewPoints, OrderPoints
  <2>3. QED
    BY <2>1, <2>2 DEF TypeInv, TypeOK, ControlOK, Holds
<1>2. \/ Holds(w, u, q) /\ GoesOn(w)
      \/ Creates(w, u, q)
  BY <1>1, StepHolds DEF HoldMoves, Finds, NewPoints
<1>3. CASE Holds(w, u, q) /\ GoesOn(w)
  <2>1. pc[w] \in NewPoints /\ orderEntity[w].uuid = u
    BY <1>3 DEF GoesOn, Holds, OrderPoints, NewPoints
  <2>2. \A s \in Receipts : /\ ~InTemp(u, s) /\ ~Sold(u, s)
                            /\ \A v \in Workers \ {w} : ~Holds(v, u, s)
    BY <2>1 DEF UuidInv, PlacedOnce, NewPoints
  <2>3. \A v \in Workers : ~Creates(v, u, r)
    <3>1. u \in 0 .. nextUuid - 1 /\ nextUuid \in Nat
      BY <1>1, <1>3, StepUuid DEF UuidInv, OneReceipt, Under
    <3>2. QED
      BY <3>1 DEF Creates
  <2>4. ~InTemp(u, r)' /\ ~Sold(u, r)'
    <3>1. pc'[w] # "reply" /\ pc'[w] # "outDelete"
      BY DEF NewPoints
    <3>2. QED
      BY <2>2, <3>1, StepWrites, StepSells DEF Writes, Sells
  <2>5. \A v \in Workers \ {w} : ~Holds(v, u, r)'
    BY <2>2, <2>3, StepHolds DEF HoldMoves, Finds
  <2>6. QED
    BY <2>4, <2>5
<1>4. CASE Creates(w, u, q)
  <2>1. u = nextUuid /\ nextUuid \in Nat
    BY <1>4, StepUuid DEF Creates
  <2>2. ~Under(u, r)
    BY <2>1 DEF UuidInv, OneReceipt
  <2>3. ~InTemp(u, r)' /\ ~Sold(u, r)'
    BY <2>2, StepWrites, StepSells DEF Writes, Sells, Under
  <2>4. \A v \in Workers \ {w} : ~Holds(v, u, r)'
    BY <1>1, <1>4, <2>2, OneCreates, StepHolds DEF HoldMoves, Finds, Under
  <2>5. QED
    BY <2>3, <2>4
<1>5. QED
  BY <1>2, <1>3, <1>4

LEMMA NextUuidInv ==
    ASSUME TypeInv, UuidInv, [Next]_vars
    PROVE  UuidInv'
  BY NextOneReceipt, NextPlacedOnce DEF UuidInv

-----------------------------------------------------------------------------
(* What a step may do to the list of orders to prepare.                    *)

OrderLeaves(u, r) ==
    InTemp(u, r) /\ ~InTemp(u, r)'
        => \/ u \in voided'
           \/ Sold(u, r)
           \/ \E w \in Workers : WritesForAnother(w, u, r)

OrderComes(u, r) ==
    ~InTemp(u, r) /\ InTemp(u, r)'
        => \E w \in Workers :
            /\ no[w] = r /\ temp'[r] = orderEntity[w]
            /\ \/ /\ At(w, "hytradeAdd") /\ temp[r] = NoRow
                  /\ u \notin voided /\ ~Sold(u, r)
               \/ At(w, "modifyUpdate") /\ temp[r] # NoRow

LEMMA SameTemp ==
    ASSUME NEW u, NEW r, temp'[r] = temp[r]
    PROVE  OrderLeaves(u, r) /\ OrderComes(u, r)
BY DEF OrderLeaves, OrderComes, InTemp

\* An order that is being placed was not voided either.
VoidedInv ==
    \A u \in voided :
        /\ u \in 0 .. nextUuid - 1
        /\ \A w \in Workers : pc[w] \in NewPoints => orderEntity[w].uuid # u

\* The delete that ends a stock-out has its order sold; the row it deletes may
\* be another one's.
LEMMA DeleteOnTemp ==
    ASSUME SafetyInv, NEW w \in Workers, StockOutDelete(w), NEW u,
           NEW r \in Receipts
    PROVE  OrderLeaves(u, r) /\ OrderComes(u, r)
<1> USE DEF SafetyInv, TypeInv, TypeOK, DbTypeOK, HandlerTypeOK
<1>1. /\ temp' = [temp EXCEPT ![no[w]] = NoRow]
      /\ pc[w] = "outDelete" /\ pc'[w] = "reply" /\ answer'[w] = "SUCCESS"
  BY DEF StockOutDelete, At, Finish
<1>2. OrderComes(u, r)
  BY <1>1 DEF OrderComes, InTemp
<1>3. ASSUME InTemp(u, r), ~InTemp(u, r)', orderEntity[w].uuid = u
      PROVE  Sold(u, r)
  <2>1. no[w] = r
    BY <1>1, <1>3 DEF InTemp
  <2>2. /\ orderEntity[w].day \in Days /\ orderEntity[w] # NoRow
        /\ business[orderEntity[w].day][r] = orderEntity[w]
    BY <1>1, <2>1, NoRowAssumption DEF ThreadInv, SaleInv, At, Order
  <2>3. QED
    BY <1>3, <2>2 DEF Sold
<1>4. ASSUME InTemp(u, r), ~InTemp(u, r)', orderEntity[w].uuid # u
      PROVE  WritesForAnother(w, u, r)
  BY <1>1, <1>4 DEF InTemp, WritesForAnother
<1>5. QED
  BY <1>2, <1>3, <1>4 DEF OrderLeaves

\* The write of a modification, over its own order or another's.
LEMMA UpdateOnTemp ==
    ASSUME SafetyInv, NEW w \in Workers, ModifyUpdate(w), NEW u,
           NEW r \in Receipts
    PROVE  OrderLeaves(u, r) /\ OrderComes(u, r)
<1> USE DEF SafetyInv, TypeInv, TypeOK, DbTypeOK, HandlerTypeOK
<1>1. /\ temp' = [temp EXCEPT ![no[w]] = IF @ = NoRow THEN NoRow ELSE orderEntity[w]]
      /\ pc[w] = "modifyUpdate" /\ pc'[w] = "reply" /\ answer'[w] = "SUCCESS"
  BY DEF ModifyUpdate, At, Finish
<1>2. orderEntity[w] # NoRow
  BY <1>1 DEF ControlOK, OrderPoints
<1>3. CASE no[w] = r /\ temp[r] # NoRow
  <2>1. temp'[r] = orderEntity[w]
    BY <1>1, <1>3
  <2>2. OrderComes(u, r)
    BY <1>1, <1>3, <2>1 DEF OrderComes, At
  <2>3. OrderLeaves(u, r)
    BY <1>1, <1>2, <1>3, <2>1 DEF OrderLeaves, InTemp, WritesForAnother
  <2>4. QED
    BY <2>2, <2>3
<1>4. CASE ~(no[w] = r /\ temp[r] # NoRow)
  <2>1. temp'[r] = temp[r]
    BY <1>1, <1>4
  <2>2. QED
    BY <2>1, SameTemp
<1>5. QED
  BY <1>3, <1>4

\* The insert of a placement, of an order that is new.
LEMMA PlacementOnTemp ==
    ASSUME SafetyInv, UuidInv, VoidedInv, NEW w \in Workers, HytradeAdd(w),
           NEW u, NEW r \in Receipts
    PROVE  OrderLeaves(u, r) /\ OrderComes(u, r)
<1> USE DEF SafetyInv, TypeInv, TypeOK, DbTypeOK, HandlerTypeOK
<1>1. pc[w] = "hytradeAdd"
  BY DEF HytradeAdd, At
<1>2. CASE /\ no[w] = r /\ temp[r] = NoRow
           /\ temp' = [temp EXCEPT ![r] = orderEntity[w]]
  <2>1. temp'[r] = orderEntity[w] /\ orderEntity[w] # NoRow
    BY <1>1, <1>2 DEF ControlOK, OrderPoints
  <2>2. OrderLeaves(u, r)
    BY <1>2 DEF OrderLeaves, InTemp
  <2>3. ASSUME InTemp(u, r)'
        PROVE  u \notin voided /\ ~Sold(u, r)
    <3>1. orderEntity[w].uuid = u
      BY <2>1, <2>3 DEF InTemp
    <3>2. QED
      BY <1>1, <3>1 DEF UuidInv, PlacedOnce, VoidedInv, NewPoints
  <2>4. OrderComes(u, r)
    BY <1>1, <1>2, <2>1, <2>3 DEF OrderComes, At
  <2>5. QED
    BY <2>2, <2>4
<1>3. CASE ~(/\ no[w] = r /\ temp[r] = NoRow
             /\ temp' = [temp EXCEPT ![r] = orderEntity[w]])
  <2>1. temp'[r] = temp[r]
    BY <1>3 DEF HytradeAdd
  <2>2. QED
    BY <2>1, SameTemp
<1>4. QED
  BY <1>2, <1>3

LEMMA RequestOnTemp ==
    ASSUME SafetyInv, NEW w \in Workers, Request(w), NEW u, NEW r \in Receipts
    PROVE  OrderLeaves(u, r) /\ OrderComes(u, r)
<1>1. ASSUME NEW q \in Receipts, VoidOrder(w, q)
      PROVE  OrderLeaves(u, r) /\ OrderComes(u, r)
  <2>1. CASE temp' = temp
    BY <2>1, SameTemp
  <2>2. CASE /\ temp' = [temp EXCEPT ![q] = NoRow]
             /\ voided' = IF temp[q] = NoRow THEN voided
                          ELSE voided \cup {temp[q].uuid}
    BY <2>2
    DEF OrderLeaves, OrderComes, InTemp, SafetyInv, TypeInv, TypeOK, DbTypeOK
  <2>3. QED
    BY <1>1, <2>1, <2>2 DEF VoidOrder
<1>2. QED
  BY <1>1, SameTemp
  DEF Request, HytradeInfo, StockOutFind, ModifyFind, AddWare, EditWareFind,
      HytradeNoWares, Restart, dbVars

LEMMA StepOnTemp ==
    ASSUME SafetyInv, UuidInv, VoidedInv, [Next]_vars, NEW u, NEW r \in Receipts
    PROVE  OrderLeaves(u, r) /\ OrderComes(u, r)
<1>1. ASSUME NEW w \in Workers, Continue(w)
      PROVE  OrderLeaves(u, r) /\ OrderComes(u, r)
  BY <1>1, SameTemp, DeleteOnTemp, UpdateOnTemp, PlacementOnTemp
  DEF Continue, HytradeLine, StockOutLine, StockOutUpdateList, StockOutAdd,
      EditWareUpdate, SqlError, Reply, dbVars
<1>2. QED
  BY <1>1, SameTemp, RequestOnTemp
  DEF Next, UploadWareImage, Crash, Restart, NextDay, vars, dbVars

-----------------------------------------------------------------------------
(* When an order that was sold leaves Temp.db, and one that was voided is    *)
(* not sold.                                                                *)

\* The delete that ends a stock-out neither fails nor is cut short.
DeleteGoesThrough ==
    \A w \in Workers :
        At(w, "outDelete") /\ ~At(w, "outDelete")' => temp'[no[w]] = NoRow

\* A modification does not write over an order placed since it read its own.
NoStaleUpdate ==
    \A w \in Workers :
        ModifyUpdate(w) => \/ temp[no[w]] = NoRow
                           \/ temp[no[w]].uuid = orderEntity[w].uuid

\* An order is not voided while a thread stocks its receipt out.
VoidsAlone ==
    \A w \in Workers, r \in Receipts :
        VoidOrder(w, r) /\ temp'[r] # temp[r]
            => \A v \in Workers : pc[v] \in OutPoints => no[v] # r

LEMMA InitSoldLeavesTemp == Init => SoldLeavesTemp
  BY DEF Init, SoldLeavesTemp

\* What a write puts into Temp.db was there already, unless it is being
\* placed.
LEMMA WriteOfItsOwn ==
    ASSUME TypeInv, NoStaleUpdate, NEW w \in Workers, NEW u,
           NEW r \in Receipts, Writes(w, u, r), InTemp(u, r)'
    PROVE  InTemp(u, r) \/ (HytradeAdd(w) /\ At(w, "hytradeAdd"))
<1>1. CASE HytradeAdd(w)
  BY <1>1 DEF HytradeAdd
<1>2. CASE ModifyUpdate(w)
  <2>1. no[w] = r /\ orderEntity[w].uuid = u
    BY DEF Writes, Holds
  <2>2. temp[r] # NoRow
    BY <1>2, <2>1 DEF ModifyUpdate, InTemp, TypeInv, TypeOK, DbTypeOK
  <2>3. QED
    BY <1>2, <2>1, <2>2 DEF NoStaleUpdate, InTemp
<1>3. QED
  BY <1>1, <1>2 DEF Writes

\* A thread that is about to delete an order stays until it has.
LEMMA DeleterStays ==
    ASSUME TypeInv, [Next]_vars, NEW w \in Workers, At(w, "outDelete"),
           pc'[w] = "outDelete"
    PROVE  no'[w] = no[w]
<1>1. TypeInv'
  BY NextTypeInv
<1>2. pc'[w] \in OrderPoints
  BY DEF OrderPoints, OutPoints
<1> DEFINE uuid == orderEntity'[w].uuid
<1>3. PICK q \in Receipts :
        pc'[w] \in OrderPoints /\ no'[w] = q /\ orderEntity'[w].uuid = uuid
  BY <1>1, <1>2 DEF TypeInv, TypeOK, ControlOK
<1> HIDE DEF uuid
<1>4. Holds(w, uuid, q)
  BY <1>3, StepHolds
  DEF Holds, HoldMoves, Finds, Creates, HytradeInfo, Accept, At
<1>5. QED
  BY <1>3, <1>4 DEF Holds

LEMMA NextSoldLeavesTemp ==
    ASSUME TypeInv, UuidInv, SoldLeavesTemp, DeleteGoesThrough, NoStaleUpdate,
           [Next]_vars
    PROVE  SoldLeavesTemp'
<1> SUFFICES ASSUME NEW r \in Receipts, NEW u, InTemp(u, r)', Sold(u, r)'
             PROVE  \E w \in Workers : pc'[w] = "outDelete" /\ no'[w] = r
  BY DEF SoldLeavesTemp, InTemp, Sold, At
<1>1. CASE \E w \in Workers : Sells(w, u, r)
  BY <1>1 DEF Sells
<1>2. CASE Sold(u, r) /\ InTemp(u, r)
  <2>1. PICK w \in Workers : At(w, "outDelete") /\ no[w] = r
    BY <1>2 DEF SoldLeavesTemp, InTemp, Sold
  <2>2. pc'[w] = "outDelete"
    BY <2>1 DEF DeleteGoesThrough, At, InTemp
  <2>3. QED
    BY <2>1, <2>2, DeleterStays
<1>3. ASSUME Sold(u, r), NEW w \in Workers, Writes(w, u, r)
      PROVE  InTemp(u, r)
  BY <1>3, WriteOfItsOwn DEF Writes, Holds, At, UuidInv, PlacedOnce
<1>4. QED
  BY <1>1, <1>2, <1>3, StepWrites, StepSells

\* The order of a stock-out leaves Temp.db with it: an order and the sale of
\* it are in two databases at once only while a thread is about to delete the
\* one, for any number of threads, failures of other calls included, as long
\* as the delete goes through and no modification writes over a later order
\* (ModifyStockOrderRouter.cpp:184-196,212-245).  A client that places, sells
\* and places a receipt again gets a new uuid, hence another order.
THEOREM SoldOrdersLeaveTemp ==
    Spec /\ [][DeleteGoesThrough /\ NoStaleUpdate]_vars => []SoldLeavesTemp
<1>1. Init => TypeInv /\ UuidInv /\ SoldLeavesTemp
  BY InitTypeInv, InitUuid, InitSoldLeavesTemp
<1>2. TypeInv /\ UuidInv /\ [Next]_vars => (TypeInv /\ UuidInv)'
  BY NextTypeInv, NextUuidInv
<1>3. TypeInv /\ UuidInv /\ SoldLeavesTemp /\ [Next]_vars
        /\ [DeleteGoesThrough /\ NoStaleUpdate]_vars
        => SoldLeavesTemp'
  <2>1. UNCHANGED vars /\ SoldLeavesTemp => SoldLeavesTemp'
    BY DEF vars, dbVars, reqVars, SoldLeavesTemp, At
  <2>2. QED
    BY <2>1, NextSoldLeavesTemp
<1>4. QED
  BY <1>1, <1>2, <1>3, PTL DEF Spec

\* A voided order is in no database and in the hands of no thread that could
\* write it to one.
GoneInv ==
    \A u \in voided :
        /\ u \in 0 .. nextUuid - 1
        /\ \A r \in Receipts :
            /\ ~InTemp(u, r) /\ ~Sold(u, r)
            /\ \A w \in Workers : Holds(w, u, r) => pc[w] = "modifyUpdate"

LEMMA InitGone == Init => GoneInv
  BY DEF Init, GoneInv

\* An order is voided by the request that removes it.
LEMMA StepVoids ==
    ASSUME TypeInv, [Next]_vars, NEW u \in voided'
    PROVE  \/ u \in voided
           \/ \E w \in Workers, r \in Receipts :
                /\ Request(w) /\ ~HytradeNoWares(w) /\ VoidOrder(w, r)
                /\ InTemp(u, r) /\ temp' = [temp EXCEPT ![r] = NoRow]
                /\ pc'[w] = "reply" /\ nextUuid' = nextUuid
<1>1. ASSUME NEW w \in Workers, NEW r \in Receipts, VoidOrder(w, r),
             u \notin voided
      PROVE  /\ Request(w) /\ ~HytradeNoWares(w) /\ VoidOrder(w, r)
             /\ InTemp(u, r) /\ temp' = [temp EXCEPT ![r] = NoRow]
             /\ pc'[w] = "reply" /\ nextUuid' = nextUuid
  <2>1. /\ temp' = [temp EXCEPT ![r] = NoRow] /\ InTemp(u, r)
    BY <1>1 DEF VoidOrder, InTemp
  <2>2. pc'[w] = "reply" /\ nextUuid' = nextUuid
    BY <1>1 DEF VoidOrder, Accept, procVars, TypeInv, TypeOK, HandlerTypeOK
  <2>3. QED
    BY <1>1, <2>1, <2>2 DEF Request, HytradeNoWares, Restart
<1>2. ASSUME NEW w \in Workers, Request(w),
             ~\E r \in Receipts : VoidOrder(w, r)
      PROVE  voided' = voided
  BY <1>2
  DEF Request, HytradeInfo, StockOutFind, ModifyFind, AddWare, EditWareFind,
      HytradeNoWares, Restart, ghostVars
<1>3. ASSUME NEW w \in Workers, Continue(w)
      PROVE  voided' = voided
  BY <1>3
  DEF Continue, HytradeLine, HytradeAdd, StockOutLine, StockOutUpdateList,
      StockOutAdd, StockOutDelete, ModifyUpdate, EditWareUpdate, SqlError,
      Reply, ghostVars
<1>4. QED
  BY <1>1, <1>2, <1>3
  DEF Next, Crash, Restart, UploadWareImage, NextDay, vars, ghostVars

LEMMA InitVoided == Init => VoidedInv
  BY DEF Init, VoidedInv

\* An order is voided where it stands in Temp.db, so it is not being placed,
\* and no later one has its uuid.
LEMMA NextVoided ==
    ASSUME TypeInv, UuidInv, VoidedInv, [Next]_vars
    PROVE  VoidedInv'
<1> SUFFICES ASSUME NEW u \in voided'
             PROVE  /\ u \in 0 .. nextUuid' - 1
                    /\ \A w \in Workers : pc'[w] \in NewPoints
                                            => orderEntity'[w].uuid # u
  BY DEF VoidedInv
<1>1. nextUuid \in Nat /\ nextUuid' \in {nextUuid, nextUuid + 1}
  BY StepUuid
<1>2. /\ u \in 0 .. nextUuid - 1
      /\ \A w \in Workers : pc[w] \in NewPoints => orderEntity[w].uuid # u
  <2>1. CASE u \in voided
    BY <2>1 DEF VoidedInv
  <2>2. ASSUME NEW r \in Receipts, InTemp(u, r)
        PROVE  /\ u \in 0 .. nextUuid - 1
               /\ \A w \in Workers : pc[w] \in NewPoints => orderEntity[w].uuid # u
    BY <2>2 DEF UuidInv, OneReceipt, PlacedOnce, Under, NewPoints
  <2>3. QED
    BY <2>1, <2>2, StepVoids
<1>3. u \in 0 .. nextUuid' - 1
  <2>1. CASE nextUuid' = nextUuid
    BY <1>2, <2>1
  <2>2. CASE nextUuid' = nextUuid + 1
    BY <1>1, <1>2, <2>2
  <2>3. QED
    BY <1>1, <2>1, <2>2
<1>4. ASSUME NEW w \in Workers, pc'[w] \in NewPoints, orderEntity'[w].uuid = u
      PROVE  FALSE
  <2>1. pc'[w] \in OrderPoints
    BY <1>4 DEF NewPoints, OrderPoints
  <2>2. PICK q \in Receipts : Holds(w, u, q)'
    BY <1>4, <2>1, NextTypeInv DEF TypeInv, TypeOK, ControlOK, Holds
  <2>3. CASE Holds(w, u, q) /\ GoesOn(w)
    BY <1>2, <1>4, <2>1, <2>3 DEF GoesOn, Holds
  <2>4. CASE Finds(w, u, q)
    BY <1>4, <2>4 DEF Finds, NewPoints
  <2>5. CASE Creates(w, u, q)
    BY <1>1, <1>2, <2>5 DEF Creates
  <2>6. QED
    BY <2>2, <2>3, <2>4, <2>5, StepHolds DEF HoldMoves
<1>5. QED
  BY <1>3, <1>4

TempInv == SafetyInv /\ UuidInv /\ VoidedInv

LEMMA TempInvHolds == Spec => []TempInv
<1>1. Init => TempInv
  BY InitSafetyInv, InitUuid, InitVoided DEF TempInv
<1>2. TempInv /\ [Next]_vars => TempInv'
  BY NextSafetyInv, NextUuidInv, NextVoided DEF TempInv, SafetyInv
<1>3. QED
  BY <1>1, <1>2, PTL DEF Spec

\* No error path, no crash and no late modification loses an order that was
\* placed: it leaves Temp.db by its own void or after its own sale.  Only a
\* thread that read an earlier order of the receipt may take it away, since
\* DeleteById and UpdateById name the receipt
\* (ModifyStockOrderRouter.cpp:196,245).
THEOREM OrdersAreKept == Spec => NoOrderLost
<1>1. TempInv /\ [Next]_vars
        => [\A u \in Uuids, r \in Receipts : OrderLeaves(u, r)]_vars
  BY StepOnTemp DEF TempInv
<1>2. QED
  BY <1>1, TempInvHolds, PTL DEF Spec, NoOrderLost, OrderLeaves

\* Operate 2 writes with UpdateById, so an order voided or stocked out after
\* it was read does not come back, unless the receipt was placed again and has
\* a row to write over; what a placement inserts was never voided or sold.
THEOREM OrdersStayClosed == Spec => NoOrderComesBack
<1>1. TempInv /\ [Next]_vars
        => [\A u \in Uuids, r \in Receipts : OrderComes(u, r)]_vars
  BY StepOnTemp DEF TempInv
<1>2. QED
  BY <1>1, TempInvHolds, PTL DEF Spec, NoOrderComesBack, OrderComes

\* The overwriting of placed_again.cfg is the only way for a voided order to
\* come back to Temp.db: as long as no modification writes over an order
\* placed since it read its own, none does.
THEOREM VoidedOrdersStayGone ==
    Spec /\ [][NoStaleUpdate]_vars => []VoidedStaysGone
<1> DEFINE Gone == \A u \in voided : \A r \in Receipts : ~InTemp(u, r)
<1>1. Init => Gone
  BY DEF Init
<1>2. ASSUME TempInv, Gone, [Next]_vars, [NoStaleUpdate]_vars
      PROVE  Gone'
  <2>1. CASE UNCHANGED vars
    BY <1>2, <2>1 DEF vars, dbVars, ghostVars, InTemp
  <2>2. CASE NoStaleUpdate
    <3> SUFFICES ASSUME NEW u \in voided', NEW r \in Receipts, InTemp(u, r)'
                 PROVE  FALSE
      OBVIOUS
    <3>1. TypeInv
      BY <1>2 DEF TempInv, SafetyInv
    <3>2. CASE u \in voided
      <4>1. PICK w \in Workers : Writes(w, u, r)
        BY <1>2, <3>1, <3>2, StepWrites
      <4>2. HytradeAdd(w) /\ At(w, "hytradeAdd")
        BY <1>2, <2>2, <3>1, <3>2, <4>1, WriteOfItsOwn
      <4>3. QED
        BY <1>2, <3>2, <4>1, <4>2
        DEF TempInv, VoidedInv, Writes, Holds, At, NewPoints
    <3>3. ASSUME NEW w \in Workers, NEW q \in Receipts, VoidOrder(w, q),
                 InTemp(u, q), temp' = [temp EXCEPT ![q] = NoRow]
          PROVE  FALSE
      <4>1. InTemp(u, r) /\ r # q
        BY <3>1, <3>3 DEF InTemp, TypeInv, TypeOK, DbTypeOK
      <4>2. QED
        BY <1>2, <3>3, <4>1 DEF TempInv, UuidInv, OneReceipt, Under
    <3>4. QED
      BY <1>2, <3>1, <3>2, <3>3, StepVoids
  <2>3. QED
    BY <1>2, <2>1, <2>2
<1>3. Gone => VoidedStaysGone
  BY DEF InTemp, VoidedStaysGone
<1> HIDE DEF Gone
<1>4. QED
  BY <1>1, <1>2, <1>3, TempInvHolds, PTL DEF Spec

LEMMA NextGone ==
    ASSUME TypeInv, UuidInv, SoldLeavesTemp, GoneInv, NoStaleUpdate, VoidsAlone,
           [Next]_vars
    PROVE  GoneInv'
<1>1. nextUuid \in Nat /\ nextUuid' \in {nextUuid, nextUuid + 1}
  BY StepUuid
<1>2. ASSUME NEW u \in voided
      PROVE  /\ u \in 0 .. nextUuid' - 1
             /\ \A r \in Receipts :
                 /\ ~InTemp(u, r)' /\ ~Sold(u, r)'
                 /\ \A w \in Workers : Holds(w, u, r)' => pc'[w] = "modifyUpdate"
  <2>1. /\ u \in 0 .. nextUuid - 1
        /\ \A r \in Receipts :
            /\ ~InTemp(u, r) /\ ~Sold(u, r)
            /\ \A w \in Workers : Holds(w, u, r) => pc[w] = "modifyUpdate"
    BY DEF GoneInv
  <2>2. u \in 0 .. nextUuid' - 1
    <3>1. CASE nextUuid' = nextUuid
      BY <2>1, <3>1
    <3>2. CASE nextUuid' = nextUuid + 1
      BY <1>1, <2>1, <3>2
    <3>3. QED
      BY <1>1, <3>1, <3>2
  <2>3. ASSUME NEW r \in Receipts
        PROVE  ~InTemp(u, r)' /\ ~Sold(u, r)'
    BY <2>1, StepWrites, StepSells, WriteOfItsOwn
    DEF Writes, Sells, At, StockOutAdd
  <2>4. ASSUME NEW r \in Receipts, NEW w \in Workers, Holds(w, u, r)'
        PROVE  pc'[w] = "modifyUpdate"
    <3>1. Holds(w, u, r) /\ GoesOn(w)
      BY <1>1, <2>1, <2>4, StepHolds DEF HoldMoves, Finds, Creates
    <3>2. pc[w] = "modifyUpdate"
      BY <2>1, <3>1
    <3>3. QED
      BY <2>4, <3>1, <3>2
      DEF GoesOn, Holds, OrderPoints, OutPoints, NewPoints
  <2>5. QED
    BY <2>2, <2>3, <2>4
<1>3. ASSUME NEW w \in Workers, NEW r \in Receipts, NEW u,
             Request(w), ~HytradeNoWares(w), VoidOrder(w, r), InTemp(u, r),
             temp' = [temp EXCEPT ![r] = NoRow], pc'[w] = "reply",
             nextUuid' = nextUuid
      PROVE  /\ u \in 0 .. nextUuid' - 1
             /\ \A s \in Receipts :
                 /\ ~InTemp(u, s)' /\ ~Sold(u, s)'
                 /\ \A v \in Workers : Holds(v, u, s)' => pc'[v] = "modifyUpdate"
  <2>1. u \in 0 .. nextUuid' - 1
    BY <1>3 DEF UuidInv, OneReceipt, Under
  <2>2. \A s \in Receipts : Under(u, s) => s = r
    BY <1>3 DEF UuidInv, OneReceipt, Under
  <2>3. \A v \in Workers : pc[v] \in OutPoints => no[v] # r
    <3>1. temp'[r] # temp[r]
      BY <1>3 DEF InTemp, TypeInv, TypeOK, DbTypeOK
    <3>2. QED
      BY <1>3, <3>1 DEF VoidsAlone
  <2>4. ASSUME NEW s \in Receipts
        PROVE  ~InTemp(u, s)'
    <3>1. CASE s = r
      BY <1>3, <3>1 DEF InTemp, TypeInv, TypeOK, DbTypeOK
    <3>2. CASE s # r
      <4>1. temp'[s] = temp[s]
        BY <1>3, <3>2
      <4>2. QED
        BY <2>2, <3>2, <4>1 DEF Under, InTemp
    <3>3. QED
      BY <3>1, <3>2
  <2>5. ASSUME NEW s \in Receipts, Sold(u, s)'
        PROVE  FALSE
    <3>1. Sold(u, s)
      BY <1>3, <2>5 DEF VoidOrder, Sold
    <3>2. s = r
      BY <2>2, <3>1 DEF Under
    <3>3. \E v \in Workers : At(v, "outDelete") /\ no[v] = r
      BY <1>3, <3>1, <3>2 DEF SoldLeavesTemp, InTemp, Sold
    <3>4. QED
      BY <2>3, <3>3 DEF At, OutPoints
  <2>6. ASSUME NEW s \in Receipts, NEW v \in Workers, Holds(v, u, s)'
        PROVE  pc'[v] = "modifyUpdate"
    <3>1. v # w
      BY <1>3, <2>6 DEF Holds, OrderPoints, OutPoints
    <3>2. SameThread(v)
      BY <1>3, <3>1, RequestOfOne
    <3>3. Holds(v, u, s) /\ pc'[v] = pc[v]
      BY <2>6, <3>2 DEF Holds, SameThread
    <3>4. s = r
      BY <2>2, <3>3 DEF Under
    <3>5. pc[v] \notin NewPoints
      BY <1>3, <3>3 DEF UuidInv, PlacedOnce, NewPoints, Holds
    <3>6. pc[v] \notin OutPoints
      BY <2>3, <3>3, <3>4 DEF Holds
    <3>7. QED
      BY <3>3, <3>5, <3>6 DEF Holds, OrderPoints, NewPoints
  <2>7. QED
    BY <2>1, <2>4, <2>5, <2>6
<1>4. ASSUME NEW u \in voided'
      PROVE  /\ u \in 0 .. nextUuid' - 1
             /\ \A r \in Receipts :
                 /\ ~InTemp(u, r)' /\ ~Sold(u, r)'
                 /\ \A w \in Workers : Holds(w, u, r)' => pc'[w] = "modifyUpdate"
  BY <1>2, <1>3, StepVoids
<1>5. QED
  BY <1>4 DEF GoneInv

\* The race of void_race.cfg is the only way to sell an order whose void was
\* answered with SUCCESS: as long as no void comes between the first call of a
\* stock-out and its last (ModifyStockOrderRouter.cpp:89-196,260), the delete
\* goes through and no modification writes over a later order, none is sold.
THEOREM VoidedStaysUnsold ==
    Spec /\ [][DeleteGoesThrough /\ NoStaleUpdate]_vars /\ [][VoidsAlone]_vars
        => []VoidedIsNotSold
<1>1. Init => TypeInv /\ UuidInv /\ GoneInv
  BY InitTypeInv, InitUuid, InitGone
<1>2. TypeInv /\ UuidInv /\ [Next]_vars => (TypeInv /\ UuidInv)'
  BY NextTypeInv, NextUuidInv
<1>3. TypeInv /\ UuidInv /\ SoldLeavesTemp /\ GoneInv /\ [Next]_vars
        /\ [DeleteGoesThrough /\ NoStaleUpdate]_vars /\ [VoidsAlone]_vars
        => GoneInv'
  <2>1. UNCHANGED vars /\ GoneInv => GoneInv'
    BY DEF vars, dbVars, procVars, reqVars, ghostVars, GoneInv, InTemp, Sold, Holds
  <2>2. QED
    BY <2>1, NextGone
<1>4. GoneInv => VoidedIsNotSold
  BY DEF GoneInv, VoidedIsNotSold, Sold
<1>5. QED
  BY <1>1, <1>2, <1>3, <1>4, SoldOrdersLeaveTemp, PTL DEF Spec

-----------------------------------------------------------------------------
(* Where no call fails, the process does not die and nobody modifies an      *)
(* order meanwhile, the deletes go through and no update is stale.          *)

NothingFails == ~SqlMayFail /\ ~MayCrash /\ <<>> \notin OrderWares

LEMMA DeletesGoThrough ==
    ASSUME NothingFails, TypeInv, [Next]_vars
    PROVE  DeleteGoesThrough
<1> SUFFICES ASSUME NEW w \in Workers, pc[w] = "outDelete", pc'[w] # "outDelete"
             PROVE  temp'[no[w]] = NoRow
  BY DEF DeleteGoesThrough, At
<1>1. ASSUME NEW v \in Workers, Continue(v)
      PROVE  temp'[no[w]] = NoRow
  <2>1. v = w
    BY <1>1, ContinueOfOne DEF SameThread
  <2>2. StockOutDelete(w)
    BY <1>1, <2>1
    DEF Continue, HytradeLine, HytradeAdd, StockOutLine, StockOutUpdateList,
        StockOutAdd, ModifyUpdate, EditWareUpdate, SqlError, Reply, At,
        NothingFails
  <2>3. no[w] \in Receipts
    BY DEF TypeInv, TypeOK, ControlOK, OrderPoints, OutPoints
  <2>4. QED
    BY <2>2, <2>3 DEF StockOutDelete, TypeInv, TypeOK, DbTypeOK
<1>2. ASSUME NEW v \in Workers, Request(v)
      PROVE  FALSE
  <2>1. ~HytradeNoWares(v)
    BY DEF HytradeNoWares, NothingFails
  <2>2. pc[v] = "idle"
    BY <1>2
    DEF Request, HytradeInfo, StockOutFind, ModifyFind, VoidOrder, AddWare,
        EditWareFind, HytradeNoWares, Accept, At
  <2>3. SameThread(w)
    BY <1>2, <2>1, <2>2, RequestOfOne
  <2>4. QED
    BY <2>3 DEF SameThread
<1>3. QED
  BY <1>1, <1>2
  DEF Next, Crash, UploadWareImage, NextDay, vars, NothingFails


\* An order to modify is read from Temp.db and kept until it is written.
LEMMA ModifyComes ==
    ASSUME TypeInv, [Next]_vars, NEW w \in Workers, pc'[w] = "modifyUpdate"
    PROVE  \/ /\ SameThread(w)
              /\ \/ UNCHANGED temp
                 \/ \E v \in Workers \ {w} : Request(v) \/ Continue(v)
           \/ /\ DetailWares # {} /\ UNCHANGED temp
              /\ no'[w] \in Receipts /\ temp[no'[w]] # NoRow
              /\ orderEntity'[w].uuid = temp[no'[w]].uuid
<1> DEFINE Found == /\ DetailWares # {} /\ UNCHANGED temp
                    /\ no'[w] \in Receipts /\ temp[no'[w]] # NoRow
                    /\ orderEntity'[w].uuid = temp[no'[w]].uuid
<1>1. ASSUME NEW v \in Workers \ {w}, Request(v) \/ Continue(v)
      PROVE  SameThread(w)
  <2>1. ~HytradeNoWares(v)
    BY DEF HytradeNoWares, Restart
  <2>2. QED
    BY <1>1, <2>1, RequestOfOne, ContinueOfOne
<1>2. ASSUME Continue(w)
      PROVE  FALSE
  <2>1. ASSUME NEW code, Finish(w, code)
        PROVE  FALSE
    BY <2>1 DEF Finish, TypeInv, TypeOK, HandlerTypeOK
  <2>2. ASSUME NEW from \in Points, pc[w] = from, from # "modifyUpdate",
               NEW next \in Points, Advance(w, next), next # "modifyUpdate"
        PROVE  FALSE
    BY <2>2 DEF Advance, TypeInv, TypeOK, HandlerTypeOK
  <2>3. ~HytradeLine(w) /\ ~StockOutLine(w)
    BY <2>1, <2>2 DEF HytradeLine, StockOutLine, At, Points
  <2>4. ~StockOutUpdateList(w) /\ ~StockOutAdd(w) /\ ~Reply(w)
    BY <2>1 DEF StockOutUpdateList, StockOutAdd, Reply, TypeInv, TypeOK, HandlerTypeOK
  <2>5. QED
    BY <1>2, <2>1, <2>3, <2>4
    DEF Continue, HytradeAdd, StockOutDelete, ModifyUpdate, EditWareUpdate, SqlError
<1>3. ASSUME NEW r \in Receipts, NEW detail \in DetailWares,
             ModifyFind(w, r, detail)
      PROVE  Found
  <2> DEFINE order == [temp[r] EXCEPT !.wares = MergeDetail(@, detail)]
  <2>1. /\ temp[r] # NoRow /\ no'[w] = r /\ orderEntity'[w] = order
        /\ UNCHANGED temp
    BY <1>3 DEF ModifyFind, Accept, dbVars, TypeInv, TypeOK, HandlerTypeOK
  <2>2. temp[r] \in Order
    BY <2>1 DEF TypeInv, TypeOK, DbTypeOK
  <2>3. order.uuid = temp[r].uuid
    BY <2>2 DEF Order
  <2> HIDE DEF order
  <2>4. QED
    BY <2>1, <2>3
<1>4. ASSUME Request(w)
      PROVE  Found
  <2>1. ~HytradeNoWares(w)
    BY DEF HytradeNoWares, Restart
  <2>2. ASSUME NEW point, pc' = [pc EXCEPT ![w] = point], point # "modifyUpdate"
        PROVE  FALSE
    BY <2>2 DEF TypeInv, TypeOK, HandlerTypeOK
  <2>3. QED
    BY <1>3, <1>4, <2>1, <2>2
    DEF Request, HytradeInfo, StockOutFind, VoidOrder, AddWare, EditWareFind,
        Accept
<1>5. ASSUME UNCHANGED <<temp, reqVars, loopVars, pc, answer>>
      PROVE  SameThread(w) /\ UNCHANGED temp
  BY <1>5 DEF SameThread, reqVars, loopVars
<1>6. ~Restart
  BY DEF Restart
<1> HIDE DEF Found
<1>7. \/ /\ SameThread(w)
         /\ \/ UNCHANGED temp
            \/ \E v \in Workers \ {w} : Request(v) \/ Continue(v)
      \/ Found
  BY <1>1, <1>2, <1>4, <1>5, <1>6
  DEF Next, Crash, UploadWareImage, NextDay, vars, dbVars
<1>8. QED
  BY <1>7 DEF Found

\* The constants of stock.cfg: no call fails, the process does not die, no
\* client modifies an order.  Then the order of a stock-out has left Temp.db
\* when the request is answered (ModifyStockOrderRouter.cpp:184-196), however
\* many threads serve how many orders.
THEOREM SoldLeavesTempWithoutModify ==
    ASSUME NothingFails, DetailWares = {}
    PROVE  Spec => []SoldLeavesTemp
<1> DEFINE NoModify == \A w \in Workers : pc[w] # "modifyUpdate"
<1>1. Init => TypeInv /\ NoModify
  BY InitTypeInv DEF Init
<1>2. TypeInv /\ NoModify /\ [Next]_vars => (TypeInv /\ NoModify)'
  BY NextTypeInv, ModifyComes DEF SameThread
<1>3. TypeInv /\ NoModify /\ [Next]_vars
        => [DeleteGoesThrough /\ NoStaleUpdate]_vars
  BY DeletesGoThrough DEF NoStaleUpdate, ModifyUpdate, At
<1> HIDE DEF NoModify
<1>4. QED
  BY <1>1, <1>2, <1>3, SoldOrdersLeaveTemp, PTL DEF Spec

\* With one thread, and no failure, both hold of every sequence of requests:
\* what a client voided is never sold, and what was sold has left Temp.db when
\* its request is answered (ModifyStockOrderRouter.cpp:83-262).
THEOREM OneThreadSellsOnce ==
    ASSUME NothingFails, \A v, w \in Workers : v = w
    PROVE  Spec => [](SoldLeavesTemp /\ VoidedIsNotSold)
<1> DEFINE OwnOrder ==
        \A w \in Workers :
            pc[w] = "modifyUpdate" => /\ temp[no[w]] # NoRow
                                      /\ temp[no[w]].uuid = orderEntity[w].uuid
<1>1. Init => TypeInv /\ OwnOrder
  BY InitTypeInv DEF Init
<1>2. TypeInv /\ OwnOrder /\ [Next]_vars => (TypeInv /\ OwnOrder)'
  <2> SUFFICES ASSUME TypeInv, OwnOrder, [Next]_vars,
                      NEW w \in Workers, pc'[w] = "modifyUpdate"
               PROVE  /\ temp'[no'[w]] # NoRow
                      /\ temp'[no'[w]].uuid = orderEntity'[w].uuid
    BY NextTypeInv
  <2>1. CASE SameThread(w) /\ UNCHANGED temp
    BY <2>1 DEF SameThread
  <2>2. QED
    BY <2>1, ModifyComes
<1>3. TypeInv /\ OwnOrder /\ [Next]_vars
        => /\ [DeleteGoesThrough /\ NoStaleUpdate]_vars
           /\ [VoidsAlone]_vars
  <2> SUFFICES ASSUME TypeInv, OwnOrder, [Next]_vars
               PROVE  /\ [DeleteGoesThrough /\ NoStaleUpdate]_vars
                      /\ [VoidsAlone]_vars
    OBVIOUS
  <2>1. DeleteGoesThrough
    BY DeletesGoThrough
  <2>2. NoStaleUpdate
    BY DEF NoStaleUpdate, ModifyUpdate, At
  <2>3. VoidsAlone
    BY DEF VoidsAlone, VoidOrder, Accept, OutPoints
  <2>4. QED
    BY <2>1, <2>2, <2>3
<1> HIDE DEF OwnOrder
<1>4. QED
  BY <1>1, <1>2, <1>3, SoldOrdersLeaveTemp, VoidedStaysUnsold, PTL DEF Spec

-----------------------------------------------------------------------------
(* What the loop of a stock-out has done with the lines it has looked at.    *)

\* The first line of each ware among the first k is in a thread's hands.
FirstLinesTaken(lines, held, counts, k) ==
    /\ \A c \in Codes : held[c] # NoRow <=> \E i \in 1 .. k : lines[i].code = c
    /\ \A i \in 1 .. k : FirstOfCode(lines, i)
            => counts[lines[i].code] = lines[i].count

\* The lines to go are the last of the order's.
Looked(lines, rest) == Len(lines) - Len(rest)

LinesToGo(lines, rest) ==
    /\ Looked(lines, rest) \in Nat
    /\ \A i \in 1 .. Len(rest) : rest[i] = lines[Looked(lines, rest) + i]

LinesDone(w, k) ==
    FirstLinesTaken(orderEntity[w].wares, wareEntityMap[w], cut[w], k)

LoopInv(w) ==
    /\ pc[w] \in {"idle", "reply"} => wareEntityMap[w] = NoWares
    /\ pc[w] = "outLine" =>
            /\ LinesToGo(orderEntity[w].wares, todo[w])
            /\ LinesDone(w, Looked(orderEntity[w].wares, todo[w]))
    /\ pc[w] = "outUpdateList" => LinesDone(w, Len(orderEntity[w].wares))

\* The next line of an order.
LEMMA NextLineToGo ==
    ASSUME NEW lines \in Seq(Line), NEW rest \in Seq(Line), rest # <<>>,
           LinesToGo(lines, rest), NEW k, k = Looked(lines, rest)
    PROVE  /\ k \in Nat /\ k + 1 \in 1 .. Len(lines)
           /\ Head(rest) = lines[k + 1] /\ Head(rest) \in Line
           /\ LinesToGo(lines, Tail(rest)) /\ Looked(lines, Tail(rest)) = k + 1
           /\ Len(rest) \in Nat /\ (Len(rest) > 1 \/ k + 1 = Len(lines))
<1>1. /\ Head(rest) \in Line /\ Tail(rest) \in Seq(Line)
      /\ Len(Tail(rest)) = Len(rest) - 1
      /\ \A i \in 1 .. Len(Tail(rest)) : Tail(rest)[i] = rest[i + 1]
  BY HeadTailProperties
<1>2. Len(rest) \in Nat \ {0} /\ Len(lines) \in Nat /\ Head(rest) = rest[1]
  OBVIOUS
<1>3. k \in Nat /\ k = Len(lines) - Len(rest)
  BY DEF LinesToGo, Looked
<1>4. k + 1 \in 1 .. Len(lines) /\ (Len(rest) > 1 \/ k + 1 = Len(lines))
  BY <1>2, <1>3
<1>5. \A i \in 1 .. Len(rest) : rest[i] = lines[k + i]
  BY DEF LinesToGo
<1>6. Head(rest) = lines[k + 1]
  BY <1>2, <1>5
<1>7. Looked(lines, Tail(rest)) = k + 1
  BY <1>1, <1>2, <1>3 DEF Looked
<1>8. ASSUME NEW i \in 1 .. Len(Tail(rest))
      PROVE  Tail(rest)[i] = lines[k + 1 + i]
  <2>1. i + 1 \in 1 .. Len(rest) /\ k + (i + 1) = k + 1 + i
    BY <1>1, <1>2, <1>3
  <2>2. rest[i + 1] = lines[k + (i + 1)]
    BY <1>5, <2>1
  <2>3. QED
    BY <1>1, <2>1, <2>2
<1>9. LinesToGo(lines, Tail(rest))
  BY <1>3, <1>7, <1>8 DEF LinesToGo
<1>10. QED
  BY <1>1, <1>2, <1>3, <1>4, <1>6, <1>7, <1>9

\* A further line of a ware that is held.
LEMMA FurtherLine ==
    ASSUME NEW lines, NEW held, NEW counts, NEW k \in Nat,
           FirstLinesTaken(lines, held, counts, k),
           lines[k + 1].code \in Codes, held[lines[k + 1].code] # NoRow
    PROVE  FirstLinesTaken(lines, held, counts, k + 1)
<1>1. PICK j \in 1 .. k : lines[j].code = lines[k + 1].code
  BY DEF FirstLinesTaken
<1>2. ~FirstOfCode(lines, k + 1)
  <2>1. j \in 1 .. (k + 1) - 1
    OBVIOUS
  <2>2. QED
    BY <1>1, <2>1 DEF FirstOfCode
<1>3. \A i : i \in 1 .. k + 1 <=> i \in 1 .. k \/ i = k + 1
  OBVIOUS
<1>4. QED
  BY <1>1, <1>2, <1>3 DEF FirstLinesTaken

\* The loop of the thread is where it was.
SameLoop(w) == todo'[w] = todo[w] /\ cut'[w] = cut[w]

LEMMA RequestLoopOfOne ==
    ASSUME TypeInv, NEW w \in Workers, Request(w), ~HytradeNoWares(w),
           NEW v \in Workers \ {w}
    PROVE  SameLoop(v)
<1> USE DEF TypeInv, TypeOK, HandlerTypeOK, GhostTypeOK, SameLoop, loopVars
<1>1. UNCHANGED cut
  BY DEF Request, HytradeInfo, StockOutFind, ModifyFind, VoidOrder, AddWare,
         EditWareFind
<1>2. ASSUME UNCHANGED todo \/ \E lines : todo' = [todo EXCEPT ![w] = lines]
      PROVE  SameLoop(v)
  BY <1>1, <1>2
<1>3. QED
  BY <1>2
  DEF Request, HytradeInfo, StockOutFind, ModifyFind, VoidOrder, AddWare,
      EditWareFind

LEMMA ContinueLoopOfOne ==
    ASSUME TypeInv, NEW w \in Workers, Continue(w), NEW v \in Workers \ {w}
    PROVE  SameLoop(v)
<1> USE DEF TypeInv, TypeOK, HandlerTypeOK, GhostTypeOK, SameLoop, loopVars
<1>1. ASSUME NEW code, Finish(w, code)
      PROVE  SameLoop(v)
  BY <1>1 DEF Finish
<1>2. ASSUME NEW next, Advance(w, next),
             UNCHANGED cut \/ \E c, n : cut' = [cut EXCEPT ![w][c] = n]
      PROVE  SameLoop(v)
  BY <1>2 DEF Advance
<1>3. CASE HytradeLine(w)
  BY <1>1, <1>2, <1>3 DEF HytradeLine
<1>4. CASE StockOutLine(w)
  BY <1>1, <1>2, <1>4 DEF StockOutLine
<1>5. QED
  BY <1>1, <1>3, <1>4
  DEF Continue, HytradeAdd, StockOutUpdateList, StockOutAdd, StockOutDelete,
      ModifyUpdate, EditWareUpdate, SqlError, Reply

\* What LoopInv says of a thread depends on that thread alone.
LEMMA SameLoopInv ==
    ASSUME NEW w \in Workers, SameThread(w), SameLoop(w), LoopInv(w)
    PROVE  LoopInv(w)'
  BY DEF SameThread, SameLoop, LoopInv, LinesDone

LEMMA FinishLoop ==
    ASSUME TypeInv, NEW w \in Workers, NEW code, Finish(w, code)
    PROVE  LoopInv(w)'
  BY DEF TypeInv, TypeOK, HandlerTypeOK, Finish, LoopInv

LEMMA RequestLoop ==
    ASSUME TypeInv, NEW w \in Workers, Request(w), ~HytradeNoWares(w), LoopInv(w)
    PROVE  LoopInv(w)'
<1> USE DEF TypeInv, TypeOK, HandlerTypeOK, DbTypeOK, loopVars, Accept
<1>1. ASSUME pc'[w] \in {"hytradeLine", "modifyUpdate", "editUpdate"}
      PROVE  LoopInv(w)'
  BY <1>1 DEF LoopInv
<1>2. ASSUME pc[w] = "idle", pc'[w] = "reply", UNCHANGED wareEntityMap
      PROVE  LoopInv(w)'
  BY <1>2 DEF LoopInv
<1>3. ASSUME NEW r \in Receipts, StockOutFind(w, r)
      PROVE  LoopInv(w)'
  <2>1. CASE pc'[w] = "reply"
    BY <1>2, <1>3, <2>1 DEF StockOutFind
  <2>2. CASE pc'[w] # "reply"
    <3>1. /\ temp[r] # NoRow /\ pc[w] = "idle" /\ pc'[w] = "outLine"
          /\ orderEntity'[w] = temp[r] /\ todo'[w] = temp[r].wares
          /\ wareEntityMap'[w] = NoWares
      BY <1>3, <2>2 DEF StockOutFind, LoopInv
    <3>2. temp[r].wares \in Seq(Line)
      BY <3>1 DEF Order
    <3>3. Looked(temp[r].wares, temp[r].wares) = 0
      BY <3>2 DEF Looked
    <3>4. LinesToGo(temp[r].wares, temp[r].wares)
      BY <3>2, <3>3 DEF LinesToGo
    <3>5. FirstLinesTaken(temp[r].wares, NoWares, cut'[w], 0)
      BY DEF FirstLinesTaken, NoWares
    <3>6. QED
      BY <3>1, <3>3, <3>4, <3>5 DEF LoopInv, LinesDone
  <2>3. QED
    BY <2>1, <2>2
<1>4. QED
  BY <1>1, <1>2, <1>3
  DEF Request, HytradeInfo, ModifyFind, VoidOrder, AddWare, EditWareFind

LEMMA LineLoop ==
    ASSUME TypeInv, NEW w \in Workers, StockOutLine(w), LoopInv(w)
    PROVE  LoopInv(w)'
<1> DEFINE line == Head(todo[w])
           lines == orderEntity[w].wares
           k == Looked(lines, todo[w])
<1>1. /\ pc[w] = "outLine" /\ orderEntity[w] \in Order
      /\ todo[w] \in Seq(Line) /\ todo[w] # <<>>
      /\ LinesToGo(lines, todo[w]) /\ LinesDone(w, k)
  BY DEF StockOutLine, At, ControlOK, OrderPoints, OutPoints, LoopInv,
         TypeInv, TypeOK, HandlerTypeOK
<1>2. lines \in Seq(Line)
  BY <1>1 DEF Order
<1>3. /\ k \in Nat /\ k + 1 \in 1 .. Len(lines)
      /\ line = lines[k + 1] /\ line \in Line
      /\ LinesToGo(lines, Tail(todo[w])) /\ Looked(lines, Tail(todo[w])) = k + 1
      /\ Len(todo[w]) \in Nat /\ (Len(todo[w]) > 1 \/ k + 1 = Len(lines))
  BY <1>1, <1>2, NextLineToGo
<1>4. line.code \in Codes
  BY <1>3 DEF Line
<1> HIDE DEF k, line
<1>5. ASSUME Advance(w, "outUpdateList"), UNCHANGED orderEntity,
             FirstLinesTaken(lines, wareEntityMap'[w], cut'[w], k + 1)
      PROVE  LoopInv(w)'
  <2>1. todo'[w] = Tail(todo[w]) /\ orderEntity'[w] = orderEntity[w]
    BY <1>5 DEF Advance, TypeInv, TypeOK, HandlerTypeOK
  <2>2. \/ pc'[w] = "outLine"
        \/ pc'[w] = "outUpdateList" /\ k + 1 = Len(lines)
    BY <1>1, <1>3, <1>5 DEF Advance, TypeInv, TypeOK, HandlerTypeOK
  <2>3. QED
    BY <1>3, <1>5, <2>1, <2>2 DEF LoopInv, LinesDone
<1>6. CASE /\ wareEntityMap[w][line.code] # NoRow
           /\ Advance(w, "outUpdateList")
           /\ UNCHANGED <<wareEntityMap, cut, orderEntity>>
  <2>1. FirstLinesTaken(lines, wareEntityMap[w], cut[w], k + 1)
    BY <1>1, <1>3, <1>4, <1>6, FurtherLine DEF LinesDone
  <2>2. QED
    BY <1>5, <1>6, <2>1
<1>7. ASSUME wareEntityMap[w][line.code] = NoRow,
             RowFor(w, line.code) # NoRow, Covers(RowFor(w, line.code), line),
             Advance(w, "outUpdateList"),
             Hold(w, line.code, Deduct(RowFor(w, line.code), line)),
             cut' = [cut EXCEPT ![w][line.code] = line.count],
             UNCHANGED orderEntity
      PROVE  LoopInv(w)'
  <2> DEFINE row == Deduct(RowFor(w, line.code), line)
  <2>1. row # NoRow
    <3>1. RowFor(w, line.code) \in WareRow
      BY <1>4, <1>7 DEF RowFor, TypeInv, TypeOK, DbTypeOK, HandlerTypeOK
    <3>2. QED
      BY <1>3, <3>1, DeductType, NoRowAssumption
  <2> HIDE DEF row
  <2>2. \A c \in Codes : wareEntityMap'[w][c] =
            IF c = line.code THEN row ELSE wareEntityMap[w][c]
    BY <1>4, <1>7 DEF Hold, row, TypeInv, TypeOK, HandlerTypeOK
  <2>3. /\ \A c : c # line.code => cut'[w][c] = cut[w][c]
        /\ cut'[w][line.code] = line.count
    BY <1>4, <1>7 DEF TypeInv, TypeOK, GhostTypeOK
  <2>4. FirstLinesTaken(lines, wareEntityMap'[w], cut'[w], k + 1)
    <3> DEFINE held == wareEntityMap[w]
               holds == wareEntityMap'[w]
               counts == cut[w]
               takes == cut'[w]
    <3>1. /\ FirstLinesTaken(lines, held, counts, k) /\ held[line.code] = NoRow
          /\ \A c \in Codes : holds[c] = IF c = line.code THEN row ELSE held[c]
          /\ \A c : c # line.code => takes[c] = counts[c]
          /\ takes[line.code] = line.count
      BY <1>1, <1>7, <2>2, <2>3 DEF LinesDone
    <3> HIDE DEF held, holds, counts, takes, lines
    <3>2. line.code = lines[k + 1].code /\ line.count = lines[k + 1].count
      BY <1>3
    <3>3. \A i : i \in 1 .. k + 1 <=> i \in 1 .. k \/ i = k + 1
      BY <1>3
    <3>4. \A i \in 1 .. k : lines[i].code # line.code
      BY <1>4, <3>1 DEF FirstLinesTaken
    <3>5. ASSUME NEW c \in Codes
          PROVE  holds[c] # NoRow <=> \E i \in 1 .. k + 1 : lines[i].code = c
      <4>1. held[c] # NoRow <=> \E i \in 1 .. k : lines[i].code = c
        BY <3>1 DEF FirstLinesTaken
      <4>2. CASE c = line.code
        BY <2>1, <3>1, <3>2, <3>3, <4>2
      <4>3. CASE c # line.code
        BY <3>1, <3>2, <3>3, <4>1, <4>3
      <4>4. QED
        BY <4>2, <4>3
    <3>6. ASSUME NEW i \in 1 .. k + 1, FirstOfCode(lines, i)
          PROVE  takes[lines[i].code] = lines[i].count
      <4>1. CASE i \in 1 .. k
        BY <3>1, <3>4, <3>6, <4>1 DEF FirstLinesTaken
      <4>2. CASE i = k + 1
        BY <3>1, <3>2, <4>2
      <4>3. QED
        BY <3>3, <4>1, <4>2
    <3>7. FirstLinesTaken(lines, holds, takes, k + 1)
      BY <3>5, <3>6 DEF FirstLinesTaken
    <3>8. QED
      BY <3>7 DEF holds, takes
  <2>5. QED
    BY <1>5, <1>7, <2>4
<1>8. QED
  BY <1>6, <1>7, FinishLoop DEF StockOutLine, reqVars, line

LEMMA ContinueLoop ==
    ASSUME TypeInv, NEW w \in Workers, Continue(w), LoopInv(w)
    PROVE  LoopInv(w)'
<1> USE DEF TypeInv, TypeOK, HandlerTypeOK
<1>1. ASSUME pc'[w] \in {"hytradeLine", "hytradeAdd", "outAdd", "outDelete"}
      PROVE  LoopInv(w)'
  BY <1>1 DEF LoopInv
<1>2. CASE HytradeLine(w)
  <2>1. CASE Advance(w, "hytradeAdd")
    BY <1>1, <1>2, <2>1 DEF HytradeLine, At, Advance
  <2>2. QED
    BY <1>2, <2>1, FinishLoop DEF HytradeLine
<1>3. CASE StockOutUpdateList(w)
  BY <1>1, <1>3 DEF StockOutUpdateList
<1>4. CASE StockOutAdd(w)
  <2>1. CASE pc' = [pc EXCEPT ![w] = "outDelete"]
    BY <1>1, <2>1
  <2>2. QED
    BY <1>4, <2>1, FinishLoop DEF StockOutAdd
<1>5. CASE Reply(w)
  BY <1>5 DEF Reply, At, LoopInv, loopVars
<1>6. QED
  BY <1>2, <1>3, <1>4, <1>5, FinishLoop, LineLoop
  DEF Continue, HytradeAdd, StockOutDelete, ModifyUpdate, EditWareUpdate, SqlError

LEMMA NextLoop ==
    ASSUME TypeInv, [Next]_vars, \A w \in Workers : LoopInv(w), NEW v \in Workers
    PROVE  LoopInv(v)'
<1>1. ASSUME NEW w \in Workers, Request(w), ~HytradeNoWares(w)
      PROVE  LoopInv(v)'
  BY <1>1, RequestLoop, RequestOfOne, RequestLoopOfOne, SameLoopInv
<1>2. ASSUME NEW w \in Workers, Continue(w)
      PROVE  LoopInv(v)'
  BY <1>2, ContinueLoop, ContinueOfOne, ContinueLoopOfOne, SameLoopInv
<1>3. CASE Restart
  BY <1>3 DEF Restart, LoopInv
<1>4. ASSUME UNCHANGED <<reqVars, loopVars, pc, answer>>
      PROVE  LoopInv(v)'
  BY <1>4, SameLoopInv DEF SameThread, SameLoop, reqVars, loopVars
<1>5. QED
  BY <1>1, <1>2, <1>3, <1>4
  DEF Next, Crash, HytradeNoWares, UploadWareImage, NextDay, vars

\* For any orders, any number of lines of a ware and any threads: a stock-out
\* that comes to UpdateList has read and deducted every ware of its order once,
\* with its first line, and nothing else (ModifyStockOrderRouter.cpp:108-166).
THEOREM FirstLinesAreTaken == Spec => []StockOutTakesFirstLines
<1> DEFINE Inv == \A w \in Workers : LoopInv(w)
<1>1. Init => TypeInv /\ Inv
  BY InitTypeInv DEF Init, LoopInv
<1>2. TypeInv /\ Inv /\ [Next]_vars => (TypeInv /\ Inv)'
  BY NextTypeInv, NextLoop
<1>3. TypeInv /\ Inv => StockOutTakesFirstLines
  <2> SUFFICES ASSUME TypeInv, Inv, NEW w \in Workers, pc[w] = "outUpdateList"
               PROVE  /\ orderEntity[w].wares \in Seq(Line)
                      /\ LinesDone(w, Len(orderEntity[w].wares))
    BY DEF StockOutTakesFirstLines, LinesDone, FirstLinesTaken, At
  <2>1. orderEntity[w] \in Order
    BY DEF TypeInv, TypeOK, HandlerTypeOK, ControlOK, OrderPoints, OutPoints
  <2>2. QED
    BY <2>1 DEF LoopInv, Order
<1> HIDE DEF Inv
<1>4. QED
  BY <1>1, <1>2, <1>3, PTL DEF Spec
=============================================================================

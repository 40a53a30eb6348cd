----------------------------- MODULE StockProofs ----------------------------
(***************************************************************************)
(* What the handlers do to the stock of a ware, for any number of threads, *)
(* wares and orders.                                                       *)
(***************************************************************************)
EXTENDS StockServerProofs

-----------------------------------------------------------------------------
(* No stock becomes negative, when no client asks for a negative one.      *)

NoNegativeRequests ==
    /\ \A c \in Codes : InitialWares[c] # NoRow => InitialWares[c].stock >= 0
    /\ \A q \in AddRequests : q[2].stock >= 0
    /\ \A q \in EditRequests : q[2].stock = Keep \/ q[2].stock >= 0

Remain(rows) == \A c \in Codes : rows[c] # NoRow => rows[c].stock >= 0

\* Every copy of a row is one that may be written back.
RemainInv ==
    /\ Remain(wares)
    /\ Remain(configWares)
    /\ \A w \in Workers : Remain(wareEntityMap[w])

LEMMA InitRemain == ASSUME NoNegativeRequests, Init PROVE RemainInv
  BY DEF NoNegativeRequests, Init, RemainInv, Remain, NoWares

\* What a thread holds is what is left of a row after a test of its stock.
LEMMA DeductRemains ==
    ASSUME NEW row \in WareRow, NEW line \in Line, Covers(row, line)
    PROVE  Deduct(row, line).stock >= 0
  BY DEF Covers, Deduct, WareRow, Line

LEMMA HoldRemains ==
    ASSUME TypeInv, RemainInv, NEW w \in Workers, NEW c \in Codes,
           NEW row, row.stock >= 0, Hold(w, c, row)
    PROVE  \A v \in Workers : Remain(wareEntityMap'[v])
  BY DEF TypeInv, TypeOK, HandlerTypeOK, RemainInv, Remain, Hold

LEMMA FinishRemains ==
    ASSUME TypeInv, RemainInv, NEW w \in Workers, NEW code, Finish(w, code)
    PROVE  \A v \in Workers : Remain(wareEntityMap'[v])
  BY DEF TypeInv, TypeOK, HandlerTypeOK, RemainInv, Remain, Finish, NoWares

LEMMA WriteRemains ==
    ASSUME RemainInv, NEW w \in Workers, WriteWares(w)
    PROVE  Remain(wares')
  BY DEF RemainInv, Remain, WriteWares

\* The line a loop looks at, and the row it compares it with.
LEMMA LineAndRow ==
    ASSUME TypeInv, NEW w \in Workers, pc[w] \in {"hytradeLine", "outLine"}
    PROVE  /\ Head(todo[w]) \in Line
           /\ Head(todo[w]).code \in Codes
           /\ RowFor(w, Head(todo[w]).code) \in WareRow \cup {NoRow}
<1>1. todo[w] \in Seq(Line) /\ todo[w] # <<>>
  BY DEF TypeInv, TypeOK, HandlerTypeOK, ControlOK
<1>2. Head(todo[w]) \in Line
  BY <1>1, HeadTailProperties
<1>3. Head(todo[w]).code \in Codes
  BY <1>2 DEF Line
<1>4. QED
  BY <1>2, <1>3, RowForType

LEMMA RequestRemains ==
    ASSUME NoNegativeRequests, TypeInv, RemainInv, NEW w \in Workers, Request(w)
    PROVE  RemainInv'
<1> USE DEF RemainInv
<1>1. ASSUME UNCHANGED <<wares, configWares, wareEntityMap>>
      PROVE  RemainInv'
  BY <1>1 DEF Remain
<1>2. ASSUME NEW q \in AddRequests, AddWare(w, q[1], q[2])
      PROVE  RemainInv'
  <2>1. q[1] \in Codes
    BY StockServerAssumption
  <2>2. Remain(wares')
    BY <1>2, <2>1
    DEF AddWare, Remain, NoNegativeRequests, TypeInv, TypeOK, DbTypeOK
  <2>3. QED
    BY <1>2, <2>2 DEF AddWare, procVars, loopVars, Remain
<1>3. ASSUME NEW q \in EditRequests, EditWareFind(w, q[1], q[2])
      PROVE  RemainInv'
  <2>1. q[1] \in Codes /\ q[2] \in WareEdit
    BY StockServerAssumption
  <2>2. wares[q[1]] # NoRow => EditRow(wares[q[1]], q[2]).stock >= 0
    BY <2>1 DEF EditRow, Remain, NoNegativeRequests
  <2>3. ASSUME NEW row, row.stock >= 0,
               wareEntityMap' = [wareEntityMap EXCEPT ![w][q[1]] = row]
        PROVE  \A v \in Workers : Remain(wareEntityMap'[v])
    BY <2>1, <2>3, HoldRemains DEF Hold
  <2>4. \A v \in Workers : Remain(wareEntityMap'[v])
    BY <1>3, <2>2, <2>3 DEF EditWareFind
  <2>5. QED
    BY <1>3, <2>4 DEF EditWareFind, dbVars, Remain
<1>4. CASE Restart
  BY <1>4 DEF Restart, dbVars, Remain, NoWares
<1>5. QED
  BY <1>1, <1>2, <1>3, <1>4
  DEF Request, HytradeInfo, StockOutFind, ModifyFind, VoidOrder, HytradeNoWares,
      dbVars, procVars, loopVars

LEMMA ContinueRemains ==
    ASSUME TypeInv, RemainInv, NEW w \in Workers, Continue(w)
    PROVE  RemainInv'
<1>1. ASSUME UNCHANGED configWares,
             UNCHANGED wares \/ WriteWares(w),
             \/ UNCHANGED wareEntityMap
             \/ \E code : Finish(w, code)
             \/ \E c \in Codes : \E row : row.stock >= 0 /\ Hold(w, c, row)
      PROVE  RemainInv'
  <2>1. Remain(wares') /\ Remain(configWares')
    BY <1>1, WriteRemains DEF RemainInv, Remain
  <2>2. \A v \in Workers : Remain(wareEntityMap'[v])
    BY <1>1, FinishRemains, HoldRemains DEF RemainInv, Remain
  <2>3. QED
    BY <2>1, <2>2 DEF RemainInv
<1>2. CASE HytradeLine(w)
  <2>1. ASSUME NEW line, line = Head(todo[w]),
               RowFor(w, line.code) # NoRow, Covers(RowFor(w, line.code), line)
        PROVE  line.code \in Codes /\ Deduct(RowFor(w, line.code), line).stock >= 0
    BY <1>2, <2>1, LineAndRow, DeductRemains DEF HytradeLine, At
  <2>2. QED
    BY <1>1, <1>2, <2>1 DEF HytradeLine, dbVars, procVars
<1>3. CASE StockOutLine(w)
  <2>1. ASSUME NEW line, line = Head(todo[w]),
               RowFor(w, line.code) # NoRow, Covers(RowFor(w, line.code), line)
        PROVE  line.code \in Codes /\ Deduct(RowFor(w, line.code), line).stock >= 0
    BY <1>3, <2>1, LineAndRow, DeductRemains DEF StockOutLine, At
  <2>2. QED
    BY <1>1, <1>3, <2>1 DEF StockOutLine, dbVars, procVars
<1>4. QED
  BY <1>1, <1>2, <1>3
  DEF Continue, HytradeAdd, StockOutUpdateList, StockOutAdd, StockOutDelete,
      ModifyUpdate, EditWareUpdate, SqlError, Reply, dbVars, procVars, loopVars

LEMMA NextRemain ==
    ASSUME NoNegativeRequests, TypeInv, RemainInv, [Next]_vars
    PROVE  RemainInv'
<1>1. CASE \E c \in Codes : UploadWareImage(c)
  BY <1>1 DEF UploadWareImage, RemainInv, Remain, loopVars
<1>2. CASE Crash
  BY <1>2 DEF Crash, Restart, dbVars, RemainInv, Remain, NoWares
<1>3. CASE NextDay \/ UNCHANGED vars
  BY <1>3 DEF NextDay, vars, dbVars, procVars, loopVars, RemainInv, Remain
<1>4. QED
  BY <1>1, <1>2, <1>3, RequestRemains, ContinueRemains DEF Next

\* However handlers overlap, fail and crash, and whatever stale row an edit or
\* an image upload writes back, no stock is negative
\* (HytradeInfoRouter.cpp:126, ModifyStockOrderRouter.cpp:150).  The code does
\* not check the stock a client gives a ware, hence the hypothesis.
THEOREM NoNegativeStock ==
    ASSUME NoNegativeRequests
    PROVE  Spec => []StockNeverNegative
<1>1. Init => TypeInv /\ RemainInv
  BY InitTypeInv, InitRemain
<1>2. (TypeInv /\ RemainInv) /\ [Next]_vars => (TypeInv /\ RemainInv)'
  BY NextTypeInv, NextRemain
<1>3. TypeInv /\ RemainInv => StockNeverNegative
  BY DEF RemainInv, Remain, StockNeverNegative
<1>4. QED
  BY <1>1, <1>2, <1>3, PTL DEF Spec
-----------------------------------------------------------------------------
(* No more leaves tb_config_ware than the stock-outs took, while no request *)
(* sets a stock.                                                            *)

StocksAreNotSet == \A q \in EditRequests : q[2].stock = Keep

\* A row that may be written to tb_config_ware when `gone' units have been
\* taken, the thread's own deduction included.
Accounted(c, row, gone) == row.stock >= supply[c] - gone

BaseInv ==
    \A c \in Codes :
        /\ StockOf(wares[c]) >= supply[c] - taken[c]
        /\ configWares[c] # NoRow =>
              /\ wares[c] # NoRow
              /\ Accounted(c, configWares[c], taken[c])

\* What the copies of a thread are worth: only a stock-out deducts, and what
\* a stock-out or an edit holds was read when no more had been taken than now.
CopyInv(w) ==
    /\ pc[w] \notin OutPoints => cut[w] = NoCut
    /\ pc[w] \in {"idle", "reply"} => wareEntityMap[w] = NoWares
    /\ \A c \in Codes : wareEntityMap[w][c] # NoRow =>
            /\ wares[c] # NoRow
            /\ pc[w] \in OutPoints \cup {"editUpdate"} =>
                  Accounted(c, wareEntityMap[w][c], taken[c] + cut[w][c])

BooksInv == BaseInv /\ \A w \in Workers : CopyInv(w)

\* What no step does to the books: forget a deduction, remove a ware, or give
\* a ware that is there more stock.
BooksGrow ==
    \A c \in Codes :
        /\ taken'[c] >= taken[c]
        /\ wares[c] # NoRow => wares'[c] # NoRow /\ supply'[c] = supply[c]

SameCopies(w) ==
    /\ pc'[w] = pc[w]
    /\ wareEntityMap'[w] = wareEntityMap[w]
    /\ cut'[w] = cut[w]

LEMMA InitBooks == Init => BooksInv
  BY NoRowAssumption, StockServerAssumption
  DEF Init, BooksInv, BaseInv, CopyInv, Accounted, StockOf, NoWares, NoCut,
      OutPoints, WareRow

\* A row that is accounted for stays so: what it must cover only shrinks.
LEMMA RowStays ==
    ASSUME TypeInv, TypeInv', BooksGrow, NEW c \in Codes, wares[c] # NoRow,
           NEW row \in WareRow, NEW own \in Nat,
           Accounted(c, row, taken[c] + own)
    PROVE  row.stock >= supply'[c] - (taken'[c] + own)
<1>1. /\ taken[c] \in Nat /\ taken'[c] \in Nat /\ taken'[c] >= taken[c]
      /\ supply[c] \in Int /\ supply'[c] = supply[c] /\ row.stock \in Int
  BY DEF TypeInv, TypeOK, GhostTypeOK, BooksGrow, WareRow
<1>2. QED
  BY <1>1 DEF Accounted

LEMMA CopiesStay ==
    ASSUME TypeInv, TypeInv', BooksInv, BooksGrow, NEW v \in Workers,
           SameCopies(v)
    PROVE  CopyInv(v)'
<1> USE DEF SameCopies
<1>1. ASSUME NEW c \in Codes, wareEntityMap[v][c] # NoRow,
             pc[v] \in OutPoints \cup {"editUpdate"}
      PROVE  Accounted(c, wareEntityMap[v][c], taken[c] + cut[v][c])'
  <2>1. wareEntityMap[v][c] \in WareRow /\ cut[v][c] \in Nat
    BY <1>1 DEF TypeInv, TypeOK, HandlerTypeOK, GhostTypeOK
  <2>2. wares[c] # NoRow /\ Accounted(c, wareEntityMap[v][c], taken[c] + cut[v][c])
    BY <1>1 DEF BooksInv, CopyInv
  <2>3. wareEntityMap[v][c].stock >= supply'[c] - (taken'[c] + cut[v][c])
    BY <2>1, <2>2, RowStays
  <2>4. QED
    BY <2>3 DEF Accounted
<1>2. QED
  BY <1>1 DEF BooksInv, CopyInv, BooksGrow

\* An empty map satisfies everything.
LEMMA NoCopies ==
    ASSUME NEW v \in Workers, wareEntityMap'[v] = NoWares, cut'[v] = NoCut
    PROVE  CopyInv(v)'
  BY DEF CopyInv, NoWares

LEMMA FinishCopies ==
    ASSUME TypeInv, TypeInv', BooksInv, BooksGrow, NEW w \in Workers, NEW code,
           Finish(w, code), NEW v \in Workers
    PROVE  CopyInv(v)'
<1>1. CASE v = w
  BY <1>1, NoCopies DEF Finish, TypeInv, TypeOK, HandlerTypeOK, GhostTypeOK
<1>2. CASE v # w
  BY <1>2, CopiesStay
  DEF Finish, SameCopies, TypeInv, TypeOK, HandlerTypeOK, GhostTypeOK
<1>3. QED
  BY <1>1, <1>2

\* The rows ConfigManager read when it started.
LEMMA ManagerStays ==
    ASSUME TypeInv, TypeInv', BooksInv, BooksGrow, UNCHANGED configWares,
           NEW c \in Codes, configWares[c] # NoRow
    PROVE  wares'[c] # NoRow /\ Accounted(c, configWares[c], taken[c])'
<1>1. configWares[c] \in WareRow /\ taken[c] \in Nat /\ taken'[c] \in Nat
  BY DEF TypeInv, TypeOK, ProcTypeOK, GhostTypeOK
<1>2. wares[c] # NoRow /\ configWares[c].stock >= supply[c] - (taken[c] + 0)
  BY <1>1 DEF BooksInv, BaseInv, Accounted
<1>3. configWares[c].stock >= supply'[c] - (taken'[c] + 0)
  BY <1>1, <1>2, RowStays DEF Accounted
<1>4. QED
  BY <1>1, <1>2, <1>3 DEF Accounted, BooksGrow

\* Rows, and the copy of ConfigManager, when the wares do not change.
LEMMA BaseStays ==
    ASSUME TypeInv, TypeInv', BooksInv,
           \A c \in Codes : taken'[c] >= taken[c],
           UNCHANGED <<wares, supply, configWares>>
    PROVE  BaseInv' /\ BooksGrow
<1>1. BooksGrow
  BY DEF BooksGrow
<1>2. ASSUME NEW c \in Codes
      PROVE  StockOf(wares'[c]) >= supply'[c] - taken'[c]
  <2>1. StockOf(wares[c]) \in Int
    BY DEF StockOf, TypeInv, TypeOK, DbTypeOK, WareRow
  <2>2. /\ StockOf(wares[c]) >= supply[c] - taken[c]
        /\ taken[c] \in Nat /\ taken'[c] \in Nat /\ supply[c] \in Int
    BY DEF BooksInv, BaseInv, TypeInv, TypeOK, GhostTypeOK
  <2>3. QED
    BY <2>1, <2>2
<1>3. QED
  BY <1>1, <1>2, ManagerStays DEF BaseInv

\* A handler that writes its copies, once what it deducted has been counted.
LEMMA WriteBase ==
    ASSUME TypeInv, TypeInv', BooksInv, NEW w \in Workers, WriteWares(w),
           pc[w] \in OutPoints \cup {"editUpdate"},
           \A c \in Codes : taken'[c] = taken[c] + cut[w][c],
           UNCHANGED <<supply, configWares>>
    PROVE  BaseInv' /\ BooksGrow
<1> USE DEF TypeInv, TypeOK, GhostTypeOK, DbTypeOK, HandlerTypeOK
<1>1. BooksGrow
  BY DEF BooksGrow, WriteWares
<1>2. ASSUME NEW c \in Codes
      PROVE  StockOf(wares'[c]) >= supply'[c] - taken'[c]
  <2>1. CASE wareEntityMap[w][c] # NoRow
    <3>1. /\ wares[c] # NoRow
          /\ Accounted(c, wareEntityMap[w][c], taken[c] + cut[w][c])
      BY <2>1 DEF BooksInv, CopyInv
    <3>2. wares'[c] = wareEntityMap[w][c]
      BY <2>1, <3>1 DEF WriteWares
    <3>3. QED
      BY <2>1, <3>1, <3>2 DEF Accounted, StockOf
  <2>2. CASE wareEntityMap[w][c] = NoRow
    <3>1. wares'[c] = wares[c]
      BY <2>2 DEF WriteWares
    <3>2. StockOf(wares[c]) \in Int
      BY DEF StockOf, WareRow
    <3>3. StockOf(wares[c]) >= supply[c] - taken[c]
      BY DEF BooksInv, BaseInv
    <3>4. taken[c] \in Nat /\ taken'[c] \in Nat /\ taken'[c] >= taken[c]
      BY DEF BooksInv
    <3>5. QED
      BY <3>1, <3>2, <3>3, <3>4
  <2>3. QED
    BY <2>1, <2>2
<1>3. QED
  BY <1>1, <1>2, ManagerStays DEF BaseInv

\* Steps that leave the three books and the rows of ConfigManager alone.
LEMMA QuietStep ==
    ASSUME TypeInv, TypeInv', BooksInv, NEW w \in Workers,
           UNCHANGED <<wares, supply, taken, configWares>>,
           \A v \in Workers \ {w} : SameCopies(v),
           BooksGrow => CopyInv(w)'
    PROVE  BooksInv'
<1>1. BaseInv' /\ BooksGrow
  BY BaseStays DEF TypeInv, TypeOK, GhostTypeOK
<1>2. QED
  BY <1>1, CopiesStay DEF BooksInv

\* A thread that deducts nothing and holds no row of a stock-out or an edit.
LEMMA IdleCopies ==
    ASSUME TypeInv, TypeInv', BooksInv, BooksGrow, NEW w \in Workers,
           pc'[w] \notin OutPoints \cup {"editUpdate"}, cut'[w] = NoCut,
           pc'[w] \in {"idle", "reply"} => wareEntityMap'[w] = NoWares,
           \A c \in Codes : wareEntityMap'[w][c] # NoRow => wares[c] # NoRow
    PROVE  CopyInv(w)'
  BY DEF CopyInv, BooksGrow

LEMMA RequestBooks ==
    ASSUME StocksAreNotSet, TypeInv, TypeInv', BooksInv, NEW w \in Workers,
           Request(w), ~HytradeNoWares(w)
    PROVE  BooksInv'
<1> USE DEF Accept, loopVars, procVars, ghostVars, dbVars
<1>1. pc[w] = "idle"
  BY DEF Request, HytradeInfo, StockOutFind, ModifyFind, VoidOrder, AddWare,
         EditWareFind
<1>2. wareEntityMap[w] = NoWares /\ cut[w] = NoCut
  BY <1>1 DEF BooksInv, CopyInv, OutPoints
<1>3. cut' = cut /\ \A v \in Workers \ {w} : pc'[v] = pc[v]
  BY DEF Request, HytradeInfo, StockOutFind, ModifyFind, VoidOrder, AddWare,
         EditWareFind, TypeInv, TypeOK, HandlerTypeOK
<1>4. ASSUME UNCHANGED <<wares, supply, taken, configWares, wareEntityMap>>
      PROVE  BooksInv'
  BY <1>2, <1>3, <1>4, QuietStep, NoCopies DEF SameCopies
<1>5. ASSUME NEW q \in EditRequests, EditWareFind(w, q[1], q[2])
      PROVE  BooksInv'
  <2>1. q[1] \in Codes /\ q[2] \in WareEdit /\ q[2].stock = Keep
    BY StockServerAssumption DEF StocksAreNotSet
  <2>2. CASE UNCHANGED wareEntityMap
    BY <1>4, <1>5, <2>2 DEF EditWareFind
  <2>3. CASE /\ wares[q[1]] # NoRow
             /\ pc'[w] = "editUpdate"
             /\ wareEntityMap' = [wareEntityMap EXCEPT
                                    ![w][q[1]] = EditRow(wares[q[1]], q[2])]
    <3>1. wares[q[1]] \in WareRow
      BY <2>1, <2>3 DEF TypeInv, TypeOK, DbTypeOK
    <3>2. EditRow(wares[q[1]], q[2]).stock = wares[q[1]].stock
      BY <2>1 DEF EditRow
    <3>3. Accounted(q[1], wares[q[1]], taken[q[1]])
      BY <2>1, <2>3 DEF BooksInv, BaseInv, StockOf, Accounted
    <3>4. \A c \in Codes : wareEntityMap'[w][c] # NoRow =>
            c = q[1] /\ wareEntityMap'[w][c] = EditRow(wares[q[1]], q[2])
      BY <1>2, <2>3 DEF TypeInv, TypeOK, HandlerTypeOK, NoWares
    <3>5. taken[q[1]] \in Nat /\ supply[q[1]] \in Int /\ cut'[w] = NoCut
      BY <1>2, <1>3, <2>1 DEF TypeInv, TypeOK, GhostTypeOK
    <3>6. UNCHANGED <<wares, supply, taken, configWares>>
      BY <1>5 DEF EditWareFind
    <3>7. CopyInv(w)'
      BY <2>1, <2>3, <3>2, <3>3, <3>4, <3>5, <3>6
      DEF CopyInv, Accounted, NoCut, OutPoints
    <3>8. \A v \in Workers \ {w} : SameCopies(v)
      BY <1>3, <2>3 DEF SameCopies, TypeInv, TypeOK, HandlerTypeOK
    <3>9. QED
      BY <3>6, <3>7, <3>8, QuietStep
  <2>4. QED
    BY <1>1, <1>5, <2>2, <2>3 DEF EditWareFind, TypeInv, TypeOK, HandlerTypeOK
<1>6. ASSUME NEW q \in AddRequests, AddWare(w, q[1], q[2])
      PROVE  BooksInv'
  <2>1. q[1] \in Codes /\ q[2] \in WareRow
    BY StockServerAssumption
  <2>2. CASE UNCHANGED <<wares, supply>>
    BY <1>4, <1>6, <2>2 DEF AddWare
  <2>3. CASE /\ wares[q[1]] = NoRow
             /\ wares' = [wares EXCEPT ![q[1]] = q[2]]
             /\ supply' = [supply EXCEPT ![q[1]] = @ + q[2].stock]
    <3>1. UNCHANGED <<taken, configWares, wareEntityMap>>
      BY <1>6 DEF AddWare
    <3>2. BooksGrow
      BY <2>1, <2>3, <3>1
      DEF BooksGrow, TypeInv, TypeOK, DbTypeOK, GhostTypeOK
    <3>3. \A c \in Codes : StockOf(wares'[c]) >= supply'[c] - taken'[c]
      BY <2>1, <2>3, <3>1, NoRowAssumption
      DEF BooksInv, BaseInv, StockOf, TypeInv, TypeOK, DbTypeOK, GhostTypeOK, WareRow
    <3>4. BaseInv'
      BY <3>1, <3>2, <3>3 DEF BooksInv, BaseInv, BooksGrow, Accounted
    <3>5. \A v \in Workers : CopyInv(v)'
      BY <1>2, <1>3, <3>1, <3>2, CopiesStay, NoCopies DEF SameCopies
    <3>6. QED
      BY <3>4, <3>5 DEF BooksInv
  <2>4. QED
    BY <1>6, <2>2, <2>3 DEF AddWare
<1>7. QED
  BY <1>4, <1>5, <1>6
  DEF Request, HytradeInfo, StockOutFind, ModifyFind, VoidOrder
\* The threads that do not take the step.
LEMMA OtherCopies ==
    ASSUME TypeInv, NEW w \in Workers, Continue(w), NEW v \in Workers \ {w}
    PROVE  SameCopies(v)
<1>1. SameThread(v)
  BY ContinueOfOne
<1>2. cut'[v] = cut[v]
  BY DEF Continue, HytradeLine, HytradeAdd, StockOutLine, StockOutUpdateList,
         StockOutAdd, StockOutDelete, ModifyUpdate, EditWareUpdate, SqlError,
         Reply, Finish, loopVars, TypeInv, TypeOK, GhostTypeOK
<1>3. QED
  BY <1>1, <1>2 DEF SameThread, SameCopies

LEMMA HytradeLineCopies ==
    ASSUME TypeInv, TypeInv', BooksInv, BooksGrow, NEW w \in Workers,
           HytradeLine(w)
    PROVE  CopyInv(w)'
<1> USE DEF TypeInv, TypeOK, HandlerTypeOK, GhostTypeOK
<1> DEFINE line == Head(todo[w])
<1>1. ASSUME NEW code, Finish(w, code)
      PROVE  CopyInv(w)'
  BY <1>1, FinishCopies
<1>2. cut[w] = NoCut
  BY DEF HytradeLine, At, BooksInv, CopyInv, OutPoints
<1>3. ASSUME Advance(w, "hytradeAdd"), UNCHANGED cut,
             \A c \in Codes : wareEntityMap'[w][c] # NoRow => wares[c] # NoRow
      PROVE  CopyInv(w)'
  <2>1. pc'[w] \in {"hytradeLine", "hytradeAdd"}
    BY <1>3 DEF HytradeLine, At, Advance
  <2>2. QED
    BY <1>2, <1>3, <2>1, IdleCopies DEF OutPoints
<1>4. ASSUME UNCHANGED wareEntityMap, NEW c \in Codes,
             wareEntityMap'[w][c] # NoRow
      PROVE  wares[c] # NoRow
  BY <1>4 DEF BooksInv, CopyInv
<1>5. ASSUME NEW row, Hold(w, line.code, row), RowFor(w, line.code) # NoRow,
             NEW c \in Codes, wareEntityMap'[w][c] # NoRow
      PROVE  wares[c] # NoRow
  BY <1>5 DEF Hold, RowFor, BooksInv, CopyInv
<1>6. QED
  BY <1>1, <1>3, <1>4, <1>5 DEF HytradeLine

\* A row less what the thread deducts from it, that amount being counted.
LEMMA OwnDeduction ==
    ASSUME NEW stock \in Int, NEW count \in Nat, NEW given \in Int,
           NEW gone \in Nat, stock >= given - gone
    PROVE  stock - count >= given - (gone + count)
  OBVIOUS

LEMMA StockOutLineCopies ==
    ASSUME TypeInv, TypeInv', BooksInv, BooksGrow, NEW w \in Workers,
           StockOutLine(w)
    PROVE  CopyInv(w)'
<1> USE DEF TypeInv, TypeOK, HandlerTypeOK, GhostTypeOK, DbTypeOK
<1> DEFINE line == Head(todo[w])
<1>1. ASSUME NEW code, Finish(w, code)
      PROVE  CopyInv(w)'
  BY <1>1, FinishCopies
<1>2. UNCHANGED <<wares, taken, supply>> /\ pc[w] = "outLine"
  BY DEF StockOutLine, dbVars, ghostVars, At
<1>3. ASSUME Advance(w, "outUpdateList")
      PROVE  pc'[w] \in OutPoints /\ pc'[w] \notin {"idle", "reply"}
  BY <1>2, <1>3 DEF Advance, OutPoints
<1>4. ASSUME Advance(w, "outUpdateList"), UNCHANGED <<wareEntityMap, cut>>
      PROVE  CopyInv(w)'
  BY <1>2, <1>3, <1>4 DEF BooksInv, CopyInv, Accounted, OutPoints
<1>5. ASSUME Advance(w, "outUpdateList"),
             wareEntityMap[w][line.code] = NoRow, wares[line.code] # NoRow,
             Hold(w, line.code, Deduct(wares[line.code], line)),
             cut' = [cut EXCEPT ![w][line.code] = line.count]
      PROVE  CopyInv(w)'
  <2>1. line \in Line /\ line.code \in Codes
    BY <1>2, LineAndRow
  <2>2. /\ line.count \in Nat /\ wares[line.code] \in WareRow
        /\ wares[line.code].stock \in Int
    BY <1>5, <2>1 DEF Line, WareRow
  <2>3. wares[line.code].stock >= supply[line.code] - taken[line.code]
    BY <1>5, <2>1 DEF BooksInv, BaseInv, StockOf
  <2>4. /\ wareEntityMap'[w][line.code].stock = wares[line.code].stock - line.count
        /\ cut'[w][line.code] = line.count
    <3>1. wareEntityMap'[w][line.code] = Deduct(wares[line.code], line)
      BY <1>5, <2>1 DEF Hold
    <3>2. Deduct(wares[line.code], line).stock = wares[line.code].stock - line.count
      BY <2>2 DEF Deduct, WareRow
    <3>3. cut'[w][line.code] = line.count
      BY <1>5, <2>1
    <3>4. QED
      BY <3>1, <3>2, <3>3
  <2>5. taken[line.code] \in Nat /\ supply[line.code] \in Int
    BY <2>1
  <2>6. wareEntityMap'[w][line.code].stock
            >= supply[line.code] - (taken[line.code] + cut'[w][line.code])
    BY <2>2, <2>3, <2>4, <2>5, OwnDeduction
  <2>7. \A c \in Codes \ {line.code} :
            wareEntityMap'[w][c] = wareEntityMap[w][c] /\ cut'[w][c] = cut[w][c]
    BY <1>5, <2>1 DEF Hold
  <2>8. ASSUME NEW c \in Codes, wareEntityMap'[w][c] # NoRow
        PROVE  /\ wares'[c] # NoRow
               /\ wareEntityMap'[w][c].stock
                    >= supply'[c] - (taken'[c] + cut'[w][c])
    <3>1. CASE c = line.code
      BY <1>2, <1>5, <2>6, <3>1
    <3>2. CASE c # line.code
      BY <1>2, <2>7, <2>8, <3>2 DEF BooksInv, CopyInv, Accounted, OutPoints
    <3>3. QED
      BY <3>1, <3>2
  <2>9. QED
    BY <1>3, <1>5, <2>8 DEF CopyInv, Accounted
<1>6. QED
  BY <1>1, <1>4, <1>5 DEF StockOutLine, RowFor

LEMMA ContinueBooks ==
    ASSUME TypeInv, TypeInv', BooksInv, NEW w \in Workers, Continue(w)
    PROVE  BooksInv'
<1> USE DEF dbVars, procVars, ghostVars, loopVars
<1>1. \A v \in Workers \ {w} : SameCopies(v)
  BY OtherCopies
<1>2. ASSUME UNCHANGED <<wares, supply, taken, configWares>>,
             BooksGrow => CopyInv(w)'
      PROVE  BooksInv'
  BY <1>1, <1>2, QuietStep
<1>3. ASSUME NEW code, Finish(w, code),
             UNCHANGED <<wares, supply, taken, configWares>>
      PROVE  BooksInv'
  BY <1>2, <1>3, FinishCopies
<1>4. CASE HytradeLine(w)
  BY <1>2, <1>4, HytradeLineCopies DEF HytradeLine
<1>5. CASE StockOutLine(w)
  BY <1>2, <1>5, StockOutLineCopies DEF StockOutLine
<1>6. CASE StockOutUpdateList(w)
  <2>1. BaseInv' /\ BooksGrow
    BY <1>6, WriteBase
    DEF StockOutUpdateList, At, OutPoints, TypeInv, TypeOK, GhostTypeOK
  <2>2. pc[w] = "outUpdateList" /\ pc'[w] = "outAdd"
    BY <1>6 DEF StockOutUpdateList, At, TypeInv, TypeOK, HandlerTypeOK
  <2>3. CopyInv(w)'
    <3>1. ASSUME NEW c \in Codes, wareEntityMap[w][c] # NoRow
          PROVE  wareEntityMap[w][c].stock >= supply'[c] - (taken'[c] + cut[w][c])
      <4>1. /\ wareEntityMap[w][c] \in WareRow /\ cut[w][c] \in Nat
        BY <3>1 DEF TypeInv, TypeOK, HandlerTypeOK, GhostTypeOK
      <4>2. wares[c] # NoRow /\ Accounted(c, wareEntityMap[w][c], taken[c] + cut[w][c])
        BY <2>2, <3>1 DEF BooksInv, CopyInv, OutPoints
      <4>3. QED
        BY <2>1, <4>1, <4>2, RowStays
    <3>2. UNCHANGED <<wareEntityMap, cut>>
      BY <1>6 DEF StockOutUpdateList
    <3>3. QED
      BY <2>1, <2>2, <3>1, <3>2
      DEF BooksInv, CopyInv, BooksGrow, OutPoints, Accounted
  <2>4. QED
    BY <1>1, <2>1, <2>3, CopiesStay DEF BooksInv
<1>7. CASE EditWareUpdate(w)
  <2>1. \A c \in Codes : taken'[c] = taken[c] + cut[w][c]
    BY <1>7
    DEF EditWareUpdate, At, BooksInv, CopyInv, OutPoints, NoCut, TypeInv,
        TypeOK, GhostTypeOK
  <2>2. BaseInv' /\ BooksGrow
    BY <1>7, <2>1, WriteBase DEF EditWareUpdate, At
  <2>3. QED
    BY <1>7, <2>2, FinishCopies DEF EditWareUpdate, BooksInv
<1>8. CASE StockOutAdd(w)
  <2>1. CASE Finish(w, "SQL_ERROR")
    BY <1>3, <1>8, <2>1 DEF StockOutAdd
  <2>2. CASE pc' = [pc EXCEPT ![w] = "outDelete"] /\ UNCHANGED loopVars
    <3>1. pc[w] = "outAdd" /\ pc'[w] = "outDelete"
      BY <1>8, <2>2 DEF StockOutAdd, At, TypeInv, TypeOK, HandlerTypeOK
    <3>2. UNCHANGED <<wares, supply, taken, configWares>>
      BY <1>8 DEF StockOutAdd
    <3>3. CopyInv(w)'
      BY <2>2, <3>1, <3>2 DEF BooksInv, CopyInv, Accounted, OutPoints
    <3>4. QED
      BY <1>2, <3>2, <3>3
  <2>3. QED
    BY <1>8, <2>1, <2>2 DEF StockOutAdd
<1>9. CASE Reply(w)
  <2>1. wareEntityMap'[w] = NoWares /\ cut'[w] = NoCut
    BY <1>9 DEF Reply, At, BooksInv, CopyInv, OutPoints
  <2>2. QED
    BY <1>2, <1>9, <2>1, NoCopies DEF Reply
<1>10. QED
  BY <1>3, <1>4, <1>5, <1>6, <1>7, <1>8, <1>9
  DEF Continue, HytradeAdd, StockOutDelete, ModifyUpdate, SqlError

LEMMA NextBooks ==
    ASSUME StocksAreNotSet, TypeInv, TypeInv', BooksInv, [Next]_vars
    PROVE  BooksInv'
<1> USE DEF dbVars, procVars, ghostVars, loopVars
<1>1. CASE Restart
  <2>1. \A v \in Workers : wareEntityMap'[v] = NoWares /\ cut'[v] = NoCut
    BY <1>1 DEF Restart
  <2>2. BaseInv'
    BY <1>1 DEF Restart, BooksInv, BaseInv, Accounted, StockOf
  <2>3. QED
    BY <2>1, <2>2, NoCopies DEF BooksInv
<1>2. ASSUME NEW c \in Codes, UploadWareImage(c)
      PROVE  BooksInv'
  <2>1. BooksGrow
    BY <1>2 DEF UploadWareImage, BooksGrow, TypeInv, TypeOK, DbTypeOK, GhostTypeOK
  <2>2. UNCHANGED <<taken, supply, configWares, pc, wareEntityMap, cut>>
    BY <1>2 DEF UploadWareImage
  <2>3. wares[c] # NoRow /\ Accounted(c, configWares[c], taken[c])
    BY <1>2 DEF UploadWareImage, BooksInv, BaseInv
  <2>4. BaseInv'
    BY <1>2, <2>1, <2>2, <2>3
    DEF UploadWareImage, BooksInv, BaseInv, BooksGrow, Accounted, StockOf,
        TypeInv, TypeOK, DbTypeOK
  <2>5. QED
    BY <2>1, <2>2, <2>4, CopiesStay DEF BooksInv, SameCopies
<1>3. ASSUME UNCHANGED <<wares, supply, taken, configWares, pc, wareEntityMap, cut>>
      PROVE  BooksInv'
  BY <1>3 DEF BooksInv, BaseInv, CopyInv, Accounted
<1>4. QED
  BY <1>1, <1>2, <1>3, RequestBooks, ContinueBooks
  DEF Next, NextDay, Crash, HytradeNoWares, vars

\* However stock-outs overlap, and whatever stale row an edit or an upload
\* writes back, tb_config_ware never loses more than the stock-outs took
\* (ModifyStockOrderRouter.cpp:162-169), as long as no request sets a stock.
THEOREM NoStockIsLost ==
    ASSUME StocksAreNotSet
    PROVE  Spec => []NoStockVanishes
<1>1. Init => TypeInv /\ BooksInv
  BY InitTypeInv, InitBooks
<1>2. (TypeInv /\ BooksInv) /\ [Next]_vars => (TypeInv /\ BooksInv)'
  BY NextTypeInv, NextBooks
<1>3. TypeInv /\ BooksInv => NoStockVanishes
  BY DEF BooksInv, BaseInv, NoStockVanishes
<1>4. QED
  BY <1>1, <1>2, <1>3, PTL DEF Spec
-----------------------------------------------------------------------------
(* When the books balance: every unit that leaves tb_config_ware is one a   *)
(* stock-out took.                                                          *)

\* The points between the first read of a row and its write.
StockPoints == {"outLine", "outUpdateList", "editUpdate"}

\* No two stock-outs or edits of wares overlap there.  Orders may be placed,
\* modified and voided, wares added, calls fail and the process die.
NoOverlap ==
    \A v, w \in Workers :
        pc[v] \in StockPoints /\ pc[w] \in StockPoints => v = w

NoUpload == \A c \in Codes : ~UploadWareImage(c)

\* What a thread holds is the row of now, less its own deduction.
ExactCopy(w) ==
    pc[w] \in StockPoints =>
        \A c \in Codes :
            IF wareEntityMap[w][c] = NoRow
            THEN cut[w][c] = 0
            ELSE wareEntityMap[w][c].stock = StockOf(wares[c]) - cut[w][c]

ExactInv == StockBooksBalance /\ \A w \in Workers : ExactCopy(w)

LEMMA InitExact == Init => ExactInv
  BY StockServerAssumption
  DEF Init, ExactInv, StockBooksBalance, ExactCopy, StockPoints, StockOf,
      NoCut, WareRow

LEMMA StockType ==
    ASSUME TypeInv, NEW c \in Codes
    PROVE  StockOf(wares[c]) \in Int /\ taken[c] \in Nat /\ supply[c] \in Int
  BY DEF TypeInv, TypeOK, DbTypeOK, GhostTypeOK, StockOf, WareRow

LEMMA ExactStays ==
    ASSUME ExactInv, NEW v \in Workers, SameCopies(v),
           \/ pc[v] \notin StockPoints
           \/ \A c \in Codes : wareEntityMap[v][c] # NoRow => wares'[c] = wares[c]
    PROVE  ExactCopy(v)'
  BY DEF ExactInv, ExactCopy, SameCopies, StockOf

\* Steps that leave the books alone.
LEMMA ExactQuiet ==
    ASSUME ExactInv, NEW w \in Workers, UNCHANGED <<wares, supply, taken>>,
           \A v \in Workers \ {w} : SameCopies(v),
           ExactCopy(w)'
    PROVE  ExactInv'
<1>1. \A v \in Workers \ {w} : ExactCopy(v)'
  BY ExactStays
<1>2. QED
  BY <1>1 DEF ExactInv, StockBooksBalance

LEMMA RequestExact ==
    ASSUME StocksAreNotSet, TypeInv, BooksInv, ExactInv, NEW w \in Workers,
           Request(w), ~HytradeNoWares(w)
    PROVE  ExactInv'
<1> USE DEF Accept, loopVars, procVars, ghostVars, dbVars
<1>1. pc[w] = "idle"
  BY DEF Request, HytradeInfo, StockOutFind, ModifyFind, VoidOrder, AddWare,
         EditWareFind
<1>2. wareEntityMap[w] = NoWares /\ cut[w] = NoCut
  BY <1>1 DEF BooksInv, CopyInv, OutPoints
<1>3. cut' = cut /\ \A v \in Workers \ {w} : pc'[v] = pc[v]
  BY DEF Request, HytradeInfo, StockOutFind, ModifyFind, VoidOrder, AddWare,
         EditWareFind, TypeInv, TypeOK, HandlerTypeOK
<1>4. ASSUME UNCHANGED wareEntityMap
      PROVE  ExactCopy(w)'
  BY <1>2, <1>3, <1>4 DEF ExactCopy, NoWares, NoCut
<1>5. ASSUME UNCHANGED <<wares, supply, taken, wareEntityMap>>
      PROVE  ExactInv'
  BY <1>3, <1>4, <1>5, ExactQuiet DEF SameCopies
<1>6. ASSUME NEW q \in EditRequests, EditWareFind(w, q[1], q[2])
      PROVE  ExactInv'
  <2>1. q[1] \in Codes /\ q[2].stock = Keep
    BY StockServerAssumption DEF StocksAreNotSet
  <2>2. CASE UNCHANGED wareEntityMap
    BY <1>5, <1>6, <2>2 DEF EditWareFind
  <2>3. CASE /\ wares[q[1]] # NoRow
             /\ wareEntityMap' = [wareEntityMap EXCEPT
                                    ![w][q[1]] = EditRow(wares[q[1]], q[2])]
    <3>1. EditRow(wares[q[1]], q[2]).stock = wares[q[1]].stock
      BY <2>1 DEF EditRow
    <3>2. \A c \in Codes \ {q[1]} : wareEntityMap'[w][c] = NoRow
      BY <1>2, <2>1, <2>3 DEF TypeInv, TypeOK, HandlerTypeOK, NoWares
    <3>3. wareEntityMap'[w][q[1]].stock = StockOf(wares[q[1]])
      BY <2>1, <2>3, <3>1 DEF TypeInv, TypeOK, HandlerTypeOK, StockOf
    <3>4. UNCHANGED <<wares, supply, taken>>
      BY <1>6 DEF EditWareFind
    <3>5. \A c \in Codes : cut'[w][c] = 0
      BY <1>2, <1>3 DEF NoCut
    <3>6. StockOf(wares[q[1]]) \in Int
      BY <2>1, StockType
    <3>7. ExactCopy(w)'
      <4>1. ASSUME NEW c \in Codes
            PROVE  IF wareEntityMap'[w][c] = NoRow
                   THEN cut'[w][c] = 0
                   ELSE wareEntityMap'[w][c].stock = StockOf(wares'[c]) - cut'[w][c]
        BY <3>2, <3>3, <3>4, <3>5, <3>6
      <4> QED
        BY <4>1, <3>4 DEF ExactCopy, StockOf
    <3>8. \A v \in Workers \ {w} : SameCopies(v)
      BY <1>3, <2>3 DEF SameCopies, TypeInv, TypeOK, HandlerTypeOK
    <3>9. QED
      BY <3>4, <3>7, <3>8, ExactQuiet
  <2>4. QED
    BY <1>6, <2>2, <2>3 DEF EditWareFind
<1>7. ASSUME NEW q \in AddRequests, AddWare(w, q[1], q[2])
      PROVE  ExactInv'
  <2>1. q[1] \in Codes /\ q[2] \in WareRow
    BY StockServerAssumption
  <2>2. CASE UNCHANGED <<wares, supply>>
    BY <1>5, <1>7, <2>2 DEF AddWare
  <2>3. CASE /\ wares[q[1]] = NoRow
             /\ wares' = [wares EXCEPT ![q[1]] = q[2]]
             /\ supply' = [supply EXCEPT ![q[1]] = @ + q[2].stock]
    <3>1. UNCHANGED <<taken, wareEntityMap>>
      BY <1>7 DEF AddWare
    <3>2. StockBooksBalance'
      <4>1. ASSUME NEW c \in Codes
            PROVE  StockOf(wares'[c]) = supply'[c] - taken'[c]
        <5>1. /\ StockOf(wares[c]) = supply[c] - taken[c]
              /\ taken[c] \in Nat /\ supply[c] \in Int
          BY StockType DEF ExactInv, StockBooksBalance
        <5>2. CASE c = q[1]
          <6>1. q[2] # NoRow /\ q[2].stock \in Int
            BY <2>1, NoRowAssumption DEF WareRow
          <6>2. StockOf(wares'[c]) = q[2].stock /\ StockOf(wares[c]) = 0
            BY <2>3, <5>2, <6>1 DEF StockOf, TypeInv, TypeOK, DbTypeOK
          <6>3. supply'[c] = supply[c] + q[2].stock /\ taken'[c] = taken[c]
            BY <2>3, <3>1, <5>2 DEF TypeInv, TypeOK, GhostTypeOK
          <6> QED
            BY <5>1, <6>1, <6>2, <6>3
        <5>3. CASE c # q[1]
          BY <2>3, <3>1, <5>1, <5>3
          DEF StockOf, TypeInv, TypeOK, DbTypeOK, GhostTypeOK
        <5> QED
          BY <5>2, <5>3
      <4> QED
        BY <4>1 DEF StockBooksBalance
    <3>3. \A v \in Workers, c \in Codes :
             wareEntityMap[v][c] # NoRow => wares'[c] = wares[c]
      BY <2>1, <2>3 DEF BooksInv, CopyInv, TypeInv, TypeOK, DbTypeOK
    <3>4. \A v \in Workers \ {w} : ExactCopy(v)'
      BY <1>3, <3>1, <3>3, ExactStays DEF SameCopies
    <3>5. QED
      BY <1>4, <3>1, <3>2, <3>4 DEF ExactInv
  <2>4. QED
    BY <1>7, <2>2, <2>3 DEF AddWare
<1>8. QED
  BY <1>5, <1>6, <1>7
  DEF Request, HytradeInfo, StockOutFind, ModifyFind, VoidOrder

LEMMA StockOutLineExact ==
    ASSUME TypeInv, ExactInv, NEW w \in Workers, StockOutLine(w)
    PROVE  ExactCopy(w)'
<1> USE DEF TypeInv, TypeOK, HandlerTypeOK, GhostTypeOK, DbTypeOK
<1> DEFINE line == Head(todo[w])
<1>1. ASSUME NEW code, Finish(w, code)
      PROVE  ExactCopy(w)'
  BY <1>1 DEF Finish, ExactCopy, StockPoints
<1>2. UNCHANGED wares /\ pc[w] = "outLine"
  BY DEF StockOutLine, dbVars, At
<1>3. ExactCopy(w) /\ pc[w] \in StockPoints
  BY <1>2 DEF ExactInv, StockPoints
<1>4. ASSUME UNCHANGED <<wareEntityMap, cut>>
      PROVE  ExactCopy(w)'
  BY <1>2, <1>3, <1>4 DEF ExactCopy, StockOf
<1>5. ASSUME wareEntityMap[w][line.code] = NoRow, wares[line.code] # NoRow,
             Hold(w, line.code, Deduct(wares[line.code], line)),
             cut' = [cut EXCEPT ![w][line.code] = line.count]
      PROVE  ExactCopy(w)'
  <2>1. line \in Line /\ line.code \in Codes
    BY <1>2, LineAndRow
  <2>2. /\ line.count \in Nat /\ wares[line.code] \in WareRow
        /\ wares[line.code].stock \in Int
    BY <1>5, <2>1 DEF Line, WareRow
  <2>3. wareEntityMap'[w][line.code] = Deduct(wares[line.code], line)
    BY <1>5, <2>1 DEF Hold
  <2>4. Deduct(wares[line.code], line).stock = wares[line.code].stock - line.count
    BY <2>2 DEF Deduct, WareRow
  <2>5. cut'[w][line.code] = line.count
    BY <1>5, <2>1
  <2>6. Deduct(wares[line.code], line) # NoRow
    BY <2>1, <2>2, DeductType, NoRowAssumption
  <2>7. \A c \in Codes \ {line.code} :
            wareEntityMap'[w][c] = wareEntityMap[w][c] /\ cut'[w][c] = cut[w][c]
    BY <1>5, <2>1 DEF Hold
  <2>8. ASSUME NEW c \in Codes
        PROVE  IF wareEntityMap'[w][c] = NoRow
               THEN cut'[w][c] = 0
               ELSE wareEntityMap'[w][c].stock = StockOf(wares[c]) - cut'[w][c]
    <3>1. CASE c = line.code
      BY <1>5, <2>3, <2>4, <2>5, <2>6, <3>1 DEF StockOf
    <3>2. CASE c # line.code
      BY <1>3, <2>7, <3>2 DEF ExactCopy
    <3>3. QED
      BY <3>1, <3>2
  <2>9. QED
    BY <1>2, <2>8 DEF ExactCopy, StockOf
<1>6. QED
  BY <1>1, <1>4, <1>5 DEF StockOutLine, RowFor

\* A write of exact copies, all of whose deductions are counted.
LEMMA WriteExact ==
    ASSUME TypeInv, BooksInv, ExactInv, NoOverlap, NEW w \in Workers,
           WriteWares(w), pc[w] \in StockPoints,
           \A c \in Codes : taken'[c] = taken[c] + cut[w][c],
           UNCHANGED supply,
           \A v \in Workers \ {w} : SameCopies(v)
    PROVE  StockBooksBalance' /\ \A v \in Workers \ {w} : ExactCopy(v)'
<1>1. ASSUME NEW c \in Codes
      PROVE  StockOf(wares'[c]) = supply'[c] - taken'[c]
  <2>1. /\ StockOf(wares[c]) = supply[c] - taken[c]
        /\ StockOf(wares[c]) \in Int /\ taken[c] \in Nat /\ supply[c] \in Int
        /\ cut[w][c] \in Nat
    BY StockType
    DEF ExactInv, StockBooksBalance, TypeInv, TypeOK, GhostTypeOK
  <2>2. CASE wareEntityMap[w][c] # NoRow
    <3>1. wares[c] # NoRow
      BY <2>2 DEF BooksInv, CopyInv
    <3>2. wares'[c] = wareEntityMap[w][c]
      BY <2>2, <3>1 DEF WriteWares
    <3>3. wareEntityMap[w][c].stock = StockOf(wares[c]) - cut[w][c]
      BY <2>2 DEF ExactInv, ExactCopy
    <3>4. StockOf(wares'[c]) = StockOf(wares[c]) - cut[w][c]
      BY <2>2, <3>2, <3>3 DEF StockOf
    <3>5. QED
      BY <2>1, <3>4
  <2>3. CASE wareEntityMap[w][c] = NoRow
    <3>1. wares'[c] = wares[c]
      BY <2>3 DEF WriteWares
    <3>2. cut[w][c] = 0
      BY <2>3 DEF ExactInv, ExactCopy
    <3>3. QED
      BY <2>1, <3>1, <3>2
  <2>4. QED
    BY <2>2, <2>3
<1>2. ASSUME NEW v \in Workers \ {w}
      PROVE  ExactCopy(v)'
  BY ExactStays DEF NoOverlap
<1>3. QED
  BY <1>1, <1>2 DEF StockBooksBalance

LEMMA ContinueExact ==
    ASSUME TypeInv, BooksInv, ExactInv, NoOverlap, NEW w \in Workers, Continue(w)
    PROVE  ExactInv'
<1> USE DEF dbVars, ghostVars, loopVars
<1>1. \A v \in Workers \ {w} : SameCopies(v)
  BY OtherCopies
<1>2. ASSUME pc'[w] \notin StockPoints, UNCHANGED <<wares, supply, taken>>
      PROVE  ExactInv'
  BY <1>1, <1>2, ExactQuiet DEF ExactCopy
<1>3. ASSUME NEW code, Finish(w, code)
      PROVE  pc'[w] \notin StockPoints
  BY <1>3 DEF Finish, StockPoints, TypeInv, TypeOK, HandlerTypeOK
<1>4. CASE HytradeLine(w)
  <2>1. ASSUME Advance(w, "hytradeAdd")
        PROVE  pc'[w] \notin StockPoints
    BY <1>4, <2>1
    DEF HytradeLine, At, Advance, StockPoints, TypeInv, TypeOK, HandlerTypeOK
  <2>2. QED
    BY <1>2, <1>3, <1>4, <2>1 DEF HytradeLine
<1>5. CASE StockOutLine(w)
  BY <1>1, <1>5, StockOutLineExact, ExactQuiet DEF StockOutLine
<1>6. CASE StockOutUpdateList(w)
  <2>1. /\ WriteWares(w) /\ pc[w] \in StockPoints /\ UNCHANGED supply
        /\ pc'[w] \notin StockPoints
        /\ \A c \in Codes : taken'[c] = taken[c] + cut[w][c]
    BY <1>6
    DEF StockOutUpdateList, At, StockPoints, TypeInv, TypeOK, HandlerTypeOK,
        GhostTypeOK
  <2>2. QED
    BY <1>1, <2>1, WriteExact DEF ExactInv, ExactCopy
<1>7. CASE EditWareUpdate(w)
  <2>1. /\ WriteWares(w) /\ pc[w] \in StockPoints /\ UNCHANGED supply
        /\ pc'[w] \notin StockPoints
    BY <1>3, <1>7 DEF EditWareUpdate, At, StockPoints
  <2>2. \A c \in Codes : taken'[c] = taken[c] + cut[w][c]
    BY <1>7
    DEF EditWareUpdate, At, BooksInv, CopyInv, OutPoints, NoCut, TypeInv,
        TypeOK, GhostTypeOK
  <2>3. QED
    BY <1>1, <2>1, <2>2, WriteExact DEF ExactInv, ExactCopy
<1>8. CASE StockOutAdd(w)
  <2>1. pc'[w] \notin StockPoints
    BY <1>3, <1>8 DEF StockOutAdd, StockPoints, TypeInv, TypeOK, HandlerTypeOK
  <2>2. QED
    BY <1>2, <1>8, <2>1 DEF StockOutAdd
<1>9. CASE Reply(w)
  <2>1. pc'[w] \notin StockPoints
    BY <1>9 DEF Reply, StockPoints, TypeInv, TypeOK, HandlerTypeOK
  <2>2. QED
    BY <1>2, <1>9, <2>1 DEF Reply
<1>10. QED
  BY <1>2, <1>3, <1>4, <1>5, <1>6, <1>7, <1>8, <1>9
  DEF Continue, HytradeAdd, StockOutDelete, ModifyUpdate, SqlError

LEMMA NextExact ==
    ASSUME StocksAreNotSet, TypeInv, BooksInv, ExactInv, NoOverlap,
           [Next /\ NoUpload]_vars
    PROVE  ExactInv'
<1> USE DEF dbVars, procVars, ghostVars, loopVars
<1>1. CASE Restart
  BY <1>1 DEF Restart, ExactInv, StockBooksBalance, ExactCopy, StockPoints, StockOf
<1>2. ASSUME UNCHANGED <<wares, supply, taken, pc, wareEntityMap, cut>>
      PROVE  ExactInv'
  BY <1>2 DEF ExactInv, StockBooksBalance, ExactCopy, StockOf
<1>3. QED
  BY <1>1, <1>2, RequestExact, ContinueExact
  DEF Next, NoUpload, NextDay, Crash, HytradeNoWares, vars

\* As long as no two stock-outs or edits of wares overlap between their reads
\* and their write, and no image is uploaded, tb_config_ware holds exactly
\* what it was given less what the stock-outs took: whatever else overlaps,
\* wherever a call fails and the process dies
\* (ModifyStockOrderRouter.cpp:108-169, ModifyConfigWareRouter.cpp:89-118).
THEOREM BooksBalanceUnlessTheyOverlap ==
    ASSUME StocksAreNotSet
    PROVE  Spec /\ []NoOverlap /\ [][NoUpload]_vars => []StockBooksBalance
<1>1. Init => TypeInv /\ BooksInv /\ ExactInv
  BY InitTypeInv, InitBooks, InitExact
<1>2. TypeInv /\ BooksInv /\ [Next]_vars => (TypeInv /\ BooksInv)'
  BY NextTypeInv, NextBooks
<1>3. TypeInv /\ BooksInv /\ ExactInv /\ NoOverlap /\ [Next /\ NoUpload]_vars
        => ExactInv'
  BY NextExact
<1>4. [Next]_vars /\ [NoUpload]_vars => [Next /\ NoUpload]_vars
  OBVIOUS
<1>5. ExactInv => StockBooksBalance
  BY DEF ExactInv
<1>6. QED
  BY <1>1, <1>2, <1>3, <1>4, <1>5, PTL DEF Spec

\* With one thread, and nobody who uploads or edits, it does so always.
THEOREM OneThreadBalances ==
    ASSUME StocksAreNotSet, MaxEdits = 0, \A v, w \in Workers : v = w
    PROVE  Spec => []StockBooksBalance
<1>1. NoOverlap
  BY DEF NoOverlap
<1>2. TypeInv => [NoUpload]_vars
  BY DEF NoUpload, UploadWareImage, TypeInv, TypeOK, ProcTypeOK
<1>3. Spec => []TypeInv
  BY InitTypeInv, NextTypeInv, PTL DEF Spec
<1>4. QED
  BY <1>1, <1>2, <1>3, BooksBalanceUnlessTheyOverlap, PTL
=============================================================================

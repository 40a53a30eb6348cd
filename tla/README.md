# StockServer, specified

StockServer is the in-store stock server of a point-of-sale system (C++/Qt,
cpp-httplib, SQLite through a small ORM). Clients place orders, warehouse staff
stock them out, modify or void them, and wares are maintained over HTTP and in
the server's window. This directory holds TLA+ specifications of it, the TLC
configurations that check them on small instances, and proofs about them that
TLAPS checks.

## The system

| component | state | operations | who calls it |
|---|---|---|---|
| `HytradeInfoRouter` | none of its own | place an order: check each line against `tb_config_ware`, insert into `Temp.db` | HTTP pool threads |
| `ModifyStockOrderRouter` | none | operate 1: stock an order out (take the stock, insert into the business database of the order's day, delete from `Temp.db`); 2: modify its lines; 3: void it | HTTP pool threads |
| `ModifyConfigWareRouter` | none | operate 1: add a ware; 2: modify one | HTTP pool threads |
| `ConfigManager` | `m_configWares`, read once at start | upload the image of a ware; pass signals on to the window | its own thread, from the window |
| `DmlBase`, ORM | a read/write lock for each database | one SQL statement or one batch in a transaction | every handler |
| `DatabaseManager`, `DBBase` | the pool of open databases, a table of connections for each thread | open, create, upgrade, recreate | every handler, at each request |
| `Router`, `HttpServerManager` | thread-local body of the request | dispatch, check, answer; start and stop the server | httplib |
| `ServiceManager`, `AsyncService` | state of each service | load in order, unload in reverse order | `Application`, `MainPageController` |
| `GarbageManager` | a daily timer | remove business databases of 60 days ago and before | its own thread |
| `StockWarePanel`, `MainPageController` | the list of wares shown | init, add, update, upload | the GUI thread, through signals |
| `Application` | one instance, exit, crash handler | launch, exit, restart | `main` |
| query routers | none | list wares, orders to prepare, a report of thirty days, login, heartbeat, download | HTTP pool threads |

An order goes through three databases: `StockServer.db` (`tb_config_ware`, the
stock), `Temp.db` (`tb_order`, the orders to prepare) and one business database
a day (`tb_order`, the sales). Each call of `DmlBase` locks its database for that
call alone; no lock and no transaction covers two calls, and nothing ties the three
databases together. So the difficult behaviour is all between the calls: other
threads run there, a call fails there after others have been written, the
process dies there, and what was read before is written after. A client that
gets no answer asks again, perhaps while its first request still runs.

What makes the components correct:

* stock: never negative; equal to what was supplied less what was taken; taken
  once for each sale and for every line of it;
* orders: not lost between the databases, not brought back after they left
  `Temp.db`, not sold when voided, final when sold;
* requests: each one answered;
* databases: opened once, upgraded completely, not thrown away while they hold
  data;
* a call on a table: one step, all or nothing; its lock released, its transaction ended;
* services: started and stopped in order, requests find what they need, the
  exit does not hang;
* window: each ware listed once, the index it sends names the ware it shows,
  the loading screen goes away.

`PROJECT.json` lists every component, and the hazards of this code line by line.

How the components interact: `main` adds four services to `ServiceManager`, the page
that `Application` shows has them loaded, and the server started when they are. The
pool threads of the server run the routers, which call `DatabaseManager` for a
database and `DmlBase` on it. `ModifyConfigWareRouter` signals its changes to
`ConfigManager`, which signals them to `MainPageController` in the GUI thread; the
uploads of images go the other way.

## The modules

| module | what it is |
|---|---|
| `OrderLines` | rows, lines and orders, and what one turn of the handlers' loops does to them |
| `StockServer` | the state machine: handlers on threads over three databases, failures, crashes, the calendar |
| `StockServerProperties` | the properties, and the refinement mapping to `OrderBook` |
| `OrderBook` | abstract specification: receipts are open, picked, sold, voided |
| `StockServerProofs`, `StockProofs`, `OrderBookProofs` | theorems about orders and sales, about the stock, and that the handlers implement `OrderBook` |
| `Databases` | `DatabaseManager` and `GarbageManager`: opening, creating, upgrading, recovering and removing database files, with its properties |
| `DatabasesProofs`, `PoolProofs` | theorems about `Databases`: who may create a file and what is kept of it; what is in the files handed out |
| `Table` | abstract specification: calls on a table that are one step each |
| `Dml` | `DmlBase`, `DBBase` and the ORM below it: locks, connections, statements, transactions |
| `DmlProofs` | theorems about `Dml`, one of them that it implements `Table` |
| `Services` | `ServiceManager`, `AsyncService`, `HttpServerManager`: actions and state |
| `Application` | the process around them: one instance, exit, crash; the specification and its properties |
| `ApplicationProofs` | theorems about `Application` |
| `WarePanel` | the window's list of wares, and the signals between three threads |
| `WarePanelProofs` | theorems about `WarePanel` |
| `MCStockServer`, `MCDatabases`, `MCDml`, `MCApplication`, `MCWarePanel` | small instances for TLC |

The modules meet where one relies on what another shows. `StockServer` takes a
call of `DmlBase` as one step that does all or nothing: this is `Table`, and `Dml` is
shown to implement it. It takes its databases as open: `Databases` is how they come to
be. That handlers run only while these services run is `RequestsFindServices` of `Application`.

### StockServer and the code

`wares`, `temp` and `business` are the tables, as functions from the primary key
(`code`, `receipt_no`) to a row or `NoRow`. `business` has one table for each day,
and an order carries the day it was placed on, because operate 1 picks the
database by `orderEntity->GetTime().date()`. `configWares` is `m_configWares`.

A thread of the pool is a worker with a program counter, and the locals of its
handler: `orderEntity`, `wareEntityMap`, `tradeErrorWare` (is `tradeErrorWareArr`
not empty), `todo` (the lines the loop has left). A step is one call of `DmlBase`
with the computation around it up to the next call; that computation touches
only the thread's own memory, so where exactly it is put makes no difference.
`pc` names the call that comes next.

| action | code |
|---|---|
| `HytradeInfo`, `HytradeLine`, `HytradeAdd`, `HytradeNoWares` | `HytradeInfoRouter::OnRouteHandler` |
| `StockOutFind`, `StockOutLine`, `StockOutUpdateList`, `StockOutAdd`, `StockOutDelete` | `ModifyStockOrderRouter::OnRouteHandler`, operate 1 |
| `ModifyFind`, `ModifyUpdate` | operate 2 |
| `VoidOrder` | operate 3 |
| `AddWare`, `EditWareFind`, `EditWareUpdate` | `ModifyConfigWareRouter::OnRouteHandler` |
| `UploadWareImage` | `ConfigManager::onUploadWareImage` |
| `SqlError` | any later call of a handler fails: the handler answers at once and undoes nothing |
| `Reply` | `Router::HttpServerHandler` sends the answer |
| `Crash`, `HytradeNoWares` | the process dies and is started again |
| `NextDay` | `QDateTime::currentDateTime()` moves on |

Points where the code is easy to misread, and the model follows it:

* `INSERT` fails on a key that exists; `UPDATE` and `DELETE` of a key that does
  not exist are no errors. So a modification or a deletion of an order that is
  gone answers success, and placing a receipt that is in `Temp.db` is refused.
* `UPDATE` writes every column, not the changed ones: a handler writes back the
  price and the stock it has read.
* `HytradeInfo` deducts every line of an order from its own copy of the row and
  writes nothing; a stock-out deducts the first line of each ware only.
* an order without wares makes `HytradeInfoRouter` use `reponse` before it is
  created: the process dies.
* operate 2 changes the count of the first line with a code.
* an image upload writes the row as `ConfigManager` read it at start.

`cut`, `taken`, `supply`, `committed` and `voided` are history variables: no action
reads them. Some actions have a variant before them ("Variant: ..."): a plausible mistake
in that code. `Next` uses none of them; substituted for the action, each makes
a property fail, which shows that the property depends on that code.

### OrderBook

The promise with threads, databases and failures left out: a receipt is placed
when it is not open, picked while it is open, sold once a day by someone who
picked it, closed only after it was sold, or voided. `ImplementsOrderBook` maps
the receipts in `Temp.db` to `open`, the stock-outs that run to `picking` and the
rows of the business databases to `sold`.

### Databases

`StockServer` takes its databases as open. `Databases` is how they come to be:
`file` is what each file holds (tables, columns and indexes of `tb_order`, the
versions in `tb_version`, orders), `copy` is the one file bad databases are renamed to,
`pool` is `m_databasePool`, `mutex` is `m_mtx`, `inUse` the files some connection is
open to. A step is one SQL statement or one file operation; SQLite commits each
for itself.

| action | code |
|---|---|
| `Ask`, `Lock`, `PutInPool` | `GetBusinessDatabase`, `GetTempDatabase`, `CreateDatabase` |
| `Connect` | `DBBase::Connect` with the integrity check |
| `CreateTable` | `BusinessDB::CreateTable` |
| `UpgradeDatabase`, `RunStatement` | `UpgradeDatabase`, `RegisterTableVersion`, `UpgradeTable`, `UpdateTableVersion`, `CreateTableIndex` |
| `RemoveTemp` | the recovery in `GetTempDatabase` |
| `RemoveCopy`, `Rename` | `RecreateDatabase` |
| `Clean` | `GarbageManager::onClean`, for a file that is old enough; it cannot remove one that is open |
| `Write`, `Damage`, `Restart` | a handler stores an order; a file goes bad; the process ends and this program or a newer one starts |

`FieldVersion` and `Indexed` are the members of an entity; `OrderEntity` has one
version today and its header prepares two more, which is what the upgrade is for.
Three things are easy to overlook: a connection that failed after `Connect` is
never closed, so its file can be neither removed nor renamed (SQLite on Windows
does not share deletion); a query of `tb_version` that fails answers as for a table
that is not registered; a list of tables that cannot be read is an empty list,
and the upgrade of no table succeeds.

### Table and Dml

`Table` is what the handlers take a table of the ORM to be: `table` from keys to
rows, calls that change the rows they name, or answer an error and change
nothing. `Dml` has what is under it: `readers` and `writer` are the `QReadWriteLock`
of a `DBBase`, `connection` its table of connections by thread, `open` and `changed` the
transaction a connection has open, `todo` the rows of a batch left to do.

| action | code |
|---|---|
| `LockForRead`, `LockForWrite` | the lockers at the head of each function of `DmlBase` |
| `Connected`, `NotOpened` | `DBBase::GetSqlDatabase` |
| `Statement`, `StatementFails` | the ORM's functions for one row, for a condition, and the reads |
| `Transaction`, `BatchRow`, `Rollback`, `Commit`, `CommitFails` | `QdOrmDml`'s list functions: `transaction()`, `execBatch`, `rollback()`, `commit()` |
| `Crash` | the process dies; SQLite rolls back what was open |

The ORM looks at the result of neither `transaction()` nor `commit()`. When a COMMIT
fails the call answers success with nothing written, and SQLite either keeps the
transaction, with the file locked for the other threads, or drops it. `silent` records
that this has happened; what is promised until then is promised without it.
A connection that cannot be opened leaves an empty name in the table of
connections, and no later call of that thread works.

### Services and Application

`tasks` are the events posted to the manager's thread, `manager` and `at` where
that thread is in `onLoad` or `onUnload`, `semp` the semaphore of `onLoad`, `thread` what the
thread of each `AsyncService` does, `state` its `m_state`.

| action | code |
|---|---|
| `BeginLoad`, `StartAsync`, `StartSync`, `Acquire`, `EndLoad` | `ServiceManager::onLoad` |
| `Started`, `Finished` | the slots of `QThread::started` and `finished` in `AsyncService`, and that of `signalStarted` in `onLoad` |
| `BeginUnload`, `SkipStopped`, `StopAsync`, `StopSync`, `WaitEnds`, `WaitTimesOut`, `Unloaded` | `ServiceManager::onUnload`; `OnBeforeStop` and `StopService` of the services |
| `OnStartServer`, `AnswerRequest` | `HttpServerManager`, `Router` |
| `Listen`, `AcceptRequest`, `AcceptFails`, `StopListening` | `listen()` of `External/httplib`: the bind, the accept loop, its end when `accept()` fails for good, the pool that is joined before it returns |
| `Start`, `Launch` | a user, `Application::Launch` and the page it loads |
| `OnExit`, `Connect`, `Exec`, `Exited` | `Application::OnExit`, line by line as far as the order matters |
| `Crash`, `Die` | `ApplicationCrashHandler` |

Easy to overlook: the server is started by an event that may run before, while or after
the thread is told to quit; `m_server.stop()` does nothing when the server does not
listen yet; `wait(20000)` may end without the thread, of whichever service, and nobody looks;
`QEventLoop::quit` before `exec` is forgotten.

### WarePanel

`table` is `tb_config_ware`, `toManager` and `toWindow` are the event queues of
`ConfigManager`'s thread and of the GUI thread, `panel` is `StockWarePanel::m_items`
and `configWares` the list `ConfigManager` made when it started. A row of the
panel has a code, and `shows` is the ware whose texts are in it.

| action | code |
|---|---|
| `AddWare`, `ModifyWare`, `Emit` | `ModifyConfigWareRouter`, the writes and then the `emit` |
| `Forward`, `UploadWareImage` | `ConfigManager::onAddConfigWareSuccess`, `onUpdateConfigWareSuccess`, `onUploadWareImage` |
| `OnLoaded`, `OnAdded`, `OnUpdated`, `OnUploaded`, `OnUploadError` | the slots of `MainPageController` with `StockWarePanel`'s `InitWares`, `AddWare`, `UpdateWare` |
| `SelectFirst` | `StockWarePanel.qml`: `onCountChanged` selects the first row |
| `Click`, `OpenDialog`, `AcceptDialog`, `CancelDialog` | the user, in `StockWarePanel.qml` |

The panel puts an added ware in front of its list, and `ConfigManager` keeps the list
it read at the start: from then on an index means one ware here and another there.

## The runs

Threads are interchangeable; symmetry is used in safety runs only.

| run | instance | shows |
|---|---|---|
| `orders` | 2 threads, 1 receipt placed at most twice, 2 wares, 2 days, failures, crashes | `TypeOK`, `SoldWasTaken`, `SuccessMeansSold`, `UpdateListNotEmpty`, `StockOutTakesFirstLines`, `NoOrderLost`, `NoOrderComesBack`, `SalesAreFinal`, `ImplementsOrderBook` |
| `stock` | 2 threads, 2 receipts, gift lines, a ware added, prices changed, images uploaded | `NoStockVanishes`, `StockNeverNegative`, `SoldLeavesTemp` |
| `serial` | 1 thread, 2 receipts placed three times, 2 days, failures, crashes | `StockBooksBalance`, `EveryRequestEnds` |
| `lost_update` | 2 threads, 2 receipts | `StockBooksBalance` fails |
| `void_race` | 2 threads, 1 receipt | `VoidedIsNotSold` fails |
| `placed_again` | 2 threads, 1 receipt placed twice | `VoidedStaysGone` fails |
| `upgrade` | 2 threads, a day and `Temp.db`, 2 versions, files go bad twice, the process ends between calls only | `PoolIsReady`, `PoolIsIndexed`, `EveryCallGetsADatabase`, `RowsAreKept` |
| `put_aside` | 2 threads, an expired day, 2 versions, a bad file, failures and crashes anywhere | `DatabasesTypeOK`, `MutexIsReleased`, `RowsAreKept` |
| `dml` | 2 threads, 2 rows, four calls of eight kinds, statements, connections and COMMITs fail, crashes | `DmlTypeOK`, `TransactionsEnd`, `CallsAreSteps`, `LockIsReleased` |
| `application` | the 4 services of `main`, two of which may fail, a taken port, a failing socket, three services that may be too slow to stop, two launches, a crash | `ApplicationTypeOK`, `RunsInOrder`, `RequestsFindServices`, `SignalsAreTrue`, `ManagerIsFreeAgain`, `ExitEnds` |
| `panel` | 2 threads, 3 wares, 2 modifications, 2 uploads, a `ConfigManager` that may not start | `PanelTypeOK`, `NoWareTwice`, `ShownIsOwn`, `CurrentIsChosen`, `MissingAfterAdd`, `EveryAddIsShown`, `LoadingEnds` |
| `missing_ware` | the same | `MissingDoesNotExist` fails |

**Exceptions in the properties.** Where the code does not keep a promise in a known case, the
property excepts that case and holds in all others; of the case itself it says nothing.
`WritesForAnother` in `NoOrderLost`, and its counterpart in `NoOrderComesBack`: every statement on
`Temp.db` names the receipt and not the order, so a stock-out or a modification that read an order
since voided or sold deletes or overwrites the one placed in its stead, which is lost
(`placed_again`, and the delete at `ModifyStockOrderRouter.cpp:196`). `silent` (a COMMIT
failed) in `TransactionsEnd` and `CallsAreSteps`; `gaveUp` (a thread the unload stopped
waiting for, of any `AsyncService`) in `RunsInOrder`, `RequestsFindServices` and `SignalsAreTrue`; `early` (the services had stopped
before the exit listened for it) in `ExitEnds`; `up` (the window is told of
the wares by a `ConfigManager` that then fails to start) in `EveryAddIsShown` and `LoadingEnds`;
an added ware in `ShownIsOwn` and `MissingAfterAdd`. In `RowsAreKept`: a file removed for its age, not in use,
and the copy put aside, which a thread that recovers a file removes.

**Bounds.** `MaxOrders` bounds the orders placed, `MaxEdits` the modifications
and uploads of wares, `MaxDay` the days. Two threads are enough for every race
of the code, because a handler shares nothing with another but the rows of a
table, and a race is one handler's write between another's read and write; a
receipt placed twice is enough for a stale copy to meet a new order under the
same key; two days for an order stocked out on another day than the one it was
placed on. Counts are not negative, which is a bound: the code takes `toInt()` of what it is sent and
checks nothing, and a negative count would raise the stock (`Line`).
Requests are not bounded: a receipt is stocked out, modified and voided as
often as there is a thread to do it.

`stock` and `lost_update` leave out failures and crashes so that two receipts and
two threads fit; `orders` has them with one receipt, `serial` with one thread.

For `Databases`: `MaxVersion` bounds the versions installed, and two are enough
because each upgrade compares two numbers; in `upgrade` four members give every kind
(old and new, indexed and not). `MaxDamage` is two where the second recovery must get
past the copy of the first. Two threads, because `m_mtx` admits one and what
races is a recovery, which runs without it, against one other call. Restarts
are not bounded.

For `Dml`, `MaxCalls` is four: two calls that overlap, a third that meets what a
failed COMMIT of the first left behind, and a fourth beside it. Two rows are
enough for a list of which one row has run and the other has not. For
`Application`, two launches let a second process meet the instance, one crash lets it
start a third, and two requests are one more than a server needs to be busy. For
`WarePanel`, two wares are listed and a third is added, so that the index of a row
moves; two modifications race on two threads; `MaxUploads` is two because a
second upload must find the window free again. Exits are not bounded.

**Fairness.** `EveryRequestEnds` assumes weak fairness of `Continue(w)` for each
thread: a pool thread that has a request runs, and a call of `DmlBase` returns.
The code justifies it as far as the locks go: each is held for one statement or one
batch and never while another is asked for, which is `LockIsReleased`; that
one assumes of a thread with the lock only that it runs (`Held(t)`).
`MutexIsReleased` assumes the same of `Step(t)`: the statements of a creation return.
That each thread gets `m_mtx` or a database's lock in the end is not claimed: they
are not fair, and failing calls may come without end. `Application` assumes that the
manager's thread, each service's, the GUI thread and a process that was started
run; `WarePanel` that a handler emits after its write and that the two event loops
run. Nothing is assumed of clients, users, requests, crashes, failures or the calendar.

**What TLC refutes.** Four statements of the code's own comments and messages
do not hold; `PROJECT.json` quotes the lines.
`lost_update`: two threads read stock 3, both write 2.
`void_race`: the void is answered with success while a stock-out that has read the order
goes on and inserts the sale.
`placed_again`: a modification reads an order, which is voided with success and its receipt placed
again; its write puts the voided order back, in the place of the accepted one.
`missing_ware`: a ware is added, and the upload for the last row of the list is
answered with "the ware does not exist".

What else the modules show. An order with a ware as item sold and as gift has the first line
deducted only (`ModifyStockOrderRouter.cpp:116`), as `StockOutTakesFirstLines` says. One bad file found by two calls: the first puts it
aside, the second, past its own failed `Connect`, removes the copy with the orders in it
(`DatabaseManager.cpp:140`); `RowsAreKept` admits it and shows that orders are lost in no other way.

What one can learn by changing an instance: a table is registered before its
indexes are created, so with crashes inside a call (`CrashAnywhere = TRUE`)
`PoolIsIndexed` fails for good in `upgrade`. The bad files of two days are put aside under
one name, so with two of them `EveryCallGetsADatabase` fails: one of two threads that do it at once gets no
database. Two more wait for an entity to get a second version, when the process
may die inside a call: a column that was added before the process died is added
again by every later start, which fails; and a table that was created by one
version and not yet registered is taken for new by the next and never gets its
columns, so `PoolIsReady` fails. Also: an update of a ware may overtake its addition between two threads and
is then ignored by the window.

What these races cannot do is as much worth knowing: stale writes only ever
lose deductions (`NoStockVanishes`), never take a stock below zero
(`StockNeverNegative`). An order is lost or brought back in one way only, when its receipt is
placed again while a thread still works on the order that had it before.

## The proofs

They are about each module's `Spec`, for every number of threads, wares, prices,
receipts, days, rows and services, every set of requests and every bound, under the
named assumptions of the modules (the requests have the types the modules give them, counts not
negative among them; the model values are not rows). The properties are the same definitions the runs check.

| theorem | property | rests on |
|---|---|---|
| `TypeCorrect` | `TypeOK` | `TypeInv` |
| `SalesStayFinal` | `SalesAreFinal` | `NothingUndone` |
| `SoldOnlyIfTaken` | `SoldWasTaken` | `SafetyInv` |
| `SuccessIsASale` | `SuccessMeansSold` | `SafetyInv` |
| `UpdateListGetsRows` | `UpdateListNotEmpty` | `SafetyInv` |
| `OrdersAreKept` | `NoOrderLost` | `TempInv` (`SafetyInv`, `UuidInv`, `VoidedInv`) |
| `OrdersStayClosed` | `NoOrderComesBack` | `TempInv` |
| `FirstLinesAreTaken` | `StockOutTakesFirstLines` | `LoopInv` |
| `SoldOrdersLeaveTemp` | `SoldLeavesTemp` | `UuidInv`; `DeleteGoesThrough`, `NoStaleUpdate` of every step |
| `VoidedOrdersStayGone` | `VoidedStaysGone` | `TempInv`; `NoStaleUpdate` of every step |
| `VoidedStaysUnsold` | `VoidedIsNotSold` | `UuidInv`, `GoneInv`; the same and `VoidsAlone` of every step |
| `SoldLeavesTempWithoutModify` | `SoldLeavesTemp` | the same; nothing fails, no order is modified (run `stock`) |
| `OneThreadSellsOnce` | `SoldLeavesTemp`, `VoidedIsNotSold` | the same; nothing fails, one thread |
| `NoNegativeStock` | `StockNeverNegative` | `RemainInv`; no client asks for a negative stock |
| `NoStockIsLost` | `NoStockVanishes` | `BooksInv`; no request sets a stock |
| `BooksBalanceUnlessTheyOverlap` | `StockBooksBalance` | `BooksInv`, `ExactInv`; no request sets a stock; `NoOverlap` in every state, `NoUpload` of every step |
| `OneThreadBalances` | `StockBooksBalance` | the same; one thread, `MaxEdits = 0` (run `serial`) |
| `OrderBookIsImplemented` | `ImplementsOrderBook` | `SafetyInv`, `VoidInv` |
| `DatabasesTypeCorrect` | `DatabasesTypeOK` | inductive as it stands, under `DatabasesAssumption` |
| `BusinessRowsAreKept` | `RowsAreKept` | `DatabasesTypeOK` |
| `PoolIsAlwaysReady` | `PoolIsReady` | `PoolInv`, `NoFailures` |
| `PoolIsAlwaysIndexed` | `PoolIsIndexed` | `PoolInv`, `NoFailures` |
| `CallsGetDatabases` | `EveryCallGetsADatabase` | `PoolInv`, `RecoverInv`, `NoFailures`, `OneFileOfOrders` |
| `PoolIsReadyAfterCrashes` | `PoolIsReady` | `OneVersionInv`; one version, no statement fails |
| `PoolHasItsColumns` | | `OneVersionInv`; one version |
| `DmlTypeCorrect` | `DmlTypeOK` | inductive as it stands |
| `TransactionsAreEnded` | `TransactionsEnd` | `DmlTypeOK` |
| `CallsAreAtomic` | `CallsAreSteps` | both |
| `DmlImplementsTable` | | both; no COMMIT fails |
| `ApplicationTypeCorrect` | `ApplicationTypeOK` | `LifeInv` |
| `ServicesRunInOrder` | `RunsInOrder` | `LifeInv` |
| `RequestsHaveServices` | `RequestsFindServices` | `LifeInv` |
| `SignalsTellTheTruth` | `SignalsAreTrue` | `LifeInv` |
| `PanelTypeCorrect` | `PanelTypeOK` | `PanelInv` |
| `EachWareOnce` | `NoWareTwice` | `PanelInv` |
| `RowsShowTheirOwn` | `ShownIsOwn` | `PanelInv` |
| `CurrentIsTheChosen` | `CurrentIsChosen` | `PanelInv` |
| `MissingOnlyAfterAdd` | `MissingAfterAdd` | `PanelInv`, `IndexInv` |

*Types.* `TypeOK` is not inductive: the loop of a stock-out takes the head of
the lines of an order in `Temp.db`, so orders there must have lines, and so must
the ones handlers are about to write there. `TypeInv` adds `TempHasLines` and
`EntityHasLines`; operate 2 keeps them because `MergeDetail` changes counts only.

*Orders.* `SafetyInv` says what a thread knows at each point of operate 1: when
it calls `UpdateList` its map holds a row (`HeldInv`), after that the stock of its
order has been taken (`TakenInv`), after the insert the business database holds
exactly its order (`SaleInv`), and nobody else answers as a stock-out (`OpInv`). A step
of another thread leaves all this alone because no step removes or changes a
sale or forgets a stock-out (`NothingUndone`). So the proof has one lemma for
each handler's own step, one for the threads that do not move, and the
theorems follow from `SaleInv` at the insert, the delete and the answer.

*Stock.* `StockNeverNegative` is not inductive because any thread may write back
a row it read long ago: `RemainInv` says that of every copy of a row there is,
in the table, in `ConfigManager` and in each handler, none is negative.
`BooksInv` says of each copy a stock-out or an edit holds, and of `ConfigManager`'s,
that it is at least what was supplied less what has been taken, the holder's own
deduction included. Other stock-outs only add to what has been taken, so a copy
that is accounted for stays so however stale it becomes; this is why a lost
update can give stock back and never make it vanish.

*When the books are exact.* TLC refutes `StockBooksBalance` with two threads (`lost_update`), and the
theorem says that the overlap found there is the only cause. `ExactInv` is `BooksInv` with an equality: what a thread
holds of a ware is the row of now less its own deduction. It is kept as long as one
thread at a time is between its reads and its write (`NoOverlap`; placing, voiding and
modifying orders go on beside it) and no image upload writes an old row, whatever fails and
wherever the process dies: a stock-out that stops half way has either written all its
rows or none. With one worker `NoOverlap` holds of itself, which gives what `serial` checks.

*The loop of a stock-out.* `LoopInv` says of the loop what it has done with the lines it has looked at: the wares
among them, and no others, are in the map, each with its first line deducted. So the further lines of a ware, and nothing else, are not
deducted.

*The orders of a receipt.* `NoOrderLost` and `NoOrderComesBack` follow orders by their `uuid`, because a receipt may be placed
again. `UuidInv` (below) tells the new order of a receipt from the old one, and `VoidedInv` says that what is
voided had been placed. With `NoStaleUpdate` no voided order comes back to `Temp.db`, which is what
`placed_again` refutes without it.

*Sold once, voided for good.* An order has a `uuid`, and two orders of one receipt differ in it. `UuidInv` says that an
order is under one receipt, wherever it is stored or held (`OneReceipt`), and that nobody else has one that is being placed
(`PlacedOnce`). `SoldLeavesTemp` then fails in two ways only, and
the theorem excludes just these, as conditions on single steps: the delete at the end of a stock-out fails or is
cut short (`DeleteGoesThrough`), or a modification read before the sale writes its copy
over an order placed since (`NoStaleUpdate`). `GoneInv` says that a voided order is nowhere
and held by nobody who could sell it; a void that comes while a stock-out has the order is
what breaks it (`VoidsAlone`), which is the race of `void_race`. Nothing else in the
code sells a voided order. The two corollaries show instances in which the conditions hold
of themselves.

*Refinement.* Each step maps to one step of the book: the find of a stock-out
picks, its insert sells, its delete closes, and so on; steps that end a
request, failures and crashes map to `Drop`. `VoidInv` (a void is answered by the
call that voids) keeps the set of voided receipts from growing elsewhere.

*Databases.* `DatabasesTypeOK` carries the mutual exclusion: `m_mtx` is held by
the one thread between `Connect` and the pool, its file is in use and not in the pool,
and files in use are there. It is inductive because neither a recovery, which holds
nothing, nor the removal of old files can touch a file in use. The proof handles the own thread of a step once for
all steps of a creation (`CreatingKeeps`) and of a recovery (`RecoveryKeeps`), and
`ControlFromThread` the others. `RowsAreKept` follows step by step, for what the files hold (`KeepsRows`) and for the
copy (`KeepsCopy`); `Temp.db` is removed and is not promised it.

*The pool.* `PoolIsReady` speaks of the files in the pool, and a file is half made before it
gets there. `PoolInv` says how far each thread is with its file (`Working`): new or
complete for some version up to this one until `UpgradeDatabase` has looked at `tb_order`,
and from then on complete but for the statements it has left (`CompleteBut`); so none of them meets a
column or an index that is there, and the file is complete when none is left. Every other file is complete
for some version. `RecoverInv` says that the second attempt of a call finds no bad
file: the file is gone, or a thread is connected to it. Both need `NoFailures`, the
constants of the run `upgrade`: `CreateDatabase` that fails, or a process that dies, between two
statements leaves a file that is complete for no version.

*The pool after crashes.* With one version of the program such a file does no harm, which is what `OneVersionInv` says: a
table is created with all its members, so a table that is there lacks no column, and a file that is in the
pool has been through a whole `UpgradeDatabase`. So `PoolIsReady` holds although the process may die at any
statement, as long as no second version is installed; and where statements fail too, what is handed out still has all its
tables and columns. The indexes are not promised: a table that is registered is not looked at again.

*Calls.* `DmlTypeOK` says which lock a thread holds at each point; two writers, or a
writer and a reader, never hold it. So while a batch runs nobody else changes the
table, and `BatchOK` stays true of it: what the transaction has is the table with
the rows that have run, and each of these rows had been fit to run. At the COMMIT no row is left,
which makes it one step `Do` of `Table`; a rollback makes the call a `Refuse`, and all
other steps of a call are stutters of `Table`. Once a COMMIT has failed, a transaction can outlive its call,
`BatchOK` is lost, and no step of `Table` answers success with nothing done: hence `silent`.

*Services.* `RunsInOrder` is not inductive. `LifeInv` adds where the manager is:
in a load the services before `at` run and those after it are untouched (`LoadOK`), in an unload those
after `at` have stopped or were given up (`UnloadOK`), a service that runs has not been told to stop unless
the manager waits for it or gave it up (`QuitOK`), and one load and
one unload at most are posted in the life of a process (`TasksOK`). There is one
lemma for each step of the manager, and one for each kind of the others.

*Window.* `NoWareTwice` is not inductive, for an added ware comes to the list long after its
insert. `PanelInv` says where it is until then (`PlacesOK`): announced by one handler, or by one event of one
of the two queues, or in the list, or in the list that is still to be loaded; since the insert
fails for a ware that is in the table, none is announced again. `LoadOK` says that nothing
is shown before the wares ConfigManager listed, and that these are the last rows
ever after, which is what the index of an update or of an upload's outcome relies on; `OneUpload`
says that the window is covered while one event is about an upload. `IndexInv` follows the index of the current ware
through the dialog and the queue: as long as no added ware stands in the list it is one of
`ConfigManager`'s. It needs no promise that the list view has selected its first row.

Every invariant and action property of the passing runs is stated by a theorem, those that hold under
conditions together with them; the four refuted statements are met by the theorem that says when the code
does keep them (`BooksBalanceUnlessTheyOverlap`, `VoidedStaysUnsold`, `VoidedOrdersStayGone`,
`MissingOnlyAfterAdd`).
Liveness is out of TLAPS' reach and stays with TLC: `EveryRequestEnds`, `MutexIsReleased`, `LockIsReleased`,
`ManagerIsFreeAgain`, `ExitEnds`, `EveryAddIsShown`, `LoadingEnds`.

## Not modelled

* Most of the repository's source is not this program's: vendored httplib, OpenSSL, spdlog,
  courgette and prebuilt libraries make up nearly all its lines. The modules cover the program's own
  parts; a large share of what is left of it builds SQL text, JSON and
  answers, holds the members of entities, or is registered nowhere.
* The `int` the `qint64` stock is compared as, negative counts, amounts, promotions, images, JSON.
* A COMMIT that fails unnoticed is seen in `Dml` only: for `StockServer` an `UpdateList` that answers success has
  written. A `transaction()` that fails for another reason than one that is open (`QdOrmDml.cpp:211`), after
  which the rows of a list are committed one by one, is not in `Dml` either.
* The `m_rwLock` of a service. `Exited` of `Application` takes the detach from the shared memory
  (`Application.cpp:145`) and the end of the process for one step.
* The answers of the query routers. They change no table; that they open, so create,
  databases is `Ask` of `Databases`. `QueryOrderStockListRouter` uses its answer before it
  is created when its query fails: that is a `Crash` of `StockServer`.
* The checks of headers and parameters before a handler runs. The thread-local body
  that stays from an earlier request: no handler of a GET request reads it.
* What a torn read or write of a `QHash` gives: `DatabaseManager` reads its pool without
  `m_mtx`, `DBBase` changes its connections under a read lock. Both are single steps in the modules.
* `StockServer.db` in `Databases`: it is recovered as a business database is.
  A sale of an order sixty days old creates a file that is removed the next night:
  intended as far as one can tell, and `RowsAreKept` exempts such files once they are not in use.
* The texts of a row of the window beyond whose they are; the order of two updates of one ware.
* The handlers and services nobody registers (`HandoverRouter`, `DataHandleManager`,
  `RemoteManager`, ...), the HTTP client, logging.

## The plan

1. Done: the order and ware handlers, the abstract order book, the first proofs.
2. Done: `Databases`, with `GarbageManager` and its safety proved.
3. Done: `Dml` and `Table`, with the refinement proved. Left: `StockServer` over `Dml`
   in one module, so that a failed COMMIT is seen by the handlers.
4. Done: `Services` and `Application`, with their safety proved.
5. Done: `WarePanel`, with its safety proved.
   Proved since: when the stock books are exact, when a sold order leaves `Temp.db` and a
   voided one stays unsold, what a crash leaves of a database, when an index can be out of range.
6. `Router`: headers, parameters, the missing answers.
7. `OrderLines` against a reference: an order is accepted exactly when the sum
   of its lines of each ware is in stock, for all small orders.
8. Proofs: the books when uploads are let in, with the stock `ConfigManager` read at
   start as the exception; `EveryCallGetsADatabase` with crashes in one version;
   `DmlImplementsTable` for the calls before the first COMMIT that fails.

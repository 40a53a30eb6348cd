--------------------------------- MODULE Dml --------------------------------
(***************************************************************************)
(* DmlBase and what is under it: the calls of several threads on one       *)
(* database, each under the read or write lock of its DBBase, through a    *)
(* connection of the thread's own, in single statements of SQLite that     *)
(* commit themselves or, for lists, in a transaction.  `table' of module   *)
(* Table is what is committed.                                             *)
(***************************************************************************)
EXTENDS Table, Integers

CONSTANTS
    Nobody,
    SqlMayFail,     \* may a statement fail for a reason of its own?
    ConnectMayFail, \* may a connection not be opened?
    CommitMayFail,  \* may a COMMIT fail?
    MaxCalls        \* bound on the calls made

ASSUME DmlAssumption ==
    /\ Nobody \notin Threads
    /\ {SqlMayFail, ConnectMayFail, CommitMayFail} \subseteq BOOLEAN
    /\ MaxCalls \in Nat

VARIABLES
    pc,
    readers, writer, \* who holds m_lock
    connection,      \* m_connectionTable: "none", "open", or "broken", the empty name
    open,            \* is a transaction open on the thread's connection?
    changed,         \* the table as that transaction has changed it
    todo,            \* rows of the list whose statement is yet to run
    calls,
    silent           \* history: a COMMIT failed, and the call answered success

lockVars == <<readers, writer>>
sqlVars == <<open, changed>>
vars == <<tableVars, pc, lockVars, connection, sqlVars, todo, calls, silent>>

Init ==
    /\ table = Nothing
    /\ TableInit
    /\ pc = [t \in Threads |-> "idle"]
    /\ readers = {}
    /\ writer = Nobody
    /\ connection = [t \in Threads |-> "none"]
    /\ open = [t \in Threads |-> FALSE]
    /\ changed = [t \in Threads |-> Nothing]
    /\ todo = [t \in Threads |-> {}]
    /\ calls = 0
    /\ silent = FALSE

At(t, point) == pc[t] = point
GoTo(t, point) == pc' = [pc EXCEPT ![t] = point]

\* The rows as the thread's connection has them.
View(t) == IF open[t] THEN changed[t] ELSE table

\* The file is locked: a connection with an open transaction keeps the others
\* from writing.
Busy(t) == \E u \in Threads \ {t} : open[u]

Unlock(t) ==
    /\ readers' = readers \ {t}
    /\ writer' = IF writer = t THEN Nobody ELSE writer

\* The call returns, and the locker's destructor unlocks.
Return(t, a) ==
    /\ Answer(t, a)
    /\ GoTo(t, "idle")
    /\ Unlock(t)
    /\ todo' = [todo EXCEPT ![t] = {}]
    /\ UNCHANGED calls

\* The call's statement for some rows: in the open transaction or, there being
\* none, for good.
Run(t, keys) ==
    /\ \A k \in keys : Fits(call[t], View(t)[k])
    /\ call[t].op \in Writes => ~Busy(t)
    /\ IF open[t]
       THEN /\ changed' = [changed EXCEPT ![t] = Written(call[t], keys, @)]
            /\ UNCHANGED table
       ELSE /\ table' = Written(call[t], keys, table)
            /\ UNCHANGED changed

Fails(t, keys) ==
    \/ SqlMayFail
    \/ \E k \in keys : ~Fits(call[t], View(t)[k])
    \/ call[t].op \in Writes /\ Busy(t)

\* The transaction is over, with its changes taken or not.
Close(t) ==
    /\ open' = [open EXCEPT ![t] = FALSE]
    /\ changed' = [changed EXCEPT ![t] = Nothing]

-----------------------------------------------------------------------------

Ask(t) ==
    /\ At(t, "idle")
    /\ calls < MaxCalls
    /\ calls' = calls + 1
    /\ Begin(t)
    /\ GoTo(t, "lock")
    /\ UNCHANGED <<lockVars, connection, sqlVars, todo, silent>>

\* QReadLocker
LockForRead(t) ==
    /\ At(t, "lock")
    /\ call[t].op \in Reads
    /\ writer = Nobody
    /\ readers' = readers \cup {t}
    /\ GoTo(t, "connect")
    /\ UNCHANGED <<tableVars, writer, connection, sqlVars, todo, calls, silent>>

\* Variant: a write takes the lock for reading.
LockShared(t) ==
    /\ At(t, "lock")
    /\ call[t].op \in Writes
    /\ writer = Nobody
    /\ readers' = readers \cup {t}
    /\ GoTo(t, "connect")
    /\ UNCHANGED <<tableVars, writer, connection, sqlVars, todo, calls, silent>>

\* QWriteLocker
LockForWrite(t) ==
    /\ At(t, "lock")
    /\ call[t].op \in Writes
    /\ writer = Nobody /\ readers = {}
    /\ writer' = t
    /\ GoTo(t, "connect")
    /\ UNCHANGED <<tableVars, readers, connection, sqlVars, todo, calls, silent>>

\* GetSqlDatabase, for a thread with a connection or that gets one.
Connected(t) ==
    /\ At(t, "connect")
    /\ connection[t] \in {"none", "open"}
    /\ connection' = [connection EXCEPT ![t] = "open"]
    /\ GoTo(t, IF call[t].many THEN "transaction" ELSE "statement")
    /\ UNCHANGED <<tableVars, lockVars, sqlVars, todo, calls, silent>>

\* Variant: the lock is kept when there is no connection.
NotOpenedLocked(t) ==
    /\ At(t, "connect")
    /\ \/ connection[t] = "broken"
       \/ connection[t] = "none" /\ ConnectMayFail
    /\ connection' = [connection EXCEPT ![t] = "broken"]
    /\ Answer(t, "error")
    /\ GoTo(t, "idle")
    /\ UNCHANGED <<table, seen, lockVars, sqlVars, todo, calls, silent>>

\* ... or does not, now and at every later call: operator[] of the table of
\* connections leaves an empty name there, which contains() finds.
NotOpened(t) ==
    /\ At(t, "connect")
    /\ \/ connection[t] = "broken"
       \/ connection[t] = "none" /\ ConnectMayFail
    /\ connection' = [connection EXCEPT ![t] = "broken"]
    /\ Return(t, "error")
    /\ UNCHANGED <<table, seen, sqlVars, silent>>

\* An SQL statement for one or more rows that commits itself, if no transaction
\* is open.
Statement(t) ==
    /\ At(t, "statement")
    /\ Run(t, call[t].keys)
    /\ seen' = [seen EXCEPT ![t] = Seen(call[t], View(t))]
    /\ Return(t, "ok")
    /\ UNCHANGED <<open, connection, silent>>

StatementFails(t) ==
    /\ At(t, "statement")
    /\ Fails(t, call[t].keys)
    /\ Return(t, "error")
    /\ UNCHANGED <<table, seen, sqlVars, connection, silent>>

\* Variant: a list is written without a transaction.
NoTransaction(t) ==
    /\ At(t, "transaction")
    /\ todo' = [todo EXCEPT ![t] = call[t].keys]
    /\ GoTo(t, "batch")
    /\ UNCHANGED <<tableVars, lockVars, connection, sqlVars, calls, silent>>

\* transaction(), whose result is not looked at: with one open it fails.
Transaction(t) ==
    /\ At(t, "transaction")
    /\ open' = [open EXCEPT ![t] = TRUE]
    /\ changed' = [changed EXCEPT ![t] = View(t)]
    /\ todo' = [todo EXCEPT ![t] = call[t].keys]
    /\ GoTo(t, "batch")
    /\ UNCHANGED <<tableVars, lockVars, connection, calls, silent>>

\* execBatch, one row.
BatchRow(t) ==
    /\ At(t, "batch")
    /\ \E k \in todo[t] :
          /\ Run(t, {k})
          /\ todo' = [todo EXCEPT ![t] = @ \ {k}]
    /\ UNCHANGED <<call, answer, seen, pc, lockVars, connection, open, calls, silent>>

\* Variant: no rollback.
NoRollback(t) ==
    /\ At(t, "batch")
    /\ todo[t] # {}
    /\ Fails(t, todo[t])
    /\ Return(t, "error")
    /\ UNCHANGED <<table, seen, sqlVars, connection, silent>>

\* A row fails; rollback().
Rollback(t) ==
    /\ At(t, "batch")
    /\ todo[t] # {}
    /\ Fails(t, todo[t])
    /\ Close(t)
    /\ Return(t, "error")
    /\ UNCHANGED <<table, seen, connection, silent>>

Commit(t) ==
    /\ At(t, "batch")
    /\ todo[t] = {}
    /\ table' = View(t)
    /\ seen' = [seen EXCEPT ![t] = Nothing]
    /\ Close(t)
    /\ Return(t, "ok")
    /\ UNCHANGED <<connection, silent>>

\* commit() fails, which is not looked at: SQLite keeps the transaction open, or
\* rolls it back.
CommitFails(t) ==
    /\ At(t, "batch")
    /\ todo[t] = {}
    /\ CommitMayFail
    /\ silent' = TRUE
    /\ Close(t) \/ UNCHANGED sqlVars
    /\ seen' = [seen EXCEPT ![t] = Nothing]
    /\ Return(t, "ok")
    /\ UNCHANGED <<table, connection>>

\* Restarted, the process has no connection; SQLite rolls back what was open.
Crash ==
    /\ Die
    /\ pc' = [t \in Threads |-> "idle"]
    /\ readers' = {}
    /\ writer' = Nobody
    /\ connection' = [t \in Threads |-> "none"]
    /\ open' = [t \in Threads |-> FALSE]
    /\ changed' = [t \in Threads |-> Nothing]
    /\ todo' = [t \in Threads |-> {}]
    /\ silent' = FALSE
    /\ UNCHANGED calls

-----------------------------------------------------------------------------

Held(t) ==
    \/ Connected(t) \/ NotOpened(t)
    \/ Statement(t) \/ StatementFails(t)
    \/ Transaction(t) \/ BatchRow(t) \/ Rollback(t)
    \/ Commit(t) \/ CommitFails(t)

Next ==
    \/ \E t \in Threads : Ask(t) \/ LockForRead(t) \/ LockForWrite(t) \/ Held(t)
    \/ Crash

\* A thread that holds the lock goes on.
Fairness == \A t \in Threads : WF_vars(Held(t))

Spec == Init /\ [][Next]_vars /\ Fairness

-----------------------------------------------------------------------------

ValuesOK ==
    /\ table \in Contents
    /\ call \in [Threads -> Calls \cup {NoCall}]
    /\ answer \in [Threads -> {"none", "ok", "error"}]
    /\ seen \in [Threads -> Contents]
    /\ pc \in [Threads -> {"idle", "lock", "connect", "statement", "transaction", "batch"}]
    /\ readers \subseteq Threads
    /\ writer \in Threads \cup {Nobody}
    /\ connection \in [Threads -> {"none", "open", "broken"}]
    /\ open \in [Threads -> BOOLEAN]
    /\ changed \in [Threads -> Contents]
    /\ todo \in [Threads -> SUBSET Keys]
    /\ calls \in Nat
    /\ silent \in BOOLEAN

Inside == {"connect", "statement", "transaction", "batch"}
Holds(t) == t \in readers \/ writer = t

ThreadOK(t) ==
    /\ pc[t] = "idle" <=> call[t] = NoCall
    /\ pc[t] \in Inside <=> Holds(t)
    /\ t \in readers => call[t].op \in Reads
    /\ writer = t => call[t].op \in Writes
    /\ pc[t] = "statement" => ~call[t].many
    /\ pc[t] \in {"transaction", "batch"} => call[t].many
    /\ pc[t] \in {"statement", "transaction", "batch"} => connection[t] = "open"
    /\ pc[t] = "batch" => open[t] /\ todo[t] \subseteq call[t].keys
    /\ pc[t] # "batch" => todo[t] = {}
    /\ open[t] => connection[t] = "open"

\* The type of every variable, and what a thread holds at each point of a call:
\* the lock its call needs, alone if it writes, and an open connection.
DmlTypeOK ==
    /\ ValuesOK
    /\ writer # Nobody => readers = {}
    /\ \A t \in Threads : ThreadOK(t)

\* A transaction is open for the rows of a list call that have run, which it has
\* changed, the others being as in the table.
BatchOK(t) ==
    /\ \A k \in call[t].keys \ todo[t] : Fits(call[t], table[k])
    /\ changed[t] = Written(call[t], call[t].keys \ todo[t], table)

TransactionOK(t) == open[t] => pc[t] = "batch" /\ BatchOK(t)

\* No transaction outlives the call that began it, nor does anybody change the
\* table under it, as long as no COMMIT fails: transactions need the lock for
\* writing, and every way out of a list call ends its transaction
\* (QdOrmDml.cpp:211-223).
TransactionsEnd ==
    ~silent => \A t \in Threads : TransactionOK(t)

\* Each call on a table is one step that does all or nothing, whatever threads
\* overlap, fail or die, as long as no COMMIT fails: the handlers may be read
\* that way (DmlBase.h).
CallsAreSteps == [][silent' \/ TableNext]_tableVars

\* The lock of a database is released, whatever the call comes to.
LockIsReleased == \A t \in Threads : Holds(t) ~> ~Holds(t)
=============================================================================

------------------------------ MODULE Databases -----------------------------
(***************************************************************************)
(* DatabaseManager: how a database file of orders is opened, its tables    *)
(* created, upgraded and registered, and what is done with a file that     *)
(* cannot be opened.  Handlers on several threads ask for the databases of *)
(* days ("business") and for Temp.db ("temp").                             *)
(*                                                                         *)
(* A step is one SQL statement or one file operation; each is committed    *)
(* for itself, and the process may die between any two.  SQLite opens its  *)
(* files without sharing deletion, on the platform the project builds for  *)
(* (StockServer.vcxproj): a file in use is neither removed nor renamed.    *)
(***************************************************************************)
EXTENDS Integers

CONSTANTS
    Threads,
    Files,         \* the database files
    Kind,          \* which GetDatabase it is of: "temp" or "business"
    NumColumns,    \* length of ormMetaMembers of OrderEntity
    FieldVersion,  \* QdOrmMember::fieldVersion of each
    Expired,       \* the files of days 60 days ago or more
    Indexed,       \* the members with setIsIndex(true)
    Rows,          \* orders
    Absent, Nobody,
    FirstVersion,  \* version of the program installed first
    MaxVersion,    \* bound on the versions installed
    MaxDamage,     \* bound on the damaged files
    SqlMayFail,    \* may a statement fail for a reason of its own?
    CrashAnywhere  \* may the process die while a database is being created?

Versions == 1 .. MaxVersion
Columns == 1 .. NumColumns

ASSUME DatabasesAssumption ==
    /\ Kind \in [Files -> {"temp", "business"}]
    /\ Expired \subseteq {f \in Files : Kind[f] = "business"}
    /\ NumColumns \in Nat
    /\ FieldVersion \in [Columns -> Versions]
    /\ Indexed \subseteq Columns
    /\ FirstVersion \in Versions
    /\ MaxVersion \in Nat
    /\ MaxDamage \in Nat
    /\ SqlMayFail \in BOOLEAN
    /\ CrashAnywhere \in BOOLEAN
    /\ Nobody \notin Threads \cup Files

Tables == {"tb_version", "tb_order"}

\* What is in a file: the tables, the columns and indexes of tb_order, the
\* rows of tb_version (0: the table is not registered) and of tb_order.
File == [good : BOOLEAN, tables : SUBSET Tables, columns : SUBSET Columns,
         indexes : SUBSET Columns, version : [Tables -> {0} \cup Versions],
         rows : SUBSET Rows]

ASSUME AbsentAssumption == Absent \notin File

Empty == [good |-> TRUE, tables |-> {}, columns |-> {}, indexes |-> {},
          version |-> [tbl \in Tables |-> 0], rows |-> {}]

\* A statement of UpgradeTable or CreateTableIndex; the update of tb_version
\* comes after those of all members.
Statement == [member : Columns, kind : {"ALTER", "INDEX"}]
UpdateTableVersion == [member |-> NumColumns + 1, kind |-> "VERSION"]

VARIABLES
    file,    \* what each file holds
    copy,    \* what "error_Bussiness.db" holds
    program, \* VERSION constant of OrderEntity in the program that runs
    damages,
    \* DatabaseManager
    pool,    \* m_databasePool
    inUse,   \* files some connection of the process is open to
    mutex,   \* m_mtx
    \* the call each thread is in
    pc,
    name,    \* fileName
    again,   \* is it the second CreateDatabase of the call?
    todo,    \* tables UpgradeDatabase has yet to look at
    left     \* statements the loop over the members has yet to run

diskButFile == <<copy, program, damages>>
diskVars == <<file, diskButFile>>
loopVars == <<todo, left>>
vars == <<diskVars, pool, inUse, mutex, pc, name, again, loopVars>>

Points == {"idle", "lock", "connect", "create", "table", "members",
           "recover", "rename"}

\* Between Connect and the end of CreateDatabase.
Creating == {"create", "table", "members"}

\* The members OrderEntity has in the program that runs.
Members == {c \in Columns : FieldVersion[c] <= program}

\* QdOrmClass::version; tb_version has had one version only.
ClassVersion(tbl) == IF tbl = "tb_order" THEN program ELSE 1

Init ==
    /\ file = [f \in Files |-> Absent]
    /\ copy = Absent
    /\ program = FirstVersion
    /\ damages = 0
    /\ pool = {}
    /\ inUse = {}
    /\ mutex = Nobody
    /\ pc = [t \in Threads |-> "idle"]
    /\ name = [t \in Threads |-> Nobody]
    /\ again = [t \in Threads |-> FALSE]
    /\ todo = [t \in Threads |-> {}]
    /\ left = [t \in Threads |-> {}]

-----------------------------------------------------------------------------

At(t, point) == pc[t] = point
GoTo(t, point) == pc' = [pc EXCEPT ![t] = point]

\* The call returns, with a database or without.
Return(t) ==
    /\ GoTo(t, "idle")
    /\ name' = [name EXCEPT ![t] = Nobody]
    /\ again' = [again EXCEPT ![t] = FALSE]
    /\ todo' = [todo EXCEPT ![t] = {}]
    /\ left' = [left EXCEPT ![t] = {}]

\* Variant: CreateDatabase fails and keeps m_mtx.
FailHolding(t) ==
    /\ IF again[t] THEN Return(t)
       ELSE /\ GoTo(t, "recover")
            /\ todo' = [todo EXCEPT ![t] = {}]
            /\ left' = [left EXCEPT ![t] = {}]
            /\ UNCHANGED <<name, again>>
    /\ UNCHANGED mutex

\* CreateDatabase returns a null pointer.  The connection it opened stays in
\* the table of Qt: nothing closes it.
Fail(t) ==
    /\ mutex' = Nobody
    /\ IF again[t] THEN Return(t)
       ELSE /\ GoTo(t, "recover")
            /\ todo' = [todo EXCEPT ![t] = {}]
            /\ left' = [left EXCEPT ![t] = {}]
            /\ UNCHANGED <<name, again>>

\* GetBusinessDatabase or GetTempDatabase, of a file not in the pool.
Ask(t, f) ==
    /\ At(t, "idle")
    /\ f \notin pool
    /\ GoTo(t, "lock")
    /\ name' = [name EXCEPT ![t] = f]
    /\ UNCHANGED <<diskVars, pool, inUse, mutex, again, loopVars>>

\* Variant: CreateDatabase does not wait for m_mtx.
LockNot(t) ==
    /\ At(t, "lock")
    /\ mutex' = t
    /\ GoTo(t, "connect")
    /\ UNCHANGED <<diskVars, pool, inUse, name, again, loopVars>>

\* CreateDatabase: some other thread may have opened the file meanwhile.
Lock(t) ==
    /\ At(t, "lock")
    /\ mutex = Nobody
    /\ \/ /\ name[t] \in pool
          /\ Return(t)
          /\ UNCHANGED mutex
       \/ /\ name[t] \notin pool
          /\ mutex' = t
          /\ GoTo(t, "connect")
          /\ UNCHANGED <<name, again, loopVars>>
    /\ UNCHANGED <<diskVars, pool, inUse>>

\* DBBase::Connect: SQLite creates a file that is not there; a file that does
\* not pass the integrity check is closed again.
Connect(t) ==
    LET f == name[t]
    IN  /\ At(t, "connect")
        /\ \/ file' = [file EXCEPT ![f] = IF @ = Absent THEN Empty ELSE @]
           \/ SqlMayFail /\ UNCHANGED file
        /\ \/ /\ file'[f] # Absent
              /\ file'[f].good
              /\ inUse' = inUse \cup {f}
              /\ GoTo(t, "create")
              /\ UNCHANGED <<mutex, name, again, loopVars>>
           \/ /\ SqlMayFail \/ (file'[f] # Absent /\ ~file'[f].good)
              /\ Fail(t)
              /\ UNCHANGED inUse
        /\ UNCHANGED <<diskButFile, pool>>

\* The list UpgradeDatabase goes through; Qt answers with the empty list when
\* it cannot read the names of the tables.
TablesOfUpgrade(t) ==
    \E tables \in {Tables} \cup (IF SqlMayFail THEN {{}} ELSE {}) :
        todo' = [todo EXCEPT ![t] = tables]

\* BusinessDB::CreateTable: the tables that are missing, tb_version first.
CreateTable(t) ==
    LET f == name[t]
        missing == Tables \ file[f].tables
    IN  /\ At(t, "create")
        /\ \/ /\ missing = {}
              /\ GoTo(t, "table")
              /\ TablesOfUpgrade(t)
              /\ UNCHANGED <<file, mutex, name, again, left>>
           \/ /\ "tb_version" \in missing
              /\ file' = [file EXCEPT ![f].tables = @ \cup {"tb_version"}]
              /\ UNCHANGED <<mutex, pc, name, again, loopVars>>
           \/ /\ missing = {"tb_order"}
              /\ file' = [file EXCEPT ![f].tables = @ \cup {"tb_order"},
                                      ![f].columns = Members]
              /\ UNCHANGED <<mutex, pc, name, again, loopVars>>
           \/ /\ SqlMayFail
              /\ Fail(t)
              /\ UNCHANGED file
        /\ UNCHANGED <<diskButFile, pool, inUse>>

\* Variant: a member of the version after the recorded one is left out.
UpgradesLate(seen) ==
    {s \in Statement : /\ s.member \in Members
                       /\ FieldVersion[s.member] > seen + 1
                       /\ s.kind = "INDEX" => s.member \in Indexed}
    \cup {UpdateTableVersion}

\* Variant: UpgradeTable creates no index.
UpgradesOfColumns(seen) ==
    {s \in Statement : /\ s.member \in Members
                       /\ FieldVersion[s.member] > seen
                       /\ s.kind = "ALTER"}
    \cup {UpdateTableVersion}

\* UpgradeTable and then UpdateTableVersion, of a table registered with seen.
Upgrades(seen) ==
    {s \in Statement : /\ s.member \in Members
                       /\ FieldVersion[s.member] > seen
                       /\ s.kind = "INDEX" => s.member \in Indexed}
    \cup {UpdateTableVersion}

\* CreateTableIndex, of a table that was not registered.
NewIndexes(tbl) ==
    IF tbl = "tb_order"
    THEN {s \in Statement : s.kind = "INDEX" /\ s.member \in Indexed \cap Members}
    ELSE {}

\* Go on with these statements for tbl, then with the next table.
Statements(t, tbl, statements) ==
    /\ todo' = [todo EXCEPT ![t] = @ \ {tbl}]
    /\ left' = [left EXCEPT ![t] = statements]
    /\ GoTo(t, IF statements = {} THEN "table" ELSE "members")

\* UpgradeDatabase, at one table of its list.  QueryTableVersion that fails
\* answers as for a table that is not registered.
UpgradeDatabase(t, tbl) ==
    LET f == name[t]
    IN  /\ At(t, "table")
        /\ tbl \in todo[t]
        /\ \E seen \in {file[f].version[tbl]} \cup (IF SqlMayFail THEN {0} ELSE {}) :
           \/ /\ seen >= ClassVersion(tbl)
              /\ Statements(t, tbl, {})
              /\ UNCHANGED <<file, mutex, name, again>>
           \/ /\ 0 < seen /\ seen < ClassVersion(tbl)
              /\ Statements(t, tbl, Upgrades(seen))
              /\ UNCHANGED <<file, mutex, name, again>>
           \/ /\ seen = 0
              /\ file' = [file EXCEPT ![f].version[tbl] =
                              IF @ = 0 THEN ClassVersion(tbl) ELSE @]
              /\ Statements(t, tbl, NewIndexes(tbl))
              /\ UNCHANGED <<mutex, name, again>>
           \/ /\ SqlMayFail
              /\ Fail(t)
              /\ UNCHANGED file
        /\ UNCHANGED <<diskButFile, pool, inUse>>

\* A column or an index that is there already makes its statement fail.
Fits(s, content) ==
    CASE s.kind = "ALTER" -> s.member \notin content.columns
      [] s.kind = "INDEX" -> s.member \notin content.indexes
      [] s.kind = "VERSION" -> TRUE

Done(s, content) ==
    CASE s.kind = "ALTER" -> [content EXCEPT !.columns = @ \cup {s.member}]
      [] s.kind = "INDEX" -> [content EXCEPT !.indexes = @ \cup {s.member}]
      [] s.kind = "VERSION" -> [content EXCEPT !.version["tb_order"] = program]

\* The statements run in the order of the members, a column before its index.
Before(r, s) ==
    \/ r.member < s.member
    \/ r.member = s.member /\ r.kind = "ALTER" /\ s.kind = "INDEX"

\* One statement of the loops over ormMetaMembers.
RunStatement(t) ==
    LET f == name[t]
    IN  /\ At(t, "members")
        /\ \E s \in left[t] :
              /\ \A r \in left[t] \ {s} : Before(s, r)
              /\ \/ /\ Fits(s, file[f])
                    /\ file' = [file EXCEPT ![f] = Done(s, @)]
                    /\ left' = [left EXCEPT ![t] = @ \ {s}]
                    /\ GoTo(t, IF left[t] = {s} THEN "table" ELSE "members")
                    /\ UNCHANGED <<mutex, name, again, todo>>
                 \/ /\ ~Fits(s, file[f]) \/ SqlMayFail
                    /\ Fail(t)
                    /\ UNCHANGED file
        /\ UNCHANGED <<diskButFile, pool, inUse>>

\* CreateDatabase returns the database it made.
PutInPool(t) ==
    /\ At(t, "table")
    /\ todo[t] = {}
    /\ pool' = pool \cup {name[t]}
    /\ mutex' = Nobody
    /\ Return(t)
    /\ UNCHANGED <<diskVars, inUse>>

-----------------------------------------------------------------------------
\* CreateDatabase failed the first time; m_mtx is not held here.

\* GetTempDatabase: QFile::remove.
RemoveTemp(t) ==
    LET f == name[t]
    IN  /\ At(t, "recover")
        /\ Kind[f] = "temp"
        /\ file' = [file EXCEPT ![f] = IF f \in inUse THEN @ ELSE Absent]
        /\ again' = [again EXCEPT ![t] = TRUE]
        /\ GoTo(t, "lock")
        /\ UNCHANGED <<diskButFile, pool, inUse, mutex, name, loopVars>>

\* Variant: the copy of an earlier call is kept.
RemoveCopyNot(t) ==
    /\ At(t, "recover")
    /\ Kind[name[t]] = "business"
    /\ GoTo(t, "rename")
    /\ UNCHANGED <<diskVars, pool, inUse, mutex, name, again, loopVars>>

\* RecreateDatabase: the copy an earlier call made of this or another file
\* is removed ...
RemoveCopy(t) ==
    /\ At(t, "recover")
    /\ Kind[name[t]] = "business"
    /\ copy' = Absent
    /\ GoTo(t, "rename")
    /\ UNCHANGED <<file, program, damages, pool, inUse, mutex, name, again, loopVars>>

\* Variant: the bad file is removed, as Temp.db is.
RenameNot(t) ==
    LET f == name[t]
    IN  /\ At(t, "rename")
        /\ file' = [file EXCEPT ![f] = IF f \in inUse THEN @ ELSE Absent]
        /\ again' = [again EXCEPT ![t] = TRUE]
        /\ GoTo(t, "lock")
        /\ UNCHANGED <<copy, program, damages, pool, inUse, mutex, name, loopVars>>

\* ... and the file renamed, which fails, with a line in the log, when it is
\* in use, when it is not there and when there is a copy again.
Rename(t) ==
    LET f == name[t]
    IN  /\ At(t, "rename")
        /\ IF f \notin inUse /\ copy = Absent
           THEN /\ copy' = file[f]
                /\ file' = [file EXCEPT ![f] = Absent]
           ELSE UNCHANGED <<file, copy>>
        /\ again' = [again EXCEPT ![t] = TRUE]
        /\ GoTo(t, "lock")
        /\ UNCHANGED <<program, damages, pool, inUse, mutex, name, loopVars>>

-----------------------------------------------------------------------------
\* What happens around the calls.

\* A handler stores an order in a database it was given.
Write(f, row) ==
    /\ f \in pool
    /\ row \notin file[f].rows
    /\ Members \subseteq file[f].columns
    /\ file' = [file EXCEPT ![f].rows = @ \cup {row}]
    /\ UNCHANGED <<diskButFile, pool, inUse, mutex, pc, name, again, loopVars>>

\* The process ends and the program, or a newer one, starts.
Restart ==
    /\ CrashAnywhere \/ \A t \in Threads : At(t, "idle")
    /\ program' \in program .. MaxVersion
    /\ pool' = {}
    /\ inUse' = {}
    /\ mutex' = Nobody
    /\ pc' = [t \in Threads |-> "idle"]
    /\ name' = [t \in Threads |-> Nobody]
    /\ again' = [t \in Threads |-> FALSE]
    /\ todo' = [t \in Threads |-> {}]
    /\ left' = [t \in Threads |-> {}]
    /\ UNCHANGED <<file, copy, damages>>

\* A file nobody uses goes bad.
Damage(f) ==
    /\ damages < MaxDamage
    /\ f \notin inUse
    /\ file[f] # Absent
    /\ file' = [file EXCEPT ![f].good = FALSE]
    /\ damages' = damages + 1
    /\ UNCHANGED <<copy, program, pool, inUse, mutex, pc, name, again, loopVars>>

\* Variant: GarbageManager removes files of any day.
CleanAll(f) ==
    /\ f \notin inUse
    /\ file' = [file EXCEPT ![f] = Absent]
    /\ UNCHANGED <<diskButFile, pool, inUse, mutex, pc, name, again, loopVars>>

\* Variant: GarbageManager removes a file that is in use.
CleanInUse(f) ==
    /\ f \in Expired
    /\ file' = [file EXCEPT ![f] = Absent]
    /\ UNCHANGED <<diskButFile, pool, inUse, mutex, pc, name, again, loopVars>>

\* GarbageManager::onClean, on its own thread, at one file of its list;
\* QFile::remove fails, unnoticed, when the file is in use.
Clean(f) ==
    /\ f \in Expired
    /\ f \notin inUse
    /\ file' = [file EXCEPT ![f] = Absent]
    /\ UNCHANGED <<diskButFile, pool, inUse, mutex, pc, name, again, loopVars>>

Step(t) ==
    \/ Lock(t)
    \/ Connect(t)
    \/ CreateTable(t)
    \/ \E tbl \in Tables : UpgradeDatabase(t, tbl)
    \/ RunStatement(t)
    \/ PutInPool(t)
    \/ RemoveTemp(t)
    \/ RemoveCopy(t)
    \/ Rename(t)

Next ==
    \/ \E t \in Threads : Step(t) \/ \E f \in Files : Ask(t, f)
    \/ \E f \in Files :
          Damage(f) \/ Clean(f) \/ \E row \in Rows : Write(f, row)
    \/ Restart

\* The system runs every thread; a thread that waits for m_mtx may have to
\* wait for as long as others get it first.
Fairness == \A t \in Threads : WF_vars(Step(t))

Spec == Init /\ [][Next]_vars /\ Fairness

-----------------------------------------------------------------------------

ValuesOK ==
    /\ file \in [Files -> File \cup {Absent}]
    /\ copy \in File \cup {Absent}
    /\ program \in Versions
    /\ damages \in 0 .. MaxDamage
    /\ pool \subseteq inUse
    /\ inUse \subseteq Files
    /\ mutex \in Threads \cup {Nobody}
    /\ pc \in [Threads -> Points]
    /\ name \in [Threads -> Files \cup {Nobody}]
    /\ again \in [Threads -> BOOLEAN]
    /\ todo \in [Threads -> SUBSET Tables]
    /\ left \in [Threads -> SUBSET (Statement \cup {UpdateTableVersion})]

\* What a thread is doing, against what it holds.
ThreadOK(t) ==
    /\ pc[t] = "idle" <=> name[t] = Nobody
    /\ mutex = t <=> pc[t] \in {"connect"} \cup Creating
    /\ mutex = t => name[t] \notin pool
    /\ pc[t] \in Creating => name[t] \in inUse
    /\ left[t] # {} <=> pc[t] = "members"

ControlOK ==
    /\ \A f \in inUse : file[f] # Absent
    /\ \A t \in Threads : ThreadOK(t)

\* Values, and what holds of the control of the threads: one thread at a time
\* creates a database, the one that holds m_mtx, in a file that is not in the
\* pool and to which it is connected; a file in use is never removed.
DatabasesTypeOK == ValuesOK /\ ControlOK

\* A database handed to the handlers has the members of the program that runs
\* as columns and is registered with its version (CreateDatabase).
PoolIsReady ==
    \A f \in pool :
        /\ file[f] # Absent
        /\ file[f].tables = Tables
        /\ file[f].columns = Members
        /\ file[f].version["tb_order"] = program

\* ... and the indexes of these members (CreateTableIndex, UpgradeTable).
PoolIsIndexed == \A f \in pool : file[f].indexes = Indexed \cap Members

\* Where the process ends only between calls: a call never comes back without
\* a database; a bad file is put aside and replaced, whoever else wants it too
\* (RecreateDatabase, GetTempDatabase).  For one file of orders beside Temp.db:
\* two that are bad at once would share one name for the copy put aside.
EveryCallGetsADatabase ==
    [][\A t \in Threads : name[t] \in Files /\ name'[t] \notin Files
            => name[t] \in pool']_vars

KeepsRows ==
    \A f \in Files : file[f] # Absent /\ Kind[f] = "business" =>
        \/ file'[f] # Absent /\ file[f].rows \subseteq file'[f].rows
        \/ copy' # Absent /\ file[f].rows \subseteq copy'.rows
        \/ f \in Expired /\ f \notin inUse /\ pc' = pc

\* The copy is replaced by nothing: it is there as it was, or was removed by a
\* thread that recovers a file.
KeepsCopy ==
    copy # Absent =>
        \/ copy' = copy
        \/ copy' = Absent /\ \E t \in Threads : At(t, "recover")

\* However a file of orders is opened, upgraded and recovered, whatever fails
\* and wherever the process ends, no step takes the orders out of the file
\* other than into the copy put aside (RecreateDatabase); only GarbageManager,
\* and no thread in a call, removes a file with its orders, of a day 60 days ago
\* and with no connection open to it.  The copy does not last: the next recovery
\* removes it, also one that another thread has begun of the very file
\* (DatabaseManager.cpp:140).
RowsAreKept == [][KeepsRows /\ KeepsCopy]_vars

\* Whoever locks m_mtx unlocks it, whatever fails: the other threads, which
\* wait for it without limit, go on.
MutexIsReleased == \A t \in Threads : mutex = t ~> mutex # t
=============================================================================

--------------------------- MODULE DatabasesProofs --------------------------
(***************************************************************************)
(* Theorems about Databases.tla: who may create a database and when, and   *)
(* what a recovery does to the orders of the file it recovers.             *)
(***************************************************************************)
EXTENDS Databases, TLAPS

\* The assumption on Nobody.
LEMMA NobodyFacts == Nobody \notin Threads /\ Nobody \notin Files
BY DatabasesAssumption DEF DatabasesAssumption

\* The points of a call are different strings; stated once.
LEMMA PointFacts ==
    /\ {"idle", "lock", "connect", "create", "table", "members",
        "recover", "rename"} = Points
    /\ Creating = {"create", "table", "members"}
BY DEF Points, Creating

\* A file SQLite has just created is a file.
LEMMA EmptyIsFile == Empty \in File /\ Absent \notin File
BY AbsentAssumption DEF AbsentAssumption, Empty, File

\* Tables and columns are added to a file by CreateTable.
LEMMA TablesAreFile ==
    ASSUME NEW content \in File, NEW tables \in SUBSET Tables,
           NEW columns \in SUBSET Columns
    PROVE  /\ [content EXCEPT !.tables = tables] \in File
           /\ [content EXCEPT !.tables = tables, !.columns = columns] \in File
           /\ [content EXCEPT !.good = FALSE] \in File
BY DEF File

\* A row is added to a file by a handler.
LEMMA RowsAreFile ==
    ASSUME NEW content \in File, NEW rows \in SUBSET Rows
    PROVE  [content EXCEPT !.rows = rows] \in File
BY DEF File

\* A table is registered, or its version raised.
LEMMA VersionIsFile ==
    ASSUME NEW content \in File, NEW tbl \in Tables, NEW v \in {0} \cup Versions
    PROVE  [content EXCEPT !.version[tbl] = v] \in File
BY DEF File

\* A statement leaves a file.
LEMMA DoneIsFile ==
    ASSUME NEW content \in File, NEW s \in Statement \cup {UpdateTableVersion},
           program \in Versions
    PROVE  Done(s, content) \in File
<1>1. CASE s.kind = "ALTER"
  <2>1. s.member \in Columns
    BY <1>1 DEF Statement, UpdateTableVersion
  <2> QED BY <1>1, <2>1 DEF Done, File
<1>2. CASE s.kind = "INDEX"
  <2>1. s.member \in Columns
    BY <1>2 DEF Statement, UpdateTableVersion
  <2> QED BY <1>2, <2>1 DEF Done, File
<1>3. CASE s.kind = "VERSION"
  <2>1. "tb_order" \in Tables
    BY DEF Tables
  <2>2. Done(s, content) = [content EXCEPT !.version["tb_order"] = program]
    BY <1>3 DEF Done
  <2> QED BY <2>1, <2>2, VersionIsFile
<1> QED BY <1>1, <1>2, <1>3 DEF Statement, UpdateTableVersion

-----------------------------------------------------------------------------
\* A step of one thread.

\* The other threads stay where they are.
OthersStay(t) ==
    \A x \in Threads \ {t} : pc'[x] = pc[x] /\ name'[x] = name[x] /\ left'[x] = left[x]

\* m_mtx and the pool change hands in one of three ways.
Handover(t) ==
    \/ mutex' = mutex /\ pool' = pool
    \/ mutex = t /\ mutex' = Nobody
    \/ mutex = Nobody /\ mutex' = t /\ pool' = pool

\* The control of all threads follows from that of the thread that moves.
LEMMA ControlFromThread ==
    ASSUME DatabasesTypeOK, NEW t \in Threads, OthersStay(t), Handover(t),
           inUse \subseteq inUse', \A f \in inUse' : file'[f] # Absent,
           ThreadOK(t)'
    PROVE  ControlOK'
<1>1. ASSUME NEW x \in Threads \ {t}
      PROVE  ThreadOK(x)'
  <2>1. ThreadOK(x) /\ x # Nobody /\ x # t
    BY NobodyFacts DEF DatabasesTypeOK, ControlOK
  <2>2. pc'[x] = pc[x] /\ name'[x] = name[x] /\ left'[x] = left[x]
    BY DEF OthersStay
  <2>3. mutex' = x <=> mutex = x
    BY <2>1 DEF Handover
  <2>4. mutex' = x => pool' = pool
    BY <2>1 DEF Handover
  <2> QED BY <2>1, <2>2, <2>3, <2>4 DEF ThreadOK
<1> QED BY <1>1 DEF ControlOK

\* Where a thread is and what it holds.
LEMMA ThreadFacts ==
    ASSUME DatabasesTypeOK, NEW t \in Threads
    PROVE  /\ t # Nobody
           /\ ValuesOK
           /\ ThreadOK(t)
           /\ pc[t] # "idle" => name[t] \in Files
BY NobodyFacts DEF DatabasesTypeOK, ControlOK, ValuesOK, ThreadOK

\* GoTo moves one thread.
LEMMA GoToFacts ==
    ASSUME pc \in [Threads -> Points], NEW t \in Threads, NEW p \in Points, GoTo(t, p)
    PROVE  /\ pc' \in [Threads -> Points]
           /\ pc'[t] = p
           /\ \A x \in Threads \ {t} : pc'[x] = pc[x]
BY DEF GoTo

\* Return ends the call of one thread.
LEMMA ReturnFacts ==
    ASSUME ValuesOK, NEW t \in Threads, Return(t)
    PROVE  /\ pc' \in [Threads -> Points]
           /\ name' \in [Threads -> Files \cup {Nobody}]
           /\ again' \in [Threads -> BOOLEAN]
           /\ todo' \in [Threads -> SUBSET Tables]
           /\ left' \in [Threads -> SUBSET (Statement \cup {UpdateTableVersion})]
           /\ OthersStay(t)
           /\ pc'[t] = "idle" /\ name'[t] = Nobody /\ left'[t] = {}
<1>1. "idle" \in Points /\ GoTo(t, "idle")
  BY DEF Points, Return
<1>2. /\ pc' \in [Threads -> Points]
      /\ pc'[t] = "idle"
      /\ \A x \in Threads \ {t} : pc'[x] = pc[x]
  BY <1>1, GoToFacts DEF ValuesOK
<1> QED BY <1>2 DEF ValuesOK, Return, OthersStay

\* CreateDatabase fails: the thread lets go of m_mtx.
LEMMA FailFacts ==
    ASSUME DatabasesTypeOK, NEW t \in Threads, Fail(t), pc[t] \in {"connect"} \cup Creating
    PROVE  /\ mutex = t /\ mutex' = Nobody
           /\ pc' \in [Threads -> Points]
           /\ name' \in [Threads -> Files \cup {Nobody}]
           /\ again' \in [Threads -> BOOLEAN]
           /\ todo' \in [Threads -> SUBSET Tables]
           /\ left' \in [Threads -> SUBSET (Statement \cup {UpdateTableVersion})]
           /\ OthersStay(t)
           /\ ThreadOK(t)'
<1>1. t # Nobody /\ ValuesOK /\ ThreadOK(t) /\ mutex = t /\ pc[t] # "idle"
  BY ThreadFacts, PointFacts DEF ThreadOK
<1>2. CASE again[t]
  BY <1>1, <1>2, ReturnFacts, PointFacts DEF Fail, ThreadOK
<1>3. CASE ~again[t]
  <2>1. "recover" \in Points /\ GoTo(t, "recover")
    BY <1>3 DEF Points, Fail
  <2>2. /\ pc' \in [Threads -> Points]
        /\ pc'[t] = "recover"
        /\ \A x \in Threads \ {t} : pc'[x] = pc[x]
    BY <1>1, <2>1, GoToFacts DEF ValuesOK
  <2>3. /\ name' = name /\ again' = again /\ mutex' = Nobody
        /\ todo' \in [Threads -> SUBSET Tables]
        /\ left' \in [Threads -> SUBSET (Statement \cup {UpdateTableVersion})]
        /\ left'[t] = {}
        /\ \A x \in Threads \ {t} : left'[x] = left[x]
    BY <1>1, <1>3 DEF Fail, ValuesOK
  <2> QED BY <1>1, <2>2, <2>3, PointFacts DEF ValuesOK, OthersStay, ThreadOK
<1> QED BY <1>2, <1>3

-----------------------------------------------------------------------------
\* Each step keeps DatabasesTypeOK.

\* A handler asks for a database.
LEMMA AskKeeps ==
    ASSUME DatabasesTypeOK, NEW t \in Threads, NEW f \in Files, Ask(t, f)
    PROVE  DatabasesTypeOK'
<1>1. t # Nobody /\ ValuesOK /\ ThreadOK(t)
  BY ThreadFacts
<1>2. "lock" \in Points /\ GoTo(t, "lock") /\ pc[t] = "idle"
  BY DEF Points, Ask, At
<1>3. /\ pc' \in [Threads -> Points]
      /\ pc'[t] = "lock"
      /\ \A x \in Threads \ {t} : pc'[x] = pc[x]
  BY <1>1, <1>2, GoToFacts DEF ValuesOK
<1>4. ValuesOK'
  BY <1>1, <1>3 DEF ValuesOK, Ask, diskVars, diskButFile, loopVars
<1>5. ThreadOK(t)' /\ OthersStay(t)
  BY <1>1, <1>2, <1>3, PointFacts, NobodyFacts
  DEF ValuesOK, Ask, diskVars, diskButFile, loopVars, ThreadOK, OthersStay
<1>6. Handover(t) /\ inUse' = inUse /\ file' = file
  BY DEF Ask, diskVars, Handover
<1>7. ControlOK'
  BY <1>5, <1>6, ControlFromThread DEF DatabasesTypeOK, ControlOK
<1> QED BY <1>4, <1>7 DEF DatabasesTypeOK

\* A thread gets m_mtx, or finds the database in the pool.
LEMMA LockKeeps ==
    ASSUME DatabasesTypeOK, NEW t \in Threads, Lock(t)
    PROVE  DatabasesTypeOK'
<1>1. t # Nobody /\ ValuesOK /\ ThreadOK(t) /\ pc[t] = "lock" /\ mutex = Nobody
  BY ThreadFacts DEF Lock, At
<1>2. file' = file /\ inUse' = inUse /\ pool' = pool /\ UNCHANGED diskButFile
  BY DEF Lock, diskVars
<1>3. CASE name[t] \in pool /\ Return(t) /\ UNCHANGED mutex
  <2>1. ValuesOK' /\ OthersStay(t) /\ ThreadOK(t)'
    BY <1>1, <1>2, <1>3, ReturnFacts, PointFacts DEF ValuesOK, ThreadOK, diskButFile
  <2>2. ControlOK'
    BY <1>2, <1>3, <2>1, ControlFromThread DEF Handover, DatabasesTypeOK, ControlOK
  <2> QED BY <2>1, <2>2 DEF DatabasesTypeOK
<1>4. CASE /\ name[t] \notin pool /\ mutex' = t /\ GoTo(t, "connect")
           /\ UNCHANGED <<name, again, loopVars>>
  <2>1. /\ pc' \in [Threads -> Points]
        /\ pc'[t] = "connect"
        /\ \A x \in Threads \ {t} : pc'[x] = pc[x]
    BY <1>1, <1>4, GoToFacts, PointFacts DEF ValuesOK
  <2>2. ValuesOK' /\ OthersStay(t) /\ ThreadOK(t)'
    BY <1>1, <1>2, <1>4, <2>1, PointFacts
    DEF ValuesOK, ThreadOK, diskButFile, loopVars, OthersStay
  <2>3. ControlOK'
    BY <1>1, <1>2, <1>4, <2>2, ControlFromThread DEF Handover, DatabasesTypeOK, ControlOK
  <2> QED BY <2>2, <2>3 DEF DatabasesTypeOK
<1> QED BY <1>3, <1>4 DEF Lock

\* The thread with m_mtx opens the file.
LEMMA ConnectKeeps ==
    ASSUME DatabasesTypeOK, NEW t \in Threads, Connect(t)
    PROVE  DatabasesTypeOK'
<1> DEFINE f == name[t]
<1>1. /\ t # Nobody /\ ValuesOK /\ ThreadOK(t) /\ pc[t] = "connect" /\ f \in Files
      /\ mutex = t /\ f \notin pool
  BY ThreadFacts, PointFacts DEF Connect, At, ThreadOK
<1>2. /\ file' \in [Files -> File \cup {Absent}]
      /\ \A g \in Files : file[g] # Absent => file'[g] # Absent
  BY <1>1, EmptyIsFile DEF Connect, ValuesOK
<1>3. pool' = pool /\ UNCHANGED diskButFile
  BY DEF Connect
<1>4. CASE /\ file'[f] # Absent /\ inUse' = inUse \cup {f} /\ GoTo(t, "create")
           /\ UNCHANGED <<mutex, name, again, loopVars>>
  <2>1. /\ pc' \in [Threads -> Points]
        /\ pc'[t] = "create"
        /\ \A x \in Threads \ {t} : pc'[x] = pc[x]
    BY <1>1, <1>4, GoToFacts, PointFacts DEF ValuesOK
  <2>2. ValuesOK'
    BY <1>1, <1>2, <1>3, <1>4, <2>1 DEF ValuesOK, diskButFile, loopVars
  <2>3. OthersStay(t) /\ ThreadOK(t)'
    BY <1>1, <1>3, <1>4, <2>1, PointFacts DEF ThreadOK, loopVars, OthersStay
  <2>4. \A g \in inUse' : file'[g] # Absent
    BY <1>1, <1>2, <1>4 DEF DatabasesTypeOK, ControlOK, ValuesOK
  <2>5. ControlOK'
    BY <1>3, <1>4, <2>3, <2>4, ControlFromThread DEF Handover
  <2> QED BY <2>2, <2>5 DEF DatabasesTypeOK
<1>5. CASE Fail(t) /\ UNCHANGED inUse
  <2>1. ValuesOK'
    BY <1>1, <1>2, <1>3, <1>5, FailFacts DEF ValuesOK, diskButFile
  <2>2. OthersStay(t) /\ ThreadOK(t)' /\ Handover(t)
    BY <1>1, <1>5, FailFacts DEF Handover
  <2>3. \A g \in inUse' : file'[g] # Absent
    BY <1>1, <1>2, <1>5 DEF DatabasesTypeOK, ControlOK, ValuesOK
  <2>4. ControlOK'
    BY <1>5, <2>2, <2>3, ControlFromThread
  <2> QED BY <2>1, <2>4 DEF DatabasesTypeOK
<1> QED BY <1>4, <1>5 DEF Connect

\* A step of CreateTable or UpgradeDatabase on the thread's own file, after
\* which the thread goes on or has failed.
LEMMA CreatingKeeps ==
    ASSUME DatabasesTypeOK, NEW t \in Threads, pc[t] \in Creating,
           NEW content \in File,
           file' = file \/ file' = [file EXCEPT ![name[t]] = content],
           UNCHANGED <<diskButFile, pool, inUse>>,
           \/ Fail(t)
           \/ /\ pc' \in [Threads -> Points]
              /\ pc'[t] \in Creating
              /\ \A x \in Threads \ {t} : pc'[x] = pc[x]
              /\ UNCHANGED <<mutex, name, again>>
              /\ todo' \in [Threads -> SUBSET Tables]
              /\ left' \in [Threads -> SUBSET (Statement \cup {UpdateTableVersion})]
              /\ \A x \in Threads \ {t} : left'[x] = left[x]
              /\ left'[t] # {} <=> pc'[t] = "members"
    PROVE  DatabasesTypeOK'
<1> DEFINE f == name[t]
<1>1. /\ t # Nobody /\ ValuesOK /\ ThreadOK(t) /\ f \in inUse
      /\ mutex = t /\ f \notin pool
  BY ThreadFacts DEF ThreadOK
<1>2. /\ file' \in [Files -> File \cup {Absent}]
      /\ \A g \in Files : file[g] # Absent => file'[g] # Absent
  BY <1>1, EmptyIsFile DEF ValuesOK
<1>3. \A g \in inUse' : file'[g] # Absent
  BY <1>1, <1>2 DEF DatabasesTypeOK, ControlOK, ValuesOK
<1>4. CASE Fail(t)
  <2>1. ValuesOK'
    BY <1>1, <1>2, <1>4, FailFacts DEF ValuesOK, diskButFile
  <2>2. OthersStay(t) /\ ThreadOK(t)' /\ Handover(t)
    BY <1>1, <1>4, FailFacts DEF Handover
  <2>3. ControlOK'
    BY <1>3, <2>2, ControlFromThread
  <2> QED BY <2>1, <2>3 DEF DatabasesTypeOK
<1>5. CASE ~Fail(t)
  <2>1. ValuesOK'
    BY <1>1, <1>2, <1>5 DEF ValuesOK, diskButFile
  <2>2. OthersStay(t) /\ Handover(t)
    BY <1>5 DEF OthersStay, Handover
  <2>3. ThreadOK(t)'
    BY <1>1, <1>5, PointFacts DEF ThreadOK
  <2>4. ControlOK'
    BY <1>3, <2>2, <2>3, ControlFromThread
  <2> QED BY <2>1, <2>4 DEF DatabasesTypeOK
<1> QED BY <1>4, <1>5

\* GoTo, for a thread that has m_mtx.
LEMMA GoToCreating ==
    ASSUME DatabasesTypeOK, NEW t \in Threads, NEW p \in Creating, GoTo(t, p)
    PROVE  /\ pc' \in [Threads -> Points]
           /\ pc'[t] = p
           /\ \A x \in Threads \ {t} : pc'[x] = pc[x]
<1>1. p \in Points /\ pc \in [Threads -> Points]
  BY DEF Creating, Points, DatabasesTypeOK, ValuesOK
<1> QED BY <1>1, GoToFacts

\* What a thread between Connect and the pool works on.
LEMMA CreatingFacts ==
    ASSUME DatabasesTypeOK, NEW t \in Threads, pc[t] \in Creating
    PROVE  /\ ValuesOK /\ ThreadOK(t)
           /\ name[t] \in Files
           /\ file[name[t]] \in File
           /\ mutex = t /\ name[t] \in inUse /\ name[t] \notin pool
<1>1. ValuesOK /\ ThreadOK(t) /\ name[t] \in Files
  BY ThreadFacts, PointFacts
<1>2. mutex = t /\ name[t] \in inUse /\ name[t] \notin pool
  BY <1>1 DEF ThreadOK
<1>3. file[name[t]] # Absent
  BY <1>2 DEF DatabasesTypeOK, ControlOK
<1> QED BY <1>1, <1>2, <1>3 DEF ValuesOK

\* The missing tables are created.
LEMMA CreateTableKeeps ==
    ASSUME DatabasesTypeOK, NEW t \in Threads, CreateTable(t)
    PROVE  DatabasesTypeOK'
<1> DEFINE f == name[t]
<1>1. pc[t] = "create" /\ pc[t] \in Creating
  BY DEF CreateTable, At, Creating
<1>2. ValuesOK /\ ThreadOK(t) /\ file[f] \in File /\ left[t] = {}
  BY <1>1, CreatingFacts DEF ThreadOK
<1>3. UNCHANGED <<diskButFile, pool, inUse>>
  BY DEF CreateTable
<1>4. CASE /\ GoTo(t, "table") /\ TablesOfUpgrade(t)
           /\ UNCHANGED <<file, mutex, name, again, left>>
  <2>1. /\ pc' \in [Threads -> Points]
        /\ pc'[t] = "table"
        /\ \A x \in Threads \ {t} : pc'[x] = pc[x]
    BY <1>4, GoToCreating, PointFacts
  <2>2. todo' \in [Threads -> SUBSET Tables]
    BY <1>2, <1>4 DEF TablesOfUpgrade, ValuesOK
  <2> QED BY <1>1, <1>2, <1>3, <1>4, <2>1, <2>2, CreatingKeeps, PointFacts DEF ValuesOK
<1>5. CASE /\ file' = [file EXCEPT ![f].tables = @ \cup {"tb_version"}]
           /\ UNCHANGED <<mutex, pc, name, again, loopVars>>
  <2> DEFINE content == [file[f] EXCEPT !.tables = @ \cup {"tb_version"}]
  <2>1. content \in File /\ file' = [file EXCEPT ![f] = content]
    BY <1>2, <1>5, TablesAreFile DEF Tables, File
  <2> HIDE DEF content
  <2> QED BY <1>1, <1>2, <1>3, <1>5, <2>1, CreatingKeeps DEF ValuesOK, loopVars
<1>6. CASE /\ file' = [file EXCEPT ![f].tables = @ \cup {"tb_order"},
                                   ![f].columns = Members]
           /\ UNCHANGED <<mutex, pc, name, again, loopVars>>
  <2> DEFINE content == [file[f] EXCEPT !.tables = @ \cup {"tb_order"}, !.columns = Members]
  <2>1. Members \subseteq Columns
    BY DEF Members
  <2>2. content \in File
    BY <1>2, <2>1, TablesAreFile DEF Tables, File
  <2>3. file' = [file EXCEPT ![f] = content]
    BY <1>2, <1>6 DEF ValuesOK
  <2> HIDE DEF content
  <2> QED BY <1>1, <1>2, <1>3, <1>6, <2>2, <2>3, CreatingKeeps DEF ValuesOK, loopVars
<1>7. CASE Fail(t) /\ UNCHANGED file
  BY <1>1, <1>2, <1>3, <1>7, CreatingKeeps
<1> QED BY <1>4, <1>5, <1>6, <1>7 DEF CreateTable

\* UpgradeDatabase goes on with the statements of a table.
LEMMA StatementsFacts ==
    ASSUME DatabasesTypeOK, NEW t \in Threads, NEW tbl \in Tables,
           NEW statements \in SUBSET (Statement \cup {UpdateTableVersion}),
           Statements(t, tbl, statements)
    PROVE  /\ pc' \in [Threads -> Points]
           /\ pc'[t] \in Creating
           /\ \A x \in Threads \ {t} : pc'[x] = pc[x]
           /\ todo' \in [Threads -> SUBSET Tables]
           /\ left' \in [Threads -> SUBSET (Statement \cup {UpdateTableVersion})]
           /\ \A x \in Threads \ {t} : left'[x] = left[x]
           /\ left'[t] # {} <=> pc'[t] = "members"
<1> DEFINE p == IF statements = {} THEN "table" ELSE "members"
<1>1. p \in Creating /\ GoTo(t, p)
  BY DEF Creating, Statements
<1>2. /\ pc' \in [Threads -> Points]
      /\ pc'[t] = p
      /\ \A x \in Threads \ {t} : pc'[x] = pc[x]
  BY <1>1, GoToCreating
<1>3. /\ todo \in [Threads -> SUBSET Tables]
      /\ left \in [Threads -> SUBSET (Statement \cup {UpdateTableVersion})]
      /\ todo' = [todo EXCEPT ![t] = @ \ {tbl}]
      /\ left' = [left EXCEPT ![t] = statements]
  BY DEF DatabasesTypeOK, ValuesOK, Statements
<1> QED BY <1>1, <1>2, <1>3

\* UpgradeDatabase looks at a table.
LEMMA UpgradeDatabaseKeeps ==
    ASSUME DatabasesTypeOK, NEW t \in Threads, NEW tbl \in Tables, UpgradeDatabase(t, tbl)
    PROVE  DatabasesTypeOK'
<1> DEFINE f == name[t]
<1>1. pc[t] = "table" /\ pc[t] \in Creating
  BY DEF UpgradeDatabase, At, Creating
<1>2. ValuesOK /\ file[f] \in File /\ ClassVersion(tbl) \in Versions
  BY <1>1, CreatingFacts, DatabasesAssumption
  DEF ClassVersion, Versions, ValuesOK, DatabasesAssumption
<1>3. UNCHANGED <<diskButFile, pool, inUse>>
  BY DEF UpgradeDatabase
<1>4. ASSUME NEW statements \in SUBSET (Statement \cup {UpdateTableVersion}),
             Statements(t, tbl, statements), UNCHANGED <<mutex, name, again>>,
             NEW content \in File,
             file' = file \/ file' = [file EXCEPT ![f] = content]
      PROVE  DatabasesTypeOK'
  BY <1>1, <1>3, <1>4, StatementsFacts, CreatingKeeps
<1>5. PICK seen : \/ Statements(t, tbl, {}) /\ UNCHANGED <<file, mutex, name, again>>
                  \/ /\ Statements(t, tbl, Upgrades(seen))
                     /\ UNCHANGED <<file, mutex, name, again>>
                  \/ /\ file' = [file EXCEPT ![f].version[tbl] =
                                     IF @ = 0 THEN ClassVersion(tbl) ELSE @]
                     /\ Statements(t, tbl, NewIndexes(tbl))
                     /\ UNCHANGED <<mutex, name, again>>
                  \/ Fail(t) /\ UNCHANGED file
  BY DEF UpgradeDatabase
<1>6. CASE Statements(t, tbl, {}) /\ UNCHANGED <<file, mutex, name, again>>
  BY <1>2, <1>4, <1>6
<1>7. CASE Statements(t, tbl, Upgrades(seen)) /\ UNCHANGED <<file, mutex, name, again>>
  <2>1. Upgrades(seen) \subseteq Statement \cup {UpdateTableVersion}
    BY DEF Upgrades
  <2> QED BY <1>2, <1>4, <1>7, <2>1
<1>8. CASE /\ file' = [file EXCEPT ![f].version[tbl] =
                           IF @ = 0 THEN ClassVersion(tbl) ELSE @]
           /\ Statements(t, tbl, NewIndexes(tbl)) /\ UNCHANGED <<mutex, name, again>>
  <2> DEFINE v == IF file[f].version[tbl] = 0 THEN ClassVersion(tbl)
                  ELSE file[f].version[tbl]
             content == [file[f] EXCEPT !.version[tbl] = v]
  <2>1. v \in {0} \cup Versions
    BY <1>2 DEF File
  <2>2. content \in File
    BY <1>2, <2>1, VersionIsFile
  <2>3. file' = [file EXCEPT ![f] = content]
    BY <1>8
  <2>4. NewIndexes(tbl) \subseteq Statement \cup {UpdateTableVersion}
    BY DEF NewIndexes
  <2> QED BY <1>4, <1>8, <2>2, <2>3, <2>4
<1>9. CASE Fail(t) /\ UNCHANGED file
  BY <1>1, <1>2, <1>3, <1>9, CreatingKeeps
<1> QED BY <1>5, <1>6, <1>7, <1>8, <1>9

\* One statement of UpgradeTable or CreateTableIndex.
LEMMA RunStatementKeeps ==
    ASSUME DatabasesTypeOK, NEW t \in Threads, RunStatement(t)
    PROVE  DatabasesTypeOK'
<1> DEFINE f == name[t]
<1>1. pc[t] = "members" /\ pc[t] \in Creating
  BY DEF RunStatement, At, Creating
<1>2. ValuesOK /\ file[f] \in File /\ program \in Versions
  BY <1>1, CreatingFacts DEF ValuesOK
<1>3. UNCHANGED <<diskButFile, pool, inUse>>
  BY DEF RunStatement
<1>4. PICK s \in left[t] :
        \/ /\ file' = [file EXCEPT ![f] = Done(s, @)]
           /\ left' = [left EXCEPT ![t] = @ \ {s}]
           /\ GoTo(t, IF left[t] = {s} THEN "table" ELSE "members")
           /\ UNCHANGED <<mutex, name, again, todo>>
        \/ Fail(t) /\ UNCHANGED file
  BY DEF RunStatement
<1>5. CASE /\ file' = [file EXCEPT ![f] = Done(s, @)]
           /\ left' = [left EXCEPT ![t] = @ \ {s}]
           /\ GoTo(t, IF left[t] = {s} THEN "table" ELSE "members")
           /\ UNCHANGED <<mutex, name, again, todo>>
  <2> DEFINE p == IF left[t] = {s} THEN "table" ELSE "members"
  <2>1. s \in Statement \cup {UpdateTableVersion}
    BY <1>2, <1>4 DEF ValuesOK
  <2>2. Done(s, file[f]) \in File
    BY <1>2, <2>1, DoneIsFile
  <2>3. file' = [file EXCEPT ![f] = Done(s, file[f])]
    BY <1>5
  <2>4. p \in Creating
    BY DEF Creating
  <2>5. /\ pc' \in [Threads -> Points]
        /\ pc'[t] = p
        /\ \A x \in Threads \ {t} : pc'[x] = pc[x]
    BY <1>5, <2>4, GoToCreating
  <2>6. /\ left' \in [Threads -> SUBSET (Statement \cup {UpdateTableVersion})]
        /\ \A x \in Threads \ {t} : left'[x] = left[x]
        /\ left'[t] = left[t] \ {s}
    BY <1>2, <1>5 DEF ValuesOK
  <2>7. left'[t] # {} <=> pc'[t] = "members"
    BY <1>4, <2>5, <2>6
  <2>8. todo' \in [Threads -> SUBSET Tables] /\ UNCHANGED <<mutex, name, again>>
    BY <1>2, <1>5 DEF ValuesOK
  <2> QED BY <1>1, <1>3, <2>2, <2>3, <2>4, <2>5, <2>6, <2>7, <2>8, CreatingKeeps
<1>6. CASE Fail(t) /\ UNCHANGED file
  BY <1>1, <1>2, <1>3, <1>6, CreatingKeeps
<1> QED BY <1>4, <1>5, <1>6

\* The database is handed out.
LEMMA PutInPoolKeeps ==
    ASSUME DatabasesTypeOK, NEW t \in Threads, PutInPool(t)
    PROVE  DatabasesTypeOK'
<1>1. pc[t] = "table" /\ pc[t] \in Creating
  BY DEF PutInPool, At, Creating
<1>2. ValuesOK /\ ThreadOK(t) /\ mutex = t /\ name[t] \in inUse /\ t # Nobody
  BY <1>1, CreatingFacts, NobodyFacts
<1>3. /\ pool' = pool \cup {name[t]} /\ mutex' = Nobody /\ Return(t)
      /\ UNCHANGED <<diskVars, inUse>>
  BY DEF PutInPool
<1>4. ValuesOK' /\ OthersStay(t)
  BY <1>2, <1>3, ReturnFacts DEF ValuesOK, diskVars, diskButFile
<1>5. ThreadOK(t)'
  BY <1>2, <1>3, ReturnFacts, PointFacts DEF ThreadOK
<1>6. ControlOK'
  BY <1>2, <1>3, <1>4, <1>5, ControlFromThread
  DEF Handover, diskVars, DatabasesTypeOK, ControlOK
<1> QED BY <1>4, <1>6 DEF DatabasesTypeOK

\* A step of a recovery: it changes files, but none in use.
LEMMA RecoveryKeeps ==
    ASSUME DatabasesTypeOK, NEW t \in Threads, NEW p \in {"lock", "rename"},
           pc[t] \in {"recover", "rename"}, GoTo(t, p),
           file' \in [Files -> File \cup {Absent}],
           copy' \in File \cup {Absent},
           again' \in [Threads -> BOOLEAN],
           \A f \in inUse : file'[f] = file[f],
           UNCHANGED <<program, damages, pool, inUse, mutex, name, loopVars>>
    PROVE  DatabasesTypeOK'
<1>1. ValuesOK /\ ThreadOK(t)
  BY ThreadFacts
<1>2. p \in Points
  BY DEF Points
<1>3. /\ pc' \in [Threads -> Points]
      /\ pc'[t] = p
      /\ \A x \in Threads \ {t} : pc'[x] = pc[x]
  BY <1>1, <1>2, GoToFacts DEF ValuesOK
<1>4. ValuesOK'
  BY <1>1, <1>3 DEF ValuesOK, loopVars
<1>5. ThreadOK(t)' /\ OthersStay(t) /\ Handover(t)
  BY <1>1, <1>3, PointFacts DEF ThreadOK, OthersStay, Handover, loopVars
<1>6. \A f \in inUse' : file'[f] # Absent
  BY DEF DatabasesTypeOK, ControlOK
<1>7. ControlOK'
  BY <1>5, <1>6, ControlFromThread
<1> QED BY <1>4, <1>7 DEF DatabasesTypeOK

\* Temp.db is removed.
LEMMA RemoveTempKeeps ==
    ASSUME DatabasesTypeOK, NEW t \in Threads, RemoveTemp(t)
    PROVE  DatabasesTypeOK'
<1>1. /\ file' \in [Files -> File \cup {Absent}]
      /\ \A f \in inUse : file'[f] = file[f]
      /\ copy' \in File \cup {Absent}
      /\ again' \in [Threads -> BOOLEAN]
  BY DEF DatabasesTypeOK, ValuesOK, RemoveTemp, diskButFile
<1> QED BY <1>1, RecoveryKeeps DEF RemoveTemp, At, diskButFile

\* The copy of an earlier recovery is removed.
LEMMA RemoveCopyKeeps ==
    ASSUME DatabasesTypeOK, NEW t \in Threads, RemoveCopy(t)
    PROVE  DatabasesTypeOK'
<1>1. /\ file' \in [Files -> File \cup {Absent}]
      /\ \A f \in inUse : file'[f] = file[f]
      /\ copy' \in File \cup {Absent}
      /\ again' \in [Threads -> BOOLEAN]
  BY DEF DatabasesTypeOK, ValuesOK, RemoveCopy
<1> QED BY <1>1, RecoveryKeeps DEF RemoveCopy, At

\* The file is put aside.
LEMMA RenameKeeps ==
    ASSUME DatabasesTypeOK, NEW t \in Threads, Rename(t)
    PROVE  DatabasesTypeOK'
<1>1. ValuesOK /\ name[t] \in Files /\ pc[t] = "rename"
  BY ThreadFacts DEF Rename, At
<1>2. /\ file' \in [Files -> File \cup {Absent}]
      /\ \A f \in inUse : file'[f] = file[f]
      /\ copy' \in File \cup {Absent}
  BY <1>1 DEF ValuesOK, Rename
<1>3. again' \in [Threads -> BOOLEAN]
  BY <1>1 DEF ValuesOK, Rename
<1> QED BY <1>1, <1>2, <1>3, RecoveryKeeps DEF Rename

\* The content of a file changes while no thread moves.
LEMMA ContentKeeps ==
    ASSUME DatabasesTypeOK, NEW f \in Files, NEW content \in File,
           file' = [file EXCEPT ![f] = content], damages' \in 0 .. MaxDamage,
           UNCHANGED <<copy, program, pool, inUse, mutex, pc, name, again, loopVars>>
    PROVE  DatabasesTypeOK'
<1>1. ValuesOK'
  BY DEF DatabasesTypeOK, ValuesOK, loopVars
<1>2. \A g \in inUse' : file'[g] # Absent
  BY EmptyIsFile DEF DatabasesTypeOK, ValuesOK, ControlOK
<1>3. ASSUME NEW t \in Threads PROVE ThreadOK(t)'
  BY DEF DatabasesTypeOK, ControlOK, ThreadOK, loopVars
<1> QED BY <1>1, <1>2, <1>3 DEF DatabasesTypeOK, ControlOK

\* A handler stores an order.
LEMMA WriteKeeps ==
    ASSUME DatabasesTypeOK, NEW f \in Files, NEW row \in Rows, Write(f, row)
    PROVE  DatabasesTypeOK'
<1> DEFINE content == [file[f] EXCEPT !.rows = @ \cup {row}]
<1>1. file[f] \in File
  BY DEF DatabasesTypeOK, ValuesOK, ControlOK, Write
<1>2. content \in File
  BY <1>1, RowsAreFile DEF File
<1>3. file' = [file EXCEPT ![f] = content]
  BY DEF Write
<1>4. damages' \in 0 .. MaxDamage
  BY DEF DatabasesTypeOK, ValuesOK, Write, diskButFile
<1> HIDE DEF content
<1> QED BY <1>2, <1>3, <1>4, ContentKeeps DEF Write, diskButFile

\* A file goes bad.
LEMMA DamageKeeps ==
    ASSUME DatabasesTypeOK, NEW f \in Files, Damage(f)
    PROVE  DatabasesTypeOK'
<1> DEFINE content == [file[f] EXCEPT !.good = FALSE]
<1>1. file[f] \in File
  BY DEF DatabasesTypeOK, ValuesOK, Damage
<1>2. content \in File
  BY <1>1 DEF File
<1>3. file' = [file EXCEPT ![f] = content]
  BY DEF Damage
<1>4. damages' \in 0 .. MaxDamage
  BY DatabasesAssumption DEF DatabasesAssumption, DatabasesTypeOK, ValuesOK, Damage
<1> HIDE DEF content
<1> QED BY <1>2, <1>3, <1>4, ContentKeeps DEF Damage

\* GarbageManager removes a file nobody uses.
LEMMA CleanKeeps ==
    ASSUME DatabasesTypeOK, NEW f \in Files, Clean(f)
    PROVE  DatabasesTypeOK'
<1>1. ValuesOK'
  BY DEF DatabasesTypeOK, ValuesOK, Clean, diskButFile, loopVars
<1>2. \A g \in inUse' : file'[g] # Absent
  BY DEF DatabasesTypeOK, ValuesOK, ControlOK, Clean
<1>3. ASSUME NEW t \in Threads PROVE ThreadOK(t)'
  BY DEF DatabasesTypeOK, ControlOK, ThreadOK, Clean, loopVars
<1> QED BY <1>1, <1>2, <1>3 DEF DatabasesTypeOK, ControlOK

\* The program starts again.
LEMMA RestartKeeps ==
    ASSUME DatabasesTypeOK, Restart
    PROVE  DatabasesTypeOK'
<1>1. program' \in Versions
  BY DatabasesAssumption
  DEF DatabasesAssumption, Restart, DatabasesTypeOK, ValuesOK, Versions
<1>2. ValuesOK'
  BY <1>1 DEF DatabasesTypeOK, ValuesOK, Restart, Points
<1>3. ControlOK'
  BY NobodyFacts, PointFacts DEF Restart, ControlOK, ThreadOK
<1> QED BY <1>2, <1>3 DEF DatabasesTypeOK

\* A step that changes nothing.
LEMMA StutterKeeps ==
    ASSUME DatabasesTypeOK, UNCHANGED vars
    PROVE  DatabasesTypeOK'
<1> USE DEF vars, diskVars, diskButFile, loopVars
<1>1. ValuesOK'
  BY DEF DatabasesTypeOK, ValuesOK
<1>2. ASSUME NEW t \in Threads PROVE ThreadOK(t)'
  BY DEF DatabasesTypeOK, ControlOK, ThreadOK
<1> QED BY <1>1, <1>2 DEF DatabasesTypeOK, ControlOK

-----------------------------------------------------------------------------

\* Nothing is open and no file is there.
LEMMA StartIsOK == Init => DatabasesTypeOK
<1> SUFFICES ASSUME Init PROVE DatabasesTypeOK
  OBVIOUS
<1>1. ValuesOK
  BY DatabasesAssumption DEF DatabasesAssumption, Init, ValuesOK, Points
<1>2. ControlOK
  BY NobodyFacts, PointFacts DEF Init, ControlOK, ThreadOK
<1> QED BY <1>1, <1>2 DEF DatabasesTypeOK

\* For any threads, files, members, versions and failures: values have their
\* types, one thread at a time creates a database, and no file in use is
\* removed or renamed.
THEOREM DatabasesTypeCorrect == Spec => []DatabasesTypeOK
<1>1. ASSUME DatabasesTypeOK, [Next]_vars
      PROVE  DatabasesTypeOK'
  <2>1. ASSUME NEW t \in Threads, Step(t)
        PROVE  DatabasesTypeOK'
    BY <1>1, <2>1, LockKeeps, ConnectKeeps, CreateTableKeeps, UpgradeDatabaseKeeps,
       RunStatementKeeps, PutInPoolKeeps, RemoveTempKeeps, RemoveCopyKeeps, RenameKeeps
    DEF Step
  <2> QED BY <1>1, <2>1, AskKeeps, DamageKeeps, CleanKeeps, WriteKeeps, RestartKeeps, StutterKeeps
          DEF Next
<1> QED BY <1>1, StartIsOK, PTL DEF Spec

-----------------------------------------------------------------------------
\* What a recovery does to the orders in a file.

\* A step that leaves the rows of the one file it changes.
LEMMA RowsStay ==
    ASSUME ValuesOK, NEW f \in Files, NEW content,
           file' = file \/ file' = [file EXCEPT ![f] = content],
           file[f] # Absent => content # Absent /\ file[f].rows \subseteq content.rows
    PROVE  KeepsRows
BY DEF ValuesOK, KeepsRows

\* A step that changes no file.
LEMMA FilesStay ==
    ASSUME file' = file
    PROVE  KeepsRows
BY DEF KeepsRows

\* A statement changes no row of tb_order.
LEMMA DoneKeepsRows ==
    ASSUME NEW content \in File, NEW s \in Statement \cup {UpdateTableVersion}
    PROVE  Done(s, content).rows = content.rows
<1>1. CASE s.kind = "ALTER"
  BY <1>1 DEF Done, File
<1>2. CASE s.kind = "INDEX"
  BY <1>2 DEF Done, File
<1>3. CASE s.kind = "VERSION"
  <2>1. Done(s, content) = [content EXCEPT !.version["tb_order"] = program]
    BY <1>3 DEF Done
  <2> QED BY <2>1 DEF File
<1> QED BY <1>1, <1>2, <1>3 DEF Statement, UpdateTableVersion

\* CreateDatabase keeps the orders of a file that was there.
LEMMA CreateKeepsRows ==
    ASSUME DatabasesTypeOK, NEW t \in Threads,
           \/ Connect(t) \/ CreateTable(t) \/ RunStatement(t)
           \/ \E tbl \in Tables : UpgradeDatabase(t, tbl)
    PROVE  KeepsRows
<1> DEFINE f == name[t]
<1>1. ValuesOK
  BY DEF DatabasesTypeOK
<1>2. CASE Connect(t)
  <2>1. f \in Files
    BY <1>2, ThreadFacts DEF Connect, At
  <2>2. file' = file \/ file' = [file EXCEPT ![f] = IF file[f] = Absent THEN Empty ELSE file[f]]
    BY <1>2 DEF Connect
  <2> QED BY <1>1, <2>1, <2>2, RowsStay
<1>3. CASE CreateTable(t)
  <2>1. f \in Files /\ file[f] \in File
    BY <1>3, CreatingFacts DEF CreateTable, At, Creating
  <2>2. \/ file' = file
        \/ file' = [file EXCEPT ![f] = [file[f] EXCEPT !.tables = @ \cup {"tb_version"}]]
        \/ file' = [file EXCEPT ![f] = [file[f] EXCEPT !.tables = @ \cup {"tb_order"},
                                                       !.columns = Members]]
    BY <1>1, <1>3, <2>1 DEF CreateTable, ValuesOK
  <2> DEFINE one == [file[f] EXCEPT !.tables = @ \cup {"tb_version"}]
             two == [file[f] EXCEPT !.tables = @ \cup {"tb_order"}, !.columns = Members]
  <2>3. one \in File /\ one.rows = file[f].rows /\ one # Absent
    BY <2>1, EmptyIsFile DEF File, Tables
  <2>4. two \in File /\ two.rows = file[f].rows /\ two # Absent
    <3>1. Members \subseteq Columns /\ file[f].tables \cup {"tb_order"} \subseteq Tables
      BY <2>1 DEF Members, File, Tables
    <3>2. two \in File
      BY <2>1, <3>1, TablesAreFile
    <3>3. two.rows = file[f].rows
      BY <2>1 DEF File
    <3> QED BY <3>2, <3>3, EmptyIsFile
  <2>5. file' = file \/ file' = [file EXCEPT ![f] = one] \/ file' = [file EXCEPT ![f] = two]
    BY <2>2
  <2> HIDE DEF one, two
  <2> QED BY <1>1, <2>1, <2>3, <2>4, <2>5, RowsStay
<1>4. CASE RunStatement(t)
  <2>1. f \in Files /\ file[f] \in File /\ program \in Versions
    BY <1>1, <1>4, CreatingFacts DEF RunStatement, At, Creating, ValuesOK
  <2>2. PICK s \in left[t] : file' = file \/ file' = [file EXCEPT ![f] = Done(s, file[f])]
    BY <1>4 DEF RunStatement
  <2>3. s \in Statement \cup {UpdateTableVersion}
    BY <1>1, <2>2 DEF ValuesOK
  <2>4. Done(s, file[f]) # Absent /\ Done(s, file[f]).rows = file[f].rows
    BY <2>1, <2>3, DoneIsFile, DoneKeepsRows, EmptyIsFile
  <2> QED BY <1>1, <2>1, <2>2, <2>4, RowsStay
<1>5. ASSUME NEW tbl \in Tables, UpgradeDatabase(t, tbl)
      PROVE  KeepsRows
  <2>1. f \in Files /\ file[f] \in File /\ ClassVersion(tbl) \in Versions
    BY <1>1, <1>5, CreatingFacts, DatabasesAssumption
    DEF UpgradeDatabase, At, Creating, ClassVersion, Versions, ValuesOK, DatabasesAssumption
  <2> DEFINE v == IF file[f].version[tbl] = 0 THEN ClassVersion(tbl)
                  ELSE file[f].version[tbl]
             content == [file[f] EXCEPT !.version[tbl] = v]
  <2>2. file' = file \/ file' = [file EXCEPT ![f] = content]
    BY <1>5 DEF UpgradeDatabase
  <2>3. v \in {0} \cup Versions
    BY <2>1 DEF File
  <2>4. content \in File /\ content.rows = file[f].rows
    BY <2>1, <2>3, VersionIsFile DEF File
  <2> HIDE DEF content
  <2> QED BY <1>1, <2>1, <2>2, <2>4, RowsStay, EmptyIsFile
<1> QED BY <1>2, <1>3, <1>4, <1>5

\* The file of a day is renamed, with what is in it.
LEMMA RenameKeepsRows ==
    ASSUME ValuesOK, NEW t \in Threads, Rename(t)
    PROVE  KeepsRows
BY DEF ValuesOK, Rename, KeepsRows

\* Temp.db is removed, and no file of a day.
LEMMA RemoveTempKeepsRows ==
    ASSUME ValuesOK, NEW t \in Threads, RemoveTemp(t)
    PROVE  KeepsRows
BY DEF ValuesOK, RemoveTemp, KeepsRows

\* Storing an order and going bad remove no order from a file.
LEMMA ContentKeepsRows ==
    ASSUME DatabasesTypeOK, NEW f \in Files,
           Damage(f) \/ \E row \in Rows : Write(f, row)
    PROVE  KeepsRows
<1>1. ValuesOK /\ file[f] \in File
  BY DEF DatabasesTypeOK, ValuesOK, ControlOK, Damage, Write
<1>2. CASE Damage(f)
  <2> DEFINE content == [file[f] EXCEPT !.good = FALSE]
  <2>1. content \in File /\ content.rows = file[f].rows /\ file' = [file EXCEPT ![f] = content]
    BY <1>1, <1>2 DEF File, Damage
  <2> HIDE DEF content
  <2> QED BY <1>1, <2>1, RowsStay, EmptyIsFile
<1>3. ASSUME NEW row \in Rows, Write(f, row)
      PROVE  KeepsRows
  <2> DEFINE content == [file[f] EXCEPT !.rows = @ \cup {row}]
  <2>1. content \in File /\ file[f].rows \subseteq content.rows
    BY <1>1, RowsAreFile DEF File
  <2>2. file' = [file EXCEPT ![f] = content]
    BY <1>3 DEF Write
  <2> HIDE DEF content
  <2> QED BY <1>1, <2>1, <2>2, RowsStay, EmptyIsFile
<1> QED BY <1>2, <1>3

\* GarbageManager removes a file nobody uses, of a day long past.
LEMMA CleanKeepsRows ==
    ASSUME ValuesOK, NEW f \in Files, Clean(f)
    PROVE  KeepsRows
BY DEF ValuesOK, Clean, KeepsRows

\* The copy goes by RemoveCopy only: Rename does nothing where there is one.
LEMMA StepKeepsCopy ==
    ASSUME Next
    PROVE  KeepsCopy
<1>1. ASSUME copy' = copy
      PROVE  KeepsCopy
  BY <1>1 DEF KeepsCopy
<1>2. ASSUME NEW t \in Threads, Step(t)
      PROVE  KeepsCopy
  <2>1. CASE RemoveCopy(t)
    BY <2>1 DEF RemoveCopy, KeepsCopy
  <2>2. CASE Rename(t)
    BY <2>2 DEF Rename, KeepsCopy
  <2>3. CASE ~RemoveCopy(t) /\ ~Rename(t)
    BY <1>1, <1>2, <2>3
    DEF Step, Lock, Connect, CreateTable, UpgradeDatabase, RunStatement,
        PutInPool, RemoveTemp, diskVars, diskButFile
  <2> QED BY <2>1, <2>2, <2>3
<1> QED
  BY <1>1, <1>2 DEF Next, Ask, Damage, Clean, Write, Restart, diskVars, diskButFile

\* For any threads, files, versions and failures: no step takes an order out
\* of the file of a day other than into the copy put aside, but for the removal
\* by GarbageManager of an old file that is not in use; and the copy goes only
\* when a thread recovers a file.  Temp.db, which is removed, is not promised
\* that.
THEOREM BusinessRowsAreKept == Spec => RowsAreKept
<1>1. ASSUME DatabasesTypeOK, [Next]_vars
      PROVE  [KeepsRows /\ KeepsCopy]_vars
  <2>1. ASSUME NEW t \in Threads, Step(t)
        PROVE  KeepsRows
    <3>1. CASE RemoveTemp(t)
      BY <1>1, <3>1, RemoveTempKeepsRows DEF DatabasesTypeOK
    <3>2. CASE Lock(t) \/ PutInPool(t) \/ RemoveCopy(t)
      BY <3>2, FilesStay DEF Lock, PutInPool, RemoveCopy, diskVars
    <3>3. CASE Rename(t)
      BY <1>1, <3>3, RenameKeepsRows DEF DatabasesTypeOK
    <3> QED BY <1>1, <2>1, <3>1, <3>2, <3>3, CreateKeepsRows DEF Step
  <2>2. ASSUME NEW t \in Threads, NEW f \in Files, Ask(t, f)
        PROVE  KeepsRows
    BY <2>2, FilesStay DEF Ask, diskVars
  <2>3. ASSUME Restart
        PROVE  KeepsRows
    BY <2>3, FilesStay DEF Restart
  <2>4. CASE UNCHANGED vars
    BY <2>4
  <2>5. CASE Next
    <3>1. ASSUME NEW f \in Files, Damage(f) \/ Clean(f) \/ \E row \in Rows : Write(f, row)
          PROVE  KeepsRows
      BY <1>1, <3>1, ContentKeepsRows, CleanKeepsRows DEF DatabasesTypeOK
    <3>2. KeepsRows
      BY <2>1, <2>2, <2>3, <2>5, <3>1 DEF Next
    <3> QED BY <2>5, <3>2, StepKeepsCopy
  <2> QED BY <1>1, <2>4, <2>5
<1> QED BY <1>1, DatabasesTypeCorrect, PTL DEF RowsAreKept, Spec
=============================================================================

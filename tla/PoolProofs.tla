------------------------------ MODULE PoolProofs ----------------------------
(***************************************************************************)
(* What is in the files DatabaseManager hands out, for any threads, files, *)
(* members and versions, where no statement fails for a reason of its own  *)
(* and the process does not die while it creates a database; and, for the  *)
(* one version OrderEntity has, wherever it dies.                          *)
(***************************************************************************)
EXTENDS DatabasesProofs

\* Failures leave files half made: CreateDatabase gives up between statements.
NoFailures == ~SqlMayFail /\ ~CrashAnywhere

\* The members of OrderEntity in the program of version v.
MembersAt(v) == {c \in Columns : FieldVersion[c] <= v}

Alter(c) == [member |-> c, kind |-> "ALTER"]
Index(c) == [member |-> c, kind |-> "INDEX"]

\* What the program of version v makes of a file.
Complete(content, v) ==
    /\ content.tables = Tables
    /\ content.columns = MembersAt(v)
    /\ content.indexes = Indexed \cap MembersAt(v)
    /\ content.version["tb_order"] = v

\* A new file: at most its tables are there.
Fresh(content) ==
    /\ content.indexes = {}
    /\ content.version["tb_order"] = 0
    /\ "tb_order" \in content.tables =>
            content.tables = Tables /\ content.columns = Members

\* What CreateDatabase may find when it looks at tb_order.
Begun(content) == Fresh(content) \/ \E v \in 1 .. program : Complete(content, v)

\* Complete, but for these statements.
CompleteBut(content, statements) ==
    /\ content.tables = Tables
    /\ statements \subseteq {Alter(c) : c \in Members}
                            \cup {Index(c) : c \in Indexed \cap Members}
                            \cup {UpdateTableVersion}
    /\ content.columns = {c \in Members : Alter(c) \notin statements}
    /\ content.indexes = {c \in Indexed \cap Members : Index(c) \notin statements}
    /\ UpdateTableVersion \notin statements => content.version["tb_order"] = program

\* How far a thread is with its file.
Working(t) ==
    LET content == file[name[t]]
    IN  \/ pc[t] = "create" /\ Begun(content)
        \/ /\ pc[t] = "table" /\ "tb_order" \in todo[t]
           /\ content.tables = Tables /\ Begun(content)
        \/ /\ pc[t] \in {"table", "members"} /\ "tb_order" \notin todo[t]
           /\ CompleteBut(content, left[t])

CreatedBy(t, f) == pc[t] \in Creating /\ name[t] = f

\* A file nobody creates is complete for some version, and one of the pool for
\* this one.
PoolInv ==
    /\ \A f \in Files : file[f] # Absent =>
            \/ \E t \in Threads : CreatedBy(t, f)
            \/ \E v \in 1 .. program : Complete(file[f], v)
    /\ \A f \in pool : Complete(file[f], program)
    /\ \A t \in Threads : pc[t] \in Creating => Working(t)

-----------------------------------------------------------------------------
(* Contents.                                                               *)

\* Rows, goodness and the version of tb_version make no difference.
Alike(a, b) ==
    /\ a.tables = b.tables /\ a.columns = b.columns /\ a.indexes = b.indexes
    /\ a.version["tb_order"] = b.version["tb_order"]

LEMMA AlikeFacts ==
    ASSUME NEW a, NEW b, Alike(a, b), program' = program
    PROVE  /\ \A v : Complete(a, v) => Complete(b, v)
           /\ Begun(a) => Begun(b)'
           /\ \A s : CompleteBut(a, s) => CompleteBut(b, s)'
  BY DEF Alike, Complete, Fresh, Begun, CompleteBut, Members

LEMMA CompleteIsCompleteBut ==
    ASSUME NEW a
    PROVE  Complete(a, program) <=> CompleteBut(a, {})
  BY DEF Complete, CompleteBut, Members, MembersAt

-----------------------------------------------------------------------------
(* Steps.                                                                  *)

\* Only the thread with m_mtx creates a database.
LEMMA OneCreates ==
    ASSUME DatabasesTypeOK, NEW t \in Threads, mutex = t
    PROVE  \A x \in Threads \ {t} : pc[x] \notin Creating
  BY DEF DatabasesTypeOK, ControlOK, ThreadOK

\* A step that does not touch what is being created.
Beside ==
    /\ program' = program /\ pool' = pool
    /\ \A t \in Threads : pc'[t] \in Creating <=> pc[t] \in Creating
    /\ \A t \in Threads : pc[t] \in Creating =>
            /\ pc'[t] = pc[t] /\ name'[t] = name[t]
            /\ todo'[t] = todo[t] /\ left'[t] = left[t]
    /\ \A f \in Files : \/ file'[f] = file[f]
                        \/ file'[f] = Absent /\ f \notin inUse
                        \/ file[f] # Absent /\ Alike(file[f], file'[f])

LEMMA Elsewhere ==
    ASSUME DatabasesTypeOK, PoolInv, Beside
    PROVE  PoolInv'
<1> USE DEF Beside
<1>1. \A f \in inUse : file'[f] = file[f] \/ Alike(file[f], file'[f])
  BY DEF DatabasesTypeOK, ValuesOK
<1>2. ASSUME NEW f \in Files, file'[f] # Absent
      PROVE  \/ \E t \in Threads : CreatedBy(t, f)'
             \/ \E v \in 1 .. program' : Complete(file[f], v)'
  <2>1. file[f] # Absent /\ (file'[f] = file[f] \/ Alike(file[f], file'[f]))
    BY <1>2
  <2>2. CASE \E t \in Threads : CreatedBy(t, f)
    BY <2>2 DEF CreatedBy
  <2>3. CASE \E v \in 1 .. program : Complete(file[f], v)
    <3>1. PICK v \in 1 .. program : Complete(file[f], v)
      BY <2>3
    <3>2. Complete(file'[f], v)
      BY <2>1, <3>1, AlikeFacts
    <3>3. Complete(file[f], v)'
      BY <3>2 DEF Complete, MembersAt
    <3> QED
      BY <3>1, <3>3
  <2> QED
    BY <2>1, <2>2, <2>3 DEF PoolInv
<1>3. ASSUME NEW f \in pool'
      PROVE  Complete(file[f], program)'
  <2>1. f \in inUse /\ Complete(file[f], program)
    BY <1>3 DEF PoolInv, DatabasesTypeOK, ValuesOK
  <2>2. Complete(file'[f], program)
    BY <1>1, <2>1, AlikeFacts
  <2> QED
    BY <2>2 DEF Complete, MembersAt
<1>4. ASSUME NEW t \in Threads, pc'[t] \in Creating
      PROVE  Working(t)'
  <2>1. /\ pc[t] \in Creating /\ pc'[t] = pc[t] /\ name'[t] = name[t]
        /\ todo'[t] = todo[t] /\ left'[t] = left[t]
        /\ Working(t) /\ name[t] \in inUse
    BY <1>4 DEF PoolInv, DatabasesTypeOK, ControlOK, ThreadOK
  <2>2. file'[name[t]] = file[name[t]] \/ Alike(file[name[t]], file'[name[t]])
    BY <1>1, <2>1
  <2>3. Alike(file[name[t]], file'[name[t]])
    BY <2>2 DEF Alike
  <2>4. Begun(file[name[t]]) => Begun(file[name[t]])'
    <3>1. Fresh(file[name[t]]) => Fresh(file[name[t]])'
      BY <2>1, <2>3 DEF Alike, Fresh, Members
    <3>2. \A v : Complete(file[name[t]], v) => Complete(file[name[t]], v)'
      BY <2>1, <2>3 DEF Alike, Complete, MembersAt
    <3> QED
      BY <3>1, <3>2 DEF Begun
  <2>5. CompleteBut(file[name[t]], left[t]) => CompleteBut(file[name[t]], left[t])'
    BY <2>1, <2>3 DEF Alike, CompleteBut, Members
  <2>6. file[name[t]].tables = Tables => file'[name'[t]].tables = Tables
    BY <2>1, <2>3 DEF Alike
  <2> QED
    BY <2>1, <2>4, <2>5, <2>6 DEF Working
<1> QED
  BY <1>2, <1>3, <1>4 DEF PoolInv

\* A step of the thread that creates a database.
LEMMA Own ==
    ASSUME DatabasesTypeOK, PoolInv, NEW t \in Threads,
           pc[t] \in Creating, pc'[t] \in Creating,
           \A x \in Threads \ {t} : pc'[x] = pc[x],
           name' = name, program' = program, pool' = pool,
           file[name[t]] # Absent,
           \A f \in Files \ {name[t]} : file'[f] = file[f],
           Working(t)'
    PROVE  PoolInv'
<1>1. mutex = t /\ name[t] \notin pool
  BY CreatingFacts
<1>2. \A x \in Threads \ {t} : pc'[x] \notin Creating /\ pc[x] \notin Creating
  BY <1>1, OneCreates
<1>3. ASSUME NEW f \in Files, file'[f] # Absent
      PROVE  \/ \E x \in Threads : CreatedBy(x, f)'
             \/ \E v \in 1 .. program' : Complete(file[f], v)'
  <2>1. CASE f = name[t]
    BY <2>1 DEF CreatedBy
  <2>2. CASE f # name[t]
    <3>1. file'[f] = file[f] /\ ~\E x \in Threads : CreatedBy(x, f)
      BY <1>2, <2>2 DEF CreatedBy
    <3>2. PICK v \in 1 .. program : Complete(file[f], v)
      BY <1>3, <3>1 DEF PoolInv
    <3>3. Complete(file[f], v)'
      BY <3>1, <3>2 DEF Complete, MembersAt
    <3> QED
      BY <3>2, <3>3
  <2> QED
    BY <2>1, <2>2
<1>4. ASSUME NEW f \in pool'
      PROVE  Complete(file[f], program)'
  <2>1. f \in Files /\ f # name[t] /\ Complete(file[f], program)
    BY <1>1, <1>4 DEF PoolInv, DatabasesTypeOK, ValuesOK
  <2> QED
    BY <2>1 DEF Complete, MembersAt
<1>5. \A x \in Threads : pc'[x] \in Creating => Working(x)'
  BY <1>2
<1> QED
  BY <1>3, <1>4, <1>5 DEF PoolInv

\* The thread with m_mtx opens the file, which is new or complete.
LEMMA ConnectPool ==
    ASSUME NoFailures, DatabasesTypeOK, PoolInv, NEW t \in Threads, Connect(t)
    PROVE  PoolInv'
<1> DEFINE f == name[t]
<1>1. /\ f \in Files /\ mutex = t /\ f \notin pool /\ pc[t] = "connect"
      /\ ValuesOK /\ pc[t] \notin Creating
  BY ThreadFacts, PointFacts DEF Connect, At, ThreadOK, Creating
<1>2. \A x \in Threads : pc[x] \notin Creating
  BY <1>1, OneCreates
<1>3. /\ file' = [file EXCEPT ![f] = IF @ = Absent THEN Empty ELSE @]
      /\ UNCHANGED <<diskButFile, pool>>
  BY DEF Connect, NoFailures
<1>4. program' = program /\ pool' = pool
  BY <1>3 DEF diskButFile
<1>5. CASE /\ GoTo(t, "create") /\ UNCHANGED <<name, again, loopVars>>
  <2>1. /\ pc'[t] = "create" /\ name' = name
        /\ \A x \in Threads \ {t} : pc'[x] = pc[x]
    BY <1>1, <1>5, GoToFacts DEF ValuesOK, Points
  <2>2. Begun(file'[f])
    <3>1. CASE file[f] = Absent
      <4>1. file'[f] = Empty
        BY <1>1, <1>3, <3>1 DEF ValuesOK
      <4>2. Fresh(Empty)
        BY DEF Fresh, Empty, Tables
      <4> QED
        BY <4>1, <4>2 DEF Begun
    <3>2. CASE file[f] # Absent
      <4>1. file'[f] = file[f]
        BY <1>1, <1>3, <3>2 DEF ValuesOK
      <4>2. \E v \in 1 .. program : Complete(file[f], v)
        BY <1>1, <1>2, <3>2 DEF PoolInv, CreatedBy
      <4> QED
        BY <4>1, <4>2 DEF Begun
    <3> QED
      BY <3>1, <3>2
  <2>3. Working(t)'
    <3>1. Begun(file[name[t]])'
      BY <1>4, <2>1, <2>2 DEF Begun, Fresh, Complete, Members, MembersAt
    <3> QED
      BY <2>1, <3>1 DEF Working
  <2>4. ASSUME NEW g \in Files, file'[g] # Absent
        PROVE  \/ \E x \in Threads : CreatedBy(x, g)'
               \/ \E v \in 1 .. program' : Complete(file[g], v)'
    <3>1. CASE g = f
      BY <2>1, <3>1 DEF CreatedBy, Creating
    <3>2. CASE g # f
      <4>1. file'[g] = file[g]
        BY <1>1, <1>3, <3>2 DEF ValuesOK
      <4>2. PICK v \in 1 .. program : Complete(file[g], v)
        BY <1>2, <2>4, <4>1 DEF PoolInv, CreatedBy
      <4>3. Complete(file[g], v)'
        BY <4>1, <4>2 DEF Complete, MembersAt
      <4> QED
        BY <1>4, <4>2, <4>3
    <3> QED
      BY <3>1, <3>2
  <2>5. ASSUME NEW g \in pool'
        PROVE  Complete(file[g], program)'
    <3>1. g \in Files /\ g # f /\ Complete(file[g], program)
      BY <1>1, <1>4, <2>5 DEF PoolInv, ValuesOK
    <3>2. file'[g] = file[g]
      BY <1>1, <1>3, <3>1 DEF ValuesOK
    <3> QED
      BY <1>4, <3>1, <3>2 DEF Complete, MembersAt
  <2>6. \A x \in Threads : pc'[x] \in Creating => Working(x)'
    BY <1>2, <2>1, <2>3
  <2> QED
    BY <2>4, <2>5, <2>6 DEF PoolInv
<1>6. CASE Fail(t) /\ file'[f] # Absent /\ ~file'[f].good
  <2>1. \A g \in Files : file'[g] = file[g]
    BY <1>1, <1>3, <1>6 DEF ValuesOK, Empty
  <2>2. \A x \in Threads : pc'[x] \notin Creating
    <3>1. pc'[t] \in {"idle", "recover"} /\ \A x \in Threads \ {t} : pc'[x] = pc[x]
      BY <1>1, <1>6 DEF Fail, Return, GoTo, ValuesOK
    <3> QED
      BY <1>2, <3>1 DEF Creating
  <2> QED
    BY <1>2, <1>4, <2>1, <2>2, Elsewhere DEF Beside
<1> QED
  BY <1>5, <1>6 DEF Connect, NoFailures

\* The missing tables are created, one by one.
LEMMA CreateTablePool ==
    ASSUME NoFailures, DatabasesTypeOK, PoolInv, NEW t \in Threads, CreateTable(t)
    PROVE  PoolInv'
<1> DEFINE f == name[t]
           content == file[f]
<1>1. /\ pc[t] = "create" /\ pc[t] \in Creating
      /\ ValuesOK /\ f \in Files /\ content \in File /\ content # Absent /\ left[t] = {}
  BY CreatingFacts, AbsentAssumption DEF CreateTable, At, Creating, ThreadOK
<1>2. Begun(content)
  BY <1>1 DEF PoolInv, Working
<1>3. program' = program /\ pool' = pool
  BY DEF CreateTable, diskButFile
<1>4. CASE /\ Tables \ content.tables = {}
           /\ GoTo(t, "table") /\ TablesOfUpgrade(t)
           /\ UNCHANGED <<file, mutex, name, again, left>>
  <2>1. /\ pc'[t] = "table" /\ pc'[t] \in Creating
        /\ \A x \in Threads \ {t} : pc'[x] = pc[x]
    BY <1>4, GoToCreating DEF Creating
  <2>2. todo'[t] = Tables /\ "tb_order" \in todo'[t]
    BY <1>1, <1>4 DEF TablesOfUpgrade, NoFailures, ValuesOK, Tables
  <2>3. content.tables = Tables
    BY <1>1, <1>4 DEF File
  <2>4. Working(t)'
    <3>1. Begun(file[name[t]])' /\ file'[name'[t]].tables = Tables
      BY <1>2, <1>3, <1>4, <2>3 DEF Begun, Fresh, Complete, Members, MembersAt
    <3> QED
      BY <2>1, <2>2, <3>1 DEF Working
  <2> QED
    BY <1>1, <1>3, <1>4, <2>1, <2>4, Own
<1>5. ASSUME NEW new \in File, Begun(new),
             file' = [file EXCEPT ![f] = new],
             UNCHANGED <<mutex, pc, name, again, loopVars>>
      PROVE  PoolInv'
  <2>1. Working(t)'
    <3>1. file'[name'[t]] = new /\ pc'[t] = "create"
      BY <1>1, <1>5 DEF ValuesOK
    <3>2. Begun(new)'
      BY <1>3, <1>5 DEF Begun, Fresh, Complete, Members, MembersAt
    <3>3. Begun(file[name[t]])'
      BY <3>1, <3>2 DEF Begun, Fresh, Complete, Members, MembersAt
    <3> QED
      BY <3>1, <3>3 DEF Working
  <2>2. \A g \in Files \ {name[t]} : file'[g] = file[g]
    BY <1>1, <1>5 DEF ValuesOK
  <2> QED
    BY <1>1, <1>3, <1>5, <2>1, <2>2, Own
<1>6. CASE /\ "tb_version" \in Tables \ content.tables
           /\ file' = [file EXCEPT ![f].tables = @ \cup {"tb_version"}]
           /\ UNCHANGED <<mutex, pc, name, again, loopVars>>
  <2> DEFINE new == [content EXCEPT !.tables = @ \cup {"tb_version"}]
  <2>1. new \in File /\ file' = [file EXCEPT ![f] = new]
    BY <1>1, <1>6, TablesAreFile DEF Tables, File
  <2>2. /\ new.columns = content.columns /\ new.indexes = content.indexes
        /\ new.version = content.version
        /\ new.tables = content.tables \cup {"tb_version"}
    BY <1>1 DEF File
  <2>3. Fresh(content) /\ "tb_order" \notin content.tables
    BY <1>2, <1>6 DEF Begun, Fresh, Complete
  <2> HIDE DEF new
  <2>4. Begun(new)
    BY <2>2, <2>3 DEF Begun, Fresh
  <2> QED
    BY <1>5, <1>6, <2>1, <2>4
<1>7. CASE /\ Tables \ content.tables = {"tb_order"}
           /\ file' = [file EXCEPT ![f].tables = @ \cup {"tb_order"},
                                   ![f].columns = Members]
           /\ UNCHANGED <<mutex, pc, name, again, loopVars>>
  <2> DEFINE new == [content EXCEPT !.tables = @ \cup {"tb_order"}, !.columns = Members]
  <2>1. new \in File
    BY <1>1, TablesAreFile DEF Tables, File, Members
  <2>2. file' = [file EXCEPT ![f] = new]
    BY <1>1, <1>7 DEF ValuesOK
  <2>3. /\ new.columns = Members /\ new.indexes = content.indexes
        /\ new.version = content.version /\ new.tables = Tables
    BY <1>1, <1>7 DEF File, Tables
  <2>4. Fresh(content)
    BY <1>2, <1>7 DEF Begun, Complete
  <2> HIDE DEF new
  <2>5. Begun(new)
    BY <2>3, <2>4 DEF Begun, Fresh
  <2> QED
    BY <1>5, <1>7, <2>1, <2>2, <2>5
<1> QED
  BY <1>4, <1>6, <1>7 DEF CreateTable, NoFailures

\* What UpgradeDatabase leaves to do of a file it finds complete for an older
\* version, and of one that is not registered.
LEMMA UpgradesFit ==
    ASSUME NEW content, NEW v, Complete(content, v), v \in 1 .. program, program \in Versions
    PROVE  CompleteBut(content, Upgrades(v))
<1>1. /\ Upgrades(v) \subseteq {Alter(c) : c \in Members}
                               \cup {Index(c) : c \in Indexed \cap Members}
                               \cup {UpdateTableVersion}
      /\ UpdateTableVersion \in Upgrades(v)
  <2>1. ASSUME NEW s \in Statement, s.member \in Members, s.kind = "INDEX" => s.member \in Indexed
        PROVE  s \in {Alter(c) : c \in Members} \cup {Index(c) : c \in Indexed \cap Members}
    <3>1. s = Alter(s.member) \/ s = Index(s.member)
      BY DEF Statement, Alter, Index
    <3>2. s.kind = "ALTER" \/ s.kind = "INDEX"
      BY DEF Statement
    <3>3. Alter(s.member).kind = "ALTER" /\ Index(s.member).kind = "INDEX"
      BY DEF Alter, Index
    <3> QED
      BY <2>1, <3>1, <3>2, <3>3
  <2> QED
    BY <2>1 DEF Upgrades
<1>2. \A c \in Members : Alter(c) \in Upgrades(v) <=> FieldVersion[c] > v
  <2> SUFFICES ASSUME NEW c \in Members
               PROVE  Alter(c) \in Upgrades(v) <=> FieldVersion[c] > v
    OBVIOUS
  <2>1. /\ Alter(c) \in Statement /\ Alter(c).member = c /\ Alter(c).kind = "ALTER"
        /\ Alter(c) # UpdateTableVersion
    BY DEF Alter, Statement, Members, UpdateTableVersion
  <2> QED
    BY <2>1 DEF Upgrades
<1>3. \A c \in Indexed \cap Members : Index(c) \in Upgrades(v) <=> FieldVersion[c] > v
  <2> SUFFICES ASSUME NEW c \in Indexed \cap Members
               PROVE  Index(c) \in Upgrades(v) <=> FieldVersion[c] > v
    OBVIOUS
  <2>1. /\ Index(c) \in Statement /\ Index(c).member = c /\ Index(c).kind = "INDEX"
        /\ Index(c) # UpdateTableVersion
    BY DEF Index, Statement, Members, UpdateTableVersion
  <2> QED
    BY <2>1 DEF Upgrades
<1>4. \A c \in Columns : c \in MembersAt(v) <=> c \in Members /\ ~(FieldVersion[c] > v)
  BY DatabasesAssumption DEF MembersAt, Members, Versions
<1>5. MembersAt(v) \subseteq Columns /\ Members \subseteq Columns
  BY DEF MembersAt, Members
<1>6. /\ content.columns = {c \in Members : Alter(c) \notin Upgrades(v)}
      /\ content.indexes = {c \in Indexed \cap Members : Index(c) \notin Upgrades(v)}
  BY <1>2, <1>3, <1>4, <1>5 DEF Complete
<1> QED
  BY <1>1, <1>6 DEF Complete, CompleteBut

LEMMA NewIndexesFit ==
    ASSUME NEW content, content.tables = Tables, content.columns = Members,
           content.indexes = {}, content.version["tb_order"] = program
    PROVE  CompleteBut(content, NewIndexes("tb_order"))
<1> DEFINE L == NewIndexes("tb_order")
<1>1. L = {s \in Statement : s.kind = "INDEX" /\ s.member \in Indexed \cap Members}
  BY DEF NewIndexes
<1> HIDE DEF L
<1>2. \A s \in L : s = Index(s.member) /\ s.member \in Indexed \cap Members
  BY <1>1 DEF Statement, Index
<1>3. \A c \in Indexed \cap Members : Index(c) \in L
  BY <1>1 DEF Statement, Index, Members
<1>4. \A c \in Members : Alter(c) \notin L
  BY <1>1 DEF Alter
<1>5. UpdateTableVersion \notin L
  BY <1>1 DEF UpdateTableVersion
<1>6. L \subseteq {Alter(c) : c \in Members} \cup {Index(c) : c \in Indexed \cap Members}
                  \cup {UpdateTableVersion}
  BY <1>2
<1>7. /\ content.columns = {c \in Members : Alter(c) \notin L}
      /\ content.indexes = {c \in Indexed \cap Members : Index(c) \notin L}
  BY <1>3, <1>4
<1>8. CompleteBut(content, L)
  BY <1>6, <1>7 DEF CompleteBut
<1> QED
  BY <1>8 DEF L

\* A table is registered, upgraded or left as it is.
LEMMA UpgradeDatabasePool ==
    ASSUME NoFailures, DatabasesTypeOK, PoolInv, NEW t \in Threads, NEW tbl \in Tables,
           UpgradeDatabase(t, tbl)
    PROVE  PoolInv'
<1> DEFINE f == name[t]
           content == file[f]
           seen == content.version[tbl]
<1>1. /\ pc[t] = "table" /\ pc[t] \in Creating /\ tbl \in todo[t]
      /\ ValuesOK /\ f \in Files /\ content \in File /\ content # Absent /\ left[t] = {}
      /\ program \in Versions
  BY CreatingFacts, AbsentAssumption DEF UpgradeDatabase, At, Creating, ThreadOK, ValuesOK
<1>2. /\ content.tables = Tables
      /\ "tb_order" \in todo[t] => Begun(content)
      /\ "tb_order" \notin todo[t] => CompleteBut(content, {})
  BY <1>1 DEF PoolInv, Working, CompleteBut
<1>3. program' = program /\ pool' = pool /\ name' = name
  <2>1. UNCHANGED <<diskButFile, pool, name>>
    BY DEF UpgradeDatabase, NoFailures
  <2> QED
    BY <2>1 DEF diskButFile
<1>4. seen \in {0} \cup Versions
  BY <1>1 DEF File
\* The thread goes on with L, and its file has become new.
<1>5. ASSUME NEW new \in File, file' = [file EXCEPT ![f] = new], new.tables = Tables,
             NEW L \in SUBSET (Statement \cup {UpdateTableVersion}), Statements(t, tbl, L),
             IF "tb_order" \in todo[t] \ {tbl} THEN Begun(new) /\ L = {}
                                               ELSE CompleteBut(new, L)
      PROVE  PoolInv'
  <2>1. /\ \A x \in Threads \ {t} : pc'[x] = pc[x]
        /\ pc'[t] = IF L = {} THEN "table" ELSE "members"
        /\ pc'[t] \in Creating
        /\ todo'[t] = todo[t] \ {tbl} /\ left'[t] = L
    BY <1>1, <1>5, GoToCreating DEF Statements, Creating, ValuesOK
  <2>2. file'[name'[t]] = new /\ \A g \in Files \ {name[t]} : file'[g] = file[g]
    BY <1>1, <1>3, <1>5 DEF ValuesOK
  <2>3. Working(t)'
    <3>1. Begun(new) => Begun(file[name[t]])'
      BY <1>3, <2>2 DEF Begun, Fresh, Complete, Members, MembersAt
    <3>2. CompleteBut(new, L) => CompleteBut(file[name[t]], left[t])'
      BY <1>3, <2>1, <2>2 DEF CompleteBut, Members
    <3>3. file'[name'[t]].tables = Tables
      BY <1>5, <2>2
    <3> QED
      BY <1>5, <2>1, <3>1, <3>2, <3>3 DEF Working
  <2> QED
    BY <1>1, <1>3, <2>1, <2>2, <2>3, Own
<1>6. file = [file EXCEPT ![f] = content]
  BY <1>1 DEF ValuesOK
<1>7. CASE tbl = "tb_version"
  <2>1. NewIndexes(tbl) = {} /\ ClassVersion(tbl) = 1
    BY <1>7 DEF NewIndexes, ClassVersion
  <2>2. seen = 0 \/ seen >= ClassVersion(tbl)
    BY <1>4, <2>1, DatabasesAssumption DEF Versions
  <2>3. "tb_order" \in todo[t] \ {tbl} <=> "tb_order" \in todo[t]
    BY <1>7
  <2>4. CASE seen >= ClassVersion(tbl) /\ seen # 0
    <3>1. Statements(t, tbl, {}) /\ file' = file
      BY <2>1, <2>4, <1>4 DEF UpgradeDatabase, NoFailures, Versions
    <3> QED
      BY <1>1, <1>2, <1>5, <1>6, <2>3, <3>1
  <2>5. CASE seen = 0
    <3> DEFINE new == [content EXCEPT !.version[tbl] = 1]
    <3>1. Statements(t, tbl, {}) /\ file' = [file EXCEPT ![f] = new]
      BY <1>1, <2>1, <2>5 DEF UpgradeDatabase, NoFailures, ValuesOK
    <3>2. new \in File
      BY <1>1, <2>1, VersionIsFile, DatabasesAssumption DEF Versions
    <3>3. Alike(content, new)
      BY <1>1, <1>7 DEF Alike, File
    <3> HIDE DEF new
    <3>4. new.tables = Tables /\ (Begun(content) => Begun(new))
          /\ (CompleteBut(content, {}) => CompleteBut(new, {}))
      BY <1>2, <3>3 DEF Alike, Begun, Fresh, Complete, CompleteBut
    <3> QED
      BY <1>2, <1>5, <2>3, <3>1, <3>2, <3>4
  <2> QED
    BY <2>2, <2>4, <2>5
<1>8. CASE tbl = "tb_order"
  <2>1. Begun(content) /\ "tb_order" \notin todo[t] \ {tbl} /\ ClassVersion(tbl) = program
    BY <1>1, <1>2, <1>8 DEF ClassVersion
  <2>2. CASE seen = 0
    <3> DEFINE new == [content EXCEPT !.version[tbl] = program]
    <3>1. Statements(t, tbl, NewIndexes(tbl)) /\ file' = [file EXCEPT ![f] = new]
      BY <1>1, <2>1, <2>2, DatabasesAssumption
      DEF UpgradeDatabase, NoFailures, ValuesOK, Versions
    <3>2. new \in File
      BY <1>1, VersionIsFile
    <3>3. Fresh(content)
      BY <1>8, <2>1, <2>2 DEF Begun, Complete
    <3>4. /\ new.tables = Tables /\ new.columns = Members /\ new.indexes = {}
          /\ new.version["tb_order"] = program
      BY <1>1, <1>2, <1>8, <3>3 DEF Fresh, File, Tables
    <3> HIDE DEF new
    <3>5. CompleteBut(new, NewIndexes(tbl))
      BY <1>8, <3>4, NewIndexesFit
    <3>6. NewIndexes(tbl) \subseteq Statement \cup {UpdateTableVersion}
      BY DEF NewIndexes
    <3> QED
      BY <1>5, <2>1, <3>1, <3>2, <3>4, <3>5, <3>6
  <2>3. CASE seen # 0
    <3>1. PICK v \in 1 .. program : Complete(content, v)
      BY <1>8, <2>1, <2>3 DEF Begun, Fresh
    <3>2. seen = v /\ v \in Int /\ program \in Int
      BY <1>1, <1>8, <3>1 DEF Complete, Versions
    <3>3. CASE v = program
      <4>1. Statements(t, tbl, {}) /\ file' = file
        BY <2>1, <2>3, <3>2, <3>3 DEF UpgradeDatabase, NoFailures
      <4>2. CompleteBut(content, {})
        BY <3>1, <3>3, CompleteIsCompleteBut
      <4> QED
        BY <1>1, <1>2, <1>5, <1>6, <2>1, <4>1, <4>2
    <3>4. CASE v < program
      <4>1. Statements(t, tbl, Upgrades(seen)) /\ file' = file
        BY <2>1, <2>3, <3>2, <3>4 DEF UpgradeDatabase, NoFailures
      <4>2. CompleteBut(content, Upgrades(seen))
        BY <1>1, <3>1, <3>2, UpgradesFit
      <4>3. Upgrades(seen) \subseteq Statement \cup {UpdateTableVersion}
        BY DEF Upgrades
      <4> QED
        BY <1>1, <1>2, <1>5, <1>6, <2>1, <4>1, <4>2, <4>3
    <3> QED
      BY <3>2, <3>3, <3>4
  <2> QED
    BY <2>2, <2>3
<1> QED
  BY <1>7, <1>8 DEF Tables

\* What a statement does to a file, by its kind.
LEMMA StatementFits ==
    ASSUME NEW content \in File, NEW L, NEW s \in L, CompleteBut(content, L),
           program \in Versions
    PROVE  Fits(s, content) /\ CompleteBut(Done(s, content), L \ {s})
<1>1. /\ content.columns = {c \in Members : Alter(c) \notin L}
      /\ content.indexes = {c \in Indexed \cap Members : Index(c) \notin L}
      /\ content.tables = Tables
      /\ UpdateTableVersion \notin L => content.version["tb_order"] = program
  BY DEF CompleteBut
<1>2. L \ {s} \subseteq {Alter(c) : c \in Members} \cup {Index(c) : c \in Indexed \cap Members}
                        \cup {UpdateTableVersion}
  BY DEF CompleteBut
<1>3. \A c, d : /\ Alter(c) # Index(d) /\ Alter(c) # UpdateTableVersion
                /\ Index(c) # UpdateTableVersion
                /\ Alter(c) = Alter(d) => c = d
                /\ Index(c) = Index(d) => c = d
  <2>1. \A c : /\ Alter(c).kind = "ALTER" /\ Index(c).kind = "INDEX"
               /\ Alter(c).member = c /\ Index(c).member = c
    BY DEF Alter, Index
  <2>2. UpdateTableVersion.kind = "VERSION"
    BY DEF UpdateTableVersion
  <2> QED
    BY <2>1, <2>2
<1>4. ASSUME NEW m \in Members, s = Alter(m)
      PROVE  Fits(s, content) /\ CompleteBut(Done(s, content), L \ {s})
  <2>1. s.kind = "ALTER" /\ s.member = m
    BY <1>4 DEF Alter
  <2>2. Done(s, content) = [content EXCEPT !.columns = @ \cup {m}]
    BY <2>1 DEF Done
  <2>3. /\ Done(s, content).columns = content.columns \cup {m}
        /\ Done(s, content).indexes = content.indexes
        /\ Done(s, content).tables = content.tables
        /\ Done(s, content).version = content.version
    BY <2>2 DEF File
  <2>4. m \notin content.columns
    BY <1>1, <1>4
  <2>5. /\ content.columns \cup {m} = {c \in Members : Alter(c) \notin L \ {s}}
        /\ content.indexes = {c \in Indexed \cap Members : Index(c) \notin L \ {s}}
        /\ UpdateTableVersion \notin L \ {s} => content.version["tb_order"] = program
    BY <1>1, <1>3, <1>4
  <2> QED
    BY <1>1, <1>2, <2>1, <2>3, <2>4, <2>5 DEF Fits, CompleteBut
<1>5. ASSUME NEW m \in Indexed \cap Members, s = Index(m)
      PROVE  Fits(s, content) /\ CompleteBut(Done(s, content), L \ {s})
  <2>1. s.kind = "INDEX" /\ s.member = m
    BY <1>5 DEF Index
  <2>2. Done(s, content) = [content EXCEPT !.indexes = @ \cup {m}]
    BY <2>1 DEF Done
  <2>3. /\ Done(s, content).columns = content.columns
        /\ Done(s, content).indexes = content.indexes \cup {m}
        /\ Done(s, content).tables = content.tables
        /\ Done(s, content).version = content.version
    BY <2>2 DEF File
  <2>4. m \notin content.indexes
    BY <1>1, <1>5
  <2>5. /\ content.columns = {c \in Members : Alter(c) \notin L \ {s}}
        /\ content.indexes \cup {m} = {c \in Indexed \cap Members : Index(c) \notin L \ {s}}
        /\ UpdateTableVersion \notin L \ {s} => content.version["tb_order"] = program
    BY <1>1, <1>3, <1>5
  <2> QED
    BY <1>1, <1>2, <2>1, <2>3, <2>4, <2>5 DEF Fits, CompleteBut
<1>6. CASE s = UpdateTableVersion
  <2>1. s.kind = "VERSION"
    BY <1>6 DEF UpdateTableVersion
  <2>2. Done(s, content) = [content EXCEPT !.version["tb_order"] = program]
    BY <2>1 DEF Done
  <2>3. /\ Done(s, content).columns = content.columns
        /\ Done(s, content).indexes = content.indexes
        /\ Done(s, content).tables = content.tables
        /\ Done(s, content).version["tb_order"] = program
    BY <2>2 DEF File, Tables
  <2>4. /\ content.columns = {c \in Members : Alter(c) \notin L \ {s}}
        /\ content.indexes = {c \in Indexed \cap Members : Index(c) \notin L \ {s}}
    BY <1>1, <1>3, <1>6
  <2> QED
    BY <1>1, <1>2, <2>1, <2>3, <2>4 DEF Fits, CompleteBut
<1>7. \/ \E m \in Members : s = Alter(m)
      \/ \E m \in Indexed \cap Members : s = Index(m)
      \/ s = UpdateTableVersion
  BY DEF CompleteBut
<1> QED
  BY <1>4, <1>5, <1>6, <1>7

\* One statement is run, and it does not fail.
LEMMA RunStatementPool ==
    ASSUME NoFailures, DatabasesTypeOK, PoolInv, NEW t \in Threads, RunStatement(t)
    PROVE  PoolInv'
<1> DEFINE f == name[t]
           content == file[f]
<1>1. /\ pc[t] = "members" /\ pc[t] \in Creating
      /\ ValuesOK /\ f \in Files /\ content \in File /\ content # Absent
      /\ program \in Versions
  BY CreatingFacts, AbsentAssumption DEF RunStatement, At, Creating, ValuesOK
<1>2. CompleteBut(content, left[t]) /\ "tb_order" \notin todo[t]
  BY <1>1 DEF PoolInv, Working
<1>3. PICK s \in left[t] :
        \/ /\ file' = [file EXCEPT ![f] = Done(s, @)]
           /\ left' = [left EXCEPT ![t] = @ \ {s}]
           /\ GoTo(t, IF left[t] = {s} THEN "table" ELSE "members")
           /\ UNCHANGED <<mutex, name, again, todo>>
        \/ ~Fits(s, file[f])
  BY DEF RunStatement, NoFailures
<1>4. /\ CompleteBut(Done(s, content), left[t] \ {s})
      /\ file' = [file EXCEPT ![f] = Done(s, content)]
      /\ left' = [left EXCEPT ![t] = @ \ {s}]
      /\ GoTo(t, IF left[t] = {s} THEN "table" ELSE "members")
      /\ name' = name /\ todo' = todo
  BY <1>1, <1>2, <1>3, StatementFits
<1>5. program' = program /\ pool' = pool
  BY DEF RunStatement, diskButFile
<1> DEFINE p == IF left[t] = {s} THEN "table" ELSE "members"
<1>6. /\ pc'[t] = p /\ p \in Creating /\ p \in {"table", "members"}
      /\ \A x \in Threads \ {t} : pc'[x] = pc[x]
  <2>1. p \in Creating /\ p \in {"table", "members"}
    BY DEF Creating
  <2> QED
    BY <1>4, <2>1, GoToCreating
<1>7. /\ file'[name'[t]] = Done(s, content) /\ left'[t] = left[t] \ {s}
      /\ \A g \in Files \ {name[t]} : file'[g] = file[g]
  BY <1>1, <1>4 DEF ValuesOK
<1>8. Working(t)'
  <2>1. CompleteBut(file[name[t]], left[t])'
    BY <1>4, <1>5, <1>7 DEF CompleteBut, Members
  <2> QED
    BY <1>2, <1>4, <1>6, <2>1 DEF Working
<1> QED
  BY <1>1, <1>4, <1>5, <1>6, <1>7, <1>8, Own

\* The file is complete when it is handed out.
LEMMA PutInPoolPool ==
    ASSUME DatabasesTypeOK, PoolInv, NEW t \in Threads, PutInPool(t)
    PROVE  PoolInv'
<1>1. /\ pc[t] = "table" /\ pc[t] \in Creating /\ todo[t] = {}
      /\ ValuesOK /\ left[t] = {} /\ mutex = t
  BY CreatingFacts DEF PutInPool, At, Creating, ThreadOK
<1>2. Complete(file[name[t]], program)
  BY <1>1, CompleteIsCompleteBut DEF PoolInv, Working
<1>3. /\ pool' = pool \cup {name[t]} /\ file' = file /\ program' = program
      /\ Return(t)
  BY DEF PutInPool, diskVars, diskButFile
<1>4. \A x \in Threads : pc'[x] \notin Creating
  <2>1. pc'[t] = "idle" /\ \A x \in Threads \ {t} : pc'[x] = pc[x]
    BY <1>1, <1>3, ReturnFacts DEF OthersStay
  <2> QED
    BY <1>1, <2>1, OneCreates DEF Creating
<1>5. ASSUME NEW f \in Files, file[f] # Absent
      PROVE  \E v \in 1 .. program : Complete(file[f], v)
  <2>1. CASE f = name[t]
    <3>1. program \in 1 .. program
      BY <1>1 DEF ValuesOK, Versions
    <3> QED
      BY <1>2, <2>1, <3>1
  <2>2. CASE f # name[t]
    BY <1>1, <1>5, <2>2, OneCreates DEF PoolInv, CreatedBy
  <2> QED
    BY <2>1, <2>2
<1>6. \A f \in pool' : Complete(file[f], program)
  BY <1>2, <1>3 DEF PoolInv
<1> QED
  BY <1>3, <1>4, <1>5, <1>6 DEF PoolInv, Complete, MembersAt

\* The process ends while nobody creates a database.
LEMMA RestartPool ==
    ASSUME NoFailures, DatabasesTypeOK, PoolInv, Restart
    PROVE  PoolInv'
<1>1. /\ \A t \in Threads : pc[t] \notin Creating /\ pc'[t] \notin Creating
      /\ file' = file /\ pool' = {} /\ program' \in program .. MaxVersion
  BY DEF Restart, NoFailures, At, Creating
<1>2. program \in Int /\ program' \in Int /\ program <= program'
  BY <1>1, DatabasesAssumption DEF DatabasesTypeOK, ValuesOK, Versions
<1>3. ASSUME NEW f \in Files, file[f] # Absent
      PROVE  \E v \in 1 .. program' : Complete(file[f], v)
  <2>1. PICK v \in 1 .. program : Complete(file[f], v)
    BY <1>1, <1>3 DEF PoolInv, CreatedBy
  <2>2. v \in 1 .. program'
    BY <1>2
  <2> QED
    BY <2>1, <2>2
<1>4. \A f \in Files : \A v : Complete(file[f], v) => Complete(file[f], v)'
  BY <1>1 DEF Complete, MembersAt
<1> QED
  BY <1>1, <1>3, <1>4 DEF PoolInv, Complete, MembersAt

\* Steps beside the creation of a database.
LEMMA OtherSteps ==
    ASSUME DatabasesTypeOK,
           \/ \E t \in Threads : \/ Lock(t) \/ RemoveTemp(t) \/ RemoveCopy(t) \/ Rename(t)
                                 \/ \E f \in Files : Ask(t, f)
           \/ \E f \in Files : Damage(f) \/ Clean(f) \/ \E row \in Rows : Write(f, row)
           \/ UNCHANGED vars
    PROVE  Beside
<1> USE DEF diskVars, diskButFile, loopVars, Beside
<1>1. ValuesOK
  BY DEF DatabasesTypeOK
<1>2. ASSUME NEW t \in Threads, pc[t] \notin Creating, pc'[t] \notin Creating, OthersStay(t),
             \A x \in Threads \ {t} : todo'[x] = todo[x],
             program' = program, pool' = pool,
             \A f \in Files : file'[f] = file[f] \/ (file'[f] = Absent /\ f \notin inUse)
      PROVE  Beside
  BY <1>2 DEF OthersStay
<1>3. ASSUME NEW t \in Threads, Lock(t)
      PROVE  Beside
  <2>1. pc[t] = "lock" /\ pc'[t] \in {"idle", "connect"}
    BY <1>1, <1>3 DEF Lock, At, Return, GoTo, ValuesOK
  <2>2. OthersStay(t) /\ \A x \in Threads \ {t} : todo'[x] = todo[x]
    BY <1>1, <1>3 DEF Lock, Return, GoTo, ValuesOK, OthersStay
  <2>3. UNCHANGED <<file, program, pool>>
    BY <1>3 DEF Lock
  <2> QED
    BY <1>2, <2>1, <2>2, <2>3 DEF Creating
<1>4. ASSUME NEW t \in Threads, NEW f \in Files, Ask(t, f)
      PROVE  Beside
  <2>1. pc[t] = "idle" /\ pc'[t] = "lock" /\ OthersStay(t)
    BY <1>1, <1>4 DEF Ask, At, GoTo, ValuesOK, OthersStay
  <2>2. UNCHANGED <<file, program, pool, todo>>
    BY <1>4 DEF Ask
  <2> QED
    BY <1>2, <2>1, <2>2 DEF Creating
<1>5. ASSUME NEW t \in Threads, RemoveTemp(t) \/ RemoveCopy(t) \/ Rename(t)
      PROVE  Beside
  <2>1. /\ pc[t] \in {"recover", "rename"} /\ pc'[t] \in {"lock", "rename"}
        /\ OthersStay(t)
    BY <1>1, <1>5 DEF RemoveTemp, RemoveCopy, Rename, At, GoTo, ValuesOK, OthersStay
  <2>2. UNCHANGED <<program, pool, todo>>
    BY <1>5 DEF RemoveTemp, RemoveCopy, Rename
  <2>3. \A f \in Files : file'[f] = file[f] \/ (file'[f] = Absent /\ f \notin inUse)
    BY <1>1, <1>5 DEF RemoveTemp, RemoveCopy, Rename, ValuesOK
  <2> QED
    BY <1>2, <2>1, <2>2, <2>3 DEF Creating
<1>6. ASSUME NEW f \in Files, Damage(f) \/ Clean(f) \/ \E row \in Rows : Write(f, row)
      PROVE  Beside
  <2>1. UNCHANGED <<program, pool, pc, name, todo, left>>
    BY <1>6 DEF Damage, Clean, Write
  <2>2. ASSUME NEW g \in Files
        PROVE  \/ file'[g] = file[g]
               \/ file'[g] = Absent /\ g \notin inUse
               \/ file[g] # Absent /\ Alike(file[g], file'[g])
    <3>1. CASE Clean(f)
      BY <1>1, <3>1 DEF Clean, ValuesOK
    <3>2. CASE Damage(f)
      <4>1. file[f] \in File /\ file[f] # Absent
        BY <1>1, <3>2 DEF Damage, ValuesOK
      <4>2. file' = [file EXCEPT ![f] = [file[f] EXCEPT !.good = FALSE]]
        BY <1>1, <3>2 DEF Damage, ValuesOK
      <4>3. Alike(file[f], [file[f] EXCEPT !.good = FALSE])
        BY <4>1 DEF Alike, File
      <4> QED
        BY <1>1, <4>1, <4>2, <4>3 DEF ValuesOK
    <3>3. ASSUME NEW row \in Rows, Write(f, row)
          PROVE  \/ file'[g] = file[g]
                 \/ file[g] # Absent /\ Alike(file[g], file'[g])
      <4>1. file[f] \in File /\ file[f] # Absent
        BY <1>1, <3>3 DEF Write, ValuesOK, DatabasesTypeOK, ControlOK
      <4>2. file' = [file EXCEPT ![f] = [file[f] EXCEPT !.rows = @ \cup {row}]]
        BY <1>1, <3>3 DEF Write, ValuesOK
      <4>3. Alike(file[f], [file[f] EXCEPT !.rows = @ \cup {row}])
        BY <4>1 DEF Alike, File
      <4> QED
        BY <1>1, <4>1, <4>2, <4>3 DEF ValuesOK
    <3> QED
      BY <1>6, <3>1, <3>2, <3>3
  <2> QED
    BY <2>1, <2>2
<1>7. CASE UNCHANGED vars
  <2>1. UNCHANGED <<file, program, pool, pc, name, todo, left>>
    BY <1>7 DEF vars
  <2> QED
    BY <2>1
<1> QED
  BY <1>3, <1>4, <1>5, <1>6, <1>7

LEMMA PoolInvInit == Init => PoolInv
  BY DEF Init, PoolInv, Creating

LEMMA PoolInvNext ==
    ASSUME NoFailures, DatabasesTypeOK, PoolInv, [Next]_vars
    PROVE  PoolInv'
<1>1. ASSUME NEW t \in Threads, Step(t)
      PROVE  PoolInv'
    BY <1>1, OtherSteps, Elsewhere, ConnectPool, CreateTablePool, UpgradeDatabasePool, RunStatementPool,
       PutInPoolPool DEF Step
<1> QED
  BY <1>1, OtherSteps, Elsewhere, RestartPool DEF Next

LEMMA PoolInvHolds == ASSUME NoFailures PROVE Spec => [](DatabasesTypeOK /\ PoolInv)
<1>1. DatabasesTypeOK /\ PoolInv /\ [Next]_vars => PoolInv'
  BY PoolInvNext
<1> QED
  BY <1>1, PoolInvInit, DatabasesTypeCorrect, PTL DEF Spec

\* For any threads, files, members, versions, bad files and removals: where no
\* statement fails for a reason of its own, a file has all tables, the columns
\* of this program's OrderEntity and its version when DatabaseManager hands it out.
THEOREM PoolIsAlwaysReady ==
    ASSUME NoFailures
    PROVE  Spec => []PoolIsReady
<1>1. DatabasesTypeOK /\ PoolInv => PoolIsReady
  <2> SUFFICES ASSUME DatabasesTypeOK, PoolInv, NEW f \in pool
               PROVE  /\ file[f] # Absent /\ file[f].tables = Tables
                      /\ file[f].columns = Members
                      /\ file[f].version["tb_order"] = program
    BY DEF PoolIsReady
  <2>1. file[f] # Absent
    BY DEF DatabasesTypeOK, ValuesOK, ControlOK
  <2>2. Complete(file[f], program)
    BY DEF PoolInv
  <2> QED
    BY <2>1, <2>2 DEF Complete, Members, MembersAt
<1> QED
  BY <1>1, PoolInvHolds, PTL

\* ... and it has the indexes of these members, whichever version created it.
THEOREM PoolIsAlwaysIndexed ==
    ASSUME NoFailures
    PROVE  Spec => []PoolIsIndexed
<1>1. PoolInv => PoolIsIndexed
  BY DEF PoolInv, PoolIsIndexed, Complete, Members, MembersAt
<1> QED
  BY <1>1, PoolInvHolds, PTL

-----------------------------------------------------------------------------
(* No call comes back without a database.                                  *)

\* Two files of orders that are bad at once would share the name of the copy.
OneFileOfOrders ==
    \A f, g \in Files : Kind[f] = "business" /\ Kind[g] = "business" => f = g

\* No bad file is in the way of the next Connect.
Clear(f) == file[f] = Absent \/ f \in inUse

\* The second CreateDatabase of a call finds no bad file, and the copy put aside
\* is of the file that is to be renamed.
RecoverOK(t) ==
    /\ again[t] => pc[t] \in {"lock", "connect"} \cup Creating /\ Clear(name[t])
    /\ pc[t] = "rename" =>
            Kind[name[t]] = "business" /\ (copy = Absent \/ Clear(name[t]))

RecoverInv ==
    /\ \A f \in inUse : file[f].good
    /\ \A t \in Threads : RecoverOK(t)

\* A step that makes no bad file and no copy in the way of others.
Harmless ==
    /\ \A f \in inUse' : file'[f].good
    /\ \A f \in Files : Clear(f) => Clear(f)'
    /\ \/ copy' \in {copy, Absent}
       \/ \A f \in Files : Kind[f] = "business" => Clear(f)'

\* A thread that does not move.
LEMMA OtherRecoverOK ==
    ASSUME DatabasesTypeOK, RecoverInv, Harmless, NEW x \in Threads,
           pc'[x] = pc[x], name'[x] = name[x], again'[x] = again[x]
    PROVE  RecoverOK(x)'
<1>1. RecoverOK(x)
  BY DEF RecoverInv
<1>2. pc[x] # "idle" => name[x] \in Files
  BY ThreadFacts
<1>3. name[x] \in Files /\ Clear(name[x]) => Clear(name[x])'
  BY DEF Clear, Harmless
<1>4. again'[x] => pc'[x] \in {"lock", "connect"} \cup Creating /\ Clear(name[x])'
  BY <1>1, <1>2, <1>3 DEF RecoverOK, Creating
<1>5. pc'[x] = "rename" =>
          Kind[name'[x]] = "business" /\ (copy' = Absent \/ Clear(name[x])')
  <2>1. ASSUME pc[x] = "rename"
        PROVE  Kind[name[x]] = "business" /\ (copy = Absent \/ Clear(name[x])) /\ name[x] \in Files
    BY <1>1, <1>2, <2>1 DEF RecoverOK
  <2>2. \A f \in Files : Kind[f] = "business" =>
            copy' \in {copy, Absent} \/ file'[f] = Absent \/ f \in inUse'
    BY DEF Harmless, Clear
  <2>3. Clear(name[x])' <=> file'[name[x]] = Absent \/ name[x] \in inUse'
    BY DEF Clear
  <2> QED
    BY <1>3, <2>1, <2>2, <2>3
<1> QED
  BY <1>4, <1>5 DEF RecoverOK

LEMMA RecoverFrom ==
    ASSUME DatabasesTypeOK, RecoverInv, Harmless, NEW t \in Threads,
           \A x \in Threads \ {t} : pc'[x] = pc[x] /\ name'[x] = name[x] /\ again'[x] = again[x],
           RecoverOK(t)'
    PROVE  RecoverInv'
  BY OtherRecoverOK DEF RecoverInv, Harmless

LEMMA RecoverStays ==
    ASSUME DatabasesTypeOK, RecoverInv, Harmless, UNCHANGED <<pc, name, again>>
    PROVE  RecoverInv'
  BY OtherRecoverOK DEF RecoverInv, Harmless

\* A step of a creation leaves its file as good as it was.
LEMMA CreatingRecovers ==
    ASSUME DatabasesTypeOK, RecoverInv, NEW t \in Threads,
           pc[t] \in Creating, pc'[t] \in Creating,
           \A x \in Threads \ {t} : pc'[x] = pc[x],
           UNCHANGED <<name, again, copy, inUse>>,
           NEW new \in File, file' = [file EXCEPT ![name[t]] = new],
           new.good = file[name[t]].good
    PROVE  RecoverInv'
<1>1. name[t] \in inUse /\ name[t] \in Files /\ ValuesOK
  BY CreatingFacts
<1>2. /\ file'[name[t]] = new
      /\ \A f \in Files \ {name[t]} : file'[f] = file[f]
  BY <1>1 DEF ValuesOK
<1>3. \A f \in inUse' : file'[f].good
  BY <1>1, <1>2 DEF RecoverInv, ValuesOK
<1>4. \A f \in Files : Clear(f) => Clear(f)'
  BY <1>1, <1>2 DEF Clear
<1>5. RecoverOK(t)'
  BY <1>1 DEF RecoverOK, Clear, Creating
<1>6. Harmless
  BY <1>3, <1>4 DEF Harmless
<1> QED
  BY <1>5, <1>6, RecoverFrom

LEMMA CreateTableRecovers ==
    ASSUME NoFailures, DatabasesTypeOK, PoolInv, RecoverInv, NEW t \in Threads, CreateTable(t)
    PROVE  RecoverInv' /\ name' = name
<1> DEFINE f == name[t]
           content == file[f]
<1>1. /\ pc[t] = "create" /\ pc[t] \in Creating
      /\ ValuesOK /\ f \in Files /\ content \in File
  BY CreatingFacts DEF CreateTable, At, Creating
<1>2. UNCHANGED <<name, again, copy, inUse>>
  BY DEF CreateTable, NoFailures, diskButFile
<1>3. pc' = pc \/ GoTo(t, "table")
  BY DEF CreateTable, NoFailures
<1>4. pc'[t] \in Creating /\ \A x \in Threads \ {t} : pc'[x] = pc[x]
  BY <1>1, <1>3 DEF GoTo, ValuesOK, Creating
<1> DEFINE one == [content EXCEPT !.tables = @ \cup {"tb_version"}]
           two == [content EXCEPT !.tables = @ \cup {"tb_order"}, !.columns = Members]
<1>5. \/ file' = file
      \/ file' = [file EXCEPT ![f] = one]
      \/ file' = [file EXCEPT ![f] = two]
  BY <1>1 DEF CreateTable, NoFailures, ValuesOK
<1>6. one \in File /\ one.good = content.good
  BY <1>1, TablesAreFile DEF File, Tables
<1>7. two \in File /\ two.good = content.good
  BY <1>1, TablesAreFile DEF File, Tables, Members
<1>8. file = [file EXCEPT ![f] = content]
  BY <1>1 DEF ValuesOK
<1> HIDE DEF one, two
<1> QED
  BY <1>1, <1>2, <1>4, <1>5, <1>6, <1>7, <1>8, CreatingRecovers

LEMMA UpgradeDatabaseRecovers ==
    ASSUME NoFailures, DatabasesTypeOK, PoolInv, RecoverInv, NEW t \in Threads,
           NEW tbl \in Tables, UpgradeDatabase(t, tbl)
    PROVE  RecoverInv' /\ name' = name
<1> DEFINE f == name[t]
           content == file[f]
           v == IF content.version[tbl] = 0 THEN ClassVersion(tbl) ELSE content.version[tbl]
           new == [content EXCEPT !.version[tbl] = v]
<1>1. /\ pc[t] = "table" /\ pc[t] \in Creating
      /\ ValuesOK /\ f \in Files /\ content \in File /\ program \in Versions
  BY CreatingFacts DEF UpgradeDatabase, At, Creating, ValuesOK
<1>2. UNCHANGED <<name, again, copy, inUse>>
  BY DEF UpgradeDatabase, NoFailures, diskButFile
<1>3. GoTo(t, "table") \/ GoTo(t, "members")
  BY DEF UpgradeDatabase, NoFailures, Statements
<1>4. pc'[t] \in Creating /\ \A x \in Threads \ {t} : pc'[x] = pc[x]
  BY <1>1, <1>3 DEF GoTo, ValuesOK, Creating
<1>5. file' = file \/ file' = [file EXCEPT ![f] = new]
  BY <1>1 DEF UpgradeDatabase, NoFailures, ValuesOK
<1>6. new \in File /\ new.good = content.good
  <2>1. v \in {0} \cup Versions
    BY <1>1, DatabasesAssumption DEF File, ClassVersion, Versions
  <2> QED
    BY <1>1, <2>1, VersionIsFile DEF File
<1>7. file = [file EXCEPT ![f] = content]
  BY <1>1 DEF ValuesOK
<1> HIDE DEF new
<1> QED
  BY <1>1, <1>2, <1>4, <1>5, <1>6, <1>7, CreatingRecovers

LEMMA RunStatementRecovers ==
    ASSUME NoFailures, DatabasesTypeOK, PoolInv, RecoverInv, NEW t \in Threads, RunStatement(t)
    PROVE  RecoverInv' /\ name' = name
<1> DEFINE f == name[t]
           content == file[f]
<1>1. /\ pc[t] = "members" /\ pc[t] \in Creating
      /\ ValuesOK /\ f \in Files /\ content \in File /\ program \in Versions
  BY CreatingFacts DEF RunStatement, At, Creating, ValuesOK
<1>2. CompleteBut(content, left[t])
  BY <1>1 DEF PoolInv, Working
<1>3. PICK s \in left[t] :
        \/ /\ file' = [file EXCEPT ![f] = Done(s, @)]
           /\ GoTo(t, IF left[t] = {s} THEN "table" ELSE "members")
           /\ UNCHANGED <<name, again>>
        \/ ~Fits(s, content)
  BY DEF RunStatement, NoFailures
<1>4. /\ file' = [file EXCEPT ![f] = Done(s, content)]
      /\ GoTo(t, "table") \/ GoTo(t, "members")
      /\ UNCHANGED <<name, again>>
  BY <1>1, <1>2, <1>3, StatementFits
<1>5. UNCHANGED <<copy, inUse>>
  BY DEF RunStatement, diskButFile
<1>6. pc'[t] \in Creating /\ \A x \in Threads \ {t} : pc'[x] = pc[x]
  BY <1>1, <1>4 DEF GoTo, ValuesOK, Creating
<1>7. s \in Statement \cup {UpdateTableVersion}
  BY <1>1, <1>3 DEF ValuesOK
<1>8. Done(s, content) \in File /\ Done(s, content).good = content.good
  <2>1. Done(s, content) \in File
    BY <1>1, <1>7, DoneIsFile
  <2>2. CASE s.kind = "ALTER"
    BY <1>1, <2>1, <2>2 DEF Done, File
  <2>3. CASE s.kind = "INDEX"
    BY <1>1, <2>1, <2>3 DEF Done, File
  <2>4. CASE s.kind = "VERSION"
    <3>1. Done(s, content) = [content EXCEPT !.version["tb_order"] = program]
      BY <2>4 DEF Done
    <3> QED
      BY <1>1, <2>1, <3>1 DEF File
  <2> QED
    BY <1>7, <2>1, <2>2, <2>3, <2>4 DEF Statement, UpdateTableVersion
<1> QED
  BY <1>1, <1>4, <1>5, <1>6, <1>8, CreatingRecovers

\* Connect fails for a bad file only, which a second call does not find.
LEMMA ConnectRecovers ==
    ASSUME NoFailures, DatabasesTypeOK, RecoverInv, NEW t \in Threads, Connect(t)
    PROVE  RecoverInv' /\ name' = name
<1> DEFINE f == name[t]
<1>1. /\ pc[t] = "connect" /\ f \in Files /\ ValuesOK
  BY ThreadFacts DEF Connect, At
<1>2. /\ file' = [file EXCEPT ![f] = IF @ = Absent THEN Empty ELSE @]
      /\ copy' = copy
  BY DEF Connect, NoFailures, diskButFile
<1>3. /\ file'[f] = IF file[f] = Absent THEN Empty ELSE file[f]
      /\ \A g \in Files \ {f} : file'[g] = file[g]
  BY <1>1, <1>2 DEF ValuesOK
<1>4. CASE /\ file'[f].good /\ inUse' = inUse \cup {f} /\ GoTo(t, "create")
           /\ UNCHANGED <<name, again>>
  <2>1. pc'[t] = "create" /\ \A x \in Threads \ {t} : pc'[x] = pc[x]
    BY <1>1, <1>4 DEF GoTo, ValuesOK
  <2>2. RecoverOK(t)'
    BY <1>4, <2>1 DEF RecoverOK, Clear, Creating
  <2>3. \A g \in inUse' : file'[g].good
    BY <1>3, <1>4 DEF RecoverInv, ValuesOK, DatabasesTypeOK
  <2>4. \A g \in Files : Clear(g) => Clear(g)'
    BY <1>3, <1>4 DEF Clear
  <2>5. Harmless
    BY <1>2, <2>3, <2>4 DEF Harmless
  <2> QED
    BY <1>4, <2>1, <2>2, <2>5, RecoverFrom
<1>5. CASE /\ file'[f] # Absent /\ ~file'[f].good
           /\ Fail(t) /\ UNCHANGED inUse
  <2>1. file[f] # Absent /\ ~file[f].good
    BY <1>3, <1>5 DEF Empty
  <2>2. ~again[t]
    BY <1>1, <2>1 DEF RecoverInv, RecoverOK, Clear
  <2>3. GoTo(t, "recover") /\ UNCHANGED <<name, again>>
    BY <1>5, <2>2 DEF Fail
  <2>4. pc'[t] = "recover" /\ \A x \in Threads \ {t} : pc'[x] = pc[x]
    BY <1>1, <2>3 DEF GoTo, ValuesOK
  <2>5. RecoverOK(t)'
    BY <2>2, <2>3, <2>4 DEF RecoverOK
  <2>6. \A g \in Files : file'[g] = file[g]
    BY <1>3, <2>1
  <2>7. /\ \A g \in inUse' : file'[g].good
        /\ \A g \in Files : Clear(g) => Clear(g)'
    BY <1>1, <1>5, <2>6 DEF RecoverInv, Clear, ValuesOK
  <2>8. Harmless
    BY <1>2, <2>7 DEF Harmless
  <2> QED
    BY <2>3, <2>4, <2>5, <2>8, RecoverFrom
<1> QED
  BY <1>4, <1>5 DEF Connect, NoFailures

\* A call returns.
LEMMA ReturnRecovers ==
    ASSUME DatabasesTypeOK, RecoverInv, NEW t \in Threads, Return(t),
           UNCHANGED <<file, copy, inUse>>
    PROVE  RecoverInv'
<1>1. ValuesOK
  BY DEF DatabasesTypeOK
<1>2. /\ pc'[t] = "idle" /\ ~again'[t]
      /\ \A x \in Threads \ {t} : pc'[x] = pc[x] /\ name'[x] = name[x] /\ again'[x] = again[x]
  BY <1>1 DEF Return, GoTo, ValuesOK
<1>3. RecoverOK(t)'
  BY <1>2 DEF RecoverOK
<1>4. /\ \A f \in inUse' : file'[f].good
      /\ \A f \in Files : Clear(f) => Clear(f)'
  BY DEF RecoverInv, Clear
<1>5. Harmless
  BY <1>4 DEF Harmless
<1> QED
  BY <1>2, <1>3, <1>5, RecoverFrom

\* A bad file is removed or put aside, if it is not in use.
LEMMA RecoveryRecovers ==
    ASSUME OneFileOfOrders, DatabasesTypeOK, RecoverInv, NEW t \in Threads,
           RemoveTemp(t) \/ RemoveCopy(t) \/ Rename(t)
    PROVE  RecoverInv' /\ name' = name
<1> DEFINE f == name[t]
<1> USE DEF diskButFile
<1>1. /\ pc[t] \in {"recover", "rename"} /\ f \in Files /\ ValuesOK /\ RecoverOK(t) /\ ~again[t]
  BY ThreadFacts DEF RemoveTemp, RemoveCopy, Rename, At, RecoverInv, RecoverOK, Creating
<1>2. UNCHANGED <<name, inUse>>
  BY DEF RemoveTemp, RemoveCopy, Rename
<1>3. /\ \A x \in Threads \ {t} : pc'[x] = pc[x] /\ again'[x] = again[x]
      /\ \A g \in Files : file'[g] = file[g] \/ (file'[g] = Absent /\ g \notin inUse)
  BY <1>1 DEF RemoveTemp, RemoveCopy, Rename, GoTo, ValuesOK
<1>4. /\ \A g \in inUse' : file'[g].good
      /\ \A g \in Files : Clear(g) => Clear(g)'
  BY <1>1, <1>2, <1>3 DEF RecoverInv, Clear, ValuesOK
<1>5. CASE RemoveTemp(t)
  <2>1. pc'[t] = "lock" /\ copy' = copy /\ Clear(f)'
    BY <1>1, <1>2, <1>5 DEF RemoveTemp, GoTo, ValuesOK, Clear
  <2>2. RecoverOK(t)'
    BY <1>2, <2>1 DEF RecoverOK, Clear
  <2>3. Harmless
    BY <1>4, <2>1 DEF Harmless
  <2> QED
    BY <1>2, <1>3, <2>1, <2>2, <2>3, RecoverFrom
<1>6. CASE RemoveCopy(t)
  <2>1. pc'[t] = "rename" /\ copy' = Absent /\ again' = again /\ Kind[f] = "business"
    BY <1>1, <1>6 DEF RemoveCopy, GoTo, ValuesOK
  <2>2. RecoverOK(t)'
    BY <1>1, <1>2, <2>1 DEF RecoverOK
  <2>3. Harmless
    BY <1>4, <2>1 DEF Harmless
  <2> QED
    BY <1>2, <1>3, <2>1, <2>2, <2>3, RecoverFrom
<1>7. CASE Rename(t)
  <2>1. /\ pc[t] = "rename" /\ pc'[t] = "lock" /\ Kind[f] = "business"
        /\ copy = Absent \/ Clear(f)
    BY <1>1, <1>7 DEF Rename, At, GoTo, ValuesOK, RecoverOK
  <2>2. Clear(f)'
    BY <1>1, <1>2, <1>4, <1>7, <2>1 DEF Rename, ValuesOK, Clear
  <2>3. RecoverOK(t)'
    BY <1>2, <2>1, <2>2 DEF RecoverOK, Clear
  <2>4. \A g \in Files : Kind[g] = "business" => Clear(g)'
    BY <1>1, <1>2, <2>1, <2>2 DEF OneFileOfOrders, Clear
  <2>5. Harmless
    BY <1>4, <2>4 DEF Harmless
  <2> QED
    BY <1>2, <1>3, <2>3, <2>5, RecoverFrom
<1> QED
  BY <1>5, <1>6, <1>7

\* Steps beside the calls, and the first of a call.
LEMMA OtherRecovers ==
    ASSUME DatabasesTypeOK, RecoverInv,
           \/ \E t \in Threads, f \in Files : Ask(t, f)
           \/ \E f \in Files : Damage(f) \/ Clean(f) \/ \E row \in Rows : Write(f, row)
           \/ UNCHANGED vars
    PROVE  RecoverInv'
<1> USE DEF diskVars, diskButFile, loopVars
<1>1. ValuesOK
  BY DEF DatabasesTypeOK
<1>2. ASSUME NEW t \in Threads, NEW f \in Files, Ask(t, f)
      PROVE  RecoverInv'
  <2>1. /\ pc[t] = "idle" /\ pc'[t] = "lock" /\ again' = again
        /\ \A x \in Threads \ {t} : pc'[x] = pc[x] /\ name'[x] = name[x]
    BY <1>1, <1>2 DEF Ask, At, GoTo, ValuesOK
  <2>2. ~again[t]
    BY <2>1 DEF RecoverInv, RecoverOK, Creating
  <2>3. RecoverOK(t)'
    BY <2>1, <2>2 DEF RecoverOK
  <2>4. UNCHANGED <<file, copy, inUse>>
    BY <1>2 DEF Ask
  <2>5. /\ \A g \in inUse' : file'[g].good
        /\ \A g \in Files : Clear(g) => Clear(g)'
    BY <2>4 DEF RecoverInv, Clear
  <2>6. Harmless
    BY <2>4, <2>5 DEF Harmless
  <2> QED
    BY <2>1, <2>3, <2>4, <2>6, RecoverFrom
<1>3. ASSUME UNCHANGED <<copy, inUse, pc, name, again>>,
             \A f \in inUse : file'[f].good,
             \A f \in Files : file[f] = Absent => file'[f] = Absent
      PROVE  RecoverInv'
  <2>1. \A f \in Files : Clear(f) => Clear(f)'
    BY <1>3 DEF Clear
  <2>2. Harmless
    BY <1>3, <2>1 DEF Harmless
  <2> QED
    BY <1>3, <2>2, RecoverStays
<1>4. ASSUME NEW f \in Files, Damage(f) \/ Clean(f)
      PROVE  RecoverInv'
  <2>1. /\ UNCHANGED <<copy, inUse, pc, name, again>> /\ f \notin inUse
        /\ \A g \in Files \ {f} : file'[g] = file[g]
        /\ file[f] = Absent => file'[f] = Absent
    BY <1>1, <1>4 DEF Damage, Clean, ValuesOK
  <2>2. \A g \in inUse : file'[g].good
    BY <1>1, <2>1 DEF RecoverInv, ValuesOK
  <2> QED
    BY <1>3, <2>1, <2>2
<1>5. ASSUME NEW f \in Files, NEW row \in Rows, Write(f, row)
      PROVE  RecoverInv'
  <2>1. /\ UNCHANGED <<copy, inUse, pc, name, again>> /\ f \in inUse
        /\ file[f] \in File /\ file[f] # Absent
    BY <1>1, <1>5 DEF Write, ValuesOK, DatabasesTypeOK, ControlOK
  <2>2. file' = [file EXCEPT ![f] = [file[f] EXCEPT !.rows = @ \cup {row}]]
    BY <1>1, <1>5 DEF Write, ValuesOK
  <2>3. [file[f] EXCEPT !.rows = @ \cup {row}].good = file[f].good
    BY <2>1 DEF File
  <2>4. /\ \A g \in Files \ {f} : file'[g] = file[g]
        /\ file'[f].good = file[f].good
    BY <1>1, <2>2, <2>3 DEF ValuesOK
  <2>5. \A g \in inUse : file'[g].good
    BY <1>1, <2>4 DEF RecoverInv, ValuesOK
  <2> QED
    BY <1>3, <2>1, <2>4, <2>5
<1>6. CASE UNCHANGED vars
  <2>1. UNCHANGED <<file, copy, inUse, pc, name, again>>
    BY <1>6 DEF vars
  <2> QED
    BY <1>3, <2>1 DEF RecoverInv
<1> QED
  BY <1>2, <1>4, <1>5, <1>6

LEMMA RecoverInvInit == Init => RecoverInv
  BY DEF Init, RecoverInv, RecoverOK

\* What a call that returns has.
Gets == \A t \in Threads :
            name[t] \in Files /\ name'[t] \notin Files => name[t] \in pool'

LEMMA RecoverInvNext ==
    ASSUME NoFailures, OneFileOfOrders, DatabasesTypeOK, PoolInv, RecoverInv, [Next]_vars
    PROVE  RecoverInv' /\ (Gets \/ UNCHANGED vars)
<1>1. ValuesOK
  BY DEF DatabasesTypeOK
<1>2. ASSUME name' = name
      PROVE  Gets
  BY <1>2 DEF Gets
<1>3. ASSUME NEW t \in Threads, Lock(t) \/ PutInPool(t)
      PROVE  RecoverInv' /\ Gets
  <2>1. CASE Return(t) /\ name[t] \in pool'
    <3>1. UNCHANGED <<file, copy, inUse>>
      BY <1>3 DEF Lock, PutInPool, diskVars, diskButFile
    <3>2. \A x \in Threads \ {t} : name'[x] = name[x]
      BY <1>1, <2>1 DEF Return, ValuesOK
    <3> QED
      BY <2>1, <3>1, <3>2, ReturnRecovers DEF Gets
  <2>2. CASE GoTo(t, "connect") /\ UNCHANGED <<name, again, diskVars, inUse>>
    <3>1. pc[t] = "lock"
      BY <1>3, <1>1, <2>2 DEF Lock, PutInPool, Return, GoTo, At, ValuesOK
    <3>2. pc'[t] = "connect" /\ \A x \in Threads \ {t} : pc'[x] = pc[x]
      BY <1>1, <2>2 DEF GoTo, ValuesOK
    <3>3. UNCHANGED <<file, copy, inUse, name, again>>
      BY <2>2 DEF diskVars, diskButFile
    <3>4. RecoverOK(t)'
      BY <3>1, <3>2, <3>3 DEF RecoverInv, RecoverOK, Clear, Creating
    <3>5. /\ \A g \in inUse' : file'[g].good
          /\ \A g \in Files : Clear(g) => Clear(g)'
      BY <3>3 DEF RecoverInv, Clear
    <3>6. Harmless
      BY <3>3, <3>5 DEF Harmless
    <3> QED
      BY <1>2, <3>2, <3>3, <3>4, <3>6, RecoverFrom
  <2> QED
    BY <1>3, <2>1, <2>2 DEF Lock, PutInPool
<1>4. ASSUME NEW t \in Threads, Step(t)
      PROVE  RecoverInv' /\ Gets
  BY <1>2, <1>3, <1>4, ConnectRecovers, CreateTableRecovers, UpgradeDatabaseRecovers,
     RunStatementRecovers, RecoveryRecovers DEF Step
<1>5. CASE Restart
  <2>1. \A t \in Threads : pc[t] = "idle"
    BY <1>5 DEF Restart, NoFailures, At
  <2>2. \A t \in Threads : name[t] = Nobody
    BY <2>1 DEF DatabasesTypeOK, ControlOK, ThreadOK
  <2>3. Gets
    BY <2>2, NobodyFacts DEF Gets
  <2>4. RecoverInv'
    BY <1>5 DEF Restart, RecoverInv, RecoverOK
  <2> QED
    BY <2>3, <2>4
<1>6. ASSUME NEW t \in Threads, NEW f \in Files, Ask(t, f)
      PROVE  RecoverInv' /\ Gets
  <2>1. pc[t] = "idle" /\ \A x \in Threads \ {t} : name'[x] = name[x]
    BY <1>1, <1>6 DEF Ask, At, ValuesOK
  <2>2. name[t] = Nobody
    BY <2>1 DEF DatabasesTypeOK, ControlOK, ThreadOK
  <2> QED
    BY <1>6, <2>1, <2>2, NobodyFacts, OtherRecovers DEF Gets
<1>7. ASSUME NEW f \in Files, Damage(f) \/ Clean(f) \/ \E row \in Rows : Write(f, row)
      PROVE  RecoverInv' /\ Gets
  <2>1. name' = name
    BY <1>7 DEF Damage, Clean, Write
  <2> QED
    BY <1>2, <1>7, <2>1, OtherRecovers
<1>8. CASE UNCHANGED vars
  BY <1>8, OtherRecovers
<1> QED
  BY <1>4, <1>5, <1>6, <1>7, <1>8 DEF Next

\* For any threads, versions and bad files: where no statement fails, a call
\* for the one file of orders or for Temp.db comes back with a database, whoever
\* else asks for it, recovers it or cleans up meanwhile (RecreateDatabase).
THEOREM CallsGetDatabases ==
    ASSUME NoFailures, OneFileOfOrders
    PROVE  Spec => EveryCallGetsADatabase
<1>1. DatabasesTypeOK /\ PoolInv /\ RecoverInv /\ [Next]_vars
      => RecoverInv' /\ [Gets]_vars
  BY RecoverInvNext
<1>2. [Gets]_vars
      <=> [\A t \in Threads : name[t] \in Files /\ name'[t] \notin Files
            => name[t] \in pool']_vars
  BY DEF Gets
<1> QED
  BY <1>1, <1>2, PoolInvHolds, RecoverInvInit, PTL
  DEF Spec, EveryCallGetsADatabase
-----------------------------------------------------------------------------
(* The program as it is: OrderEntity has one version.  Then nothing is ever  *)
(* to be upgraded, and the process may die between any two statements.      *)

OneVersion == MaxVersion = 1

\* tb_order is created with all its columns at once.
Columned(content) ==
    "tb_order" \in content.tables => content.columns = Columns

\* What a database has when it is handed out.
Registered(content) ==
    /\ content.tables = Tables
    /\ ~SqlMayFail => content.version["tb_order"] = 1

\* How far a thread is with its file.
Preparing(t) ==
    pc[t] \in {"table", "members"} =>
        /\ file[name[t]].tables = Tables
        /\ \A s \in left[t] : s.kind # "ALTER"
        /\ "tb_order" \notin todo[t] => Registered(file[name[t]])

OneVersionInv ==
    /\ \A f \in Files : file[f] # Absent => Columned(file[f])
    /\ \A f \in pool : Registered(file[f])
    /\ \A t \in Threads : Preparing(t)

LEMMA OneVersionFacts ==
    ASSUME OneVersion, DatabasesTypeOK
    PROVE  /\ program = 1 /\ Members = Columns
           /\ \A tbl \in Tables : ClassVersion(tbl) = 1
           /\ \A f \in Files : file[f] # Absent =>
                \A tbl \in Tables : file[f].version[tbl] \in {0, 1}
<1>1. Versions = {1}
  BY DEF OneVersion, Versions
<1>2. program = 1
  BY <1>1 DEF DatabasesTypeOK, ValuesOK
<1>3. \A c \in Columns : FieldVersion[c] = 1
  BY <1>1, DatabasesAssumption
<1>4. Members = Columns
  BY <1>2, <1>3 DEF Members
<1>5. \A tbl \in Tables : ClassVersion(tbl) = 1
  BY <1>2 DEF ClassVersion
<1>6. ASSUME NEW f \in Files, file[f] # Absent, NEW tbl \in Tables
      PROVE  file[f].version[tbl] \in {0, 1}
  <2>1. file[f] \in File
    BY <1>6 DEF DatabasesTypeOK, ValuesOK
  <2> QED
    BY <1>1, <2>1 DEF File
<1> QED
  BY <1>2, <1>4, <1>5, <1>6

LEMMA AlikeOneVersion ==
    ASSUME NEW a, NEW b, Alike(a, b)
    PROVE  /\ Columned(a) => Columned(b)
           /\ Registered(a) => Registered(b)
           /\ a.tables = b.tables
  BY DEF Alike, Columned, Registered

LEMMA ElsewhereOneVersion ==
    ASSUME DatabasesTypeOK, OneVersionInv, Beside
    PROVE  OneVersionInv'
<1> USE DEF Beside
<1>1. ASSUME NEW f \in Files, file'[f] # Absent
      PROVE  Columned(file[f])'
  <2>1. file[f] # Absent /\ Columned(file[f])
    BY <1>1 DEF OneVersionInv
  <2>2. Columned(file'[f])
    BY <1>1, <2>1, AlikeOneVersion
  <2> QED
    BY <2>2 DEF Columned
<1>2. ASSUME NEW f \in inUse
      PROVE  /\ Registered(file[f]) => Registered(file[f])'
             /\ file'[f].tables = file[f].tables
  <2>1. f \in Files
    BY DEF DatabasesTypeOK, ValuesOK
  <2>2. /\ Registered(file[f]) => Registered(file'[f])
        /\ file'[f].tables = file[f].tables
    BY <2>1, AlikeOneVersion
  <2> QED
    BY <2>2 DEF Registered
<1>3. \A f \in pool' : Registered(file[f])'
  BY <1>2 DEF OneVersionInv, DatabasesTypeOK, ValuesOK
<1>4. ASSUME NEW t \in Threads, pc'[t] \in {"table", "members"}
      PROVE  Preparing(t)'
  <2>1. /\ pc[t] = pc'[t] /\ name'[t] = name[t] /\ todo'[t] = todo[t]
        /\ left'[t] = left[t]
    BY <1>4 DEF Creating
  <2>2. name[t] \in inUse
    BY <1>4, <2>1, CreatingFacts DEF Creating
  <2>3. Registered(file[name[t]]) => Registered(file[name[t]])'
    BY <1>2, <2>1, <2>2 DEF Registered
  <2>4. file'[name'[t]].tables = file[name[t]].tables
    BY <1>2, <2>1, <2>2
  <2> QED
    BY <1>4, <2>1, <2>3, <2>4 DEF OneVersionInv, Preparing
<1> QED
  BY <1>1, <1>3, <1>4 DEF OneVersionInv, Preparing

\* A step of the thread that has m_mtx, on its own file.
LEMMA OwnOneVersion ==
    ASSUME DatabasesTypeOK, OneVersionInv, NEW t \in Threads,
           pc[t] \in {"connect"} \cup Creating,
           \A x \in Threads \ {t} : pc'[x] = pc[x],
           pool' = pool,
           \A f \in Files \ {name[t]} : file'[f] = file[f],
           file'[name[t]] # Absent => Columned(file'[name[t]]),
           Preparing(t)'
    PROVE  OneVersionInv'
<1>1. mutex = t /\ name[t] \notin pool
  BY ThreadFacts DEF ThreadOK
<1>2. \A x \in Threads \ {t} : pc'[x] \notin Creating
  BY <1>1, OneCreates
<1>3. \A f \in Files : file'[f] # Absent => Columned(file[f])'
  BY DEF OneVersionInv, Columned
<1>4. \A f \in pool' : Registered(file[f])'
  <2>1. \A f \in pool' : f \in Files /\ f # name[t]
    BY <1>1 DEF DatabasesTypeOK, ValuesOK
  <2> QED
    BY <2>1 DEF OneVersionInv, Registered
<1>5. \A x \in Threads \ {t} : Preparing(x)'
  BY <1>2 DEF Preparing, Creating
<1> QED
  BY <1>3, <1>4, <1>5 DEF OneVersionInv

\* CreateDatabase fails, the file as it was.
LEMMA FailOneVersion ==
    ASSUME DatabasesTypeOK, OneVersionInv, NEW t \in Threads, Fail(t),
           pc[t] \in {"connect"} \cup Creating, pool' = pool, file' = file
    PROVE  OneVersionInv'
<1>1. pc'[t] \in {"idle", "recover"} /\ \A x \in Threads \ {t} : pc'[x] = pc[x]
  BY DEF Fail, Return, GoTo, DatabasesTypeOK, ValuesOK
<1>2. Preparing(t)'
  BY <1>1 DEF Preparing
<1>3. name[t] \in Files
  BY ThreadFacts, PointFacts DEF Creating
<1> QED
  BY <1>1, <1>2, <1>3, OwnOneVersion DEF OneVersionInv, Creating

LEMMA ConnectOneVersion ==
    ASSUME DatabasesTypeOK, OneVersionInv, NEW t \in Threads, Connect(t)
    PROVE  OneVersionInv'
<1> DEFINE f == name[t]
<1>1. /\ f \in Files /\ pc[t] = "connect" /\ ValuesOK /\ pool' = pool
  BY ThreadFacts, PointFacts DEF Connect, At, diskButFile
<1>2. pc'[t] \in {"create", "idle", "recover"} /\ \A x \in Threads \ {t} : pc'[x] = pc[x]
  BY <1>1 DEF Connect, Fail, Return, GoTo, ValuesOK
<1>3. /\ \A g \in Files \ {f} : file'[g] = file[g]
      /\ file'[f] = file[f] \/ file'[f] = Empty
  BY <1>1 DEF Connect, ValuesOK
<1>4. Columned(Empty)
  BY DEF Columned, Empty
<1>5. file'[f] # Absent => Columned(file'[f])
  BY <1>1, <1>3, <1>4 DEF OneVersionInv
<1>6. Preparing(t)'
  BY <1>2 DEF Preparing
<1> QED
  BY <1>1, <1>2, <1>3, <1>5, <1>6, OwnOneVersion

LEMMA CreateTableOneVersion ==
    ASSUME OneVersion, DatabasesTypeOK, OneVersionInv, NEW t \in Threads,
           CreateTable(t)
    PROVE  OneVersionInv'
<1> DEFINE f == name[t]
           missing == Tables \ file[f].tables
<1>1. /\ pc[t] = "create" /\ pc[t] \in Creating /\ pool' = pool
      /\ f \in Files /\ file[f] \in File /\ file[f] # Absent
      /\ ValuesOK /\ left[t] = {} /\ Columned(file[f])
  BY CreatingFacts, AbsentAssumption
  DEF CreateTable, At, Creating, ThreadOK, OneVersionInv, diskButFile
<1>2. CASE /\ missing = {} /\ GoTo(t, "table") /\ TablesOfUpgrade(t)
           /\ UNCHANGED <<file, mutex, name, again, left>>
  <2>1. pc'[t] = "table" /\ \A x \in Threads \ {t} : pc'[x] = pc[x]
    BY <1>1, <1>2 DEF GoTo, ValuesOK
  <2>2. file[f].tables = Tables
    BY <1>1, <1>2 DEF File
  <2>3. "tb_order" \notin todo'[t] => SqlMayFail
    BY <1>1, <1>2 DEF TablesOfUpgrade, ValuesOK, Tables
  <2>4. Preparing(t)'
    BY <1>1, <1>2, <2>2, <2>3 DEF Preparing, Registered
  <2> QED
    BY <1>1, <1>2, <2>1, <2>4, OwnOneVersion
<1>3. ASSUME NEW content, file' = [file EXCEPT ![f] = content], Columned(content),
             UNCHANGED pc
      PROVE  OneVersionInv'
  <2>1. file'[f] = content /\ \A g \in Files \ {f} : file'[g] = file[g]
    BY <1>1, <1>3 DEF ValuesOK
  <2>2. Preparing(t)'
    BY <1>1, <1>3 DEF Preparing
  <2> QED
    BY <1>1, <1>3, <2>1, <2>2, OwnOneVersion
<1>4. CASE /\ file' = [file EXCEPT ![f].tables = @ \cup {"tb_version"}]
           /\ UNCHANGED pc
  <2> DEFINE content == [file[f] EXCEPT !.tables = @ \cup {"tb_version"}]
  <2>1. Columned(content)
    BY <1>1 DEF Columned, File
  <2>2. file' = [file EXCEPT ![f] = content]
    BY <1>1, <1>4 DEF ValuesOK
  <2> QED
    BY <1>3, <1>4, <2>1, <2>2
<1>5. CASE /\ file' = [file EXCEPT ![f].tables = @ \cup {"tb_order"},
                                   ![f].columns = Members]
           /\ UNCHANGED pc
  <2> DEFINE content == [file[f] EXCEPT !.tables = @ \cup {"tb_order"},
                                        !.columns = Members]
  <2>1. Columned(content)
    BY <1>1, OneVersionFacts DEF Columned, File
  <2>2. file' = [file EXCEPT ![f] = content]
    BY <1>1, <1>5 DEF ValuesOK
  <2> QED
    BY <1>3, <1>5, <2>1, <2>2
<1>6. CASE Fail(t) /\ file' = file
  BY <1>1, <1>6, FailOneVersion
<1> QED
  BY <1>2, <1>4, <1>5, <1>6 DEF CreateTable

\* tb_order is registered with the version it has; there are no members to add.
LEMMA UpgradeDatabaseOneVersion ==
    ASSUME OneVersion, DatabasesTypeOK, OneVersionInv, NEW t \in Threads,
           NEW tbl \in Tables, UpgradeDatabase(t, tbl)
    PROVE  OneVersionInv'
<1> DEFINE f == name[t]
<1>1. /\ pc[t] = "table" /\ pc[t] \in Creating /\ pool' = pool
      /\ f \in Files /\ file[f] \in File /\ file[f] # Absent
      /\ ValuesOK /\ left[t] = {}
  BY CreatingFacts, AbsentAssumption
  DEF UpgradeDatabase, At, Creating, ThreadOK, diskButFile
<1>2. /\ file[f].tables = Tables /\ Columned(file[f])
      /\ "tb_order" \notin todo[t] => Registered(file[f])
  BY <1>1 DEF OneVersionInv, Preparing
<1>3. ClassVersion(tbl) = 1 /\ file[f].version[tbl] \in {0, 1}
  BY <1>1, OneVersionFacts
<1>4. ASSUME NEW content, file'[f] = content,
             \A g \in Files \ {f} : file'[g] = file[g],
             content.tables = Tables, Columned(content),
             NEW statements, \A s \in statements : s.kind # "ALTER",
             Statements(t, tbl, statements), name' = name,
             "tb_order" \notin todo[t] \ {tbl} => Registered(content)
      PROVE  OneVersionInv'
  <2>1. /\ todo'[t] = todo[t] \ {tbl} /\ left'[t] = statements
        /\ \A x \in Threads \ {t} : pc'[x] = pc[x]
    BY <1>1, <1>4 DEF Statements, GoTo, ValuesOK
  <2>2. Preparing(t)'
    BY <1>4, <2>1 DEF Preparing, Registered
  <2> QED
    BY <1>1, <1>4, <2>1, <2>2, OwnOneVersion
<1>5. CASE /\ ~SqlMayFail => file[f].version[tbl] = 1
           /\ Statements(t, tbl, {}) /\ UNCHANGED <<file, name>>
  <2>1. "tb_order" \notin todo[t] \ {tbl} => Registered(file[f])
    BY <1>2, <1>5 DEF Registered
  <2> QED
    BY <1>2, <1>4, <1>5, <2>1
<1>6. CASE /\ file' = [file EXCEPT ![f].version[tbl] =
                            IF @ = 0 THEN ClassVersion(tbl) ELSE @]
           /\ Statements(t, tbl, NewIndexes(tbl)) /\ name' = name
  <2> DEFINE content == [file[f] EXCEPT !.version[tbl] = 1]
  <2>1. file' = [file EXCEPT ![f] = content]
    BY <1>1, <1>3, <1>6 DEF ValuesOK, File
  <2>2. /\ content.tables = file[f].tables /\ content.columns = file[f].columns
        /\ content.version = [file[f].version EXCEPT ![tbl] = 1]
    BY <1>1 DEF File
  <2>3. content.version[tbl] = 1
        /\ \A x \in Tables \ {tbl} : content.version[x] = file[f].version[x]
    BY <1>1, <2>2 DEF File
  <2>4. Columned(content)
    BY <1>2, <2>2 DEF Columned
  <2>5. "tb_order" \notin todo[t] \ {tbl} => Registered(content)
    BY <1>2, <2>2, <2>3 DEF Registered, Tables
  <2>6. \A s \in NewIndexes(tbl) : s.kind # "ALTER"
    BY DEF NewIndexes
  <2>7. file'[f] = content /\ \A g \in Files \ {f} : file'[g] = file[g]
    BY <1>1, <2>1 DEF ValuesOK
  <2> HIDE DEF content
  <2> QED
    BY <1>2, <1>4, <1>6, <2>2, <2>4, <2>5, <2>6, <2>7
<1>7. CASE Fail(t) /\ file' = file
  BY <1>1, <1>7, FailOneVersion
<1> QED
  <2>1. PICK seen \in {file[f].version[tbl]} \cup (IF SqlMayFail THEN {0} ELSE {}) :
           \/ /\ seen >= ClassVersion(tbl)
              /\ Statements(t, tbl, {})
              /\ UNCHANGED <<file, mutex, name, again>>
           \/ 0 < seen /\ seen < ClassVersion(tbl)
           \/ /\ seen = 0
              /\ file' = [file EXCEPT ![f].version[tbl] =
                              IF @ = 0 THEN ClassVersion(tbl) ELSE @]
              /\ Statements(t, tbl, NewIndexes(tbl))
              /\ UNCHANGED <<mutex, name, again>>
           \/ Fail(t) /\ UNCHANGED file
    BY DEF UpgradeDatabase
  <2>2. seen \in {0, 1} /\ (~SqlMayFail => seen = file[f].version[tbl])
    BY <1>3
  <2> QED
    BY <1>3, <1>5, <1>6, <1>7, <2>1, <2>2

\* Only indexes and the version are left to do.
LEMMA RunStatementOneVersion ==
    ASSUME OneVersion, DatabasesTypeOK, OneVersionInv, NEW t \in Threads,
           RunStatement(t)
    PROVE  OneVersionInv'
<1> DEFINE f == name[t]
<1>1. /\ pc[t] = "members" /\ pc[t] \in Creating /\ pool' = pool
      /\ f \in Files /\ file[f] \in File /\ file[f] # Absent
      /\ ValuesOK
  BY CreatingFacts, AbsentAssumption
  DEF RunStatement, At, Creating, diskButFile
<1>2. /\ file[f].tables = Tables /\ Columned(file[f])
      /\ "tb_order" \notin todo[t] => Registered(file[f])
      /\ \A s \in left[t] : s.kind # "ALTER"
  BY <1>1 DEF OneVersionInv, Preparing
<1>3. ASSUME NEW s \in left[t],
             file' = [file EXCEPT ![f] = Done(s, @)],
             left' = [left EXCEPT ![t] = @ \ {s}],
             GoTo(t, IF left[t] = {s} THEN "table" ELSE "members"),
             UNCHANGED <<mutex, name, again, todo>>
      PROVE  OneVersionInv'
  <2> DEFINE content == Done(s, file[f])
  <2>1. /\ content.tables = file[f].tables /\ content.columns = file[f].columns
        /\ content.version["tb_order"] \in {file[f].version["tb_order"], 1}
    <3>1. s.kind \in {"INDEX", "VERSION"}
      BY <1>1, <1>2 DEF ValuesOK, Statement, UpdateTableVersion
    <3>2. CASE s.kind = "INDEX"
      <4>1. content = [file[f] EXCEPT !.indexes = @ \cup {s.member}]
        BY <3>2 DEF Done
      <4> QED
        BY <1>1, <4>1 DEF File
    <3>3. CASE s.kind = "VERSION"
      <4>1. content = [file[f] EXCEPT !.version["tb_order"] = 1]
        BY <3>3, OneVersionFacts DEF Done
      <4> HIDE DEF content
      <4>2. /\ content.tables = file[f].tables /\ content.columns = file[f].columns
            /\ content.version = [file[f].version EXCEPT !["tb_order"] = 1]
        BY <1>1, <4>1 DEF File
      <4> QED
        BY <1>1, <4>2 DEF File, Tables
    <3> QED
      BY <3>1, <3>2, <3>3
  <2>2. file'[f] = content /\ \A g \in Files \ {f} : file'[g] = file[g]
    BY <1>1, <1>3 DEF ValuesOK
  <2> HIDE DEF content
  <2>3. Columned(content) /\ ("tb_order" \notin todo[t] => Registered(content))
    BY <1>2, <2>1 DEF Columned, Registered
  <2>4. left'[t] \subseteq left[t] /\ \A x \in Threads \ {t} : pc'[x] = pc[x]
    BY <1>1, <1>3 DEF ValuesOK, GoTo
  <2>5. Preparing(t)'
    BY <1>2, <1>3, <2>1, <2>2, <2>3, <2>4 DEF Preparing, Registered
  <2> QED
    BY <1>1, <2>2, <2>3, <2>4, <2>5, OwnOneVersion
<1>4. CASE Fail(t) /\ file' = file
  BY <1>1, <1>4, FailOneVersion
<1> QED
  BY <1>3, <1>4 DEF RunStatement

LEMMA PutInPoolOneVersion ==
    ASSUME DatabasesTypeOK, OneVersionInv, NEW t \in Threads, PutInPool(t)
    PROVE  OneVersionInv'
<1>1. /\ pc[t] = "table" /\ pc[t] \in Creating /\ todo[t] = {}
      /\ ValuesOK /\ mutex = t /\ Registered(file[name[t]])
  BY CreatingFacts DEF PutInPool, At, Creating, OneVersionInv, Preparing
<1>2. pool' = pool \cup {name[t]} /\ file' = file /\ Return(t)
  BY DEF PutInPool, diskVars
<1>3. \A x \in Threads : pc'[x] \notin Creating
  <2>1. pc'[t] = "idle" /\ \A x \in Threads \ {t} : pc'[x] = pc[x]
    BY <1>1, <1>2, ReturnFacts DEF OthersStay
  <2> QED
    BY <1>1, <2>1, OneCreates DEF Creating
<1> QED
  BY <1>1, <1>2, <1>3
  DEF OneVersionInv, Columned, Registered, Preparing, Creating

LEMMA OneVersionInvNext ==
    ASSUME OneVersion, DatabasesTypeOK, OneVersionInv, [Next]_vars
    PROVE  OneVersionInv'
<1>1. ASSUME NEW t \in Threads, Step(t)
      PROVE  OneVersionInv'
  BY <1>1, OtherSteps, ElsewhereOneVersion, ConnectOneVersion,
     CreateTableOneVersion, UpgradeDatabaseOneVersion, RunStatementOneVersion,
     PutInPoolOneVersion
  DEF Step
<1>2. CASE Restart
  BY <1>2 DEF Restart, OneVersionInv, Columned, Preparing
<1> QED
  BY <1>1, <1>2, OtherSteps, ElsewhereOneVersion DEF Next

\* With the one version OrderEntity has, a file that DatabaseManager hands out
\* is ready even if the process died while it, or an earlier call, created the
\* file: the next start creates the tables that are missing and registers
\* them (BusinessDB::CreateTable, DatabaseManager::UpgradeDatabase).
THEOREM PoolIsReadyAfterCrashes ==
    ASSUME OneVersion, ~SqlMayFail
    PROVE  Spec => []PoolIsReady
<1>1. Init => OneVersionInv
  BY DEF Init, OneVersionInv, Preparing
<1>2. DatabasesTypeOK /\ OneVersionInv /\ [Next]_vars => OneVersionInv'
  BY OneVersionInvNext
<1>3. DatabasesTypeOK /\ OneVersionInv => PoolIsReady
  <2> SUFFICES ASSUME DatabasesTypeOK, OneVersionInv, NEW f \in pool
               PROVE  /\ file[f] # Absent
                      /\ file[f].tables = Tables
                      /\ file[f].columns = Members
                      /\ file[f].version["tb_order"] = program
    BY DEF PoolIsReady
  <2>1. f \in Files /\ file[f] # Absent
    BY DEF DatabasesTypeOK, ValuesOK, ControlOK
  <2>2. Columned(file[f]) /\ Registered(file[f])
    BY <2>1 DEF OneVersionInv
  <2> QED
    BY <2>1, <2>2, OneVersionFacts DEF Columned, Registered, Tables
<1> QED
  BY <1>1, <1>2, <1>3, DatabasesTypeCorrect, PTL DEF Spec

\* Every database handed out has the tables and columns of the program.
PoolHasColumns ==
    \A f \in pool : file[f].tables = Tables /\ file[f].columns = Members

\* What no failure takes from it, of the process or of a statement: a database
\* that is handed out has all its tables and all the columns the handlers
\* name in their statements.
THEOREM PoolHasItsColumns ==
    ASSUME OneVersion
    PROVE  Spec => []PoolHasColumns
<1>1. Init => OneVersionInv
  BY DEF Init, OneVersionInv, Preparing
<1>2. DatabasesTypeOK /\ OneVersionInv /\ [Next]_vars => OneVersionInv'
  BY OneVersionInvNext
<1>3. DatabasesTypeOK /\ OneVersionInv
        => PoolHasColumns
  <2> SUFFICES ASSUME DatabasesTypeOK, OneVersionInv, NEW f \in pool
               PROVE  file[f].tables = Tables /\ file[f].columns = Members
    BY DEF PoolHasColumns
  <2>1. f \in Files /\ file[f] # Absent
    BY DEF DatabasesTypeOK, ValuesOK, ControlOK
  <2>2. Columned(file[f]) /\ Registered(file[f])
    BY <2>1 DEF OneVersionInv
  <2> QED
    BY <2>2, OneVersionFacts DEF Columned, Registered, Tables
<1> QED
  BY <1>1, <1>2, <1>3, DatabasesTypeCorrect, PTL DEF Spec
=============================================================================

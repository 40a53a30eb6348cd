------------------------------ MODULE DmlProofs -----------------------------
(***************************************************************************)
(* Theorems about Dml.tla.  DmlTypeOK is inductive; with it, so is         *)
(* TransactionsEnd, and then every step is a step of Table.                *)
(***************************************************************************)
EXTENDS Dml, TLAPS

\* A statement leaves a table a table.
LEMMA WrittenType ==
    ASSUME NEW c \in Calls, NEW keys, NEW rows \in Contents
    PROVE  Written(c, keys, rows) \in Contents
<1>1. c \in Call
  BY TableAssumption
<1>2. ASSUME NEW k \in Keys
      PROVE  Effect(c, rows[k]) \in Values \cup {NoRow}
  BY <1>1, <1>2 DEF Effect, Call, Contents, Reads, Writes
<1> QED
  BY <1>2 DEF Written, Contents

\* What a call reads is rows of the table.
LEMMA SeenType ==
    ASSUME NEW c, NEW rows \in Contents
    PROVE  Seen(c, rows) \in Contents
  BY DEF Seen, Contents

LEMMA NothingType == Nothing \in Contents
  BY DEF Nothing, Contents

\* The rows a thread sees are a table.
LEMMA ViewType ==
    ASSUME ValuesOK, NEW t \in Threads
    PROVE  View(t) \in Contents
  BY DEF ValuesOK, View

\* What a thread holds stays right when a step leaves all of it alone.
LEMMA OtherThreadOK ==
    ASSUME NEW u, ThreadOK(u),
           pc'[u] = pc[u], call'[u] = call[u], todo'[u] = todo[u],
           u \in readers' <=> u \in readers, writer' = u <=> writer = u,
           connection'[u] = connection[u], open'[u] = open[u]
    PROVE  ThreadOK(u)'
  BY DEF ThreadOK, Holds

LEMMA DmlTypeInit == Init => DmlTypeOK
<1> SUFFICES ASSUME Init PROVE DmlTypeOK
  OBVIOUS
<1>1. ValuesOK
  BY NothingType DEF Init, TableInit, ValuesOK
<1>2. \A t \in Threads : ThreadOK(t)
  BY DmlAssumption DEF Init, TableInit, ThreadOK, Holds, Inside
<1> QED
  BY <1>1, <1>2 DEF DmlTypeOK, Init

\* Returning releases the lock and leaves the thread idle.
LEMMA ReturnType ==
    ASSUME DmlTypeOK, NEW t \in Threads, NEW a \in {"ok", "error"}, Return(t, a),
           table' \in Contents, seen' \in [Threads -> Contents],
           connection' \in [Threads -> {"none", "open", "broken"}],
           open' \in [Threads -> BOOLEAN], changed' \in [Threads -> Contents],
           silent' \in BOOLEAN,
           \A u \in Threads \ {t} : connection'[u] = connection[u] /\ open'[u] = open[u],
           open'[t] => connection'[t] = "open"
    PROVE  DmlTypeOK'
<1> USE DEF DmlTypeOK, ValuesOK
<1>1. ValuesOK'
  BY DEF Return, Answer, GoTo, Unlock
<1>2. (writer # Nobody => readers = {})'
  BY DmlAssumption DEF Return, Unlock
<1>3. ThreadOK(t)'
  BY DmlAssumption DEF Return, Answer, GoTo, Unlock, ThreadOK, Holds, Inside
<1>4. ASSUME NEW u \in Threads, u # t
      PROVE  ThreadOK(u)'
  <2>1. /\ pc'[u] = pc[u] /\ call'[u] = call[u] /\ todo'[u] = todo[u]
        /\ u \in readers' <=> u \in readers
        /\ writer' = u <=> writer = u
        /\ ThreadOK(u)
    BY <1>4, DmlAssumption DEF Return, Answer, GoTo, Unlock
  <2> QED
    BY <1>4, <2>1, OtherThreadOK
<1> QED
  BY <1>1, <1>2, <1>3, <1>4

\* Each step keeps the type.

LEMMA AskType ==
    ASSUME DmlTypeOK, NEW t \in Threads, Ask(t)
    PROVE  DmlTypeOK'
<1> USE DEF DmlTypeOK, ValuesOK
<1>1. ValuesOK'
  BY DEF Ask, At, GoTo, Begin, lockVars, sqlVars, tableVars
<1>2. (writer # Nobody => readers = {})'
  BY DmlAssumption DEF Ask, lockVars
<1>3. ThreadOK(t)'
  BY TableAssumption, DmlAssumption DEF Ask, At, GoTo, Begin, Reads, Writes, lockVars, sqlVars, tableVars, ThreadOK, Holds, Inside
<1>4. ASSUME NEW u \in Threads, u # t
      PROVE  ThreadOK(u)'
  <2>1. /\ pc'[u] = pc[u] /\ call'[u] = call[u] /\ todo'[u] = todo[u]
        /\ u \in readers' <=> u \in readers
        /\ writer' = u <=> writer = u
        /\ connection'[u] = connection[u] /\ open'[u] = open[u]
        /\ ThreadOK(u)
    BY <1>4, DmlAssumption DEF Ask, At, GoTo, Begin, lockVars, sqlVars, tableVars
  <2> QED
    BY <1>4, <2>1, OtherThreadOK
<1> QED
  BY <1>1, <1>2, <1>3, <1>4

LEMMA LockForReadType ==
    ASSUME DmlTypeOK, NEW t \in Threads, LockForRead(t)
    PROVE  DmlTypeOK'
<1> USE DEF DmlTypeOK, ValuesOK
<1>1. ValuesOK'
  BY DEF LockForRead, At, GoTo, lockVars, sqlVars, tableVars
<1>2. (writer # Nobody => readers = {})'
  BY DmlAssumption DEF LockForRead, lockVars
<1>3. ThreadOK(t)'
  BY TableAssumption, DmlAssumption DEF LockForRead, At, GoTo, Reads, Writes, lockVars, sqlVars, tableVars, ThreadOK, Holds, Inside
<1>4. ASSUME NEW u \in Threads, u # t
      PROVE  ThreadOK(u)'
  <2>1. /\ pc'[u] = pc[u] /\ call'[u] = call[u] /\ todo'[u] = todo[u]
        /\ u \in readers' <=> u \in readers
        /\ writer' = u <=> writer = u
        /\ connection'[u] = connection[u] /\ open'[u] = open[u]
        /\ ThreadOK(u)
    BY <1>4, DmlAssumption DEF LockForRead, At, GoTo, lockVars, sqlVars, tableVars
  <2> QED
    BY <1>4, <2>1, OtherThreadOK
<1> QED
  BY <1>1, <1>2, <1>3, <1>4

LEMMA LockForWriteType ==
    ASSUME DmlTypeOK, NEW t \in Threads, LockForWrite(t)
    PROVE  DmlTypeOK'
<1> USE DEF DmlTypeOK, ValuesOK
<1>1. ValuesOK'
  BY DEF LockForWrite, At, GoTo, lockVars, sqlVars, tableVars
<1>2. (writer # Nobody => readers = {})'
  BY DmlAssumption DEF LockForWrite, lockVars
<1>3. ThreadOK(t)'
  BY TableAssumption, DmlAssumption DEF LockForWrite, At, GoTo, Reads, Writes, lockVars, sqlVars, tableVars, ThreadOK, Holds, Inside
<1>4. ASSUME NEW u \in Threads, u # t
      PROVE  ThreadOK(u)'
  <2>1. /\ pc'[u] = pc[u] /\ call'[u] = call[u] /\ todo'[u] = todo[u]
        /\ u \in readers' <=> u \in readers
        /\ writer' = u <=> writer = u
        /\ connection'[u] = connection[u] /\ open'[u] = open[u]
        /\ ThreadOK(u)
    BY <1>4, DmlAssumption DEF LockForWrite, At, GoTo, lockVars, sqlVars, tableVars
  <2> QED
    BY <1>4, <2>1, OtherThreadOK
<1> QED
  BY <1>1, <1>2, <1>3, <1>4

LEMMA ConnectedType ==
    ASSUME DmlTypeOK, NEW t \in Threads, Connected(t)
    PROVE  DmlTypeOK'
<1> USE DEF DmlTypeOK, ValuesOK
<1>1. ValuesOK'
  BY DEF Connected, At, GoTo, lockVars, sqlVars, tableVars
<1>2. (writer # Nobody => readers = {})'
  BY DmlAssumption DEF Connected, lockVars
<1>3. ThreadOK(t)'
  BY TableAssumption, DmlAssumption DEF Connected, At, GoTo, Reads, Writes, lockVars, sqlVars, tableVars, ThreadOK, Holds, Inside
<1>4. ASSUME NEW u \in Threads, u # t
      PROVE  ThreadOK(u)'
  <2>1. /\ pc'[u] = pc[u] /\ call'[u] = call[u] /\ todo'[u] = todo[u]
        /\ u \in readers' <=> u \in readers
        /\ writer' = u <=> writer = u
        /\ connection'[u] = connection[u] /\ open'[u] = open[u]
        /\ ThreadOK(u)
    BY <1>4, DmlAssumption DEF Connected, At, GoTo, lockVars, sqlVars, tableVars
  <2> QED
    BY <1>4, <2>1, OtherThreadOK
<1> QED
  BY <1>1, <1>2, <1>3, <1>4

LEMMA TransactionType ==
    ASSUME DmlTypeOK, NEW t \in Threads, Transaction(t)
    PROVE  DmlTypeOK'
<1> USE DEF DmlTypeOK, ValuesOK
<1>1. ValuesOK'
  <2>1. call[t] \in Call
    BY TableAssumption DEF Transaction, At, ThreadOK
  <2>2. changed' \in [Threads -> Contents] /\ todo' \in [Threads -> SUBSET Keys]
    BY <2>1, ViewType DEF Transaction, Call
  <2> QED
    BY <2>2 DEF Transaction, GoTo, lockVars, tableVars
<1>2. (writer # Nobody => readers = {})'
  BY DmlAssumption DEF Transaction, lockVars
<1>3. ThreadOK(t)'
  BY TableAssumption, DmlAssumption DEF Transaction, At, GoTo, lockVars, sqlVars, tableVars, ThreadOK, Holds, Inside
<1>4. ASSUME NEW u \in Threads, u # t
      PROVE  ThreadOK(u)'
  <2>1. /\ pc'[u] = pc[u] /\ call'[u] = call[u] /\ todo'[u] = todo[u]
        /\ u \in readers' <=> u \in readers
        /\ writer' = u <=> writer = u
        /\ connection'[u] = connection[u] /\ open'[u] = open[u]
        /\ ThreadOK(u)
    BY <1>4, DmlAssumption DEF Transaction, At, GoTo, lockVars, sqlVars, tableVars
  <2> QED
    BY <1>4, <2>1, OtherThreadOK
<1> QED
  BY <1>1, <1>2, <1>3, <1>4

LEMMA BatchRowType ==
    ASSUME DmlTypeOK, NEW t \in Threads, BatchRow(t)
    PROVE  DmlTypeOK'
<1> USE DEF DmlTypeOK, ValuesOK
<1>1. ValuesOK'
  <2>1. call[t] \in Calls
    BY DEF BatchRow, At, ThreadOK
  <2>2. table' \in Contents /\ changed' \in [Threads -> Contents]
    BY <2>1, WrittenType DEF BatchRow, Run
  <2>3. todo' \in [Threads -> SUBSET Keys]
    BY DEF BatchRow
  <2> QED
    BY <2>2, <2>3 DEF BatchRow, lockVars
<1>2. (writer # Nobody => readers = {})'
  BY DmlAssumption DEF BatchRow, lockVars
<1>3. ThreadOK(t)'
  BY TableAssumption, DmlAssumption DEF BatchRow, At, Run, lockVars, sqlVars, tableVars, ThreadOK, Holds, Inside
<1>4. ASSUME NEW u \in Threads, u # t
      PROVE  ThreadOK(u)'
  <2>1. /\ pc'[u] = pc[u] /\ call'[u] = call[u] /\ todo'[u] = todo[u]
        /\ u \in readers' <=> u \in readers
        /\ writer' = u <=> writer = u
        /\ connection'[u] = connection[u] /\ open'[u] = open[u]
        /\ ThreadOK(u)
    BY <1>4, DmlAssumption DEF BatchRow, At, Run, lockVars, sqlVars, tableVars
  <2> QED
    BY <1>4, <2>1, OtherThreadOK
<1> QED
  BY <1>1, <1>2, <1>3, <1>4

LEMMA NotOpenedType ==
    ASSUME DmlTypeOK, NEW t \in Threads, NotOpened(t)
    PROVE  DmlTypeOK'
<1>1. ValuesOK /\ ThreadOK(t)
  BY DEF DmlTypeOK
<1>2. table' \in Contents /\ seen' \in [Threads -> Contents]
  BY <1>1, NothingType DEF NotOpened, At, Close, ValuesOK, ThreadOK, sqlVars
<1>3. /\ connection' \in [Threads -> {"none", "open", "broken"}]
      /\ open' \in [Threads -> BOOLEAN]
      /\ changed' \in [Threads -> Contents]
      /\ silent' \in BOOLEAN
  BY <1>1, NothingType DEF NotOpened, At, Close, ValuesOK, ThreadOK, sqlVars
<1>4. /\ \A u \in Threads \ {t} : connection'[u] = connection[u] /\ open'[u] = open[u]
      /\ open'[t] => connection'[t] = "open"
  BY <1>1 DEF NotOpened, At, Close, ValuesOK, ThreadOK, sqlVars
<1>5. Return(t, "error")
  BY DEF NotOpened
<1> QED
  BY <1>2, <1>3, <1>4, <1>5, ReturnType

LEMMA StatementType ==
    ASSUME DmlTypeOK, NEW t \in Threads, Statement(t)
    PROVE  DmlTypeOK'
<1>1. ValuesOK /\ ThreadOK(t)
  BY DEF DmlTypeOK
<1>2. table' \in Contents /\ seen' \in [Threads -> Contents]
  BY <1>1, WrittenType, SeenType, ViewType DEF Statement, At, Run, ValuesOK, ThreadOK, sqlVars
<1>3. /\ connection' \in [Threads -> {"none", "open", "broken"}]
      /\ open' \in [Threads -> BOOLEAN]
      /\ changed' \in [Threads -> Contents]
      /\ silent' \in BOOLEAN
  BY <1>1, WrittenType, SeenType, ViewType DEF Statement, At, Run, ValuesOK, ThreadOK, sqlVars
<1>4. /\ \A u \in Threads \ {t} : connection'[u] = connection[u] /\ open'[u] = open[u]
      /\ open'[t] => connection'[t] = "open"
  BY <1>1 DEF Statement, At, Run, ValuesOK, ThreadOK, sqlVars
<1>5. Return(t, "ok")
  BY DEF Statement
<1> QED
  BY <1>2, <1>3, <1>4, <1>5, ReturnType

LEMMA StatementFailsType ==
    ASSUME DmlTypeOK, NEW t \in Threads, StatementFails(t)
    PROVE  DmlTypeOK'
<1>1. ValuesOK /\ ThreadOK(t)
  BY DEF DmlTypeOK
<1>2. table' \in Contents /\ seen' \in [Threads -> Contents]
  BY <1>1, NothingType DEF StatementFails, At, ValuesOK, ThreadOK, sqlVars
<1>3. /\ connection' \in [Threads -> {"none", "open", "broken"}]
      /\ open' \in [Threads -> BOOLEAN]
      /\ changed' \in [Threads -> Contents]
      /\ silent' \in BOOLEAN
  BY <1>1, NothingType DEF StatementFails, At, ValuesOK, ThreadOK, sqlVars
<1>4. /\ \A u \in Threads \ {t} : connection'[u] = connection[u] /\ open'[u] = open[u]
      /\ open'[t] => connection'[t] = "open"
  BY <1>1 DEF StatementFails, At, ValuesOK, ThreadOK, sqlVars
<1>5. Return(t, "error")
  BY DEF StatementFails
<1> QED
  BY <1>2, <1>3, <1>4, <1>5, ReturnType

LEMMA RollbackType ==
    ASSUME DmlTypeOK, NEW t \in Threads, Rollback(t)
    PROVE  DmlTypeOK'
<1>1. ValuesOK /\ ThreadOK(t)
  BY DEF DmlTypeOK
<1>2. table' \in Contents /\ seen' \in [Threads -> Contents]
  BY <1>1, NothingType DEF Rollback, At, Close, ValuesOK, ThreadOK, sqlVars
<1>3. /\ connection' \in [Threads -> {"none", "open", "broken"}]
      /\ open' \in [Threads -> BOOLEAN]
      /\ changed' \in [Threads -> Contents]
      /\ silent' \in BOOLEAN
  BY <1>1, NothingType DEF Rollback, At, Close, ValuesOK, ThreadOK, sqlVars
<1>4. /\ \A u \in Threads \ {t} : connection'[u] = connection[u] /\ open'[u] = open[u]
      /\ open'[t] => connection'[t] = "open"
  BY <1>1 DEF Rollback, At, Close, ValuesOK, ThreadOK, sqlVars
<1>5. Return(t, "error")
  BY DEF Rollback
<1> QED
  BY <1>2, <1>3, <1>4, <1>5, ReturnType

LEMMA CommitType ==
    ASSUME DmlTypeOK, NEW t \in Threads, Commit(t)
    PROVE  DmlTypeOK'
<1>1. ValuesOK /\ ThreadOK(t)
  BY DEF DmlTypeOK
<1>2. table' \in Contents /\ seen' \in [Threads -> Contents]
  BY <1>1, NothingType, ViewType DEF Commit, At, Close, ValuesOK, ThreadOK, sqlVars
<1>3. /\ connection' \in [Threads -> {"none", "open", "broken"}]
      /\ open' \in [Threads -> BOOLEAN]
      /\ changed' \in [Threads -> Contents]
      /\ silent' \in BOOLEAN
  BY <1>1, NothingType, ViewType DEF Commit, At, Close, ValuesOK, ThreadOK, sqlVars
<1>4. /\ \A u \in Threads \ {t} : connection'[u] = connection[u] /\ open'[u] = open[u]
      /\ open'[t] => connection'[t] = "open"
  BY <1>1 DEF Commit, At, Close, ValuesOK, ThreadOK, sqlVars
<1>5. Return(t, "ok")
  BY DEF Commit
<1> QED
  BY <1>2, <1>3, <1>4, <1>5, ReturnType

LEMMA CommitFailsType ==
    ASSUME DmlTypeOK, NEW t \in Threads, CommitFails(t)
    PROVE  DmlTypeOK'
<1>1. ValuesOK /\ ThreadOK(t)
  BY DEF DmlTypeOK
<1>2. table' \in Contents /\ seen' \in [Threads -> Contents]
  BY <1>1, NothingType DEF CommitFails, At, Close, ValuesOK, ThreadOK, sqlVars
<1>3. /\ connection' \in [Threads -> {"none", "open", "broken"}]
      /\ open' \in [Threads -> BOOLEAN]
      /\ changed' \in [Threads -> Contents]
      /\ silent' \in BOOLEAN
  <2>1. connection' \in [Threads -> {"none", "open", "broken"}] /\ silent' \in BOOLEAN
    BY <1>1 DEF CommitFails, ValuesOK
  <2>2. CASE Close(t)
    BY <1>1, <2>1, <2>2, NothingType DEF Close, ValuesOK
  <2>3. CASE UNCHANGED sqlVars
    BY <1>1, <2>1, <2>3 DEF sqlVars, ValuesOK
  <2> QED
    BY <2>2, <2>3 DEF CommitFails
<1>4. /\ \A u \in Threads \ {t} : connection'[u] = connection[u] /\ open'[u] = open[u]
      /\ open'[t] => connection'[t] = "open"
  BY <1>1 DEF CommitFails, At, Close, ValuesOK, ThreadOK, sqlVars
<1>5. Return(t, "ok")
  BY DEF CommitFails
<1> QED
  BY <1>2, <1>3, <1>4, <1>5, ReturnType

LEMMA CrashType ==
    ASSUME DmlTypeOK, Crash
    PROVE  DmlTypeOK'
<1>1. ValuesOK'
  BY NothingType DEF Crash, Die, DmlTypeOK, ValuesOK
<1>2. \A t \in Threads : ThreadOK(t)'
  BY DmlAssumption DEF Crash, Die, ThreadOK, Holds, Inside
<1> QED
  BY <1>1, <1>2 DEF DmlTypeOK, Crash

LEMMA DmlTypeNext == DmlTypeOK /\ [Next]_vars => DmlTypeOK'
<1> SUFFICES ASSUME DmlTypeOK, [Next]_vars PROVE DmlTypeOK'
  OBVIOUS
<1>1. CASE \E t \in Threads : Ask(t) \/ LockForRead(t) \/ LockForWrite(t)
  BY <1>1, AskType, LockForReadType, LockForWriteType
<1>2. CASE \E t \in Threads : Connected(t) \/ NotOpened(t)
                              \/ Statement(t) \/ StatementFails(t)
  BY <1>2, ConnectedType, NotOpenedType, StatementType, StatementFailsType
<1>3. CASE \E t \in Threads : Transaction(t) \/ BatchRow(t) \/ Rollback(t)
                              \/ Commit(t) \/ CommitFails(t)
  BY <1>3, TransactionType, BatchRowType, RollbackType, CommitType, CommitFailsType
<1>4. CASE Crash
  BY <1>4, CrashType
<1>5. CASE UNCHANGED vars
  BY <1>5 DEF vars, tableVars, lockVars, sqlVars, DmlTypeOK, ValuesOK, ThreadOK, Holds
<1> QED
  BY <1>1, <1>2, <1>3, <1>4, <1>5 DEF Next, Held

\* A thread holds what its call needs, and only that, at every point of it.
THEOREM DmlTypeCorrect == Spec => []DmlTypeOK
<1> QED
  BY DmlTypeInit, DmlTypeNext, PTL DEF Spec

-----------------------------------------------------------------------------

\* A thread in a list call is the one writer.
LEMMA BatchWrites ==
    ASSUME DmlTypeOK, NEW t \in Threads, pc[t] = "batch"
    PROVE  /\ writer = t /\ readers = {} /\ open[t]
           /\ call[t] \in Calls /\ call[t].op \notin Reads
           /\ todo[t] \subseteq call[t].keys
<1>1. call[t] \in Calls /\ call[t].many
  BY DEF DmlTypeOK, ValuesOK, ThreadOK
<1>2. call[t].op \notin Reads
  BY <1>1, TableAssumption
<1> QED
  BY <1>1, <1>2, DmlAssumption DEF DmlTypeOK, ValuesOK, ThreadOK, Inside, Holds

\* ... so nobody else is inside of a call.
LEMMA BatchAlone ==
    ASSUME DmlTypeOK, NEW t \in Threads, NEW u \in Threads, u # t,
           pc[u] = "batch"
    PROVE  pc[t] \in {"idle", "lock"}
<1>1. writer = u /\ readers = {}
  BY BatchWrites
<1> QED
  BY <1>1 DEF DmlTypeOK, ValuesOK, ThreadOK, Inside, Holds

\* The transaction of u, untouched by a step that leaves its thread and the
\* table alone.
LEMMA OtherTransaction ==
    ASSUME NEW u, TransactionOK(u),
           pc'[u] = pc[u], call'[u] = call[u], todo'[u] = todo[u],
           open'[u] = open[u], changed'[u] = changed[u], table' = table
    PROVE  TransactionOK(u)'
  BY DEF TransactionOK, BatchOK, Written, Fits

\* A row whose statement has not run is as it was.
LEMMA NotYetWritten ==
    ASSUME NEW c, NEW done, NEW k \in Keys, k \notin done, NEW rows
    PROVE  Written(c, done, rows)[k] = rows[k]
  BY DEF Written

\* One more row of a list.
LEMMA WrittenOneMore ==
    ASSUME NEW c, NEW done, NEW k \in Keys, k \notin done, NEW rows
    PROVE  Written(c, {k}, Written(c, done, rows)) = Written(c, done \cup {k}, rows)
<1> DEFINE before == Written(c, done, rows)
           one == Written(c, {k}, before)
           after == Written(c, done \cup {k}, rows)
<1>1. ASSUME NEW j \in Keys
      PROVE  one[j] = after[j]
  <2>1. CASE j = k
    <3>1. one[j] = Effect(c, rows[k]) /\ after[j] = Effect(c, rows[k])
      BY <2>1, NotYetWritten DEF Written
    <3> QED
      BY <3>1
  <2>2. CASE j # k
    <3>1. one[j] = before[j]
      BY <2>2 DEF Written
    <3>2. before[j] = after[j]
      BY <2>2 DEF Written
    <3> QED
      BY <3>1, <3>2
  <2> QED
    BY <2>1, <2>2
<1> QED
  BY <1>1 DEF Written

LEMMA WrittenNone ==
    ASSUME NEW c, NEW rows \in Contents
    PROVE  Written(c, {}, rows) = rows
  BY DEF Written, Contents

\* What a step of t, while every transaction is as it should be, does to those
\* of the others: nothing, if it leaves the table alone or t is inside of a call.
LEMMA OthersKeepTransactions ==
    ASSUME DmlTypeOK, NEW t \in Threads, NEW u \in Threads, u # t,
           TransactionOK(u),
           pc'[u] = pc[u], call'[u] = call[u], todo'[u] = todo[u],
           open'[u] = open[u], changed'[u] = changed[u],
           table' = table \/ pc[t] \notin {"idle", "lock"}
    PROVE  TransactionOK(u)'
<1>1. CASE table' = table
  BY <1>1, OtherTransaction
<1>2. CASE pc[t] \notin {"idle", "lock"}
  <2>1. ~open[u]
    BY <1>2, BatchAlone DEF TransactionOK
  <2> QED
    BY <2>1 DEF TransactionOK
<1> QED
  BY <1>1, <1>2

LEMMA TransactionsEndInit == Init => TransactionsEnd
  BY DEF Init, TransactionsEnd, TransactionOK

\* Taking a call, the lock or a connection, and single statements, open nothing.
LEMMA SingleKeepsTransactions ==
    ASSUME DmlTypeOK, NEW t \in Threads, \A u \in Threads : TransactionOK(u),
           \/ Ask(t) \/ LockForRead(t) \/ LockForWrite(t)
           \/ Connected(t) \/ NotOpened(t) \/ Statement(t) \/ StatementFails(t)
    PROVE  \A u \in Threads : TransactionOK(u)'
<1> USE DEF At, DmlTypeOK, ValuesOK
<1>1. pc[t] # "batch"
  BY DEF Ask, LockForRead, LockForWrite, Connected, NotOpened, Statement, StatementFails
<1>2. ~open[t]
  BY <1>1 DEF TransactionOK
<1>3. /\ table' = table \/ pc[t] \notin {"idle", "lock"}
      /\ UNCHANGED open /\ UNCHANGED changed
  BY <1>2 DEF Ask, Begin, LockForRead, LockForWrite, Connected, NotOpened, Statement,
              StatementFails, Run, sqlVars, tableVars
<1>4. ASSUME NEW u \in Threads, u # t
      PROVE  pc'[u] = pc[u] /\ call'[u] = call[u] /\ todo'[u] = todo[u]
  BY <1>4 DEF Ask, Begin, LockForRead, LockForWrite, Connected, NotOpened, Statement,
              StatementFails, Return, Answer, GoTo, tableVars
<1>5. ASSUME NEW u \in Threads, u # t
      PROVE  TransactionOK(u)'
  BY <1>3, <1>4, <1>5, OthersKeepTransactions
<1>6. TransactionOK(t)'
  BY <1>2, <1>3 DEF TransactionOK
<1> QED
  BY <1>5, <1>6

\* A list call begins with nothing changed, adds a row at a time, and ends with
\* nothing open.
LEMMA ListKeepsTransactions ==
    ASSUME DmlTypeOK, NEW t \in Threads, \A u \in Threads : TransactionOK(u),
           Transaction(t) \/ BatchRow(t) \/ Rollback(t) \/ Commit(t)
    PROVE  \A u \in Threads : TransactionOK(u)'
<1> USE DEF At, DmlTypeOK, ValuesOK
<1>1. pc[t] \notin {"idle", "lock"}
  BY DEF Transaction, BatchRow, Rollback, Commit
<1>2. ASSUME NEW u \in Threads, u # t
      PROVE  TransactionOK(u)'
  <2>1. /\ pc'[u] = pc[u] /\ call'[u] = call[u] /\ todo'[u] = todo[u]
        /\ open'[u] = open[u] /\ changed'[u] = changed[u]
    BY <1>2 DEF Transaction, BatchRow, Run, Rollback, Commit, Return, Answer, GoTo, Close,
                tableVars
  <2> QED
    BY <1>1, <1>2, <2>1, OthersKeepTransactions
<1>3. CASE Transaction(t)
  <2>1. ~open[t]
    BY <1>3 DEF Transaction, TransactionOK
  <2>2. table' = table /\ changed'[t] = table /\ call' = call
        /\ todo'[t] = call[t].keys /\ pc'[t] = "batch"
    BY <1>3, <2>1, TransactionType DEF Transaction, View, GoTo, tableVars
  <2>3. (call[t].keys \ todo[t])' = {}
    BY <2>2
  <2>4. BatchOK(t)'
    BY <2>2, <2>3, WrittenNone DEF BatchOK
  <2> QED
    BY <1>2, <2>2, <2>4 DEF TransactionOK
<1>4. CASE BatchRow(t)
  <2>1. open[t] /\ call[t] \in Calls /\ todo[t] \subseteq call[t].keys
    BY <1>4, BatchWrites DEF BatchRow
  <2>2. BatchOK(t)
    BY <2>1 DEF TransactionOK
  <2>3. PICK k \in todo[t] : Run(t, {k}) /\ todo' = [todo EXCEPT ![t] = @ \ {k}]
    BY <1>4 DEF BatchRow
  <2> DEFINE done == call[t].keys \ todo[t]
  <2>4. /\ done \in SUBSET Keys /\ k \in Keys \ done
        /\ (call[t].keys \ todo[t])' = done \cup {k}
    BY <1>4, <2>1, <2>3, TableAssumption DEF BatchRow, Call
  <2>5. /\ changed[t] = Written(call[t], done, table)
        /\ changed'[t] = Written(call[t], {k}, changed[t])
        /\ table' = table /\ call' = call
        /\ Fits(call[t], changed[t][k])
    <3>1. changed[t] = Written(call[t], done, table)
      BY <2>2 DEF BatchOK
    <3>2. /\ changed' = [changed EXCEPT ![t] = Written(call[t], {k}, @)]
          /\ table' = table /\ Fits(call[t], View(t)[k])
      BY <2>1, <2>3 DEF Run
    <3>3. View(t) = changed[t]
      BY <2>1 DEF View
    <3>4. call' = call
      BY <1>4 DEF BatchRow
    <3> QED
      BY <3>1, <3>2, <3>3, <3>4
  <2>6. Fits(call[t], table[k]) /\ changed'[t] = Written(call[t], done \cup {k}, table)
    <3>1. Written(call[t], {k}, Written(call[t], done, table))
              = Written(call[t], done \cup {k}, table)
      BY <2>4, WrittenOneMore
    <3>2. Written(call[t], done, table)[k] = table[k]
      BY <2>4, NotYetWritten
    <3> QED
      BY <2>5, <3>1, <3>2
  <2>7. BatchOK(t)'
    BY <2>2, <2>4, <2>5, <2>6 DEF BatchOK, Fits
  <2>8. pc'[t] = "batch"
    BY <1>4 DEF BatchRow
  <2> QED
    BY <1>2, <2>7, <2>8 DEF TransactionOK
<1>5. CASE Rollback(t) \/ Commit(t)
  <2>1. ~open'[t]
    BY <1>5 DEF Rollback, Commit, Close
  <2> QED
    BY <1>2, <2>1 DEF TransactionOK
<1> QED
  BY <1>3, <1>4, <1>5

\* A COMMIT that fails is not forgotten while the process lives.
LEMMA SilentStays ==
    ASSUME [Next]_vars, ~Crash
    PROVE  silent => silent'
  BY DEF Next, Held, Ask, LockForRead, LockForWrite, Connected, NotOpened, Statement,
         StatementFails, Transaction, BatchRow, Rollback, Commit, CommitFails, vars

LEMMA TransactionsEndNext ==
    DmlTypeOK /\ TransactionsEnd /\ [Next]_vars => TransactionsEnd'
<1> SUFFICES ASSUME DmlTypeOK, TransactionsEnd, [Next]_vars
             PROVE  TransactionsEnd'
  OBVIOUS
<1>1. CASE Crash
  BY <1>1 DEF Crash, TransactionsEnd, TransactionOK
<1>2. CASE ~Crash /\ ~silent'
  <2>1. \A t \in Threads : TransactionOK(t)
    BY <1>2, SilentStays DEF TransactionsEnd
  <2>2. CASE UNCHANGED vars
    <3>1. ASSUME NEW u \in Threads
          PROVE  TransactionOK(u)'
      <4>1. /\ pc'[u] = pc[u] /\ call'[u] = call[u] /\ todo'[u] = todo[u]
            /\ open'[u] = open[u] /\ changed'[u] = changed[u] /\ table' = table
        BY <2>2 DEF vars, tableVars, sqlVars
      <4> QED
        BY <2>1, <4>1, OtherTransaction
    <3> QED
      BY <3>1 DEF TransactionsEnd
  <2>3. CASE \E t \in Threads :
                \/ Ask(t) \/ LockForRead(t) \/ LockForWrite(t)
                \/ Connected(t) \/ NotOpened(t) \/ Statement(t) \/ StatementFails(t)
    BY <2>1, <2>3, SingleKeepsTransactions DEF TransactionsEnd
  <2>4. CASE \E t \in Threads :
                Transaction(t) \/ BatchRow(t) \/ Rollback(t) \/ Commit(t)
    BY <2>1, <2>4, ListKeepsTransactions DEF TransactionsEnd
  <2>5. CASE \E t \in Threads : CommitFails(t)
    BY <1>2, <2>5 DEF CommitFails
  <2> QED
    BY <1>2, <2>2, <2>3, <2>4, <2>5 DEF Next, Held
<1> QED
  BY <1>1, <1>2 DEF TransactionsEnd

\* As long as no COMMIT fails, a transaction is open only in the list call that
\* began it, and has changed the rows that have run.
THEOREM TransactionsAreEnded == Spec => []TransactionsEnd
<1>1. Init => DmlTypeOK /\ TransactionsEnd
  BY DmlTypeInit, TransactionsEndInit
<1>2. DmlTypeOK /\ TransactionsEnd /\ [Next]_vars => (DmlTypeOK /\ TransactionsEnd)'
  BY DmlTypeNext, TransactionsEndNext
<1> QED
  BY <1>1, <1>2, PTL DEF Spec

-----------------------------------------------------------------------------

\* Without a failed COMMIT, each step is one of Table, or none.
LEMMA StepOfTable ==
    ASSUME DmlTypeOK, TransactionsEnd, [Next]_vars
    PROVE  silent' \/ [TableNext]_tableVars
<1> SUFFICES ASSUME ~silent' PROVE [TableNext]_tableVars
  OBVIOUS
<1> USE DEF TableNext
<1>1. CASE Crash
  BY <1>1 DEF Crash
<1>2. CASE UNCHANGED vars
  BY <1>2 DEF vars
<1>3. CASE ~Crash /\ ~UNCHANGED vars
  <2>1. \A t \in Threads : TransactionOK(t)
    BY <1>3, SilentStays DEF TransactionsEnd
  <2>2. PICK t \in Threads : Ask(t) \/ LockForRead(t) \/ LockForWrite(t) \/ Held(t)
    BY <1>3 DEF Next
  <2>3. CASE Ask(t)
    BY <2>3 DEF Ask
  <2>4. CASE LockForRead(t) \/ LockForWrite(t) \/ Connected(t) \/ Transaction(t)
    BY <2>4 DEF LockForRead, LockForWrite, Connected, Transaction
  <2>5. CASE NotOpened(t) \/ StatementFails(t) \/ Rollback(t)
    <3>1. Refuse(t)
      BY <2>5 DEF NotOpened, StatementFails, Rollback, Return, Refuse
    <3> QED
      BY <3>1
  <2>6. CASE Statement(t)
    <3>1. ~open[t]
      BY <2>1, <2>6 DEF TransactionOK, Statement, At
    <3>2. Do(t)
      BY <2>6, <3>1 DEF Statement, Run, View, Return, Do
    <3> QED
      BY <3>2
  <2>7. CASE BatchRow(t)
    <3>1. open[t]
      BY <2>7, BatchWrites DEF BatchRow, At
    <3>2. table' = table
      BY <2>7, <3>1 DEF BatchRow, Run
    <3> QED
      BY <2>7, <3>2 DEF BatchRow, tableVars
  <2>8. CASE Commit(t)
    <3>1. open[t] /\ todo[t] = {} /\ call[t].op \notin Reads
      BY <2>8, BatchWrites DEF Commit, At
    <3>2. BatchOK(t) /\ call[t].keys \ todo[t] = call[t].keys
      BY <2>1, <3>1 DEF TransactionOK
    <3>3. /\ \A k \in call[t].keys : Fits(call[t], table[k])
          /\ changed[t] = Written(call[t], call[t].keys, table)
      BY <3>2 DEF BatchOK
    <3>4. Seen(call[t], table) = Nothing
      BY <3>1 DEF Seen, Nothing
    <3>5. Do(t)
      BY <2>8, <3>1, <3>3, <3>4 DEF Commit, View, Return, Do
    <3> QED
      BY <3>5
  <2>9. CASE CommitFails(t)
    BY <2>9 DEF CommitFails
  <2> QED
    BY <2>2, <2>3, <2>4, <2>5, <2>6, <2>7, <2>8, <2>9 DEF Held
<1> QED
  BY <1>1, <1>2, <1>3

\* The calls of the handlers are steps, as long as no COMMIT fails.
THEOREM CallsAreAtomic == Spec => CallsAreSteps
<1>1. Init => DmlTypeOK /\ TransactionsEnd
  BY DmlTypeInit, TransactionsEndInit
<1>2. DmlTypeOK /\ TransactionsEnd /\ [Next]_vars => (DmlTypeOK /\ TransactionsEnd)'
  BY DmlTypeNext, TransactionsEndNext
<1>3. DmlTypeOK /\ TransactionsEnd /\ [Next]_vars => [silent' \/ TableNext]_tableVars
  BY StepOfTable
<1> QED
  BY <1>1, <1>2, <1>3, PTL DEF Spec, CallsAreSteps

\* Where a COMMIT cannot fail, DmlBase over SQLite implements Table.
THEOREM DmlImplementsTable ==
    ASSUME ~CommitMayFail
    PROVE  Spec => TableSpec
<1> DEFINE Inv == DmlTypeOK /\ TransactionsEnd /\ ~silent
<1>1. Init => Inv /\ TableInit
  BY DmlTypeInit, TransactionsEndInit DEF Init
<1>2. ASSUME Inv, [Next]_vars
      PROVE  Inv' /\ [TableNext]_tableVars
  <2>1. ~silent'
    BY <1>2 DEF Next, Held, Ask, LockForRead, LockForWrite, Connected, NotOpened,
                Statement, StatementFails, Transaction, BatchRow, Rollback, Commit,
                CommitFails, Crash, vars
  <2>2. DmlTypeOK' /\ TransactionsEnd'
    BY <1>2, DmlTypeNext, TransactionsEndNext
  <2>3. [TableNext]_tableVars
    BY <1>2, <2>1, StepOfTable
  <2> QED
    BY <2>1, <2>2, <2>3
<1>3. Inv /\ [Next]_vars => Inv' /\ [TableNext]_tableVars
  BY <1>2
<1> QED
  BY <1>1, <1>3, PTL DEF Spec, TableSpec
=============================================================================

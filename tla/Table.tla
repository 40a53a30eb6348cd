-------------------------------- MODULE Table -------------------------------
(***************************************************************************)
(* What the handlers take a table of the ORM to be: rows under keys, and   *)
(* calls of several threads, each of which does all of its work in one     *)
(* step, or answers an error and does nothing.  A list has no row twice.   *)
(***************************************************************************)
CONSTANTS
    Threads,
    Keys,    \* primary keys
    Values,  \* the columns of a row but its key
    NoRow, NoCall,
    Calls    \* the calls that may be made

Reads  == {"find", "list"}
Writes == {"add", "save", "update", "delete"}

\* FindById, ListAll, Add, Save, UpdateById, DeleteById and their kin of an entity
\* or, with `many', of a list of entities; `keys' are the rows they are about.
Call == [op : Reads \cup Writes, keys : SUBSET Keys, value : Values, many : BOOLEAN]

ASSUME TableAssumption ==
    /\ Calls \subseteq Call
    /\ NoRow \notin Values
    /\ NoCall \notin Call
    /\ \A c \in Calls : c.keys # {} /\ (c.op \in Reads => ~c.many)

VARIABLES
    table,  \* the rows
    call,   \* the call each thread is in
    answer, \* what the last one answered: "ok", "error"
    seen    \* the rows it read

tableVars == <<table, call, answer, seen>>

Contents == [Keys -> Values \cup {NoRow}]
Nothing == [k \in Keys |-> NoRow]

\* A row after c; UPDATE and DELETE of a row that is not there do nothing.
Effect(c, old) ==
    CASE c.op \in {"add", "save"} -> c.value
      [] c.op = "update" -> IF old = NoRow THEN NoRow ELSE c.value
      [] c.op = "delete" -> NoRow
      [] c.op \in Reads -> old

\* INSERT fails on a row that is there, FindById finds no row that is not.
Fits(c, old) == /\ c.op = "add" => old = NoRow
                /\ c.op = "find" => old # NoRow

Written(c, keys, rows) ==
    [k \in Keys |-> IF k \in keys THEN Effect(c, rows[k]) ELSE rows[k]]

Seen(c, rows) ==
    [k \in Keys |-> IF c.op \in Reads /\ k \in c.keys THEN rows[k] ELSE NoRow]

TableInit ==
    /\ table \in Contents
    /\ call = [t \in Threads |-> NoCall]
    /\ answer = [t \in Threads |-> "none"]
    /\ seen = [t \in Threads |-> Nothing]

Begin(t) ==
    /\ call[t] = NoCall
    /\ \E c \in Calls : call' = [call EXCEPT ![t] = c]
    /\ answer' = [answer EXCEPT ![t] = "none"]
    /\ UNCHANGED <<table, seen>>

Answer(t, a) ==
    /\ call[t] # NoCall
    /\ call' = [call EXCEPT ![t] = NoCall]
    /\ answer' = [answer EXCEPT ![t] = a]

Do(t) ==
    /\ Answer(t, "ok")
    /\ \A k \in call[t].keys : Fits(call[t], table[k])
    /\ table' = Written(call[t], call[t].keys, table)
    /\ seen' = [seen EXCEPT ![t] = Seen(call[t], table)]

Refuse(t) ==
    /\ Answer(t, "error")
    /\ UNCHANGED <<table, seen>>

\* The process dies: its calls are gone, the table is as it was.
Die ==
    /\ call' = [t \in Threads |-> NoCall]
    /\ answer' = [t \in Threads |-> "none"]
    /\ seen' = [t \in Threads |-> Nothing]
    /\ UNCHANGED table

TableNext == (\E t \in Threads : Begin(t) \/ Do(t) \/ Refuse(t)) \/ Die

TableSpec == TableInit /\ [][TableNext]_tableVars
=============================================================================

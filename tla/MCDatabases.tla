----------------------------- MODULE MCDatabases ----------------------------
(***************************************************************************)
(* Small instances of Databases.tla for TLC.                               *)
(***************************************************************************)
EXTENDS Databases, TLC

CONSTANTS t1, t2,   \* threads
          day, temp \* files

DayAndTemp == [f \in {day, temp} |-> IF f = temp THEN "temp" ELSE "business"]
DayOnly == [f \in {day} |-> "business"]

\* Two columns, one of them to be indexed; the second version adds another
\* indexed column and one without index.
TwoNew == <<1, 1, 2, 2>>
One == <<1>>

\* Threads are interchangeable.
ThreadSymmetry == Permutations({t1, t2})
=============================================================================

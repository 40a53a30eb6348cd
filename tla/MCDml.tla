-------------------------------- MODULE MCDml -------------------------------
(***************************************************************************)
(* Small instances of Dml.tla for TLC.                                     *)
(***************************************************************************)
EXTENDS Dml, TLC

CONSTANTS k1, k2, \* keys
          a, b    \* values

One(op, k, v)  == [op |-> op, keys |-> {k}, value |-> v, many |-> FALSE]
Both(op, v, m) == [op |-> op, keys |-> {k1, k2}, value |-> v, many |-> m]

\* One of each kind; UpdateList and AddList change both rows.
SomeCalls == {One("find", k1, a), Both("list", a, FALSE), One("add", k1, a),
              One("save", k2, b), One("delete", k1, a), One("update", k1, b),
              Both("update", b, TRUE), Both("add", a, TRUE)}
=============================================================================

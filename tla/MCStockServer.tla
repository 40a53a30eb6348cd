---------------------------- MODULE MCStockServer ---------------------------
(***************************************************************************)
(* Small instances of StockServer.tla for TLC.                             *)
(***************************************************************************)
EXTENDS StockServerProperties, TLC

CONSTANTS c1, c2, \* ware codes
          p1, p2, \* prices
          w1, w2  \* threads

MCCodes == {c1, c2}
MCPrices == {p1, p2}

\* An order line.
L(c, n) == [code |-> c, count |-> n]

\* Arrays of lines: one line, a ware as item sold and as gift, two wares.
OneLine  == {<<L(c1, 1)>>}
WithGift == {<<L(c1, 2), L(c1, 1)>>}
TwoWares == {<<L(c1, 1), L(c2, 1)>>}
OneWare  == WithGift \cup {<<L(c1, 2)>>}
Mixed    == WithGift \cup TwoWares \cup {<<>>}
NoLines  == {}

\* What operate 2 asks for.
Raise == {<<L(c1, 2)>>}

\* tb_config_ware at start: c2 is a ware a client may add.
OnlyC1   == [c \in {c1, c2} |-> IF c = c1 THEN [stock |-> 3, price |-> p1] ELSE NoRow]
BothFew  == [c \in {c1, c2} |-> [stock |-> IF c = c1 THEN 3 ELSE 1, price |-> p1]]

\* Requests that add and modify wares.
NoRequests == {}
AddC2      == {<<c2, [stock |-> 1, price |-> p1]>>}
PriceOnly  == {<<c1, [stock |-> Keep, price |-> p2]>>}

\* Threads are interchangeable.
ThreadSymmetry == Permutations({w1, w2})
=============================================================================

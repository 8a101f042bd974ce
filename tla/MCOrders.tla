------------------------------ MODULE MCOrders -------------------------------
(* Small instances of Orders: orders of the forms the checks tell apart. *)
EXTENDS Orders

Order(quantity, price, type, key) ==
  [account |-> "A", symbol |-> "S", side |-> "buy", quantity |-> quantity,
   price |-> price, type |-> type, key |-> key]

\* A key of the caller, no key, no price, a price only a batch lets through, a
\* quantity no entry point accepts.
FiveIntents == {"keyed", "free", "market", "negative", "bad"}
MixedOrders ==
  [keyed    |-> Order(Whole(1), Number("decimal", 3), "LO", "k"),
   free     |-> Order(Whole(1), Number("text", 3), "LO", None),
   market   |-> Order(Whole(2), NoNumber, "ATO", None),
   negative |-> Order(Whole(1), Whole(-1), "LO", "n"),
   bad      |-> Order(Whole(0), Whole(3), "LO", "b")]

FCO(price) ==
  [type |-> "GTD", account |-> "A", symbol |-> "S", side |-> "buy", quantity |-> 1,
   price |-> price, slip |-> 1, tpPrice |-> Whole(4), slPrice |-> Whole(2),
   tpSlip |-> 1, slSlip |-> 1, operator |-> ">=",
   from |-> Date("stamp", 1), to |-> Date("stamp", 2)]
\* An order type in place of the price, and a window that is too long.
SomeFCOs == {FCO(Number("word", 0)), [FCO(Whole(3)) EXCEPT !.to = Date("stamp", 33)]}
=============================================================================

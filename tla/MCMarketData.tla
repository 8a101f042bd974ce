---------------------------- MODULE MCMarketData -----------------------------
(* Small instances of MarketData.                                              *)
EXTENDS MarketData

SomeSymbols == {"S", Wildcard}
\* No range, a bare range into the future, a range of timestamps, a range the
\* wrong way round, a bare day without its leading zeros.
SomeRanges ==
  {<<NoDate, NoDate>>, <<Date("day", 1), Date("day", 3)>>,
   <<Date("stamp", 1), Date("stamp", 2)>>, <<Date("day", 2), Date("day", 1)>>,
   <<Date("unpadded", 1), Date("stamp", 1)>>}
SomeSizes == {0, 1, 2}
=============================================================================

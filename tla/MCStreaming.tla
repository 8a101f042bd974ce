----------------------------- MODULE MCStreaming -----------------------------
EXTENDS Streaming, TLC

EitherLoop == Permutations(Loops)

Pair(name, subscribe, unsubscribe) ==
  {[pair |-> name, method |-> "subscribe", requests |-> subscribe],
   [pair |-> name, method |-> "unsubscribe", requests |-> unsubscribe]}

Stock == {"SSI"}
Index == {"UPCOMINDEX"}

Stocks == Pair("board", SubscribeBoard(Stock), UnsubscribeBoard(Stock))
Flag   == Pair("flag", SubscribeMarketFlag, UnsubscribeMarketFlag)
Orders == Pair("order", SubscribeOrderStatus("A1"), UnsubscribeOrderStatus("A1"))

\* Operations of one and of several requests.  One caller gives up what the
\* other asks for; its own topics are left to unsubscribe_all, one of a second
\* channel and one the server spells otherwise.
Only(method, operations) == {op \in operations : op.method = method}
MCMenu == [c \in Callers |->
  IF c = Main THEN Stocks
  ELSE Only("subscribe", Orders \union Flag) \union Only("unsubscribe", Stocks)]

\* The other operations, which only differ in their topics.
Others ==
  Pair("symbol", SubscribeSymbol(Stock), UnsubscribeSymbol(Stock))
    \union Pair("candles", SubscribeSymbolOHLCV(Stock, "1m"), UnsubscribeSymbolOHLCV(Stock, "1m"))
    \union Pair("trade", SubscribeSymbolTrade(Stock), UnsubscribeSymbolTrade(Stock))
    \union Pair("quote", SubscribeSymbolQuote(Stock), UnsubscribeSymbolQuote(Stock))
    \union Pair("room", SubscribeSymbolRoom(Stock), UnsubscribeSymbolRoom(Stock))
    \union Pair("put", SubscribePutThrough({Span}), UnsubscribePutThrough({Span}))
    \union Pair("oddlot", SubscribeOddLot({Wildcard}), UnsubscribeOddLot({Wildcard}))
    \union Pair("index", SubscribeIndex(Index), UnsubscribeIndex(Index))
    \union Pair("market", SubscribeMarket(Stock), UnsubscribeMarket(Stock))
    \union Pair("summary", SubscribeIndexSummary(Index), UnsubscribeIndexSummary(Index))
    \union Pair("ticks", SubscribeIndexTrade(Index, None), UnsubscribeIndexTrade(Index, None))
    \union Flag
    \union Pair("positions", SubscribePortfolio(Wildcard), UnsubscribePortfolio(Wildcard))

\* Each is undone by its counterpart with the same arguments: as many requests,
\* about the same topics.
ASSUME EachIsUndone ==
  \A o, u \in Others :
    o.pair = u.pair =>
      /\ o.requests # <<>> /\ Len(o.requests) = Len(u.requests)
      /\ \A i \in DOMAIN o.requests : o.requests[i].topics = u.requests[i].topics

MCFrames == {[channel |-> "data", class |-> DataClass(FlagTopic, "status")]}

\* The classes a callback is typed for are those the parsers produce.
ASSUME TypedClasses ==
  /\ TypedTrading = {TradingClass(Topic("trading", "order", "A1", None), event) :
                       event \in {"orderEvent", "orderMatchEvent", "clientPortfolioEvent"}}
  /\ TypedData = {DataClass(FlagTopic, "status"),
                  DataClass(Topic("data", "indexsummary", "SSI", None), "status")}
=============================================================================

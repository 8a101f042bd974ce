-------------------------- MODULE StreamingRequests --------------------------
(* The requests of the streaming service (services/streaming.py) and the      *)
(* topics they name (utils/topic.py), and what a pushed frame is parsed into. *)
(* An operation denotes the sequence of requests it sends, empty when an      *)
(* argument is refused.  A code is "*" (every code), Span (a range A-B), a    *)
(* concrete code, or a text the server would not accept.                      *)
EXTENDS Arguments, SequencesExt

CONSTANTS Codes   \* the concrete codes and accounts

Span == "A-B"

TopicTypes == {"trade", "quote", "room", "put", "oddlot", "market", "order", "portfolio",
               "trade.index", "indexsummary"}

Every == "@*"

(* utils/topic.py *)
\* The index of HNX and UPCOM has another name on the server.
ServerCode(code) == IF code = "UPCOMINDEX" THEN "HNXUPCOMINDEX" ELSE code

IsTopic(type, code, interval) ==
  /\ type \in TopicTypes
  /\ code \in Codes \union {Wildcard, Span}
  /\ \/ interval = None
     \/ /\ interval = Every
        /\ type \in {"trade", "quote", "room", "put", "oddlot"}
        /\ code \in Codes
     \/ /\ interval \in {"tick", "1m", "5m"}
        /\ type \in {"trade", "trade.index"}
        /\ type = "trade.index" => code \in Codes

Topic(channel, type, code, interval) ==
  [channel |-> channel, type |-> type, code |-> ServerCode(code), interval |-> interval]

\* RequestMessage.to_dict
Message(method, topics) == [method |-> method, topics |-> topics]

ServerCodes == {ServerCode(c) : c \in Codes \union {Wildcard, Span}} \union {"flag", "FLAG"}
Topics == [channel : {"data", "trading"}, type : TopicTypes, code : ServerCodes,
           interval : {None, Every, "tick", "1m", "5m"}]
Methods == {"subscribe", "unsubscribe"}
Requests == [method : Methods, topics : SUBSET Topics]

\* _build_data_request: one topic per code, at least one code.
Ask(method, channel, type, codes, interval) ==
  IF codes # {} /\ \A c \in codes : IsTopic(type, c, interval)
  THEN <<Message(method, {Topic(channel, type, c, interval) : c \in codes})>>
  ELSE <<>>

Data(method, type, codes) == Ask(method, "data", type, codes, None)
Trading(method, type, account) == Ask(method, "trading", type, {account}, None)

\* An exchange or a basket index: one request per type, with the interval @*.
Group(method, codes) ==
  Ask(method, "data", "trade", codes, Every) \o Ask(method, "data", "quote", codes, Every)
    \o Ask(method, "data", "room", codes, Every)

\* Mutant: the group is asked for without its interval.
GroupOfNames(method, codes) ==
  Data(method, "trade", codes) \o Data(method, "quote", codes) \o Data(method, "room", codes)

(* The operations: subscribe *)
SubscribeSymbolOHLCV(codes, interval) == Ask("subscribe", "data", "trade", codes, interval)
SubscribeSymbolTrade(codes) == Data("subscribe", "trade", codes)
SubscribeSymbolQuote(codes) == Data("subscribe", "quote", codes)
SubscribeSymbolRoom(codes) == Data("subscribe", "room", codes)
SubscribePutThrough(codes) == Data("subscribe", "put", codes)
SubscribeOddLot(codes) == Data("subscribe", "oddlot", codes)
SubscribeSymbol(codes) ==
  SubscribeSymbolTrade(codes) \o SubscribeSymbolQuote(codes) \o SubscribeSymbolRoom(codes)
SubscribeBoard(codes) == Group("subscribe", codes)
SubscribeIndex(codes) == Group("subscribe", codes)
SubscribeMarket(codes) == Data("subscribe", "market", codes)
SubscribeIndexSummary(codes) == Data("subscribe", "indexsummary", codes)
SubscribeIndexTrade(codes, interval) ==
  Ask("subscribe", "data", "trade.index", codes, interval)
SubscribeOrderStatus(account) == Trading("subscribe", "order", account)
SubscribePortfolio(account) == Trading("subscribe", "portfolio", account)

\* market.flag is one fixed topic, for every board.
FlagTopic == [channel |-> "data", type |-> "market", code |-> "flag", interval |-> None]
SubscribeMarketFlag == <<Message("subscribe", {FlagTopic})>>

\* The server upper-cases what follows the type.  The codes are in upper case
\* already, so that market.flag alone is market.FLAG in its lists and frames.
AtServer(topic) == IF topic = FlagTopic THEN [topic EXCEPT !.code = "FLAG"] ELSE topic
Named(topics) == {AtServer(t) : t \in topics}

(* The operations: unsubscribe *)
UnsubscribeSymbolOHLCV(codes, interval) == Ask("unsubscribe", "data", "trade", codes, interval)
UnsubscribeSymbolTrade(codes) == Data("unsubscribe", "trade", codes)
UnsubscribeSymbolQuote(codes) == Data("unsubscribe", "quote", codes)
UnsubscribeSymbolRoom(codes) == Data("unsubscribe", "room", codes)
UnsubscribePutThrough(codes) == Data("unsubscribe", "put", codes)
UnsubscribeOddLot(codes) == Data("unsubscribe", "oddlot", codes)
UnsubscribeSymbol(codes) ==
  UnsubscribeSymbolTrade(codes) \o UnsubscribeSymbolQuote(codes)
    \o UnsubscribeSymbolRoom(codes)

\* Mutant: the group is left under the names of its members.
GroupByName(codes) == GroupOfNames("unsubscribe", codes)

UnsubscribeBoard(codes) == Group("unsubscribe", codes)
UnsubscribeIndex(codes) == Group("unsubscribe", codes)
UnsubscribeMarket(codes) == Data("unsubscribe", "market", codes)
UnsubscribeIndexSummary(codes) == Data("unsubscribe", "indexsummary", codes)
UnsubscribeIndexTrade(codes, interval) ==
  Ask("unsubscribe", "data", "trade.index", codes, interval)
UnsubscribeOrderStatus(account) == Trading("unsubscribe", "order", account)
UnsubscribePortfolio(account) == Trading("unsubscribe", "portfolio", account)
UnsubscribeMarketFlag == <<Message("unsubscribe", {FlagTopic})>>

\* unsubscribe_all, once the server has listed the topics of the connection:
\* one request for each channel that has any.
OfChannel(topics, channel) == {t \in topics : t.channel = channel}

\* Mutant: only the market data is given up.
DataOnly(listed) == <<Message("unsubscribe", OfChannel(listed, "data"))>>

UnsubscribeListed(listed) ==
  LET Part(channel) == IF OfChannel(listed, channel) = {} THEN <<>>
                       ELSE <<Message("unsubscribe", OfChannel(listed, channel))>>
  IN Part("data") \o Part("trading")

-----------------------------------------------------------------------------
(* Frames.  `event' is data.eventType, `shape' whether market data looks like  *)
(* master data (it has one of the keys s, ce, fl, ref).                        *)
DataClass(topic, shape) ==
  IF topic.type = "trade.index"
  THEN IF topic.interval \in {"1m", "5m"} THEN "interval" ELSE "index_tick"
  ELSE IF topic.type = "trade"
  THEN IF topic.interval \in {"1m", "5m"} THEN "interval" ELSE "trade"
  ELSE IF AtServer(topic) = AtServer(FlagTopic) THEN "market_flag"
  ELSE IF topic.type = "market"
  THEN IF shape = "master" THEN "market_data" ELSE "market_status"
  ELSE IF topic.type = "indexsummary" THEN "index_summary"
  ELSE topic.type

TradingClass(topic, event) ==
  IF event = None THEN topic.type
  ELSE IF event = "orderEvent" THEN "order"
  ELSE IF event = "orderMatchEvent" THEN "order_match"
  ELSE IF event = "clientPortfolioEvent" THEN "portfolio"
  ELSE IF event = "fcoEvent" THEN "fco" ELSE "raw"

\* routes_of: the handlers a frame is for.  An acknowledgement names a channel
\* and goes to the handlers of that channel as well.
Routes(frame) ==
  IF frame.kind = "listed" THEN {"list"}
  ELSE IF frame.kind = "push" THEN {frame.channel}
  ELSE {frame.channel, "ack"}
=============================================================================

-------------------------- MODULE TradingWSRequests --------------------------
(* The commands of the trading service over the WebSocket                     *)
(* (services/trading_ws.py): the order builders of the REST service behind     *)
(* other entry points, which do not all make the same checks.                  *)
EXTENDS OrderRequests

CONSTANTS ClientId   \* Config.client_id, or None

\* build_command signs the methods that change something.
MutatingMethods ==
  {"order.place", "order.amend", "order.cancel", "order.batchNew", "order.batchCancel",
   "fco.place", "fco.cancel"}

Command(method, bodies) ==
  {Request("WS", method, method \in MutatingMethods, b) : b \in bodies}

(* Orders *)
\* Mutant: only the builder checks the order.
BuilderOnly(o) == Command("order.place", BuildPlaceOrder(o))

WSPlaceOrder(o) ==
  Checked(Given(o.price) => IsPrice(o.price) /\ NonNegative(o.price),
          Command("order.place", BuildPlaceOrder(o)))

\* Both keys and both changes are arguments of one call.
AmendOrder(c) == Command("order.amend", BuildModifyOrder(c))

WSCancelOrder(c) == Command("order.cancel", BuildCancelOrder(c))

BatchNewOrders(orders) == Command("order.batchNew", BuildBatchPlace(orders))

BatchCancelOrders(orders) == Command("order.batchCancel", BuildBatchCancel(orders))

(* Conditional orders *)
ParamsPayload(f) ==
  IF f.type = "GTD" THEN GTDPayload(f)
  ELSE IF f.type \in {"STOP", "STOP_LIMIT"} THEN StopPayload(f)
  ELSE IF f.type \in {"TRAILING_STOP", "TRAILING_STOP_LIMIT"} THEN TrailingStopPayload(f)
  ELSE IF f.type = "OCO" THEN OCOPayload(f)
  ELSE BullBearPayload(f)

WSPlaceFCO(f) == Command("fco.place", BuildFCOParams(f, ParamsPayload(f)))

WSCancelFCO(fco) == Checked(NonEmpty(fco), Command("fco.cancel", FCOCancelPayload(fco)))

ListFCO(f) == Checked(Cardinality(f.status) <= 1, Command("fco.list", BuildFCOList(f)))

FCOOrderBook(fco) == Checked(NonEmpty(fco), Command("fco.orderbook", {[fco |-> fco]}))

FCOStatusHistory(fco) == Checked(NonEmpty(fco), Command("fco.statusHistory", {[fco |-> fco]}))

(* Events of one account *)
AccountTopic(kind, account) ==
  Checked(NonEmpty(account) /\ account # Wildcard, {[kind |-> kind, account |-> account]})

Subscription(op, topics) == {Request("WS", op, FALSE, [topics |-> {t}]) : t \in topics}

SubscribeOrderEvents(account) == Subscription("subscribe", AccountTopic("order", account))

UnsubscribeOrderEvents(account) == Subscription("unsubscribe", AccountTopic("order", account))

SubscribePortfolioEvents(account) ==
  Subscription("subscribe", AccountTopic("portfolio", account))

UnsubscribePortfolioEvents(account) ==
  Subscription("unsubscribe", AccountTopic("portfolio", account))

\* An empty list of topics cancels every subscription of the channel.
UnsubscribeAllEvents == {Request("WS", "unsubscribe", FALSE, [topics |-> {}])}

(* Queries *)
WSParams(account) == [account |-> account, clientId |-> ClientId]

QueryPosition(account) ==
  Checked(NonEmpty(account), Command("query.position", {WSParams(account)}))

WSQueryMaxBuySell(q) ==
  Checked(/\ NonEmpty(q.account) /\ NonEmpty(q.symbol)
          /\ Given(q.price) => IsPrice(q.price) /\ NonNegative(q.price),
          Command("query.maxBuySell", MaxBuySellPayload(q)))

QueryAccountBalance(account) ==
  Checked(NonEmpty(account), Command("query.accountBalance", {WSParams(account)}))

QueryPPMMRAccount(account) ==
  Checked(NonEmpty(account), Command("query.ppmmrAccount", {[account |-> account]}))

QueryOrderBook(account, from, to) ==
  Checked(/\ NonEmpty(account)
          /\ NoDate \notin {from, to} => DateRange(from, to, DayOnly, Unlimited)
          /\ \A d \in {from, to} \ {NoDate} : IsDate(d, DayOnly),
          Command("query.orderBook", {[account |-> account, from |-> from, to |-> to]}))
=============================================================================

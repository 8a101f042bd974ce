---------------------------- MODULE OrderRequests ----------------------------
(* The requests of the trading service over REST (services/trading.py): the   *)
(* checks each operation makes and the body it signs.  The async service makes *)
(* the same requests.                                                          *)
EXTENDS Arguments

CONSTANTS MaxBatchOrders   \* Config.max_batch_orders

\* A key the SDK draws at random: no two requests share one.
Generated == "generated"
PricedTypes == {"LO", "PLO"}
MaxFCODays == 31

Request(method, endpoint, signed, body) ==
  [method |-> method, endpoint |-> endpoint, signed |-> signed, body |-> body]
Signed(method, endpoint, bodies) == {Request(method, endpoint, TRUE, b) : b \in bodies}
Query(endpoint, bodies)          == {Request("GET", endpoint, FALSE, b) : b \in bodies}

\* Mutant: the key of the caller is not used.
AlwaysGenerated(key) == {Generated}

\* Mutant: an order without a key gets a fixed one.
FixedKey(key) == IF key = None THEN {"k"} ELSE {key}

\* The key of the caller or a random one.
ClientRequestId(key) ==
  IF key = None THEN {Generated} ELSE Checked(NonEmpty(key) /\ key # TooLong, {key})

\* An order: [account, symbol, side, quantity, price, type, key].
PricePayload(price, type) ==
  Checked(Given(price) \/ type \notin PricedTypes,
          {IF Given(price) THEN price.value ELSE 0})

PlacePayload(o, key) ==
  {[account |-> o.account, symbol |-> o.symbol, side |-> o.side,
    quantity |-> o.quantity.value, price |-> p, type |-> o.type, key |-> key]
     : p \in PricePayload(o.price, o.type)}

BuildPlaceOrder(o) ==
  Checked(/\ \A text \in {o.account, o.symbol, o.side, o.type} : NonEmpty(text)
          /\ o.quantity.form = "int" /\ Positive(o.quantity)
          /\ Given(o.price) \/ o.type \notin PricedTypes
          /\ Given(o.price) => IsPrice(o.price),
          UNION {PlacePayload(o, key) : key \in ClientRequestId(o.key)})

\* Modifications and cancels: [account, orderId, key, price, quantity].
TargetPayload(c) == [account |-> c.account, orderId |-> c.orderId, key |-> c.key]

ModifyPayload(c) ==
  [target |-> TargetPayload(c), quantity |-> c.quantity, price |-> c.price]

BuildModifyOrder(c) ==
  Checked(/\ NonEmpty(c.account)
          /\ ExactlyOne(c.orderId, c.key)
          /\ Given(c.price) # Given(c.quantity)
          /\ Given(c.price) => IsPrice(c.price) /\ Positive(c.price)
          /\ Given(c.quantity) => Positive(c.quantity),
          {ModifyPayload(c)})

BuildCancelOrder(c) ==
  Checked(NonEmpty(c.account) /\ ExactlyOne(c.orderId, c.key), {TargetPayload(c)})

\* Batches: every order is checked before the body is built.
CheckBatch(orders) == orders # <<>> /\ Len(orders) <= MaxBatchOrders

\* Mutant: the bad orders of a batch are left out of it.
GoodBodies(built) ==
  LET good == SelectSeq(built, LAMBDA bodies : bodies # {})
  IN  {[orders |-> [n \in DOMAIN good |-> CHOOSE body \in good[n] : TRUE]]}

Bodies(built) ==
  IF {} \in {built[n] : n \in DOMAIN built} THEN {}
  ELSE {[orders |-> [n \in DOMAIN built |-> CHOOSE body \in built[n] : TRUE]]}

BuildBatchPlace(orders) ==
  Checked(CheckBatch(orders), Bodies([n \in DOMAIN orders |-> BuildPlaceOrder(orders[n])]))

BuildBatchCancel(orders) ==
  Checked(CheckBatch(orders), Bodies([n \in DOMAIN orders |-> BuildCancelOrder(orders[n])]))

(* The operations that place, change and cancel orders *)
SignedPlaceOrder(o) == Signed("POST", "order", BuildPlaceOrder(o))

PlaceOrder(o) ==
  Checked(Given(o.price) => IsPrice(o.price) /\ NonNegative(o.price), SignedPlaceOrder(o))

PlaceLimitOrder(o) ==
  Checked(IsPrice(o.price) /\ Positive(o.price), PlaceOrder([o EXCEPT !.type = "LO"]))

PlaceMarketOrder(o) == PlaceOrder([o EXCEPT !.price = Whole(0), !.type = "MTL"])

PlaceATOOrder(o) == PlaceOrder([o EXCEPT !.price = Whole(0), !.type = "ATO"])

PlaceATCOrder(o) == PlaceOrder([o EXCEPT !.price = Whole(0), !.type = "ATC"])

ModifyOrder(c) == Signed("PUT", "order", BuildModifyOrder(c))

ModifyOrderPrice(c) ==
  Checked(IsPrice(c.price) /\ Positive(c.price),
          ModifyOrder([c EXCEPT !.orderId = None, !.quantity = NoNumber]))

ModifyOrderPriceByOrderId(c) ==
  Checked(IsPrice(c.price) /\ Positive(c.price),
          ModifyOrder([c EXCEPT !.key = None, !.quantity = NoNumber]))

ModifyOrderQuantity(c) ==
  Checked(Given(c.quantity),
          ModifyOrder([c EXCEPT !.orderId = None, !.price = NoNumber]))

ModifyOrderQuantityByOrderId(c) ==
  Checked(Given(c.quantity),
          ModifyOrder([c EXCEPT !.key = None, !.price = NoNumber]))

SignedCancelOrder(c) == Signed("DELETE", "order", BuildCancelOrder(c))

CancelOrder(c) == Checked(NonEmpty(c.key), SignedCancelOrder([c EXCEPT !.orderId = None]))

CancelOrderByOrderId(c) ==
  Checked(NonEmpty(c.orderId), SignedCancelOrder([c EXCEPT !.key = None]))

PlaceBatchOrders(orders) == Signed("POST", "order/batch", BuildBatchPlace(orders))

CancelBatchOrders(orders) == Signed("DELETE", "order/batch", BuildBatchCancel(orders))

(* Queries of the trading service *)
MaxBuySellPayload(q) ==
  {[account |-> q.account, symbol |-> q.symbol, price |-> q.price]}

BuildMaxBuySell(q) ==
  Checked(/\ NonEmpty(q.account) /\ NonEmpty(q.symbol)
          /\ Given(q.price) => IsPrice(q.price),
          MaxBuySellPayload(q))

QueryMaxBuySell(q) == Query("maxBuySell", BuildMaxBuySell(q))

GetMaxBuySell(q) ==
  Checked(IsPrice(q.price) /\ Positive(q.price), QueryMaxBuySell(q))

GetMaxBuySellAtMarketPrice(q) == QueryMaxBuySell([q EXCEPT !.price = NoNumber])

\* Conditional orders that match a filter: [account, fco, symbol, status, from, to].
FCOFilter(account) ==
  [account |-> account, fco |-> None, symbol |-> None, status |-> {},
   from |-> NoDate, to |-> NoDate]

FCOListPayload(f) == {f}

BuildFCOList(f) ==
  Checked(/\ NonEmpty(f.account)
          /\ IF NoDate \notin {f.from, f.to}
             THEN DateRange(f.from, f.to, DayOrTime, Unlimited)
             ELSE \A d \in {f.from, f.to} \ {NoDate} : IsDate(d, DayOrTime),
          FCOListPayload(f))

GetFCOList(f) == Query("fco", BuildFCOList(f))

GetFCOByAccountNo(account) == GetFCOList(FCOFilter(account))

GetFCOBySymbol(account, symbol) == GetFCOList([FCOFilter(account) EXCEPT !.symbol = symbol])

GetFCOByStatus(account, status) == GetFCOList([FCOFilter(account) EXCEPT !.status = status])

GetFCOByDate(account, from, to) ==
  GetFCOList([FCOFilter(account) EXCEPT !.from = from, !.to = to])

GetFCOById(account, fco) == GetFCOList([FCOFilter(account) EXCEPT !.fco = fco])

GetFCOOrderBook(fco) == Checked(NonEmpty(fco), Query("fco/orderBook", {[fco |-> fco]}))

GetFCOStatusHistory(fco) == Checked(NonEmpty(fco), Query("fco/statusHistory", {[fco |-> fco]}))

(* Conditional orders: [type, order, slip, window, legs], where legs are the   *)
(* take-profit and stop-loss prices with their slips.                          *)
PriceAndSlip(price, slip) ==
  IF price.form = "word" THEN [price |-> price, slip |-> 0]
  ELSE IF price.form \in {"int", "fraction", "text"} THEN [price |-> price, slip |-> slip]
  ELSE [price |-> price, slip |-> 0]

\* The price text of a leg, whose slip goes out as it was given.
PriceText(price, slip) == [PriceAndSlip(price, 0) EXCEPT !.slip = slip]
AtMarket == [price |-> Number("word", 0), slip |-> 0]

FCOPayload(f, main, tp, sl) ==
  [type |-> f.type, account |-> f.account, symbol |-> f.symbol, side |-> f.side,
   quantity |-> f.quantity, from |-> f.from, to |-> f.to,
   main |-> main, tp |-> tp, sl |-> sl]

GTDPayload(f) ==
  FCOPayload(f, PriceAndSlip(f.price, f.slip), AtMarket, AtMarket)

StopPayload(f) ==
  FCOPayload(f, IF f.type = "STOP" THEN AtMarket ELSE PriceText(f.price, f.slip),
             AtMarket, AtMarket)

TrailingStopPayload(f) ==
  FCOPayload(f, IF f.type = "TRAILING_STOP" THEN AtMarket
                ELSE [price |-> NoNumber, slip |-> f.slip],
             AtMarket, AtMarket)

OCOPayload(f) ==
  FCOPayload(f, AtMarket, PriceText(f.tpPrice, f.tpSlip), PriceText(f.slPrice, f.slSlip))

BullBearPayload(f) ==
  FCOPayload(f, PriceAndSlip(f.price, f.slip), PriceAndSlip(f.tpPrice, f.tpSlip),
             PriceAndSlip(f.slPrice, f.slSlip))

BuildFCOParams(f, payload) ==
  Checked(IF NoDate \notin {f.from, f.to}
          THEN DateRange(f.from, f.to, TimeOnly, MaxFCODays)
          ELSE \A d \in {f.from, f.to} \ {NoDate} : IsDate(d, TimeOnly),
          {payload})

SignedPlaceFCO(f, payload) == Signed("POST", "fco", BuildFCOParams(f, payload))

\* An order type in place of the price has no slip.
PlaceFCOGTD(f) ==
  LET g == [f EXCEPT !.type = "GTD", !.slip = IF f.price.form = "word" THEN 0 ELSE @]
  IN  SignedPlaceFCO(g, GTDPayload(g))

PlaceFCOStop(f) ==
  LET g == [f EXCEPT !.type = "STOP", !.price = AtMarket.price, !.slip = 0]
  IN  Checked(f.operator # None, SignedPlaceFCO(g, StopPayload(g)))

PlaceFCOStopLimit(f) ==
  LET g == [f EXCEPT !.type = "STOP_LIMIT"]
  IN  Checked(f.operator # None, SignedPlaceFCO(g, StopPayload(g)))

PlaceFCOTrailingStop(f) ==
  LET g == [f EXCEPT !.type = "TRAILING_STOP", !.slip = 0]
  IN  SignedPlaceFCO(g, TrailingStopPayload(g))

PlaceFCOTrailingStopLimit(f) ==
  LET g == [f EXCEPT !.type = "TRAILING_STOP_LIMIT"]
  IN  SignedPlaceFCO(g, TrailingStopPayload(g))

PlaceFCOOCO(f) == LET g == [f EXCEPT !.type = "OCO"] IN SignedPlaceFCO(g, OCOPayload(g))

PlaceFCOBullBear(f) ==
  LET g == [f EXCEPT !.type = "BULL_BEAR"] IN SignedPlaceFCO(g, BullBearPayload(g))

FCOCancelPayload(fco) == {[fco |-> fco]}

CancelFCO(fco) == Checked(NonEmpty(fco), Signed("DELETE", "fco", FCOCancelPayload(fco)))
=============================================================================

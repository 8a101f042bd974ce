--------------------------- MODULE ServicesProofs ---------------------------
(***************************************************************************)
(* Proofs about the services that only build requests, those of Orders and *)
(* of MarketData.  For any orders wanted and any number of calls: an order *)
(* is executed once however its answers were lost, an order said to be a   *)
(* duplicate is there, a batch goes out whole, and what goes out over the  *)
(* WebSocket is what REST would have sent.  For any range, any clock and   *)
(* any rows: no request for bars is one the server refuses, a call for all *)
(* pages leaves out no row, and asks for no page far behind the last.      *)
(***************************************************************************)
EXTENDS Orders, MarketData, FiniteSetTheorems, TLAPS

-----------------------------------------------------------------------------
(* The invariant                                                           *)

KeyOf(i) == IF Wanted[i].key = None THEN Generated ELSE Wanted[i].key
Intended(accepted) == {accepted[n].intent : n \in DOMAIN accepted}
Placed == Intended(orders)
For(w, i) == w.kind = "place" /\ i \in Range(w.items)
UnderWay(i) == \E w \in wire : For(w, i)

\* A body that says which order is wanted, how much of it and under which key.
Fits(body, i) ==
  /\ body.key = KeyOf(i)
  /\ body.account = Wanted[i].account /\ body.symbol = Wanted[i].symbol
  /\ body.side = Wanted[i].side
  /\ body.quantity = Wanted[i].quantity.value /\ body.quantity \in Nat \ {0}

\* A request for one or two orders, each as it is wanted.
Carries(request, items) ==
  LET bodies == BodiesOf(request)
  IN  \E k \in {1, 2} :
        /\ DOMAIN items = 1..k /\ DOMAIN bodies = 1..k
        /\ Len(items) = k /\ Len(bodies) = k
        /\ k = 2 => items[1] # items[2]
        /\ \A n \in 1..k : items[n] \in Intents /\ Fits(bodies[n], items[n])

\* What the exchange accepted was wanted, under this key, and once.
Booked(accepted) ==
  /\ \E X : accepted \in Seq(X)
  /\ \A n \in DOMAIN accepted :
       accepted[n].intent \in Intents /\ Fits(accepted[n].body, accepted[n].intent)
  /\ \A m, n \in DOMAIN accepted : accepted[m].intent = accepted[n].intent => m = n

\* Calls are numbered, and the one under way is the last.
CallInv ==
  /\ calls \in Nat
  /\ call = Idle \/ call.number \in 1..calls
WireInv ==
  \A w \in wire :
    /\ w.number \in 1..calls
    /\ w.kind = "place" => Carries(w.request, w.items)
    /\ w.number = call.number => w.kind = call.kind /\ w.items = call.items
AnswersInv ==
  \A a \in answers :
    /\ a.number \in 1..calls
    /\ a.number = call.number /\ call.kind = "place" =>
         /\ DOMAIN a.results = DOMAIN call.items
         /\ \A n \in DOMAIN a.results : a.results[n] \in {"accepted", "duplicate"}
         /\ Range(call.items) \subseteq Placed

\* An order of which nothing is known was never sent, but by the call under way.
ToldInv ==
  /\ told = [i \in Intents |-> told[i]]
  /\ \A i \in Intents :
       /\ told[i] \in {"accepted", "duplicate"} => i \in Placed
       /\ told[i] = "nothing" /\ ~(call.kind = "place" /\ i \in Range(call.items))
            => i \notin Placed /\ ~UnderWay(i)
\* An order without a key goes out once.
OnceInv ==
  \A i \in Intents : Wanted[i].key = None =>
    /\ i \in Placed => ~UnderWay(i)
    /\ \A v, w \in wire : For(v, i) /\ For(w, i) => v = w

IInv == Booked(orders) /\ CallInv /\ WireInv /\ AnswersInv /\ ToldInv /\ OnceInv

-----------------------------------------------------------------------------
(* The requests                                                            *)

\* Two ways to say the same but for the price and the type.
Alike(p, o) ==
  p.account = o.account /\ p.symbol = o.symbol /\ p.side = o.side /\ p.quantity = o.quantity
    /\ p.key = o.key

\* The builder takes over what is wanted, under the caller's key or a random one.
LEMMA BuiltBody ==
  ASSUME NEW i \in Intents, NEW o, Alike(o, Wanted[i]), NEW b \in BuildPlaceOrder(o)
  PROVE  Fits(b, i)
<1>1. /\ b \in UNION {PlacePayload(o, key) : key \in ClientRequestId(o.key)}
      /\ Positive(o.quantity)
  BY DEF BuildPlaceOrder, Checked
<1>2. PICK key \in ClientRequestId(o.key) : b \in PlacePayload(o, key)
  BY <1>1
<1>3. /\ b.account = o.account /\ b.symbol = o.symbol /\ b.side = o.side
      /\ b.quantity = o.quantity.value /\ b.key = key
  BY <1>2 DEF PlacePayload
<1>4. key = IF o.key = None THEN Generated ELSE o.key
  BY DEF ClientRequestId, Checked
<1>5. o.quantity.value \in Nat \ {0}
  BY <1>1, FieldsAssumption DEF Alike, Positive
<1> QED BY <1>3, <1>4, <1>5 DEF Fits, Alike, KeyOf

\* place_order over REST signs what the builder returns.
LEMMA PlaceOrderBody ==
  ASSUME NEW o, NEW r \in PlaceOrder(o)
  PROVE  r.endpoint = "order" /\ r.body \in BuildPlaceOrder(o)
BY DEF PlaceOrder, Checked, SignedPlaceOrder, Signed, Request

\* Each way to place one order sends its key, and place_order over the WebSocket
\* sends what it sends over REST.
LEMMA SingleRequest ==
  ASSUME NEW i \in Intents, NEW requests \in OrderEntries(Wanted[i]), NEW r \in requests
  PROVE  /\ r.endpoint \in {"order", "order.place"} /\ Fits(r.body, i)
         /\ r.endpoint = "order.place" => \E q \in PlaceOrder(Wanted[i]) : q.body = r.body
<1> DEFINE o == Wanted[i]
<1>1. \A price, type : /\ Alike([o EXCEPT !.type = type], o)
                       /\ Alike([o EXCEPT !.price = price, !.type = type], o)
  BY FieldsAssumption DEF Alike
<1>2. ASSUME NEW p, Alike(p, o), r \in PlaceOrder(p)
      PROVE  r.endpoint = "order" /\ Fits(r.body, i)
  BY <1>2, PlaceOrderBody, BuiltBody
<1>a. Alike(o, o)
  BY DEF Alike
<1>3. CASE r \in WSPlaceOrder(o)
  <2>1. r.endpoint = "order.place" /\ r.body \in BuildPlaceOrder(o)
    BY <1>3 DEF WSPlaceOrder, Checked, Command, Request
  <2>2. Given(o.price) => IsPrice(o.price) /\ NonNegative(o.price)
    BY <1>3 DEF WSPlaceOrder, Checked
  <2>3. Request("POST", "order", TRUE, r.body) \in PlaceOrder(o)
    BY <2>1, <2>2 DEF PlaceOrder, Checked, SignedPlaceOrder, Signed
  <2>4. Request("POST", "order", TRUE, r.body).body = r.body
    BY DEF Request
  <2> QED BY <1>a, <2>1, <2>3, <2>4, BuiltBody
<1>4. CASE r \in PlaceOrder(o)
  BY <1>2, <1>4, <1>a
<1>5. CASE r \in PlaceLimitOrder(o)
  <2>1. r \in PlaceOrder([o EXCEPT !.type = "LO"])
    BY <1>5 DEF PlaceLimitOrder, Checked
  <2> QED BY <1>1, <1>2, <2>1
<1>6. CASE r \in PlaceMarketOrder(o) \/ r \in PlaceATOOrder(o) \/ r \in PlaceATCOrder(o)
  <2>1. PICK type : r \in PlaceOrder([o EXCEPT !.price = Whole(0), !.type = type])
    BY <1>6 DEF PlaceMarketOrder, PlaceATOOrder, PlaceATCOrder
  <2> QED BY <1>1, <1>2, <2>1
<1> QED BY <1>3, <1>4, <1>5, <1>6 DEF OrderEntries

\* One order is one body.
LEMMA SingleWhole ==
  ASSUME NEW i \in Intents, NEW r, r.endpoint \in {"order", "order.place"},
         Fits(r.body, i)
  PROVE  Carries(r, <<i>>)
<1> DEFINE bodies == BodiesOf(r)
           items == <<i>>
<1>1. bodies = <<r.body>>
  BY DEF BodiesOf
<1>2. /\ DOMAIN bodies = 1..1 /\ Len(bodies) = 1 /\ Fits(bodies[1], i)
      /\ DOMAIN items = 1..1 /\ Len(items) = 1 /\ items[1] = i
  BY <1>1
<1> HIDE DEF bodies, items
<1>3. \A n \in 1..1 : items[n] \in Intents /\ Fits(bodies[n], items[n])
  BY <1>2
<1>4. \E k \in {1, 2} :
        /\ DOMAIN items = 1..k /\ DOMAIN bodies = 1..k
        /\ Len(items) = k /\ Len(bodies) = k
        /\ k = 2 => items[1] # items[2]
        /\ \A n \in 1..k : items[n] \in Intents /\ Fits(bodies[n], items[n])
  <2> WITNESS 1 \in {1, 2}
  <2> QED BY <1>2, <1>3
<1> QED BY <1>4 DEF Carries, bodies, items

\* A batch has a body for each of its orders, in their order.
LEMMA BatchWhole ==
  ASSUME NEW i \in Intents, NEW j \in Intents, i # j,
         NEW requests \in BatchEntries(<<Wanted[i], Wanted[j]>>), NEW r \in requests
  PROVE  r.endpoint \in {"order/batch", "order.batchNew"} /\ Carries(r, <<i, j>>)
<1> DEFINE os == <<Wanted[i], Wanted[j]>>
           items == <<i, j>>
           built == [n \in DOMAIN os |-> BuildPlaceOrder(os[n])]
           chosen == [n \in DOMAIN built |-> CHOOSE body \in built[n] : TRUE]
           bodies == BodiesOf(r)
<1>1. /\ r.endpoint \in {"order/batch", "order.batchNew"}
      /\ r.body \in BuildBatchPlace(os)
  BY DEF BatchEntries, PlaceBatchOrders, BatchNewOrders, Signed, Command, Request
<1>2. r.body \in Bodies(built)
  BY <1>1 DEF BuildBatchPlace, Checked
<1>3. /\ DOMAIN os = 1..2 /\ os[1] = Wanted[i] /\ os[2] = Wanted[j]
      /\ DOMAIN items = 1..2 /\ Len(items) = 2 /\ items[1] = i /\ items[2] = j
  OBVIOUS
<1> HIDE DEF os, items
<1>4. /\ DOMAIN built = 1..2 /\ built[1] = BuildPlaceOrder(Wanted[i])
      /\ built[2] = BuildPlaceOrder(Wanted[j])
  BY <1>3
<1> HIDE DEF built
<1>5. {} \notin {built[n] : n \in DOMAIN built} /\ r.body = [orders |-> chosen]
  BY <1>2 DEF Bodies
<1>6. built[1] # {} /\ built[2] # {}
  BY <1>4, <1>5
<1>7. /\ DOMAIN chosen = 1..2 /\ Len(chosen) = 2
      /\ chosen[1] \in BuildPlaceOrder(Wanted[i]) /\ chosen[2] \in BuildPlaceOrder(Wanted[j])
  <2>1. DOMAIN chosen = 1..2 /\ chosen[1] \in built[1] /\ chosen[2] \in built[2]
    BY <1>4, <1>6
  <2>2. chosen \in [1..2 -> built[1] \union built[2]]
    <3>1. \A n \in 1..2 : chosen[n] \in built[1] \union built[2]
      <4>1. \A n \in 1..2 : n = 1 \/ n = 2
        OBVIOUS
      <4> QED BY <2>1, <4>1
    <3> QED BY <1>4, <3>1
  <2>3. chosen \in Seq(built[1] \union built[2])
    BY <2>2
  <2>4. Len(chosen) = 2
    BY <2>1, <2>3
  <2> QED BY <1>4, <2>1, <2>4
<1>8. bodies = chosen
  BY <1>1, <1>5 DEF BodiesOf
<1> HIDE DEF chosen, bodies
<1>9. Fits(bodies[1], i) /\ Fits(bodies[2], j)
  BY <1>7, <1>8, BuiltBody DEF Alike
<1>10. \A n \in 1..2 : items[n] \in Intents /\ Fits(bodies[n], items[n])
  <2>1. \A n \in 1..2 : n = 1 \/ n = 2
    OBVIOUS
  <2> QED BY <1>3, <1>9, <2>1
<1>11. \E k \in {1, 2} :
        /\ DOMAIN items = 1..k /\ DOMAIN bodies = 1..k
        /\ Len(items) = k /\ Len(bodies) = k
        /\ k = 2 => items[1] # items[2]
        /\ \A n \in 1..k : items[n] \in Intents /\ Fits(bodies[n], items[n])
  <2> WITNESS 2 \in {1, 2}
  <2> QED BY <1>3, <1>7, <1>8, <1>10
<1> QED BY <1>1, <1>11 DEF Carries, bodies, items

\* No change and no query is an order.
Reserved == {"order.place", "fco.place"}

LEMMA ChangeEndpoints ==
  ASSUME NEW c, NEW requests \in ChangeEntries(c), NEW r \in requests
  PROVE  r.endpoint \notin Reserved
<1> DEFINE others == {"order", "order/batch", "order.amend", "order.cancel", "order.batchCancel"}
<1>1. \A d : \A q \in ModifyOrder(d) \union SignedCancelOrder(d) : q.endpoint = "order"
  BY DEF ModifyOrder, SignedCancelOrder, Signed, Request
<1>2. CASE requests \in {ModifyOrderPrice(c), ModifyOrderPriceByOrderId(c),
                         ModifyOrderQuantity(c), ModifyOrderQuantityByOrderId(c)}
  <2>1. \E d : r \in ModifyOrder(d)
    BY <1>2 DEF ModifyOrderPrice, ModifyOrderPriceByOrderId, ModifyOrderQuantity,
                ModifyOrderQuantityByOrderId, Checked
  <2> QED BY <1>1, <2>1 DEF Reserved
<1>3. CASE requests \in {CancelOrder(c), CancelOrderByOrderId(c)}
  <2>1. \E d : r \in SignedCancelOrder(d)
    BY <1>3 DEF CancelOrder, CancelOrderByOrderId, Checked
  <2> QED BY <1>1, <2>1 DEF Reserved
<1>4. CASE requests \in {AmendOrder(c), WSCancelOrder(c), CancelBatchOrders(<<c>>),
                         BatchCancelOrders(<<c>>)}
  <2>1. r.endpoint \in others
    BY <1>4 DEF AmendOrder, WSCancelOrder, CancelBatchOrders, BatchCancelOrders, Command,
                Signed, Request
  <2> QED BY <2>1 DEF Reserved
<1> QED BY <1>2, <1>3, <1>4 DEF ChangeEntries

LEMMA QueryEndpoints ==
  ASSUME NEW account, NEW fco,
         NEW requests \in AccountQueries(account) \union FCOQueries(account, fco),
         NEW r \in requests
  PROVE  r.endpoint \notin Reserved
<1>1. \A f : \A q \in GetFCOList(f) : q.endpoint = "fco"
  BY DEF GetFCOList, Query, Request
<1>2. \A q : \A p \in QueryMaxBuySell(q) : p.endpoint = "maxBuySell"
  BY DEF QueryMaxBuySell, Query, Request
<1>3. \A op, topics : \A q \in Subscription(op, topics) : q.endpoint = op
  BY DEF Subscription, Request
<1>4. CASE requests \in FCOQueries(account, fco)
  <2>1. CASE \E f : r \in GetFCOList(f)
    BY <1>1, <2>1 DEF Reserved
  <2>2. CASE requests \in {GetFCOOrderBook(fco), GetFCOStatusHistory(fco),
                           ListFCO(FCOFilter(account)), FCOOrderBook(fco),
                           FCOStatusHistory(fco), CancelFCO(fco), WSCancelFCO(fco)}
    <3>1. r.endpoint \in {"fco/orderBook", "fco/statusHistory", "fco.list", "fco.orderbook",
                          "fco.statusHistory", "fco", "fco.cancel"}
      BY <2>2 DEF GetFCOOrderBook, GetFCOStatusHistory, ListFCO, FCOOrderBook,
                  FCOStatusHistory, CancelFCO, WSCancelFCO, Checked, Query, Command, Signed,
                  Request
    <3> QED BY <3>1 DEF Reserved
  <2>3. CASE requests \in {GetFCOByAccountNo(account), GetFCOBySymbol(account, "S"),
                           GetFCOByStatus(account, {"NEW"}),
                           GetFCOByDate(account, Date("day", 1), Date("stamp", 2)),
                           GetFCOById(account, fco)}
    BY <2>1, <2>3 DEF GetFCOByAccountNo, GetFCOBySymbol, GetFCOByStatus, GetFCOByDate, GetFCOById
  <2> QED BY <1>4, <2>2, <2>3 DEF FCOQueries
<1>5. CASE requests \in AccountQueries(account)
  <2>1. CASE \E q : r \in QueryMaxBuySell(q)
    BY <1>2, <2>1 DEF Reserved
  <2>2. CASE \E op \in {"subscribe", "unsubscribe"} : \E topics : r \in Subscription(op, topics)
    BY <1>3, <2>2 DEF Reserved
  <2>3. CASE \E q : r \in WSQueryMaxBuySell(q)
    <3>1. r.endpoint = "query.maxBuySell"
      BY <2>3 DEF WSQueryMaxBuySell, Checked, Command, Request
    <3> QED BY <3>1 DEF Reserved
  <2>4. CASE requests \in {QueryPosition(account), QueryAccountBalance(account),
                           QueryPPMMRAccount(account), UnsubscribeAllEvents,
                           QueryOrderBook(account, Date("day", 1), Date("day", 2))}
    <3>1. r.endpoint \in {"query.position", "query.accountBalance", "query.ppmmrAccount",
                          "unsubscribe", "query.orderBook"}
      BY <2>4 DEF QueryPosition, QueryAccountBalance, QueryPPMMRAccount, UnsubscribeAllEvents,
                  QueryOrderBook, Checked, Command, Request
    <3> QED BY <3>1 DEF Reserved
  <2>5. CASE requests \in {SubscribeOrderEvents(account), UnsubscribeOrderEvents(account),
                           SubscribePortfolioEvents(account),
                           UnsubscribePortfolioEvents(account)}
    BY <2>2, <2>5 DEF SubscribeOrderEvents, UnsubscribeOrderEvents, SubscribePortfolioEvents,
                      UnsubscribePortfolioEvents
  <2>6. \/ \E q : requests = WSQueryMaxBuySell(q)
        \/ \E q : requests \in {GetMaxBuySell(q), GetMaxBuySellAtMarketPrice(q)}
        \/ requests \in {QueryPosition(account), QueryAccountBalance(account),
                         QueryPPMMRAccount(account), UnsubscribeAllEvents,
                         QueryOrderBook(account, Date("day", 1), Date("day", 2))}
        \/ requests \in {SubscribeOrderEvents(account), UnsubscribeOrderEvents(account),
                         SubscribePortfolioEvents(account),
                         UnsubscribePortfolioEvents(account)}
    BY <1>5 DEF AccountQueries
  <2>7. ASSUME NEW q, requests \in {GetMaxBuySell(q), GetMaxBuySellAtMarketPrice(q)}
        PROVE  r.endpoint \notin Reserved
    BY <2>1, <2>7 DEF GetMaxBuySell, GetMaxBuySellAtMarketPrice, Checked
  <2> QED BY <2>3, <2>4, <2>5, <2>6, <2>7
<1> QED BY <1>4, <1>5

\* place_fco over the WebSocket sends what the operation of its type sends over REST.
LEMMA ConditionalAgrees ==
  ASSUME NEW f \in Conditional,
         NEW requests \in FCOEntries(f), NEW r \in requests
  PROVE  /\ r.endpoint # "order.place"
         /\ r.endpoint = "fco.place" => \E q \in UNION RESTConditional(f) : q.body = r.body
<1>1. \A g, payload : \A q \in SignedPlaceFCO(g, payload) : q.endpoint = "fco"
  BY DEF SignedPlaceFCO, Signed, Request
<1>2. CASE requests \in RESTConditional(f)
  <2>1. \E g, payload : r \in SignedPlaceFCO(g, payload)
    BY <1>2 DEF RESTConditional, PlaceFCOGTD, PlaceFCOStop, PlaceFCOStopLimit,
                PlaceFCOTrailingStop, PlaceFCOTrailingStopLimit, PlaceFCOOCO, PlaceFCOBullBear,
                Checked
  <2> QED BY <1>1, <2>1
<1>3. ASSUME NEW type \in {"GTD", "STOP", "STOP_LIMIT", "TRAILING_STOP", "TRAILING_STOP_LIMIT",
                           "OCO", "BULL_BEAR"},
             r \in WSPlaceFCO([f EXCEPT !.type = type])
      PROVE  r.endpoint = "fco.place" /\ \E q \in UNION RESTConditional(f) : q.body = r.body
  <2> DEFINE h == [f EXCEPT !.type = type]
             body == ParamsPayload(h)
             InTime(g) == IF NoDate \notin {g.from, g.to}
                          THEN DateRange(g.from, g.to, TimeOnly, MaxFCODays)
                          ELSE \A d \in {g.from, g.to} \ {NoDate} : IsDate(d, TimeOnly)
  <2>1. r.endpoint = "fco.place" /\ r.body = body /\ InTime(h)
    BY <1>3 DEF WSPlaceFCO, BuildFCOParams, Checked, Command, Request
  <2>2. ASSUME NEW g, NEW payload, g.from = f.from, g.to = f.to, payload = body,
               SignedPlaceFCO(g, payload) \in RESTConditional(f)
        PROVE  \E q \in UNION RESTConditional(f) : q.body = r.body
    <3>1. h.from = f.from /\ h.to = f.to
      BY FieldsAssumption
    <3>2. Request("POST", "fco", TRUE, payload) \in SignedPlaceFCO(g, payload)
      BY <2>1, <2>2, <3>1 DEF SignedPlaceFCO, Signed, BuildFCOParams, Checked
    <3>3. Request("POST", "fco", TRUE, payload).body = r.body
      BY <2>1, <2>2 DEF Request
    <3> QED BY <2>2, <3>2, <3>3
  <2> HIDE DEF body, InTime
  <2>3. f.operator # None /\ DOMAIN f = {"type", "account", "symbol", "side", "quantity",
          "price", "slip", "from", "to", "tpPrice", "slPrice", "tpSlip", "slSlip", "operator"}
    BY FieldsAssumption
  <2>4. {PlaceFCOGTD(f), PlaceFCOStop(f), PlaceFCOStopLimit(f), PlaceFCOTrailingStop(f),
           PlaceFCOTrailingStopLimit(f), PlaceFCOOCO(f), PlaceFCOBullBear(f)}
          \subseteq RESTConditional(f)
    BY DEF RESTConditional
  <2>5. CASE type = "GTD"
    <3> DEFINE g == [f EXCEPT !.type = "GTD", !.slip = IF f.price.form = "word" THEN 0 ELSE @]
    <3>1. GTDPayload(g) = body
      BY <2>3, <2>5 DEF body, ParamsPayload, GTDPayload, FCOPayload, PriceAndSlip
    <3>2. SignedPlaceFCO(g, GTDPayload(g)) \in RESTConditional(f)
      <4>1. PlaceFCOGTD(f) = SignedPlaceFCO(g, GTDPayload(g))
        BY DEF PlaceFCOGTD
      <4> QED BY <2>4, <4>1
    <3>3. g.from = f.from /\ g.to = f.to
      BY <2>3
    <3> QED BY <2>1, <2>2, <3>1, <3>2, <3>3
  <2>6. CASE type = "STOP"
    <3> DEFINE g == [f EXCEPT !.type = "STOP", !.price = AtMarket.price, !.slip = 0]
    <3>1. StopPayload(g) = body
      BY <2>3, <2>6 DEF body, ParamsPayload, StopPayload, FCOPayload
    <3>2. SignedPlaceFCO(g, StopPayload(g)) \in RESTConditional(f)
      <4>1. PlaceFCOStop(f) = SignedPlaceFCO(g, StopPayload(g))
        BY <2>3 DEF PlaceFCOStop, Checked
      <4> QED BY <2>4, <4>1
    <3>3. g.from = f.from /\ g.to = f.to
      BY <2>3
    <3> QED BY <2>1, <2>2, <3>1, <3>2, <3>3
  <2>7. CASE type = "STOP_LIMIT"
    <3>1. StopPayload(h) = body
      BY <2>3, <2>7 DEF body, ParamsPayload
    <3>2. SignedPlaceFCO(h, StopPayload(h)) \in RESTConditional(f)
      <4>1. PlaceFCOStopLimit(f) = SignedPlaceFCO(h, StopPayload(h))
        BY <2>3, <2>7 DEF PlaceFCOStopLimit, Checked
      <4> QED BY <2>4, <4>1
    <3>3. h.from = f.from /\ h.to = f.to
      BY <2>3
    <3> QED BY <2>1, <2>2, <3>1, <3>2, <3>3
  <2>8. CASE type = "TRAILING_STOP"
    <3> DEFINE g == [f EXCEPT !.type = "TRAILING_STOP", !.slip = 0]
    <3>1. TrailingStopPayload(g) = body
      BY <2>3, <2>8 DEF body, ParamsPayload, TrailingStopPayload, FCOPayload
    <3>2. SignedPlaceFCO(g, TrailingStopPayload(g)) \in RESTConditional(f)
      <4>1. PlaceFCOTrailingStop(f) = SignedPlaceFCO(g, TrailingStopPayload(g))
        BY DEF PlaceFCOTrailingStop
      <4> QED BY <2>4, <4>1
    <3>3. g.from = f.from /\ g.to = f.to
      BY <2>3
    <3> QED BY <2>1, <2>2, <3>1, <3>2, <3>3
  <2>9. CASE type = "OCO"
    <3>1. OCOPayload(h) = body
      BY <2>3, <2>9 DEF body, ParamsPayload
    <3>2. SignedPlaceFCO(h, OCOPayload(h)) \in RESTConditional(f)
      <4>1. PlaceFCOOCO(f) = SignedPlaceFCO(h, OCOPayload(h))
        BY <2>9 DEF PlaceFCOOCO
      <4> QED BY <2>4, <4>1
    <3>3. h.from = f.from /\ h.to = f.to
      BY <2>3
    <3> QED BY <2>1, <2>2, <3>1, <3>2, <3>3
  <2>10. CASE type = "BULL_BEAR"
    <3>1. BullBearPayload(h) = body
      BY <2>3, <2>10 DEF body, ParamsPayload
    <3>2. SignedPlaceFCO(h, BullBearPayload(h)) \in RESTConditional(f)
      <4>1. PlaceFCOBullBear(f) = SignedPlaceFCO(h, BullBearPayload(h))
        BY <2>10 DEF PlaceFCOBullBear
      <4> QED BY <2>4, <4>1
    <3>3. h.from = f.from /\ h.to = f.to
      BY <2>3
    <3> QED BY <2>1, <2>2, <3>1, <3>2, <3>3
  <2>11. CASE type = "TRAILING_STOP_LIMIT"
    <3>1. TrailingStopPayload(h) = body
      BY <2>3, <2>11 DEF body, ParamsPayload
    <3>2. SignedPlaceFCO(h, TrailingStopPayload(h)) \in RESTConditional(f)
      <4>1. PlaceFCOTrailingStopLimit(f) = SignedPlaceFCO(h, TrailingStopPayload(h))
        BY <2>11 DEF PlaceFCOTrailingStopLimit
      <4> QED BY <2>4, <4>1
    <3>3. h.from = f.from /\ h.to = f.to
      BY <2>3
    <3> QED BY <2>1, <2>2, <3>1, <3>2, <3>3
  <2> QED BY <2>1, <2>5, <2>6, <2>7, <2>8, <2>9, <2>10, <2>11
<1> QED BY <1>2, <1>3 DEF FCOEntries

-----------------------------------------------------------------------------
(* The exchange                                                            *)

\* An order is accepted once: under its key, or because it comes once.
LEMMA AcceptOnce ==
  ASSUME NEW accepted, Booked(accepted), NEW i \in Intents, NEW body, Fits(body, i),
         Wanted[i].key = None => i \notin Intended(accepted)
  PROVE  /\ Booked(Accept(accepted, i, body))
         /\ Intended(Accept(accepted, i, body)) = Intended(accepted) \union {i}
<1>1. ASSUME NEW n \in DOMAIN accepted
      PROVE  /\ accepted[n].intent \in Intents
             /\ Fits(accepted[n].body, accepted[n].intent)
             /\ accepted[n].intent \in Intended(accepted)
  BY <1>1 DEF Booked, Intended
<1>2. CASE KeyUsed(body.key, accepted)
  <2>1. PICK n \in DOMAIN accepted : accepted[n].body.key = body.key /\ body.key # Generated
    BY <1>2 DEF KeyUsed
  <2>2. KeyOf(accepted[n].intent) = KeyOf(i) /\ KeyOf(i) # Generated
    BY <1>1, <2>1 DEF Fits
  <2>3. accepted[n].intent = i
    BY <1>1, <2>1, <2>2, KeysAssumption DEF KeyOf
  <2>4. i \in Intended(accepted)
    BY <1>1, <2>1, <2>3
  <2>5. Accept(accepted, i, body) = accepted
    BY <1>2 DEF Accept
  <2> QED BY <2>4, <2>5
<1>3. CASE ~KeyUsed(body.key, accepted)
  <2> DEFINE e == [intent |-> i, body |-> body]
             longer == Append(accepted, e)
             k == Len(accepted)
  <2>1. Accept(accepted, i, body) = longer
    BY <1>3 DEF Accept
  <2>2. PICK X : accepted \in Seq(X)
    BY DEF Booked
  <2>3. /\ k \in Nat /\ DOMAIN accepted = 1..k
        /\ longer \in Seq(X \union {e}) /\ DOMAIN longer = 1..(k + 1)
        /\ \A n \in 1..k : longer[n] = accepted[n]
        /\ longer[k + 1] = e
    BY <2>2
  <2>4. e.intent = i /\ e.body = body
    OBVIOUS
  <2> HIDE DEF longer, k, e
  <2>5. i \notin Intended(accepted)
    <3> SUFFICES ASSUME i \in Intended(accepted) PROVE FALSE
      OBVIOUS
    <3>1. PICK n \in DOMAIN accepted : accepted[n].intent = i
      BY DEF Intended
    <3>2. accepted[n].body.key = body.key
      BY <1>1, <3>1 DEF Fits
    <3>3. body.key = Generated
      BY <1>3, <3>1, <3>2 DEF KeyUsed
    <3>4. Wanted[i].key = None
      BY <3>3, KeysAssumption DEF KeyOf, Fits
    <3> QED BY <3>4
  <2>6. \A n \in 1..(k + 1) : n \in 1..k \/ n = k + 1
    BY <2>3
  <2>7. \A n \in 1..k : n \in 1..(k + 1)
    BY <2>3
  <2>8. ASSUME NEW n \in DOMAIN longer
        PROVE  longer[n].intent \in Intents /\ Fits(longer[n].body, longer[n].intent)
    BY <1>1, <2>3, <2>4, <2>6
  <2>9. ASSUME NEW m \in DOMAIN longer, NEW n \in DOMAIN longer,
               longer[m].intent = longer[n].intent
        PROVE  m = n
    <3>1. CASE m \in 1..k /\ n \in 1..k
      BY <2>3, <2>9, <3>1 DEF Booked
    <3>2. CASE m = k + 1 /\ n = k + 1
      BY <3>2
    <3>3. CASE m \in 1..k /\ n = k + 1
      BY <1>1, <2>3, <2>4, <2>5, <2>9, <3>3
    <3>4. CASE n \in 1..k /\ m = k + 1
      BY <1>1, <2>3, <2>4, <2>5, <2>9, <3>4
    <3> QED BY <2>3, <2>6, <3>1, <3>2, <3>3, <3>4
  <2>10. Intended(longer) = Intended(accepted) \union {i}
    <3>1. ASSUME NEW x, x \in Intended(longer) PROVE x \in Intended(accepted) \union {i}
      BY <3>1, <2>3, <2>4, <2>6 DEF Intended
    <3>2. ASSUME NEW x, x \in Intended(accepted) PROVE x \in Intended(longer)
      <4>1. PICK n \in 1..k : accepted[n].intent = x
        BY <3>2, <2>3 DEF Intended
      <4>2. n \in DOMAIN longer /\ longer[n].intent = x
        BY <4>1, <2>3, <2>7
      <4> QED BY <4>2 DEF Intended
    <3>3. k + 1 \in DOMAIN longer
      BY <2>3
    <3>4. i \in Intended(longer)
      BY <3>3, <2>3, <2>4 DEF Intended
    <3> QED BY <3>1, <3>2, <3>4
  <2> QED BY <2>1, <2>3, <2>8, <2>9, <2>10 DEF Booked
<1> QED BY <1>2, <1>3

\* All orders of a request are accepted, one after the other.
LEMMA HandledOrders ==
  ASSUME Booked(orders), NEW w, Carries(w.request, w.items), HandlePlace(w),
         \A i \in Range(w.items) : Wanted[i].key = None => i \notin Placed
  PROVE  Booked(orders') /\ Intended(orders') = Placed \union Range(w.items)
<1> DEFINE bodies == BodiesOf(w.request)
           items == w.items
           after[n \in 0..Len(bodies)] ==
             IF n = 0 THEN orders ELSE Accept(after[n - 1], items[n], bodies[n])
           first == Accept(orders, items[1], bodies[1])
           second == Accept(first, items[2], bodies[2])
<1>1. orders' = after[Len(bodies)]
  BY DEF HandlePlace
<1>2. PICK k \in {1, 2} :
        /\ DOMAIN items = 1..k /\ Len(bodies) = k
        /\ k = 2 => items[1] # items[2]
        /\ \A n \in 1..k : items[n] \in Intents /\ Fits(bodies[n], items[n])
  BY DEF Carries
<1> HIDE DEF bodies, items
<1>3. after = [n \in 0..k |-> IF n = 0 THEN orders ELSE Accept(after[n - 1], items[n], bodies[n])]
  <2> DEFINE known == [n \in 0..k |-> IF n = 0 THEN orders ELSE IF n = 1 THEN first ELSE second]
  <2> HIDE DEF first, second
  <2>1. \A n \in 0..k : n = 0 \/ n = 1 \/ (n = 2 /\ k = 2)
    BY <1>2
  <2>2. known[0] = orders /\ known[1] = first /\ (k = 2 => known[2] = second)
    BY <1>2
  <2>3. ASSUME NEW n \in 0..k
        PROVE  known[n] = IF n = 0 THEN orders ELSE Accept(known[n - 1], items[n], bodies[n])
    <3>1. CASE n = 0
      BY <2>2, <3>1
    <3>2. CASE n = 1
      BY <2>2, <3>2 DEF first
    <3>3. CASE n = 2 /\ k = 2
      BY <2>2, <3>3 DEF second
    <3> QED BY <2>1, <3>1, <3>2, <3>3
  <2>4. known = [n \in 0..k |->
                   IF n = 0 THEN orders ELSE Accept(known[n - 1], items[n], bodies[n])]
    BY <2>3
  <2> HIDE DEF known
  <2> QED BY <1>2, <2>4
<1> HIDE DEF after
<1>4. after[0] = orders /\ after[1] = first /\ (k = 2 => after[2] = second)
  <2>1. 0 \in 0..k /\ 1 \in 0..k /\ (k = 2 => 2 \in 0..k) /\ 1 - 1 = 0 /\ 2 - 1 = 1
    BY <1>2
  <2>2. after[0] = orders
    BY <1>3, <2>1
  <2>3. after[1] = first
    BY <1>3, <2>1, <2>2
  <2>4. k = 2 => after[2] = second
    BY <1>3, <2>1, <2>3
  <2> QED BY <2>2, <2>3, <2>4
<1>5. /\ items[1] \in Intents /\ Fits(bodies[1], items[1]) /\ items[1] \in Range(items)
      /\ k = 2 => items[2] \in Intents /\ Fits(bodies[2], items[2])
                    /\ items[2] \in Range(items)
  <2>1. 1 \in 1..k /\ (k = 2 => 2 \in 1..k)
    BY <1>2
  <2> QED BY <1>2, <2>1 DEF Range
<1>6. Booked(first) /\ Intended(first) = Placed \union {items[1]}
  <2>1. Wanted[items[1]].key = None => items[1] \notin Placed
    BY <1>5 DEF items
  <2> QED BY <1>5, <2>1, AcceptOnce DEF Placed
<1>7. CASE k = 1
  <2>1. Range(items) = {items[1]}
    BY <1>2, <1>7 DEF Range
  <2> QED BY <1>1, <1>2, <1>4, <1>6, <1>7, <2>1 DEF items
<1>8. CASE k = 2
  <2>1. Wanted[items[2]].key = None => items[2] \notin Intended(first)
    BY <1>2, <1>5, <1>6, <1>8 DEF items
  <2> HIDE DEF first
  <2>2. Booked(second) /\ Intended(second) = Intended(first) \union {items[2]}
    BY <1>5, <1>6, <1>8, <2>1, AcceptOnce
  <2>3. Range(items) = {items[1], items[2]}
    <3>1. \A n \in 1..2 : n = 1 \/ n = 2
      OBVIOUS
    <3> QED BY <1>2, <1>5, <1>8, <3>1 DEF Range
  <2> QED BY <1>1, <1>2, <1>4, <1>6, <1>8, <2>2, <2>3 DEF items
<1> QED BY <1>2, <1>7, <1>8

-----------------------------------------------------------------------------
(* The steps                                                               *)

\* A call with bad arguments changes what is known of orders that were never sent.
LEMMA RaiseStep ==
  ASSUME IInv, call = Idle, NEW items, Raise(items)
  PROVE  IInv'
<1>1. UNCHANGED <<call, wire, answers, orders>> /\ calls' = calls + 1
  BY DEF Raise
<1>2. Booked(orders') /\ CallInv' /\ Placed' = Placed
  BY <1>1 DEF IInv, CallInv, Placed, Idle
<1>3. \A k \in 1..calls : k \in 1..calls'
  BY <1>1 DEF IInv, CallInv
<1>4. WireInv' /\ AnswersInv'
  BY <1>1, <1>2, <1>3 DEF IInv, WireInv, AnswersInv
<1>5. \A i : UnderWay(i)' <=> UnderWay(i)
  BY <1>1 DEF UnderWay, For
<1>6. ToldInv'
  <2>1. \A i \in Intents : told'[i] = told[i] \/ told'[i] = "refused"
    BY DEF Raise
  <2>2. told' = [i \in Intents |-> told'[i]]
    BY DEF Raise
  <2> QED BY <1>1, <1>2, <1>5, <2>1, <2>2 DEF IInv, ToldInv
<1>7. OnceInv'
  BY <1>1, <1>2, <1>5 DEF IInv, OnceInv, For
<1> QED BY <1>2, <1>4, <1>6, <1>7 DEF IInv

\* A request goes out; one that places orders carries what may be sent.
LEMMA SendStep ==
  ASSUME IInv, call = Idle, NEW kind, NEW items, NEW request, NEW wanted,
         Send(kind, items, request, wanted),
         kind = "place" => Carries(request, items) /\ \A i \in Range(items) : MaySend(i)
  PROVE  IInv'
<1> DEFINE new == [number |-> calls + 1, items |-> items, kind |-> kind,
                   request |-> request, wanted |-> wanted]
<1>1. /\ wire' = wire \union {new} /\ calls' = calls + 1
      /\ UNCHANGED <<answers, orders, told>>
      /\ call' = [number |-> calls + 1, items |-> items, kind |-> kind]
  BY DEF Send
<1>2. /\ new.number = calls + 1 /\ new.items = items /\ new.kind = kind
      /\ new.request = request
      /\ call'.number = calls + 1 /\ call'.items = items /\ call'.kind = kind
      /\ call.kind = "none" /\ calls \in Nat
  BY <1>1 DEF Idle, IInv, CallInv
<1> HIDE DEF new
<1>3. Booked(orders') /\ CallInv' /\ Placed' = Placed
  BY <1>1, <1>2 DEF IInv, CallInv, Placed
<1>4. WireInv'
  <2>1. ASSUME NEW w \in wire
        PROVE  /\ w.number \in 1..calls' /\ w.number # call'.number
               /\ w.kind = "place" => Carries(w.request, w.items)
    BY <1>1, <1>2, <2>1 DEF IInv, WireInv
  <2>2. /\ new.number \in 1..calls' /\ new.kind = call'.kind /\ new.items = call'.items
        /\ new.kind = "place" => Carries(new.request, new.items)
    BY <1>1, <1>2
  <2> QED BY <1>1, <2>1, <2>2 DEF WireInv
<1>5. AnswersInv'
  <2>1. ASSUME NEW a \in answers PROVE a.number \in 1..calls' /\ a.number # call'.number
    BY <1>1, <1>2, <2>1 DEF IInv, AnswersInv
  <2> QED BY <1>1, <2>1 DEF AnswersInv
<1>6. \A i : For(new, i) <=> kind = "place" /\ i \in Range(items)
  BY <1>2 DEF For
<1>7. \A i : UnderWay(i)' <=> UnderWay(i) \/ For(new, i)
  BY <1>1 DEF UnderWay, For
<1>8. ToldInv'
  <2>1. ASSUME NEW i \in Intents, told'[i] = "nothing",
               ~(call'.kind = "place" /\ i \in Range(call'.items))
        PROVE  i \notin Placed' /\ ~UnderWay(i)'
    BY <1>1, <1>2, <1>3, <1>6, <1>7, <2>1 DEF IInv, ToldInv
  <2> QED BY <1>1, <1>3, <2>1 DEF IInv, ToldInv
<1>9. OnceInv'
  <2> SUFFICES ASSUME NEW i \in Intents, Wanted[i].key = None
               PROVE  /\ i \in Placed' => ~UnderWay(i)'
                      /\ \A v, w \in wire' : For(v, i)' /\ For(w, i)' => v = w
    BY DEF OnceInv
  <2>0. \A w : For(w, i)' <=> For(w, i)
    BY DEF For
  <2>1. CASE For(new, i)
    <3>1. told[i] = "nothing"
      BY <1>6, <2>1 DEF MaySend
    <3>2. i \notin Placed /\ ~UnderWay(i)
      BY <1>2, <3>1 DEF IInv, ToldInv
    <3> QED BY <1>1, <1>3, <2>0, <3>2 DEF UnderWay
  <2>2. CASE ~For(new, i)
    BY <1>1, <1>3, <1>7, <2>0, <2>2 DEF IInv, OnceInv
  <2> QED BY <2>1, <2>2
<1> QED BY <1>3, <1>4, <1>5, <1>8, <1>9 DEF IInv

\* Making a call sends its request or raises.
LEMMA MakeStep ==
  ASSUME IInv, call = Idle, NEW kind, NEW items, NEW requests, NEW wanted,
         Make(kind, items, requests, wanted),
         kind = "place" =>
           /\ \A r \in requests : Carries(r, items)
           /\ \A i \in Range(items) : MaySend(i)
  PROVE  IInv'
BY SendStep, RaiseStep DEF Make

\* The calls of the application.
LEMMA PlaceStep ==
  ASSUME IInv, NEW i \in Intents, Place(i)
  PROVE  IInv'
<1>1. PICK requests \in OrderEntries(Wanted[i]) : Make("place", <<i>>, requests, None)
  BY DEF Place
<1>2. \A r \in requests : Carries(r, <<i>>)
  BY SingleRequest, SingleWhole
<1>3. \A j \in Range(<<i>>) : MaySend(j)
  BY DEF Place, Range
<1> QED BY <1>1, <1>2, <1>3, MakeStep DEF Place, Free

LEMMA PlaceBatchStep ==
  ASSUME IInv, NEW i \in Intents, NEW j \in Intents, PlaceBatch(i, j)
  PROVE  IInv'
<1>1. PICK requests \in BatchEntries(<<Wanted[i], Wanted[j]>>) :
        Make("place", <<i, j>>, requests, None)
  BY DEF PlaceBatch
<1>2. \A r \in requests : Carries(r, <<i, j>>)
  BY BatchWhole DEF PlaceBatch
<1>3. \A k \in Range(<<i, j>>) : MaySend(k)
  BY DEF PlaceBatch, Range
<1> QED BY <1>1, <1>2, <1>3, MakeStep DEF PlaceBatch, Free

LEMMA OtherCalls ==
  ASSUME IInv, \/ \E i \in Intents : Change(i)
               \/ \E f \in Conditional : PlaceFCO(f)
               \/ \E account : Ask(account)
  PROVE  IInv'
<1>1. \E kind \in {"change", "fco", "query"} : \E items, requests, wanted :
        call = Idle /\ Make(kind, items, requests, wanted)
  BY DEF Change, PlaceFCO, Ask, Free
<1> QED BY <1>1, MakeStep

\* A request leaves the wire and is handled or lost.
LEMMA LoseStep ==
  ASSUME IInv, NEW w \in wire, Lose(w)
  PROVE  IInv'
<1>1. wire' \subseteq wire /\ UNCHANGED <<call, answers, orders, told, calls>>
  BY DEF Lose
<1>2. Placed' = Placed /\ \A i : UnderWay(i)' => UnderWay(i)
  BY <1>1 DEF Placed, UnderWay, For
<1> QED BY <1>1, <1>2 DEF IInv, CallInv, WireInv, AnswersInv, ToldInv, OnceInv, For

\* What the exchange does with a request keeps the invariant if it books it once and
\* answers for each of its orders.
LEMMA HandleStep ==
  ASSUME IInv, NEW w \in wire, Handle(w)
  PROVE  IInv'
<1>1. wire' = wire \ {w} /\ UNCHANGED <<call, told, calls>>
  BY DEF Handle
<1>2. \A v, i : For(v, i)' <=> For(v, i)
  BY DEF For
<1>3. CASE w.kind # "place"
  <2> DEFINE new == [number |-> w.number, results |-> <<>>]
  <2>1. answers' = answers \union {new} /\ orders' = orders
    BY <1>3 DEF Handle, HandleOther
  <2>2. new.number = w.number /\ w.number \in 1..calls
        /\ (w.number = call.number => call.kind # "place")
    BY <1>3 DEF IInv, WireInv
  <2> HIDE DEF new
  <2>3. Placed' = Placed /\ (\A i : UnderWay(i)' => UnderWay(i))
    BY <1>1, <1>2, <2>1 DEF Placed, UnderWay
  <2>4. AnswersInv'
    BY <1>1, <2>1, <2>2, <2>3 DEF IInv, AnswersInv
  <2> QED BY <1>1, <1>2, <2>1, <2>3, <2>4 DEF IInv, CallInv, WireInv, ToldInv, OnceInv
<1>4. CASE w.kind = "place"
  <2> DEFINE bodies == BodiesOf(w.request)
             results == Results(w, bodies)
             new == [number |-> w.number, results |-> results]
  <2>1. HandlePlace(w) /\ answers' = answers \union {new}
    BY <1>4 DEF Handle, HandlePlace
  <2>2. Carries(w.request, w.items) /\ w.number \in 1..calls
        /\ (w.number = call.number => call.items = w.items)
    BY <1>4 DEF IInv, WireInv
  <2>3. \A i : For(w, i) <=> i \in Range(w.items)
    BY <1>4 DEF For
  <2>4. \A i \in Range(w.items) : i \in Intents /\ UnderWay(i)
    BY <2>2, <2>3 DEF Carries, Range, UnderWay
  <2>5. \A i \in Range(w.items) : Wanted[i].key = None => i \notin Placed
    BY <2>4 DEF IInv, OnceInv
  <2>6. Booked(orders') /\ Placed' = Placed \union Range(w.items)
    BY <2>1, <2>2, <2>5, HandledOrders DEF IInv, Placed
  <2>7. \A i : UnderWay(i)' => UnderWay(i)
    BY <1>1, <1>2 DEF UnderWay
  <2>8. /\ new.number = w.number /\ new.results = results
        /\ DOMAIN results = DOMAIN w.items
        /\ \A n \in DOMAIN results : results[n] \in {"accepted", "duplicate"}
    BY <2>2 DEF Results, Carries
  <2> HIDE DEF new, results
  <2>9. AnswersInv'
    <3>1. ASSUME NEW a \in answers
          PROVE  /\ a.number \in 1..calls
                 /\ a.number = call.number /\ call.kind = "place" =>
                      /\ DOMAIN a.results = DOMAIN call.items
                      /\ \A n \in DOMAIN a.results : a.results[n] \in {"accepted", "duplicate"}
                      /\ Range(call.items) \subseteq Placed'
      BY <2>6, <3>1 DEF IInv, AnswersInv
    <3>2. /\ new.number \in 1..calls
          /\ new.number = call.number =>
               /\ DOMAIN new.results = DOMAIN call.items
               /\ \A n \in DOMAIN new.results : new.results[n] \in {"accepted", "duplicate"}
               /\ Range(call.items) \subseteq Placed'
      BY <2>2, <2>6, <2>8
    <3> QED BY <1>1, <2>1, <3>1, <3>2 DEF AnswersInv, Range
  <2>10. ToldInv'
    <3>1. ASSUME NEW i \in Intents, told[i] = "nothing",
                 ~(call.kind = "place" /\ i \in Range(call.items))
          PROVE  i \notin Placed' /\ ~UnderWay(i)'
      <4>1. i \notin Placed /\ ~UnderWay(i)
        BY <3>1 DEF IInv, ToldInv
      <4> QED BY <2>4, <2>6, <2>7, <4>1
    <3> QED BY <1>1, <2>6, <3>1 DEF IInv, ToldInv, Range
  <2>11. OnceInv'
    <3> SUFFICES ASSUME NEW i \in Intents, Wanted[i].key = None
                 PROVE  /\ i \in Placed' => ~UnderWay(i)'
                        /\ \A u, v \in wire' : For(u, i) /\ For(v, i) => u = v
      BY <1>2 DEF OnceInv
    <3>1. \A u, v \in wire : For(u, i) /\ For(v, i) => u = v
      BY DEF IInv, OnceInv
    <3>2. ASSUME i \in Range(w.items) PROVE ~UnderWay(i)'
      BY <1>1, <1>2, <2>3, <3>1, <3>2 DEF UnderWay
    <3>3. ASSUME i \in Placed PROVE ~UnderWay(i)'
      BY <2>7, <3>3 DEF IInv, OnceInv
    <3> QED BY <1>1, <2>6, <3>1, <3>2, <3>3
  <2>12. WireInv' /\ CallInv'
    BY <1>1 DEF IInv, WireInv, CallInv
  <2> QED BY <2>6, <2>9, <2>10, <2>11, <2>12 DEF IInv
<1> QED BY <1>3, <1>4

\* The answer tells of every order of the call.
LEMMA AnsweredStep ==
  ASSUME IInv, NEW a \in answers, Answered(a)
  PROVE  IInv'
<1>1. /\ a.number = call.number /\ call' = Idle /\ answers' \subseteq answers
      /\ UNCHANGED <<wire, orders, calls>>
  BY DEF Answered
<1>2. /\ Placed' = Placed /\ \A v, i : For(v, i)' <=> For(v, i)
      /\ \A i : UnderWay(i)' <=> UnderWay(i)
      /\ call'.number = 0 /\ call'.kind = "none"
  BY <1>1 DEF Placed, UnderWay, For, Idle
<1>3. CallInv' /\ WireInv' /\ AnswersInv' /\ OnceInv'
  BY <1>1, <1>2 DEF IInv, CallInv, WireInv, AnswersInv, OnceInv
<1>4. ToldInv'
  <2>0. /\ told' = [i \in Intents |-> told'[i]]
        /\ \A i \in Intents :
             told'[i] = IF call.kind = "place" /\ \E n \in DOMAIN a.results : call.items[n] = i
                        THEN a.results[CHOOSE n \in DOMAIN a.results : call.items[n] = i]
                        ELSE told[i]
    BY DEF Answered
  <2>1. ASSUME NEW i \in Intents, call.kind = "place", i \in Range(call.items)
        PROVE  told'[i] \in {"accepted", "duplicate"} /\ i \in Placed
    <3>1. /\ DOMAIN a.results = DOMAIN call.items
          /\ \A n \in DOMAIN a.results : a.results[n] \in {"accepted", "duplicate"}
          /\ Range(call.items) \subseteq Placed
      BY <1>1, <2>1 DEF IInv, AnswersInv
    <3>2. \E n \in DOMAIN a.results : call.items[n] = i
      BY <2>1, <3>1 DEF Range
    <3> DEFINE n == CHOOSE n \in DOMAIN a.results : call.items[n] = i
    <3>3. n \in DOMAIN a.results
      BY <3>2
    <3>4. told'[i] = a.results[n]
      BY <2>0, <2>1, <3>2
    <3> QED BY <2>1, <3>1, <3>3, <3>4
  <2>2. ASSUME NEW i \in Intents, ~(call.kind = "place" /\ i \in Range(call.items))
        PROVE  told'[i] = told[i]
    <3>1. call.kind = "place" => DOMAIN a.results = DOMAIN call.items
      BY <1>1 DEF IInv, AnswersInv
    <3> QED BY <2>0, <2>2, <3>1 DEF Range
  <2> QED BY <1>1, <1>2, <2>0, <2>1, <2>2 DEF IInv, ToldInv
<1> QED BY <1>1, <1>3, <1>4 DEF IInv

\* After a timeout nothing is known of the orders of the call.
LEMMA TimeOutStep == IInv /\ TimeOut => IInv'
<1> SUFFICES ASSUME IInv, TimeOut PROVE IInv'
  OBVIOUS
<1>1. call' = Idle /\ answers' \subseteq answers /\ UNCHANGED <<wire, orders, calls>>
  BY DEF TimeOut
<1>2. /\ Placed' = Placed /\ \A v, i : For(v, i)' <=> For(v, i)
      /\ \A i : UnderWay(i)' <=> UnderWay(i)
      /\ call'.number = 0 /\ call'.kind = "none"
  BY <1>1 DEF Placed, UnderWay, For, Idle
<1>3. CallInv' /\ WireInv' /\ AnswersInv' /\ OnceInv'
  BY <1>1, <1>2 DEF IInv, CallInv, WireInv, AnswersInv, OnceInv
<1>4. ToldInv'
  <2>1. /\ told' = [i \in Intents |-> told'[i]]
        /\ \A i \in Intents :
             told'[i] = IF call.kind = "place" /\ i \in Range(call.items)
                        THEN "unknown" ELSE told[i]
    BY DEF TimeOut, Range
  <2> QED BY <1>2, <2>1 DEF IInv, ToldInv
<1> QED BY <1>1, <1>3, <1>4 DEF IInv

LEMMA InitIInv == Init => IInv
<1> SUFFICES ASSUME Init PROVE IInv
  OBVIOUS
<1>1. /\ call = Idle /\ wire = {} /\ answers = {} /\ orders = <<>> /\ calls = 0
      /\ told = [i \in Intents |-> "nothing"]
  BY DEF Init
<1>2. Booked(orders) /\ Placed = {}
  <2>1. orders \in Seq({}) /\ DOMAIN orders = {}
    BY <1>1
  <2> QED BY <2>1 DEF Booked, Placed, Intended
<1> QED BY <1>1, <1>2 DEF IInv, CallInv, WireInv, AnswersInv, ToldInv, OnceInv, UnderWay, For

LEMMA NextIInv == IInv /\ [Next]_vars => IInv'
<1> SUFFICES ASSUME IInv, [Next]_vars PROVE IInv'
  OBVIOUS
<1>1. CASE UNCHANGED vars
  <2>1. UNCHANGED <<call, wire, answers, orders, told, calls>>
    BY <1>1 DEF vars
  <2>2. Placed' = Placed /\ (\A v, i : For(v, i)' <=> For(v, i))
        /\ (\A i : UnderWay(i)' <=> UnderWay(i))
    BY <2>1 DEF Placed, For, UnderWay
  <2> QED BY <2>1, <2>2 DEF IInv, CallInv, WireInv, AnswersInv, ToldInv, OnceInv, Range
<1>2. CASE Next
  BY <1>2, PlaceStep, PlaceBatchStep, OtherCalls, HandleStep, LoseStep, AnsweredStep,
     TimeOutStep DEF Next
<1> QED BY <1>1, <1>2

LEMMA AlwaysIInv == Spec => []IInv
BY InitIInv, NextIInv, PTL DEF Spec

-----------------------------------------------------------------------------
(* The types                                                               *)

Moves ==
  /\ call.number \in 0..MaxCalls /\ call.kind \in Kinds /\ call.items \in Seq(Intents)
  /\ \A w \in wire : w.number \in 1..MaxCalls /\ w.kind \in Kinds /\ w.items \in Seq(Intents)
  /\ \A a \in answers : a.number \in 1..MaxCalls
  /\ told \in [Intents -> {"nothing", "unknown", "accepted", "duplicate", "refused"}]
  /\ calls \in 0..MaxCalls

LEMMA MakeMoves ==
  ASSUME Moves, Free, NEW kind \in Kinds, NEW items \in Seq(Intents), NEW requests, NEW wanted,
         Make(kind, items, requests, wanted)
  PROVE  Moves'
<1>1. calls + 1 \in 1..MaxCalls
  BY OrdersAssumption DEF Moves, Free
<1>2. CASE \E r \in requests : Send(kind, items, r, wanted)
  <2>1. PICK r \in requests : Send(kind, items, r, wanted)
    BY <1>2
  <2> DEFINE w == [number |-> calls + 1, items |-> items, kind |-> kind, request |-> r,
                   wanted |-> wanted]
  <2>2. wire' = wire \union {w} /\ UNCHANGED <<answers, told>> /\ calls' = calls + 1
        /\ call'.number = calls + 1 /\ call'.items = items /\ call'.kind = kind
    BY <2>1 DEF Send
  <2>3. w.number = calls + 1 /\ w.items = items /\ w.kind = kind
    OBVIOUS
  <2> QED BY <1>1, <2>2, <2>3 DEF Moves
<1>3. CASE Raise({items[n] : n \in DOMAIN items})
  BY <1>1, <1>3 DEF Raise, Moves
<1> QED BY <1>2, <1>3 DEF Make

LEMMA NextMoves == IInv /\ Moves /\ [Next]_vars => Moves'
<1> SUFFICES ASSUME IInv, Moves, [Next]_vars PROVE Moves'
  OBVIOUS
<1>1. Kinds = {"none", "place", "change", "fco", "query"}
  BY DEF Kinds
<1>2. ASSUME NEW i \in Intents, NEW j \in Intents, Place(i) \/ PlaceBatch(i, j) \/ Change(i)
      PROVE  Moves'
  <2>1. <<i>> \in Seq(Intents) /\ <<i, j>> \in Seq(Intents)
    OBVIOUS
  <2>2. CASE Place(i)
    <3>1. PICK r \in OrderEntries(Wanted[i]) : Make("place", <<i>>, r, None)
      BY <2>2 DEF Place
    <3> QED BY <1>1, <2>1, <2>2, <3>1, MakeMoves DEF Place
  <2>3. CASE PlaceBatch(i, j)
    <3>1. PICK r \in BatchEntries(<<Wanted[i], Wanted[j]>>) : Make("place", <<i, j>>, r, None)
      BY <2>3 DEF PlaceBatch
    <3> QED BY <1>1, <2>1, <2>3, <3>1, MakeMoves DEF PlaceBatch
  <2>4. CASE Change(i)
    <3>1. PICK c : \E r \in ChangeEntries(c) : Make("change", <<i>>, r, None)
      BY <2>4 DEF Change
    <3>2. PICK r \in ChangeEntries(c) : Make("change", <<i>>, r, None)
      BY <3>1
    <3> QED BY <1>1, <2>1, <2>4, <3>2, MakeMoves DEF Change
  <2> QED BY <1>2, <2>2, <2>3, <2>4
<1>3. ASSUME NEW f, NEW account, PlaceFCO(f) \/ Ask(account) PROVE Moves'
  <2>1. <<>> \in Seq(Intents)
    OBVIOUS
  <2>2. CASE PlaceFCO(f)
    <3>1. PICK r \in FCOEntries(f) : Make("fco", <<>>, r, f)
      BY <2>2 DEF PlaceFCO
    <3> QED BY <1>1, <2>1, <2>2, <3>1, MakeMoves DEF PlaceFCO
  <2>3. CASE Ask(account)
    <3>1. PICK r \in AccountQueries(account) \union FCOQueries(account, "fco") :
            Make("query", <<>>, r, None)
      BY <2>3 DEF Ask
    <3> QED BY <1>1, <2>1, <2>3, <3>1, MakeMoves DEF Ask
  <2> QED BY <1>3, <2>2, <2>3
<1>4. ASSUME NEW w \in wire, Handle(w) \/ Lose(w) PROVE Moves'
  <2>1. w.number \in 1..MaxCalls
    BY DEF Moves
  <2>2. /\ wire' \subseteq wire /\ UNCHANGED <<call, told, calls>>
        /\ \A a \in answers' : a \in answers \/ a.number = w.number
    BY <1>4 DEF Handle, HandlePlace, HandleOther, Lose
  <2> QED BY <2>1, <2>2 DEF Moves
<1>5. Idle.number \in 0..MaxCalls /\ Idle.kind \in Kinds /\ Idle.items \in Seq(Intents)
  BY OrdersAssumption DEF Idle, Kinds
<1>6. ASSUME NEW a \in answers, Answered(a) PROVE Moves'
  <2>1. /\ call' = Idle /\ answers' \subseteq answers /\ UNCHANGED <<wire, calls>>
        /\ told' = [i \in Intents |->
                      IF call.kind = "place" /\ \E n \in DOMAIN a.results : call.items[n] = i
                      THEN a.results[CHOOSE n \in DOMAIN a.results : call.items[n] = i]
                      ELSE told[i]]
        /\ a.number = call.number
    BY <1>6 DEF Answered
  <2>2. ASSUME call.kind = "place", NEW n \in DOMAIN a.results
        PROVE  a.results[n] \in {"accepted", "duplicate"}
    BY <2>1, <2>2 DEF IInv, AnswersInv
  <2>3. ASSUME NEW i \in Intents
        PROVE  told'[i] \in {"nothing", "unknown", "accepted", "duplicate", "refused"}
    <3>1. CASE call.kind = "place" /\ \E n \in DOMAIN a.results : call.items[n] = i
      BY <2>1, <2>2, <3>1
    <3>2. CASE ~(call.kind = "place" /\ \E n \in DOMAIN a.results : call.items[n] = i)
      BY <2>1, <3>2 DEF Moves
    <3> QED BY <3>1, <3>2
  <2>4. told' = [i \in Intents |-> told'[i]]
    BY <2>1
  <2>5. told' \in [Intents -> {"nothing", "unknown", "accepted", "duplicate", "refused"}]
    BY <2>3, <2>4
  <2> QED BY <1>5, <2>1, <2>5 DEF Moves
<1>7. CASE TimeOut
  BY <1>5, <1>7 DEF TimeOut, Moves
<1>8. CASE UNCHANGED vars
  BY <1>8 DEF vars, Moves
<1> QED BY <1>2, <1>3, <1>4, <1>6, <1>7, <1>8 DEF Next

\* Every part of the state keeps its type, and every order the exchange accepts is for
\* a positive number of securities, whatever the application asked for.
THEOREM TypeCorrect == Spec => []TypeOK
<1>1. Init => Moves
  BY OrdersAssumption DEF Init, Moves, Idle, Kinds
<1>2. Spec => []Moves
  BY <1>1, NextMoves, AlwaysIInv, PTL DEF Spec
<1>3. IInv /\ Moves => TypeOK
  BY DEF IInv, Booked, Fits, Moves, TypeOK
<1> QED BY <1>2, <1>3, AlwaysIInv, PTL

-----------------------------------------------------------------------------
\* An application that repeats an order of unknown fate under its own key has it
\* executed once, over whichever entry points and however often.
THEOREM ExecutedOnce == Spec => []OneOrderPerIntent
<1>1. IInv => OneOrderPerIntent
  BY DEF IInv, Booked, OneOrderPerIntent
<1> QED BY <1>1, AlwaysIInv, PTL

\* What the exchange accepts is an order of the application, as it is wanted: its
\* account, symbol, side and quantity, which is positive, and its key.
AsWanted == \A n \in DOMAIN orders : Fits(orders[n].body, orders[n].intent)

THEOREM BookedAsWanted == Spec => []AsWanted
<1>1. IInv => AsWanted
  BY DEF IInv, Booked, AsWanted
<1> QED BY <1>1, AlwaysIInv, PTL

\* An order that is reported a duplicate, or accepted, is at the exchange.
THEOREM DuplicatesArePlaced == Spec => []DuplicateMeansPlaced
<1>1. IInv => DuplicateMeansPlaced
  BY DEF IInv, ToldInv, Placed, Intended, DuplicateMeansPlaced, NumbersOf
<1> QED BY <1>1, AlwaysIInv, PTL

\* A batch goes out with all of its orders.
THEOREM BatchesAreWhole == Spec => []SentWhole
<1>1. IInv => SentWhole
  BY DEF IInv, WireInv, Carries, SentWhole
<1> QED BY <1>1, AlwaysIInv, PTL

\* What goes out over the WebSocket is what REST would have sent.
THEOREM BothRoutesAgree == Spec => []RoutesAgree
<1>1. Init => RoutesAgree
  BY DEF Init, RoutesAgree
<1>2. ASSUME RoutesAgree, [Next]_vars PROVE RoutesAgree'
  <2> DEFINE Agrees(w) ==
        /\ w.request.endpoint = "order.place" =>
             \E r \in PlaceOrder(Wanted[w.items[1]]) : r.body = w.request.body
        /\ w.request.endpoint = "fco.place" =>
             \E r \in UNION RESTConditional(w.wanted) : r.body = w.request.body
  <2>1. \A w \in wire : Agrees(w)
    BY <1>2 DEF RoutesAgree
  <2>2. CASE wire' \subseteq wire
    BY <2>1, <2>2 DEF RoutesAgree
  <2>3. ASSUME NEW kind, NEW items, NEW requests, NEW wanted,
               Make(kind, items, requests, wanted),
               \A r \in requests :
                 /\ r.endpoint = "order.place" =>
                      \E q \in PlaceOrder(Wanted[items[1]]) : q.body = r.body
                 /\ r.endpoint = "fco.place" =>
                      \E q \in UNION RESTConditional(wanted) : q.body = r.body
        PROVE  RoutesAgree'
    <3>1. CASE wire' = wire
      BY <2>2, <3>1
    <3>2. CASE wire' # wire
      <4>1. PICK r \in requests : Send(kind, items, r, wanted)
        BY <2>3, <3>2 DEF Make, Raise
      <4> DEFINE new == [number |-> calls + 1, items |-> items, kind |-> kind,
                         request |-> r, wanted |-> wanted]
      <4>2. wire' = wire \union {new}
        BY <4>1 DEF Send
      <4>3. new.items = items /\ new.request = r /\ new.wanted = wanted
        OBVIOUS
      <4> HIDE DEF new
      <4>4. Agrees(new)
        BY <2>3, <4>3
      <4> QED BY <2>1, <4>2, <4>4 DEF RoutesAgree
    <3> QED BY <3>1, <3>2
  <2>4. ASSUME NEW i \in Intents, Place(i) PROVE RoutesAgree'
    <3>1. PICK requests \in OrderEntries(Wanted[i]) : Make("place", <<i>>, requests, None)
      BY <2>4 DEF Place
    <3>2. <<i>>[1] = i
      OBVIOUS
    <3>3. \A r \in requests : r.endpoint # "fco.place"
      BY SingleRequest
    <3> QED BY <2>3, <3>1, <3>2, <3>3, SingleRequest
  <2>5. ASSUME NEW kind, NEW items, NEW requests, NEW wanted,
               Make(kind, items, requests, wanted), \A r \in requests : r.endpoint \notin Reserved
        PROVE  RoutesAgree'
    <3>1. \A r \in requests : r.endpoint # "order.place" /\ r.endpoint # "fco.place"
      BY <2>5 DEF Reserved
    <3> QED BY <2>3, <2>5, <3>1
  <2>6. ASSUME NEW i \in Intents, NEW j \in Intents, PlaceBatch(i, j) PROVE RoutesAgree'
    <3>1. PICK requests \in BatchEntries(<<Wanted[i], Wanted[j]>>) :
            Make("place", <<i, j>>, requests, None)
      BY <2>6 DEF PlaceBatch
    <3>2. \A r \in requests : r.endpoint \notin Reserved
      BY <2>6, BatchWhole DEF PlaceBatch, Reserved
    <3> QED BY <2>5, <3>1, <3>2
  <2>7. ASSUME NEW i \in Intents, Change(i) PROVE RoutesAgree'
    <3>1. PICK c : \E requests \in ChangeEntries(c) : Make("change", <<i>>, requests, None)
      BY <2>7 DEF Change
    <3>2. PICK requests \in ChangeEntries(c) : Make("change", <<i>>, requests, None)
      BY <3>1
    <3> QED BY <2>5, <3>2, ChangeEndpoints
  <2>8. ASSUME NEW f \in Conditional, PlaceFCO(f) PROVE RoutesAgree'
    <3>1. PICK requests \in FCOEntries(f) : Make("fco", <<>>, requests, f)
      BY <2>8 DEF PlaceFCO
    <3> QED BY <2>3, <3>1, ConditionalAgrees
  <2>9. ASSUME NEW account, Ask(account) PROVE RoutesAgree'
    <3>1. PICK requests \in AccountQueries(account) \union FCOQueries(account, "fco") :
            Make("query", <<>>, requests, None)
      BY <2>9 DEF Ask
    <3> QED BY <2>5, <3>1, QueryEndpoints
  <2>10. ASSUME (\E w \in wire : Handle(w) \/ Lose(w)) \/ (\E a \in answers : Answered(a))
                \/ TimeOut \/ UNCHANGED vars
         PROVE  wire' \subseteq wire
    BY <2>10 DEF Handle, Lose, Answered, TimeOut, vars
  <2> QED BY <1>2, <2>2, <2>4, <2>6, <2>7, <2>8, <2>9, <2>10 DEF Next
<1>3. RoutesAgree /\ [Next]_vars => RoutesAgree'
  BY <1>2
<1> QED BY <1>1, <1>3, PTL DEF Spec

-----------------------------------------------------------------------------
(* Market data: no request for bars is one the server refuses              *)

QueryFields == {"endpoint", "filter", "from", "to", "page", "size"}

\* A query for bars has full timestamps.
Timed(query) ==
  /\ DOMAIN query = QueryFields
  /\ query.endpoint = "ohlc" => query.from.layout \notin DayOnly /\ query.to.layout \notin DayOnly

\* The call under way asks what was timed if its range has no unpadded day, and
\* asks on in the same way.
LoopInv ==
  /\ DOMAIN loop = {"state", "rule", "query", "pages", "got", "due", "still", "range"}
  /\ loop.state = "fetch" => DOMAIN loop.query = QueryFields
  /\ loop.state = "fetch" /\ Padded(loop.range) => Timed(loop.query)

\* Whatever is given for the ends of the range, but for an unpadded day.
LEMMA BarsTimed ==
  ASSUME NEW symbol, NEW timeframe, NEW from, NEW to, NEW page, NEW size, NEW date,
         NEW query \in BuildOHLCParams(symbol, timeframe, from, to, page, size, date)
  PROVE  /\ DOMAIN query = QueryFields
         /\ "unpadded" \notin {from.layout, to.layout} => Timed(query)
<1> DEFINE start == OrToday(from, date)
           end == OrToday(to, date)
           Due(d) == d.layout \notin DayOnly
<1>0. "unpadded" # from.layout => "unpadded" # start.layout
  BY DEF OrToday, Date
<1>00. "unpadded" # to.layout => "unpadded" # end.layout
  BY DEF OrToday, Date
<1>1. \A d : "unpadded" # d.layout => Due(WithTime(d))
  BY DEF WithTime, Date, DayOnly
<1>2. \A t, f, d, n : Due(d) => Due(ClampFutureEnd(t, f, d, n))
  BY DEF ClampFutureEnd, Date, DayOnly
<1>3. \E f, p, s :
        query \in Get("ohlc", f, WithTime(start),
                    ClampFutureEnd(timeframe, WithTime(start),
                                          WithTime(end), date), p, s)
  BY DEF BuildOHLCParams, Checked
<1> QED BY <1>0, <1>00, <1>1, <1>2, <1>3 DEF Get, Timed, QueryFields

\* No other query is one for bars.
LEMMA OthersTimed ==
  ASSUME NEW endpoint, endpoint # "ohlc", NEW f, NEW from, NEW to, NEW page, NEW size,
         NEW query \in Get(endpoint, f, from, to, page, size)
  PROVE  Timed(query)
BY DEF Get, Timed, QueryFields

LEMMA BarQueries ==
  ASSUME NEW symbol, NEW range, NEW requests \in OHLCQueries(symbol, range),
         NEW query \in requests
  PROVE  /\ DOMAIN query = QueryFields
         /\ Padded(range) => Timed(query)
<1>0. "unpadded" # NoDate.layout
  BY DEF NoDate, Date
<1>1. CASE \E timeframe : requests = OHLCToday(symbol, timeframe, today)
  BY <1>0, <1>1, BarsTimed DEF OHLCToday
<1>2. CASE \E timeframe, page, size :
             requests = OHLCBetween(symbol, timeframe, range[1], range[2], page, size, today)
  BY <1>2, BarsTimed DEF OHLCBetween, Checked, Padded
<1>3. requests # {}
  OBVIOUS
<1> QED
  BY <1>1, <1>2, <1>3
  DEF OHLCQueries, DownloadOHLC1Minute, DownloadOHLC1Day,
      GetOHLC1WeekHistorical, GetOHLC1MonthHistorical,
      GetOHLC1Minute, GetOHLC3Minute, GetOHLC5Minute,
      GetOHLC15Minute, GetOHLC1Hour, GetOHLC1MinuteHistorical,
      GetOHLC3MinuteHistorical, GetOHLC5MinuteHistorical,
      GetOHLC15MinuteHistorical, GetOHLC1HourHistorical,
      GetOHLC1DayHistorical

\* A query for anything else.
Other(requests) ==
  \A query \in requests : \E endpoint, f, from, to, page, size :
    endpoint # "ohlc" /\ query \in Get(endpoint, f, from, to, page, size)

LEMMA OtherQueries ==
  ASSUME NEW symbol, NEW range
  PROVE  /\ \A requests \in IndexQueries(symbol, range) : Other(requests)
         /\ \A requests \in PortfolioQueries(symbol, range) : Other(requests)
<1>1. \A f : Other(Lookup("indexes", f)) /\ Other(Lookup("securities", f))
             /\ Other(Lookup("balance", f)) /\ Other(Lookup("positions", f))
             /\ Other(Lookup("ppmmr", f))
  BY DEF Lookup, Other
<1>2. \A f, date : Other(IndexSummary(f, date))
  BY DEF IndexSummary, Checked, Other
<1>3. \A f : Other(Indexes(f)) /\ Other(SecuritiesInfo(f))
  BY <1>1 DEF Indexes, SecuritiesInfo, Checked, Other
<1>4. \A ok, requests : Other(requests) => Other(Checked(ok, requests))
  BY DEF Other, Checked
<1>5. \A account, from, to : Other(BuildOrderBookParams(account, from, to))
  BY DEF BuildOrderBookParams, Other
<1>6. \A account :
        /\ Other(OfAccount("balance", account))
        /\ Other(OfAccount("positions", account))
        /\ Other(OfAccount("ppmmr", account))
  BY <1>1, <1>4 DEF OfAccount
<1>7. \A requests \in IndexQueries(symbol, range) : Other(requests)
  BY <1>2, <1>3, <1>4
  DEF IndexQueries, GetIndexes, GetIndexesByBoard, GetIndexSummary,
      GetIndexSummaryHistorical, GetBoardSummary, GetBoardSummaryHistorical,
      GetSecuritiesInfo, GetSecuritiesInfoByIndex, GetSecuritiesInfoByBoard
<1>8. \A requests \in PortfolioQueries(symbol, range) : Other(requests)
  BY <1>4, <1>5, <1>6
  DEF PortfolioQueries, GetEquityBalance, GetDerivativeBalance,
      GetEquityPositions, GetDerivativePositions,
      GetOpenDerivativePositions, GetClosedDerivativePositions,
      GetEquityPPMMR, GetDerivativePPMMR, GetTodayOrders,
      GetHistoricalOrders
<1> QED BY <1>7, <1>8

LEMMA ListQueries ==
  /\ \A f, from, to, page, size :
       Other(BuildSecuritiesSummaryParams(f, from, to, page, size))
  /\ \A from, to, page : Other(BuildMasterDataParams(from, to, page))
  /\ \A from, to, symbol, language, page :
       Other(BuildCorporateActionsParams(from, to, symbol, language, page))
BY DEF BuildSecuritiesSummaryParams, BuildMasterDataParams,
       BuildCorporateActionsParams, Checked, Other

\* A call begins with a query that is timed, unless its range has an unpadded day.
LEMMA BeginsTimed ==
  ASSUME LoopInv, NEW rule, NEW requests, NEW range,
         \A query \in requests : /\ DOMAIN query = QueryFields
                                 /\ Padded(range) => Timed(query),
         Begin(rule, requests, range)
  PROVE  LoopInv'
<1>1. CASE \E query \in requests : Start(rule, query, range)
  BY <1>1 DEF Start, LoopInv, Timed, Padded
<1>2. CASE UNCHANGED loop
  BY <1>2 DEF LoopInv, Timed, Padded
<1> QED BY <1>1, <1>2 DEF Begin

LEMMA OtherTimed ==
  \A requests : Other(requests)
    => \A query \in requests : DOMAIN query = QueryFields /\ Timed(query)
BY OthersTimed DEF Other, Timed

LEMMA NextTimed == LoopInv /\ [MarketNext]_marketVars => LoopInv'
<1> SUFFICES ASSUME LoopInv, [MarketNext]_marketVars PROVE LoopInv'
  OBVIOUS
<1>1. ASSUME NEW s, NEW r, AllOHLC(s, r) PROVE LoopInv'
  <2>1. PICK timeframe, size :
          Begin("short", IterOHLC(s, timeframe, r, FirstPage, size), r)
    BY <1>1 DEF AllOHLC
  <2>2. \A query \in IterOHLC(s, timeframe, r, FirstPage, size) :
          DOMAIN query = QueryFields /\ (Padded(r) => Timed(query))
    BY BarsTimed DEF IterOHLC, Checked, Padded
  <2> QED BY <2>1, <2>2, BeginsTimed
<1>2. ASSUME NEW s, NEW r, OnePage(s, r) PROVE LoopInv'
  <2>1. PICK requests \in OHLCQueries(s, r) \union IndexQueries(s, r)
                            \union PortfolioQueries(s, r) :
          Begin("one", requests, r)
    BY <1>2 DEF OnePage
  <2>2. \A query \in requests : DOMAIN query = QueryFields /\ (Padded(r) => Timed(query))
    BY BarQueries, OtherQueries, OtherTimed
  <2> QED BY <2>1, <2>2, BeginsTimed
<1>3. ASSUME NEW s, NEW r, Summaries(s, r) PROVE LoopInv'
  <2>1. PICK requests : Other(requests) /\ Begin("first", requests, r)
    <3>1. \A ok, f, from, to : Other(Checked(ok, SummaryFrom(f, from, to)))
      BY ListQueries DEF SummaryFrom, Checked, Other
    <3> QED BY <1>3, <3>1
        DEF Summaries, GetSecuritiesSummary, GetSecuritiesSummaryByIndex,
            GetSecuritiesSummaryHistorical, GetSecuritiesSummaryByIndexHistorical
  <2> QED BY <2>1, OtherTimed, BeginsTimed
<1>4. ASSUME NEW s, NEW r, Listings(s, r) PROVE LoopInv'
  <2>1. PICK requests : Other(requests) /\ Begin("last", requests, r)
    <3>1. \A ok, from, to, page :
            Other(Checked(ok, BuildMasterDataParams(from, to, page)))
      BY ListQueries DEF Checked, Other
    <3> QED BY <1>4, <3>1, ListQueries
        DEF Listings, GetMasterData, GetMasterDataHistorical,
            GetCorporateActions, GetCorporateActionsHistorical
  <2> QED BY <2>1, OtherTimed, BeginsTimed
<1>5. CASE Fetch
  <2>1. ASSUME NEW page, NEW query \in Further(page)
        PROVE  DOMAIN query = QueryFields /\ (Padded(loop.range) => Timed(query))
    <3>1. CASE loop.rule = "short"
      BY <2>1, <3>1, BarsTimed DEF Further, IterOHLC, Checked, Padded
    <3>2. CASE loop.rule # "short"
      <4>1. /\ query = [loop.query EXCEPT !.page = page] /\ DOMAIN loop.query = QueryFields
            /\ Padded(loop.range) => Timed(loop.query)
        BY <1>5, <2>1, <3>2 DEF Further, Fetch, LoopInv
      <4> QED BY <4>1 DEF Timed, QueryFields
    <3> QED BY <3>1, <3>2
  <2> DEFINE page == PageOf(loop.query)
             pages == IF loop.rule = "first" /\ loop.pages > 0 THEN loop.pages
                      ELSE PagesCount(loop.query)
             read == [loop EXCEPT !.got = @ \union page, !.pages = pages]
  <2>2. \/ loop' = [read EXCEPT !.state = "done"]
        \/ \E query \in Further(NextPage(loop.query.page)) :
             loop' = [read EXCEPT !.query = query]
    BY <1>5 DEF Fetch
  <2>3. DOMAIN read = DOMAIN loop /\ (LoopInv => read.range = loop.range)
    BY DEF LoopInv
  <2> HIDE DEF read
  <2>4. CASE loop' = [read EXCEPT !.state = "done"]
    BY <2>3, <2>4 DEF LoopInv
  <2>5. ASSUME NEW query \in Further(NextPage(loop.query.page)),
               loop' = [read EXCEPT !.query = query]
        PROVE  LoopInv'
    <3>1. DOMAIN query = QueryFields /\ (Padded(loop.range) => Timed(query))
      BY <2>1
    <3>2. DOMAIN loop' = DOMAIN loop /\ loop'.query = query /\ loop'.range = loop.range
      BY <2>3, <2>5 DEF LoopInv
    <3> QED BY <3>1, <3>2 DEF LoopInv, Timed, Padded
  <2> QED BY <2>2, <2>4, <2>5
<1>6. CASE AddRow
  BY <1>6 DEF AddRow, LoopInv, Timed, Padded
<1>7. CASE Midnight \/ UNCHANGED marketVars
  BY <1>7 DEF Midnight, marketVars, LoopInv, Timed, Padded
<1>8. CASE Refused
  BY <1>8 DEF Refused, LoopInv, Done
<1> QED BY <1>1, <1>2, <1>3, <1>4, <1>5, <1>6, <1>7, <1>8 DEF MarketNext

\* Whatever range is given for bars, with a time, with days of two digits or not at
\* all, and however the clock and the rows change while the pages are fetched, no
\* request is one the server refuses.
THEOREM BarsAreNeverRefused == MarketSpec => []NeverRefused
<1>1. MarketInit => LoopInv
  BY DEF MarketInit, Done, LoopInv
<1>2. LoopInv => NeverRefused
  BY DEF LoopInv, Timed, NeverRefused, Refuses
<1> QED BY <1>1, <1>2, NextTimed, PTL DEF MarketSpec

-----------------------------------------------------------------------------
(* Market data: ranks, the numbers 1, 2, ... of the rows of an answer      *)

UpTo(n, A, down) == {m \in A : IF down THEN m >= n ELSE m <= n}

LEMMA RankIsPlace ==
  ASSUME NEW A \in SUBSET Nat, IsFiniteSet(A), NEW down \in BOOLEAN, NEW n \in A
  PROVE  /\ IsFiniteSet(UpTo(n, A, down))
         /\ Rank(n, A, down) = Cardinality(UpTo(n, A, down))
         /\ Rank(n, A, down) \in 1 .. Cardinality(A)
<1>1. UpTo(n, A, down) \in SUBSET A /\ n \in UpTo(n, A, down)
  BY DEF UpTo
<1>2. IsFiniteSet(UpTo(n, A, down)) /\ Cardinality(UpTo(n, A, down)) <= Cardinality(A)
  BY <1>1, FS_Subset
<1>3. Cardinality(UpTo(n, A, down)) \in Nat /\ Cardinality(UpTo(n, A, down)) # 0
  BY <1>1, <1>2, FS_CardinalityType, FS_EmptySet
<1>4. Rank(n, A, down) = Cardinality(UpTo(n, A, down))
  BY DEF Rank, UpTo
<1>5. Cardinality(A) \in Nat
  BY FS_CardinalityType
<1> QED BY <1>2, <1>3, <1>4, <1>5

LEMMA RanksDiffer ==
  ASSUME NEW A \in SUBSET Nat, IsFiniteSet(A), NEW down \in BOOLEAN,
         NEW n \in A, NEW m \in A, Rank(n, A, down) = Rank(m, A, down)
  PROVE  n = m
<1>1. ASSUME NEW x \in A, NEW y \in A, x \in UpTo(y, A, down), x # y
      PROVE  Rank(x, A, down) # Rank(y, A, down)
  <2>1. UpTo(x, A, down) \in SUBSET UpTo(y, A, down) /\ y \notin UpTo(x, A, down)
    <3>1. x \in Nat /\ y \in Nat /\ A \subseteq Nat
      OBVIOUS
    <3>2. CASE down
      <4>1. UpTo(x, A, down) = {k \in A : k >= x} /\ UpTo(y, A, down) = {k \in A : k >= y}
        BY <3>2 DEF UpTo
      <4>2. x > y
        BY <1>1, <3>1, <4>1
      <4>3. (\A k \in A : k >= x => k >= y) /\ ~(y >= x)
        BY <3>1, <4>2
      <4> QED BY <4>1, <4>3
    <3>3. CASE ~down
      <4>1. UpTo(x, A, down) = {k \in A : k <= x} /\ UpTo(y, A, down) = {k \in A : k <= y}
        BY <3>3 DEF UpTo
      <4>2. x < y
        BY <1>1, <3>1, <4>1
      <4>3. (\A k \in A : k <= x => k <= y) /\ ~(y <= x)
        BY <3>1, <4>2
      <4> QED BY <4>1, <4>3
    <3> QED BY <3>2, <3>3
  <2>2. y \in UpTo(y, A, down)
    BY DEF UpTo
  <2> QED BY <2>1, <2>2, RankIsPlace, FS_Subset
<1>2. n \in UpTo(m, A, down) \/ m \in UpTo(n, A, down)
  BY DEF UpTo
<1> QED BY <1>1, <1>2

LEMMA RanksFill ==
  ASSUME NEW A \in SUBSET Nat, IsFiniteSet(A), NEW down \in BOOLEAN,
         NEW k \in 1 .. Cardinality(A)
  PROVE  \E n \in A : Rank(n, A, down) = k
<1> DEFINE f == [n \in A |-> Rank(n, A, down)]
           S == 1 .. Cardinality(A)
<1>1. f \in [A -> S]
  BY RankIsPlace
<1>2. f \in Injection(A, S)
  BY <1>1, RanksDiffer DEF Injection, IsInjective
<1>3. IsFiniteSet(S) /\ Cardinality(S) = Cardinality(A)
  BY FS_CardinalityType, FS_Interval
<1>4. f \in Surjection(A, S)
  <2> HIDE DEF f, S
  <2> QED BY <1>2, <1>3, FS_Injection
<1> QED BY <1>4 DEF Surjection

\* A page in front of a member of the set is full.
LEMMA PageIsFull ==
  ASSUME NEW A \in SUBSET Nat, IsFiniteSet(A), NEW down \in BOOLEAN,
         NEW before \in Nat, NEW size \in Nat,
         NEW n \in A, Rank(n, A, down) > before + size
  PROVE  Cardinality({m \in A : Rank(m, A, down) \in before + 1 .. before + size}) = size
<1> DEFINE P == {m \in A : Rank(m, A, down) \in before + 1 .. before + size}
           S == before + 1 .. before + size
           f == [m \in P |-> Rank(m, A, down)]
<1>1. f \in Injection(P, S)
  BY RanksDiffer DEF Injection, IsInjective
<1>2. f \in Surjection(P, S)
  <2>1. Cardinality(A) \in Nat /\ Rank(n, A, down) <= Cardinality(A)
    BY RankIsPlace, FS_CardinalityType
  <2>2. S \subseteq 1 .. Cardinality(A)
    BY <2>1, RankIsPlace
  <2>3. \A k \in S : \E m \in P : f[m] = k
    BY <2>2, RanksFill
  <2>4. f \in [P -> S]
    OBVIOUS
  <2> QED BY <2>3, <2>4 DEF Surjection
<1>3. IsFiniteSet(S) /\ Cardinality(S) = size
  BY FS_Interval
<1> HIDE DEF P, S, f
<1>4. Cardinality(P) = Cardinality(S)
  BY <1>1, <1>2, <1>3, FS_Injection
<1> QED BY <1>3, <1>4 DEF P, S

\* More members never lower a rank, and leave it alone if they come behind.
LEMMA RankGrows ==
  ASSUME NEW B \in SUBSET Nat, IsFiniteSet(B), NEW A \in SUBSET B, NEW down \in BOOLEAN,
         NEW n \in A
  PROVE  /\ Rank(n, A, down) <= Rank(n, B, down)
         /\ ~down /\ (\A m \in B \ A : m > n) => Rank(n, A, down) = Rank(n, B, down)
<1>1. IsFiniteSet(A) /\ UpTo(n, A, down) \in SUBSET UpTo(n, B, down)
  BY FS_Subset DEF UpTo
<1>2. Rank(n, A, down) <= Rank(n, B, down)
  BY <1>1, RankIsPlace, FS_Subset
<1>3. ASSUME ~down, \A m \in B \ A : m > n
      PROVE  UpTo(n, A, down) = UpTo(n, B, down)
  <2>1. UpTo(n, A, down) = {m \in A : m <= n} /\ UpTo(n, B, down) = {m \in B : m <= n}
    BY <1>3 DEF UpTo
  <2>2. \A m \in B \ A : ~(m <= n)
    BY <1>3
  <2> QED BY <2>1, <2>2
<1> QED BY <1>1, <1>2, <1>3, RankIsPlace

\* As many pages as are counted hold the whole answer.
LEMMA PagesHold ==
  ASSUME NEW c \in Nat, NEW size \in Nat \ {0}
  PROVE  /\ (c + size - 1) \div size \in Int
         /\ c <= ((c + size - 1) \div size) * size
OBVIOUS

-----------------------------------------------------------------------------
(* Market data: no row of a range is left out                              *)

\* No row is of a day to come.
RowsInv ==
  /\ today \in Int /\ newest \in BOOLEAN
  /\ rows \in Seq(Int)
  /\ \A n \in DOMAIN rows : rows[n] <= today

\* A call that pages, for a range of its own.
PagesThrough == loop.rule # "one" /\ NoDate \notin {loop.range[1], loop.range[2]}

\* What it asks: bars by the rule of short pages, within the range given.
QueryInv ==
  /\ loop.rule \in {"short", "first", "last"}
  /\ loop.query.page \in Nat \ {0} /\ loop.query.size \in Nat \ {0} /\ loop.pages \in Int
  /\ loop.query.from.day \in Int /\ loop.query.to.day \in Int
  /\ loop.query.endpoint = "ohlc" <=> loop.rule = "short"
  /\ loop.rule = "short" =>
       /\ loop.range[1].day \in Int /\ loop.range[2].day \in Int
       /\ loop.query.from.day = loop.range[1].day
       /\ loop.query.to.day <= loop.range[2].day

RankOf(n) == Rank(n, Answers(loop.query), NewestFirst(loop.query))

\* What is due is in the answer; what is in front of the page asked for was
\* got; and the count that was read once still covers what is due.
DueInv ==
  /\ loop.due \subseteq Answers(loop.query)
  /\ \A n \in loop.due : RankOf(n) <= (loop.query.page - 1) * loop.query.size => n \in loop.got
  /\ loop.rule = "first" /\ loop.pages > 0 /\ (loop.still \/ ~newest)
       => \A n \in loop.due : RankOf(n) <= loop.pages * loop.query.size

PagesInv ==
  /\ LoopInv
  /\ RowsInv
  /\ loop.state = "fetch" /\ PagesThrough => QueryInv /\ DueInv
  /\ PagesComplete

LEMMA AnswersAreRows ==
  ASSUME RowsInv, NEW query
  PROVE  /\ Answers(query) \in SUBSET Nat /\ IsFiniteSet(Answers(query))
         /\ Answers(query) \subseteq DOMAIN rows
         /\ NewestFirst(query) \in BOOLEAN
<1>1. DOMAIN rows = 1 .. Len(rows) /\ Len(rows) \in Nat
  BY DEF RowsInv
<1>2. IsFiniteSet(DOMAIN rows)
  BY <1>1, FS_Interval
<1>3. Answers(query) \subseteq DOMAIN rows
  BY DEF Answers, Matching
<1> QED BY <1>1, <1>2, <1>3, FS_Subset DEF NewestFirst, RowsInv

\* Bars asked for now: of the range, or up to today.
LEMMA BarsAsked ==
  ASSUME NEW symbol, NEW timeframe, NEW range, NoDate \notin {range[1], range[2]},
         NEW page, NEW size,
         NEW query \in IterOHLC(symbol, timeframe, range, page, size)
  PROVE  /\ query.endpoint = "ohlc" /\ query.filter.timeframe = timeframe
         /\ query.page = page /\ query.size = size /\ size > 0
         /\ query.from.day = range[1].day
         /\ query.to.day = IF timeframe # "1d" /\ range[2].day > today /\ today >= range[1].day
                           THEN today ELSE range[2].day
<1>1. query \in BuildOHLCParams(symbol, timeframe, range[1], range[2], page, size, today)
      /\ size > 0
  BY DEF IterOHLC, Checked, CheckPageSize
<1>3. \A d : WithTime(d).day = d.day
  BY DEF WithTime, Date
<1>4. \A d : d # NoDate => OrToday(d, today) = d
  BY DEF OrToday
<1> DEFINE from == WithTime(range[1])
           to   == ClampFutureEnd(timeframe, from, WithTime(range[2]), today)
           filter == [Symbol(symbol) EXCEPT !.timeframe = timeframe]
<1>5. query \in Get("ohlc", filter, from, to, page, size)
  BY <1>1, <1>4 DEF BuildOHLCParams, Checked
<1>6. to.day = IF timeframe # "1d" /\ range[2].day > today /\ today >= range[1].day
               THEN today ELSE range[2].day
  BY <1>3 DEF ClampFutureEnd, Date
<1>7. filter.timeframe = timeframe
  BY DEF Symbol, NoFilter
<1>8. from.day = range[1].day
  BY <1>3
<1> HIDE DEF from, to, filter
<1>9. query = [endpoint |-> "ohlc", filter |-> filter, from |-> from, to |-> to,
                page |-> page, size |-> size]
  BY <1>5 DEF Get
<1> QED BY <1>1, <1>6, <1>7, <1>8, <1>9

\* They are answered with every row of the range.
InRange(range) == {n \in DOMAIN rows : range[1].day <= rows[n] /\ rows[n] <= range[2].day}

LEMMA BarsAnswered ==
  ASSUME RowsInv, NEW symbol, NEW timeframe, NEW range, NoDate \notin {range[1], range[2]},
         range[1].day \in Int, range[2].day \in Int, NEW page, NEW size,
         NEW query \in IterOHLC(symbol, timeframe, range, page, size)
  PROVE  /\ Answers(query) = InRange(range) /\ Matching(query) = InRange(range)
         /\ query.to.day \in Int /\ query.to.day <= range[2].day
<1>1. /\ query.endpoint = "ohlc" /\ query.filter.timeframe = timeframe
      /\ query.from.day = range[1].day
      /\ query.to.day = IF timeframe # "1d" /\ range[2].day > today /\ today >= range[1].day
                        THEN today ELSE range[2].day
  BY BarsAsked
<1>2. today \in Int /\ \A n \in DOMAIN rows : rows[n] \in Int /\ rows[n] <= today
  BY DEF RowsInv
<1>4. query.to.day \in Int /\ query.to.day <= range[2].day
  BY <1>1, <1>2
<1>5. Matching(query) = InRange(range)
  BY <1>1, <1>2 DEF Matching, InRange
<1>6. CASE timeframe # "1d" /\ query.to.day > today
  <2>1. range[1].day > today
    BY <1>1, <1>2, <1>6
  <2>2. InRange(range) = {}
    BY <1>2, <2>1 DEF InRange
  <2> QED BY <1>4, <1>5, <2>2 DEF Answers
<1>7. CASE ~(timeframe # "1d" /\ query.to.day > today)
  BY <1>1, <1>4, <1>5, <1>7 DEF Answers
<1> QED BY <1>6, <1>7

\* The first page of a call that pages.
Opening(rule, query, range) ==
  /\ rule \in {"short", "first", "last"}
  /\ query.page = 1 /\ query.size \in Nat \ {0}
  /\ query.from.day \in Int /\ query.to.day \in Int
  /\ query.endpoint = "ohlc" <=> rule = "short"
  /\ rule = "short" =>
       /\ range[1].day \in Int /\ range[2].day \in Int
       /\ query.from.day = range[1].day /\ query.to.day <= range[2].day
  /\ Matching(query) \subseteq Answers(query)

LEMMA BarsOpen ==
  ASSUME RowsInv, NEW symbol, NEW timeframe, NEW range \in Ranges,
         NoDate \notin {range[1], range[2]}, NEW size \in Sizes,
         NEW query \in IterOHLC(symbol, timeframe, range, FirstPage, size)
  PROVE  Opening("short", query, range)
<1>1. range[1].day \in Int /\ range[2].day \in Int /\ size \in Int
  BY MarketAssumption
<1>2. /\ query.endpoint = "ohlc" /\ query.page = FirstPage /\ query.size = size /\ size > 0
      /\ query.from.day = range[1].day
  BY BarsAsked
<1>3. /\ Answers(query) = InRange(range) /\ Matching(query) = InRange(range)
      /\ query.to.day \in Int /\ query.to.day <= range[2].day
  BY <1>1, BarsAnswered
<1> QED BY <1>1, <1>2, <1>3 DEF Opening, FirstPage

LEMMA ListsOpen ==
  ASSUME NEW rule \in {"first", "last"}, NEW endpoint, endpoint # "ohlc", NEW f,
         NEW from, NEW to, from.day \in Int, to.day \in Int, NEW size \in Nat \ {0}, NEW range,
         NEW query \in Get(endpoint, f, from, to, FirstPage, size)
  PROVE  Opening(rule, query, range)
<1>1. query = [endpoint |-> endpoint, filter |-> f, from |-> from, to |-> to,
               page |-> FirstPage, size |-> size]
  BY DEF Get
<1>2. query.endpoint # "ohlc"
  BY <1>1
<1>3. Answers(query) = Matching(query)
  BY <1>2 DEF Answers
<1> QED BY <1>1, <1>2, <1>3 DEF Opening, FirstPage

\* What the two kinds of lists ask for first.
LEMMA SummariesOpen ==
  ASSUME RowsInv, NEW s, NEW r \in Ranges, Summaries(s, r)
  PROVE  \E requests : /\ Begin("first", requests, r)
                       /\ \A query \in requests : Opening("first", query, r)
<1> DEFINE Opens(requests) == \A query \in requests : Opening("first", query, r)
<1>1. \A ok, requests : Opens(requests) => Opens(Checked(ok, requests))
  BY DEF Checked
<1>2. ASSUME NEW f, NEW from, NEW to, from.day \in Int, to.day \in Int
      PROVE  Opens(SummaryFrom(f, from, to))
  <2>1. Opens(Get("summary", f, from, to, FirstPage, DefaultSize))
    BY <1>2, ListsOpen, MarketAssumption
  <2> HIDE DEF Opens
  <2> QED BY <1>1, <2>1 DEF SummaryFrom, BuildSecuritiesSummaryParams
<1>3. /\ Date("day", today).day \in Int
      /\ r[1].day \in Int /\ r[2].day \in Int
  BY MarketAssumption DEF RowsInv, Date
<1> HIDE DEF Opens
<1>4. /\ Opens(GetSecuritiesSummary(s, today, today))
      /\ Opens(GetSecuritiesSummaryByIndex(s, today, today))
      /\ Opens(GetSecuritiesSummaryHistorical(s, r[1], r[2]))
      /\ Opens(GetSecuritiesSummaryByIndexHistorical(s, r[1], r[2]))
  BY <1>1, <1>2, <1>3 DEF GetSecuritiesSummary, GetSecuritiesSummaryByIndex,
     GetSecuritiesSummaryHistorical, GetSecuritiesSummaryByIndexHistorical
<1>5. PICK requests : Begin("first", requests, r) /\ Opens(requests)
  BY <1>4 DEF Summaries
<1> QED BY <1>5 DEF Opens

LEMMA ListingsOpen ==
  ASSUME RowsInv, NEW s, NEW r \in Ranges, Listings(s, r)
  PROVE  \E requests : /\ Begin("last", requests, r)
                       /\ \A query \in requests : Opening("last", query, r)
<1> DEFINE Opens(requests) == \A query \in requests : Opening("last", query, r)
<1>1. \A ok, requests : Opens(requests) => Opens(Checked(ok, requests))
  BY DEF Checked
<1>2. ASSUME NEW from, NEW to, from.day \in Int, to.day \in Int, NEW symbol, NEW language
      PROVE  /\ Opens(BuildMasterDataParams(from, to, FirstPage))
             /\ Opens(BuildCorporateActionsParams(from, to, symbol, language, FirstPage))
  <2>1. /\ Opens(Get("master", NoFilter, from, to, FirstPage, DefaultSize))
        /\ Opens(Get("corporate", Symbol(symbol), from, to, FirstPage, LargestPage))
    BY <1>2, ListsOpen, MarketAssumption
  <2> HIDE DEF Opens
  <2> QED BY <1>1, <2>1 DEF BuildMasterDataParams, BuildCorporateActionsParams
<1>3. /\ Date("day", today).day \in Int
      /\ r[1].day \in Int /\ r[2].day \in Int
  BY MarketAssumption DEF RowsInv, Date
<1> HIDE DEF Opens
<1>4. /\ Opens(GetMasterData(today)) /\ Opens(GetMasterDataHistorical(r[1], r[2]))
      /\ Opens(GetCorporateActions(s, "vn", today))
      /\ Opens(GetCorporateActionsHistorical(r[1], r[2], s, "en"))
  BY <1>1, <1>2, <1>3 DEF GetMasterData, GetMasterDataHistorical, GetCorporateActions,
     GetCorporateActionsHistorical
<1>5. PICK requests : Begin("last", requests, r) /\ Opens(requests)
  BY <1>4 DEF Listings
<1> QED BY <1>5 DEF Opens

\* A call that begins has nothing to have got.
LEMMA BeginsComplete ==
  ASSUME PagesInv, LoopInv', NEW rule, NEW requests, NEW range, Begin(rule, requests, range),
         \/ rule = "one" \/ NoDate \in {range[1], range[2]}
         \/ \A query \in requests : Opening(rule, query, range)
  PROVE  PagesInv'
<1>1. UNCHANGED <<today, rows, newest>> /\ RowsInv'
  BY DEF Begin, PagesInv, RowsInv
<1>2. CASE UNCHANGED loop
  <2>1. UNCHANGED <<PagesThrough, QueryInv, DueInv, PagesComplete>>
    BY <1>1, <1>2 DEF PagesThrough, QueryInv, DueInv, PagesComplete, RankOf, Rank, Answers,
       Matching, NewestFirst
  <2> QED BY <1>1, <1>2, <2>1 DEF PagesInv
<1>3. ASSUME NEW query \in requests, Start(rule, query, range) PROVE PagesInv'
  <2>1. loop' = [state |-> "fetch", rule |-> rule, query |-> query, pages |-> 0,
                 got |-> {}, due |-> Matching(query), still |-> TRUE, range |-> range]
    BY <1>3 DEF Start
  <2>2. PagesComplete'
    BY <2>1 DEF PagesComplete
  <2>3. ASSUME PagesThrough' PROVE QueryInv' /\ DueInv'
    <3>1. Opening(rule, query, range)
      BY <2>1, <2>3 DEF PagesThrough
    <3>2. QueryInv'
      BY <2>1, <3>1 DEF QueryInv, Opening
    <3>3. Answers(loop.query)' = Answers(query) /\ NewestFirst(loop.query)' = NewestFirst(query)
      BY <1>1, <2>1 DEF Answers, Matching, NewestFirst
    <3>4. \A n \in Matching(query) : n \in Answers(query) /\ Rank(n, Answers(query), NewestFirst(query)) >= 1
      BY <3>1, AnswersAreRows, RankIsPlace DEF Opening, PagesInv
    <3>5. (query.page - 1) * query.size = 0
      BY <3>1 DEF Opening
    <3>6. \A n : RankOf(n)' = Rank(n, Answers(query), NewestFirst(query))
      BY <3>3 DEF RankOf
    <3>7. \A n \in Matching(query) : ~(RankOf(n)' <= 0)
      BY <3>4, <3>6, AnswersAreRows, RankIsPlace DEF PagesInv
    <3> QED BY <2>1, <3>2, <3>3, <3>4, <3>5, <3>7 DEF DueInv
  <2> QED BY <1>1, <2>2, <2>3 DEF PagesInv
<1> QED BY <1>2, <1>3 DEF Begin

\* One round: what is due up to the end of its page is got, the last page of
\* each rule leaves nothing due behind it, and a page that follows is of an
\* answer that has lost no row.
LEMMA FetchComplete ==
  ASSUME PagesInv, LoopInv', Fetch
  PROVE  PagesInv'
<1> DEFINE q == loop.query
           A == Answers(q)
           down == NewestFirst(q)
           page == PageOf(q)
           pages == IF loop.rule = "first" /\ loop.pages > 0 THEN loop.pages ELSE PagesCount(q)
           got == loop.got \union page
           read == [loop EXCEPT !.got = @ \union page, !.pages = pages]
<1>1. UNCHANGED <<today, rows, newest>> /\ RowsInv /\ RowsInv' /\ loop.state = "fetch"
  BY DEF Fetch, PagesInv, RowsInv
<1>2. \/ Ended(page, pages) /\ loop' = [read EXCEPT !.state = "done"]
      \/ \E query \in Further(NextPage(q.page)) : loop' = [read EXCEPT !.query = query]
  BY DEF Fetch
<1>3. /\ loop'.rule = loop.rule /\ loop'.range = loop.range /\ loop'.due = loop.due
      /\ loop'.still = loop.still /\ loop'.got = got /\ loop'.pages = pages
  BY <1>2 DEF PagesInv, LoopInv
<1>4. CASE ~PagesThrough
  BY <1>1, <1>3, <1>4 DEF PagesThrough, PagesInv, PagesComplete
<1>5. CASE PagesThrough
  <2>1. QueryInv /\ DueInv
    BY <1>1, <1>5 DEF PagesInv
  <2>2. A \in SUBSET Nat /\ IsFiniteSet(A) /\ down \in BOOLEAN /\ Cardinality(A) \in Nat
    BY <1>1, AnswersAreRows, FS_CardinalityType
  <2>3. q.page \in Nat \ {0} /\ q.size \in Nat \ {0} /\ loop.pages \in Int
    BY <2>1 DEF QueryInv
  <2>4. \A n \in loop.due : /\ n \in A /\ RankOf(n) = Rank(n, A, down)
                            /\ RankOf(n) \in 1 .. Cardinality(A)
    BY <2>1, <2>2, RankIsPlace DEF DueInv, RankOf
  <2> DEFINE before == (q.page - 1) * q.size
  <2>5. before \in Nat /\ before + q.size = q.page * q.size
    BY <2>3
  <2>6. page = {n \in A : Rank(n, A, down) \in before + 1 .. before + q.size}
    BY DEF PageOf
  <2> HIDE DEF A, down, page, before
  <2>7. ASSUME NEW n \in loop.due, RankOf(n) <= q.page * q.size
        PROVE  n \in got
    <3>1. CASE RankOf(n) <= before
      BY <2>1, <3>1 DEF DueInv, before
    <3>2. CASE ~(RankOf(n) <= before)
      <4>1. RankOf(n) \in before + 1 .. before + q.size
        BY <2>4, <2>5, <2>7, <3>2, <2>3
      <4> QED BY <2>4, <2>6, <4>1
    <3> QED BY <3>1, <3>2
  <2>8. ASSUME loop.rule # "short", loop.rule = "first" => loop.still \/ ~newest,
               NEW n \in loop.due
        PROVE  pages \in Int /\ RankOf(n) <= pages * q.size
    <3>1. CASE loop.rule = "first" /\ loop.pages > 0
      BY <2>1, <2>3, <2>8, <3>1 DEF DueInv
    <3>2. CASE ~(loop.rule = "first" /\ loop.pages > 0)
      <4>1. pages = (Cardinality(A) + q.size - 1) \div q.size
        BY <3>2 DEF PagesCount, A
      <4>2. pages \in Int /\ Cardinality(A) <= pages * q.size
        BY <2>2, <2>3, <4>1, PagesHold
      <4> HIDE DEF pages
      <4>3. pages * q.size \in Int
        BY <2>3, <4>2
      <4> QED BY <2>2, <2>4, <4>2, <4>3
    <3> QED BY <3>1, <3>2
  <2>9. pages \in Int
    BY <2>2, <2>3, PagesHold DEF PagesCount, A
  <2> HIDE DEF pages
  <2>10. ASSUME NEW n \in loop.due, Cardinality(page) < q.size PROVE n \in got
    <3>1. ~(Rank(n, A, down) > before + q.size)
      <4>1. n \in A /\ q.size \in Nat /\ Cardinality(page) # q.size
        BY <2>3, <2>4, <2>10
      <4> HIDE DEF q
      <4> QED BY <2>2, <2>5, <2>6, <4>1, PageIsFull
    <3> QED BY <2>4, <2>5, <2>7, <3>1, <2>3
  <2>11. CASE Ended(page, pages) /\ loop' = [read EXCEPT !.state = "done"]
    <3>1. ASSUME loop.rule = "first" => loop.still \/ ~newest, NEW n \in loop.due
          PROVE  n \in got
      <4>1. CASE Cardinality(page) < q.size
        BY <2>10, <4>1
      <4>2. CASE page = {}
        BY <2>3, <2>10, <4>2, FS_EmptySet
      <4>3. CASE loop.rule # "short" /\ LastPage(q.page, pages)
        <5>1. q.page >= pages /\ RankOf(n) <= pages * q.size
          BY <2>8, <3>1, <4>3 DEF LastPage
        <5>2. pages * q.size <= q.page * q.size
          BY <2>3, <2>9, <5>1
        <5>3. pages * q.size \in Int /\ q.page * q.size \in Int
          BY <2>3, <2>9
        <5> QED BY <2>4, <2>7, <5>1, <5>2, <5>3
      <4>4. \/ loop.rule = "short" /\ ShortPage(page, q.size)
            \/ loop.rule # "short" /\ (LastPage(q.page, pages) \/ page = {})
        BY <2>1, <2>11 DEF Ended, QueryInv
      <4> QED BY <4>1, <4>2, <4>3, <4>4 DEF ShortPage
    <3>2. PagesComplete'
      BY <1>1, <1>3, <3>1 DEF PagesComplete
    <3>3. loop'.state = "done"
      BY <2>11 DEF PagesInv, LoopInv
    <3> QED BY <1>1, <3>2, <3>3 DEF PagesInv
  <2>12. ASSUME NEW query \in Further(NextPage(q.page)), loop' = [read EXCEPT !.query = query]
         PROVE  PagesInv'
    <3>1. loop'.query = query /\ loop'.state = "fetch"
      BY <1>1, <2>12 DEF PagesInv, LoopInv
    <3>2. /\ query.page = q.page + 1 /\ query.size = q.size /\ query.endpoint = q.endpoint
          /\ query.from.day = q.from.day /\ query.to.day \in Int
          /\ loop.rule = "short" => query.to.day <= loop.range[2].day
          /\ NewestFirst(query) = down
          /\ A \subseteq Answers(query) /\ (loop.rule # "short" => A = Answers(query))
      <4>1. CASE loop.rule = "short"
        <5>1. /\ loop.range[1].day \in Int /\ loop.range[2].day \in Int
              /\ q.from.day = loop.range[1].day /\ q.to.day <= loop.range[2].day
              /\ q.endpoint = "ohlc" /\ q.to.day \in Int
          BY <2>1, <4>1 DEF QueryInv
        <5>2. query \in IterOHLC(q.filter.symbol, q.filter.timeframe, loop.range, q.page + 1, q.size)
          BY <4>1 DEF Further, NextPage
        <5>3. NoDate \notin {loop.range[1], loop.range[2]}
          BY <1>5 DEF PagesThrough
        <5>4. /\ query.endpoint = "ohlc" /\ query.page = q.page + 1 /\ query.size = q.size
              /\ query.from.day = loop.range[1].day
          BY <5>2, <5>3, BarsAsked
        <5>5. /\ Answers(query) = InRange(loop.range)
              /\ query.to.day \in Int /\ query.to.day <= loop.range[2].day
          BY <1>1, <5>1, <5>2, <5>3, BarsAnswered
        <5>6. A \subseteq InRange(loop.range)
          BY <1>1, <5>1 DEF A, Answers, Matching, InRange, RowsInv
        <5> QED BY <4>1, <5>1, <5>4, <5>5, <5>6 DEF NewestFirst, down
      <4>2. CASE loop.rule # "short"
        <5>1. query = [q EXCEPT !.page = q.page + 1]
          BY <4>2 DEF Further, NextPage
        <5>2. DOMAIN q = QueryFields
          BY <1>1 DEF PagesInv, LoopInv
        <5>3. /\ query.page = q.page + 1 /\ query.size = q.size /\ query.endpoint = q.endpoint
              /\ query.from = q.from /\ query.to = q.to /\ query.filter = q.filter
          BY <5>1, <5>2 DEF QueryFields
        <5>4. A = Answers(query) /\ NewestFirst(query) = down
          BY <5>3 DEF A, Answers, Matching, NewestFirst, down
        <5> QED BY <2>1, <4>2, <5>3, <5>4 DEF QueryInv
      <4> QED BY <4>1, <4>2
    <3>3. QueryInv'
      BY <1>3, <2>1, <2>3, <2>9, <3>1, <3>2 DEF QueryInv
    <3>4. Answers(loop.query)' = Answers(query) /\ NewestFirst(loop.query)' = down
      BY <1>1, <3>1, <3>2 DEF Answers, Matching, NewestFirst
    <3>5. ASSUME NEW n \in loop.due
          PROVE  /\ RankOf(n)' = Rank(n, Answers(query), down)
                 /\ RankOf(n)' \in Int /\ RankOf(n) <= RankOf(n)'
                 /\ loop.rule # "short" => RankOf(n)' = RankOf(n)
      <4>1. RankOf(n)' = Rank(n, Answers(query), down)
        BY <3>4 DEF RankOf
      <4>2. Answers(query) \in SUBSET Nat /\ IsFiniteSet(Answers(query))
        BY <1>1, AnswersAreRows
      <4>3. n \in Answers(query) /\ n \in A
        BY <2>4, <3>2
      <4>4. Rank(n, Answers(query), down) \in Int
        BY <2>2, <4>2, <4>3, RankIsPlace
      <4>5. Rank(n, A, down) <= Rank(n, Answers(query), down)
        BY <2>2, <3>2, <4>2, <4>3, RankGrows
      <4> QED BY <2>4, <3>2, <4>1, <4>4, <4>5
    <3>6. loop'.due \subseteq Answers(loop.query)'
      BY <1>3, <2>4, <3>2, <3>4
    <3>7. ASSUME NEW n \in loop.due, RankOf(n)' <= (query.page - 1) * query.size
          PROVE  n \in got
      <4>1. RankOf(n)' <= q.page * q.size /\ q.page * q.size \in Int
        BY <2>3, <3>2, <3>7
      <4>2. RankOf(n) <= q.page * q.size
        BY <2>4, <3>5, <4>1
      <4> QED BY <2>7, <4>2
    <3>8. ASSUME loop.rule = "first", loop.still \/ ~newest, NEW n \in loop.due
          PROVE  RankOf(n)' <= pages * query.size
      BY <2>8, <3>2, <3>5, <3>8
    <3>9. DueInv'
      BY <1>1, <1>3, <3>1, <3>6, <3>7, <3>8 DEF DueInv
    <3>10. PagesComplete'
      BY <3>1 DEF PagesComplete
    <3> QED BY <1>1, <3>3, <3>9, <3>10 DEF PagesInv
  <2> QED BY <1>2, <2>11, <2>12
<1> QED BY <1>4, <1>5

\* A new row comes behind the others or in front of them.
LEMMA AddRowComplete ==
  ASSUME PagesInv, LoopInv', AddRow
  PROVE  PagesInv'
<1> DEFINE A == Answers(loop.query)
           down == NewestFirst(loop.query)
           last == Len(rows) + 1
<1>1. rows \in Seq(Int) /\ today \in Int /\ UNCHANGED <<today, newest>> /\ newest \in BOOLEAN
  BY DEF AddRow, PagesInv, RowsInv
<1>2. /\ rows' \in Seq(Int) /\ DOMAIN rows' = DOMAIN rows \union {last}
      /\ rows'[last] = today /\ \A n \in DOMAIN rows : n < last /\ rows'[n] = rows[n]
  BY <1>1 DEF AddRow
<1>3. RowsInv'
  <2>1. \A n \in DOMAIN rows' : rows'[n] <= today
    BY <1>1, <1>2 DEF PagesInv, RowsInv
  <2> QED BY <1>1, <1>2, <2>1 DEF RowsInv
<1>4. /\ loop'.state = loop.state /\ loop'.rule = loop.rule /\ loop'.query = loop.query
      /\ loop'.pages = loop.pages /\ loop'.got = loop.got /\ loop'.due = loop.due
      /\ loop'.range = loop.range /\ loop'.still = FALSE
  BY DEF AddRow, PagesInv, LoopInv
<1>5. PagesComplete'
  BY <1>1, <1>4 DEF PagesInv, PagesComplete
<1>6. ASSUME loop.state = "fetch", PagesThrough PROVE QueryInv' /\ DueInv'
  <2>1. QueryInv /\ DueInv
    BY <1>6 DEF PagesInv
  <2>2. QueryInv'
    BY <1>4, <2>1 DEF QueryInv
  <2>3. /\ A \subseteq Answers(loop.query)' /\ \A n \in Answers(loop.query)' \ A : n = last
        /\ NewestFirst(loop.query)' = down
    BY <1>1, <1>2, <1>4 DEF Answers, Matching, NewestFirst
  <2>4. A \subseteq DOMAIN rows /\ down \in BOOLEAN
    BY AnswersAreRows DEF PagesInv
  <2>5. Answers(loop.query)' \in SUBSET Nat /\ IsFiniteSet(Answers(loop.query)')
    <3>1. Answers(loop.query)' \subseteq DOMAIN rows'
      BY DEF Answers, Matching
    <3>2. DOMAIN rows = 1 .. Len(rows) /\ Len(rows) \in Nat
      BY <1>1
    <3>3. DOMAIN rows' \subseteq Nat /\ IsFiniteSet(DOMAIN rows')
      <4>1. IsFiniteSet(DOMAIN rows) /\ DOMAIN rows \subseteq Nat /\ last \in Nat
        BY <3>2, FS_Interval
      <4> HIDE DEF last
      <4>2. IsFiniteSet(DOMAIN rows \union {last})
        BY <4>1, FS_AddElement
      <4> QED BY <1>2, <4>1, <4>2
    <3> QED BY <3>1, <3>3, FS_Subset
  <2> HIDE DEF A, down
  <2>6. ASSUME NEW n \in loop.due
        PROVE  /\ n \in A /\ RankOf(n) \in Int /\ RankOf(n)' \in Int /\ RankOf(n) <= RankOf(n)'
               /\ ~down => RankOf(n)' = RankOf(n)
    <3>1. n \in A /\ RankOf(n) = Rank(n, A, down)
      BY <2>1 DEF DueInv, RankOf, A, down
    <3>2. RankOf(n)' = Rank(n, Answers(loop.query)', down)
      BY <2>3 DEF RankOf, Rank
    <3>3. \A m \in Answers(loop.query)' \ A : m > n
      BY <1>2, <2>3, <2>4, <2>5, <3>1
    <3>4. IsFiniteSet(A) /\ A \in SUBSET Nat
      BY <2>3, <2>5, FS_Subset
    <3>5. Rank(n, A, down) \in Int /\ Rank(n, Answers(loop.query)', down) \in Int
      BY <2>3, <2>4, <2>5, <3>1, <3>4, RankIsPlace
    <3> QED BY <2>3, <2>4, <2>5, <3>1, <3>2, <3>3, <3>5, RankGrows
  <2>7. (loop.query.page - 1) * loop.query.size \in Int
    BY <2>1 DEF QueryInv
  <2>8. ASSUME NEW n \in loop.due, RankOf(n)' <= (loop.query.page - 1) * loop.query.size
        PROVE  n \in loop.got
    <3>1. RankOf(n) <= (loop.query.page - 1) * loop.query.size
      BY <2>6, <2>7, <2>8
    <3> QED BY <2>1, <3>1 DEF DueInv
  <2>9. ASSUME loop.rule = "first", loop.pages > 0, ~newest, NEW n \in loop.due
        PROVE  RankOf(n)' <= loop.pages * loop.query.size
    <3>1. ~down
      BY <2>1, <2>9 DEF QueryInv, down, NewestFirst
    <3> QED BY <2>1, <2>6, <2>9, <3>1 DEF DueInv
  <2>10. loop'.due \subseteq Answers(loop.query)'
    BY <1>4, <2>3, <2>6
  <2> QED BY <1>1, <1>4, <2>2, <2>8, <2>9, <2>10 DEF DueInv
<1> QED BY <1>3, <1>4, <1>5, <1>6 DEF PagesInv, PagesThrough

\* A day later an answer has the rows it had.
LEMMA MidnightComplete ==
  ASSUME PagesInv, LoopInv', Midnight
  PROVE  PagesInv'
<1>1. UNCHANGED <<rows, newest, loop>> /\ today \in Int /\ today' = today + 1
  BY DEF Midnight, PagesInv, RowsInv
<1>2. RowsInv'
  <2>1. \A n \in DOMAIN rows : rows[n] \in Int /\ rows[n] <= today
    BY DEF PagesInv, RowsInv
  <2>2. \A n \in DOMAIN rows : rows[n] <= today'
    BY <1>1, <2>1
  <2> QED BY <1>1, <2>2 DEF PagesInv, RowsInv
<1>3. PagesComplete'
  BY <1>1 DEF PagesInv, PagesComplete
<1>4. ASSUME loop.state = "fetch", PagesThrough PROVE QueryInv' /\ DueInv'
  <2>1. QueryInv /\ DueInv
    BY <1>4 DEF PagesInv
  <2>2. QueryInv'
    BY <1>1, <2>1 DEF QueryInv
  <2>3. CASE loop.due = {}
    BY <1>1, <2>2, <2>3 DEF DueInv
  <2>4. CASE loop.due # {}
    <3>1. Answers(loop.query) # {}
      BY <2>1, <2>4 DEF DueInv
    <3>2. Answers(loop.query)' = Answers(loop.query)
      <4>1. loop.query.to.day \in Int
        BY <2>1 DEF QueryInv
      <4>2. loop.query.to.day > today' => loop.query.to.day > today
        BY <1>1, <4>1
      <4> QED BY <1>1, <3>1, <4>2 DEF Answers, Matching
    <3>3. NewestFirst(loop.query)' = NewestFirst(loop.query)
      BY <1>1 DEF NewestFirst
    <3>4. \A n : RankOf(n)' = RankOf(n)
      BY <3>2, <3>3 DEF RankOf, Rank
    <3> QED BY <1>1, <2>1, <2>2, <3>2, <3>4 DEF DueInv
  <2> QED BY <2>3, <2>4
<1> QED BY <1>1, <1>2, <1>3, <1>4 DEF PagesInv, PagesThrough

LEMMA NextComplete ==
  ASSUME PagesInv, LoopInv', [MarketNext]_marketVars
  PROVE  PagesInv'
<1>0. RowsInv
  BY DEF PagesInv
<1>1. ASSUME NEW s \in Symbols, NEW r \in Ranges, AllOHLC(s, r) PROVE PagesInv'
  <2>1. PICK timeframe \in Timeframes \union {"1w"}, size \in Sizes :
          Begin("short", IterOHLC(s, timeframe, r, FirstPage, size), r)
    BY <1>1 DEF AllOHLC
  <2>2. \/ NoDate \in {r[1], r[2]}
        \/ \A query \in IterOHLC(s, timeframe, r, FirstPage, size) : Opening("short", query, r)
    BY <1>0, BarsOpen
  <2> QED BY <2>1, <2>2, BeginsComplete
<1>2. ASSUME NEW s \in Symbols, NEW r \in Ranges, OnePage(s, r) PROVE PagesInv'
  BY <1>2, BeginsComplete DEF OnePage
<1>3. ASSUME NEW s \in Symbols, NEW r \in Ranges, Summaries(s, r) PROVE PagesInv'
  BY <1>0, <1>3, SummariesOpen, BeginsComplete
<1>4. ASSUME NEW s \in Symbols, NEW r \in Ranges, Listings(s, r) PROVE PagesInv'
  BY <1>0, <1>4, ListingsOpen, BeginsComplete
<1>5. CASE UNCHANGED marketVars
  <2>1. UNCHANGED <<today, rows, newest, loop>>
    BY <1>5 DEF marketVars
  <2>2. \A n : RankOf(n)' = RankOf(n)
    BY <2>1 DEF RankOf, Rank, Answers, Matching, NewestFirst
  <2>3. UNCHANGED <<RowsInv, PagesThrough, QueryInv, DueInv, PagesComplete>>
    BY <2>1, <2>2 DEF RowsInv, PagesThrough, QueryInv, DueInv, PagesComplete, Answers,
       Matching, NewestFirst
  <2> QED BY <2>1, <2>3 DEF PagesInv
<1>6. CASE Refused
  BY <1>6 DEF Refused, Done, PagesInv, RowsInv, PagesComplete
<1> QED BY <1>1, <1>2, <1>3, <1>4, <1>5, <1>6, FetchComplete, AddRowComplete, MidnightComplete
    DEF MarketNext

\* For any rows, days, ranges and page sizes: a call for all pages returns every
\* row its range held when it began, whatever is added while it pages.
THEOREM PagesAreComplete == MarketSpec => []PagesComplete
<1>1. MarketInit => LoopInv /\ PagesInv
  BY DEF MarketInit, Done, LoopInv, PagesInv, RowsInv, PagesComplete
<1>2. LoopInv /\ PagesInv /\ [MarketNext]_marketVars => LoopInv' /\ PagesInv'
  BY NextTimed, NextComplete
<1>3. PagesInv => PagesComplete
  BY DEF PagesInv
<1> QED BY <1>1, <1>2, <1>3, PTL DEF MarketSpec

-----------------------------------------------------------------------------
(* Market data: no call pages on for ever                                  *)

\* The clock and the rows, and the number of the page asked for, which exceeds the
\* number of rows there may be by two at most.
WorldTyped ==
  /\ today \in 1 .. Days /\ queries \in 0 .. MaxQueries
  /\ rows \in Seq(1 .. Days) /\ Len(rows) <= MaxRows
CallTyped ==
  /\ loop.state \in {"fetch", "done"} /\ loop.rule \in Rules
  /\ loop.rule # "one" => loop.pages \in 0 .. MaxRows
  /\ loop.state = "fetch" =>
       /\ loop.query.page \in 1 .. MaxRows + 2
       /\ loop.rule # "one" => loop.query.size \in Nat \ {0}

\* A page is full only when that many rows are in the answer.
LEMMA FullPageHasRows ==
  ASSUME NEW A \in SUBSET Nat, IsFiniteSet(A), NEW down \in BOOLEAN,
         NEW before \in Nat, NEW size \in Nat \ {0},
         Cardinality({m \in A : Rank(m, A, down) \in before + 1 .. before + size}) >= size
  PROVE  before + size <= Cardinality(A)
<1> DEFINE P == {m \in A : Rank(m, A, down) \in before + 1 .. before + size}
           c == Cardinality(A)
           S == before + 1 .. c
           f == [m \in P |-> Rank(m, A, down)]
<1>1. c \in Nat
  BY FS_CardinalityType
<1>2. \A m \in A : Rank(m, A, down) \in 1 .. c
  BY RankIsPlace
<1>3. f \in [P -> S]
  <2>1. ASSUME NEW m \in P PROVE Rank(m, A, down) \in S
    <3>1. /\ Rank(m, A, down) \in 1 .. c
          /\ Rank(m, A, down) \in before + 1 .. before + size
      BY <1>2
    <3> HIDE DEF c
    <3> QED BY <1>1, <3>1
  <2> HIDE DEF P, S
  <2> QED BY <2>1
<1>4. f \in Injection(P, S)
  BY <1>3, RanksDiffer DEF Injection, IsInjective
<1>5. IsFiniteSet(S) /\ Cardinality(S) = IF before + 1 > c THEN 0 ELSE c - before
  <2> HIDE DEF c
  <2>1. before + 1 \in Int /\ c \in Int
    BY <1>1
  <2>2. /\ IsFiniteSet(S)
        /\ Cardinality(S) = IF before + 1 > c THEN 0 ELSE c - (before + 1) + 1
    BY <2>1, FS_Interval
  <2> HIDE DEF S
  <2> QED BY <1>1, <2>2
<1>6. Cardinality(P) >= size
  OBVIOUS
<1> HIDE DEF P, S, f
<1>7. IsFiniteSet(P) /\ Cardinality(P) <= Cardinality(S)
  BY <1>4, <1>5, FS_Injection
<1>8. Cardinality(P) \in Nat
  BY <1>7, FS_CardinalityType
<1> HIDE DEF c
<1> QED BY <1>1, <1>5, <1>6, <1>7, <1>8 DEF c

\* There are no more pages than rows.
LEMMA FewPages ==
  ASSUME NEW c \in Nat, NEW size \in Nat \ {0}
  PROVE  (c + size - 1) \div size \in 0 .. c
<1> DEFINE q == (c + size - 1) \div size
<1>1. q \in Nat /\ q * size <= c + size - 1
  OBVIOUS
<1> HIDE DEF q
<1>2. q <= c
  <2> SUFFICES ASSUME q > c PROVE FALSE
    BY <1>1
  <2>1. PICK k \in Nat : q = c + 1 + k
    <3>1. q - c - 1 \in Nat /\ q = c + 1 + (q - c - 1)
      BY <1>1
    <3> QED BY <3>1
  <2>2. q * size = c * size + size + k * size
    BY <2>1
  <2>3. c * size >= c /\ k * size >= 0
    OBVIOUS
  <2>4. c * size \in Nat /\ k * size \in Nat
    OBVIOUS
  <2> QED BY <1>1, <2>2, <2>3, <2>4
<1> QED BY <1>1, <1>2 DEF q

\* The first page, or one of the first two.
LEMMA BarsPaged ==
  ASSUME NEW symbol, NEW timeframe, NEW from, NEW to, NEW page, NEW size, NEW date,
         NEW query \in BuildOHLCParams(symbol, timeframe, from, to, page, size, date)
  PROVE  query.page = page /\ query.size = size
BY DEF BuildOHLCParams, Checked, Get

LEMMA RoundPaged ==
  ASSUME NEW symbol, NEW timeframe, NEW range, NEW page, NEW size,
         NEW query \in IterOHLC(symbol, timeframe, range, page, size)
  PROVE  query.page = page /\ query.size = size /\ size > 0
BY BarsPaged DEF IterOHLC, Checked, CheckPageSize

AtFirst(requests) == \A query \in requests : query.page \in {1, 2}

LEMMA BarQueriesPaged ==
  ASSUME NEW symbol, NEW range
  PROVE  \A requests \in OHLCQueries(symbol, range) : AtFirst(requests)
<1>1. \A timeframe : AtFirst(OHLCToday(symbol, timeframe, today))
  BY BarsPaged DEF OHLCToday, AtFirst, FirstPage
<1>2. \A timeframe, page, size : page \in {1, 2} =>
        AtFirst(OHLCBetween(symbol, timeframe, range[1], range[2], page, size, today))
  BY BarsPaged DEF OHLCBetween, Checked, AtFirst
<1>3. AtFirst({})
  BY DEF AtFirst
<1> QED
  BY <1>1, <1>2, <1>3
  DEF OHLCQueries, DownloadOHLC1Minute, DownloadOHLC1Day,
      GetOHLC1WeekHistorical, GetOHLC1MonthHistorical,
      GetOHLC1Minute, GetOHLC3Minute, GetOHLC5Minute,
      GetOHLC15Minute, GetOHLC1Hour, GetOHLC1MinuteHistorical,
      GetOHLC3MinuteHistorical, GetOHLC5MinuteHistorical,
      GetOHLC15MinuteHistorical, GetOHLC1HourHistorical,
      GetOHLC1DayHistorical

LEMMA OtherQueriesPaged ==
  ASSUME NEW symbol, NEW range
  PROVE  \A requests \in IndexQueries(symbol, range) \union PortfolioQueries(symbol, range) :
           AtFirst(requests)
<1>0. \A endpoint, f, from, to, size : AtFirst(Get(endpoint, f, from, to, FirstPage, size))
  BY DEF AtFirst, Get, FirstPage
<1>1. \A endpoint, f : AtFirst(Lookup(endpoint, f))
  BY <1>0 DEF Lookup
<1>2. \A ok, requests : AtFirst(requests) => AtFirst(Checked(ok, requests))
  BY DEF AtFirst, Checked
<1>3. \A f, date : AtFirst(IndexSummary(f, date))
  BY <1>0, <1>2 DEF IndexSummary
<1>4. \A f : AtFirst(Indexes(f)) /\ AtFirst(SecuritiesInfo(f))
  BY <1>1, <1>2 DEF Indexes, SecuritiesInfo
<1>5. \A account, from, to : AtFirst(BuildOrderBookParams(account, from, to))
  BY <1>0 DEF BuildOrderBookParams
<1>6. \A endpoint, account : AtFirst(OfAccount(endpoint, account))
  BY <1>1, <1>2 DEF OfAccount
<1>7. \A requests \in IndexQueries(symbol, range) : AtFirst(requests)
  BY <1>2, <1>3, <1>4
  DEF IndexQueries, GetIndexes, GetIndexesByBoard, GetIndexSummary,
      GetIndexSummaryHistorical, GetBoardSummary, GetBoardSummaryHistorical,
      GetSecuritiesInfo, GetSecuritiesInfoByIndex, GetSecuritiesInfoByBoard
<1>8. \A requests \in PortfolioQueries(symbol, range) : AtFirst(requests)
  BY <1>2, <1>5, <1>6
  DEF PortfolioQueries, GetEquityBalance, GetDerivativeBalance,
      GetEquityPositions, GetDerivativePositions,
      GetOpenDerivativePositions, GetClosedDerivativePositions,
      GetEquityPPMMR, GetDerivativePPMMR, GetTodayOrders,
      GetHistoricalOrders
<1> QED BY <1>7, <1>8

LEMMA BeginsTyped ==
  ASSUME LoopInv, WorldTyped, CallTyped, NEW rule \in Rules, NEW requests, NEW range,
         Begin(rule, requests, range),
         \A query \in requests : /\ query.page \in {1, 2}
                                 /\ rule # "one" => query.size \in Nat \ {0}
  PROVE  WorldTyped' /\ CallTyped'
<1>1. WorldTyped'
  <2>1. queries' \in 0 .. MaxQueries
    BY MarketAssumption DEF WorldTyped, Begin, MayAsk
  <2> QED BY <2>1 DEF WorldTyped, Begin
<1>2. CASE \E query \in requests : Start(rule, query, range)
  <2>1. PICK query \in requests : Start(rule, query, range)
    BY <1>2
  <2>2. /\ loop'.state = "fetch" /\ loop'.rule = rule /\ loop'.pages = 0 /\ loop'.query = query
    BY <2>1 DEF Start
  <2>3. query.page \in 1 .. MaxRows + 2 /\ 0 \in 0 .. MaxRows
    BY MarketAssumption
  <2>4. CallTyped'
    BY <2>2, <2>3 DEF CallTyped
  <2> QED BY <1>1, <2>4
<1>3. CASE UNCHANGED loop
  BY <1>1, <1>3 DEF CallTyped
<1> QED BY <1>2, <1>3 DEF Begin

\* A round asks on only behind a full page, or before the last page counted.
LEMMA FetchTyped ==
  ASSUME LoopInv, RowsInv, WorldTyped, CallTyped, Fetch
  PROVE  WorldTyped' /\ CallTyped'
<1> DEFINE A     == Answers(loop.query)
           c     == Cardinality(A)
           size  == loop.query.size
           page  == PageOf(loop.query)
           pages == IF loop.rule = "first" /\ loop.pages > 0 THEN loop.pages
                    ELSE PagesCount(loop.query)
           read  == [loop EXCEPT !.got = @ \union page, !.pages = pages]
<1>0. WorldTyped' /\ loop.state = "fetch"
  BY DEF Fetch, WorldTyped
<1>1. /\ A \in SUBSET Nat /\ IsFiniteSet(A) /\ NewestFirst(loop.query) \in BOOLEAN
      /\ c \in Nat /\ c <= MaxRows /\ MaxRows \in Nat
  <2>1. /\ A \in SUBSET Nat /\ IsFiniteSet(A) /\ A \subseteq DOMAIN rows
        /\ NewestFirst(loop.query) \in BOOLEAN
    BY AnswersAreRows
  <2>2. DOMAIN rows = 1 .. Len(rows) /\ Len(rows) \in Nat /\ Len(rows) <= MaxRows
    BY DEF WorldTyped
  <2>3. IsFiniteSet(DOMAIN rows) /\ Cardinality(DOMAIN rows) = Len(rows)
    <3>1. 1 \in Int /\ Len(rows) \in Int
      BY <2>2
    <3>2. /\ IsFiniteSet(1 .. Len(rows))
          /\ Cardinality(1 .. Len(rows)) = IF 1 > Len(rows) THEN 0 ELSE Len(rows) - 1 + 1
      BY <3>1, FS_Interval
    <3> QED BY <2>2, <3>2
  <2>4. c \in Nat /\ c <= Len(rows)
    BY <2>1, <2>3, FS_Subset, FS_CardinalityType
  <2> QED BY <2>1, <2>2, <2>4, MarketAssumption
<1>2. loop.query.page \in Nat \ {0} /\ (loop.rule # "one" => size \in Nat \ {0})
  BY <1>0, MarketAssumption DEF CallTyped
<1>3. loop.rule # "one" => pages \in 0 .. MaxRows
  <2>1. loop.rule # "one" => PagesCount(loop.query) \in 0 .. c
    BY <1>1, <1>2, FewPages DEF PagesCount
  <2> QED BY <1>1, <2>1 DEF CallTyped
<1>4. ASSUME ~Ended(page, pages) PROVE loop.rule # "one" /\ loop.query.page + 1 \in 1 .. MaxRows + 2
  <2>1. loop.rule \in {"short", "first", "last"}
    BY <1>4 DEF Ended, CallTyped, Rules
  <2>2. CASE loop.rule = "short"
    <3> DEFINE before == (loop.query.page - 1) * size
    <3>1. before \in Nat /\ before + size = loop.query.page * size
          /\ loop.query.page * size >= loop.query.page
      BY <1>2, <2>2
    <3>2. Cardinality(page) \in Nat /\ ~(Cardinality(page) < size)
      <4>1. page \subseteq A
        BY DEF PageOf
      <4>2. IsFiniteSet(page)
        BY <1>1, <4>1, FS_Subset
      <4>3. ~ShortPage(page, size)
        BY <1>4, <2>2 DEF Ended
      <4> QED BY <4>2, <4>3, FS_CardinalityType DEF ShortPage
    <3>3. page = {n \in A : Rank(n, A, NewestFirst(loop.query)) \in before + 1 .. before + size}
      BY DEF PageOf
    <3> HIDE DEF before, page, A
    <3>4. before + size <= Cardinality(A)
      BY <1>1, <1>2, <2>2, <3>1, <3>2, <3>3, FullPageHasRows
    <3> QED BY <1>1, <1>2, <2>2, <3>1, <3>4
  <2>3. CASE loop.rule \in {"first", "last"}
    <3>1. ~(loop.query.page >= pages)
      BY <1>4, <2>3 DEF Ended, LastPage
    <3> HIDE DEF pages
    <3> QED BY <1>1, <1>2, <1>3, <2>3, <3>1
  <2> QED BY <2>1, <2>2, <2>3
<1>5. DOMAIN loop = {"state", "rule", "query", "pages", "got", "due", "still", "range"}
  BY DEF LoopInv
<1>6. /\ DOMAIN read = DOMAIN loop /\ read.pages = pages /\ read.rule = loop.rule
      /\ read.state = "fetch" /\ read.query = loop.query
  BY <1>0, <1>5
<1>7. \/ loop' = [read EXCEPT !.state = "done"]
      \/ /\ ~Ended(page, pages)
         /\ \E query \in Further(NextPage(loop.query.page)) :
              loop' = [read EXCEPT !.query = query]
  BY DEF Fetch
<1> HIDE DEF read, page, pages, size, A, c
<1>8. CASE loop' = [read EXCEPT !.state = "done"]
  <2>1. loop'.state = "done" /\ loop'.rule = loop.rule /\ loop'.pages = pages
    BY <1>5, <1>6, <1>8
  <2> QED BY <1>0, <1>3, <2>1 DEF CallTyped
<1>9. ASSUME ~Ended(page, pages), NEW query \in Further(NextPage(loop.query.page)),
             loop' = [read EXCEPT !.query = query]
      PROVE  CallTyped'
  <2>1. loop'.state = "fetch" /\ loop'.rule = loop.rule /\ loop'.pages = pages /\ loop'.query = query
    BY <1>5, <1>6, <1>9
  <2>2. loop.rule # "one" /\ NextPage(loop.query.page) \in 1 .. MaxRows + 2 /\ size \in Nat \ {0}
    BY <1>2, <1>4, <1>9 DEF NextPage
  <2>3. query.page = NextPage(loop.query.page) /\ query.size = size
    <3>1. CASE loop.rule = "short"
      BY <1>9, <3>1, RoundPaged DEF Further, size
    <3>2. CASE loop.rule # "short"
      <4>1. query = [loop.query EXCEPT !.page = NextPage(loop.query.page)]
        BY <1>9, <3>2 DEF Further
      <4>2. DOMAIN loop.query = {"endpoint", "filter", "from", "to", "page", "size"}
        BY <1>0 DEF LoopInv, QueryFields
      <4> QED BY <4>1, <4>2 DEF size
    <3> QED BY <3>1, <3>2
  <2> QED BY <1>3, <2>1, <2>2, <2>3 DEF CallTyped
<1> QED BY <1>0, <1>7, <1>8, <1>9

LEMMA NextTyped ==
  ASSUME LoopInv, RowsInv, WorldTyped, CallTyped, [MarketNext]_marketVars
  PROVE  WorldTyped' /\ CallTyped'
<1>1. ASSUME NEW s \in Symbols, NEW r \in Ranges, AllOHLC(s, r) PROVE WorldTyped' /\ CallTyped'
  <2>1. PICK timeframe \in Timeframes \union {"1w"}, size \in Sizes :
          Begin("short", IterOHLC(s, timeframe, r, FirstPage, size), r)
    BY <1>1 DEF AllOHLC
  <2>2. \A query \in IterOHLC(s, timeframe, r, FirstPage, size) :
          query.page \in {1, 2} /\ query.size \in Nat \ {0}
    BY RoundPaged, MarketAssumption DEF FirstPage
  <2> QED BY <2>1, <2>2, BeginsTyped DEF Rules
<1>2. ASSUME NEW s \in Symbols, NEW r \in Ranges, OnePage(s, r) PROVE WorldTyped' /\ CallTyped'
  <2>1. PICK requests \in OHLCQueries(s, r) \union IndexQueries(s, r)
                            \union PortfolioQueries(s, r) :
          Begin("one", requests, r)
    BY <1>2 DEF OnePage
  <2>2. AtFirst(requests)
    BY BarQueriesPaged, OtherQueriesPaged
  <2> QED BY <2>1, <2>2, BeginsTyped DEF Rules, AtFirst
<1>3. ASSUME NEW s \in Symbols, NEW r \in Ranges, Summaries(s, r) PROVE WorldTyped' /\ CallTyped'
  <2>1. PICK requests : /\ Begin("first", requests, r)
                        /\ \A query \in requests : Opening("first", query, r)
    BY <1>3, SummariesOpen
  <2>2. \A query \in requests : query.page \in {1, 2} /\ query.size \in Nat \ {0}
    BY <2>1 DEF Opening
  <2> QED BY <2>1, <2>2, BeginsTyped DEF Rules
<1>4. ASSUME NEW s \in Symbols, NEW r \in Ranges, Listings(s, r) PROVE WorldTyped' /\ CallTyped'
  <2>1. PICK requests : /\ Begin("last", requests, r)
                        /\ \A query \in requests : Opening("last", query, r)
    BY <1>4, ListingsOpen
  <2>2. \A query \in requests : query.page \in {1, 2} /\ query.size \in Nat \ {0}
    BY <2>1 DEF Opening
  <2> QED BY <2>1, <2>2, BeginsTyped DEF Rules
<1>5. CASE AddRow
  <2>1. rows' \in Seq(1 .. Days) /\ Len(rows') <= MaxRows
    BY <1>5, MarketAssumption DEF AddRow, WorldTyped
  <2>2. loop' = [loop EXCEPT !.still = FALSE]
    BY <1>5 DEF AddRow
  <2>3. CallTyped'
    BY <2>2 DEF CallTyped, LoopInv
  <2> QED BY <1>5, <2>1, <2>3 DEF AddRow, WorldTyped
<1>6. CASE Midnight
  <2>1. today' \in 1 .. Days
    BY <1>6, MarketAssumption DEF Midnight, WorldTyped
  <2> QED BY <1>6, <2>1 DEF Midnight, WorldTyped, CallTyped
<1>7. CASE UNCHANGED marketVars
  BY <1>7 DEF marketVars, WorldTyped, CallTyped
<1>8. CASE Refused
  <2>1. loop' = Done /\ WorldTyped'
    BY <1>8 DEF Refused, WorldTyped
  <2>2. CallTyped'
    BY <2>1 DEF Done, Rules, CallTyped
  <2> QED BY <2>1, <2>2
<1> QED BY <1>1, <1>2, <1>3, <1>4, <1>5, <1>6, <1>7, <1>8, FetchTyped DEF MarketNext

\* The clock, the rows and the call keep to their types; in particular the page that
\* a call asks for, whichever its range and page size, is numbered two beyond the
\* rows of the server at most, although rows are added while it pages.
THEOREM PagesAreFew == MarketSpec => []MarketTypeOK
<1>1. MarketInit => LoopInv /\ PagesInv /\ WorldTyped /\ CallTyped
  <2> SUFFICES ASSUME MarketInit PROVE LoopInv /\ PagesInv /\ WorldTyped /\ CallTyped
    OBVIOUS
  <2>1. LoopInv /\ PagesInv
    BY DEF MarketInit, Done, LoopInv, PagesInv, RowsInv, PagesComplete
  <2>2. 1 \in 1 .. Days /\ 0 \in 0 .. MaxQueries /\ 0 <= MaxRows
    BY MarketAssumption
  <2>3. rows = <<>> /\ rows \in Seq(1 .. Days) /\ Len(rows) = 0
    BY DEF MarketInit
  <2> QED BY <2>1, <2>2, <2>3 DEF MarketInit, Done, WorldTyped, CallTyped, Rules
<1>2. LoopInv /\ PagesInv /\ WorldTyped /\ CallTyped /\ [MarketNext]_marketVars
        => LoopInv' /\ PagesInv' /\ WorldTyped' /\ CallTyped'
  BY NextTimed, NextComplete, NextTyped DEF PagesInv
<1>3. PagesInv /\ WorldTyped /\ CallTyped => MarketTypeOK
  BY DEF PagesInv, RowsInv, WorldTyped, CallTyped, MarketTypeOK
<1> QED BY <1>1, <1>2, <1>3, PTL DEF MarketSpec
=============================================================================

-------------------------------- MODULE Orders -------------------------------
(* An application that places, changes, cancels and asks for orders through    *)
(* the trading services over REST and over the WebSocket, one call at a time,  *)
(* and the exchange at the other end of a network that loses answers and       *)
(* delivers requests late.  The requests of each call are those of             *)
(* OrderRequests and TradingWSRequests; the exchange is external.              *)
EXTENDS TradingWSRequests

CONSTANTS
  Intents,     \* the orders the application wants
  Wanted,      \* the order of each intent
  Conditional, \* the conditional orders it may place
  MaxCalls     \* bound on its calls

ASSUME OrdersAssumption == MaxBatchOrders \in Nat /\ MaxCalls \in Nat
\* What an order and a conditional order consist of (models/trading.py, models/fco.py;
\* none is made without an operator).
ASSUME FieldsAssumption ==
  /\ \A i \in Intents :
       /\ DOMAIN Wanted[i] = {"account", "symbol", "side", "quantity", "price", "type", "key"}
       /\ Wanted[i].quantity.value \in Int
  /\ \A f \in Conditional :
       /\ f.operator # None
       /\ DOMAIN f = {"type", "account", "symbol", "side", "quantity", "price", "slip", "from",
                      "to", "tpPrice", "slPrice", "tpSlip", "slSlip", "operator"}
\* The application gives each order a key of its own or none (AGENT.md 67-68); no
\* random key is one of these.
ASSUME KeysAssumption ==
  \A i, j \in Intents :
    /\ Wanted[i].key # Generated
    /\ Wanted[i].key = Wanted[j].key => i = j \/ Wanted[i].key = None

VARIABLES
  call,    \* the call under way: its intents and its request
  wire,    \* requests sent and not handled yet, with the intents they are for
  answers, \* answers sent and not read yet
  orders,  \* the orders the exchange accepted, in their order
  told,    \* what the application knows of each intent
  calls    \* how many calls were made

vars == <<call, wire, answers, orders, told, calls>>

Idle == [number |-> 0, items |-> <<>>, kind |-> "none"]
Kinds == {"none", "place", "change", "fco", "query"}

Init == /\ call = Idle
        /\ wire = {}
        /\ answers = {}
        /\ orders = <<>>
        /\ told = [i \in Intents |-> "nothing"]
        /\ calls = 0

(* The entry points, by what they are called with *)
OrderEntries(o) ==
  {PlaceOrder(o), PlaceLimitOrder(o), PlaceMarketOrder(o), PlaceATOOrder(o),
   PlaceATCOrder(o), WSPlaceOrder(o)}

BatchEntries(os) == {PlaceBatchOrders(os), BatchNewOrders(os)}

ChangeEntries(c) ==
  {ModifyOrderPrice(c), ModifyOrderPriceByOrderId(c), ModifyOrderQuantity(c),
   ModifyOrderQuantityByOrderId(c), AmendOrder(c), CancelOrder(c),
   CancelOrderByOrderId(c), WSCancelOrder(c), CancelBatchOrders(<<c>>),
   BatchCancelOrders(<<c>>)}

RESTConditional(f) ==
  {PlaceFCOGTD(f), PlaceFCOStop(f), PlaceFCOStopLimit(f), PlaceFCOTrailingStop(f),
   PlaceFCOTrailingStopLimit(f), PlaceFCOOCO(f), PlaceFCOBullBear(f)}

FCOEntries(f) ==
  RESTConditional(f)
    \union {WSPlaceFCO([f EXCEPT !.type = t]) :
              t \in {"GTD", "STOP", "STOP_LIMIT", "TRAILING_STOP", "TRAILING_STOP_LIMIT",
                     "OCO", "BULL_BEAR"}}

FCOQueries(account, fco) ==
  {GetFCOByAccountNo(account), GetFCOBySymbol(account, "S"), GetFCOByStatus(account, {"NEW"}),
   GetFCOByDate(account, Date("day", 1), Date("stamp", 2)), GetFCOById(account, fco),
   GetFCOOrderBook(fco), GetFCOStatusHistory(fco), ListFCO(FCOFilter(account)),
   FCOOrderBook(fco), FCOStatusHistory(fco), CancelFCO(fco), WSCancelFCO(fco)}

AccountQueries(account) ==
  {GetMaxBuySell([account |-> account, symbol |-> "S", price |-> Whole(1)]),
   GetMaxBuySellAtMarketPrice([account |-> account, symbol |-> "S", price |-> NoNumber]),
   WSQueryMaxBuySell([account |-> account, symbol |-> "S", price |-> Whole(0)]),
   QueryPosition(account), QueryAccountBalance(account), QueryPPMMRAccount(account),
   QueryOrderBook(account, Date("day", 1), Date("day", 2)),
   SubscribeOrderEvents(account), UnsubscribeOrderEvents(account),
   SubscribePortfolioEvents(account), UnsubscribePortfolioEvents(account),
   UnsubscribeAllEvents}

(* The application *)
Free == call = Idle /\ calls < MaxCalls

\* A call whose arguments are refused raises and sends nothing.
Raise(items) ==
  /\ told' = [i \in Intents |-> IF i \in items /\ told[i] = "nothing" THEN "refused"
                                ELSE told[i]]
  /\ calls' = calls + 1
  /\ UNCHANGED <<call, wire, answers, orders>>

Send(kind, items, request, wanted) ==
  /\ wire' = wire \union {[number |-> calls + 1, items |-> items, kind |-> kind,
                           request |-> request, wanted |-> wanted]}
  /\ call' = [number |-> calls + 1, items |-> items, kind |-> kind]
  /\ calls' = calls + 1
  /\ UNCHANGED <<answers, orders, told>>

Make(kind, items, requests, wanted) ==
  \/ \E r \in requests : Send(kind, items, r, wanted)
  \/ requests = {} /\ Raise({items[n] : n \in DOMAIN items})

\* An order whose fate is unknown is sent again only under a key of its own.
MaySend(i) ==
  \/ told[i] = "nothing"
  \/ told[i] = "unknown" /\ Wanted[i].key # None

Place(i) ==
  Free /\ MaySend(i) /\ \E r \in OrderEntries(Wanted[i]) : Make("place", <<i>>, r, None)

PlaceBatch(i, j) ==
  /\ Free /\ i # j /\ MaySend(i) /\ MaySend(j)
  /\ \E r \in BatchEntries(<<Wanted[i], Wanted[j]>>) : Make("place", <<i, j>>, r, None)

\* The exchange names its orders; the application knows the name of an order it
\* was told of.
OrderIds == <<"o1", "o2", "o3", "o4", "o5", "o6", "o7", "o8">>
NumbersOf(i) == {n \in DOMAIN orders : orders[n].intent = i}

Change(i) ==
  /\ Free /\ told[i] \in {"accepted", "duplicate"}
  /\ \E id \in {OrderIds[n] : n \in NumbersOf(i)} \union {None} : \E price, quantity \in {NoNumber, Whole(2)} :
       LET c == [account |-> Wanted[i].account, orderId |-> id, key |-> Wanted[i].key,
                 price |-> price, quantity |-> quantity]
       IN  \E r \in ChangeEntries(c) : Make("change", <<i>>, r, None)

PlaceFCO(f) == Free /\ \E r \in FCOEntries(f) : Make("fco", <<>>, r, f)

\* Bound: what changes no order is asked for when nothing is on its way.
Ask(account) ==
  /\ Free /\ wire = {}
  /\ \E r \in AccountQueries(account) \union FCOQueries(account, "fco") :
       Make("query", <<>>, r, None)

(* The exchange: a key is accepted once a day *)
KeyUsed(key, accepted) ==
  key # Generated /\ \E n \in DOMAIN accepted : accepted[n].body.key = key

Accept(accepted, intent, body) ==
  IF KeyUsed(body.key, accepted) THEN accepted
  ELSE Append(accepted, [intent |-> intent, body |-> body])

BodiesOf(request) ==
  IF request.endpoint \in {"order/batch", "order.batchNew"} THEN request.body.orders
  ELSE <<request.body>>

Results(w, bodies) ==
  [n \in DOMAIN bodies |->
     IF KeyUsed(bodies[n].key, orders) THEN "duplicate" ELSE "accepted"]

HandlePlace(w) ==
  LET bodies == BodiesOf(w.request)
      after[n \in 0..Len(bodies)] ==
        IF n = 0 THEN orders ELSE Accept(after[n - 1], w.items[n], bodies[n])
  IN  /\ orders' = after[Len(bodies)]
      /\ answers' = answers \union {[number |-> w.number, results |-> Results(w, bodies)]}

HandleOther(w) ==
  /\ answers' = answers \union {[number |-> w.number, results |-> <<>>]}
  /\ UNCHANGED orders

Handle(w) ==
  /\ wire' = wire \ {w}
  /\ \/ w.kind = "place" /\ HandlePlace(w)
     \/ w.kind # "place" /\ HandleOther(w)
  /\ UNCHANGED <<call, told, calls>>

Lose(w) == wire' = wire \ {w} /\ UNCHANGED <<call, answers, orders, told, calls>>

(* The end of a call *)
Answered(a) ==
  /\ a.number = call.number
  /\ told' = [i \in Intents |->
                IF call.kind = "place" /\ \E n \in DOMAIN a.results : call.items[n] = i
                THEN a.results[CHOOSE n \in DOMAIN a.results : call.items[n] = i]
                ELSE told[i]]
  /\ call' = Idle
  /\ answers' = answers \ {a}
  /\ UNCHANGED <<wire, orders, calls>>

\* A timeout, or a connection that breaks: the outcome is unknown, the answer
\* may still come and nobody reads it.
TimeOut ==
  /\ call # Idle
  /\ told' = [i \in Intents |->
                IF call.kind = "place" /\ i \in {call.items[n] : n \in DOMAIN call.items}
                THEN "unknown" ELSE told[i]]
  /\ call' = Idle
  /\ answers' = {a \in answers : a.number # call.number}
  /\ UNCHANGED <<wire, orders, calls>>

Next ==
  \/ \E i \in Intents : Place(i)
  \/ \E i, j \in Intents : PlaceBatch(i, j)
  \/ \E i \in Intents : Change(i)
  \/ \E f \in Conditional : PlaceFCO(f)
  \/ \E account \in {Wanted[i].account : i \in Intents} : Ask(account)
  \/ \E w \in wire : Handle(w)
  \/ \E w \in wire : Lose(w)
  \/ \E a \in answers : Answered(a)
  \/ TimeOut

Spec == Init /\ [][Next]_vars

-----------------------------------------------------------------------------
(* Properties *)

\* Whatever was sent, every part of the state has its type.
TypeOK ==
  /\ call.number \in 0..MaxCalls /\ call.kind \in Kinds /\ call.items \in Seq(Intents)
  /\ \A w \in wire : w.number \in 1..MaxCalls /\ w.kind \in Kinds /\ w.items \in Seq(Intents)
  /\ \A a \in answers : a.number \in 1..MaxCalls
  /\ \A n \in DOMAIN orders :
       orders[n].intent \in Intents /\ orders[n].body.quantity \in Nat \ {0}
  /\ told \in [Intents -> {"nothing", "unknown", "accepted", "duplicate", "refused"}]
  /\ calls \in 0..MaxCalls

\* An application that sends an order of unknown fate again, under the same key
\* and over any entry point, has it executed at most once (AGENT.md, "never
\* resend an order under a new id after a timeout").
OneOrderPerIntent ==
  \A m, n \in DOMAIN orders : orders[m].intent = orders[n].intent => m = n

\* A DuplicateRequestError means that this very order is at the exchange: the
\* application may look it up instead of sending it.
DuplicateMeansPlaced ==
  \A i \in Intents : told[i] \in {"duplicate", "accepted"} => NumbersOf(i) # {}

\* A batch goes out with all of its orders or not at all (_build_batch_place:
\* one bad order rejects the whole batch).
SentWhole ==
  \A w \in wire : w.kind = "place" => Len(BodiesOf(w.request)) = Len(w.items)

\* An order, conditional or not, that goes out over the WebSocket is one that
\* REST would have sent for the same arguments, slips and legs included: one service is no way around the checks of the other.
RoutesAgree ==
  \A w \in wire :
    /\ w.request.endpoint = "order.place" =>
         \E r \in PlaceOrder(Wanted[w.items[1]]) : r.body = w.request.body
    /\ w.request.endpoint = "fco.place" =>
         \E r \in UNION RESTConditional(w.wanted) : r.body = w.request.body
=============================================================================

# Formal models of ssi_sdk

TLA+ models of `ssi_sdk` 3.3.2, the Python client of SSI FastConnect v3 (REST and
WebSocket, each with a thread-based and an asyncio variant), the TLC runs that check
them on small instances, and the theorems TLAPS proves about them for every value of
their constants. Paths below are relative to `src/ssi_sdk/` unless they say
otherwise; `PROJECT.json` maps every definition to its lines.

- `tlc -workers 2 -config <run>.cfg <MC module>` checks a run,
- `tlapm <module>.tla` checks the proofs of a module.

## 1. The system

    client.py            facades Auth, Data, Trading, Stream (+ async) wire what is below
      services/          token_manager, market_data, account, portfolio, trading,
                         streaming, trading_ws
        transport/       rest_client, websocket_client, reconnect, dispatch, trading_ws
          utils/         retry (rate limiter, retry loops), parsing, signing, masking
    models/, enums/, constant, config, exceptions

An `Auth` owns one `RestClient` (with its `RateLimiter`) and one `TokenManager` that uses it;
`Data` and `Trading` put the services on top of them. A `Stream` gives its WebSocket client a
`token_provider` callback (`client.py` 637-641, 682-686), so a reconnect may start a token
refresh. Users call any of it from their own threads or tasks; the threads of the SDK itself are
the supervisor of each `connect()`, its `_cycle` timer, the reader of the trading WebSocket and
the ping loop of the streaming service.

| Component | State it keeps | Operations | What is hard | What makes it correct |
|---|---|---|---|---|
| `services/token_manager.py` `TokenManager` | `_token`, the `Authorization` header of the REST client, `_refresh_lock` | `authenticate`, `refresh`, `ensure_authenticated`, `set_token`, Smart OTP polling | threads that find the token expired at once; logins take no lock; the server keeps one session per apiKey and revokes it when a rotated refresh token comes back; answers get lost | a refresh token is spent once; one refresh at a time; a waiting thread reuses the answer; only a dead session is forgotten; header and token agree; the lock is always released |
| `AsyncTokenManager`, `AsyncWebSocketClient` | the same with an `asyncio.Lock` and tasks | the same | a task is cancelled at any `await`: in a refresh, a handshake, a close, a wait for the lock | a spent token comes back only after a lost answer; no socket leaks; a disconnect stops everything; every wait is ended by somebody |
| `transport/websocket_client.py` `WebSocketClient`, `transport/reconnect.py` `SubscriptionBook` | `_ws`, `_supervisor`, `_closing`, `_ready`, `_opened`, the last refusal, the book of subscriptions | `connect`, `disconnect`, `send`, callbacks, `_supervise`, the timer `_cycle` | four kinds of threads share the attributes without a lock; sockets replaced under a sender; timers that fire while being cancelled; joins that time out | one socket; a disconnect stops everything; server and book agree after a reconnect; no silent end; a bounded first connect; a lost connection comes back |
| `transport/rest_client.py`, `utils/retry.py` | the bucket of `RateLimiter`, the locals of each `request()` | `request`, `retry_sync`, `acquire`, `pause`, `cap` | callers compete for tokens; answers are read in any order; two retry loops are nested | the rate holds; a shorter pause never cuts a longer one short; nothing but a GET is sent twice; someone always gets through |
| `transport/trading_ws.py` | the table of pending request ids, the socket, its reader thread, the signature encoding | `connect`, `request`, `close` | late answers; a reader that dies between two steps of a command; the `auto` encoding shared by commands | a command is carried out once; an answer reaches the command that asked; `close()` leaves nobody waiting |
| `services/trading.py`, `services/trading_ws.py` | none; the idempotency key of an order | `place_*`, `modify_*`, `cancel_*`, batches, conditional orders, queries | an order whose answer was lost; batches; two routes with their own checks | an order is executed once; a duplicate is this very order; a batch goes out whole; both routes send the same |
| `services/streaming.py` | callbacks, handlers of the client's routes, the ping loop | `subscribe_*`, `unsubscribe_*`, `list_subscription`, `unsubscribe_all`, `ping` | operations of several requests that fail halfway; replies without an id; handlers that change while the reader runs them | what was given up is gone, and a reconnect brings back nothing else; a list answers its own request; a frame reaches every callback; one ping loop |
| `services/market_data.py`, `services/portfolio.py` | the locals of the paging loops | queries by symbol, index, board, date | rows are added and the day changes while a loop pages | every row of the range; the loop ends; no request the server refuses for its dates |
| `client.py`, `config.py`, `models/`, `enums/`, other `utils/` | none of their own | wiring, conversions, formatting | - | - |

`PROJECT.json` lists each of them with its status, and under `hazards` the places in this
code that are hard to test, each with the properties that watch it or the reason why none
does.

## 2. The modules

    RefreshSession         what either token manager owes the server (abstract)
    TokenManager           threads + manager + FastConnect session
      MCTokenManager, TokenManagerProofs
    WebSocketClient        connect/disconnect, supervisors, sender, timers, sockets
      MCWebSocketClient, WebSocketClientProofs
    AsyncStream            tasks of AsyncWebSocketClient + AsyncTokenManager + session
      MCAsyncStream, AsyncStreamProofs
    RestClient             request(), the retry loops, the rate limiter, time
      MCRestClient, RestClientProofs
    CommandService         what either request() promises its callers (abstract)
    TradingWSClient        callers, readers, sockets of the trading WebSocket
      MCTradingWSClient, TradingWSProofs
    AsyncTradingWS         the same with tasks, cancelled at any await
      MCAsyncTradingWS, AsyncTradingWSProofs
    Arguments              what a call's arguments are checked for
      OrderRequests        trading.py: what each operation sends, or refuses to send
        TradingWSRequests  trading_ws.py: the same over the WebSocket
          Orders           an application, a network and an exchange around them
            MCOrders
      MarketDataRequests   market_data.py, portfolio.py: what each query sends
        MarketData         the paging loops, the server's rows, the clock
          MCMarketData
      ServicesProofs       proofs about Orders and MarketData
      StreamingRequests    streaming.py: the requests of each operation, topics, routes
        Streaming          callers, reader, ping loops, server
          MCStreaming, StreamingProofs

Each module also holds *mutants*: a definition as a plausible bug would write it, placed
before the definition it replaces. With the mutant in its place TLC finds the property
named in `PROJECT.json` violated, which shows that the property depends on that line.

Every module that models code with state has a type invariant, which documents its
state and holds on the instances below (add `INVARIANT TypeOK` to a `.cfg`); it is proved for all
of them. The runs check the other properties.

The thread-based and the asyncio variants of the services and of the REST client have the same
statements with `await` in front of the calls. The models translate the thread-based one, and
the map names its lines; for the two WebSocket clients and the token manager, where cancellation
makes a difference, the asyncio variant has a module of its own.

### TokenManager

One action is one statement that reads or writes something another thread can see:
`_token`, the header, the lock, or the server. `pc` is the place of a thread, with a
prefix for the method: `e_` `ensure_authenticated`, `r_` `_refresh`, `l_` the three ways to
store a token from outside (`authenticate`, a Smart OTP poll, `set_token`). `frame` holds
the locals. So `_refresh` is `RefreshCheck` (466), `RefreshObserve`, `RefreshAcquire`,
`RefreshCoalesce`, `RefreshRecheck`, `RefreshSend`, an answer, then `RefreshStore` and
`RefreshHeader`, or `RefreshClear` and `RefreshClearHeader`, or `RefreshFail`.

Abstractions:

- A token set (access and refresh token) is the number the server issued it under, 0 is
  `None`. `expired` and `dead` hold the numbers for which `is_token_expired` and
  `not can_refresh` are true, so the clock is the order in which numbers join them. A new
  token may join at once: its payload may carry no expiry or no refresh token.
- `is_token_expired` and `can_refresh` read `_token` several times; the model reads once.
- The server is modelled from how the code and its documents treat it
  (`src/AGENT.md` 83-84): one session per apiKey, replaced by a login or a rotation, and
  revoked when a refresh token that was already rotated comes back. An answer may be lost
  after the server acted.
- Another process may log in (`OtherLogin`) and its token may be handed to `set_token`
  once.

`crashed` and `none` are places of a thread whose call ended in an `AttributeError` on
`None`, or returned `None`; it may call again.

### WebSocketClient

`self` is the record of the attributes the threads share, `sup[g]` the thread that runs
`_supervise` with its locals, `main` the thread that calls `connect()` and `disconnect()`,
`user` a thread in `send()`, `timer` the `_cycle` timers. `sock` is the outside world: what
websocket-client's `WebSocketApp` and the server make of each socket. The callbacks run on
the supervisor's thread, as they do in the library, inside `Open`, `Refuse`, `Reject` and
`Drop`.

Abstractions:

- One thread connects and disconnects, and one sends: only `send()` is documented as safe
  from any thread. Handlers that call `connect()` or `disconnect()` themselves are not
  modelled.
- `WebSocketApp` (external): `close()` before `run_forever` is lost; `close()` while
  connecting does not prevent `on_open`; a send that raises means the socket is ending; a
  restore of the book that stops halfway is on a socket that is ending.
- A token is known by how the provider was asked for it (`held`, `fresh`), which is what
  the refusal logic depends on.
- Attempts are counted for the first connect only; later they set the length of a wait,
  and lengths are not modelled. Logging, `on_state` and `reconnect_count` are left out.
- `send()` splits a request that is too long and `_on_open` iterates over the book; both
  are one step here.
- With `Timeouts` the timeout of `connect()` and of the join in `disconnect()` may fire at
  any moment; without it they never do, which is the case of a token provider that answers
  within them.

### AsyncStream

The composition of `AsyncWebSocketClient` with `AsyncTokenManager` through the
`token_provider` of `AsyncStream` (`client.py` 637-643). One thread runs everything, so an
action is what a task does from one `await` that suspends to the next; a task that is ready runs
before anything arrives from the network (`Turn`). `owner[t]` is a task of the application in
`connect()` or `disconnect()`, `sup[s]` a supervisor task, `renew[r]` the locals of `refresh()` and
`ensure_authenticated()` that run on the supervisor's task or on a user's. `Task.cancel()` sets
`cancel`; `CancelledAt` says what the cancelled task does at each `await` it may have reached:
`finally` blocks run, the lock is left, a request on the wire becomes `stray`: the server may
still answer it, and nobody reads the answer.

`Session` instantiates `RefreshSession`, as `TokenManager` does: `outstanding` is the token in the
body of the call that holds the lock, `spent` a history variable, the tokens whose renewal `Store`
stored. A request that ends with the call that awaited it, cancelled, is `Fail` there; a `stray` is
not outstanding, since nobody will act on its answer.

Abstractions: a token set is a number as in `TokenManager`; the race of `_serve` between a frame,
a refusal and the expiry timer is a choice of its outcome; logins, `set_token` and the Smart OTP
poll, a refresh token that expires, `send()`, the book, handlers and `wait()` are left out. Task
names are reused when nobody refers to the task any more.

### RestClient

`call[t]` is the `request()` thread `t` is in: `attempt` counts the 429s waited out by the
outer loop, `tries` the timeouts repeated by `retry_sync` in it, and `sent` (history) how
often the request went out. `limiter` is the `RateLimiter`. `_observe_rate_limit` takes the
lock of the limiter twice, so `Answer` caps the rate and `Observe`, another step, pauses.

Time is a number of ticks, `Second` of them to a second. Instants are kept relative to now
(`since`, `pause`, `nap`), and a second suffices for `since` because the bucket is full
after it: the state space is finite and no bound on time is needed. Tokens are counted in
parts, `Second` to a token, so that a tick adds exactly `max` parts and no rounding hides an
error; a sleep is rounded up to a tick. Two history variables make the properties
statable: `recent`, the ages of the tokens taken in the last second, newest first, and
`paused`, the ticks left of the longest pause that `request()` has begun, for a spent rate or for a
429 it waits out (a 429 that is raised pauses nobody, section 5). `2^attempt` is the backoff of the
code. An answer is final or a 429; what else a status code means has no effect here.
Left out: the lazily created `httpx` client, `close()`, the choice of the host, and the
async twin, whose control is the same.

### TradingWSClient

`main` connects and closes, `call[c]` is a caller's `request()`, `reader[s]` the `_read_loop`
thread started for socket `s`, `sock[s]` the connection with what is on its way. What runs under
`self._lock` is one action. A queue is the first item put into it, which is the one
`next_response` takes. The id of a command is its caller, request and try, since ids are random
and not reused. The server accepts one encoding or neither, answers in any order, may refuse the
connection after the upgrade, and a broken socket loses what is under way. `recv()` may
raise at any time, also on an open socket that was silent for the timeout it was created with
(`ReadFails`), and the socket is then open without a reader. One thread connects
and closes, and its join of the reader does not time out. Pings, the rate-limit hold and frames
for `on_event` are left out. `Setups` chooses the instance: the encoding asked for, a key or none,
and what the server accepts.

`Service` instantiates `CommandService`, which knows no connection, reader, queue or encoding: a
caller asks, one message of a command whose fate is open may be carried out, callers are told, and
return. `Heard` is what an item in a caller's queue will tell it: a first refused signature tells
nothing yet, because another try follows. `Hopeless` are the commands that will never be carried
out: no message of them was, none is on a wire, and none will be sent any more.

### AsyncTradingWS

The same with tasks of one event loop: an action is what a task does from one `await` that suspends
to the next, so registering a queue and handing the bytes over is one step (`Send`), and the end of
a reader wakes its waiters in the same step. In exchange every task may be cancelled at every such
`await`: `CancelMain`, `Cancel`, and a reader that `close()` cancels before its first step, whose
`finally` never runs. The hold for the rate limit is the place `hold`, left at any moment; `send` is
a command whose bytes are handed over while its `send()` still waits for the buffer. One task,
`main`, connects and closes. A task that was cancelled runs before a handshake ends (`Settled`);
connections nobody refers to any more are used again. `Setups` and `Kinds` choose the instance: key
and encodings, signed commands or not.

`Service` instantiates `CommandService` here, too. `Heard` is what a waiting task will be told by
the item in its queue. A command that finds no connection, or one that was refused, is turned away
in the step that asks, since nothing suspends before (`Ask` allows both). A cancelled task is one
that returns having heard nothing, and its command is `Hopeless` unless a message of it is on a wire
or was carried out.

### Arguments, OrderRequests, TradingWSRequests, Orders

An operation denotes the *set of requests* it sends: `{}` when a check raises
`ValidationError`, one request otherwise (`Checked`). A string is abstracted to what the checks
tell apart, a number to its form and value, a date to its layout and day; an idempotency key is
the caller's or `Generated`. `OrderRequests` follows `trading.py`, builder by builder and
operation by operation, `TradingWSRequests` follows `trading_ws.py`.

`Orders` runs them: an application that makes one call at a time, over any entry point that
sends the order it wants, and that repeats an order of unknown fate only under a key of its own,
as `src/AGENT.md` 68 asks; a network that loses requests or answers and delivers late; an exchange
that accepts each key once. Application, network and exchange are external.

### MarketDataRequests, MarketData

The same form for the queries. `MarketData` has the loops of `iter_ohlc` / `get_ohlc_all` (end at a
short page), `_get_securities_summary` (end at the page count of the first answer or an empty
page), `_get_master_data` and `_get_corporate_actions` (end at the page count of the last answer),
one `Fetch` per round, with a server whose rows and whose date change between rounds. `rows` gives
each row, by its number, the day it was added on. An answer is a set of rows and a page of it those
of certain ranks (`Rank`), counted from the newest or the oldest. `newest` is whether lists come
newest first. The server refuses bars between bare dates (`Refused` ends the call) and answers
nothing to intraday bars that end in the future, which is what `_with_time` and `_clamp_future_end`
are for. `_with_time` wants days of two digits, `parse_date_arg` does not: a day written without its
leading zeros is a layout of its own, "unpadded".

### StreamingRequests, Streaming

`StreamingRequests` gives each operation as the sequence of requests it sends. `Streaming` has
the callers, of whom `Main` also connects, disconnects, pings and sets callbacks; the receive
thread, which takes one frame and runs its handlers one callback at a time; the ping loops; and a
server that takes, refuses and acknowledges requests in their order. A request is sent in one step
(`Send`) and recorded in the book in another (`Record`), with anything in between, a lost connection
and the next one included. `list_subscription` is five
steps: `on`, send, wait, and the two of `off` (read, write). Acknowledgements carry no id, and all
share one route, as in the code. The server has its own spelling of a topic (`AtServer`): it
upper-cases what follows the type, which changes `market.flag` alone, since codes are upper case
already. What is on the wire and what the server lists is in that spelling, the book holds
what was asked for.

`Subscribed` is what the server will have subscribed once the frames under way have arrived. It is
stated without reading them one by one: a topic is subscribed if it was, or if a frame asks for it,
and no later frame gives it up (`After`). The history variable `revived` holds what a lost connection
makes the next one restore although it was given up: the topics whose unsubscription was sent and
not recorded yet, and `market.FLAG`.

Abstractions: the connection is `WebSocketClient`'s, here down, up or lost; handing a frame to the
socket is one step; a reconnect restores the book in one step, and a setter calls `on()` for both
channels in one; a frame is its route, its topics and its class; the conversion of frames, error
handlers of callbacks and the split of long requests are left out.

## 3. The runs

| Run | Question | Instance |
|---|---|---|
| `token_login` | Do logins, Smart OTP polls, imports and refreshes of several threads ever present a spent refresh token whose successor was not lost, or two at once, and does the manager implement `RefreshSession`? No. / Yes. | 2 threads, 3 token sets, 2 polls, `Calls` = login, import, and `ensure_authenticated` with a Smart OTP transaction, which refreshes or polls |
| `token_refresh` | When threads refresh and read an existing session: does the header follow the token, does a waiter reuse the answer, is only a dead session forgotten, is the lock released? Yes. | 2 threads, 3 token sets, from a logged-in state, fair |
| `stream` | One socket, a disconnect that stops everything, a faithful book, no silent end, a bounded first connect, as long as no join times out? Yes. | 2 supervisors, 3 sockets, 2 timers, 1 topic, 2 retries |
| `stream_live` | Does `connect()` always end, and does a dropped connection come back? Yes. | 1 supervisor, 2 sockets, 1 timer, timeouts |
| `async_stream` | Whatever `await` a cancellation strikes: is a spent token presented only after its answer was lost, does no socket leak, does a disconnect stop everything, does nobody wait for a task that is gone? Yes. | 2 owners, 2 supervisors, 1 more user of the tokens, 2 sockets, 2 token sets, 2 drops, 2 retries |
| `async_hang` | Does `connect()` always return or raise? **No** (finding 1). | the same, no drops, fair |
| `rest` | Is the rate kept, does no pause cut another short, are sends bounded, does somebody always get through? Yes. | 2 threads, 2 ticks a second, rate 0 or 2, limits 0 or 1, waits 0, 3 or 4 with a longest of 3, 1 retry of each kind |
| `trading_ws` | Does the client behave as `CommandService`, is the table exact, is a caller told of a closed connection only when nobody reads it, does `close()` leave nobody waiting? Yes. | 2 callers with 1 command each, 2 sockets, `auto`, a server that takes hex, with and without a key |
| `trading_async` | When tasks are cancelled at any `await`: is what callers are told true, is nobody forgotten by a reader that ended or by a `close()` that ran to its end? Yes. | 1 task that connects and closes, 2 callers with 1 signed command each, 2 sockets, `auto`, a server that takes hex, with and without a key |
| `orders` | Is an order executed once, does a duplicate mean this order, do batches go out whole, do both routes send the same? Yes. | 5 orders (own key, no key, market, negative price, no quantity), 2 conditional orders (a price word, too long a window), 3 calls, batches of 2 |
| `market_data` | Do the loops end with every row, and is no request refused whose days have two digits? Yes. | 2 days, 3 rows, pages of 1 and 2, 5 ranges, fair |
| `streaming` | Is what was given up gone, but for what a lost connection revives (section 5), is a list the answer to its own request, does a frame reach every callback, is there one ping loop? Yes. | 2 callers, 3 calls, 2 ping loops, 1 drop, 1 push, 2 frames each way |

Why the bounds are enough for the question:

- *Two threads* give every pair of operations in every order. Three token sets let one be
  rotated, its successor be replaced by a login and be rotated in its turn, which is one
  more than the shortest violation of any mutant needs. The proofs of section 4 remove the
  bounds for what matters most.
- *Two supervisors* let one outlive its `disconnect()` beside its successor; three sockets
  are the one it holds, the one the client points to, and the one a sender still holds;
  two timers are one past `cancel()` and one armed. With two retries there is a first, a
  last and (with a 401) an extra attempt. Sockets, timers, supervisors, owners, callers and ping
  loops that are interchangeable and unnamed are symmetry sets; no run with a liveness property
  uses one.
- *`async_stream`*: one owner connects while the other disconnects, a cancelled supervisor ends
  beside its successor, and a user waits for the lock that either holds. Two token sets let the
  answer of a refresh be lost after the rotation, which is what reuse needs; two drops let a
  reconnect be dropped again. `ImplementsSession` was checked on this instance before it was
  proved; a temporal property would cost the run its symmetry.
- *`rest`*: rates of 0 (unlimited) and 2, a server limit below the configured rate, waits
  just at and just above the longest wait accepted (the boundary of `_rate_wait`), a wait
  the server does not name (exponential backoff), and both retry loops nested.
- *`trading_ws`*: one command of each of two callers already gives two tries under two ids each,
  so an answer, a refusal or a flip of the shared encoding of the one meets every step of the
  other; two sockets are the one being closed and its successor. The proofs of section 4
  show that more of either changes nothing.
- *`trading_async`*: as `trading_ws`; base64 comes first, so a server that takes hex makes every
  first try fail until one task flips the encoding, the case with all the steps. That the
  client is `CommandService`, so that a command is carried out once, is proved; TLC checked it on
  this instance before (4.7 million states), in more time than the run is given.
- *`orders`*: three calls are an order, its repetition and a change or a batch in between; the five
  orders are one per class the checks tell apart.
- *`market_data`*: three rows in pages of one and two give a full last page, a short one and none;
  one row can be added after each page; ranges are absent, bare dates, timestamps, reversed, and
  a day without its leading zeros.
- *`streaming`*: an operation of three requests and one of one, given up by the same or by the other
  caller, with one lost connection anywhere, also between a send and its record; the topics of
  `unsubscribe_all` are of both channels, `market.flag` among them. The other operations only differ
  in their topics: `EachIsUndone` in `MCStreaming` checks each against its counterpart, and the
  theorem of that name proves it for every argument.

Deadlock is checked except where the system really may stop: when the bounded calls are all made
and everybody rests (`orders`, `market_data`, `streaming`, `async_stream`) and in
`async_hang`.

### Fairness

- `TokenManager!FairSpec`: a thread in a call keeps running, and a request is answered or
  times out (the REST client has timeouts, `config.py`). No fairness for logins elsewhere or
  for expiry.
- `WebSocketClient!FairSpec`: threads keep running; the token provider returns or raises; a
  handshake is answered or times out; a `run_forever` that was told to close ends. The timeout
  of `connect()` is *not* fair, so that `ConnectAnswered` says that the supervisor wakes
  `connect()`, not that its timeout does. That the server and the token provider do not refuse
  for ever is a condition inside `Recovers` (`ServerRecovers`), not part of the specification.
- `RestClient!FairSpec`: time passes, threads run, and a request is answered, times out or
  breaks. Nothing is fair among the callers: `Progress` says that some caller gets through,
  not each; a caller that always wakes late can be overtaken for ever, in the code as well.
- `AsyncStream!FairSpec`: the event loop runs every task that is ready, requests and handshakes
  end, and `asyncio.Lock` serves its waiters in turn (strong fairness of `Acquire`). Calls,
  cancellations, drops and expiry are not fair.
- `MarketData!FairMarketSpec`: a caller that iterates asks for its next page.

## 4. What is proved

Each theorem holds for every value of the constants that satisfies the named assumptions of its
module, in particular for any number of threads, tasks, callers, sockets, token sets and requests.
The assumptions say that the stand-ins for `None` are none of the things they stand beside
(`ThreadsAssumption`, `TasksAssumption`, `ConnsAssumption`, `AppsAssumption`, `SocketsAssumption`,
`LoopAssumption`), that bounds and counts of retries are numbers (`BoundsAssumption`,
`TimesAssumption`, `LimitsAssumption`, `RetriesAssumption`, `BoundAssumption`), that switches are
switches (`SwitchAssumption`, `SetupsAssumption`, `KindsAssumption`, `CallsAssumption`), that pages
have sizes and days are numbers (`MarketAssumption`), and for `Streaming` that the menu of
operations holds what the builders of requests put together, each request of one channel
(`MainAssumption`, `MenuAssumption`, `FramesAssumption`, `ChannelsAssumption`), and that the
connection is lost a number of times (`DropsAssumption`). For `Orders` they say which fields an
order has and that a conditional one has an operator (`OrdersAssumption`, `FieldsAssumption`), and
that the application gives each order a key of its own or none (`KeysAssumption`), which is the part
`src/AGENT.md` 67-68 leaves to it. TLC evaluates them in every run. Where a theorem needs more, its
statement says so and the text below says why.

Each proof has the same plan: an inductive invariant `IInv`, one lemma per action or group of
actions that shows that a step preserves it, and the property from it. TLC checked every `IInv` on
the instance of the run before it was proved.

**TokenManagerProofs** `Inductive`: `Spec => []IInv`, and the same from a logged-in state.
None of `TypeOK`, `SingleFlight`, `NoReuse` is inductive alone. `NoReuse` breaks in a state
where the stored token is a rotated one, or where two threads carry the same new token, so
`IInv` adds: who holds the lock (`LockInv`: exactly the thread inside the `with` block); that
a token set on its way to the client is nowhere else (`Arriving`) and one of another process
was never used here (`ForeignInv`); that a rotated token set that is still stored is about to
be replaced by the thread that rotated it, or its rotation was lost (`HeldInv`), and likewise
for one on the wire (`SentInv`). `SingleFlight` follows from `LockInv`, and `RefreshHasToken`
from the fact that only the lock holder clears the token.

`Refinement`: `Spec => Session!Spec`, and the same from a logged-in state, under `held <- token`,
`outstanding <- Outstanding` (the refresh token on the wire, unique by `LockInv`) and
`spent <- Spent` (the rotated token sets whose successor the client stored). Most steps
stutter; sending is `Present`, storing `Renew`, a rejected refresh `Reject`, a failed one
`Fail`, a login or import `Acquire`.

`RefreshersAgree`, `RefreshesAreNotRepeated` and `OnlyDeadSessionsAreCleared`: with
`Calls \subseteq {"refresh", "ensure"}`, the header follows the token, a waiter does not repeat the
refresh it waited for, and only a dead session is forgotten. They follow from `IInv` and `RInv`
(nobody logs in; the header trails the token only between the two assignments; a token presented is
the one stored; what a waiter saw is what is stored or has been replaced by a newer one). The
hypothesis is needed: section 5 names the counterexample without it.

**WebSocketClientProofs** `FirstConnectIsBounded`, from `BudgetInv`: the passes of the first
connect are paid for, each by a wait that was counted, by the one forced refresh after a 401, or by
the pass under way; the bound alone says nothing of where the next pass comes from.
`NeverStopsSilently` is inductive once the shape of the state is known, and holds with timeouts,
when an old supervisor may run beside a new one. `OneSocketOnly`, `DisconnectLeavesNothing` and
`SubscriptionsRestored` have the hypothesis `~Timeouts`: a join that timed out leaves a supervisor
that the next `connect()` revives, so two sockets are possible (section 5). Their `IInv` says that
the supervisor in `self._supervisor` is the only one alive (`Alone`); that a socket lives exactly
while a supervisor runs it, and is then the client's (`Held`), which is what a sender relies on that
read `_ws` long ago; and that the server has on that socket what the book will hold once the request
under way is recorded (`Tracked`). `TypeCorrect` needs `BudgetInv` as well: that the passes counted
have a bound is the type of a counter.

**AsyncStreamProofs**, with cancellation at any `await`. `ReuseNeedsLoss`: the lock is held by
exactly the call whose request is under way (`LockInv`); that request carries the token held, and
its answer is a token set nobody has had yet (`SentInv`); a rotated token that is still held is
about to be replaced, or its answer was lost (`HeldInv`). `SocketsDoNotLeak`, `DisconnectEndsAll`:
a supervisor that is neither cancelled nor ending is the client's (`ActiveInv`), each other one is
awaited by somebody until it is done (`AwaitedInv`), and a socket is open only while a supervisor is
at a place from which it will close it (`SocketInv`). `WaitsHaveAnEnd`: whoever waits for its first
connection waits for a supervisor that is not done (`FutureInv`) and that, once it is past the
connection or ends, was superseded without being cancelled (`AnsweredInv`).

`Refinement`: `Spec => Session!Spec`, so the asyncio manager keeps the contract of the thread-based
one although its calls can end at any `await`. What makes it so is that the lock and the token on the
wire go together (`LockInv`, `SentInv`): whatever ends the call inside the lock frees both.
`EachTokenOnce`, that contract's `SingleUse`, needs `SpentInv`: a token whose renewal was stored had
been rotated, the token held is none of them, and a renewal that has arrived is of a rotated token.
`ReuseNeedsLoss` and `EachTokenOnce` are the two halves: a token comes back only if its renewal never
came in. `TypeCorrect` is the type invariant.

**RestClientProofs** `SendsAreBounded` from `CallInv`: `sent` is at most the sends of the attempts
already waited out, plus the timeouts of this one, plus the one on its way, and a request that may
not be replayed never counts either. `PausesAreKept` from `PauseInv`: what is left of the limiter's
pause *is* what is left of the longest one begun, which is why a thread that sees no pause can go.
`RateIsBounded` from `RateInv`: the bound on the number of tokens taken in the last second says
nothing of the bucket, so a token taken too early would break it only later. `Paid` relates the two
for each token: the *i* newest, together with what the bucket holds once the time since its last
refill is counted, were in the bucket when the *i*-th was taken, at most a bucketful, or flowed in
since. Taking a token moves it from the bucket to the list, time adds as much to one side as to the
other, and a cap by the server only takes away. `TypeCorrect`, from `Typed`: the tokens in the
bucket stay within the current limit when an answer lowers it, since `Cap` empties the bucket as
well (`LimiterStep`); the ages of the tokens taken grow from the newest to the oldest, so those that
leave the second are the last ones (`RecentTick`); and no wait is negative (`Doubling`: `2^n`, the
backoff, is the number of subsets of a set of *n*, which the library knows to be a natural number).
All four are for any number of callers, any `Retry-After`, any limits and any retry counts.

**TradingWSProofs**. `ExecutedOnce`: "the second try goes
out only after a refusal" is not inductive, because the refusal travels as a frame, through the
reader, into the caller's queue. A command is `Refused` when it was not carried out *and* is on no
wire, so never will be; `IInv` says that a frame "signature" belongs to a refused command wherever
it is (`FramesInv`, and in the queue `CallersInv`), that a caller is in its second try only if the
first is refused, and that a command goes out once (`WireInv`), which is what makes a served
command final. `SecondInv` keeps this after the caller has gone. `PendingHolds` follows step by step.

`TruthInductive`: `TInv` says that only the client's own socket is connected
(`SocketsInv`), that the reader alive is the client's own and ends for a reason (`ReadersInv`), that
what `connect()` and `close()` are at decides both (`MainInv`), and per caller (`Told`) that it is in
the table until told, and waits on the client's own socket. The join in `close()` carries the proof:
without it a reader outlives its connection and wakes the callers of the next. `TruthHolds` and
`CloseHolds` follow. A reader that gives up an idle socket leaves the socket open, so that what a
caller is told is that nobody reads its connection, not that it is closed.

`ServiceImplemented`: `Spec => Service!Spec`. Most steps stutter. A caller that asks is `Ask`, the
server that carries a message out is `CarryOut`, an item that reaches a queue is `Tell` (an end of a
connection tells many callers in one step, which is why `Tell` does), the end of a call is `Return`,
and every one of them may take more commands from being open to being void. Two facts carry the
proof beyond `IInv`. An answer is true wherever it is, in a frame, in the hands of a reader or in a
queue (`FatesInv`), and stays so: "ok" because nothing is taken back, a refusal because the message
is on no wire. And a command without hope stays so (`HopelessStays`), which is where the second try
could break it: its caller may have been told of the first only when no other follows. For
`RefusalsHold` a refusal of the second try must also rule out the first, which `IInv` does, and a
refusal of the first the second, because its caller sends none. `PromiseKept` reads what
`CommandService` promises in each state of the client. `TypeCorrect` is the type invariant; the
refinement rests on it where it says that ids are in bounds.

**AsyncTradingWSProofs** `TasksAreToldTheTruth`, `NobodyIsForgotten`: the same for tasks, where a
cancelled task may leave its queue in the table and a cancelled reader never runs its `finally`. The
invariant has three parts. `Alive`: a reader that is not cancelled is the client's and reads its
socket, and only that socket is open. `Queues`: an id in the table was given out and is of the try
under way or of the first try of a second; a command under way is in the table or has its item.
`Told`: what a queue or a frame holds is true; a reader that has ended told everybody on its socket;
a `close()` that ran to its end emptied the table.

`ServiceImplemented`, `PromiseKept`: the asyncio client is `CommandService`, too. On top of the
above, `FInv` follows the messages: one on a wire went out once and was not carried out yet
(`WireInv`), an answer is true of its command in a frame and in a queue (`AnswersInv`, `CallsInv`),
and of the two messages of any command one at least will never be carried out, the first being
refused before the second goes out, also when the task has gone since (`OnceInv`). Cancellation only
takes away: a command whose task left is sent no more, and what was void stays so (`HopelessStays`).
Both clients thus make the same promise to those who call `request()`.

**StreamingProofs** has the longest argument, because operations of several requests of several
callers run into each other. `EveryoneHears`: a route has its handler while a callback wants it, but
for the callback being set (`TableInv`), and a frame owes itself to the callbacks that want it
(`OwedInv`). `OneLoopOnly`: the thread in `_ping_thread` is the only one alive, and is told to stop
before its successor starts (`LoopInv`). `ListsAreOwn`: while no answer is confused with another,
every listing on its way, there or back, is of the caller that lists (`AnswerInv`).

`AllIsGivenUp`: what `unsubscribe_all` found subscribed is gone when it returns. The server acts on
requests in the order of the wire, so the invariant speaks of `Subscribed`, what will be subscribed
when everything under way has arrived, and of `Present`, which takes away what was `revived` and
adds what the book would restore after a lost connection (`Kept`: what no request has given up that
is not recorded yet, and what both sides spell alike). Of the topics there were at the start of the
call, those still present are in the list the server will send, then in `listed`, then in the
requests that are yet to go (`SeenInv`), and nobody has asked again for one behind the list on the
wire (`WireSeen`). What the book keeps is subscribed (`BookInv`), and nothing of it is being asked
for again (`RecordInv`), or a lost connection would bring a topic back.

`NothingIsLeft`: once every subscription was given up, the book has no topic left, and the server
none but what was revived. It says nothing about a topic while something is active, so `Accounted`
strengthens it: each topic of the book was asked for by an operation that is not given up, and
whoever is giving that one up has not recorded it yet (`HeldInv`); and so with each topic of the
server that was not revived, which whoever gives it up has not sent yet (`ServedInv`). Its
hypothesis `PairsMatch` is that an unsubscription names what its subscription named: `EachIsUndone`
proves for each of the fifteen pairs of the service, and all arguments, that both name the same
topics, so any menu made of them meets it, the run's included.

`TypeCorrect` says more than that values have their types. A request that goes out names topics of
one channel, and this has to hold of the requests that are yet to go and of those `unsubscribe_all`
builds from what a listing found (`OwnInv`, `WireInv`); that the operations start with such requests
is `ChannelsAssumption`, which `EachHasOneChannel` proves of all of them, for all arguments. A route
has one handler at most, also when `off()` writes back what it read before another thread's `on()`
(`RouteInv`, with `kept` in `OwnInv`), which is why `OfOthers` may state the filter of `off()` for
that case alone.

**ServicesProofs**, about `Orders`: `ExecutedOnce`, `DuplicatesArePlaced`. That an intent is booked
once is not inductive: a late request for it may still be on the wire. For an order with a key the
exchange refuses the repetition, provided every entry point sends the order as it is wanted, key
included (`Fits`, `Carries` in `WireInv`, from `SingleWhole` and `BatchWhole`), and what is booked
was booked under that key (`Booked`). An order without a key is protected by the application alone:
`OnceInv` says that it is on the wire once or booked, never both, and `ToldInv` why that lasts,
since an order of which nothing is known was never sent but by the call under way. `AnswersInv` ties
a late answer to its call, so that "duplicate" is never read as the answer about another order.
`BatchesAreWhole` is `Carries`, `BookedAsWanted` is `Booked`, and `TypeCorrect` adds the types of
what travels. `BothRoutesAgree` needs no invariant but the case analysis of the request builders,
conditional orders of all types included (`PlaceOrderBody`, `ConditionalAgrees`).

About `MarketData`: `BarsAreNeverRefused`, from `LoopInv`: a query under way that is for bars, of a
range without unpadded days, has full timestamps at both ends. Each page is built anew, from a clock
that has moved on, and the end may be cut to today; neither brings a bare day back (`BarsTimed`).

`PagesAreComplete`: a loop that ends has every row that was due at its start, for any number of
rows, days and page sizes, and however many rows and days are added meanwhile, but for the two cases
of section 5 (today's range across midnight, rows added in front of a list counted once). That the
rows got are *some* rows says nothing of the ones to come, so `PagesInv` says which: everything that
the query of today selects and ranks before the page to be asked for (`DueInv`), and what was due is
still selected though the query was rebuilt (`QueryInv`), because no row is of a day to come
(`RowsInv`); for a loop that reads the page count once, the pages counted then still cover what is
due. A short page ends the loop with nothing behind it because ranks have no gaps (`RanksFill`): the
rows of rank 1 to *n* are *n* rows, by the theorems about cardinality and without an induction over
lists, which is why an answer is a set with ranks and not a sequence.

`PagesAreFew`: the type invariant, whose part of interest bounds the number of the page asked for. A
full page of size *n* behind *m* rows says that there are *m + n* rows (`FullPageHasRows`, again from
the ranks), and a count of pages is at most the count of rows (`FewPages`), so a loop cannot run
ahead of the rows.

Of the operators: `AfterAppend` and `AfterTail` show that `After`, which is stated in closed form, is
what reading the frames one by one gives. The closed form is there because the frame-by-frame one
is a fold, about which nothing can be proved here: induction over data needs theorems with an
operator as a parameter.

Only model-checked: all liveness (`LockReleased`, `ConnectAnswered`, `Recovers`, `Progress`,
`LoopEnds`), which the prover does not handle. Every invariant and every action property that a
passing run checks is proved as well.

## 5. Disagreements

Shown by a run that stops with a counterexample; `PROJECT.json` quotes the lines.

1. `async_hang`: a `disconnect()` of another task, before the supervisor task's first step,
   cancels a coroutine that was never entered; its `finally` does not run, the future of
   `connect()` is never settled and `connect()` waits for ever (websocket_client.py 221-223,
   459-460). `asyncio.gather(client.connect(), client.disconnect())` does it.

Known from the models, no run of their own. The properties exclude these cases where they say so
and hold in all others; the models contain the behaviour.

- token_manager.py 477: a refresh that the server rejects clears whatever token is stored
  when the answer arrives, also one a login has stored meanwhile.
- token_manager.py 587, 603, 488: `_token` is read again after it was checked; a rejected refresh
  of another thread in between makes the call raise an `AttributeError` or return `None`.
- websocket_client.py 674, 644: after a join that timed out, the next `connect()` clears the flag
  the old supervisor would have stopped for, and two sockets are open.
- websocket_client.py 669, 884: `close()` before `run_forever` has no effect, and the closing flag
  is not looked at until it returns.
- websocket_client.py 809: the flag that forces a refresh is reset when the provider fails, the
  memory that one was forced is not: the next 401 "failed after refreshing".
- websocket_client.py 729: a request is recorded after it was sent; a socket replaced in between is
  restored without it (`RestoredUnlessOvertaken` excludes this by `overtaken`), and a topic given up
  by it is restored, so that the server has it after the unsubscription, or `unsubscribe_all`, has
  returned (`revived` in `Streaming`). A subscription recorded after `disconnect()` stays in the
  book, which the next connection restores.
- services/streaming.py 82-83, transport/reconnect.py 138: `unsubscribe_all` gives up what the server
  lists, "market.FLAG", and the book drops exact names: its "market.flag" stays, and every later
  connection restores it (`revived`, too).
- websocket_client.py 238: a `disconnect()` that resumes late closes the connection and forgets the
  book of a newer `connect()`; cancelling a task in a refresh loses the rotated token
  (token_manager.py 264), and the next refresh presents the spent one.
- rest_client.py 532: the sends of `retry_sync` after a timeout do not ask the limiter. 537-540 (in
  the asyncio client 337-340): a 429 that is not waited out (the request may not be replayed, the
  wait is too long, the retries are spent) is raised before `pause()`, so the other callers of the
  limiter go out during the `Retry-After` the server has asked for; `PausesKept` is about the pauses
  begun.
- transport/trading_ws.py 622, 829: the timeout given to the connection, 10 s by default, is shorter
  than the 30 s between pings, so `recv()` raises on an open socket on which nothing came in; the
  `finally` of the reader (850) wakes its waiters with "connection closed before the response
  arrived" (783). The socket is open without a reader: later commands go out on it and time out
  until somebody calls `close()` and `connect()`. `ToldTheTruth` says that nobody reads the socket.
- transport/trading_ws.py 359: `close()` of the asyncio client awaits the end of the connection with
  `_ws` already `None`, so a `connect()` of another task can open one meanwhile, whose commands
  are then told by the `_fail_pending()` of 360 that it is closed. The model has one task for
  both.
- transport/trading_ws.py 821: any `TradingWSError` of the second try is raised as "refused with
  both signatures", a business refusal included.
- transport/trading_ws.py 406: a task cancelled while its `send` waits has registered its queue and
  not yet entered the `try` of `stream()` (453), which promises that "the queue is released on exit"
  (451); the queue stays in the table until the connection ends.
- transport/trading_ws.py 355: a `close()` cancelled while it waits for the reader leaves a
  connection without one; `connect()` returns at once (307) and commands wait for their timeouts
  (`NobodyForgotten` leaves this out).
- services/streaming.py 1255: a second `on_response` replaces the handler of the first, so the
  acknowledgement of an earlier request reaches the later caller; 1550: replies to
  `list_subscription` carry no id, so a late one answers the next call (`muddled`); 1291: a join that
  timed out revives the old ping loop (`late`); a loop ended by a lost connection is not restarted.
- services/market_data.py 144: `_with_time` completes a day of two-digit month and day only, while
  `parse_date_arg` (utils/validator.py 147-149) accepts "2026/7/1" as well: that goes out without a
  time, and the server refuses it (`NeverRefused` is about `Padded` ranges). The repository does not
  say whether the server accepts a timestamp without leading zeros; the model lets it.
- services/market_data.py 1158: `iter_ohlc` without a range computes today's for each page; 1676:
  `_get_securities_summary` reads the page count once. Rows are missed after midnight, or when rows
  are added in front. `get_today_orders` and `get_historical_orders` fetch the first page only.
- models/fco.py 100: the slip of a conditional order whose price is a `Decimal` is sent as 0, though
  line 91 says that a numeric price keeps its slip (`OrderRequests!PriceAndSlip`).
- services/trading.py 233: a batch accepts a negative price that `place_order` refuses; conditional
  orders check neither quantity nor price and have no idempotency key; a repeated batch has a new
  batch id; `order_id=""` counts as absent.

## 6. Plan

What is left, in this order:

1. The lengths of waits (`backoff_delay`, `rate_limit_wait`, `seconds_until_refresh`,
   reconnect.py) and `split_request` (dispatch.py 92-114) against reference definitions.
2. `_on_open` iterating over the book while `send()` records into it (websocket_client.py 914).

## 7. Not modelled

- `client.py` and `config.py` beyond the token provider: attributes that are set once and values
  read from the environment.
- Data classes and their conversions from JSON, enumerations, formatting, signing, random ids,
  redaction, logging: no state and no control a model could get wrong. Where a property depends on
  a conversion (a price and its slip, a topic, a date with its time of day) the request modules
  model what it does.
- The asyncio twins of the services and of the REST client: the same statements as the
  thread-based ones, with suspension points instead of preemption. What cancellation adds is
  modelled where there is shared state it can leave behind: the token manager and both WebSocket
  clients.
- The account service: one GET without arguments.

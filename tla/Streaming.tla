------------------------------ MODULE Streaming ------------------------------
(***************************************************************************)
(* services/streaming.py, the thread-based StreamingService, on top of the *)
(* handler table of WebSocketClient (on, off, _dispatch).  Four kinds of   *)
(* threads meet in one service:                                            *)
(*   Callers   subscribe, unsubscribe and list; one of them, Main, also    *)
(*             connects, disconnects, pings and sets the callbacks;        *)
(*   reader    the receive thread, which runs every handler;               *)
(*   loops     the ping loops;                                             *)
(*   server    answers the frames of the connection in their order.        *)
(* The connection itself is WebSocketClient's: here a frame goes out and   *)
(* is then recorded, a lost connection forgets the frames under way, and   *)
(* the next one restores the topics of the book.                           *)
(***************************************************************************)
EXTENDS StreamingRequests

CONSTANTS
  Callers, Main,  \* application threads; Main is one of them
  Menu,           \* per caller: operations with their arguments (pair, method, requests)
  Frames,         \* what the server pushes: channel and class
  Settable,       \* the callbacks the application sets
  MaxCalls,       \* bound on the calls
  MaxPush,        \* bound on the frames the server pushes
  MaxDrops,       \* bound on the connections that are lost
  MaxWire,        \* bound on the frames under way in one direction
  Loops, NoLoop   \* bound on the ping loops alive at once; None

ASSUME MainAssumption == Main \in Callers
ASSUME LoopAssumption == NoLoop \notin Loops
\* What the builders of StreamingRequests put together, and the frames pushed.
ASSUME MenuAssumption ==
  \A c \in Callers : \A op \in Menu[c] :
    /\ op.pair # "none" /\ op.method \in Methods
    /\ op.requests \in Seq({m \in Requests : m.method = op.method})
OneChannel(topics) == Cardinality({t.channel : t \in topics}) = 1
ASSUME ChannelsAssumption ==
  \A c \in Callers : \A op \in Menu[c] :
    \A i \in DOMAIN op.requests : OneChannel(op.requests[i].topics)
ASSUME DropsAssumption == MaxDrops \in Nat
ASSUME FramesAssumption == \A f \in Frames : f.channel \in {"data", "trading", "heartbeat"}

\* The typed callbacks and the class of message each one wants.
TypedData    == {"market_flag", "index_summary"}
TypedTrading == {"order", "order_match", "portfolio"}
General      == [data |-> "on_data", trading |-> "on_trading"]

VARIABLES
  link,     \* the connection: its state, the book, how often it was lost
  wire,     \* frames on their way to the server
  back,     \* frames on their way to the reader
  server,   \* the topics the server has subscribed on this connection
  table,    \* the handler of each route, or None
  call,     \* per caller: pc and locals of the operation under way
  calls,    \* how many calls were made
  callback, \* the callbacks that are set
  main,     \* pc of the operations only Main runs, with the callback it sets
  reader,   \* the frame being handled, and the callbacks it has yet to reach
  pushed,   \* how many frames the server pushed
  ping,     \* _ping_stop, _ping_thread, and whether a join timed out
  loop,     \* pc of each ping loop
  active,   \* history: the subscriptions asked for and not given up
  stray,    \* history: pings the loops sent since disconnect(), -1 once ping() ran
  revived   \* history: topics a connection restores after they were given up

vars == <<link, wire, back, server, table, call, calls, callback, main, reader, pushed,
          ping, loop, active, stray, revived>>

\* The handler of the service itself; a frame nobody waits for.
Nobody == <<Main, 0>>
Idle   == [pc |-> "idle", todo |-> <<>>, ack |-> FALSE, n |-> 0, undo |-> "none",
           adds |-> "none", all |-> FALSE, arrived |-> FALSE, from |-> Nobody,
           listed |-> {}, kept |-> <<>>, before |-> {}, muddled |-> FALSE]
NoFrame == [kind |-> "none", by |-> Nobody, channel |-> "none", topics |-> {}, class |-> "none"]
Frame(kind, by, channel, topics) ==
  [NoFrame EXCEPT !.kind = kind, !.by = by, !.channel = channel, !.topics = topics]

Init ==
  /\ link = [state |-> "down", book |-> {}, drops |-> 0]
  /\ wire = <<>> /\ back = <<>> /\ server = {}
  /\ table = [r \in {"data", "trading", "heartbeat", "list", "ack"} |-> <<>>]
  /\ call = [c \in Callers |-> Idle]
  /\ calls = 0
  /\ callback = {}
  /\ main = [pc |-> "idle", key |-> "none"]
  /\ reader = [pc |-> "idle", frame |-> NoFrame, owed |-> {}]
  /\ pushed = 0
  /\ ping = [stop |-> FALSE, thread |-> NoLoop, late |-> FALSE]
  /\ loop = [l \in Loops |-> "ended"]
  /\ active = {}
  /\ stray = -1
  /\ revived = {}

-----------------------------------------------------------------------------
Up == link.state = "up"
At(c, label) == call[c].pc = label
Free(c) == At(c, "idle") /\ (c = Main => main.pc = "idle")
Id(c) == <<c, call[c].n>>
Room(frames) == Len(frames) < MaxWire

Taken(topics, frame) ==
  IF frame.kind = "subscribe" THEN topics \union frame.topics
  ELSE IF frame.kind = "unsubscribe" THEN topics \ frame.topics ELSE topics

\* What the server has subscribed, in its own spelling, once it has read what
\* is on its way: what it has, and what a frame asks for, unless a later frame
\* gives it up; or what the next connection will restore.
GivenUp(t, i, frames) ==
  \E j \in DOMAIN frames :
    j > i /\ frames[j].kind = "unsubscribe" /\ t \in frames[j].topics
AskedBy(frames, i) == IF frames[i].kind = "subscribe" THEN frames[i].topics ELSE {}
After(topics, frames) ==
  {t \in topics : ~GivenUp(t, 0, frames)}
    \union UNION {{t \in AskedBy(frames, i) : ~GivenUp(t, i, frames)} : i \in DOMAIN frames}
Subscribed == IF Up THEN After(server, wire) ELSE Named(link.book)

\* WebSocketClient.send: the frame goes out, read by the server in its own
\* spelling, and then the book records the request as it was made.
Sent(by, m) ==
  wire' = Append(wire, Frame(m.method, by,
                             IF m.topics = {} THEN "heartbeat"
                             ELSE (CHOOSE t \in m.topics : TRUE).channel, Named(m.topics)))
Recorded(book, m) == IF m.method = "subscribe" THEN book \union m.topics ELSE book \ m.topics

\* The topics of the frames that went out and are not recorded yet.
Recording(method) ==
  UNION {Named(Head(call[c].todo).topics) :
           c \in {d \in Callers : At(d, "record") /\ Head(call[d].todo).method = method}}

-----------------------------------------------------------------------------
(* Subscribing and unsubscribing                                           *)

\* An operation whose arguments are refused raises before anything is sent.
\* Giving up a subscription counts unless somebody asks for it meanwhile.
Start(c) ==
  /\ Free(c) /\ calls < MaxCalls
  /\ calls' = calls + 1
  /\ \E op \in Menu[c], ack \in BOOLEAN :
       LET adds    == op.method = "subscribe"
           clashes == \E d \in Callers \ {c} : call[d].adds = op.pair
       IN /\ ack => adds
          /\ op.requests # <<>>
          /\ call' = [d \in Callers |->
               IF d = c
               THEN [Idle EXCEPT !.pc = IF ack THEN "on" ELSE "send", !.n = call[c].n + 1,
                                 !.todo = op.requests, !.ack = ack,
                                 !.adds = IF adds THEN op.pair ELSE "none",
                                 !.undo = IF adds \/ clashes THEN "none" ELSE op.pair]
               ELSE IF adds /\ call[d].undo = op.pair
                    THEN [call[d] EXCEPT !.undo = "none"] ELSE call[d]]
          /\ active' = IF adds THEN active \union {op.pair} ELSE active
  /\ UNCHANGED <<link, wire, back, server, table, callback, main, reader, pushed, ping, loop,
                 stray, revived>>

\* Mutant: the handler of acknowledgements takes the route of the channel.
OwnChannel == "data"

AckRoute == "ack"

\* _subscribe registers the caller's handler for acknowledgements ...
Register(c) ==
  /\ At(c, "on")
  /\ table' = [table EXCEPT ![AckRoute] = <<Id(c)>>]
  /\ call' = [call EXCEPT ![c].pc = "send"]
  /\ UNCHANGED <<link, wire, back, server, calls, callback, main, reader, pushed, ping, loop,
                 active, stray, revived>>

\* What the others of unsubscribe_all lose when topics are asked for again.
Asked(c, d, m) ==
  IF m.method = "subscribe" THEN call[d].before \ Named(m.topics) ELSE call[d].before

\* ... and sends the request ...
Send(c) ==
  /\ At(c, "send") /\ Up /\ Room(wire)
  /\ LET m == Head(call[c].todo)
     IN /\ Sent(IF call[c].ack THEN Id(c) ELSE Nobody, m)
        /\ call' = [d \in Callers |->
             IF d = c THEN [call[c] EXCEPT !.pc = "record"]
             ELSE [call[d] EXCEPT !.before = Asked(c, d, m)]]
        /\ revived' = revived \ Named(m.topics)
  /\ UNCHANGED <<link, back, server, table, calls, callback, main, reader, pushed, ping, loop,
                 active, stray>>

\* ... which is recorded whatever became of the connection meanwhile.  The next
\* request follows, or the operation is done.
Record(c) ==
  /\ At(c, "record")
  /\ link' = [link EXCEPT !.book = Recorded(@, Head(call[c].todo))]
  /\ LET rest == Tail(call[c].todo)
         next == IF rest # <<>> THEN (IF call[c].ack THEN "on" ELSE "send")
                 ELSE IF call[c].all THEN "returned" ELSE "idle"
     IN /\ call' = [call EXCEPT ![c] =
             [call[c] EXCEPT !.todo = rest,
                             !.adds = IF rest = <<>> THEN "none" ELSE call[c].adds,
                             !.pc = next]]
        /\ active' = IF rest = <<>> THEN active \ {call[c].undo} ELSE active
  /\ UNCHANGED <<wire, back, server, table, calls, callback, main, reader, pushed, ping, loop,
                 stray, revived>>

\* An operation of several requests stops at the first that cannot be sent.
SendFails(c) ==
  /\ At(c, "send") /\ ~Up
  /\ call' = [call EXCEPT ![c] = [Idle EXCEPT !.n = call[c].n]]
  /\ UNCHANGED <<link, wire, back, server, table, calls, callback, main, reader, pushed, ping,
                 loop, active, stray, revived>>

-----------------------------------------------------------------------------
(* list_subscription and unsubscribe_all                                   *)

\* The answer names no request.  A call is muddled when one of an earlier or
\* of another call may still come.
Unanswered == (\E i \in DOMAIN wire : wire[i].kind = "list")
                \/ (\E i \in DOMAIN back : back[i].kind = "listed")
Listing(c) == call[c].pc \in {"list_on", "list_send", "list_wait", "off", "off_write"}

StartList(c) ==
  /\ Free(c) /\ calls < MaxCalls
  /\ calls' = calls + 1
  /\ \E all \in BOOLEAN :
       LET muddled == Unanswered \/ \E d \in Callers \ {c} : Listing(d)
       IN call' = [d \in Callers |->
            IF d = c
            THEN [Idle EXCEPT !.pc = "list_on", !.n = call[c].n + 1, !.all = all,
                              !.before = IF all THEN Subscribed \ Recording("subscribe")
                                         ELSE {},
                              !.muddled = muddled]
            ELSE IF Listing(d) THEN [call[d] EXCEPT !.muddled = TRUE] ELSE call[d]]
  /\ UNCHANGED <<link, wire, back, server, table, callback, main, reader, pushed, ping, loop,
                 active, stray, revived>>

ListOn(c) ==
  /\ At(c, "list_on")
  /\ table' = [table EXCEPT !["list"] = <<Id(c)>>]
  /\ call' = [call EXCEPT ![c].pc = "list_send"]
  /\ UNCHANGED <<link, wire, back, server, calls, callback, main, reader, pushed, ping, loop,
                 active, stray, revived>>

ListSend(c) ==
  /\ At(c, "list_send")
  /\ \/ /\ Up /\ Room(wire)
        /\ wire' = Append(wire, Frame("list", Id(c), "none", {}))
        /\ call' = [call EXCEPT ![c].pc = "list_wait"]
     \/ /\ ~Up
        /\ call' = [call EXCEPT ![c].pc = "off", ![c].arrived = FALSE]
        /\ UNCHANGED wire
  /\ UNCHANGED <<link, back, server, table, calls, callback, main, reader, pushed, ping, loop,
                 active, stray, revived>>

\* Mutant: whatever has arrived when the wait ends is returned.
AnyTime(c) == TRUE

Arrived(c) == call[c].arrived

\* The answer came, or the wait timed out; `finally' follows either way.
ListWait(c) ==
  /\ At(c, "list_wait")
  /\ call' = [call EXCEPT ![c].pc = "off", ![c].arrived = Arrived(c)]
  /\ UNCHANGED <<link, wire, back, server, table, calls, callback, main, reader, pushed, ping,
                 loop, active, stray, revived>>

\* off() reads the handlers of the route, of which there is one at most, and
\* writes back those of others.
OfOthers(handlers, h) == IF handlers = <<h>> THEN <<>> ELSE handlers

Off(c) ==
  /\ At(c, "off")
  /\ call' = [call EXCEPT ![c].pc = "off_write",
                          ![c].kept = OfOthers(table["list"], Id(c))]
  /\ UNCHANGED <<link, wire, back, server, table, calls, callback, main, reader, pushed, ping,
                 loop, active, stray, revived>>

\* Then the call raises, returns the list, or gives up what was listed.
OffWrite(c) ==
  /\ At(c, "off_write")
  /\ table' = [table EXCEPT !["list"] = call[c].kept]
  /\ LET requests == IF call[c].all THEN UnsubscribeListed(call[c].listed) ELSE <<>>
     IN call' = [call EXCEPT ![c] =
          IF ~@.arrived THEN [Idle EXCEPT !.n = call[c].n]
          ELSE [@ EXCEPT !.todo = requests, !.kept = <<>>, !.listed = {},
                         !.pc = IF requests # <<>> THEN "send" ELSE "returned"]]
  /\ UNCHANGED <<link, wire, back, server, calls, callback, main, reader, pushed, ping, loop,
                 active, stray, revived>>

Return(c) ==
  /\ At(c, "returned")
  /\ call' = [call EXCEPT ![c] = [Idle EXCEPT !.n = call[c].n]]
  /\ UNCHANGED <<link, wire, back, server, table, calls, callback, main, reader, pushed, ping,
                 loop, active, stray, revived>>

-----------------------------------------------------------------------------
(* The callbacks                                                           *)

Wants(set, channel) ==
  (set \intersect ({General[channel]} \union
                    (IF channel = "data" THEN TypedData ELSE TypedTrading))) # {}

\* The setters: assign the callback, then install one handler per channel.
SetCallback ==
  /\ main.pc = "idle" /\ Free(Main) /\ calls < MaxCalls
  /\ calls' = calls + 1
  /\ \E key \in Settable :
       /\ main' = [main EXCEPT !.pc = "refresh", !.key = key]
       /\ callback' = IF key \in callback THEN callback \ {key} ELSE callback \union {key}
       /\ reader' = [reader EXCEPT !.owed = @ \ {key}]
  /\ UNCHANGED <<link, wire, back, server, table, call, pushed, ping, loop, active,
                 stray, revived>>

\* on() replaces the handler of a route; on(None) removes it.  The heartbeat
\* has one callback and its setter installs that handler only.
RefreshHandlers ==
  /\ main.pc = "refresh"
  /\ LET heartbeat == main.key = "on_heartbeat"
         own(wanted) == IF wanted THEN <<Nobody>> ELSE <<>>
     IN table' = [r \in DOMAIN table |->
          IF heartbeat /\ r = "heartbeat" THEN own("on_heartbeat" \in callback)
          ELSE IF ~heartbeat /\ r \in {"data", "trading"} THEN own(Wants(callback, r))
          ELSE table[r]]
  /\ main' = [main EXCEPT !.pc = "idle", !.key = "none"]
  /\ UNCHANGED <<link, wire, back, server, call, calls, callback, reader, pushed, ping, loop,
                 active, stray, revived>>

-----------------------------------------------------------------------------
(* The receive thread                                                      *)

\* The callbacks that want a frame: the channel's own, and that of its class.
For(frame, set) ==
  IF frame.channel = "heartbeat" THEN set \intersect {"on_heartbeat"}
  ELSE IF frame.channel \in {"data", "trading"}
  THEN (set \intersect {General[frame.channel]}) \union
       (IF frame.class \in (IF frame.channel = "data" THEN TypedData ELSE TypedTrading)
        THEN set \intersect {frame.class} ELSE {})
  ELSE {}

\* The answer to LIST_SUBSCRIPTION runs the handler that is installed now, if
\* its call has not returned.
Answer(frame) ==
  IF frame.kind = "listed" /\ table["list"] # <<>>
  THEN LET h == table["list"][1]
       IN [c \in Callers |->
             IF Id(c) = h /\ Listing(c)
             THEN [call[c] EXCEPT !.listed = frame.topics, !.from = frame.by, !.arrived =
                     IF call[c].pc \in {"list_on", "list_send", "list_wait"} THEN TRUE ELSE @]
             ELSE call[c]]
  ELSE call

Receive ==
  /\ reader.pc = "idle" /\ back # <<>>
  /\ back' = Tail(back)
  /\ LET frame == Head(back)
         runs  == \E r \in Routes(frame) \ {"list", "ack"} : table[r] = <<Nobody>>
     IN /\ reader' = [pc |-> IF runs THEN "handle" ELSE "idle",
                      frame |-> IF runs THEN frame ELSE NoFrame,
                      owed |-> For(frame, callback) \ {main.key}]
        /\ call' = Answer(frame)
  /\ UNCHANGED <<link, wire, server, table, calls, callback, main, pushed, ping, loop, active,
                 stray, revived>>

\* _deliver: an error of one callback does not keep the frame from the others.
Handle ==
  /\ reader.pc = "handle"
  /\ reader' = [pc |-> "idle", frame |-> NoFrame,
                owed |-> reader.owed \ For(reader.frame, callback)]
  /\ UNCHANGED <<link, wire, back, server, table, call, calls, callback, main, pushed, ping,
                 loop, active, stray, revived>>

-----------------------------------------------------------------------------
(* ping                                                                    *)

\* One ping, sent by Main itself.
Ping ==
  /\ Free(Main) /\ calls < MaxCalls /\ Up /\ Room(wire)
  /\ calls' = calls + 1
  /\ wire' = Append(wire, Frame("ping", Nobody, "heartbeat", {}))
  /\ UNCHANGED <<link, back, server, table, call, callback, main, reader, pushed, ping, loop,
                 active, stray, revived>>

\* ping(interval): stop the loop there is, wait for it, start another.
PingStart ==
  /\ Free(Main) /\ calls < MaxCalls
  /\ calls' = calls + 1
  /\ main' = [main EXCEPT !.pc = "ping_join"]
  /\ ping' = [ping EXCEPT !.stop = TRUE]
  /\ stray' = -1
  /\ UNCHANGED <<link, wire, back, server, table, call, callback, reader, pushed, loop, active,
                 revived>>

LoopEnded == ping.thread # NoLoop => loop[ping.thread] = "ended"

\* Mutant: the loop that is told to stop is not waited for.
NotJoined == TRUE

LoopJoined == LoopEnded

PingJoin ==
  /\ main.pc = "ping_join"
  /\ LoopJoined
  /\ main' = [main EXCEPT !.pc = "ping_start"]
  /\ UNCHANGED <<link, wire, back, server, table, call, calls, callback, reader, pushed, ping,
                 loop, active, stray, revived>>

\* The join ends after interval + 1 s; a loop held up in a send outlives it.
PingJoinTimeout ==
  /\ main.pc = "ping_join"
  /\ ping.thread # NoLoop /\ loop[ping.thread] = "sending"
  /\ main' = [main EXCEPT !.pc = "ping_start"]
  /\ ping' = [ping EXCEPT !.late = TRUE]
  /\ UNCHANGED <<link, wire, back, server, table, call, calls, callback, reader, pushed, loop,
                 active, stray, revived>>

PingRun ==
  /\ main.pc = "ping_start"
  /\ \E l \in Loops :
       /\ loop[l] = "ended"
       /\ loop' = [loop EXCEPT ![l] = "waiting"]
       /\ ping' = [ping EXCEPT !.stop = FALSE, !.thread = l]
  /\ main' = [main EXCEPT !.pc = "idle"]
  /\ UNCHANGED <<link, wire, back, server, table, call, calls, callback, reader, pushed, active,
                 stray, revived>>

\* _ping_loop: wait for the interval or for the stop, then send.
LoopWakes(l) ==
  /\ loop[l] = "waiting"
  /\ loop' = [loop EXCEPT ![l] = IF ping.stop THEN "ended" ELSE "sending"]
  /\ UNCHANGED <<link, wire, back, server, table, call, calls, callback, main, reader, pushed,
                 ping, active, stray, revived>>

\* A WebSocketError ends the loop, for good.  The frames of the loop are those
\* of Ping and are not followed.
LoopSends(l) ==
  /\ loop[l] = "sending"
  /\ loop' = [loop EXCEPT ![l] = IF Up THEN "waiting" ELSE "ended"]
  /\ stray' = IF Up /\ stray \in 0..1 THEN stray + 1 ELSE stray
  /\ UNCHANGED <<link, wire, back, server, table, call, calls, callback, main, reader, pushed,
                 ping, active, revived>>

-----------------------------------------------------------------------------
(* The connection and the server                                           *)

\* A connection that opens, the first one too, restores what the book holds.
Opens ==
  /\ link' = [link EXCEPT !.state = "up"]
  /\ server' = Named(link.book)

Connect ==
  /\ Free(Main) /\ link.state = "down"
  /\ Opens
  /\ UNCHANGED <<wire, back, table, call, calls, callback, main, reader, pushed, ping, loop,
                 active, stray, revived>>

LoopTold == TRUE

\* disconnect() tells the ping loop to stop but does not wait for it; the
\* client forgets the topics.
Disconnect ==
  /\ Free(Main) /\ link.state # "down" /\ calls < MaxCalls
  /\ calls' = calls + 1
  /\ link' = [link EXCEPT !.state = "down", !.book = {}]
  /\ wire' = <<>> /\ back' = <<>> /\ server' = {}
  /\ ping' = [ping EXCEPT !.stop = LoopTold]
  /\ stray' = 0 /\ revived' = {}
  /\ active' = {call[c].adds : c \in Callers} \ {"none"}
  /\ call' = [c \in Callers |-> [call[c] EXCEPT !.undo = "none"]]
  /\ UNCHANGED <<table, callback, main, reader, pushed, loop>>

\* The connection is lost with the frames under way.  What the book still holds
\* although it was given up is subscribed again: topics whose request is not yet
\* recorded, and market.flag, which unsubscribe_all asks the book to drop by the
\* name the server has for it ...
Drop ==
  /\ Up /\ link.drops < MaxDrops
  /\ link' = [link EXCEPT !.state = "lost", !.drops = @ + 1]
  /\ wire' = <<>> /\ back' = <<>> /\ server' = {}
  /\ revived' = (Named(link.book) \intersect {AtServer(FlagTopic)})
                  \union Recording("unsubscribe")
  /\ UNCHANGED <<table, call, calls, callback, main, reader, pushed, ping, loop, active, stray>>

\* ... and the next one opens.
Reopen ==
  /\ link.state = "lost"
  /\ Opens
  /\ UNCHANGED <<wire, back, table, call, calls, callback, main, reader, pushed, ping, loop,
                 active, stray, revived>>

\* The server takes the next frame and answers it; it may refuse a topic.
ServerTakes ==
  /\ Up /\ wire # <<>> /\ Room(back)
  /\ wire' = Tail(wire)
  /\ LET frame == Head(wire) IN
     /\ \/ server' = Taken(server, frame) /\ UNCHANGED call
        \/ /\ frame.kind = "subscribe"
           /\ call' = [c \in Callers |-> [call[c] EXCEPT !.before = @ \ frame.topics]]
           /\ UNCHANGED server
     /\ back' = Append(back,
          IF frame.kind = "list" THEN Frame("listed", frame.by, "none", server)
          ELSE Frame("ack", frame.by, frame.channel, {}))
  /\ UNCHANGED <<link, table, calls, callback, main, reader, pushed, ping, loop, active,
                 stray, revived>>

\* Bounded to a reader that has caught up and callbacks that are in use.
ServerPushes ==
  /\ Up /\ pushed < MaxPush /\ back = <<>> /\ callback # {}
  /\ pushed' = pushed + 1
  /\ \E f \in Frames :
       back' = Append(back, [NoFrame EXCEPT !.kind = "push", !.channel = f.channel,
                                            !.class = f.class])
  /\ UNCHANGED <<link, wire, server, table, call, calls, callback, main, reader, ping, loop,
                 active, stray, revived>>

-----------------------------------------------------------------------------
CallerStep(c) ==
  Start(c) \/ Register(c) \/ Send(c) \/ Record(c) \/ SendFails(c) \/ StartList(c) \/ ListOn(c)
    \/ ListSend(c) \/ ListWait(c) \/ Off(c) \/ OffWrite(c) \/ Return(c)

LoopStep(l) == LoopWakes(l) \/ LoopSends(l)

MainStep ==
  SetCallback \/ RefreshHandlers \/ Ping \/ PingStart \/ PingJoin \/ PingJoinTimeout
    \/ PingRun \/ Connect \/ Disconnect

Next ==
  \/ \E c \in Callers : CallerStep(c)
  \/ \E l \in Loops : LoopStep(l)
  \/ MainStep
  \/ Receive \/ Handle
  \/ Drop \/ Reopen \/ ServerTakes \/ ServerPushes

Spec == Init /\ [][Next]_vars

-----------------------------------------------------------------------------
(* Properties                                                              *)

\* What is sent names topics of one channel, and the handlers are those of
\* calls or the service's own.
TypeOK ==
  /\ link \in [state : {"down", "lost", "up"}, book : SUBSET link.book, drops : 0..MaxDrops]
  /\ \A i \in DOMAIN wire :
       wire[i].kind \in {"subscribe", "unsubscribe"} => OneChannel(wire[i].topics)
  /\ \A r \in DOMAIN table : Len(table[r]) <= 1 /\ Range(table[r]) \subseteq Callers \X Nat
  /\ \A c \in Callers : call[c].pc \in {"send", "record"} => call[c].todo # <<>>
  /\ callback \subseteq Settable
  /\ loop \in [Loops -> {"ended", "waiting", "sending"}]
  /\ stray \in -1..2

\* Every subscription that was given up with the arguments it was asked for
\* with is gone, from the book, and from the server too unless the connection
\* was lost after the request went out and before the book recorded it.
NothingLeft == active = {} => link.book = {} /\ Subscribed \subseteq revived

\* list_subscription returns the answer to its own request, unless one of an
\* earlier or of a concurrent call was still due: a call that timed out must
\* not leave anything behind that answers the next.
ListAnswersItsOwn ==
  \A c \in Callers :
    call[c].arrived /\ call[c].pc \in {"send", "record", "returned"} /\ ~call[c].muddled
      => call[c].from = Id(c)

\* When unsubscribe_all returns, nothing the server had accepted when it was
\* called is subscribed, unless it was asked for again meanwhile.  A connection
\* that is lost in between, or before the caller goes on, brings back only
\* topics given up but not yet recorded then, and market.flag.
AllGivenUp ==
  \A c \in Callers :
    At(c, "returned") /\ ~call[c].muddled
      => Subscribed \intersect call[c].before \subseteq revived

\* A frame reaches every callback that wanted it when it was received and
\* still does, although others fail, come and go, and acknowledgements have
\* handlers of their own.
HeardByAll == reader.pc = "idle" => reader.owed = {}

\* ping(interval) replaces the loop: there is never a second, and after
\* disconnect() it sends one ping at most, the one it was about to send,
\* however soon the application connects again; unless it was held up in a
\* send for longer than the join waits.
OnePingLoop ==
  ~ping.late => stray <= 1 /\ Cardinality({l \in Loops : loop[l] # "ended"}) <= 1
=============================================================================

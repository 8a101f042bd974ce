--------------------------- MODULE StreamingProofs ---------------------------
(***************************************************************************)
(* The safety of the streaming service, for every number of callers, loops *)
(* and frames and every menu of operations.  IInv is inductive on its own  *)
(* and gives four of the five invariants.  NothingLeft needs Accounted as  *)
(* well: every topic of the book, and every one the server has but for     *)
(* those a lost connection revived, belongs to a subscription that was not *)
(* given up, and to no operation that has passed it by in giving it up.    *)
(* That one holds for menus in which giving up a pair names what asking    *)
(* for it named (PairsMatch); EachIsUndone shows that the operations of    *)
(* the service are such pairs.  TypeCorrect needs Typed, on the requests   *)
(* of a call and the handlers of a route, and that a request names topics  *)
(* of one channel (ChannelsAssumption), which EachHasOneChannel shows of   *)
(* the operations.                                                         *)
(***************************************************************************)
EXTENDS Streaming, FiniteSetTheorems, SequenceTheorems, TLAPS

-----------------------------------------------------------------------------
(* The inductive invariant                                                 *)

Kinds == {"none", "subscribe", "unsubscribe", "list", "ping", "listed", "ack", "push"}
Sheets == [kind : Kinds, by : Callers \X Nat, channel : {"none", "data", "trading", "heartbeat"},
           topics : SUBSET Topics, class : {"none"} \union {f.class : f \in Frames}]
Labels == {"idle", "on", "send", "record", "list_on", "list_send", "list_wait", "off", "off_write",
           "returned"}

\* The fields of a call; some need no type.
IsCall(r) ==
  r \in [pc : Labels, todo : Seq(Requests), ack : BOOLEAN, n : Nat, undo : {r.undo},
         adds : {r.adds}, all : BOOLEAN, arrived : BOOLEAN, from : Callers \X Nat,
         listed : SUBSET Topics, kept : {r.kept}, before : SUBSET Topics, muddled : BOOLEAN]

CallShape ==
  /\ call = [c \in Callers |-> call[c]]
  /\ \A c \in Callers : IsCall(call[c])
SheetsShape ==
  /\ link \in [state : {"down", "lost", "up"}, book : SUBSET Topics, drops : {link.drops}]
  /\ wire \in Seq(Sheets) /\ back \in Seq(Sheets)
  /\ server \in SUBSET Topics
RestShape ==
  /\ table = [r \in {"data", "trading", "heartbeat", "list", "ack"} |-> table[r]]
  /\ main \in [pc : {"idle", "refresh", "ping_join", "ping_start"}, key : {main.key}]
  /\ reader \in [pc : {"idle", "handle"}, frame : {reader.frame}, owed : {reader.owed}]
  /\ ping \in [stop : BOOLEAN, thread : Loops \union {NoLoop}, late : BOOLEAN]
  /\ loop \in [Loops -> {"ended", "waiting", "sending"}]
  /\ stray \in -1..2
Shape == CallShape /\ SheetsShape /\ RestShape

\* A connection that is not open has nothing under way.
LinkInv == ~Up => wire = <<>> /\ back = <<>> /\ server = {}

\* What the server has and reads is in its own spelling.
SpellInv ==
  /\ \A t \in server : AtServer(t) = t
  /\ \A i \in DOMAIN wire : \A t \in wire[i].topics : AtServer(t) = t

\* The answer to a listing belongs to no channel.
BackInv == \A i \in DOMAIN back : back[i].kind = "listed" => back[i].channel = "none"

\* The handler of a route is installed while a callback wants it, but for the
\* callback that is being set.
TableInv ==
  /\ main.pc # "refresh" => main.key = "none"
  /\ \A r \in {"data", "trading"} : Wants(callback \ {main.key}, r) => table[r] = <<Nobody>>
  /\ "on_heartbeat" \in callback \ {main.key} => table["heartbeat"] = <<Nobody>>

\* What is owed is what the frame at hand will reach.
OwedInv ==
  /\ reader.pc = "idle" => reader.owed = {}
  /\ reader.owed \subseteq For(reader.frame, callback)

\* The loop of _ping_thread is the only one, and has ended where a new one is
\* started; after disconnect() it is told to stop until ping() runs again.
LoopInv ==
  ~ping.late =>
    /\ \A l \in Loops : loop[l] # "ended" => l = ping.thread
    /\ main.pc = "ping_start" => \A l \in Loops : loop[l] = "ended"
    /\ main.pc \in {"ping_join", "ping_start"} => stray = -1
    /\ stray # -1 => ping.stop
    /\ stray = 1 => \A l \in Loops : loop[l] # "sending"
    /\ stray # 2

\* The answers a call may see, while no other is confused with it.
AnswerInv ==
  \A c \in Callers :
    /\ Listing(c) /\ ~call[c].muddled =>
         /\ \A d \in Callers : Listing(d) => d = c
         /\ \A i \in DOMAIN wire : wire[i].kind = "list" => wire[i].by = Id(c)
         /\ \A i \in DOMAIN back : back[i].kind = "listed" => back[i].by = Id(c)
    /\ call[c].arrived /\ ~call[c].muddled => call[c].from = Id(c)

\* The topics of requests, and the requests of a call that have yet to go out.
TopicsOf(requests) == UNION {requests[i].topics : i \in DOMAIN requests}
Unsent(c) == IF call[c].pc = "record" THEN Tail(call[c].todo) ELSE call[c].todo

\* What the book holds and is spelled as the server does, but for what is given
\* up and not recorded yet.
Kept == link.book \ ({FlagTopic, AtServer(FlagTopic)} \union Recording("unsubscribe"))

\* What a call that gives everything up has to see gone: what is subscribed,
\* and what the next connection would restore.
Present == (Subscribed \ revived) \union Kept

\* An operation subscribes or gives up, and the topics of `before' that are
\* present are those the server will list, has listed, or that are yet to go.
TodoInv ==
  \A c \in Callers :
    /\ \A i \in DOMAIN call[c].todo :
         call[c].todo[i].method = IF call[c].adds = "none" THEN "unsubscribe" ELSE "subscribe"
    /\ call[c].adds # "none" => call[c].pc \in {"on", "send", "record"} /\ ~call[c].all
    /\ call[c].pc \in {"on", "send", "record"} => call[c].todo # <<>>
    /\ call[c].pc \notin {"on", "send", "record"} => call[c].todo = <<>>
    /\ call[c].all /\ call[c].pc \in {"on", "send", "record", "returned"} => call[c].arrived
BookInv ==
  \A c \in Callers : Up => Kept \intersect call[c].before \subseteq Subscribed
RecordInv ==
  \A c \in Callers : Recording("subscribe") \intersect call[c].before = {}
ScopeInv == \A c \in Callers : ~call[c].all => call[c].before = {}

\* Nobody asks again for what the server is about to list, an answer names what
\* there is, and so do what was listed and what is yet to go.
WireSeen(c) ==
  \A i, j \in DOMAIN wire :
    wire[i].kind = "list" /\ i < j /\ wire[j].kind = "subscribe"
      => wire[j].topics \intersect call[c].before = {}
BackSeen(c) ==
  \A i \in DOMAIN back :
    back[i].kind = "listed" => Present \intersect call[c].before \subseteq back[i].topics
SeenInv ==
  \A c \in Callers :
    ~call[c].muddled =>
      /\ Listing(c) => /\ WireSeen(c) /\ BackSeen(c)
                       /\ call[c].arrived =>
                            Present \intersect call[c].before \subseteq call[c].listed
      /\ call[c].pc \in {"on", "send", "record", "returned"} =>
           Present \intersect call[c].before \subseteq Named(TopicsOf(Unsent(c)))
BeforeInv == BookInv /\ RecordInv /\ ScopeInv /\ SeenInv

\* The topics an operation of a pair subscribes.
Covered(name) ==
  UNION {UNION {TopicsOf(op.requests) : op \in {o \in Menu[c] : o.pair = name
                                                  /\ o.method = "subscribe"}} : c \in Callers}

\* Every topic of the book was asked for by an operation that is not given up,
\* and that whoever is giving it up has not recorded yet; so was what the server
\* has, but for what was revived, and nobody has come to giving it up yet.
Holds(name, t) ==
  /\ t \in Covered(name)
  /\ \A d \in Callers : call[d].undo = name => t \in TopicsOf(call[d].todo)
Serves(name, t) ==
  /\ t \in Named(Covered(name))
  /\ \A d \in Callers : call[d].undo = name => t \in Named(TopicsOf(Unsent(d)))
HeldInv == \A t \in link.book : \E name \in active : Holds(name, t)
ServedInv == \A t \in Subscribed \ revived : \E name \in active : Serves(name, t)
UndoInv ==
  /\ "none" \notin active
  /\ \A c \in Callers :
       /\ call[c].undo # "none" => call[c].adds = "none"
       /\ call[c].adds # "none" =>
            /\ TopicsOf(call[c].todo) \subseteq Covered(call[c].adds)
            /\ call[c].adds \in active
            /\ \A d \in Callers : call[d].undo # call[c].adds

IInv ==
  /\ Shape /\ LinkInv /\ SpellInv /\ BackInv /\ TableInv /\ OwedInv /\ LoopInv /\ AnswerInv
  /\ TodoInv /\ BeforeInv
Accounted == HeldInv /\ ServedInv /\ UndoInv

-----------------------------------------------------------------------------
(* What the server will have subscribed                                    *)

\* A topic is subscribed after some frames if it was before, or a frame asks
\* for it, and no later frame gives it up.
LEMMA AfterMember ==
  ASSUME NEW T, NEW w, NEW t
  PROVE t \in After(T, w) <=>
          \/ t \in T /\ ~GivenUp(t, 0, w)
          \/ \E i \in DOMAIN w : t \in AskedBy(w, i) /\ ~GivenUp(t, i, w)
BY DEF After

LEMMA AfterNothing == ASSUME NEW T PROVE After(T, <<>>) = T
<1>1. ASSUME NEW t PROVE t \in After(T, <<>>) <=> t \in T
  BY AfterMember DEF GivenUp
<1> QED BY <1>1

\* A frame more is read last.
LEMMA AfterAppend ==
  ASSUME NEW T, NEW w \in Seq(Sheets), NEW f \in Sheets
  PROVE After(T, Append(w, f)) = Taken(After(T, w), f)
<1> DEFINE v == Append(w, f)
           m == Len(w)
<1>1. /\ m \in Nat /\ DOMAIN w = 1..m /\ DOMAIN v = 1..(m + 1)
      /\ \A i \in 1..m : v[i] = w[i]
      /\ v[m + 1] = f
  OBVIOUS
<1> HIDE DEF v, m
<1>2. SUFFICES ASSUME NEW t PROVE t \in After(T, v) <=> t \in Taken(After(T, w), f)
  BY <1>2 DEF v
<1>3. ASSUME NEW i \in 0..m
      PROVE GivenUp(t, i, v) <=> GivenUp(t, i, w) \/ (f.kind = "unsubscribe" /\ t \in f.topics)
  BY <1>1 DEF GivenUp
<1>4. ~GivenUp(t, m + 1, v)
  BY <1>1 DEF GivenUp
<1>5. /\ \A i \in 1..m : AskedBy(v, i) = AskedBy(w, i)
      /\ AskedBy(v, m + 1) = IF f.kind = "subscribe" THEN f.topics ELSE {}
  BY <1>1 DEF AskedBy
<1>6. t \in After(T, v) <=>
          \/ t \in T /\ ~GivenUp(t, 0, v)
          \/ \E i \in 1..m : t \in AskedBy(w, i) /\ ~GivenUp(t, i, v)
          \/ f.kind = "subscribe" /\ t \in f.topics
  <2>1. t \in After(T, v) <=>
          \/ t \in T /\ ~GivenUp(t, 0, v)
          \/ \E i \in 1..(m + 1) : t \in AskedBy(v, i) /\ ~GivenUp(t, i, v)
    BY AfterMember, <1>1
  <2>2. ASSUME NEW i \in 1..(m + 1) PROVE i \in 1..m \/ i = m + 1
    BY <1>1
  <2>3. 1..m \subseteq 1..(m + 1) /\ m + 1 \in 1..(m + 1)
    BY <1>1
  <2> QED BY <2>1, <2>2, <2>3, <1>4, <1>5
<1>7. t \in After(T, w) <=>
          \/ t \in T /\ ~GivenUp(t, 0, w)
          \/ \E i \in 1..m : t \in AskedBy(w, i) /\ ~GivenUp(t, i, w)
  BY AfterMember, <1>1
<1>8. 0 \in 0..m /\ 1..m \subseteq 0..m
  BY <1>1
<1>9. CASE f.kind = "unsubscribe"
  BY <1>9, <1>3, <1>6, <1>7, <1>8 DEF Taken
<1>10. CASE f.kind = "subscribe"
  BY <1>10, <1>3, <1>6, <1>7, <1>8 DEF Taken
<1>11. CASE f.kind # "unsubscribe" /\ f.kind # "subscribe"
  BY <1>11, <1>3, <1>6, <1>7, <1>8 DEF Taken
<1> QED BY <1>9, <1>10, <1>11

\* The next frame is read first.
LEMMA AfterTail ==
  ASSUME NEW T, NEW w \in Seq(Sheets), w # <<>>
  PROVE After(T, w) = After(Taken(T, Head(w)), Tail(w))
<1> DEFINE v == Tail(w)
           f == Head(w)
           m == Len(w)
<1>1. /\ m \in Nat /\ m > 0 /\ DOMAIN w = 1..m /\ DOMAIN v = 1..(m - 1)
      /\ \A i \in 1..(m - 1) : v[i] = w[i + 1]
      /\ w[1] = f
  OBVIOUS
<1> HIDE DEF v, m, f
<1>2. SUFFICES ASSUME NEW t PROVE t \in After(T, w) <=> t \in After(Taken(T, f), v)
  BY <1>2 DEF v, f
<1>3. ASSUME NEW i \in 0..(m - 1)
      PROVE GivenUp(t, i + 1, w) <=> GivenUp(t, i, v)
  <2>1. ASSUME NEW j \in 1..m, j > i + 1, w[j].kind = "unsubscribe", t \in w[j].topics
        PROVE GivenUp(t, i, v)
    <3>1. j - 1 \in 1..(m - 1) /\ j - 1 > i /\ v[j - 1] = w[j]
      BY <2>1, <1>1
    <3> QED BY <3>1, <2>1, <1>1 DEF GivenUp
  <2>2. ASSUME NEW j \in 1..(m - 1), j > i, v[j].kind = "unsubscribe", t \in v[j].topics
        PROVE GivenUp(t, i + 1, w)
    <3>1. j + 1 \in 1..m /\ j + 1 > i + 1 /\ w[j + 1] = v[j]
      BY <2>2, <1>1
    <3> QED BY <3>1, <2>2, <1>1 DEF GivenUp
  <2> QED BY <2>1, <2>2, <1>1 DEF GivenUp
<1>4. GivenUp(t, 0, w) <=> GivenUp(t, 1, w) \/ (f.kind = "unsubscribe" /\ t \in f.topics)
  <2>1. ASSUME NEW j \in 1..m, j > 0 PROVE j = 1 \/ j > 1
    BY <1>1
  <2>2. 1 \in 1..m
    BY <1>1
  <2>3. ASSUME NEW j \in 1..m, j > 1 PROVE j > 0
    BY <1>1
  <2> QED BY <2>1, <2>2, <2>3, <1>1 DEF GivenUp
<1>5. AskedBy(w, 1) = IF f.kind = "subscribe" THEN f.topics ELSE {}
  BY <1>1 DEF AskedBy
<1>6. ASSUME NEW i \in 1..(m - 1)
      PROVE AskedBy(w, i + 1) = AskedBy(v, i) /\ (GivenUp(t, i + 1, w) <=> GivenUp(t, i, v))
  <2>1. i \in 0..(m - 1)
    BY <1>1
  <2> QED BY <2>1, <1>1, <1>3 DEF AskedBy
<1>7. (\E i \in 1..m : t \in AskedBy(w, i) /\ ~GivenUp(t, i, w)) <=>
        \/ t \in AskedBy(w, 1) /\ ~GivenUp(t, 1, w)
        \/ \E i \in 1..(m - 1) : t \in AskedBy(v, i) /\ ~GivenUp(t, i, v)
  <2>1. ASSUME NEW i \in 1..m, i # 1 PROVE i - 1 \in 1..(m - 1) /\ (i - 1) + 1 = i
    BY <2>1, <1>1
  <2>2. ASSUME NEW i \in 1..(m - 1) PROVE i + 1 \in 1..m
    BY <1>1
  <2>3. 1 \in 1..m
    BY <1>1
  <2>4. ASSUME NEW i \in 1..m, i # 1, t \in AskedBy(w, i), ~GivenUp(t, i, w)
        PROVE \E k \in 1..(m - 1) : t \in AskedBy(v, k) /\ ~GivenUp(t, k, v)
    BY <2>1, <2>4, <1>6
  <2> QED BY <2>2, <2>3, <2>4, <1>6
<1>8. GivenUp(t, 1, w) <=> GivenUp(t, 0, v)
  <2>1. 0 \in 0..(m - 1) /\ 0 + 1 = 1
    BY <1>1
  <2> QED BY <2>1, <1>3
<1>9. t \in After(T, w) <=>
          \/ t \in T /\ ~GivenUp(t, 0, w)
          \/ \E i \in 1..m : t \in AskedBy(w, i) /\ ~GivenUp(t, i, w)
  BY AfterMember, <1>1
<1>10. t \in After(Taken(T, f), v) <=>
          \/ t \in Taken(T, f) /\ ~GivenUp(t, 0, v)
          \/ \E i \in 1..(m - 1) : t \in AskedBy(v, i) /\ ~GivenUp(t, i, v)
  BY AfterMember, <1>1
<1>11. CASE f.kind = "unsubscribe"
  BY <1>11, <1>4, <1>5, <1>7, <1>8, <1>9, <1>10 DEF Taken
<1>12. CASE f.kind = "subscribe"
  BY <1>12, <1>4, <1>5, <1>7, <1>8, <1>9, <1>10 DEF Taken
<1>13. CASE f.kind # "unsubscribe" /\ f.kind # "subscribe"
  BY <1>13, <1>4, <1>5, <1>7, <1>8, <1>9, <1>10 DEF Taken
<1> QED BY <1>11, <1>12, <1>13

\* What is subscribed grows with what was.
LEMMA AfterMonotone ==
  ASSUME NEW S, NEW T, NEW w, S \subseteq T
  PROVE /\ After(S, w) \subseteq After(T, w)
        /\ After(T, w) \subseteq After(S, w) \union (T \ S)
<1>1. ASSUME NEW t, t \in After(S, w) PROVE t \in After(T, w)
  BY <1>1, AfterMember
<1>2. ASSUME NEW t, t \in After(T, w) PROVE t \in After(S, w) \union (T \ S)
  BY <1>2, AfterMember
<1> QED BY <1>1, <1>2

\* Nothing but topics is subscribed, and only what some frame asks for is new.
LEMMA AfterTopics ==
  ASSUME NEW T, T \subseteq Topics, NEW w \in Seq(Sheets)
  PROVE /\ After(T, w) \subseteq Topics
        /\ \A t \in After(T, w) :
             t \in T \/ \E i \in DOMAIN w : w[i].kind = "subscribe" /\ t \in w[i].topics
<1>1. ASSUME NEW t, t \in After(T, w)
      PROVE t \in T \/ \E i \in DOMAIN w : w[i].kind = "subscribe" /\ t \in w[i].topics
  <2>1. t \in T \/ \E i \in DOMAIN w : t \in AskedBy(w, i)
    BY <1>1, AfterMember
  <2>2. ASSUME NEW i \in DOMAIN w, t \in AskedBy(w, i)
        PROVE w[i].kind = "subscribe" /\ t \in w[i].topics
    BY <2>2 DEF AskedBy
  <2> QED BY <2>1, <2>2
<1>2. \A i \in DOMAIN w : w[i] \in Sheets
  OBVIOUS
<1>3. \A f \in Sheets : f.topics \subseteq Topics
  BY DEF Sheets
<1> QED BY <1>1, <1>2, <1>3

-----------------------------------------------------------------------------
(* The two spellings                                                       *)

\* The server's spelling of a topic is a topic, of the same channel, that it
\* spells the same; only market.flag has another.
LEMMA Spelling ==
  /\ \A t \in Topics : AtServer(t) \in Topics /\ AtServer(t).channel = t.channel
  /\ \A t : AtServer(AtServer(t)) = AtServer(t)
  /\ \A t : t # FlagTopic => AtServer(t) = t
  /\ AtServer(FlagTopic) # FlagTopic
<1> DEFINE big == [FlagTopic EXCEPT !.code = "FLAG"]
<1>1. big = [channel |-> "data", type |-> "market", code |-> "FLAG", interval |-> None]
  BY DEF FlagTopic
<1>2. big # FlagTopic
  BY <1>1 DEF FlagTopic
<1>3. big \in Topics /\ big.channel = FlagTopic.channel
  <2>1. big.channel = FlagTopic.channel
    BY <1>1 DEF FlagTopic
  <2>2. "market" \in TopicTypes /\ "FLAG" \in ServerCodes
    BY DEF TopicTypes, ServerCodes
  <2>3. big \in Topics
    BY <1>1, <2>2 DEF Topics
  <2> QED BY <2>1, <2>3
<1>4. \A t : AtServer(t) = IF t = FlagTopic THEN big ELSE t
  BY DEF AtServer
<1> HIDE DEF big
<1> QED BY <1>2, <1>3, <1>4

LEMMA NamedTopics ==
  /\ \A T \in SUBSET Topics : Named(T) \in SUBSET Topics
  /\ \A T : \A t \in Named(T) : AtServer(t) = t
  /\ \A S, T : Named(S \union T) = Named(S) \union Named(T)
  /\ \A T : \A t \in T : AtServer(t) \in Named(T)
  /\ Named({}) = {}
BY Spelling DEF Named

-----------------------------------------------------------------------------
(* Types                                                                   *)

LEMMA IdleIsCall ==
  /\ Nobody \in Callers \X Nat
  /\ IsCall(Idle) /\ \A n \in Nat : IsCall([Idle EXCEPT !.n = n])
  /\ Idle.pc = "idle" /\ Idle.todo = <<>> /\ Idle.ack = FALSE /\ Idle.undo = "none"
  /\ Idle.adds = "none" /\ Idle.all = FALSE /\ Idle.arrived = FALSE /\ Idle.listed = {}
  /\ Idle.before = {} /\ Idle.muddled = FALSE
<1>1. Nobody \in Callers \X Nat
  BY MainAssumption DEF Nobody
<1>2. /\ Idle \in [pc : Labels, todo : Seq(Requests), ack : BOOLEAN, n : Nat, undo : {Idle.undo},
         adds : {Idle.adds}, all : BOOLEAN, arrived : BOOLEAN, from : {Nobody},
         listed : {{}}, kept : {Idle.kept}, before : {{}}, muddled : BOOLEAN]
  BY DEF Idle, Labels
<1>3. IsCall(Idle)
  BY <1>1, <1>2 DEF IsCall
<1>4. ASSUME NEW n \in Nat PROVE IsCall([Idle EXCEPT !.n = n])
  BY <1>3 DEF IsCall
<1>5. /\ Idle.pc = "idle" /\ Idle.todo = <<>> /\ Idle.ack = FALSE /\ Idle.undo = "none"
      /\ Idle.adds = "none" /\ Idle.all = FALSE /\ Idle.arrived = FALSE /\ Idle.listed = {}
      /\ Idle.before = {} /\ Idle.muddled = FALSE
  BY DEF Idle
<1> QED BY <1>1, <1>3, <1>4, <1>5

LEMMA NoFrameIsSheet == NoFrame \in Sheets
<1>1. NoFrame \in [kind : Kinds, by : {Nobody}, channel : {"none"}, topics : {{}}, class : {"none"}]
  BY DEF NoFrame, Kinds
<1> QED BY <1>1, IdleIsCall DEF Sheets

LEMMA FrameIsSheet ==
  ASSUME NEW kind \in Kinds, NEW by \in Callers \X Nat,
         NEW channel \in {"none", "data", "trading", "heartbeat"}, NEW topics \in SUBSET Topics
  PROVE /\ Frame(kind, by, channel, topics) \in Sheets
        /\ Frame(kind, by, channel, topics).kind = kind
        /\ Frame(kind, by, channel, topics).by = by
        /\ Frame(kind, by, channel, topics).channel = channel
        /\ Frame(kind, by, channel, topics).topics = topics
<1> HIDE DEF Topics
<1> QED BY NoFrameIsSheet DEF Frame, Sheets

\* The rules for the sequences of frames and of requests.
LEMMA SeqRules ==
  ASSUME NEW S, NEW s \in Seq(S)
  PROVE /\ \A i \in DOMAIN s : s[i] \in S
        /\ \A x \in S : /\ Append(s, x) \in Seq(S)
                        /\ Append(s, x) # <<>>
                        /\ Append(s, x)[Len(s) + 1] = x
                        /\ \A i \in DOMAIN Append(s, x) :
                             i = Len(s) + 1 \/ (i \in DOMAIN s /\ Append(s, x)[i] = s[i])
                        /\ \A i \in DOMAIN s : i < Len(s) + 1
        /\ s # <<>> => /\ Head(s) \in S /\ Head(s) = s[1] /\ 1 \in DOMAIN s
                       /\ Tail(s) \in Seq(S)
                       /\ \A i \in DOMAIN Tail(s) : i + 1 \in DOMAIN s /\ Tail(s)[i] = s[i + 1]
                       /\ \A i \in DOMAIN Tail(s) : 1 < i + 1
                       /\ \A i, j \in DOMAIN Tail(s) : i < j => i + 1 < j + 1
                       /\ \A i \in DOMAIN s : i = 1 \/ (i - 1 \in DOMAIN Tail(s)
                                                         /\ Tail(s)[i - 1] = s[i])
OBVIOUS

LEMMA ListedRequests ==
  ASSUME NEW L \in SUBSET Topics
  PROVE /\ UnsubscribeListed(L) \in Seq(Requests)
        /\ \A i \in DOMAIN UnsubscribeListed(L) :
             UnsubscribeListed(L)[i].method = "unsubscribe"
        /\ TopicsOf(UnsubscribeListed(L)) = L
<1> DEFINE D == OfChannel(L, "data")
           T == OfChannel(L, "trading")
           MD == Message("unsubscribe", D)
           MT == Message("unsubscribe", T)
<1>1. D \union T = L /\ D \in SUBSET Topics /\ T \in SUBSET Topics
  BY DEF OfChannel, Topics
<1>2. /\ MD \in Requests /\ MT \in Requests
      /\ MD.method = "unsubscribe" /\ MT.method = "unsubscribe"
      /\ MD.topics = D /\ MT.topics = T
  BY <1>1 DEF Message, Requests, Methods
<1>3. UnsubscribeListed(L) = (IF D = {} THEN <<>> ELSE <<MD>>) \o (IF T = {} THEN <<>> ELSE <<MT>>)
  BY DEF UnsubscribeListed
<1> HIDE DEF D, T, MD, MT
<1>4. CASE D = {} /\ T = {}
  <2>1. UnsubscribeListed(L) = <<>>
    BY <1>3, <1>4
  <2> QED BY <2>1, <1>1, <1>4 DEF TopicsOf
<1>5. CASE D # {} /\ T = {}
  <2>1. UnsubscribeListed(L) = <<MD>>
    BY <1>3, <1>5
  <2> QED BY <2>1, <1>1, <1>2, <1>5 DEF TopicsOf
<1>6. CASE D = {} /\ T # {}
  <2>1. UnsubscribeListed(L) = <<MT>>
    BY <1>3, <1>6
  <2> QED BY <2>1, <1>1, <1>2, <1>6 DEF TopicsOf
<1>7. CASE D # {} /\ T # {}
  <2> DEFINE a == <<MD>>
             b == <<MT>>
             v == a \o b
  <2>1. UnsubscribeListed(L) = v
    BY <1>3, <1>7
  <2>2. /\ a \in Seq(Requests) /\ b \in Seq(Requests) /\ Len(a) = 1 /\ Len(b) = 1
        /\ a[1] = MD /\ b[1] = MT
    BY <1>2
  <2> HIDE DEF a, b
  <2>3. v \in Seq(Requests) /\ DOMAIN v = {1, 2} /\ v[1] = MD /\ v[2] = MT
    <3>1. /\ v \in Seq(Requests) /\ Len(v) = 2
          /\ \A i \in 1..2 : v[i] = IF i <= 1 THEN a[i] ELSE b[i - 1]
      BY <2>2, ConcatProperties
    <3>2. v[1] = MD /\ v[2] = MT
      BY <3>1, <2>2
    <3>4. DOMAIN v = 1..2 /\ 1..2 = {1, 2}
      BY <3>1
    <3> QED BY <3>1, <3>2, <3>4
  <2> HIDE DEF v
  <2>4. TopicsOf(v) = MD.topics \union MT.topics
    BY <2>3 DEF TopicsOf
  <2> QED BY <2>1, <2>3, <2>4, <1>1, <1>2
<1> QED BY <1>4, <1>5, <1>6, <1>7

\* The updates of a call.
LEMMA Updates ==
  ASSUME NEW r, IsCall(r)
  PROVE /\ \A p \in Labels : IsCall([r EXCEPT !.pc = p])
        /\ \A p \in Labels, x \in BOOLEAN : IsCall([r EXCEPT !.pc = p, !.arrived = x])
        /\ \A p \in Labels : \A k : IsCall([r EXCEPT !.pc = p, !.kept = k])
        /\ \A p \in Labels, s \in Seq(Requests) : \A x :
             IsCall([r EXCEPT !.todo = s, !.adds = x, !.pc = p])
        /\ \A p \in Labels, s \in Seq(Requests) : \A k :
             IsCall([r EXCEPT !.todo = s, !.kept = k, !.listed = {}, !.pc = p])
        /\ \A L \in SUBSET Topics, by \in Callers \X Nat, x \in BOOLEAN :
             IsCall([r EXCEPT !.listed = L, !.from = by, !.arrived = x])
        /\ \A B \in SUBSET Topics : IsCall([r EXCEPT !.before = B])
        /\ \A x : IsCall([r EXCEPT !.undo = x])
        /\ \A x \in BOOLEAN : IsCall([r EXCEPT !.muddled = x])
        /\ \A n \in Nat : IsCall([r EXCEPT !.n = n])
        /\ \A p \in Labels, n \in Nat, s \in Seq(Requests), x \in BOOLEAN : \A a, u :
             IsCall([r EXCEPT !.pc = p, !.n = n, !.todo = s, !.ack = x, !.adds = a, !.undo = u])
        /\ \A p \in Labels, n \in Nat, x, y \in BOOLEAN, B \in SUBSET Topics :
             IsCall([r EXCEPT !.pc = p, !.n = n, !.all = x, !.before = B, !.muddled = y])
<1>1. \A p \in Labels : IsCall([r EXCEPT !.pc = p])
  BY DEF IsCall
<1>2. \A p \in Labels, x \in BOOLEAN : IsCall([r EXCEPT !.pc = p, !.arrived = x])
  BY DEF IsCall
<1>3. \A p \in Labels : \A k : IsCall([r EXCEPT !.pc = p, !.kept = k])
  BY DEF IsCall
<1>4. \A p \in Labels, s \in Seq(Requests) : \A x :
         IsCall([r EXCEPT !.todo = s, !.adds = x, !.pc = p])
  BY DEF IsCall
<1>5. \A p \in Labels, s \in Seq(Requests) : \A k :
         IsCall([r EXCEPT !.todo = s, !.kept = k, !.listed = {}, !.pc = p])
  BY DEF IsCall
<1>6. \A L \in SUBSET Topics, by \in Callers \X Nat, x \in BOOLEAN :
         IsCall([r EXCEPT !.listed = L, !.from = by, !.arrived = x])
  BY DEF IsCall
<1>7. \A B \in SUBSET Topics : IsCall([r EXCEPT !.before = B])
  BY DEF IsCall
<1>8. \A x : IsCall([r EXCEPT !.undo = x])
  BY DEF IsCall
<1>9. \A x \in BOOLEAN : IsCall([r EXCEPT !.muddled = x])
  BY DEF IsCall
<1>10. \A n \in Nat : IsCall([r EXCEPT !.n = n])
  BY DEF IsCall
<1>11. \A p \in Labels, n \in Nat, s \in Seq(Requests), x \in BOOLEAN : \A a, u :
         IsCall([r EXCEPT !.pc = p, !.n = n, !.todo = s, !.ack = x, !.adds = a, !.undo = u])
  <2> TAKE p \in Labels, n \in Nat, s \in Seq(Requests), x \in BOOLEAN
  <2> TAKE a, u
  <2> DEFINE q == [r EXCEPT !.pc = p, !.n = n, !.todo = s]
  <2>1. IsCall(q)
    BY DEF IsCall
  <2> HIDE DEF q
  <2>2. IsCall([q EXCEPT !.ack = x, !.adds = a, !.undo = u])
    BY <2>1 DEF IsCall
  <2> QED BY <2>2 DEF q
<1>12. \A p \in Labels, n \in Nat, x, y \in BOOLEAN, B \in SUBSET Topics :
         IsCall([r EXCEPT !.pc = p, !.n = n, !.all = x, !.before = B, !.muddled = y])
  <2> TAKE p \in Labels, n \in Nat, x, y \in BOOLEAN, B \in SUBSET Topics
  <2> DEFINE q == [r EXCEPT !.pc = p, !.n = n, !.all = x]
  <2>1. IsCall(q)
    BY DEF IsCall
  <2> HIDE DEF q
  <2>2. IsCall([q EXCEPT !.before = B, !.muddled = y])
    BY <2>1 DEF IsCall
  <2> QED BY <2>2 DEF q
<1> QED BY <1>1, <1>2, <1>3, <1>4, <1>5, <1>6, <1>7, <1>8, <1>9, <1>10, <1>11, <1>12

LEMMA CallShapeStep ==
  ASSUME CallShape, SheetsShape, TodoInv, Next
  PROVE CallShape'
<1> USE DEF CallShape
<1>0. \A c \in Callers : IsCall(call[c])
  OBVIOUS
<1>1. ASSUME NEW c \in Callers, Start(c) PROVE CallShape'
  <2>1. PICK op \in Menu[c], ack \in BOOLEAN :
          LET adds    == op.method = "subscribe"
              clashes == \E d \in Callers \ {c} : call[d].adds = op.pair
          IN call' = [d \in Callers |->
               IF d = c
               THEN [Idle EXCEPT !.pc = IF ack THEN "on" ELSE "send", !.n = call[c].n + 1,
                                 !.todo = op.requests, !.ack = ack,
                                 !.adds = IF adds THEN op.pair ELSE "none",
                                 !.undo = IF adds \/ clashes THEN "none" ELSE op.pair]
               ELSE IF adds /\ call[d].undo = op.pair
                    THEN [call[d] EXCEPT !.undo = "none"] ELSE call[d]]
    BY <1>1 DEF Start
  <2>2. op.requests \in Seq(Requests)
    <3>1. op.requests \in Seq({m \in Requests : m.method = op.method})
      BY MenuAssumption
    <3>2. {m \in Requests : m.method = op.method} \subseteq Requests
      OBVIOUS
    <3> HIDE DEF Requests
    <3> QED BY <3>1, <3>2, SeqMonotonic
  <2>3. call[c].n + 1 \in Nat
    BY DEF IsCall
  <2>4. ASSUME NEW x, NEW y PROVE
          IsCall([Idle EXCEPT !.pc = IF ack THEN "on" ELSE "send", !.n = call[c].n + 1,
                                 !.todo = op.requests, !.ack = ack, !.adds = x, !.undo = y])
    <3>1. (IF ack THEN "on" ELSE "send") \in Labels
      BY DEF Labels
    <3> QED BY <2>2, <2>3, <3>1, IdleIsCall, Updates
  <2>5. ASSUME NEW d \in Callers PROVE IsCall([call[d] EXCEPT !.undo = "none"])
    BY Updates
  <2> QED BY <2>1, <2>4, <2>5
<1>2. ASSUME NEW c \in Callers, Register(c) PROVE CallShape'
  BY <1>2, Updates DEF Register, Labels
<1>3. ASSUME NEW c \in Callers, Send(c) PROVE CallShape'
  <2> DEFINE m == Head(call[c].todo)
  <2>1. call' = [d \in Callers |-> IF d = c THEN [call[c] EXCEPT !.pc = "record"]
                                   ELSE [call[d] EXCEPT !.before = Asked(c, d, m)]]
    BY <1>3 DEF Send
  <2>2. ASSUME NEW d \in Callers PROVE Asked(c, d, m) \in SUBSET Topics
    BY DEF Asked, IsCall
  <2> HIDE DEF m
  <2>3. ASSUME NEW d \in Callers PROVE IsCall([call[d] EXCEPT !.before = Asked(c, d, m)])
    BY <2>2, Updates
  <2>4. IsCall([call[c] EXCEPT !.pc = "record"])
    BY Updates DEF Labels
  <2> QED BY <2>1, <2>3, <2>4
<1>15. ASSUME NEW c \in Callers, Record(c) PROVE CallShape'
  <2> DEFINE rest == Tail(call[c].todo)
             p == IF rest # <<>> THEN (IF call[c].ack THEN "on" ELSE "send")
                  ELSE IF call[c].all THEN "returned" ELSE "idle"
             a == IF rest = <<>> THEN "none" ELSE call[c].adds
  <2>1. call' = [call EXCEPT ![c] = [call[c] EXCEPT !.todo = rest, !.adds = a, !.pc = p]]
    BY <1>15 DEF Record
  <2>2. call[c].todo \in Seq(Requests) /\ call[c].todo # <<>>
    BY <1>15 DEF Record, At, TodoInv, IsCall
  <2>3. rest \in Seq(Requests) /\ p \in Labels
    BY <2>2 DEF Labels
  <2> HIDE DEF rest, p, a
  <2>4. IsCall([call[c] EXCEPT !.todo = rest, !.adds = a, !.pc = p])
    BY <2>3, Updates
  <2> QED BY <2>1, <2>4
<1>4. ASSUME NEW c \in Callers, SendFails(c) \/ Return(c) PROVE CallShape'
  <2>1. call' = [call EXCEPT ![c] = [Idle EXCEPT !.n = call[c].n]]
    BY <1>4 DEF SendFails, Return
  <2>2. IsCall([Idle EXCEPT !.n = call[c].n])
    BY IdleIsCall DEF IsCall
  <2> QED BY <2>1, <2>2
<1>5. ASSUME NEW c \in Callers, StartList(c) PROVE CallShape'
  <2>1. PICK all \in BOOLEAN :
          LET muddled == Unanswered \/ \E d \in Callers \ {c} : Listing(d)
          IN call' = [d \in Callers |->
            IF d = c
            THEN [Idle EXCEPT !.pc = "list_on", !.n = call[c].n + 1, !.all = all,
                              !.before = IF all THEN Subscribed \ Recording("subscribe")
                                         ELSE {},
                              !.muddled = muddled]
            ELSE IF Listing(d) THEN [call[d] EXCEPT !.muddled = TRUE] ELSE call[d]]
    BY <1>5 DEF StartList
  <2>2. call[c].n + 1 \in Nat
    BY DEF IsCall
  <2>3. Subscribed \in SUBSET Topics
    BY AfterTopics, NamedTopics DEF SheetsShape, Subscribed
  <2>7. (Subscribed \ Recording("subscribe")) \in SUBSET Topics
    BY <2>3
  <2>4. ASSUME NEW b \in SUBSET Topics, NEW x \in BOOLEAN PROVE
          IsCall([Idle EXCEPT !.pc = "list_on", !.n = call[c].n + 1, !.all = all,
                              !.before = b, !.muddled = x])
    BY <2>2, IdleIsCall, Updates DEF Labels
  <2>5. ASSUME NEW d \in Callers PROVE IsCall([call[d] EXCEPT !.muddled = TRUE])
    BY Updates
  <2>6. (Unanswered \/ \E d \in Callers \ {c} : Listing(d)) \in BOOLEAN
    OBVIOUS
  <2> QED BY <2>1, <2>4, <2>5, <2>6, <2>7
<1>6. ASSUME NEW c \in Callers, ListOn(c) PROVE CallShape'
  BY <1>6, Updates DEF ListOn, Labels
<1>7. ASSUME NEW c \in Callers, ListSend(c) PROVE CallShape'
  <2>1. \/ call' = [call EXCEPT ![c].pc = "list_wait"]
        \/ call' = [call EXCEPT ![c].pc = "off", ![c].arrived = FALSE]
    BY <1>7 DEF ListSend
  <2>2. CASE call' = [call EXCEPT ![c].pc = "list_wait"]
    BY <2>2, Updates DEF Labels
  <2>3. CASE call' = [call EXCEPT ![c].pc = "off", ![c].arrived = FALSE]
    <3>1. IsCall([call[c] EXCEPT !.pc = "off", !.arrived = FALSE])
      BY Updates DEF Labels
    <3> QED BY <2>3, <3>1
  <2> QED BY <2>1, <2>2, <2>3
<1>8. ASSUME NEW c \in Callers, ListWait(c) PROVE CallShape'
  <2>1. call[c].arrived \in BOOLEAN
    BY DEF IsCall
  <2> QED BY <2>1, <1>8, Updates DEF ListWait, Arrived, Labels
<1>9. ASSUME NEW c \in Callers, Off(c) PROVE CallShape'
  BY <1>9, Updates DEF Off, Labels
<1>10. ASSUME NEW c \in Callers, OffWrite(c) PROVE CallShape'
  <2> DEFINE requests == IF call[c].all THEN UnsubscribeListed(call[c].listed) ELSE <<>>
  <2>1. call' = [call EXCEPT ![c] =
          IF ~@.arrived THEN [Idle EXCEPT !.n = call[c].n]
          ELSE [@ EXCEPT !.todo = requests, !.kept = <<>>, !.listed = {},
                         !.pc = IF requests # <<>> THEN "send" ELSE "returned"]]
    BY <1>10 DEF OffWrite
  <2>2. IsCall([Idle EXCEPT !.n = call[c].n])
    BY IdleIsCall DEF IsCall
  <2>3. requests \in Seq(Requests)
    BY ListedRequests DEF IsCall
  <2> HIDE DEF requests
  <2>4. ASSUME NEW p \in Labels PROVE
          IsCall([call[c] EXCEPT !.todo = requests, !.kept = <<>>, !.listed = {}, !.pc = p])
    BY <2>3, Updates
  <2> QED BY <2>1, <2>2, <2>4 DEF Labels
<1>11. CASE Receive
  <2>1. back # <<>> /\ call' = Answer(Head(back))
    BY <1>11 DEF Receive
  <2>2. Head(back) \in Sheets
    BY <2>1 DEF SheetsShape
  <2> DEFINE f == Head(back)
  <2> HIDE DEF f
  <2>3. f.by \in Callers \X Nat /\ f.topics \in SUBSET Topics
    BY <2>2 DEF f, Sheets
  <2>4. ASSUME NEW d \in Callers, NEW x \in BOOLEAN PROVE
          IsCall([call[d] EXCEPT !.listed = f.topics, !.from = f.by, !.arrived = x])
    BY <2>3, Updates
  <2>5. call' = call \/ call' = [c \in Callers |->
             IF Id(c) = table["list"][1] /\ Listing(c)
             THEN [call[c] EXCEPT !.listed = f.topics, !.from = f.by, !.arrived =
                     IF call[c].pc \in {"list_on", "list_send", "list_wait"} THEN TRUE ELSE @]
             ELSE call[c]]
    BY <2>1 DEF Answer, f
  <2>6. \A d \in Callers : call[d].arrived \in BOOLEAN
    BY DEF IsCall
  <2>7. CASE call' = call
    BY <2>7
  <2>8. CASE call' = [c \in Callers |->
             IF Id(c) = table["list"][1] /\ Listing(c)
             THEN [call[c] EXCEPT !.listed = f.topics, !.from = f.by, !.arrived =
                     IF call[c].pc \in {"list_on", "list_send", "list_wait"} THEN TRUE ELSE @]
             ELSE call[c]]
    BY <2>8, <2>4, <2>6
  <2> QED BY <2>5, <2>7, <2>8
<1>12. CASE Disconnect
  <2>1. ASSUME NEW d \in Callers PROVE IsCall([call[d] EXCEPT !.undo = "none"])
    BY Updates
  <2> QED BY <1>12, <2>1 DEF Disconnect
<1>13. CASE ServerTakes
  <2>1. ASSUME NEW d \in Callers, NEW T PROVE IsCall([call[d] EXCEPT !.before = @ \ T])
    <3>1. call[d].before \ T \in SUBSET Topics
      BY DEF IsCall
    <3> QED BY <3>1, Updates
  <2>2. CASE UNCHANGED call
    BY <2>2
  <2>3. CASE call' = [c \in Callers |-> [call[c] EXCEPT !.before = @ \ Head(wire).topics]]
    BY <2>1, <2>3
  <2> QED BY <1>13, <2>2, <2>3 DEF ServerTakes
<1>14. CASE UNCHANGED call
  BY <1>14
<1> QED
  BY <1>1, <1>2, <1>3, <1>4, <1>5, <1>6, <1>7, <1>8, <1>9, <1>10, <1>11, <1>12, <1>13, <1>14,
     <1>15
  DEF Next, CallerStep, LoopStep, LoopWakes, LoopSends, MainStep, SetCallback, RefreshHandlers,
      Ping, PingStart, PingJoin, PingJoinTimeout, PingRun, Connect, Handle, Drop, Reopen,
      ServerPushes

\* What Send puts on the wire.
LEMMA SendSheet ==
  ASSUME CallShape, SheetsShape, TodoInv, NEW c \in Callers, Send(c)
  PROVE \E f \in Sheets :
          /\ call[c].todo # <<>> /\ Head(call[c].todo) \in Requests
          /\ f.kind = Head(call[c].todo).method /\ f.topics = Named(Head(call[c].todo).topics)
          /\ wire' = Append(wire, f)
<1> DEFINE m == Head(call[c].todo)
<1>1. call[c].todo \in Seq(Requests) /\ call[c].todo # <<>>
  BY DEF Send, At, TodoInv, CallShape, IsCall
<1>2. m \in Requests
  BY <1>1
<1> DEFINE by == IF call[c].ack THEN Id(c) ELSE Nobody
           channel == IF m.topics = {} THEN "heartbeat"
                      ELSE (CHOOSE t \in m.topics : TRUE).channel
           names == Named(m.topics)
<1>3. Sent(by, m)
  BY DEF Send
<1> HIDE DEF m, by
<1>4. by \in Callers \X Nat
  BY IdleIsCall DEF by, Id, CallShape, IsCall
<1>5. m.method \in Methods /\ m.topics \in SUBSET Topics
  BY <1>2 DEF Requests
<1>6. channel \in {"none", "data", "trading", "heartbeat"}
  <2>1. CASE m.topics = {}
    BY <2>1
  <2>2. CASE m.topics # {}
    <3>1. (CHOOSE t \in m.topics : TRUE) \in Topics
      BY <2>2, <1>5
    <3> QED BY <3>1, <2>2 DEF Topics
  <2> QED BY <2>1, <2>2
<1>7. names \in SUBSET Topics
  BY <1>5, NamedTopics
<1> DEFINE f == Frame(m.method, by, channel, names)
<1>8. wire' = Append(wire, f)
  BY <1>3 DEF Sent
<1>9. f \in Sheets /\ f.kind = m.method /\ f.topics = names
  <2>1. m.method \in Kinds
    BY <1>5 DEF Methods, Kinds
  <2> HIDE DEF channel, names
  <2> QED BY <2>1, <1>4, <1>6, <1>7, FrameIsSheet
<1> HIDE DEF f
<1> QED BY <1>1, <1>2, <1>8, <1>9 DEF m, names

\* What the server answers.
LEMMA AnswerSheet ==
  ASSUME SheetsShape, ServerTakes
  PROVE \E a \in Sheets :
          /\ wire # <<>> /\ Head(wire) \in Sheets
          /\ back' = Append(back, a)
          /\ IF Head(wire).kind = "list"
             THEN /\ a.kind = "listed" /\ a.by = Head(wire).by /\ a.channel = "none"
                  /\ a.topics = server
             ELSE a.kind = "ack"
<1> DEFINE f == Head(wire)
<1>1. wire # <<>> /\ f \in Sheets
  BY DEF ServerTakes, SheetsShape
<1>2. back' = Append(back, IF f.kind = "list" THEN Frame("listed", f.by, "none", server)
                           ELSE Frame("ack", f.by, f.channel, {}))
  BY DEF ServerTakes
<1> HIDE DEF f
<1>3. /\ f.by \in Callers \X Nat /\ f.channel \in {"none", "data", "trading", "heartbeat"}
      /\ server \in SUBSET Topics /\ {} \in SUBSET Topics
      /\ "listed" \in Kinds /\ "ack" \in Kinds
  BY <1>1 DEF Sheets, SheetsShape, Kinds
<1>4. CASE f.kind = "list"
  <2> DEFINE a == Frame("listed", f.by, "none", server)
  <2>1. a \in Sheets /\ a.kind = "listed" /\ a.by = f.by /\ a.channel = "none"
        /\ a.topics = server
    BY <1>3, FrameIsSheet
  <2>2. back' = Append(back, a)
    BY <1>2, <1>4
  <2> HIDE DEF a
  <2> QED BY <1>1, <1>4, <2>1, <2>2 DEF f
<1>5. CASE f.kind # "list"
  <2> DEFINE a == Frame("ack", f.by, f.channel, {})
  <2>1. a \in Sheets /\ a.kind = "ack"
    BY <1>3, FrameIsSheet
  <2>2. back' = Append(back, a)
    BY <1>2, <1>5
  <2> HIDE DEF a
  <2> QED BY <1>1, <1>5, <2>1, <2>2 DEF f
<1> QED BY <1>4, <1>5

LEMMA SheetsShapeStep ==
  ASSUME CallShape, SheetsShape, TodoInv, LinkInv, BackInv, Next
  PROVE SheetsShape' /\ LinkInv' /\ BackInv'
<1> DEFINE Goal == SheetsShape' /\ LinkInv' /\ BackInv'
<1>0. /\ wire \in Seq(Sheets) /\ back \in Seq(Sheets) /\ <<>> \in Seq(Sheets)
      /\ link.book \in SUBSET Topics
  BY DEF SheetsShape
<1>1. ASSUME NEW c \in Callers, Send(c) PROVE Goal
  <2>1. PICK f \in Sheets : wire' = Append(wire, f)
    BY <1>1, SendSheet
  <2>2. wire' \in Seq(Sheets)
    BY <2>1, <1>0
  <2> QED BY <1>1, <2>1, <2>2 DEF Send, SheetsShape, LinkInv, BackInv, Up
<1>9. ASSUME NEW c \in Callers, Record(c) PROVE Goal
  <2> DEFINE book == Recorded(link.book, Head(call[c].todo))
  <2>1. link' = [link EXCEPT !.book = book] /\ UNCHANGED <<wire, back, server>>
    BY <1>9 DEF Record
  <2>2. call[c].todo \in Seq(Requests) /\ call[c].todo # <<>>
    BY <1>9 DEF Record, At, TodoInv, CallShape, IsCall
  <2>3. Head(call[c].todo) \in Requests
    BY <2>2
  <2>4. book \in SUBSET Topics
    BY <1>0, <2>3 DEF Recorded, Requests
  <2> HIDE DEF book
  <2> QED BY <2>1, <2>4 DEF SheetsShape, LinkInv, BackInv, Up
<1>2. ASSUME NEW c \in Callers, ListSend(c) PROVE Goal
  <2>1. CASE Up /\ wire' = Append(wire, Frame("list", Id(c), "none", {}))
    <3>1. Id(c) \in Callers \X Nat
      BY DEF Id, CallShape, IsCall
    <3>2. Frame("list", Id(c), "none", {}) \in Sheets
      BY <3>1, FrameIsSheet DEF Kinds
    <3>3. wire' \in Seq(Sheets)
      BY <2>1, <3>2, <1>0
    <3> QED BY <2>1, <3>3, <1>2 DEF ListSend, SheetsShape, LinkInv, BackInv, Up
  <2>2. CASE UNCHANGED wire
    BY <2>2, <1>2 DEF ListSend, SheetsShape, LinkInv, BackInv, Up
  <2> QED BY <2>1, <2>2, <1>2 DEF ListSend
<1>3. CASE Receive
  <2>1. back # <<>> /\ back' = Tail(back) /\ UNCHANGED <<link, wire, server>>
    BY <1>3 DEF Receive
  <2>2. back' \in Seq(Sheets)
    BY <2>1, <1>0
  <2>3. BackInv'
    BY <2>1, <1>0, SeqRules DEF BackInv
  <2> QED BY <2>1, <2>2, <2>3 DEF SheetsShape, LinkInv, Up
<1>4. CASE Ping
  <2>1. Frame("ping", Nobody, "heartbeat", {}) \in Sheets
    BY IdleIsCall, FrameIsSheet DEF Kinds
  <2>2. wire' = Append(wire, Frame("ping", Nobody, "heartbeat", {})) /\ Up
        /\ UNCHANGED <<link, back, server>>
    BY <1>4 DEF Ping
  <2>3. wire' \in Seq(Sheets)
    BY <2>1, <2>2, <1>0
  <2> QED BY <2>2, <2>3 DEF SheetsShape, LinkInv, BackInv, Up
<1>5. CASE Connect \/ Disconnect \/ Drop \/ Reopen
  <2>1. CASE Connect \/ Reopen
    <3>1. /\ link' = [link EXCEPT !.state = "up"] /\ server' = Named(link.book)
          /\ UNCHANGED <<wire, back>>
      BY <2>1 DEF Connect, Reopen, Opens
    <3>2. Named(link.book) \in SUBSET Topics
      BY <1>0, NamedTopics
    <3> QED BY <3>1, <3>2 DEF SheetsShape, LinkInv, BackInv, Up
  <2>2. CASE Disconnect
    <3>1. link' = [link EXCEPT !.state = "down", !.book = {}]
          /\ wire' = <<>> /\ back' = <<>> /\ server' = {}
      BY <2>2 DEF Disconnect
    <3>2. /\ link' \in [state : {"down", "lost", "up"}, book : SUBSET Topics,
                        drops : {link'.drops}]
          /\ link'.state = "down" /\ link'.book = {}
      BY <3>1 DEF SheetsShape
    <3> QED BY <3>1, <3>2, <1>0 DEF SheetsShape, LinkInv, BackInv, Up
  <2>3. CASE Drop
    <3>1. link' = [link EXCEPT !.state = "lost", !.drops = @ + 1]
          /\ wire' = <<>> /\ back' = <<>> /\ server' = {}
      BY <2>3 DEF Drop
    <3>2. /\ link' \in [state : {"down", "lost", "up"}, book : SUBSET Topics,
                        drops : {link'.drops}]
          /\ link'.state = "lost"
      BY <3>1 DEF SheetsShape
    <3> QED BY <3>1, <3>2, <1>0 DEF SheetsShape, LinkInv, BackInv, Up
  <2> QED BY <1>5, <2>1, <2>2, <2>3
<1>6. CASE ServerTakes
  <2>1. PICK a \in Sheets : /\ wire # <<>> /\ Head(wire) \in Sheets
                            /\ back' = Append(back, a)
                            /\ a.kind = "listed" => a.channel = "none"
    BY <1>6, AnswerSheet
  <2>2. /\ wire' = Tail(wire) /\ UNCHANGED link /\ Up
        /\ server' = Taken(server, Head(wire)) \/ server' = server
    BY <1>6 DEF ServerTakes
  <2>3. wire' \in Seq(Sheets) /\ back' \in Seq(Sheets)
    BY <2>1, <2>2, <1>0
  <2>4. server' \in SUBSET Topics
    <3> DEFINE f == Head(wire)
    <3> HIDE DEF f
    <3>1. f \in Sheets => Taken(server, f) \in SUBSET Topics
      BY DEF Taken, Sheets, SheetsShape
    <3> QED BY <3>1, <2>1, <2>2 DEF f, SheetsShape
  <2>5. BackInv'
    BY <2>1, <1>0, SeqRules DEF BackInv
  <2> QED BY <2>2, <2>3, <2>4, <2>5 DEF SheetsShape, LinkInv, Up
<1>7. CASE ServerPushes
  <2>1. PICK f \in Frames :
          back' = Append(back, [NoFrame EXCEPT !.kind = "push", !.channel = f.channel,
                                               !.class = f.class])
    BY <1>7 DEF ServerPushes
  <2> DEFINE a == [NoFrame EXCEPT !.kind = "push", !.channel = f.channel, !.class = f.class]
  <2>2. a \in Sheets /\ a.kind = "push"
    BY NoFrameIsSheet, FramesAssumption DEF Sheets, Kinds
  <2> HIDE DEF a
  <2>3. back' = Append(back, a) /\ Up /\ UNCHANGED <<link, wire, server>>
    BY <2>1, <1>7 DEF a, ServerPushes
  <2>4. back' \in Seq(Sheets)
    BY <2>2, <2>3, <1>0
  <2>5. BackInv'
    BY <2>2, <2>3, <1>0, SeqRules DEF BackInv
  <2> QED BY <2>3, <2>4, <2>5 DEF SheetsShape, LinkInv, Up
<1>8. CASE UNCHANGED <<link, wire, back, server>>
  BY <1>8 DEF SheetsShape, LinkInv, BackInv, Up
<1> QED
  BY <1>1, <1>2, <1>3, <1>4, <1>5, <1>6, <1>7, <1>8, <1>9
  DEF Next, CallerStep, LoopStep, LoopWakes, LoopSends, MainStep, SetCallback, RefreshHandlers,
      PingStart, PingJoin, PingJoinTimeout, PingRun, Handle, Start, Register, SendFails,
      StartList, ListOn, ListWait, Off, OffWrite, Return

LEMMA SpellStep ==
  ASSUME CallShape, SheetsShape, TodoInv, SpellInv, Next
  PROVE SpellInv'
<1> USE DEF SpellInv
<1>0. wire \in Seq(Sheets) /\ back \in Seq(Sheets)
  BY DEF SheetsShape
<1>1. ASSUME NEW c \in Callers, Send(c) PROVE SpellInv'
  <2>1. PICK f \in Sheets :
          /\ f.topics = Named(Head(call[c].todo).topics) /\ wire' = Append(wire, f)
    BY <1>1, SendSheet
  <2>2. UNCHANGED server
    BY <1>1 DEF Send
  <2>3. \A t \in f.topics : AtServer(t) = t
    BY <2>1, NamedTopics
  <2> QED BY <2>1, <2>2, <2>3, <1>0
<1>2. ASSUME NEW f, f.topics = {}, wire' = Append(wire, f), UNCHANGED server PROVE SpellInv'
  BY <1>2, <1>0
<1>3. ASSUME NEW c \in Callers, ListSend(c) PROVE SpellInv'
  <2>1. CASE wire' = Append(wire, Frame("list", Id(c), "none", {}))
    BY <2>1, <1>2, <1>3 DEF ListSend, Frame, NoFrame
  <2>2. CASE UNCHANGED wire
    BY <2>2, <1>3 DEF ListSend
  <2> QED BY <1>3, <2>1, <2>2 DEF ListSend
<1>4. CASE Ping
  BY <1>4, <1>2 DEF Ping, Frame, NoFrame
<1>5. CASE Connect \/ Reopen
  BY <1>5, NamedTopics DEF Connect, Reopen, Opens
<1>6. CASE Disconnect \/ Drop
  BY <1>6 DEF Disconnect, Drop
<1>7. CASE ServerTakes
  <2>1. /\ wire # <<>> /\ wire' = Tail(wire)
        /\ server' = Taken(server, Head(wire)) \/ server' = server
    BY <1>7 DEF ServerTakes
  <2>2. \A t \in Head(wire).topics : AtServer(t) = t
    BY <2>1, <1>0
  <2>3. \A t \in server' : AtServer(t) = t
    BY <2>1, <2>2 DEF Taken
  <2>4. \A i \in DOMAIN wire' : i + 1 \in DOMAIN wire /\ wire'[i] = wire[i + 1]
    BY <2>1, <1>0
  <2> QED BY <2>3, <2>4
<1>8. CASE UNCHANGED <<wire, server>>
  BY <1>8
<1> QED
  BY <1>1, <1>3, <1>4, <1>5, <1>6, <1>7, <1>8
  DEF Next, CallerStep, LoopStep, LoopWakes, LoopSends, MainStep, SetCallback, RefreshHandlers,
      PingStart, PingJoin, PingJoinTimeout, PingRun, Handle, Start, Register, Record, SendFails,
      StartList, ListOn, ListWait, Off, OffWrite, Return, Receive, ServerPushes

LEMMA RestShapeStep ==
  ASSUME CallShape, RestShape, Next
  PROVE RestShape'
<1> USE DEF RestShape
<1>1. ASSUME NEW c \in Callers, Register(c) \/ ListOn(c) \/ OffWrite(c) PROVE RestShape'
  BY <1>1 DEF Register, ListOn, OffWrite, AckRoute
<1>2. CASE SetCallback
  BY <1>2 DEF SetCallback
<1>3. CASE RefreshHandlers
  BY <1>3 DEF RefreshHandlers
<1>4. CASE Receive
  BY <1>4 DEF Receive
<1>5. CASE Handle
  BY <1>5 DEF Handle
<1>6. CASE PingStart \/ PingJoin \/ PingJoinTimeout \/ PingRun
  <2>1. CASE PingStart
    <3>1. -1 \in -1..2
      OBVIOUS
    <3> QED BY <2>1, <3>1 DEF PingStart
  <2>2. CASE PingJoin
    BY <2>2 DEF PingJoin
  <2>3. CASE PingJoinTimeout
    BY <2>3 DEF PingJoinTimeout
  <2>4. CASE PingRun
    BY <2>4 DEF PingRun
  <2> QED BY <1>6, <2>1, <2>2, <2>3, <2>4
<1>7. ASSUME NEW l \in Loops, LoopWakes(l) \/ LoopSends(l) PROVE RestShape'
  <2>1. CASE LoopWakes(l)
    BY <2>1 DEF LoopWakes
  <2>2. CASE LoopSends(l)
    <3>1. stray' \in -1..2
      BY <2>2 DEF LoopSends
    <3>2. loop' \in [Loops -> {"ended", "waiting", "sending"}]
      BY <2>2 DEF LoopSends
    <3>3. UNCHANGED <<table, main, reader, ping>>
      BY <2>2 DEF LoopSends
    <3> QED BY <3>1, <3>2, <3>3
  <2> QED BY <1>7, <2>1, <2>2
<1>8. CASE Disconnect
  <2>1. ping' = [ping EXCEPT !.stop = TRUE] /\ stray' = 0
        /\ UNCHANGED <<table, main, reader, loop>>
    BY <1>8 DEF Disconnect, LoopTold
  <2>2. 0 \in -1..2
    OBVIOUS
  <2>3. ping' \in [stop : BOOLEAN, thread : Loops \union {NoLoop}, late : BOOLEAN]
    BY <2>1
  <2> QED BY <2>1, <2>2, <2>3
<1>9. CASE UNCHANGED <<table, main, reader, ping, loop, stray>>
  BY <1>9
<1> QED
  BY <1>1, <1>2, <1>3, <1>4, <1>5, <1>6, <1>7, <1>8, <1>9
  DEF Next, CallerStep, LoopStep, MainStep, Ping, Connect, Start, Send, Record, SendFails, StartList,
      ListSend, ListWait, Off, Return, Drop, Reopen, ServerTakes, ServerPushes

-----------------------------------------------------------------------------
(* The callbacks                                                           *)

\* A callback that wants a frame wants its route.
LEMMA WantedRoute ==
  ASSUME NEW f \in Sheets, f.kind = "listed" => f.channel = "none", NEW set,
         NEW key, key \in For(f, set)
  PROVE /\ f.channel \in Routes(f) \ {"list", "ack"}
        /\ \/ f.channel = "heartbeat" /\ key = "on_heartbeat" /\ key \in set
           \/ f.channel \in {"data", "trading"} /\ Wants({key}, f.channel) /\ key \in set
<1>1. f.channel \in {"data", "trading", "heartbeat"}
  BY DEF For
<1>2. f.channel \in Routes(f) \ {"list", "ack"}
  BY <1>1 DEF Routes
<1>3. CASE f.channel = "heartbeat"
  BY <1>2, <1>3 DEF For
<1>4. CASE f.channel = "data"
  BY <1>2, <1>4 DEF For, Wants, General
<1>5. CASE f.channel = "trading"
  BY <1>2, <1>5 DEF For, Wants, General
<1> QED BY <1>1, <1>3, <1>4, <1>5

LEMMA TableStep ==
  ASSUME RestShape, TableInv, Next
  PROVE TableInv'
<1> USE DEF RestShape
<1>1. ASSUME NEW c \in Callers, Register(c) \/ ListOn(c) \/ OffWrite(c) PROVE TableInv'
  BY <1>1 DEF Register, ListOn, OffWrite, AckRoute, TableInv
<1>2. CASE SetCallback
  <2>1. PICK key \in Settable :
          /\ main' = [main EXCEPT !.pc = "refresh", !.key = key]
          /\ callback' = IF key \in callback THEN callback \ {key} ELSE callback \union {key}
    BY <1>2 DEF SetCallback
  <2>2. main.pc = "idle" /\ main.key = "none" /\ UNCHANGED table
    BY <1>2 DEF SetCallback, TableInv
  <2>3. callback' \ {main'.key} \subseteq callback \ {key} /\ main'.pc = "refresh"
    BY <2>1
  <2>4. \A r \in {"data", "trading"} : Wants(callback' \ {main'.key}, r) => Wants(callback, r)
    BY <2>3 DEF Wants
  <2>5. \A r \in {"data", "trading"} : Wants(callback, r) => Wants(callback \ {"none"}, r)
    BY DEF Wants, General, TypedData, TypedTrading
  <2> QED BY <2>2, <2>3, <2>4, <2>5 DEF TableInv
<1>3. CASE RefreshHandlers
  <2>1. /\ main.pc = "refresh" /\ main'.pc = "idle" /\ main'.key = "none"
        /\ UNCHANGED callback
    BY <1>3 DEF RefreshHandlers
  <2>2. CASE main.key = "on_heartbeat"
    <3>1. /\ "on_heartbeat" \in callback => table'["heartbeat"] = <<Nobody>>
          /\ \A r \in {"data", "trading"} : table'[r] = table[r]
      BY <1>3, <2>2 DEF RefreshHandlers
    <3>2. \A r \in {"data", "trading"} :
            Wants(callback \ {"none"}, r) => Wants(callback \ {main.key}, r)
      BY <2>2 DEF Wants, General, TypedData, TypedTrading
    <3> QED BY <2>1, <3>1, <3>2 DEF TableInv, Wants
  <2>3. CASE main.key # "on_heartbeat"
    <3>1. /\ table'["heartbeat"] = table["heartbeat"]
          /\ \A r \in {"data", "trading"} : Wants(callback, r) => table'[r] = <<Nobody>>
      BY <1>3, <2>3 DEF RefreshHandlers
    <3>2. \A r \in {"data", "trading"} : Wants(callback \ {"none"}, r) => Wants(callback, r)
      BY DEF Wants
    <3> QED BY <2>1, <2>3, <3>1, <3>2 DEF TableInv, Wants
  <2> QED BY <2>2, <2>3
<1>4. CASE PingStart \/ PingJoin \/ PingJoinTimeout \/ PingRun
  <2>1. main'.key = main.key /\ main.pc # "refresh" /\ UNCHANGED <<table, callback>>
    BY <1>4 DEF PingStart, PingJoin, PingJoinTimeout, PingRun, Free
  <2>2. main.key = "none"
    BY <2>1 DEF TableInv
  <2> QED BY <2>1, <2>2 DEF TableInv, Wants
<1>5. CASE UNCHANGED <<table, main, callback>>
  BY <1>5 DEF TableInv, Wants
<1> QED
  BY <1>1, <1>2, <1>3, <1>4, <1>5
  DEF Next, CallerStep, LoopStep, LoopWakes, LoopSends, MainStep, Ping, Connect, Start, Send,
      Record, SendFails, StartList, ListSend, ListWait, Off, Return, Drop, Reopen, ServerTakes,
      ServerPushes, Receive, Handle, Disconnect

LEMMA OwedStep ==
  ASSUME SheetsShape, RestShape, BackInv, TableInv, OwedInv, Next
  PROVE OwedInv'
<1> USE DEF RestShape
<1>1. CASE SetCallback
  <2>1. PICK key \in Settable :
          /\ callback' = IF key \in callback THEN callback \ {key} ELSE callback \union {key}
          /\ reader' = [reader EXCEPT !.owed = @ \ {key}]
    BY <1>1 DEF SetCallback
  <2>2. reader'.owed = reader.owed \ {key} /\ reader'.frame = reader.frame
        /\ reader'.pc = reader.pc
    BY <2>1
  <2>3. ASSUME NEW k, k # key, k \in For(reader.frame, callback)
        PROVE k \in For(reader.frame, callback')
    <3>1. k \in callback => k \in callback'
      BY <2>1, <2>3
    <3> QED BY <2>3, <3>1 DEF For
  <2> QED BY <2>2, <2>3 DEF OwedInv
<1>2. CASE Receive
  <2> DEFINE f == Head(back)
             runs == \E r \in Routes(f) \ {"list", "ack"} : table[r] = <<Nobody>>
  <2>1. /\ reader' = [pc |-> IF runs THEN "handle" ELSE "idle",
                      frame |-> IF runs THEN f ELSE NoFrame,
                      owed |-> For(f, callback) \ {main.key}]
        /\ UNCHANGED callback /\ back # <<>>
    BY <1>2 DEF Receive
  <2>2. f \in Sheets /\ (f.kind = "listed" => f.channel = "none")
    BY <2>1, SeqRules DEF SheetsShape, BackInv
  <2> HIDE DEF f
  <2>3. ASSUME NEW key, key \in For(f, callback) \ {main.key} PROVE runs
    <3>1. /\ f.channel \in Routes(f) \ {"list", "ack"}
          /\ \/ f.channel = "heartbeat" /\ key = "on_heartbeat" /\ key \in callback
             \/ f.channel \in {"data", "trading"} /\ Wants({key}, f.channel) /\ key \in callback
      <4>1. key \in For(f, callback)
        BY <2>3
      <4>2. f \in Sheets
        BY <2>2
      <4>3. f.kind = "listed" => f.channel = "none"
        BY <2>2
      <4> HIDE DEF runs, RestShape
      <4> QED BY <4>1, <4>2, <4>3, WantedRoute
    <3>2. CASE f.channel = "heartbeat"
      BY <3>1, <3>2, <2>3 DEF TableInv
    <3>3. CASE f.channel \in {"data", "trading"}
      <4>1. Wants(callback \ {main.key}, f.channel)
        BY <3>1, <3>3, <2>3 DEF Wants
      <4> QED BY <4>1, <3>1, <3>3 DEF TableInv
    <3> QED BY <3>1, <3>2, <3>3
  <2>4. CASE runs
    BY <2>1, <2>4 DEF OwedInv
  <2>5. CASE ~runs
    <3>1. reader'.owed = {}
      BY <2>1, <2>3, <2>5
    <3> QED BY <3>1 DEF OwedInv
  <2> QED BY <2>4, <2>5
<1>3. CASE Handle
  <2>1. reader' = [pc |-> "idle", frame |-> NoFrame,
                   owed |-> reader.owed \ For(reader.frame, callback)]
    BY <1>3 DEF Handle
  <2>2. reader'.owed = {}
    BY <2>1 DEF OwedInv
  <2> QED BY <2>2 DEF OwedInv
<1>4. CASE UNCHANGED <<reader, callback>>
  BY <1>4 DEF OwedInv
<1> QED
  BY <1>1, <1>2, <1>3, <1>4
  DEF Next, CallerStep, LoopStep, LoopWakes, LoopSends, MainStep, RefreshHandlers, Ping,
      PingStart, PingJoin, PingJoinTimeout, PingRun, Connect, Disconnect, Start, Register, Send,
      Record, SendFails, StartList, ListOn, ListSend, ListWait, Off, OffWrite, Return, Drop, Reopen,
      ServerTakes, ServerPushes

-----------------------------------------------------------------------------
(* The ping loops                                                          *)

LEMMA LoopStepInv ==
  ASSUME RestShape, LoopInv, Next
  PROVE LoopInv'
<1> USE DEF RestShape
<1>1. CASE PingStart
  <2>1. /\ main.pc = "idle" /\ main'.pc = "ping_join" /\ ping'.late = ping.late
        /\ ping'.thread = ping.thread /\ stray' = -1 /\ UNCHANGED loop
    BY <1>1 DEF PingStart, Free
  <2> QED BY <2>1 DEF LoopInv
<1>2. CASE PingJoin
  <2>1. /\ main.pc = "ping_join" /\ main'.pc = "ping_start" /\ UNCHANGED <<ping, stray, loop>>
        /\ ping.thread # NoLoop => loop[ping.thread] = "ended"
    BY <1>2 DEF PingJoin, LoopJoined, LoopEnded
  <2>2. ~ping.late => \A l \in Loops : loop[l] = "ended"
    BY <2>1, LoopAssumption DEF LoopInv
  <2> QED BY <2>1, <2>2 DEF LoopInv
<1>3. CASE PingJoinTimeout
  BY <1>3 DEF PingJoinTimeout, LoopInv
<1>4. CASE PingRun
  <2>1. PICK l \in Loops :
          /\ loop' = [loop EXCEPT ![l] = "waiting"]
          /\ ping' = [ping EXCEPT !.stop = FALSE, !.thread = l]
    BY <1>4 DEF PingRun
  <2>2. /\ main.pc = "ping_start" /\ main'.pc = "idle" /\ UNCHANGED stray
        /\ ping'.late = ping.late /\ ping'.thread = l
    BY <1>4, <2>1 DEF PingRun
  <2>3. ~ping.late => \A k \in Loops : loop'[k] # "ended" => k = l
    BY <2>1, <2>2 DEF LoopInv
  <2> QED BY <2>2, <2>3 DEF LoopInv
<1>5. ASSUME NEW l \in Loops, LoopWakes(l) PROVE LoopInv'
  <2>1. /\ loop[l] = "waiting" /\ UNCHANGED <<main, ping, stray>>
        /\ loop' = [loop EXCEPT ![l] = IF ping.stop THEN "ended" ELSE "sending"]
    BY <1>5 DEF LoopWakes
  <2>2. /\ \A k \in Loops : loop'[k] # "ended" => loop[k] # "ended"
        /\ ping.stop => \A k \in Loops : loop'[k] = "sending" => loop[k] = "sending"
    BY <2>1
  <2> QED BY <2>1, <2>2 DEF LoopInv
<1>6. ASSUME NEW l \in Loops, LoopSends(l) PROVE LoopInv'
  <2>1. /\ loop[l] = "sending" /\ UNCHANGED <<main, ping>>
        /\ loop' = [loop EXCEPT ![l] = IF Up THEN "waiting" ELSE "ended"]
        /\ stray' = IF Up /\ stray \in 0..1 THEN stray + 1 ELSE stray
    BY <1>6 DEF LoopSends
  <2>2. /\ \A k \in Loops : loop'[k] # "ended" => loop[k] # "ended"
        /\ \A k \in Loops : loop'[k] = "sending" => loop[k] = "sending" /\ k # l
    BY <2>1
  <2>3. ASSUME ~ping.late
        PROVE /\ \A k \in Loops : loop'[k] # "sending"
              /\ stray \in {-1, 0}
    BY <2>1, <2>2, <2>3 DEF LoopInv
  <2>4. ~ping.late => stray' \in {-1, 0, 1} /\ (stray' # -1 => stray # -1)
    BY <2>1, <2>3
  <2> QED BY <2>1, <2>2, <2>3, <2>4 DEF LoopInv
<1>7. CASE Disconnect
  <2>1. /\ main.pc = "idle" /\ ping'.stop = TRUE /\ stray' = 0 /\ ping'.late = ping.late
        /\ ping'.thread = ping.thread /\ UNCHANGED <<main, loop>>
    BY <1>7 DEF Disconnect, Free, LoopTold
  <2> QED BY <2>1 DEF LoopInv
<1>8. CASE SetCallback \/ RefreshHandlers
  <2>1. main'.pc \in {"idle", "refresh"} /\ UNCHANGED <<ping, loop, stray>>
    BY <1>8 DEF SetCallback, RefreshHandlers
  <2> QED BY <2>1 DEF LoopInv
<1>9. CASE UNCHANGED <<main, ping, loop, stray>>
  BY <1>9 DEF LoopInv
<1> QED
  BY <1>1, <1>2, <1>3, <1>4, <1>5, <1>6, <1>7, <1>8, <1>9
  DEF Next, CallerStep, LoopStep, MainStep, Ping, Connect, Start, Register, Send, Record, SendFails,
      StartList, ListOn, ListSend, ListWait, Off, OffWrite, Return, Drop, Reopen, ServerTakes,
      ServerPushes, Receive, Handle

LEMMA OneLoop == ASSUME RestShape, LoopInv PROVE OnePingLoop
<1>1. SUFFICES ASSUME ~ping.late
               PROVE stray <= 1 /\ Cardinality({l \in Loops : loop[l] # "ended"}) <= 1
  BY DEF OnePingLoop
<1>2. stray <= 1
  BY <1>1 DEF LoopInv, RestShape
<1>3. {l \in Loops : loop[l] # "ended"} \subseteq {ping.thread}
  BY <1>1 DEF LoopInv
<1>4. IsFiniteSet({ping.thread}) /\ Cardinality({ping.thread}) = 1
  BY FS_Singleton
<1>5. Cardinality({l \in Loops : loop[l] # "ended"}) <= 1
  BY <1>3, <1>4, FS_Subset
<1> QED BY <1>2, <1>5

-----------------------------------------------------------------------------
(* What each step changes in the calls                                     *)

\* A call goes on as it was, but for what it would give up or has to see gone.
Continues(d) ==
  /\ call'[d].pc = call[d].pc /\ call'[d].todo = call[d].todo /\ call'[d].n = call[d].n
  /\ call'[d].adds = call[d].adds /\ call'[d].all = call[d].all
  /\ call'[d].arrived = call[d].arrived /\ call'[d].from = call[d].from
  /\ call'[d].listed = call[d].listed
Unmoved(d) ==
  /\ Continues(d) /\ call'[d].before = call[d].before
  /\ call'[d].muddled = call[d].muddled /\ call'[d].undo = call[d].undo

\* A call is over, or one has just begun.
Blank(c) ==
  /\ call'[c].adds = "none" /\ call'[c].all = FALSE /\ call'[c].arrived = FALSE
  /\ call'[c].before = {} /\ call'[c].muddled = FALSE
Over(c) ==
  Blank(c) /\ call'[c].pc = "idle" /\ call'[c].todo = <<>> /\ call'[c].undo = "none"

LEMMA StartMoves ==
  ASSUME CallShape, NEW c \in Callers, Start(c)
  PROVE \E op \in Menu[c] :
          LET adds    == op.method = "subscribe"
              clashes == \E d \in Callers \ {c} : call[d].adds = op.pair
          IN /\ call[c].pc = "idle" /\ op.requests # <<>>
             /\ call'[c].pc \in {"on", "send"} /\ call'[c].todo = op.requests
             /\ call'[c].all = FALSE /\ call'[c].arrived = FALSE /\ call'[c].before = {}
             /\ call'[c].muddled = FALSE
             /\ call'[c].adds = (IF adds THEN op.pair ELSE "none")
             /\ call'[c].undo = (IF adds \/ clashes THEN "none" ELSE op.pair)
             /\ \A d \in Callers \ {c} :
                  /\ Continues(d) /\ call'[d].before = call[d].before
                  /\ call'[d].muddled = call[d].muddled
                  /\ call'[d].undo = IF adds /\ call[d].undo = op.pair THEN "none"
                                     ELSE call[d].undo
             /\ active' = IF adds THEN active \union {op.pair} ELSE active
<1>1. PICK op \in Menu[c], ack \in BOOLEAN :
          LET adds    == op.method = "subscribe"
              clashes == \E d \in Callers \ {c} : call[d].adds = op.pair
          IN /\ op.requests # <<>>
             /\ call' = [d \in Callers |->
               IF d = c
               THEN [Idle EXCEPT !.pc = IF ack THEN "on" ELSE "send", !.n = call[c].n + 1,
                                 !.todo = op.requests, !.ack = ack,
                                 !.adds = IF adds THEN op.pair ELSE "none",
                                 !.undo = IF adds \/ clashes THEN "none" ELSE op.pair]
               ELSE IF adds /\ call[d].undo = op.pair
                    THEN [call[d] EXCEPT !.undo = "none"] ELSE call[d]]
             /\ active' = IF adds THEN active \union {op.pair} ELSE active
  BY DEF Start
<1> DEFINE adds    == op.method = "subscribe"
           clashes == \E d \in Callers \ {c} : call[d].adds = op.pair
           p == IF ack THEN "on" ELSE "send"
           n == call[c].n + 1
           a == IF adds THEN op.pair ELSE "none"
           u == IF adds \/ clashes THEN "none" ELSE op.pair
           r == [Idle EXCEPT !.pc = p, !.n = n, !.todo = op.requests, !.ack = ack,
                             !.adds = a, !.undo = u]
<1>2. call'[c] = r
  BY <1>1
<1>3. \A d \in Callers \ {c} :
        call'[d] = IF adds /\ call[d].undo = op.pair
                   THEN [call[d] EXCEPT !.undo = "none"] ELSE call[d]
  BY <1>1
<1>4. call[c].pc = "idle"
  BY DEF Start, Free, At
<1>5. p \in {"on", "send"}
  OBVIOUS
<1> HIDE DEF adds, clashes, p, n, a, u
<1>6. /\ r.pc = p /\ r.todo = op.requests /\ r.all = FALSE /\ r.arrived = FALSE
      /\ r.before = {} /\ r.muddled = FALSE /\ r.adds = a /\ r.undo = u
  BY IdleIsCall DEF IsCall
<1>7. ASSUME NEW d \in Callers \ {c}
      PROVE /\ Continues(d) /\ call'[d].before = call[d].before
            /\ call'[d].muddled = call[d].muddled
            /\ call'[d].undo = IF adds /\ call[d].undo = op.pair THEN "none" ELSE call[d].undo
  <2>1. IsCall(call[d])
    BY DEF CallShape
  <2> QED BY <1>3, <2>1 DEF Continues, IsCall
<1> HIDE DEF r
<1> QED BY <1>1, <1>2, <1>4, <1>5, <1>6, <1>7 DEF adds, clashes, a, u

LEMMA StageMoves ==
  ASSUME CallShape, NEW c \in Callers,
         \/ Register(c) \/ ListOn(c) \/ ListSend(c) \/ ListWait(c) \/ Off(c)
  PROVE /\ \A d \in Callers \ {c} : Unmoved(d)
        /\ call'[c].todo = call[c].todo /\ call'[c].n = call[c].n
        /\ call'[c].adds = call[c].adds /\ call'[c].all = call[c].all
        /\ call'[c].arrived => call[c].arrived
        /\ call'[c].from = call[c].from /\ call'[c].listed = call[c].listed
        /\ call'[c].before = call[c].before /\ call'[c].muddled = call[c].muddled
        /\ call'[c].undo = call[c].undo
        /\ IF Register(c) THEN /\ call[c].pc = "on" /\ call'[c].pc = "send"
                               /\ call'[c].arrived = call[c].arrived
           ELSE Listing(c) /\ Listing(c)'
<1>0. IsCall(call[c]) /\ call = [d \in Callers |-> call[d]]
  BY DEF CallShape
<1>1. \A d \in Callers \ {c} : call'[d] = call[d]
  BY <1>0 DEF Register, ListOn, ListSend, ListWait, Off
<1>2. \A d \in Callers \ {c} : Unmoved(d)
  BY <1>1 DEF Unmoved, Continues
<1> DEFINE Goal ==
        /\ call'[c].todo = call[c].todo /\ call'[c].n = call[c].n
        /\ call'[c].adds = call[c].adds /\ call'[c].all = call[c].all
        /\ call'[c].arrived => call[c].arrived
        /\ call'[c].from = call[c].from /\ call'[c].listed = call[c].listed
        /\ call'[c].before = call[c].before /\ call'[c].muddled = call[c].muddled
        /\ call'[c].undo = call[c].undo
<1>3. CASE Register(c)
  <2>1. call'[c] = [call[c] EXCEPT !.pc = "send"] /\ call[c].pc = "on"
    BY <1>0, <1>3 DEF Register, At
  <2>2. Goal /\ call'[c].pc = "send" /\ call'[c].arrived = call[c].arrived
    BY <1>0, <2>1 DEF IsCall
  <2> HIDE DEF Goal
  <2>3. Goal
    BY <2>2
  <2> QED BY <1>2, <1>3, <2>1, <2>2, <2>3 DEF Goal
<1>4. CASE ~Register(c)
  <2>1. Goal /\ Listing(c) /\ Listing(c)'
    <3>1. CASE ListOn(c)
      <4>1. call'[c] = [call[c] EXCEPT !.pc = "list_send"] /\ call[c].pc = "list_on"
        BY <1>0, <3>1 DEF ListOn, At
      <4> QED BY <1>0, <4>1 DEF IsCall, Listing
    <3>2. CASE ListSend(c)
      <4>1. /\ call[c].pc = "list_send"
            /\ \/ call'[c] = [call[c] EXCEPT !.pc = "list_wait"]
               \/ call'[c] = [call[c] EXCEPT !.pc = "off", !.arrived = FALSE]
        BY <1>0, <3>2 DEF ListSend, At
      <4> QED BY <1>0, <4>1 DEF IsCall, Listing
    <3>3. CASE ListWait(c)
      <4>1. /\ call[c].pc = "list_wait"
            /\ call'[c] = [call[c] EXCEPT !.pc = "off", !.arrived = call[c].arrived]
        BY <1>0, <3>3 DEF ListWait, At, Arrived
      <4> QED BY <1>0, <4>1 DEF IsCall, Listing
    <3>4. CASE Off(c)
      <4>1. PICK k : call'[c] = [call[c] EXCEPT !.pc = "off_write", !.kept = k]
        BY <1>0, <3>4 DEF Off
      <4>2. call[c].pc = "off"
        BY <3>4 DEF Off, At
      <4> QED BY <1>0, <4>1, <4>2 DEF IsCall, Listing
    <3> QED BY <1>4, <3>1, <3>2, <3>3, <3>4
  <2> HIDE DEF Goal
  <2>2. Goal
    BY <2>1
  <2> QED BY <1>2, <1>4, <2>1, <2>2 DEF Goal
<1> QED BY <1>3, <1>4

LEMMA SendMoves ==
  ASSUME CallShape, NEW c \in Callers, Send(c)
  PROVE /\ call[c].pc = "send" /\ Up /\ call'[c].pc = "record"
        /\ call'[c].todo = call[c].todo /\ call'[c].n = call[c].n
        /\ call'[c].adds = call[c].adds
        /\ call'[c].all = call[c].all /\ call'[c].arrived = call[c].arrived
        /\ call'[c].from = call[c].from /\ call'[c].listed = call[c].listed
        /\ call'[c].before = call[c].before /\ call'[c].muddled = call[c].muddled
        /\ call'[c].undo = call[c].undo
        /\ \A d \in Callers \ {c} :
             /\ Continues(d) /\ call'[d].muddled = call[d].muddled
             /\ call'[d].undo = call[d].undo
             /\ call'[d].before = Asked(c, d, Head(call[c].todo))
<1> DEFINE m == Head(call[c].todo)
<1>1. /\ call[c].pc = "send" /\ Up
      /\ call'[c] = [call[c] EXCEPT !.pc = "record"]
      /\ \A d \in Callers \ {c} : call'[d] = [call[d] EXCEPT !.before = Asked(c, d, m)]
  BY DEF Send, At
<1>2. \A d \in Callers : IsCall(call[d])
  BY DEF CallShape
<1> HIDE DEF m
<1>3. /\ call'[c].pc = "record" /\ call'[c].todo = call[c].todo /\ call'[c].n = call[c].n
      /\ call'[c].adds = call[c].adds
      /\ call'[c].all = call[c].all /\ call'[c].arrived = call[c].arrived
      /\ call'[c].from = call[c].from /\ call'[c].listed = call[c].listed
      /\ call'[c].before = call[c].before /\ call'[c].muddled = call[c].muddled
      /\ call'[c].undo = call[c].undo
  BY <1>1, <1>2 DEF IsCall
<1>4. \A d \in Callers \ {c} :
             /\ Continues(d) /\ call'[d].muddled = call[d].muddled
             /\ call'[d].undo = call[d].undo
             /\ call'[d].before = Asked(c, d, m)
  <2> TAKE d \in Callers \ {c}
  <2> DEFINE b == Asked(c, d, m)
  <2>1. call'[d] = [call[d] EXCEPT !.before = b] /\ IsCall(call[d])
    BY <1>1, <1>2
  <2> HIDE DEF b
  <2>2. /\ Continues(d) /\ call'[d].muddled = call[d].muddled
        /\ call'[d].undo = call[d].undo /\ call'[d].before = b
    BY <2>1 DEF IsCall, Continues
  <2> QED BY <2>2 DEF b
<1> QED BY <1>1, <1>3, <1>4 DEF m

LEMMA RecordMoves ==
  ASSUME CallShape, NEW c \in Callers, Record(c)
  PROVE /\ call[c].pc = "record"
        /\ call'[c].todo = Tail(call[c].todo) /\ call'[c].n = call[c].n
        /\ call'[c].all = call[c].all /\ call'[c].arrived = call[c].arrived
        /\ call'[c].from = call[c].from /\ call'[c].listed = call[c].listed
        /\ call'[c].before = call[c].before /\ call'[c].muddled = call[c].muddled
        /\ call'[c].undo = call[c].undo
        /\ IF Tail(call[c].todo) = <<>>
           THEN /\ call'[c].adds = "none"
                /\ call'[c].pc = (IF call[c].all THEN "returned" ELSE "idle")
                /\ active' = active \ {call[c].undo}
           ELSE /\ call'[c].adds = call[c].adds /\ call'[c].pc \in {"on", "send"}
                /\ active' = active
        /\ \A d \in Callers \ {c} : Unmoved(d)
<1> DEFINE rest == Tail(call[c].todo)
           a == IF rest = <<>> THEN "none" ELSE call[c].adds
           p == IF rest # <<>> THEN (IF call[c].ack THEN "on" ELSE "send")
                ELSE IF call[c].all THEN "returned" ELSE "idle"
<1>1. /\ call[c].pc = "record"
      /\ call'[c] = [call[c] EXCEPT !.todo = rest, !.adds = a, !.pc = p]
      /\ \A d \in Callers \ {c} : call'[d] = call[d]
      /\ active' = IF rest = <<>> THEN active \ {call[c].undo} ELSE active
  BY DEF Record, At, CallShape
<1>2. \A d \in Callers : IsCall(call[d])
  BY DEF CallShape
<1> HIDE DEF rest, a, p
<1>3. /\ call'[c].todo = rest /\ call'[c].n = call[c].n
      /\ call'[c].all = call[c].all /\ call'[c].arrived = call[c].arrived
      /\ call'[c].from = call[c].from /\ call'[c].listed = call[c].listed
      /\ call'[c].before = call[c].before /\ call'[c].muddled = call[c].muddled
      /\ call'[c].undo = call[c].undo /\ call'[c].adds = a /\ call'[c].pc = p
  BY <1>1, <1>2 DEF IsCall
<1>4. \A d \in Callers \ {c} : Unmoved(d)
  BY <1>1 DEF Unmoved, Continues
<1> QED BY <1>1, <1>3, <1>4 DEF rest, a, p

LEMMA EndMoves ==
  ASSUME CallShape, NEW c \in Callers, SendFails(c) \/ Return(c)
  PROVE Over(c) /\ \A d \in Callers \ {c} : Unmoved(d)
<1>1. call'[c] = [Idle EXCEPT !.n = call[c].n] /\ \A d \in Callers \ {c} : call'[d] = call[d]
  BY DEF CallShape, SendFails, Return
<1>2. Over(c)
  BY <1>1, IdleIsCall DEF Over, Blank, IsCall
<1> QED BY <1>1, <1>2 DEF Unmoved, Continues

LEMMA StartListMoves ==
  ASSUME CallShape, NEW c \in Callers, StartList(c)
  PROVE /\ call[c].pc = "idle" /\ call'[c].pc = "list_on" /\ call'[c].todo = <<>>
        /\ call'[c].adds = "none" /\ call'[c].undo = "none" /\ call'[c].arrived = FALSE
        /\ call'[c].before = (IF call'[c].all THEN Subscribed \ Recording("subscribe")
                             ELSE {})
        /\ call'[c].muddled = (Unanswered \/ \E d \in Callers \ {c} : Listing(d))
        /\ \A d \in Callers \ {c} :
             /\ Continues(d) /\ call'[d].before = call[d].before
             /\ call'[d].undo = call[d].undo
             /\ call'[d].muddled = IF Listing(d) THEN TRUE ELSE call[d].muddled
<1> DEFINE muddled == Unanswered \/ \E d \in Callers \ {c} : Listing(d)
<1>1. PICK all \in BOOLEAN :
        call' = [d \in Callers |->
            IF d = c
            THEN [Idle EXCEPT !.pc = "list_on", !.n = call[c].n + 1, !.all = all,
                              !.before = IF all THEN Subscribed \ Recording("subscribe")
                                         ELSE {},
                              !.muddled = muddled]
            ELSE IF Listing(d) THEN [call[d] EXCEPT !.muddled = TRUE] ELSE call[d]]
  BY DEF StartList
<1> DEFINE n == call[c].n + 1
           b == IF all THEN Subscribed \ Recording("subscribe") ELSE {}
           r == [Idle EXCEPT !.pc = "list_on", !.n = n, !.all = all, !.before = b,
                             !.muddled = muddled]
<1>2. call'[c] = r
  BY <1>1
<1>3. \A d \in Callers \ {c} :
        call'[d] = IF Listing(d) THEN [call[d] EXCEPT !.muddled = TRUE] ELSE call[d]
  BY <1>1
<1>4. call[c].pc = "idle"
  BY DEF StartList, Free, At
<1> HIDE DEF muddled, n, b
<1>5. /\ r.pc = "list_on" /\ r.todo = <<>> /\ r.adds = "none" /\ r.undo = "none"
      /\ r.arrived = FALSE /\ r.before = b /\ r.all = all /\ r.muddled = muddled
  BY IdleIsCall DEF IsCall
<1>6. \A d \in Callers \ {c} :
             /\ Continues(d) /\ call'[d].before = call[d].before
             /\ call'[d].undo = call[d].undo
             /\ call'[d].muddled = IF Listing(d) THEN TRUE ELSE call[d].muddled
  <2>1. \A d \in Callers : IsCall(call[d])
    BY DEF CallShape
  <2> QED BY <1>3, <2>1 DEF Continues, IsCall
<1> HIDE DEF r
<1> QED BY <1>2, <1>4, <1>5, <1>6 DEF b, muddled

LEMMA OffWriteMoves ==
  ASSUME CallShape, NEW c \in Callers, OffWrite(c)
  PROVE /\ call[c].pc = "off_write"
        /\ \A d \in Callers \ {c} : Unmoved(d)
        /\ \/ Over(c)
           \/ /\ call[c].arrived
              /\ call'[c].todo = (IF call[c].all THEN UnsubscribeListed(call[c].listed) ELSE <<>>)
              /\ call'[c].pc = (IF call'[c].todo # <<>> THEN "send" ELSE "returned")
              /\ call'[c].n = call[c].n /\ call'[c].adds = call[c].adds
              /\ call'[c].all = call[c].all /\ call'[c].arrived = call[c].arrived
              /\ call'[c].from = call[c].from /\ call'[c].before = call[c].before
              /\ call'[c].muddled = call[c].muddled /\ call'[c].undo = call[c].undo
<1> DEFINE requests == IF call[c].all THEN UnsubscribeListed(call[c].listed) ELSE <<>>
           p == IF requests # <<>> THEN "send" ELSE "returned"
<1>1. /\ call[c].pc = "off_write"
      /\ call'[c] = IF ~call[c].arrived THEN [Idle EXCEPT !.n = call[c].n]
                    ELSE [call[c] EXCEPT !.todo = requests, !.kept = <<>>, !.listed = {},
                                         !.pc = p]
      /\ \A d \in Callers \ {c} : call'[d] = call[d]
  BY DEF OffWrite, At, CallShape
<1>2. IsCall(call[c])
  BY DEF CallShape
<1>3. \A d \in Callers \ {c} : Unmoved(d)
  BY <1>1 DEF Unmoved, Continues
<1>4. CASE ~call[c].arrived
  <2>1. Over(c)
    BY <1>1, <1>2, <1>4, IdleIsCall DEF Over, Blank, IsCall
  <2> QED BY <1>1, <1>3, <2>1
<1>5. CASE call[c].arrived
  <2> HIDE DEF requests, p
  <2>1. /\ call'[c].todo = requests /\ call'[c].pc = p
        /\ call'[c].n = call[c].n /\ call'[c].adds = call[c].adds
        /\ call'[c].all = call[c].all /\ call'[c].arrived = call[c].arrived
        /\ call'[c].from = call[c].from /\ call'[c].before = call[c].before
        /\ call'[c].muddled = call[c].muddled /\ call'[c].undo = call[c].undo
    BY <1>1, <1>2, <1>5 DEF IsCall
  <2> QED BY <1>1, <1>3, <1>5, <2>1 DEF requests, p
<1> QED BY <1>4, <1>5

LEMMA ReceiveMoves ==
  ASSUME CallShape, Receive, NEW d \in Callers
  PROVE /\ call'[d].pc = call[d].pc /\ call'[d].todo = call[d].todo /\ call'[d].n = call[d].n
        /\ call'[d].adds = call[d].adds /\ call'[d].all = call[d].all
        /\ call'[d].before = call[d].before /\ call'[d].muddled = call[d].muddled
        /\ call'[d].undo = call[d].undo
        /\ \/ /\ call'[d].arrived = call[d].arrived /\ call'[d].from = call[d].from
              /\ call'[d].listed = call[d].listed
           \/ /\ back # <<>> /\ Head(back).kind = "listed" /\ Listing(d)
              /\ call'[d].from = Head(back).by /\ call'[d].listed = Head(back).topics
<1> DEFINE f == Head(back)
           x == IF call[d].pc \in {"list_on", "list_send", "list_wait"} THEN TRUE
                ELSE call[d].arrived
<1>1. \/ call'[d] = call[d]
      \/ /\ back # <<>> /\ f.kind = "listed" /\ Listing(d)
         /\ call'[d] = [call[d] EXCEPT !.listed = f.topics, !.from = f.by, !.arrived = x]
  BY DEF Receive, Answer
<1>2. IsCall(call[d])
  BY DEF CallShape
<1> HIDE DEF f, x
<1>3. CASE call'[d] = call[d]
  BY <1>3
<1>4. CASE /\ back # <<>> /\ f.kind = "listed" /\ Listing(d)
           /\ call'[d] = [call[d] EXCEPT !.listed = f.topics, !.from = f.by, !.arrived = x]
  <2>1. /\ call'[d].pc = call[d].pc /\ call'[d].todo = call[d].todo
        /\ call'[d].n = call[d].n
        /\ call'[d].adds = call[d].adds /\ call'[d].all = call[d].all
        /\ call'[d].before = call[d].before /\ call'[d].muddled = call[d].muddled
        /\ call'[d].undo = call[d].undo
        /\ call'[d].from = f.by /\ call'[d].listed = f.topics
    BY <1>2, <1>4 DEF IsCall
  <2> QED BY <1>4, <2>1 DEF f
<1> QED BY <1>1, <1>3, <1>4

LEMMA DisconnectMoves ==
  ASSUME CallShape, Disconnect, NEW d \in Callers
  PROVE /\ Continues(d) /\ call'[d].before = call[d].before
        /\ call'[d].muddled = call[d].muddled /\ call'[d].undo = "none"
<1>1. call'[d] = [call[d] EXCEPT !.undo = "none"] /\ IsCall(call[d])
  BY DEF Disconnect, CallShape
<1> QED BY <1>1 DEF Continues, IsCall

LEMMA TakesMoves ==
  ASSUME CallShape, ServerTakes
  PROVE \/ UNCHANGED call /\ server' = Taken(server, Head(wire))
        \/ /\ Head(wire).kind = "subscribe" /\ server' = server
           /\ \A d \in Callers :
                /\ Continues(d) /\ call'[d].muddled = call[d].muddled
                /\ call'[d].undo = call[d].undo
                /\ call'[d].before = call[d].before \ Head(wire).topics
<1> DEFINE f == Head(wire)
<1>1. \/ UNCHANGED call /\ server' = Taken(server, f)
      \/ /\ f.kind = "subscribe" /\ server' = server
         /\ \A d \in Callers : call'[d] = [call[d] EXCEPT !.before = @ \ f.topics]
  BY DEF ServerTakes
<1> HIDE DEF f
<1>2. ASSUME NEW d \in Callers, call'[d] = [call[d] EXCEPT !.before = @ \ f.topics]
      PROVE /\ Continues(d) /\ call'[d].muddled = call[d].muddled
            /\ call'[d].undo = call[d].undo /\ call'[d].before = call[d].before \ f.topics
  <2>1. IsCall(call[d])
    BY DEF CallShape
  <2> QED BY <1>2, <2>1 DEF Continues, IsCall
<1> QED BY <1>1, <1>2 DEF f

-----------------------------------------------------------------------------
(* The requests of a call                                                  *)

TodoOf(c) ==
    /\ \A i \in DOMAIN call[c].todo :
         call[c].todo[i].method = IF call[c].adds = "none" THEN "unsubscribe" ELSE "subscribe"
    /\ call[c].adds # "none" => call[c].pc \in {"on", "send", "record"} /\ ~call[c].all
    /\ call[c].pc \in {"on", "send", "record"} => call[c].todo # <<>>
    /\ call[c].pc \notin {"on", "send", "record"} => call[c].todo = <<>>
    /\ call[c].all /\ call[c].pc \in {"on", "send", "record", "returned"} => call[c].arrived

LEMMA TodoStep ==
  ASSUME CallShape, TodoInv, Next
  PROVE TodoInv'
<1>0. /\ \A c \in Callers : TodoOf(c)
      /\ (\A c \in Callers : TodoOf(c)') => TodoInv'
  BY DEF TodoInv, TodoOf
<1>a. \A d \in Callers : Continues(d) => TodoOf(d)'
  BY <1>0 DEF TodoOf, Continues
<1>b. \A d \in Callers : Unmoved(d) => Continues(d)
  BY DEF Unmoved
<1>c. \A d \in Callers : Over(d) => TodoOf(d)'
  BY DEF TodoOf, Over, Blank
<1>1. ASSUME NEW c \in Callers, Start(c) PROVE TodoInv'
  <2>1. PICK op \in Menu[c] :
          /\ op.requests # <<>> /\ call'[c].pc \in {"on", "send"}
          /\ call'[c].todo = op.requests /\ call'[c].all = FALSE
          /\ call'[c].adds = IF op.method = "subscribe" THEN op.pair ELSE "none"
          /\ \A d \in Callers \ {c} : Continues(d)
    BY <1>1, StartMoves
  <2>2. /\ op.pair # "none" /\ op.method \in {"subscribe", "unsubscribe"}
        /\ op.requests \in Seq({m \in Requests : m.method = op.method})
    BY MenuAssumption DEF Methods
  <2>3. \A i \in DOMAIN op.requests : op.requests[i].method = op.method
    BY <2>2
  <2>4. TodoOf(c)'
    BY <2>1, <2>2, <2>3 DEF TodoOf
  <2> QED BY <2>1, <2>4, <1>0, <1>a
<1>2. ASSUME NEW c \in Callers,
             Register(c) \/ ListOn(c) \/ ListSend(c) \/ ListWait(c) \/ Off(c)
      PROVE TodoInv'
  <2>1. /\ call'[c].todo = call[c].todo /\ call'[c].adds = call[c].adds
        /\ call'[c].all = call[c].all
    BY <1>2, StageMoves
  <2>2. TodoOf(c)'
    <3>1. CASE Register(c)
      <4>1. /\ call[c].pc = "on" /\ call'[c].pc = "send"
            /\ call'[c].arrived = call[c].arrived
        BY <3>1, <1>2, StageMoves
      <4> QED BY <4>1, <2>1, <1>0 DEF TodoOf
    <3>2. CASE ~Register(c)
      <4>1. /\ call[c].pc \notin {"on", "send", "record", "returned"}
            /\ call'[c].pc \notin {"on", "send", "record", "returned"}
        BY <3>2, <1>2, StageMoves DEF Listing
      <4> QED BY <4>1, <2>1, <1>0 DEF TodoOf
    <3> QED BY <3>1, <3>2
  <2>3. \A d \in Callers \ {c} : Unmoved(d)
    BY <1>2, StageMoves
  <2> QED BY <2>2, <2>3, <1>0, <1>a, <1>b
<1>3. ASSUME NEW c \in Callers, Send(c) PROVE TodoInv'
  <2>1. TodoOf(c)'
    BY <1>3, <1>0, SendMoves DEF TodoOf
  <2> QED BY <2>1, <1>3, SendMoves, <1>0, <1>a
<1>11. ASSUME NEW c \in Callers, Record(c) PROVE TodoInv'
  <2>1. call[c].todo \in Seq(Requests) /\ call[c].todo # <<>>
    BY <1>11, <1>0, RecordMoves DEF TodoOf, CallShape, IsCall
  <2>2. \A i \in DOMAIN Tail(call[c].todo) :
          i + 1 \in DOMAIN call[c].todo /\ Tail(call[c].todo)[i] = call[c].todo[i + 1]
    BY <2>1
  <2>3. \A i \in DOMAIN Tail(call[c].todo) :
          Tail(call[c].todo)[i].method = IF call[c].adds = "none" THEN "unsubscribe"
                                         ELSE "subscribe"
    BY <2>2, <1>0 DEF TodoOf
  <2>4. CASE Tail(call[c].todo) = <<>>
    <3>1. /\ call'[c].todo = <<>> /\ call'[c].adds = "none"
          /\ call'[c].pc \in {"idle", "returned"}
          /\ call'[c].all = call[c].all /\ call'[c].arrived = call[c].arrived
          /\ call[c].pc = "record"
      BY <1>11, <2>4, RecordMoves
    <3>2. TodoOf(c)'
      BY <3>1, <1>0 DEF TodoOf
    <3> QED BY <3>2, <1>11, RecordMoves, <1>0, <1>a, <1>b
  <2>5. CASE Tail(call[c].todo) # <<>>
    <3>1. /\ call'[c].todo = Tail(call[c].todo) /\ call'[c].adds = call[c].adds
          /\ call'[c].pc \in {"on", "send"}
          /\ call'[c].all = call[c].all /\ call'[c].arrived = call[c].arrived
          /\ call[c].pc = "record"
      BY <1>11, <2>5, RecordMoves
    <3>2. TodoOf(c)'
      BY <3>1, <2>3, <2>5, <1>0 DEF TodoOf
    <3> QED BY <3>2, <1>11, RecordMoves, <1>0, <1>a, <1>b
  <2> QED BY <2>4, <2>5
<1>4. ASSUME NEW c \in Callers, SendFails(c) \/ Return(c) PROVE TodoInv'
  <2>1. Over(c) /\ \A d \in Callers \ {c} : Unmoved(d)
    BY <1>4, EndMoves
  <2> QED BY <2>1, <1>0, <1>a, <1>b, <1>c
<1>5. ASSUME NEW c \in Callers, StartList(c) PROVE TodoInv'
  <2>1. /\ call'[c].pc = "list_on" /\ call'[c].todo = <<>> /\ call'[c].adds = "none"
        /\ \A d \in Callers \ {c} : Continues(d)
    BY <1>5, StartListMoves
  <2>2. TodoOf(c)'
    BY <2>1 DEF TodoOf
  <2> QED BY <2>1, <2>2, <1>0, <1>a
<1>6. ASSUME NEW c \in Callers, OffWrite(c) PROVE TodoInv'
  <2>1. CASE Over(c)
    BY <2>1, <1>6, OffWriteMoves, <1>0, <1>a, <1>b, <1>c
  <2>2. CASE ~Over(c)
    <3>1. /\ call[c].pc = "off_write" /\ call'[c].arrived /\ call'[c].adds = call[c].adds
          /\ call'[c].todo = (IF call[c].all THEN UnsubscribeListed(call[c].listed) ELSE <<>>)
          /\ call'[c].pc = (IF call'[c].todo # <<>> THEN "send" ELSE "returned")
      BY <1>6, <2>2, OffWriteMoves
    <3>2. call[c].listed \in SUBSET Topics
      BY DEF CallShape, IsCall
    <3>3. \A i \in DOMAIN call'[c].todo : call'[c].todo[i].method = "unsubscribe"
      BY <3>1, <3>2, ListedRequests
    <3>4. call[c].adds = "none"
      BY <3>1, <1>0 DEF TodoOf
    <3>5. TodoOf(c)'
      BY <3>1, <3>3, <3>4 DEF TodoOf
    <3> QED BY <3>5, <1>6, OffWriteMoves, <1>0, <1>a, <1>b
  <2> QED BY <2>1, <2>2
<1>7. CASE Receive
  <2>1. ASSUME NEW d \in Callers PROVE TodoOf(d)'
    <3>1. /\ call'[d].pc = call[d].pc /\ call'[d].todo = call[d].todo
          /\ call'[d].adds = call[d].adds /\ call'[d].all = call[d].all
          /\ call'[d].arrived = call[d].arrived \/ Listing(d)
      BY <1>7, ReceiveMoves
    <3> QED BY <3>1, <1>0 DEF TodoOf, Listing
  <2> QED BY <2>1, <1>0
<1>8. CASE Disconnect
  BY <1>8, DisconnectMoves, <1>0, <1>a
<1>9. CASE ServerTakes
  <2>1. \A d \in Callers : Continues(d)
    BY <1>9, TakesMoves DEF Continues
  <2> QED BY <2>1, <1>0, <1>a
<1>10. CASE UNCHANGED call
  BY <1>10 DEF TodoInv
<1> QED
  BY <1>1, <1>2, <1>3, <1>4, <1>5, <1>6, <1>7, <1>8, <1>9, <1>10, <1>11
  DEF Next, CallerStep, LoopStep, LoopWakes, LoopSends, MainStep, SetCallback, RefreshHandlers,
      Ping, PingStart, PingJoin, PingJoinTimeout, PingRun, Connect, Handle, Drop, Reopen,
      ServerPushes

-----------------------------------------------------------------------------
(* The answers to listings                                                 *)

\* Every request for a list and every answer on its way is the caller's.
Owned(by) ==
  /\ \A i \in DOMAIN wire : wire[i].kind = "list" => wire[i].by = by
  /\ \A i \in DOMAIN back : back[i].kind = "listed" => back[i].by = by

LEMMA OwnedStep ==
  ASSUME CallShape, SheetsShape, TodoInv, Next
  PROVE \A by \in Callers \X Nat :
          Owned(by) /\ (\A c \in Callers : ListSend(c) => by = Id(c)) => Owned(by)'
<1> SUFFICES ASSUME NEW by \in Callers \X Nat, Owned(by),
                    \A c \in Callers : ListSend(c) => by = Id(c)
             PROVE Owned(by)'
  OBVIOUS
<1>0. wire \in Seq(Sheets) /\ back \in Seq(Sheets)
  BY DEF SheetsShape
<1>1. ASSUME NEW c \in Callers, Send(c) PROVE Owned(by)'
  <2>1. PICK f \in Sheets : /\ Head(call[c].todo) \in Requests
                            /\ f.kind = Head(call[c].todo).method
                            /\ wire' = Append(wire, f)
    BY <1>1, SendSheet
  <2>2. f.kind \in Methods
    BY <2>1 DEF Requests
  <2>3. UNCHANGED back /\ f.kind # "list"
    BY <1>1, <2>2 DEF Send, Methods
  <2> QED BY <2>1, <2>3, <1>0, SeqRules DEF Owned
<1>2. ASSUME NEW c \in Callers, ListSend(c) PROVE Owned(by)'
  <2>1. CASE wire' = Append(wire, Frame("list", Id(c), "none", {}))
    <3>1. Id(c) \in Callers \X Nat
      BY DEF Id, CallShape, IsCall
    <3>2. PICK f \in Sheets : f = Frame("list", Id(c), "none", {}) /\ f.by = by
      BY <3>1, <1>2, FrameIsSheet DEF Kinds
    <3>3. wire' = Append(wire, f) /\ UNCHANGED back
      BY <2>1, <3>2, <1>2 DEF ListSend
    <3> QED BY <3>2, <3>3, <1>0, SeqRules DEF Owned
  <2>2. CASE UNCHANGED wire
    BY <2>2, <1>2 DEF ListSend, Owned
  <2> QED BY <1>2, <2>1, <2>2 DEF ListSend
<1>3. CASE Receive
  <2>1. back # <<>> /\ back' = Tail(back) /\ UNCHANGED wire
    BY <1>3 DEF Receive
  <2> QED BY <2>1, <1>0, SeqRules DEF Owned
<1>4. CASE Ping
  <2>1. PICK f \in Sheets : f = Frame("ping", Nobody, "heartbeat", {}) /\ f.kind = "ping"
    BY IdleIsCall, FrameIsSheet DEF Kinds
  <2>2. wire' = Append(wire, f) /\ UNCHANGED back
    BY <2>1, <1>4 DEF Ping
  <2> QED BY <2>1, <2>2, <1>0, SeqRules DEF Owned
<1>5. CASE Disconnect \/ Drop
  BY <1>5 DEF Disconnect, Drop, Owned
<1>6. CASE ServerTakes
  <2>1. PICK a \in Sheets : /\ wire # <<>> /\ back' = Append(back, a)
                            /\ a.kind = "listed" =>
                                 Head(wire).kind = "list" /\ a.by = Head(wire).by
    BY <1>6, AnswerSheet
  <2>2. wire' = Tail(wire)
    BY <1>6 DEF ServerTakes
  <2>3. a.kind = "listed" => a.by = by
    BY <2>1, <1>0, SeqRules DEF Owned
  <2>4. \A i \in DOMAIN wire' : wire'[i].kind = "list" => wire'[i].by = by
    BY <2>1, <2>2, <1>0, SeqRules DEF Owned
  <2>5. \A i \in DOMAIN back' : back'[i].kind = "listed" => back'[i].by = by
    BY <2>1, <2>3, <1>0, SeqRules DEF Owned
  <2> QED BY <2>4, <2>5 DEF Owned
<1>7. CASE ServerPushes
  <2>1. PICK f \in Frames :
          back' = Append(back, [NoFrame EXCEPT !.kind = "push", !.channel = f.channel,
                                               !.class = f.class])
    BY <1>7 DEF ServerPushes
  <2> DEFINE a == [NoFrame EXCEPT !.kind = "push", !.channel = f.channel, !.class = f.class]
  <2>2. a \in Sheets /\ a.kind = "push"
    BY NoFrameIsSheet, FramesAssumption DEF Sheets, Kinds
  <2> HIDE DEF a
  <2>3. back' = Append(back, a) /\ UNCHANGED wire
    BY <2>1, <1>7 DEF a, ServerPushes
  <2> QED BY <2>2, <2>3, <1>0, SeqRules DEF Owned
<1>8. CASE UNCHANGED <<wire, back>>
  BY <1>8 DEF Owned
<1> QED
  BY <1>1, <1>2, <1>3, <1>4, <1>5, <1>6, <1>7, <1>8
  DEF Next, CallerStep, LoopStep, LoopWakes, LoopSends, MainStep, SetCallback, RefreshHandlers,
      PingStart, PingJoin, PingJoinTimeout, PingRun, Connect, Handle, Start, Register, Record,
      SendFails, StartList, ListOn, ListWait, Off, OffWrite, Return, Reopen

AnswerOf(c) ==
    /\ Listing(c) /\ ~call[c].muddled =>
         (\A d \in Callers : Listing(d) => d = c) /\ Owned(Id(c))
    /\ call[c].arrived /\ ~call[c].muddled => call[c].from = Id(c)

LEMMA AnswerStep ==
  ASSUME CallShape, SheetsShape, TodoInv, AnswerInv, Next
  PROVE AnswerInv'
<1>0. /\ \A c \in Callers : AnswerOf(c)
      /\ (\A c \in Callers : AnswerOf(c)') => AnswerInv'
  BY DEF AnswerInv, AnswerOf, Owned
<1>i. \A d \in Callers : Id(d) \in Callers \X Nat
  BY DEF Id, CallShape, IsCall
\* A call that goes on, while no other begins to list.
<1>a. ASSUME NEW d \in Callers, call'[d].n = call[d].n, call'[d].from = call[d].from,
             call'[d].arrived => call[d].arrived, call[d].muddled => call'[d].muddled,
             \A e \in Callers : Listing(e)' => Listing(e)
      PROVE AnswerOf(d)'
  <2>1. Id(d)' = Id(d) /\ AnswerOf(d)
    BY <1>a, <1>0 DEF Id
  <2>2. ASSUME Listing(d), ~call[d].muddled PROVE Owned(Id(d))'
    <3>1. \A c \in Callers : ListSend(c) => c = d
      BY <2>1, <2>2 DEF ListSend, At, Listing, AnswerOf
    <3>2. PICK by \in Callers \X Nat : by = Id(d)
      BY <1>i
    <3>3. Owned(by)
      BY <2>1, <2>2, <3>2 DEF AnswerOf
    <3>4. Owned(by)'
      BY <3>1, <3>2, <3>3, OwnedStep
    <3>5. by = Id(d)'
      BY <2>1, <3>2
    <3> QED BY <3>4, <3>5 DEF Owned
  <2> QED BY <1>a, <2>1, <2>2 DEF AnswerOf
<1>b. ASSUME NEW d \in Callers, Continues(d), call'[d].muddled = call[d].muddled,
             \A e \in Callers : Listing(e)' => Listing(e)
      PROVE AnswerOf(d)'
  BY <1>a, <1>b DEF Continues
<1>c. ASSUME NEW d \in Callers, ~Listing(d)', ~call'[d].arrived PROVE AnswerOf(d)'
  BY <1>c DEF AnswerOf
<1>d. \A d \in Callers : Continues(d) => (Listing(d)' <=> Listing(d))
  BY DEF Continues, Listing
<1>e. \A d \in Callers : Unmoved(d) => Continues(d) /\ call'[d].muddled = call[d].muddled
  BY DEF Unmoved
<1>1. ASSUME NEW c \in Callers, Start(c) PROVE AnswerInv'
  <2>1. /\ call'[c].pc \in {"on", "send"} /\ call'[c].arrived = FALSE
        /\ \A d \in Callers \ {c} : Continues(d) /\ call'[d].muddled = call[d].muddled
    BY <1>1, StartMoves
  <2>2. ~Listing(c)'
    BY <2>1 DEF Listing
  <2>3. \A e \in Callers : Listing(e)' => Listing(e)
    BY <2>1, <2>2, <1>d
  <2> QED BY <2>1, <2>2, <2>3, <1>0, <1>b, <1>c
<1>2. ASSUME NEW c \in Callers,
             Register(c) \/ ListOn(c) \/ ListSend(c) \/ ListWait(c) \/ Off(c)
      PROVE AnswerInv'
  <2>1. /\ \A d \in Callers \ {c} : Unmoved(d)
        /\ call'[c].n = call[c].n /\ call'[c].from = call[c].from
        /\ call'[c].arrived => call[c].arrived
        /\ call'[c].muddled = call[c].muddled
    BY <1>2, StageMoves
  <2>2. Listing(c)' => Listing(c)
    <3>1. CASE Register(c)
      BY <3>1, <1>2, StageMoves DEF Listing
    <3>2. CASE ~Register(c)
      BY <3>2, <1>2, StageMoves
    <3> QED BY <3>1, <3>2
  <2>3. \A e \in Callers : Listing(e)' => Listing(e)
    BY <2>1, <2>2, <1>d, <1>e
  <2>4. AnswerOf(c)'
    BY <2>1, <2>3, <1>a
  <2>5. \A d \in Callers \ {c} : AnswerOf(d)'
    BY <2>1, <2>3, <1>b, <1>e
  <2> QED BY <2>4, <2>5, <1>0
<1>3. ASSUME NEW c \in Callers, Send(c) \/ Record(c) PROVE AnswerInv'
  <2>1. /\ \A d \in Callers \ {c} : Continues(d) /\ call'[d].muddled = call[d].muddled
        /\ call'[c].n = call[c].n /\ call'[c].from = call[c].from
        /\ call'[c].arrived = call[c].arrived /\ call'[c].muddled = call[c].muddled
    BY <1>3, <1>e, SendMoves, RecordMoves
  <2>2. call'[c].pc \in {"on", "send", "record", "idle", "returned"}
    BY <1>3, SendMoves, RecordMoves
  <2>3. ~Listing(c)'
    BY <2>2 DEF Listing
  <2>4. \A e \in Callers : Listing(e)' => Listing(e)
    BY <2>1, <2>3, <1>d
  <2>5. AnswerOf(c)'
    BY <2>1, <2>4, <1>a
  <2>6. \A d \in Callers \ {c} : AnswerOf(d)'
    BY <2>1, <2>4, <1>b
  <2> QED BY <2>5, <2>6, <1>0
<1>4. ASSUME NEW c \in Callers, Over(c), \A d \in Callers \ {c} : Unmoved(d) PROVE AnswerInv'
  <2>1. ~Listing(c)' /\ ~call'[c].arrived
    BY <1>4 DEF Over, Blank, Listing
  <2>2. \A e \in Callers : Listing(e)' => Listing(e)
    BY <1>4, <2>1, <1>d, <1>e
  <2>3. \A d \in Callers \ {c} : AnswerOf(d)'
    BY <1>4, <2>2, <1>b, <1>e
  <2> QED BY <2>1, <2>3, <1>0, <1>c
<1>5. ASSUME NEW c \in Callers, SendFails(c) \/ Return(c) PROVE AnswerInv'
  BY <1>5, EndMoves, <1>4
<1>6. ASSUME NEW c \in Callers, StartList(c) PROVE AnswerInv'
  <2>1. /\ call'[c].arrived = FALSE
        /\ call'[c].muddled = (Unanswered \/ \E d \in Callers \ {c} : Listing(d))
        /\ \A d \in Callers \ {c} :
             /\ Continues(d)
             /\ call'[d].muddled = IF Listing(d) THEN TRUE ELSE call[d].muddled
    BY <1>6, StartListMoves
  <2>2. UNCHANGED <<wire, back>>
    BY <1>6 DEF StartList
  <2>3. ASSUME NEW d \in Callers \ {c} PROVE AnswerOf(d)'
    <3>1. CASE Listing(d)
      BY <2>1, <3>1 DEF AnswerOf
    <3>2. CASE ~Listing(d)
      <4>1. /\ ~Listing(d)' /\ Id(d)' = Id(d) /\ call'[d].muddled = call[d].muddled
            /\ call'[d].arrived = call[d].arrived /\ call'[d].from = call[d].from
        BY <2>1, <3>2, <1>d DEF Continues, Id
      <4> QED BY <4>1, <1>0 DEF AnswerOf
    <3> QED BY <3>1, <3>2
  <2>4. ASSUME ~call'[c].muddled
        PROVE (\A d \in Callers : Listing(d)' => d = c) /\ Owned(Id(c))'
    <3>1. ~Unanswered /\ \A d \in Callers \ {c} : ~Listing(d)
      BY <2>1, <2>4
    <3>2. \A d \in Callers : Listing(d)' => d = c
      BY <2>1, <3>1, <1>d
    <3>3. Owned(Id(c))'
      BY <2>2, <3>1 DEF Unanswered, Owned
    <3> QED BY <3>2, <3>3
  <2>5. AnswerOf(c)'
    BY <2>1, <2>4 DEF AnswerOf
  <2> QED BY <2>3, <2>5, <1>0
<1>7. ASSUME NEW c \in Callers, OffWrite(c) PROVE AnswerInv'
  <2>1. CASE Over(c)
    BY <2>1, <1>7, OffWriteMoves, <1>4
  <2>2. CASE ~Over(c)
    <3>1. /\ \A d \in Callers \ {c} : Unmoved(d)
          /\ call'[c].pc = (IF call'[c].todo # <<>> THEN "send" ELSE "returned")
          /\ call'[c].n = call[c].n /\ call'[c].from = call[c].from
          /\ call'[c].arrived = call[c].arrived /\ call'[c].muddled = call[c].muddled
      BY <1>7, <2>2, OffWriteMoves
    <3>2. ~Listing(c)'
      BY <3>1 DEF Listing
    <3>3. \A e \in Callers : Listing(e)' => Listing(e)
      BY <3>1, <3>2, <1>d, <1>e
    <3>4. AnswerOf(c)'
      BY <3>1, <3>3, <1>a
    <3>5. \A d \in Callers \ {c} : AnswerOf(d)'
      BY <3>1, <3>3, <1>b, <1>e
    <3> QED BY <3>4, <3>5, <1>0
  <2> QED BY <2>1, <2>2
<1>8. CASE Receive
  <2>1. \A e \in Callers : Listing(e)' <=> Listing(e)
    BY <1>8, ReceiveMoves DEF Listing
  <2>2. ASSUME NEW d \in Callers PROVE AnswerOf(d)'
    <3>1. /\ call'[d].n = call[d].n /\ call'[d].muddled = call[d].muddled
          /\ \/ call'[d].arrived = call[d].arrived /\ call'[d].from = call[d].from
             \/ /\ back # <<>> /\ Head(back).kind = "listed" /\ Listing(d)
                /\ call'[d].from = Head(back).by
      BY <1>8, ReceiveMoves
    <3>2. CASE call'[d].arrived = call[d].arrived /\ call'[d].from = call[d].from
      BY <3>1, <3>2, <2>1, <1>a
    <3>3. CASE /\ back # <<>> /\ Head(back).kind = "listed" /\ Listing(d)
               /\ call'[d].from = Head(back).by
      <4>1. CASE call[d].muddled
        BY <3>1, <4>1 DEF AnswerOf
      <4>2. CASE ~call[d].muddled
        <5>1. (\A e \in Callers : Listing(e) => e = d) /\ Owned(Id(d))
          BY <3>3, <4>2, <1>0 DEF AnswerOf
        <5>2. back \in Seq(Sheets)
          BY DEF SheetsShape
        <5>3. Head(back).by = Id(d)
          BY <3>3, <5>1, <5>2, SeqRules DEF Owned
        <5>4. Id(d)' = Id(d)
          BY <3>1 DEF Id
        <5>5. PICK by \in Callers \X Nat : by = Id(d)
          BY <1>i
        <5>6. \A c \in Callers : ~ListSend(c)
          BY <1>8 DEF Receive, ListSend, At, Listing
        <5>7. Owned(by)'
          BY <5>1, <5>5, <5>6, OwnedStep
        <5>8. Owned(Id(d))'
          BY <5>4, <5>5, <5>7 DEF Owned
        <5> QED BY <3>3, <5>1, <5>3, <5>4, <5>8, <2>1 DEF AnswerOf
      <4> QED BY <4>1, <4>2
    <3> QED BY <3>1, <3>2, <3>3
  <2> QED BY <2>2, <1>0
<1>9. CASE Disconnect
  <2>1. \A d \in Callers : Continues(d) /\ call'[d].muddled = call[d].muddled
    BY <1>9, DisconnectMoves
  <2> QED BY <2>1, <1>0, <1>b, <1>d
<1>10. CASE ServerTakes
  <2>1. \A d \in Callers : Continues(d) /\ call'[d].muddled = call[d].muddled
    BY <1>10, TakesMoves DEF Continues
  <2> QED BY <2>1, <1>0, <1>b, <1>d
<1>11. CASE UNCHANGED call
  <2>1. \A d \in Callers : Continues(d) /\ call'[d].muddled = call[d].muddled
    BY <1>11 DEF Continues
  <2> QED BY <2>1, <1>0, <1>b, <1>d
<1> QED
  BY <1>1, <1>2, <1>3, <1>5, <1>6, <1>7, <1>8, <1>9, <1>10, <1>11
  DEF Next, CallerStep, LoopStep, LoopWakes, LoopSends, MainStep, SetCallback, RefreshHandlers,
      Ping, PingStart, PingJoin, PingJoinTimeout, PingRun, Connect, Handle, Drop, Reopen,
      ServerPushes

-----------------------------------------------------------------------------
(* What is subscribed, step by step                                        *)

\* But for the step that sends a request and the one that records it, a call is
\* between the two before and after a step, or it is not.
Steady(d) ==
  \/ call[d].pc # "record" /\ call'[d].pc # "record"
  \/ call'[d].pc = call[d].pc /\ call'[d].todo = call[d].todo

LEMMA SteadyStep ==
  ASSUME CallShape, Next, \A c \in Callers : ~Send(c) /\ ~Record(c)
  PROVE \A d \in Callers : Steady(d)
<1>a. \A d \in Callers : Continues(d) => Steady(d)
  BY DEF Continues, Steady
<1>b. \A d \in Callers : Unmoved(d) => Steady(d)
  BY <1>a DEF Unmoved
<1> DEFINE Goal == \A d \in Callers : Steady(d)
<1>1. ASSUME NEW c \in Callers, Start(c) PROVE Goal
  <2>1. /\ call[c].pc = "idle" /\ call'[c].pc \in {"on", "send"}
        /\ \A d \in Callers \ {c} : Continues(d)
    BY <1>1, StartMoves
  <2> QED BY <2>1, <1>a DEF Steady
<1>2. ASSUME NEW c \in Callers,
             Register(c) \/ ListOn(c) \/ ListSend(c) \/ ListWait(c) \/ Off(c)
      PROVE Goal
  <2>1. \A d \in Callers \ {c} : Unmoved(d)
    BY <1>2, StageMoves
  <2>2. Steady(c)
    <3>1. CASE Register(c)
      <4>1. call[c].pc = "on" /\ call'[c].pc = "send"
        BY <3>1, <1>2, StageMoves
      <4> QED BY <4>1 DEF Steady
    <3>2. CASE ~Register(c)
      <4>1. Listing(c) /\ Listing(c)'
        BY <3>2, <1>2, StageMoves
      <4> QED BY <4>1 DEF Listing, Steady
    <3> QED BY <3>1, <3>2
  <2> QED BY <2>1, <2>2, <1>b
<1>3. ASSUME NEW c \in Callers, SendFails(c) \/ Return(c) PROVE Goal
  <2>1. /\ Over(c) /\ \A d \in Callers \ {c} : Unmoved(d)
        /\ call[c].pc \in {"send", "returned"}
    BY <1>3, EndMoves DEF SendFails, Return, At
  <2>2. Steady(c)
    BY <2>1 DEF Over, Steady
  <2> QED BY <2>1, <2>2, <1>b
<1>4. ASSUME NEW c \in Callers, StartList(c) PROVE Goal
  <2>1. /\ call[c].pc = "idle" /\ call'[c].pc = "list_on"
        /\ \A d \in Callers \ {c} : Continues(d)
    BY <1>4, StartListMoves
  <2> QED BY <2>1, <1>a DEF Steady
<1>5. ASSUME NEW c \in Callers, OffWrite(c) PROVE Goal
  <2>1. /\ call[c].pc = "off_write" /\ call'[c].pc \in {"idle", "send", "returned"}
        /\ \A d \in Callers \ {c} : Unmoved(d)
    BY <1>5, OffWriteMoves DEF Over
  <2> QED BY <2>1, <1>b DEF Steady
<1>6. CASE Receive
  BY <1>6, ReceiveMoves DEF Steady
<1>7. CASE Disconnect
  BY <1>7, <1>a, DisconnectMoves
<1>8. CASE ServerTakes
  <2>1. \A d \in Callers : Continues(d)
    BY <1>8, TakesMoves DEF Continues
  <2> QED BY <2>1, <1>a
<1>9. CASE UNCHANGED call
  BY <1>9 DEF Steady
<1> QED
  BY <1>1, <1>2, <1>3, <1>4, <1>5, <1>6, <1>7, <1>8, <1>9
  DEF Next, CallerStep, LoopStep, LoopWakes, LoopSends, MainStep, SetCallback, RefreshHandlers,
      Ping, PingStart, PingJoin, PingJoinTimeout, PingRun, Connect, Handle, Drop, Reopen,
      ServerPushes

\* What has gone out and is not recorded yet: the same, a request more, or one
\* less.
InRecord(d, method, t) ==
  call[d].pc = "record" /\ Head(call[d].todo).method = method
    /\ t \in Named(Head(call[d].todo).topics)

LEMMA RecordingMember ==
  ASSUME NEW method, NEW t
  PROVE /\ t \in Recording(method) <=> \E d \in Callers : InRecord(d, method, t)
        /\ t \in Recording(method)' <=> \E d \in Callers : InRecord(d, method, t)'
<1>1. t \in Recording(method) <=> \E d \in Callers : InRecord(d, method, t)
  BY DEF Recording, InRecord, At
<1>2. t \in Recording(method)' <=> \E d \in Callers : InRecord(d, method, t)'
  BY DEF Recording, InRecord, At
<1> QED BY <1>1, <1>2

LEMMA RecordingSame ==
  ASSUME \A d \in Callers : Steady(d), NEW method
  PROVE Recording(method)' = Recording(method)
<1>1. ASSUME NEW d \in Callers, NEW t PROVE InRecord(d, method, t)' <=> InRecord(d, method, t)
  BY DEF InRecord, Steady
<1>2. ASSUME NEW t PROVE t \in Recording(method)' <=> t \in Recording(method)
  BY <1>1, RecordingMember
<1> QED BY <1>2

LEMMA RecordingSend ==
  ASSUME CallShape, NEW c \in Callers, Send(c), NEW method
  PROVE Recording(method)' =
          Recording(method) \union (IF Head(call[c].todo).method = method
                                    THEN Named(Head(call[c].todo).topics) ELSE {})
<1>1. /\ call[c].pc = "send" /\ call'[c].pc = "record" /\ call'[c].todo = call[c].todo
      /\ \A d \in Callers \ {c} : call'[d].pc = call[d].pc /\ call'[d].todo = call[d].todo
  BY SendMoves DEF Continues
<1>2. ASSUME NEW d \in Callers \ {c}, NEW t
      PROVE InRecord(d, method, t)' <=> InRecord(d, method, t)
  BY <1>1 DEF InRecord
<1>3. ASSUME NEW t
      PROVE /\ ~InRecord(c, method, t)
            /\ InRecord(c, method, t)' <=> /\ Head(call[c].todo).method = method
                                           /\ t \in Named(Head(call[c].todo).topics)
  BY <1>1 DEF InRecord
<1>4. ASSUME NEW t
      PROVE t \in Recording(method)' <=>
              \/ t \in Recording(method)
              \/ /\ Head(call[c].todo).method = method
                 /\ t \in Named(Head(call[c].todo).topics)
  BY <1>2, <1>3, RecordingMember
<1> QED BY <1>4

LEMMA RecordingRecord ==
  ASSUME CallShape, NEW c \in Callers, Record(c), NEW method
  PROVE /\ Recording(method)' \subseteq Recording(method)
        /\ IF Head(call[c].todo).method = method
           THEN /\ Named(Head(call[c].todo).topics) \subseteq Recording(method)
                /\ Recording(method) \subseteq
                     Recording(method)' \union Named(Head(call[c].todo).topics)
           ELSE Recording(method)' = Recording(method)
<1>1. /\ call[c].pc = "record" /\ call'[c].pc # "record"
      /\ \A d \in Callers \ {c} : call'[d].pc = call[d].pc /\ call'[d].todo = call[d].todo
  BY RecordMoves DEF Unmoved, Continues
<1>2. ASSUME NEW d \in Callers \ {c}, NEW t
      PROVE InRecord(d, method, t)' <=> InRecord(d, method, t)
  BY <1>1 DEF InRecord
<1>3. ASSUME NEW t
      PROVE /\ ~InRecord(c, method, t)'
            /\ InRecord(c, method, t) <=> /\ Head(call[c].todo).method = method
                                          /\ t \in Named(Head(call[c].todo).topics)
  BY <1>1 DEF InRecord
<1>4. ASSUME NEW t
      PROVE t \in Recording(method) <=>
              \/ t \in Recording(method)'
              \/ /\ Head(call[c].todo).method = method
                 /\ t \in Named(Head(call[c].todo).topics)
  BY <1>2, <1>3, RecordingMember
<1> QED BY <1>4

\* The topics of the book that are spelled as the server does.
LEMMA KeptMember ==
  ASSUME NEW t
  PROVE /\ t \in Kept <=> /\ t \in link.book /\ t # FlagTopic /\ t # AtServer(FlagTopic)
                          /\ t \notin Recording("unsubscribe")
        /\ t \in Kept' <=> /\ t \in link.book' /\ t # FlagTopic /\ t # AtServer(FlagTopic)
                           /\ t \notin Recording("unsubscribe")'
        /\ t \in Kept \/ t \in Kept' => AtServer(t) = t
<1>1. t \in Kept <=> /\ t \in link.book /\ t # FlagTopic /\ t # AtServer(FlagTopic)
                     /\ t \notin Recording("unsubscribe")
  BY DEF Kept
<1>2. t \in Kept' <=> /\ t \in link.book' /\ t # FlagTopic /\ t # AtServer(FlagTopic)
                      /\ t \notin Recording("unsubscribe")'
  BY DEF Kept
<1> QED BY <1>1, <1>2, Spelling

LEMMA SubscribedSend ==
  ASSUME CallShape, SheetsShape, TodoInv, NEW c \in Callers, Send(c)
  PROVE \E f \in Sheets :
          /\ Up /\ Up'
          /\ call[c].todo # <<>> /\ Head(call[c].todo) \in Requests
          /\ f.kind = Head(call[c].todo).method
          /\ f.topics = Named(Head(call[c].todo).topics)
          /\ f.kind \in {"subscribe", "unsubscribe"}
          /\ wire' = Append(wire, f) /\ UNCHANGED <<back, link>>
          /\ Subscribed' = Taken(Subscribed, f) /\ revived' = revived \ f.topics
<1> DEFINE m == Head(call[c].todo)
<1>1. PICK f \in Sheets : /\ call[c].todo # <<>> /\ m \in Requests
                          /\ f.kind = m.method /\ f.topics = Named(m.topics)
                          /\ wire' = Append(wire, f)
  BY SendSheet
<1>2. Up /\ UNCHANGED <<link, server, back>> /\ revived' = revived \ Named(m.topics)
  BY DEF Send
<1> HIDE DEF m
<1>3. Up'
  BY <1>2 DEF Up
<1>4. After(server, Append(wire, f)) = Taken(After(server, wire), f)
  BY AfterAppend DEF SheetsShape
<1>5. Subscribed' = Taken(Subscribed, f)
  <2>1. Subscribed' = After(server', wire') /\ Subscribed = After(server, wire)
    BY <1>2, <1>3 DEF Subscribed
  <2> QED BY <2>1, <1>1, <1>2, <1>4
<1>6. f.kind \in {"subscribe", "unsubscribe"}
  BY <1>1 DEF Requests, Methods
<1> QED BY <1>1, <1>2, <1>3, <1>5, <1>6 DEF m

\* What a request that goes out changes.
LEMMA PresentSend ==
  ASSUME CallShape, SheetsShape, TodoInv, NEW c \in Callers, Send(c)
  PROVE IF Head(call[c].todo).method = "subscribe"
        THEN /\ Subscribed' = Subscribed \union Named(Head(call[c].todo).topics)
             /\ Present' \subseteq Present \union Named(Head(call[c].todo).topics)
             /\ Kept' = Kept
        ELSE /\ Subscribed' = Subscribed \ Named(Head(call[c].todo).topics)
             /\ Present' \subseteq Present \ Named(Head(call[c].todo).topics)
             /\ Kept' \subseteq Kept \ Named(Head(call[c].todo).topics)
<1> DEFINE m == Head(call[c].todo)
           T == Named(m.topics)
<1>1. PICK f \in Sheets :
        /\ f.kind = m.method /\ f.topics = T /\ f.kind \in {"subscribe", "unsubscribe"}
        /\ UNCHANGED link
        /\ Subscribed' = Taken(Subscribed, f) /\ revived' = revived \ f.topics
  BY SubscribedSend
<1>2. Recording("unsubscribe")' =
        Recording("unsubscribe") \union (IF m.method = "unsubscribe" THEN T ELSE {})
  BY RecordingSend
<1> HIDE DEF m, T
<1>3. CASE m.method = "subscribe"
  <2>1. Subscribed' = Subscribed \union T
    BY <1>1, <1>3 DEF Taken
  <2>2. Kept' = Kept
    BY <1>1, <1>2, <1>3 DEF Kept
  <2>3. Present' \subseteq Present \union T
    BY <2>1, <2>2, <1>1 DEF Present
  <2> QED BY <2>1, <2>2, <2>3, <1>3 DEF m, T
<1>4. CASE m.method = "unsubscribe"
  <2>1. Subscribed' = Subscribed \ T
    BY <1>1, <1>4 DEF Taken
  <2>2. Kept' \subseteq Kept \ T
    BY <1>1, <1>2, <1>4 DEF Kept
  <2>3. Present' \subseteq Present \ T
    BY <2>1, <2>2, <1>1 DEF Present
  <2> QED BY <2>1, <2>2, <2>3, <1>4 DEF m, T
<1> QED BY <1>1, <1>3, <1>4

\* What the book holds once a request is recorded, and what that changes.
LEMMA PresentRecord ==
  ASSUME CallShape, SheetsShape, TodoInv, NEW c \in Callers, Record(c)
  PROVE /\ Head(call[c].todo) \in Requests
        /\ link'.book = Recorded(link.book, Head(call[c].todo))
        /\ (Up' <=> Up) /\ (Up => Subscribed' = Subscribed)
        /\ ~Up => Subscribed' = Named(link'.book)
        /\ revived' = revived
        /\ Kept' \subseteq Kept \union Recording("subscribe")
        /\ Present' \subseteq Present \union Recording("subscribe")
<1> DEFINE m == Head(call[c].todo)
           T == Named(m.topics)
<1>1. call[c].todo \in Seq(Requests) /\ call[c].todo # <<>>
  BY DEF Record, At, TodoInv, CallShape, IsCall
<1>2. m \in Requests
  BY <1>1
<1>3. /\ link' = [link EXCEPT !.book = Recorded(link.book, m)]
      /\ UNCHANGED <<wire, server, revived>>
  BY DEF Record
<1>4. /\ Recording("unsubscribe")' \subseteq Recording("unsubscribe")
      /\ m.method = "subscribe" => /\ T \subseteq Recording("subscribe")
                                   /\ Recording("unsubscribe")' = Recording("unsubscribe")
      /\ m.method = "unsubscribe" =>
           Recording("unsubscribe") \subseteq Recording("unsubscribe")' \union T
  BY RecordingRecord
<1>5. m.method \in {"subscribe", "unsubscribe"}
  BY <1>2 DEF Requests, Methods
<1>t. /\ \A t \in m.topics : AtServer(t) \in T
      /\ \A t \in T : \E b \in m.topics : t = AtServer(b)
  BY DEF Named
<1> HIDE DEF m, T
<1>6. link'.book = Recorded(link.book, m) /\ link'.state = link.state
  BY <1>3 DEF SheetsShape
<1>7. (Up' <=> Up) /\ (Up => Subscribed' = Subscribed)
  BY <1>3, <1>6 DEF Subscribed, Up
<1>8. ~Up => Subscribed' = Named(link'.book) /\ Subscribed = Named(link.book)
  BY <1>7 DEF Subscribed
<1>9. CASE m.method = "subscribe"
  <2>1. link'.book = link.book \union m.topics
    BY <1>6, <1>9 DEF Recorded
  <2>2. Named(link'.book) = Named(link.book) \union T
    BY <2>1, NamedTopics DEF T
  <2>3. Subscribed' \subseteq Subscribed \union T
    BY <2>2, <1>7, <1>8
  <2>4. ASSUME NEW t, t \in Kept' PROVE t \in Kept \union T
    <3>1. /\ t \in link'.book /\ t # FlagTopic /\ t # AtServer(FlagTopic)
          /\ t \notin Recording("unsubscribe")' /\ AtServer(t) = t
      BY <2>4, KeptMember
    <3>2. t \in link.book \/ t \in T
      BY <2>1, <3>1, <1>t
    <3> QED BY <3>1, <3>2, <1>4, <1>9, KeptMember
  <2>5. Present' \subseteq Present \union T
    BY <2>3, <2>4, <1>3 DEF Present
  <2> QED BY <2>4, <2>5, <1>2, <1>3, <1>4, <1>6, <1>7, <1>8, <1>9 DEF m
<1>10. CASE m.method = "unsubscribe"
  <2>1. link'.book = link.book \ m.topics
    BY <1>6, <1>10 DEF Recorded
  <2>2. Named(link'.book) \subseteq Named(link.book)
    BY <2>1 DEF Named
  <2>3. Subscribed' \subseteq Subscribed
    BY <2>2, <1>7, <1>8
  <2>4. ASSUME NEW t, t \in Kept' PROVE t \in Kept
    <3>1. /\ t \in link'.book /\ t # FlagTopic /\ t # AtServer(FlagTopic)
          /\ t \notin Recording("unsubscribe")' /\ AtServer(t) = t
      BY <2>4, KeptMember
    <3>2. ASSUME t \in T PROVE FALSE
      <4>1. PICK b \in m.topics : t = AtServer(b)
        BY <3>2, <1>t
      <4>2. b = FlagTopic => t = AtServer(FlagTopic)
        BY <4>1
      <4>3. b # FlagTopic => t = b
        BY <4>1, Spelling
      <4> QED BY <4>2, <4>3, <3>1, <2>1
    <3>3. t \in link.book /\ t \notin Recording("unsubscribe")
      BY <3>1, <3>2, <2>1, <1>4, <1>10
    <3> QED BY <3>1, <3>3, KeptMember
  <2>5. Present' \subseteq Present
    BY <2>3, <2>4, <1>3 DEF Present
  <2> QED BY <2>4, <2>5, <1>2, <1>3, <1>6, <1>7, <1>8 DEF m
<1> QED BY <1>5, <1>9, <1>10

LEMMA SubscribedTakes ==
  ASSUME CallShape, SheetsShape, ServerTakes
  PROVE /\ Up /\ Up' /\ link.book' = link.book
        /\ server' = Taken(server, Head(wire)) => Subscribed' = Subscribed
        /\ Head(wire).kind = "subscribe" /\ server' = server =>
             /\ Subscribed' \subseteq Subscribed
             /\ Subscribed \subseteq Subscribed' \union Head(wire).topics
        /\ Head(wire).kind = "list" => After(server, Tail(wire)) = Subscribed
<1> DEFINE f == Head(wire)
<1>1. /\ wire \in Seq(Sheets) /\ wire # <<>> /\ wire' = Tail(wire) /\ Up /\ link' = link
  BY DEF ServerTakes, SheetsShape
<1>2. Up'
  BY <1>1 DEF Up
<1>3. After(server, wire) = After(Taken(server, f), Tail(wire))
  BY <1>1, AfterTail
<1> HIDE DEF f
<1>4. Subscribed = After(server, wire) /\ Subscribed' = After(server', Tail(wire))
  BY <1>1, <1>2 DEF Subscribed
<1>5. server' = Taken(server, f) => Subscribed' = Subscribed
  BY <1>3, <1>4
<1>6. ASSUME f.kind = "subscribe", server' = server
      PROVE /\ Subscribed' \subseteq Subscribed
            /\ Subscribed \subseteq Subscribed' \union f.topics
  <2>1. Taken(server, f) = server \union f.topics
    BY <1>6 DEF Taken
  <2>2. PICK T : T = server \union f.topics
    OBVIOUS
  <2>3. /\ After(server, Tail(wire)) \subseteq After(T, Tail(wire))
        /\ After(T, Tail(wire)) \subseteq After(server, Tail(wire)) \union (T \ server)
    BY <2>2, AfterMonotone
  <2> QED BY <1>3, <1>4, <1>6, <2>1, <2>2, <2>3
<1>7. ASSUME f.kind = "list" PROVE After(server, Tail(wire)) = Subscribed
  <2>1. Taken(server, f) = server
    BY <1>7 DEF Taken
  <2> QED BY <2>1, <1>3, <1>4
<1> QED BY <1>1, <1>2, <1>5, <1>6, <1>7 DEF f

\* A frame that asks for no topic changes nothing.
LEMMA SubscribedAppend ==
  ASSUME SheetsShape, NEW f \in Sheets, f.kind \notin {"subscribe", "unsubscribe"},
         wire' = Append(wire, f), UNCHANGED <<link, server>>
  PROVE Subscribed' = Subscribed
<1>1. After(server, Append(wire, f)) = Taken(After(server, wire), f)
  BY AfterAppend DEF SheetsShape
<1>2. Taken(After(server, wire), f) = After(server, wire)
  BY DEF Taken
<1> QED BY <1>1, <1>2 DEF Subscribed, Up

LEMMA SubscribedSame ==
  ASSUME UNCHANGED <<link, wire, server>>
  PROVE Subscribed' = Subscribed
BY DEF Subscribed, Up

\* A connection that opens has what the book holds, and nothing else was, or is,
\* subscribed while there is none.
LEMMA SubscribedLink ==
  ASSUME SheetsShape, LinkInv, Connect \/ Disconnect \/ Drop \/ Reopen
  PROVE /\ Subscribed' = Named(link'.book)
        /\ Connect \/ Reopen => /\ ~Up /\ Subscribed' = Subscribed
                                /\ link'.book = link.book /\ revived' = revived
        /\ Drop => /\ Up /\ ~Up' /\ link'.book = link.book
                   /\ revived' = (Named(link.book) \intersect {AtServer(FlagTopic)})
                                    \union Recording("unsubscribe")
        /\ Disconnect => ~Up' /\ link'.book = {} /\ revived' = {}
<1>1. CASE Connect \/ Reopen
  <2>1. /\ link.state # "up" /\ link'.state = "up" /\ link'.book = link.book
        /\ server' = Named(link.book) /\ wire' = wire /\ revived' = revived
        /\ ~Drop /\ ~Disconnect
    BY <1>1 DEF Connect, Reopen, Opens, SheetsShape, Drop, Disconnect
  <2>2. ~Up /\ Up' /\ wire = <<>>
    BY <2>1 DEF LinkInv, Up
  <2>3. Subscribed' = After(Named(link.book), <<>>) /\ Subscribed = Named(link.book)
    BY <2>1, <2>2 DEF Subscribed
  <2> QED BY <2>1, <2>2, <2>3, AfterNothing
<1>2. CASE Disconnect
  <2>1. link'.state = "down" /\ link'.book = {} /\ revived' = {} /\ ~Connect /\ ~Reopen
        /\ ~Drop
    BY <1>2 DEF Disconnect, SheetsShape, Connect, Reopen, Opens, Drop
  <2>2. ~Up'
    BY <2>1 DEF Up
  <2> QED BY <2>1, <2>2 DEF Subscribed
<1>3. CASE Drop
  <2>1. /\ Up /\ link'.state = "lost" /\ link'.book = link.book
        /\ revived' = (Named(link.book) \intersect {AtServer(FlagTopic)})
                         \union Recording("unsubscribe")
        /\ ~Connect /\ ~Reopen /\ ~Disconnect
    BY <1>3 DEF Drop, SheetsShape, Connect, Reopen, Opens, Disconnect
  <2>2. ~Up'
    BY <2>1 DEF Up
  <2> QED BY <2>1, <2>2 DEF Subscribed
<1> QED BY <1>1, <1>2, <1>3

\* Nothing is added but by a request, and by a connection that is lost only what
\* the book kept.
LEMMA PresentShrinks ==
  ASSUME CallShape, SheetsShape, LinkInv, Next, \A c \in Callers : ~Send(c) /\ ~Record(c)
  PROVE /\ Present' \subseteq Present /\ Kept' \subseteq Kept
        /\ link'.book \subseteq link.book
        /\ Drop \/ Subscribed' \ revived' \subseteq Subscribed \ revived
<1> DEFINE Goal == /\ Present' \subseteq Present /\ Kept' \subseteq Kept
                   /\ link'.book \subseteq link.book
                   /\ Drop \/ Subscribed' \ revived' \subseteq Subscribed \ revived
<1>0. Recording("unsubscribe")' = Recording("unsubscribe")
  BY SteadyStep, RecordingSame
<1>a. ASSUME Subscribed' \subseteq Subscribed, link'.book = link.book, revived' = revived
      PROVE Goal
  BY <1>0, <1>a DEF Present, Kept
<1>1. ASSUME NEW c \in Callers, ListSend(c) PROVE Goal
  <2>1. UNCHANGED <<link, server, revived>>
    BY <1>1 DEF ListSend
  <2>2. CASE UNCHANGED wire
    BY <2>1, <2>2, <1>a, SubscribedSame
  <2>3. CASE wire' = Append(wire, Frame("list", Id(c), "none", {}))
    <3>1. Id(c) \in Callers \X Nat
      BY DEF Id, CallShape, IsCall
    <3>2. PICK f \in Sheets : f = Frame("list", Id(c), "none", {}) /\ f.kind = "list"
      BY <3>1, FrameIsSheet DEF Kinds
    <3>3. Subscribed' = Subscribed
      BY <2>1, <2>3, <3>2, SubscribedAppend
    <3> QED BY <2>1, <3>3, <1>a
  <2> QED BY <1>1, <2>2, <2>3 DEF ListSend
<1>2. CASE Ping
  <2>1. PICK f \in Sheets : f = Frame("ping", Nobody, "heartbeat", {}) /\ f.kind = "ping"
    BY IdleIsCall, FrameIsSheet DEF Kinds
  <2>2. wire' = Append(wire, f) /\ UNCHANGED <<link, server, revived>>
    BY <2>1, <1>2 DEF Ping
  <2>3. Subscribed' = Subscribed
    BY <2>1, <2>2, SubscribedAppend
  <2> QED BY <2>2, <2>3, <1>a
<1>3. CASE Connect \/ Reopen
  BY <1>3, <1>a, SubscribedLink
<1>4. CASE Disconnect
  <2>1. link'.book = {} /\ Subscribed' = Named(link'.book) /\ revived' = {}
    BY <1>4, SubscribedLink
  <2>2. Subscribed' = {} /\ Kept' = {}
    BY <2>1, NamedTopics DEF Kept
  <2> QED BY <2>1, <2>2 DEF Present
<1>5. CASE Drop
  <2>1. /\ link'.book = link.book /\ Subscribed' = Named(link.book)
        /\ revived' = (Named(link.book) \intersect {AtServer(FlagTopic)})
                         \union Recording("unsubscribe")
    BY <1>5, SubscribedLink
  <2>2. Kept' = Kept
    BY <2>1, <1>0 DEF Kept
  <2>3. ASSUME NEW t, t \in Subscribed', t \notin revived' PROVE t \in Kept
    <3>1. PICK b \in link.book : t = AtServer(b)
      BY <2>1, <2>3 DEF Named
    <3>2. t # AtServer(FlagTopic) /\ t \notin Recording("unsubscribe")
      BY <2>1, <2>3
    <3>3. b # FlagTopic /\ t = b
      BY <3>1, <3>2, Spelling
    <3> QED BY <3>1, <3>2, <3>3, KeptMember
  <2> QED BY <2>1, <2>2, <2>3, <1>5 DEF Present
<1>6. CASE ServerTakes
  <2>1. UNCHANGED <<link, revived>>
    BY <1>6 DEF ServerTakes
  <2> QED BY <2>1, <1>6, <1>a, SubscribedTakes, TakesMoves
<1>7. CASE UNCHANGED <<link, wire, server, revived>>
  BY <1>7, <1>a, SubscribedSame
<1> QED
  BY <1>1, <1>2, <1>3, <1>4, <1>5, <1>6, <1>7
  DEF Next, CallerStep, LoopStep, LoopWakes, LoopSends, MainStep, SetCallback, RefreshHandlers,
      PingStart, PingJoin, PingJoinTimeout, PingRun, Handle, Receive, Start, Register, SendFails,
      StartList, ListOn, ListWait, Off, OffWrite, Return, ServerPushes

\* What is present is spelled as the server does.
LEMMA PresentSpelled ==
  ASSUME SheetsShape, SpellInv
  PROVE \A t \in Present : AtServer(t) = t
<1>1. ASSUME NEW t \in Kept PROVE AtServer(t) = t
  BY KeptMember
<1>2. ASSUME NEW t \in Subscribed PROVE AtServer(t) = t
  <2>1. CASE ~Up
    <3>1. t \in Named(link.book)
      BY <1>2, <2>1 DEF Subscribed
    <3> QED BY <3>1, NamedTopics
  <2>2. CASE Up
    <3>1. t \in After(server, wire)
      BY <1>2, <2>2 DEF Subscribed
    <3>2. server \subseteq Topics /\ wire \in Seq(Sheets)
      BY DEF SheetsShape
    <3>3. t \in server \/ \E i \in DOMAIN wire : t \in wire[i].topics
      BY <3>1, <3>2, AfterTopics
    <3> QED BY <3>3 DEF SpellInv
  <2> QED BY <2>1, <2>2
<1> QED BY <1>1, <1>2 DEF Present

-----------------------------------------------------------------------------
(* unsubscribe_all                                                         *)

LEMMA AskedShrinks ==
  ASSUME NEW c, NEW d, NEW m PROVE Asked(c, d, m) \subseteq call[d].before
BY DEF Asked

\* What has to be seen gone is fixed when the call begins, and only shrinks.
LEMMA BeforeMoves ==
  ASSUME CallShape, Next
  PROVE \A d \in Callers :
          \/ call'[d].before \subseteq call[d].before
          \/ /\ StartList(d)
             /\ call'[d].before \subseteq Subscribed \ Recording("subscribe")
<1> DEFINE Goal == \A d \in Callers :
                     \/ call'[d].before \subseteq call[d].before
                     \/ /\ StartList(d)
                        /\ call'[d].before \subseteq Subscribed \ Recording("subscribe")
<1>1. ASSUME NEW c \in Callers, Start(c) PROVE Goal
  <2>1. call'[c].before = {} /\ \A d \in Callers \ {c} : call'[d].before = call[d].before
    BY <1>1, StartMoves
  <2> QED BY <2>1
<1>2. ASSUME NEW c \in Callers,
             Register(c) \/ ListOn(c) \/ ListSend(c) \/ ListWait(c) \/ Off(c)
      PROVE Goal
  <2>1. \A d \in Callers : call'[d].before = call[d].before
    BY <1>2, StageMoves DEF Unmoved
  <2> QED BY <2>1
<1>3. ASSUME NEW c \in Callers, Send(c) PROVE Goal
  <2>1. call'[c].before = call[c].before
        /\ \A d \in Callers \ {c} : call'[d].before = Asked(c, d, Head(call[c].todo))
    BY <1>3, SendMoves
  <2> QED BY <2>1, AskedShrinks
<1>11. ASSUME NEW c \in Callers, Record(c) PROVE Goal
  <2>1. \A d \in Callers : call'[d].before = call[d].before
    BY <1>11, RecordMoves DEF Unmoved
  <2> QED BY <2>1
<1>4. ASSUME NEW c \in Callers, SendFails(c) \/ Return(c) PROVE Goal
  <2>1. call'[c].before = {} /\ \A d \in Callers \ {c} : call'[d].before = call[d].before
    BY <1>4, EndMoves DEF Over, Blank, Unmoved
  <2> QED BY <2>1
<1>5. ASSUME NEW c \in Callers, StartList(c) PROVE Goal
  <2>1. call'[c].before \subseteq Subscribed \ Recording("subscribe")
        /\ \A d \in Callers \ {c} : call'[d].before = call[d].before
    BY <1>5, StartListMoves
  <2> QED BY <2>1, <1>5
<1>6. ASSUME NEW c \in Callers, OffWrite(c) PROVE Goal
  <2>1. \A d \in Callers \ {c} : call'[d].before = call[d].before
    BY <1>6, OffWriteMoves DEF Unmoved
  <2>2. call'[c].before \subseteq call[c].before
    BY <1>6, OffWriteMoves DEF Over, Blank
  <2> QED BY <2>1, <2>2
<1>7. CASE Receive
  BY <1>7, ReceiveMoves
<1>8. CASE Disconnect
  BY <1>8, DisconnectMoves
<1>9. CASE ServerTakes
  BY <1>9, TakesMoves
<1>10. CASE UNCHANGED call
  BY <1>10
<1> QED
  BY <1>1, <1>2, <1>3, <1>4, <1>5, <1>6, <1>7, <1>8, <1>9, <1>10, <1>11
  DEF Next, CallerStep, LoopStep, LoopWakes, LoopSends, MainStep, SetCallback, RefreshHandlers,
      Ping, PingStart, PingJoin, PingJoinTimeout, PingRun, Connect, Handle, Drop, Reopen,
      ServerPushes

LEMMA BookStep ==
  ASSUME CallShape, SheetsShape, LinkInv, TodoInv, BookInv, RecordInv, Next
  PROVE BookInv'
<1>0. \A d \in Callers :
        \/ call'[d].before \subseteq call[d].before
        \/ StartList(d) /\ call'[d].before \subseteq Subscribed
  BY BeforeMoves
<1>1. ASSUME NEW c \in Callers, Send(c) PROVE BookInv'
  <2>1. Up
    BY <1>1, SubscribedSend
  <2>2. \A d \in Callers : call'[d].before \subseteq call[d].before
    <3>1. call'[c].before = call[c].before
          /\ \A d \in Callers \ {c} : call'[d].before = Asked(c, d, Head(call[c].todo))
      BY <1>1, SendMoves
    <3> QED BY <3>1, AskedShrinks
  <2>3. PICK T : \/ Subscribed' = Subscribed \union T /\ Kept' = Kept
                 \/ Subscribed' = Subscribed \ T /\ Kept' \subseteq Kept \ T
    BY <1>1, PresentSend
  <2> QED BY <2>1, <2>2, <2>3 DEF BookInv
<1>2. ASSUME NEW c \in Callers, Record(c) PROVE BookInv'
  <2>1. /\ Up' <=> Up
        /\ Up => Subscribed' = Subscribed
        /\ Kept' \subseteq Kept \union Recording("subscribe")
    BY <1>2, PresentRecord
  <2>2. \A d \in Callers : call'[d].before = call[d].before
    BY <1>2, RecordMoves DEF Unmoved
  <2> QED BY <2>1, <2>2 DEF BookInv, RecordInv
<1>3. CASE \A c \in Callers : ~Send(c) /\ ~Record(c)
  <2>1. Kept' \subseteq Kept
    BY <1>3, PresentShrinks
  <2>2. CASE Connect \/ Disconnect \/ Drop \/ Reopen
    <3>1. Subscribed' = Named(link'.book)
      BY <2>2, SubscribedLink
    <3>2. Kept' \subseteq Subscribed'
      <4>1. ASSUME NEW t, t \in Kept' PROVE t \in Subscribed'
        <5>1. t \in link'.book /\ AtServer(t) = t
          BY <4>1, KeptMember
        <5> QED BY <5>1, <3>1, NamedTopics
      <4> QED BY <4>1
    <3> QED BY <3>2 DEF BookInv
  <2>3. CASE ServerTakes
    <3>1. Up
      BY <2>3, SubscribedTakes
    <3>2. CASE UNCHANGED call /\ server' = Taken(server, Head(wire))
      BY <2>1, <2>3, <3>1, <3>2, SubscribedTakes DEF BookInv
    <3>3. CASE /\ Head(wire).kind = "subscribe" /\ server' = server
               /\ \A d \in Callers : call'[d].before = call[d].before \ Head(wire).topics
      <4>1. Subscribed \subseteq Subscribed' \union Head(wire).topics
        BY <2>3, <3>3, SubscribedTakes
      <4> QED BY <2>1, <3>1, <3>3, <4>1 DEF BookInv
    <3> QED BY <2>3, <3>2, <3>3, TakesMoves
  <2>a. ASSUME Subscribed' = Subscribed, link' = link PROVE BookInv'
    BY <1>0, <2>1, <2>a DEF BookInv, Up
  <2>4. ASSUME NEW c \in Callers, ListSend(c) PROVE BookInv'
    <3>1. UNCHANGED <<link, server>>
      BY <2>4 DEF ListSend
    <3>2. CASE UNCHANGED wire
      BY <3>1, <3>2, <2>a, SubscribedSame
    <3>3. CASE wire' = Append(wire, Frame("list", Id(c), "none", {}))
      <4>1. Id(c) \in Callers \X Nat
        BY DEF Id, CallShape, IsCall
      <4>2. PICK f \in Sheets : f = Frame("list", Id(c), "none", {}) /\ f.kind = "list"
        BY <4>1, FrameIsSheet DEF Kinds
      <4>3. Subscribed' = Subscribed
        BY <3>1, <3>3, <4>2, SubscribedAppend
      <4> QED BY <3>1, <4>3, <2>a
    <3> QED BY <2>4, <3>2, <3>3 DEF ListSend
  <2>5. CASE Ping
    <3>1. PICK f \in Sheets : f = Frame("ping", Nobody, "heartbeat", {}) /\ f.kind = "ping"
      BY IdleIsCall, FrameIsSheet DEF Kinds
    <3>2. wire' = Append(wire, f) /\ UNCHANGED <<link, server>>
      BY <3>1, <2>5 DEF Ping
    <3>3. Subscribed' = Subscribed
      BY <3>1, <3>2, SubscribedAppend
    <3> QED BY <3>2, <3>3, <2>a
  <2>6. CASE UNCHANGED <<link, wire, server>>
    BY <2>6, <2>a, SubscribedSame
  <2> QED
    BY <1>3, <2>2, <2>3, <2>4, <2>5, <2>6
    DEF Next, CallerStep, LoopStep, LoopWakes, LoopSends, MainStep, SetCallback,
        RefreshHandlers, PingStart, PingJoin, PingJoinTimeout, PingRun, Handle, Receive, Start,
        Register, SendFails, StartList, ListOn, ListWait, Off, OffWrite, Return, ServerPushes
<1> QED BY <1>1, <1>2, <1>3

LEMMA RecordStep ==
  ASSUME CallShape, SheetsShape, TodoInv, ScopeInv, RecordInv, Next
  PROVE RecordInv'
<1> DEFINE R == Recording("subscribe")
<1>0. \A d \in Callers :
        \/ call'[d].before \subseteq call[d].before
        \/ call'[d].before \subseteq Subscribed \ R
  BY BeforeMoves
<1>a. ASSUME R' \subseteq R PROVE RecordInv'
  BY <1>0, <1>a DEF RecordInv
<1>1. ASSUME NEW c \in Callers, Send(c) PROVE RecordInv'
  <2> DEFINE m == Head(call[c].todo)
  <2>1. R' = R \union (IF m.method = "subscribe" THEN Named(m.topics) ELSE {})
    BY <1>1, RecordingSend
  <2>2. CASE m.method = "subscribe"
    <3>1. \A d \in Callers \ {c} : call'[d].before = call[d].before \ Named(m.topics)
      BY <1>1, <2>2, SendMoves DEF Asked
    <3>2. call[c].todo \in Seq(Requests) /\ call[c].todo # <<>>
      BY <1>1, SubscribedSend DEF CallShape, IsCall
    <3>3. 1 \in DOMAIN call[c].todo /\ m = call[c].todo[1]
      BY <3>2
    <3>4. call[c].adds # "none"
      BY <2>2, <3>3 DEF TodoInv
    <3>5. call'[c].before = {}
      BY <1>1, <3>4, SendMoves DEF TodoInv, ScopeInv
    <3> QED BY <2>1, <2>2, <3>1, <3>5 DEF RecordInv
  <2>3. CASE m.method # "subscribe"
    BY <2>1, <2>3, <1>a
  <2> QED BY <2>2, <2>3
<1>2. ASSUME NEW c \in Callers, Record(c) PROVE RecordInv'
  BY <1>2, <1>a, RecordingRecord
<1>3. CASE \A c \in Callers : ~Send(c) /\ ~Record(c)
  BY <1>3, <1>a, SteadyStep, RecordingSame
<1> QED BY <1>1, <1>2, <1>3

LEMMA ScopeStep ==
  ASSUME CallShape, ScopeInv, Next
  PROVE ScopeInv'
<1>a. \A d \in Callers : Continues(d) /\ call'[d].before \subseteq call[d].before
                           => (~call'[d].all => call'[d].before = {})
  BY DEF ScopeInv, Continues
<1>b. \A d \in Callers : Unmoved(d) => Continues(d) /\ call'[d].before = call[d].before
  BY DEF Unmoved
<1>1. ASSUME NEW c \in Callers, Start(c) PROVE ScopeInv'
  <2>1. call'[c].before = {}
        /\ \A d \in Callers \ {c} : Continues(d) /\ call'[d].before = call[d].before
    BY <1>1, StartMoves
  <2> QED BY <2>1, <1>a DEF ScopeInv
<1>2. ASSUME NEW c \in Callers,
             Register(c) \/ ListOn(c) \/ ListSend(c) \/ ListWait(c) \/ Off(c)
      PROVE ScopeInv'
  <2>1. /\ \A d \in Callers \ {c} : Unmoved(d)
        /\ call'[c].all = call[c].all /\ call'[c].before = call[c].before
    BY <1>2, StageMoves
  <2> QED BY <2>1, <1>a, <1>b DEF ScopeInv
<1>3. ASSUME NEW c \in Callers, Send(c) PROVE ScopeInv'
  <2>1. /\ call'[c].all = call[c].all /\ call'[c].before = call[c].before
        /\ \A d \in Callers \ {c} :
             Continues(d) /\ call'[d].before = Asked(c, d, Head(call[c].todo))
    BY <1>3, SendMoves
  <2>2. \A d \in Callers \ {c} : call'[d].before \subseteq call[d].before
    BY <2>1, AskedShrinks
  <2> QED BY <2>1, <2>2, <1>a DEF ScopeInv
<1>11. ASSUME NEW c \in Callers, Record(c) PROVE ScopeInv'
  <2>1. /\ \A d \in Callers \ {c} : Unmoved(d)
        /\ call'[c].all = call[c].all /\ call'[c].before = call[c].before
    BY <1>11, RecordMoves
  <2> QED BY <2>1, <1>a, <1>b DEF ScopeInv
<1>4. ASSUME NEW c \in Callers, SendFails(c) \/ Return(c) PROVE ScopeInv'
  <2>1. call'[c].before = {} /\ \A d \in Callers \ {c} : Unmoved(d)
    BY <1>4, EndMoves DEF Over, Blank
  <2> QED BY <2>1, <1>a, <1>b DEF ScopeInv
<1>5. ASSUME NEW c \in Callers, StartList(c) PROVE ScopeInv'
  <2>1. /\ ~call'[c].all => call'[c].before = {}
        /\ \A d \in Callers \ {c} : Continues(d) /\ call'[d].before = call[d].before
    BY <1>5, StartListMoves
  <2> QED BY <2>1, <1>a DEF ScopeInv
<1>6. ASSUME NEW c \in Callers, OffWrite(c) PROVE ScopeInv'
  <2>1. \A d \in Callers \ {c} : Unmoved(d)
    BY <1>6, OffWriteMoves
  <2>2. \/ call'[c].before = {}
        \/ call'[c].before = call[c].before /\ call'[c].all = call[c].all
    BY <1>6, OffWriteMoves DEF Over, Blank
  <2> QED BY <2>1, <2>2, <1>a, <1>b DEF ScopeInv
<1>7. CASE Receive
  BY <1>7, ReceiveMoves DEF ScopeInv
<1>8. CASE Disconnect
  BY <1>8, DisconnectMoves, <1>a DEF ScopeInv
<1>9. CASE ServerTakes
  <2>1. \A d \in Callers : Continues(d) /\ call'[d].before \subseteq call[d].before
    BY <1>9, TakesMoves DEF Continues
  <2> QED BY <2>1, <1>a DEF ScopeInv
<1>10. CASE UNCHANGED call
  BY <1>10 DEF ScopeInv
<1> QED
  BY <1>1, <1>2, <1>3, <1>4, <1>5, <1>6, <1>7, <1>8, <1>9, <1>10, <1>11
  DEF Next, CallerStep, LoopStep, LoopWakes, LoopSends, MainStep, SetCallback, RefreshHandlers,
      Ping, PingStart, PingJoin, PingJoinTimeout, PingRun, Connect, Handle, Drop, Reopen,
      ServerPushes

\* But for the call that begins or sends, less and less is left to be seen gone.
LEMMA SeenShrinks ==
  ASSUME CallShape, SheetsShape, LinkInv, TodoInv, RecordInv, Next,
         NEW d \in Callers, ~Send(d), ~StartList(d)
  PROVE /\ call'[d].before \subseteq call[d].before
        /\ Present' \intersect call'[d].before \subseteq Present \intersect call[d].before
        /\ \A c \in Callers : Send(c) =>
             /\ call'[d].before = Asked(c, d, Head(call[c].todo))
             /\ c # d
<1>1. call'[d].before \subseteq call[d].before
  BY BeforeMoves
<1>2. ASSUME NEW c \in Callers, Send(c)
      PROVE /\ call'[d].before = Asked(c, d, Head(call[c].todo)) /\ c # d
            /\ Present' \intersect call'[d].before \subseteq Present \intersect call[d].before
  <2>1. call'[d].before = Asked(c, d, Head(call[c].todo)) /\ c # d
    BY <1>2, SendMoves
  <2>2. CASE Head(call[c].todo).method = "subscribe"
    BY <1>2, <2>1, <2>2, PresentSend DEF Asked
  <2>3. CASE Head(call[c].todo).method # "subscribe"
    BY <1>1, <1>2, <2>1, <2>3, PresentSend
  <2> QED BY <2>1, <2>2, <2>3
<1>3. ASSUME NEW c \in Callers, Record(c)
      PROVE Present' \intersect call'[d].before \subseteq Present \intersect call[d].before
  BY <1>1, <1>3, PresentRecord DEF RecordInv
<1>4. CASE \A c \in Callers : ~Send(c) /\ ~Record(c)
  BY <1>1, <1>4, PresentShrinks
<1> QED BY <1>1, <1>2, <1>3, <1>4

LEMMA WireSeenStep ==
  ASSUME CallShape, SheetsShape, LinkInv, TodoInv, RecordInv, Next,
         NEW d \in Callers, ~Send(d), ~StartList(d), WireSeen(d)
  PROVE WireSeen(d)'
<1>0. wire \in Seq(Sheets) /\ call'[d].before \subseteq call[d].before
  BY SeenShrinks DEF SheetsShape
\* A frame that asks for nothing that is to be seen gone.
<1>a. ASSUME NEW f \in Sheets, wire' = Append(wire, f),
             f.kind = "subscribe" => f.topics \intersect call'[d].before = {}
      PROVE WireSeen(d)'
  <2>1. SUFFICES ASSUME NEW i \in DOMAIN wire', NEW j \in DOMAIN wire',
                        wire'[i].kind = "list", i < j, wire'[j].kind = "subscribe"
                 PROVE wire'[j].topics \intersect call'[d].before = {}
    BY DEF WireSeen
  <2>2. /\ j = Len(wire) + 1 \/ (j \in DOMAIN wire /\ wire'[j] = wire[j])
        /\ i = Len(wire) + 1 \/ (i \in DOMAIN wire /\ wire'[i] = wire[i])
        /\ wire'[Len(wire) + 1] = f
    BY <1>0, <1>a, <2>1, SeqRules
  <2>3. CASE j = Len(wire) + 1
    BY <2>1, <2>2, <2>3, <1>a
  <2>4. CASE j \in DOMAIN wire /\ wire'[j] = wire[j]
    <3>1. i \in DOMAIN wire /\ wire'[i] = wire[i]
      BY <2>1, <2>2, <2>4, <1>0
    <3> QED BY <2>1, <2>4, <3>1, <1>0 DEF WireSeen
  <2> QED BY <2>2, <2>3, <2>4
<1>b. ASSUME wire' = wire PROVE WireSeen(d)'
  BY <1>0, <1>b DEF WireSeen
<1>1. ASSUME NEW c \in Callers, Send(c) PROVE WireSeen(d)'
  <2>1. PICK f \in Sheets :
          /\ f.kind = Head(call[c].todo).method
          /\ f.topics = Named(Head(call[c].todo).topics)
          /\ wire' = Append(wire, f)
    BY <1>1, SubscribedSend
  <2>2. call'[d].before = Asked(c, d, Head(call[c].todo))
    BY <1>1, SeenShrinks
  <2>3. f.kind = "subscribe" => call'[d].before = call[d].before \ f.topics
    BY <2>1, <2>2 DEF Asked
  <2> QED BY <2>1, <2>3, <1>a
<1>2. ASSUME NEW c \in Callers, ListSend(c) PROVE WireSeen(d)'
  <2>1. CASE wire' = Append(wire, Frame("list", Id(c), "none", {}))
    <3>1. Id(c) \in Callers \X Nat
      BY DEF Id, CallShape, IsCall
    <3>2. PICK f \in Sheets : f = Frame("list", Id(c), "none", {}) /\ f.kind = "list"
      BY <3>1, FrameIsSheet DEF Kinds
    <3> QED BY <2>1, <3>2, <1>a
  <2> QED BY <1>2, <2>1, <1>b DEF ListSend
<1>3. CASE Ping
  <2>1. PICK f \in Sheets : f = Frame("ping", Nobody, "heartbeat", {}) /\ f.kind = "ping"
    BY IdleIsCall, FrameIsSheet DEF Kinds
  <2> QED BY <2>1, <1>3, <1>a DEF Ping
<1>4. CASE Disconnect \/ Drop
  BY <1>4 DEF Disconnect, Drop, WireSeen
<1>5. CASE ServerTakes
  <2>1. wire # <<>> /\ wire' = Tail(wire)
    BY <1>5 DEF ServerTakes
  <2>2. SUFFICES ASSUME NEW i \in DOMAIN wire', NEW j \in DOMAIN wire',
                        wire'[i].kind = "list", i < j, wire'[j].kind = "subscribe"
                 PROVE wire'[j].topics \intersect call'[d].before = {}
    BY DEF WireSeen
  <2>3. /\ i + 1 \in DOMAIN wire /\ j + 1 \in DOMAIN wire /\ i + 1 < j + 1
        /\ wire'[i] = wire[i + 1] /\ wire'[j] = wire[j + 1]
    BY <1>0, <2>1, <2>2, SeqRules
  <2> QED BY <2>2, <2>3, <1>0 DEF WireSeen
<1>6. CASE UNCHANGED wire
  BY <1>6, <1>b
<1> QED
  BY <1>1, <1>2, <1>3, <1>4, <1>5, <1>6
  DEF Next, CallerStep, LoopStep, LoopWakes, LoopSends, MainStep, SetCallback, RefreshHandlers,
      PingStart, PingJoin, PingJoinTimeout, PingRun, Connect, Handle, Start, Register, SendFails,
      Record, StartList, ListOn, ListWait, Off, OffWrite, Return, Reopen, Receive, ServerPushes

LEMMA BackSeenStep ==
  ASSUME CallShape, SheetsShape, LinkInv, TodoInv, BookInv, RecordInv, Next,
         NEW d \in Callers, ~Send(d), ~StartList(d), WireSeen(d), BackSeen(d)
  PROVE BackSeen(d)'
<1> DEFINE left == Present \intersect call[d].before
<1>0. back \in Seq(Sheets) /\ Present' \intersect call'[d].before \subseteq left
  BY SeenShrinks DEF SheetsShape
<1>1. CASE Receive
  <2>1. back # <<>> /\ back' = Tail(back)
    BY <1>1 DEF Receive
  <2>2. ASSUME NEW i \in DOMAIN back', back'[i].kind = "listed" PROVE left \subseteq back'[i].topics
    <3>1. i + 1 \in DOMAIN back /\ back'[i] = back[i + 1]
      BY <1>0, <2>1, <2>2, SeqRules
    <3> QED BY <2>2, <3>1 DEF BackSeen
  <2> QED BY <2>2, <1>0 DEF BackSeen
<1>a. ASSUME NEW a \in Sheets, back' = Append(back, a),
             a.kind = "listed" => left \subseteq a.topics
      PROVE BackSeen(d)'
  <2>1. ASSUME NEW i \in DOMAIN back', back'[i].kind = "listed" PROVE left \subseteq back'[i].topics
    <3>1. /\ i = Len(back) + 1 \/ (i \in DOMAIN back /\ back'[i] = back[i])
          /\ back'[Len(back) + 1] = a
      BY <1>0, <1>a, <2>1, SeqRules
    <3> QED BY <2>1, <3>1, <1>a DEF BackSeen
  <2> QED BY <2>1, <1>0 DEF BackSeen
<1>2. CASE ServerTakes
  <2>1. PICK a \in Sheets : /\ wire # <<>> /\ back' = Append(back, a)
                            /\ a.kind = "listed" =>
                                 Head(wire).kind = "list" /\ a.topics = server
    BY <1>2, AnswerSheet
  <2>2. ASSUME a.kind = "listed", NEW t \in left PROVE t \in server
    <3>1. Up /\ After(server, Tail(wire)) = Subscribed
      BY <1>2, <2>1, <2>2, SubscribedTakes
    <3>2. t \in Subscribed
      BY <2>2, <3>1 DEF BookInv, Present
    <3>3. wire \in Seq(Sheets) /\ server \subseteq Topics
      BY DEF SheetsShape
    <3>4. t \in server \/ \E i \in DOMAIN Tail(wire) :
                            Tail(wire)[i].kind = "subscribe" /\ t \in Tail(wire)[i].topics
      <4>1. Tail(wire) \in Seq(Sheets)
        BY <2>1, <3>3
      <4> QED BY <3>1, <3>2, <3>3, <4>1, AfterTopics
    <3>5. ASSUME NEW i \in DOMAIN Tail(wire),
                 Tail(wire)[i].kind = "subscribe", t \in Tail(wire)[i].topics
          PROVE FALSE
      <4>1. /\ 1 \in DOMAIN wire /\ wire[1].kind = "list" /\ 1 < i + 1
            /\ i + 1 \in DOMAIN wire /\ Tail(wire)[i] = wire[i + 1]
        BY <2>1, <2>2, <3>3, SeqRules
      <4> QED BY <4>1, <3>5, <2>2 DEF WireSeen
    <3> QED BY <3>4, <3>5
  <2> QED BY <2>1, <2>2, <1>a
<1>3. CASE Disconnect \/ Drop
  BY <1>3 DEF Disconnect, Drop, BackSeen
<1>4. CASE ServerPushes
  <2>1. PICK f \in Frames :
          back' = Append(back, [NoFrame EXCEPT !.kind = "push", !.channel = f.channel,
                                               !.class = f.class])
    BY <1>4 DEF ServerPushes
  <2> DEFINE a == [NoFrame EXCEPT !.kind = "push", !.channel = f.channel, !.class = f.class]
  <2>2. a \in Sheets /\ a.kind = "push"
    BY NoFrameIsSheet, FramesAssumption DEF Sheets, Kinds
  <2> HIDE DEF a
  <2>3. back' = Append(back, a)
    BY <2>1 DEF a
  <2> QED BY <2>2, <2>3, <1>a
<1>5. CASE UNCHANGED back
  BY <1>0, <1>5 DEF BackSeen
<1> QED
  BY <1>1, <1>2, <1>3, <1>4, <1>5
  DEF Next, CallerStep, LoopStep, LoopWakes, LoopSends, MainStep, SetCallback, RefreshHandlers,
      Ping, PingStart, PingJoin, PingJoinTimeout, PingRun, Connect, Handle, Start, Register, Send,
      Record, SendFails, StartList, ListOn, ListSend, ListWait, Off, OffWrite, Return, Reopen

SeenOf(c) ==
    ~call[c].muddled =>
      /\ Listing(c) => /\ WireSeen(c) /\ BackSeen(c)
                       /\ call[c].arrived =>
                            Present \intersect call[c].before \subseteq call[c].listed
      /\ call[c].pc \in {"on", "send", "record", "returned"} =>
           Present \intersect call[c].before \subseteq Named(TopicsOf(Unsent(c)))

\* A request more, or one less.
LEMMA TopicsOfTail ==
  ASSUME NEW s \in Seq(Requests), s # <<>>
  PROVE /\ TopicsOf(s) = Head(s).topics \union TopicsOf(Tail(s))
        /\ TopicsOf(<<>>) = {}
<1>1. ASSUME NEW t, t \in TopicsOf(s) PROVE t \in Head(s).topics \union TopicsOf(Tail(s))
  <2>1. PICK i \in DOMAIN s : t \in s[i].topics
    BY <1>1 DEF TopicsOf
  <2>2. \/ i = 1 /\ Head(s) = s[1]
        \/ i - 1 \in DOMAIN Tail(s) /\ Tail(s)[i - 1] = s[i]
    BY <2>1, SeqRules
  <2> QED BY <2>1, <2>2 DEF TopicsOf
<1>2. ASSUME NEW t, t \in TopicsOf(Tail(s)) PROVE t \in TopicsOf(s)
  <2>1. PICK i \in DOMAIN Tail(s) : t \in Tail(s)[i].topics
    BY <1>2 DEF TopicsOf
  <2>2. i + 1 \in DOMAIN s /\ Tail(s)[i] = s[i + 1]
    BY <2>1, SeqRules
  <2> QED BY <2>1, <2>2 DEF TopicsOf
<1>3. Head(s).topics \subseteq TopicsOf(s)
  <2>1. Head(s) = s[1] /\ 1 \in DOMAIN s
    OBVIOUS
  <2> QED BY <2>1 DEF TopicsOf
<1>4. TopicsOf(<<>>) = {}
  BY DEF TopicsOf
<1> QED BY <1>1, <1>2, <1>3, <1>4

\* A call in no stage of unsubscribe_all has nothing to be seen gone.
LEMMA SeenNothing ==
  ASSUME NEW d \in Callers, call'[d].before = {} PROVE SeenOf(d)'
BY DEF SeenOf, WireSeen, BackSeen

\* A call that goes on.
LEMMA SeenGoesOn ==
  ASSUME CallShape, SheetsShape, LinkInv, TodoInv, BookInv, RecordInv, Next,
         NEW d \in Callers, ~Send(d), ~StartList(d), SeenOf(d),
         call[d].muddled => call'[d].muddled, Listing(d)' => Listing(d),
         call'[d].arrived => call[d].arrived, call'[d].listed = call[d].listed,
         call'[d].pc \in {"on", "send", "record", "returned"} =>
           /\ call[d].pc \in {"on", "send", "record", "returned"}
           /\ Unsent(d)' = Unsent(d)
  PROVE SeenOf(d)'
<1>1. Present' \intersect call'[d].before \subseteq Present \intersect call[d].before
  BY SeenShrinks
<1>2. WireSeen(d) => WireSeen(d)'
  BY WireSeenStep
<1>3. WireSeen(d) /\ BackSeen(d) => BackSeen(d)'
  BY BackSeenStep
<1>4. ASSUME ~call'[d].muddled, Listing(d)'
      PROVE /\ WireSeen(d)' /\ BackSeen(d)'
            /\ call'[d].arrived => Present' \intersect call'[d].before \subseteq call'[d].listed
  <2>1. Listing(d) /\ ~call[d].muddled
    BY <1>4
  <2> QED BY <2>1, <1>1, <1>2, <1>3 DEF SeenOf
<1>5. ASSUME ~call'[d].muddled, call'[d].pc \in {"on", "send", "record", "returned"}
      PROVE Present' \intersect call'[d].before \subseteq Named(TopicsOf(Unsent(d)'))
  <2>1. /\ call[d].pc \in {"on", "send", "record", "returned"} /\ ~call[d].muddled
        /\ Unsent(d)' = Unsent(d)
    BY <1>5
  <2>2. Present \intersect call[d].before \subseteq Named(TopicsOf(Unsent(d)))
    BY <2>1 DEF SeenOf
  <2> QED BY <2>1, <2>2, <1>1
<1>6. Named(TopicsOf(Unsent(d)))' = Named(TopicsOf(Unsent(d)'))
  BY DEF Named, TopicsOf, Unsent
<1> QED BY <1>4, <1>5, <1>6 DEF SeenOf

LEMMA SeenStep ==
  ASSUME CallShape, SheetsShape, LinkInv, SpellInv, TodoInv, BookInv, RecordInv, ScopeInv,
         SeenInv, Next
  PROVE SeenInv'
<1>0. /\ \A d \in Callers : SeenOf(d)
      /\ (\A d \in Callers : SeenOf(d)') => SeenInv'
  BY DEF SeenInv, SeenOf
<1>a. ASSUME NEW d \in Callers, Continues(d), call[d].muddled => call'[d].muddled,
             ~Send(d), ~StartList(d)
      PROVE SeenOf(d)'
  <2>1. /\ Listing(d)' => Listing(d)
        /\ call'[d].arrived = call[d].arrived /\ call'[d].listed = call[d].listed
        /\ call'[d].pc = call[d].pc /\ Unsent(d)' = Unsent(d)
    BY <1>a DEF Continues, Listing, Unsent
  <2> QED BY <2>1, <1>a, <1>0, SeenGoesOn
<1>b. \A d \in Callers : Unmoved(d) => Continues(d) /\ call'[d].muddled = call[d].muddled
  BY DEF Unmoved
\* Nobody else moves: who continues neither sends nor begins to list.
<1>c. \A d \in Callers : Continues(d) => ~Send(d) /\ ~StartList(d)
  <2>1. ASSUME NEW d \in Callers, Continues(d), Send(d) PROVE FALSE
    BY <2>1, SendMoves DEF Continues
  <2>2. ASSUME NEW d \in Callers, Continues(d), StartList(d) PROVE FALSE
    <3>1. call'[d].pc = "list_on" /\ call[d].pc = "idle"
      BY <2>2, StartListMoves
    <3> QED BY <2>2, <3>1 DEF Continues
  <2> QED BY <2>1, <2>2
<1>1. ASSUME NEW c \in Callers, Start(c) PROVE SeenInv'
  <2>1. call'[c].before = {}
        /\ \A d \in Callers \ {c} : Continues(d) /\ call'[d].muddled = call[d].muddled
    BY <1>1, StartMoves
  <2> QED BY <2>1, <1>0, <1>a, <1>c, SeenNothing
<1>2. ASSUME NEW c \in Callers,
             Register(c) \/ ListOn(c) \/ ListSend(c) \/ ListWait(c) \/ Off(c)
      PROVE SeenInv'
  <2>1. /\ \A d \in Callers \ {c} : Unmoved(d)
        /\ call'[c].todo = call[c].todo
        /\ call'[c].arrived => call[c].arrived
        /\ call'[c].listed = call[c].listed /\ call'[c].muddled = call[c].muddled
    BY <1>2, StageMoves
  <2>2. /\ ~Send(c) /\ ~StartList(c)
        /\ Listing(c)' => Listing(c)
        /\ call'[c].pc \in {"on", "send", "record", "returned"} =>
             call[c].pc = "on" /\ call'[c].pc = "send"
    <3>1. CASE Register(c)
      <4>1. call[c].pc = "on" /\ call'[c].pc = "send"
        BY <3>1, <1>2, StageMoves
      <4> QED BY <4>1 DEF Listing, Send, StartList, Free, At
    <3>2. CASE ~Register(c)
      <4>1. Listing(c) /\ Listing(c)'
        BY <3>2, <1>2, StageMoves
      <4> QED BY <4>1 DEF Listing, Send, StartList, Free, At
    <3> QED BY <3>1, <3>2
  <2>3. call'[c].pc \in {"on", "send", "record", "returned"} =>
          /\ call[c].pc \in {"on", "send", "record", "returned"}
          /\ Unsent(c)' = Unsent(c)
    BY <2>1, <2>2 DEF Unsent
  <2>4. SeenOf(c)'
    BY <2>1, <2>2, <2>3, <1>0, SeenGoesOn
  <2> QED BY <2>1, <2>4, <1>0, <1>a, <1>b, <1>c
<1>3. ASSUME NEW c \in Callers, Send(c) PROVE SeenInv'
  <2>1. /\ \A d \in Callers \ {c} : Continues(d) /\ call'[d].muddled = call[d].muddled
        /\ call'[c].before = call[c].before /\ call'[c].muddled = call[c].muddled
        /\ call'[c].todo = call[c].todo /\ call[c].pc = "send" /\ call'[c].pc = "record"
    BY <1>3, SendMoves
  <2>2. CASE ~call[c].all
    <3>1. call'[c].before = {}
      BY <2>1, <2>2 DEF ScopeInv
    <3> QED BY <2>1, <3>1, <1>0, <1>a, <1>c, SeenNothing
  <2>3. CASE call[c].all
    <3>1. /\ call[c].todo \in Seq(Requests) /\ call[c].todo # <<>> /\ call[c].adds = "none"
      BY <2>1, <2>3 DEF TodoInv, CallShape, IsCall
    <3>2. Head(call[c].todo).method = "unsubscribe"
      <4>1. 1 \in DOMAIN call[c].todo /\ Head(call[c].todo) = call[c].todo[1]
        BY <3>1
      <4> QED BY <3>1, <4>1 DEF TodoInv
    <3>3. Present' \subseteq Present \ Named(Head(call[c].todo).topics)
      BY <1>3, <3>2, PresentSend
    <3>4. Unsent(c) = call[c].todo /\ Unsent(c)' = Tail(call[c].todo)
      BY <2>1 DEF Unsent
    <3>5. TopicsOf(call[c].todo) =
            Head(call[c].todo).topics \union TopicsOf(Tail(call[c].todo))
      BY <3>1, TopicsOfTail
    <3>6. Named(TopicsOf(call[c].todo)) =
            Named(Head(call[c].todo).topics) \union Named(TopicsOf(Tail(call[c].todo)))
      BY <3>5, NamedTopics
    <3>7. ~Listing(c)'
      BY <2>1 DEF Listing
    <3>8. ~call[c].muddled =>
            Present' \intersect call'[c].before \subseteq Named(TopicsOf(Tail(call[c].todo)))
      BY <2>1, <3>3, <3>4, <3>6, <1>0 DEF SeenOf
    <3>9. Named(TopicsOf(Unsent(c)))' = Named(TopicsOf(Tail(call[c].todo)))
      BY <3>4 DEF Named, TopicsOf, Unsent
    <3>10. SeenOf(c)'
      BY <2>1, <3>7, <3>8, <3>9 DEF SeenOf
    <3> QED BY <2>1, <3>10, <1>0, <1>a, <1>c
  <2> QED BY <2>2, <2>3
<1>11. ASSUME NEW c \in Callers, Record(c) PROVE SeenInv'
  <2>1. /\ call[c].pc = "record" /\ call'[c].todo = Tail(call[c].todo)
        /\ call'[c].pc \in {"on", "send", "idle", "returned"}
        /\ call'[c].arrived = call[c].arrived /\ call'[c].listed = call[c].listed
        /\ call'[c].muddled = call[c].muddled
        /\ \A d \in Callers \ {c} : Unmoved(d)
    BY <1>11, RecordMoves
  <2>2. /\ ~Listing(c)' /\ Unsent(c)' = Unsent(c)
        /\ ~Send(c) /\ ~StartList(c)
    BY <2>1 DEF Listing, Unsent, Send, StartList, Free, At
  <2>3. SeenOf(c)'
    BY <2>1, <2>2, <1>0, SeenGoesOn
  <2> QED BY <2>1, <2>3, <1>0, <1>a, <1>b, <1>c
<1>4. ASSUME NEW c \in Callers, SendFails(c) \/ Return(c) PROVE SeenInv'
  <2>1. call'[c].before = {} /\ \A d \in Callers \ {c} : Unmoved(d)
    BY <1>4, EndMoves DEF Over, Blank
  <2> QED BY <2>1, <1>0, <1>a, <1>b, <1>c, SeenNothing
<1>5. ASSUME NEW c \in Callers, StartList(c) PROVE SeenInv'
  <2>1. /\ call'[c].pc = "list_on" /\ call'[c].arrived = FALSE
        /\ call'[c].muddled = (Unanswered \/ \E d \in Callers \ {c} : Listing(d))
        /\ \A d \in Callers \ {c} :
             Continues(d) /\ (call[d].muddled => call'[d].muddled)
    BY <1>5, StartListMoves
  <2>2. wire' = wire /\ back' = back
    BY <1>5 DEF StartList
  <2>3. ~Unanswered => WireSeen(c)' /\ BackSeen(c)'
    BY <2>2 DEF Unanswered, WireSeen, BackSeen
  <2>4. SeenOf(c)'
    BY <2>1, <2>3 DEF SeenOf
  <2> QED BY <2>1, <2>4, <1>0, <1>a, <1>c
<1>6. ASSUME NEW c \in Callers, OffWrite(c) PROVE SeenInv'
  <2>1. \A d \in Callers \ {c} : Unmoved(d)
    BY <1>6, OffWriteMoves
  <2>2. SeenOf(c)'
    <3>1. CASE call'[c].before = {}
      BY <3>1, SeenNothing
    <3>2. CASE call'[c].before # {}
      <4>1. /\ call[c].pc = "off_write" /\ call[c].arrived
            /\ call'[c].todo = (IF call[c].all THEN UnsubscribeListed(call[c].listed) ELSE <<>>)
            /\ call'[c].pc = (IF call'[c].todo # <<>> THEN "send" ELSE "returned")
            /\ call'[c].before = call[c].before /\ call'[c].muddled = call[c].muddled
        BY <1>6, <3>2, OffWriteMoves DEF Over, Blank
      <4>2. call[c].all /\ call[c].listed \in SUBSET Topics
        BY <3>2, <4>1 DEF ScopeInv, CallShape, IsCall
      <4>3. TopicsOf(call'[c].todo) = call[c].listed
        BY <4>1, <4>2, ListedRequests
      <4>4. ~call[c].muddled => Present \intersect call[c].before \subseteq call[c].listed
        BY <4>1, <1>0 DEF SeenOf, Listing
      <4>5. Present' \subseteq Present
        <5>1. \A d \in Callers : ~Send(d) /\ ~Record(d)
          <6>1. ASSUME NEW d \in Callers, Record(d) PROVE FALSE
            <7>1. call[d].pc = "record" /\ call'[d].pc # "record"
              BY <6>1, RecordMoves
            <7> QED BY <7>1, <4>1, <2>1, <1>b DEF Continues
          <6> QED BY <6>1, <4>1, <2>1, <1>b, <1>c DEF Send, At
        <5> QED BY <5>1, PresentShrinks
      <4>6. ~Listing(c)'
        BY <4>1 DEF Listing
      <4>7. Named(TopicsOf(Unsent(c)))' = Named(call[c].listed)
        <5>1. Unsent(c)' = call'[c].todo
          BY <4>1 DEF Unsent
        <5>2. Named(TopicsOf(Unsent(c)))' = Named(TopicsOf(Unsent(c)'))
          BY DEF Named, TopicsOf, Unsent
        <5> QED BY <5>1, <5>2, <4>3
      <4>8. ASSUME ~call[c].muddled, NEW t, t \in Present', t \in call[c].before
            PROVE t \in Named(call[c].listed)
        <5>1. t \in call[c].listed
          BY <4>4, <4>5, <4>8
        <5>2. AtServer(t) = t
          BY <4>5, <4>8, PresentSpelled
        <5> QED BY <5>1, <5>2, NamedTopics
      <4> QED BY <4>1, <4>6, <4>7, <4>8 DEF SeenOf
    <3> QED BY <3>1, <3>2
  <2> QED BY <2>1, <2>2, <1>0, <1>a, <1>b, <1>c
<1>7. CASE Receive
  <2>1. ASSUME NEW d \in Callers PROVE SeenOf(d)'
    <3>1. /\ call'[d].pc = call[d].pc /\ call'[d].todo = call[d].todo
          /\ call'[d].muddled = call[d].muddled /\ call'[d].n = call[d].n
          /\ \/ call'[d].arrived = call[d].arrived /\ call'[d].listed = call[d].listed
             \/ /\ back # <<>> /\ Head(back).kind = "listed" /\ Listing(d)
                /\ call'[d].listed = Head(back).topics
      BY <1>7, ReceiveMoves
    <3>2. (Listing(d)' => Listing(d)) /\ ~Send(d) /\ ~StartList(d)
      <4>1. Listing(d)' => Listing(d)
        BY <3>1 DEF Listing
      <4>2. ~Send(d)
        <5>1. back' # back
          <6>1. back \in Seq(Sheets) /\ back # <<>> /\ back' = Tail(back)
            BY <1>7 DEF Receive, SheetsShape
          <6> QED BY <6>1
        <5> QED BY <5>1 DEF Send
      <4>3. ~StartList(d)
        BY <3>1, StartListMoves
      <4> QED BY <4>1, <4>2, <4>3
    <3>3. CASE call'[d].arrived = call[d].arrived /\ call'[d].listed = call[d].listed
      <4>1. Unsent(d)' = Unsent(d)
        BY <3>1 DEF Unsent
      <4> QED BY <3>1, <3>2, <3>3, <4>1, <1>0, SeenGoesOn
    <3>4. CASE /\ back # <<>> /\ Head(back).kind = "listed" /\ Listing(d)
               /\ call'[d].listed = Head(back).topics
      <4>1. Present' \intersect call'[d].before \subseteq Present \intersect call[d].before
        BY <3>2, SeenShrinks
      <4>2. call'[d].pc \notin {"on", "send", "record", "returned"}
        BY <3>1, <3>4 DEF Listing
      <4>3. back \in Seq(Sheets)
        BY DEF SheetsShape
      <4>4. 1 \in DOMAIN back /\ Head(back) = back[1]
        BY <3>4, <4>3
      <4>5. ASSUME ~call'[d].muddled
            PROVE /\ WireSeen(d)' /\ BackSeen(d)'
                  /\ Present' \intersect call'[d].before \subseteq call'[d].listed
        <5>1. WireSeen(d) /\ BackSeen(d)
          BY <3>1, <3>4, <4>5, <1>0 DEF SeenOf
        <5>2. WireSeen(d)' /\ BackSeen(d)'
          BY <5>1, <3>2, WireSeenStep, BackSeenStep
        <5>3. Present \intersect call[d].before \subseteq Head(back).topics
          BY <5>1, <3>4, <4>4 DEF BackSeen
        <5> QED BY <5>2, <5>3, <4>1, <3>4
      <4> QED BY <4>2, <4>5 DEF SeenOf
    <3> QED BY <3>1, <3>3, <3>4
  <2> QED BY <2>1, <1>0
<1>8. CASE Disconnect
  <2>1. \A d \in Callers : Continues(d) /\ call'[d].muddled = call[d].muddled
    BY <1>8, DisconnectMoves
  <2> QED BY <2>1, <1>0, <1>a, <1>c
<1>9. CASE ServerTakes
  <2>1. \A d \in Callers : Continues(d) /\ call'[d].muddled = call[d].muddled
    BY <1>9, TakesMoves DEF Continues
  <2> QED BY <2>1, <1>0, <1>a, <1>c
<1>10. CASE UNCHANGED call
  <2>1. \A d \in Callers : Continues(d) /\ call'[d].muddled = call[d].muddled
    BY <1>10 DEF Continues
  <2> QED BY <2>1, <1>0, <1>a, <1>c
<1> QED
  BY <1>1, <1>2, <1>3, <1>4, <1>5, <1>6, <1>7, <1>8, <1>9, <1>10, <1>11
  DEF Next, CallerStep, LoopStep, LoopWakes, LoopSends, MainStep, SetCallback, RefreshHandlers,
      Ping, PingStart, PingJoin, PingJoinTimeout, PingRun, Connect, Handle, Drop, Reopen,
      ServerPushes

-----------------------------------------------------------------------------
(* The subscriptions asked for and not given up                            *)

\* Giving up a pair gives up what asking for it subscribes.
PairsMatch ==
  \A c, d \in Callers : \A o \in Menu[c], u \in Menu[d] :
    o.pair = u.pair /\ o.method = "subscribe" /\ u.method # "subscribe"
      => TopicsOf(o.requests) \subseteq TopicsOf(u.requests)

LEMMA CoveredBy ==
  ASSUME PairsMatch, NEW c \in Callers, NEW u \in Menu[c]
  PROVE IF u.method = "subscribe" THEN TopicsOf(u.requests) \subseteq Covered(u.pair)
        ELSE Covered(u.pair) \subseteq TopicsOf(u.requests)
<1>1. CASE u.method = "subscribe"
  BY <1>1 DEF Covered
<1>2. CASE u.method # "subscribe"
  <2>1. ASSUME NEW t, t \in Covered(u.pair) PROVE t \in TopicsOf(u.requests)
    <3>1. PICK d \in Callers : t \in UNION {TopicsOf(op.requests) :
                                 op \in {o \in Menu[d] : o.pair = u.pair /\ o.method = "subscribe"}}
      BY <2>1 DEF Covered
    <3>2. PICK o \in Menu[d] : o.pair = u.pair /\ o.method = "subscribe" /\ t \in TopicsOf(o.requests)
      BY <3>1
    <3> QED BY <3>2, <1>2 DEF PairsMatch
  <2> QED BY <2>1, <1>2
<1> QED BY <1>1, <1>2

LEMMA NamedMonotone ==
  ASSUME NEW S, NEW T, S \subseteq T PROVE Named(S) \subseteq Named(T)
BY DEF Named

\* A subscription goes on holding a topic that no call comes to giving up.
LEMMA HoldsKeeps ==
  ASSUME NEW name, NEW t, name # "none",
         \A d \in Callers :
           \/ call'[d].undo \in {call[d].undo, "none"} /\ call'[d].todo = call[d].todo
           \/ call'[d].undo = "none"
           \/ call'[d].undo = call[d].undo /\ call[d].todo = <<>>,
         Holds(name, t)
  PROVE Holds(name, t)'
<1>1. TopicsOf(<<>>) = {}
  BY DEF TopicsOf
<1>2. ASSUME NEW d \in Callers, call'[d].undo = name PROVE t \in TopicsOf(call'[d].todo)
  <2>1. call[d].undo = name
    BY <1>2
  <2>2. t \in TopicsOf(call[d].todo)
    BY <2>1 DEF Holds
  <2> QED BY <2>2, <1>1, <1>2
<1> QED BY <1>2 DEF Holds

LEMMA ServesKeeps ==
  ASSUME NEW name, NEW t, name # "none",
         \A d \in Callers :
           \/ call'[d].undo \in {call[d].undo, "none"} /\ Unsent(d)' = Unsent(d)
           \/ call'[d].undo = "none"
           \/ call'[d].undo = call[d].undo /\ Unsent(d) = <<>>
         , Serves(name, t)
  PROVE Serves(name, t)'
<1>1. Named(TopicsOf(<<>>)) = {}
  BY DEF Named, TopicsOf
<1>2. ASSUME NEW d \in Callers, call'[d].undo = name PROVE t \in Named(TopicsOf(Unsent(d)'))
  <2>1. call[d].undo = name
    BY <1>2
  <2>2. t \in Named(TopicsOf(Unsent(d)))
    BY <2>1 DEF Serves
  <2> QED BY <2>2, <1>1, <1>2
<1> QED BY <1>2 DEF Serves

\* A step by which nothing is asked for, and nobody begins to give up a pair.
Stays(d) ==
  /\ call'[d].adds \in {call[d].adds, "none"}
  /\ \/ /\ call'[d].undo \in {call[d].undo, "none"}
        /\ call'[d].todo = call[d].todo /\ Unsent(d)' = Unsent(d)
     \/ call'[d].adds = "none" /\ call'[d].undo = "none"
     \/ /\ call'[d].adds = "none" /\ call'[d].undo = call[d].undo
        /\ call[d].todo = <<>> /\ Unsent(d) = <<>>

LEMMA AccountKeeps ==
  ASSUME Accounted, link'.book \subseteq link.book,
         Subscribed' \ revived' \subseteq Subscribed \ revived, active' = active,
         \A d \in Callers : Stays(d)
  PROVE Accounted'
<1>0. "none" \notin active
  BY DEF Accounted, UndoInv
<1>1. ASSUME NEW t \in link'.book PROVE \E name \in active' : Holds(name, t)'
  <2>1. PICK name \in active : Holds(name, t)
    BY DEF Accounted, HeldInv
  <2>2. Holds(name, t)'
    BY <1>0, <2>1, HoldsKeeps DEF Stays
  <2> QED BY <2>2
<1>2. ASSUME NEW t \in Subscribed' \ revived' PROVE \E name \in active' : Serves(name, t)'
  <2>1. PICK name \in active : Serves(name, t)
    BY DEF Accounted, ServedInv
  <2>2. Serves(name, t)'
    BY <1>0, <2>1, ServesKeeps DEF Stays
  <2> QED BY <2>2
<1>3. UndoInv'
  <2>1. ASSUME NEW d \in Callers, call'[d].adds # "none"
        PROVE /\ TopicsOf(call'[d].todo) \subseteq Covered(call'[d].adds)
              /\ call'[d].adds \in active'
              /\ \A e \in Callers : call'[e].undo # call'[d].adds
    <3>1. call'[d].adds = call[d].adds /\ call'[d].todo = call[d].todo
      BY <2>1 DEF Stays
    <3>2. \A e \in Callers : call[e].undo # call[d].adds
      BY <2>1, <3>1 DEF Accounted, UndoInv
    <3>3. TopicsOf(call'[d].todo) \subseteq Covered(call'[d].adds) /\ call'[d].adds \in active'
      BY <2>1, <3>1 DEF Accounted, UndoInv
    <3>4. \A e \in Callers : call'[e].undo \in {call[e].undo, "none"}
      BY DEF Stays
    <3> QED BY <2>1, <3>1, <3>2, <3>3, <3>4
  <2>2. \A d \in Callers : call'[d].undo # "none" => call'[d].adds = "none"
    BY DEF Accounted, UndoInv, Stays
  <2> QED BY <2>1, <2>2, <1>0 DEF UndoInv
<1> QED BY <1>1, <1>2, <1>3 DEF Accounted, HeldInv, ServedInv

LEMMA AccountStarts ==
  ASSUME PairsMatch, CallShape, SheetsShape, Accounted, NEW c \in Callers, Start(c)
  PROVE Accounted'
<1>1. PICK op \in Menu[c] :
        /\ call[c].pc = "idle" /\ call'[c].pc \in {"on", "send"}
        /\ call'[c].todo = op.requests
        /\ call'[c].adds = (IF op.method = "subscribe" THEN op.pair ELSE "none")
        /\ call'[c].undo = (IF \/ op.method = "subscribe"
                               \/ \E d \in Callers \ {c} : call[d].adds = op.pair
                            THEN "none" ELSE op.pair)
        /\ \A d \in Callers \ {c} :
             /\ Continues(d)
             /\ call'[d].undo = IF op.method = "subscribe" /\ call[d].undo = op.pair THEN "none"
                                ELSE call[d].undo
        /\ active' = IF op.method = "subscribe" THEN active \union {op.pair} ELSE active
  BY StartMoves
<1>2. op.pair # "none" /\ "none" \notin active
  BY MenuAssumption DEF Accounted, UndoInv
<1>3. /\ \A d \in Callers \ {c} : /\ call'[d].adds = call[d].adds
                                  /\ call'[d].todo = call[d].todo
                                  /\ Unsent(d)' = Unsent(d)
      /\ Unsent(c)' = op.requests
  BY <1>1 DEF Continues, Unsent
<1>4. link'.book = link.book /\ Subscribed' = Subscribed /\ revived' = revived
  BY SubscribedSame DEF Start
<1>5. CASE op.method = "subscribe"
  <2>1. \A d \in Callers : \/ /\ call'[d].undo \in {call[d].undo, "none"}
                              /\ call'[d].todo = call[d].todo /\ Unsent(d)' = Unsent(d)
                           \/ call'[d].undo = "none"
    BY <1>1, <1>3, <1>5
  <2>2. ASSUME NEW t \in link'.book PROVE \E name \in active' : Holds(name, t)'
    <3>1. PICK name \in active : Holds(name, t)
      BY <1>4 DEF Accounted, HeldInv
    <3>2. Holds(name, t)'
      BY <1>2, <2>1, <3>1, HoldsKeeps
    <3> QED BY <1>1, <1>5, <3>2
  <2>3. ASSUME NEW t \in Subscribed' \ revived' PROVE \E name \in active' : Serves(name, t)'
    <3>1. PICK name \in active : Serves(name, t)
      BY <1>4 DEF Accounted, ServedInv
    <3>2. Serves(name, t)'
      BY <1>2, <2>1, <3>1, ServesKeeps
    <3> QED BY <1>1, <1>5, <3>2
  <2>4. TopicsOf(op.requests) \subseteq Covered(op.pair)
    BY <1>5, CoveredBy
  <2>5. \A d \in Callers : call'[d].undo # op.pair
    BY <1>1, <1>2, <1>5
  <2>6. ASSUME NEW d \in Callers, call'[d].adds # "none"
        PROVE /\ TopicsOf(call'[d].todo) \subseteq Covered(call'[d].adds)
              /\ call'[d].adds \in active'
              /\ \A e \in Callers : call'[e].undo # call'[d].adds
    <3>1. CASE d = c
      BY <3>1, <1>1, <1>5, <2>4, <2>5
    <3>2. CASE d # c
      <4>1. call'[d].adds = call[d].adds /\ call'[d].todo = call[d].todo
        BY <3>2, <1>3
      <4>2. /\ TopicsOf(call[d].todo) \subseteq Covered(call[d].adds)
            /\ call[d].adds \in active /\ \A e \in Callers : call[e].undo # call[d].adds
        BY <2>6, <4>1 DEF Accounted, UndoInv
      <4>3. \A e \in Callers : call'[e].undo \in {call[e].undo, "none"}
        BY <1>1, <1>5
      <4> QED BY <4>1, <4>2, <4>3, <2>6, <1>1, <1>5
    <3> QED BY <3>1, <3>2
  <2>7. \A d \in Callers : call'[d].undo # "none" => call'[d].adds = "none"
    BY <1>1, <1>3, <1>5 DEF Accounted, UndoInv
  <2>8. "none" \notin active'
    BY <1>1, <1>2, <1>5
  <2> QED BY <2>2, <2>3, <2>6, <2>7, <2>8 DEF Accounted, HeldInv, ServedInv, UndoInv
<1>6. CASE op.method # "subscribe"
  <2>1. Covered(op.pair) \subseteq TopicsOf(op.requests)
    BY <1>6, CoveredBy
  <2>2. ASSUME NEW t \in link'.book PROVE \E name \in active' : Holds(name, t)'
    <3>1. PICK name \in active : Holds(name, t)
      BY <1>4 DEF Accounted, HeldInv
    <3>2. ASSUME NEW d \in Callers, call'[d].undo = name PROVE t \in TopicsOf(call'[d].todo)
      <4>1. CASE d = c
        <5>1. name = op.pair
          BY <4>1, <3>2, <1>1, <1>2
        <5> QED BY <5>1, <2>1, <3>1, <4>1, <1>1 DEF Holds
      <4>2. CASE d # c
        BY <4>2, <3>1, <3>2, <1>1, <1>3, <1>6 DEF Holds
      <4> QED BY <4>1, <4>2
    <3>3. Holds(name, t)'
      BY <3>1, <3>2 DEF Holds
    <3> QED BY <1>1, <1>6, <3>3
  <2>3. ASSUME NEW t \in Subscribed' \ revived' PROVE \E name \in active' : Serves(name, t)'
    <3>1. PICK name \in active : Serves(name, t)
      BY <1>4 DEF Accounted, ServedInv
    <3>2. ASSUME NEW d \in Callers, call'[d].undo = name
          PROVE t \in Named(TopicsOf(Unsent(d)'))
      <4>1. CASE d = c
        <5>1. name = op.pair
          BY <4>1, <3>2, <1>1, <1>2
        <5>2. Named(Covered(op.pair)) \subseteq Named(TopicsOf(op.requests))
          BY <2>1, NamedMonotone
        <5> QED BY <5>1, <5>2, <3>1, <4>1, <1>3 DEF Serves
      <4>2. CASE d # c
        <5>1. t \in Named(TopicsOf(Unsent(d)))
          BY <4>2, <3>1, <3>2, <1>1, <1>6 DEF Serves
        <5> QED BY <5>1, <4>2, <1>3
      <4> QED BY <4>1, <4>2
    <3>3. Serves(name, t)'
      BY <3>1, <3>2 DEF Serves
    <3> QED BY <1>1, <1>6, <3>3
  <2>4. ASSUME NEW d \in Callers, call'[d].adds # "none"
        PROVE /\ TopicsOf(call'[d].todo) \subseteq Covered(call'[d].adds)
              /\ call'[d].adds \in active'
              /\ \A e \in Callers : call'[e].undo # call'[d].adds
    <3>1. d # c /\ call'[d].adds = call[d].adds /\ call'[d].todo = call[d].todo
      BY <2>4, <1>1, <1>3, <1>6
    <3>2. /\ TopicsOf(call[d].todo) \subseteq Covered(call[d].adds)
          /\ call[d].adds \in active /\ \A e \in Callers : call[e].undo # call[d].adds
      BY <2>4, <3>1 DEF Accounted, UndoInv
    <3>3. call'[c].undo # call[d].adds
      BY <2>4, <3>1, <1>1
    <3>4. \A e \in Callers : call'[e].undo # call[d].adds
      BY <3>2, <3>3, <1>1, <1>6
    <3> QED BY <3>1, <3>2, <3>4, <1>1, <1>6
  <2>5. \A d \in Callers : call'[d].undo # "none" => call'[d].adds = "none"
    BY <1>1, <1>3, <1>6 DEF Accounted, UndoInv
  <2>6. "none" \notin active'
    BY <1>1, <1>2, <1>6
  <2> QED BY <2>2, <2>3, <2>4, <2>5, <2>6 DEF Accounted, HeldInv, ServedInv, UndoInv
<1> QED BY <1>5, <1>6

\* The request at the head of a call's, and what it is of.
LEMMA HeadRequest ==
  ASSUME CallShape, TodoInv, Accounted, NEW c \in Callers, call[c].pc \in {"send", "record"}
  PROVE /\ call[c].todo \in Seq(Requests) /\ call[c].todo # <<>>
        /\ TopicsOf(call[c].todo) =
             Head(call[c].todo).topics \union TopicsOf(Tail(call[c].todo))
        /\ Head(call[c].todo).method =
             (IF call[c].adds = "none" THEN "unsubscribe" ELSE "subscribe")
        /\ call[c].adds # "none" =>
             /\ Head(call[c].todo).topics \subseteq Covered(call[c].adds)
             /\ call[c].undo = "none" /\ call[c].adds \in active
             /\ \A d \in Callers : call[d].undo # call[c].adds
<1>1. call[c].todo \in Seq(Requests) /\ call[c].todo # <<>>
  BY DEF TodoInv, CallShape, IsCall
<1>2. 1 \in DOMAIN call[c].todo /\ Head(call[c].todo) = call[c].todo[1]
  BY <1>1
<1>3. Head(call[c].todo).method = IF call[c].adds = "none" THEN "unsubscribe" ELSE "subscribe"
  BY <1>2 DEF TodoInv
<1>4. TopicsOf(call[c].todo) = Head(call[c].todo).topics \union TopicsOf(Tail(call[c].todo))
  BY <1>1, TopicsOfTail
<1>5. ASSUME call[c].adds # "none"
      PROVE /\ Head(call[c].todo).topics \subseteq Covered(call[c].adds)
            /\ call[c].undo = "none" /\ call[c].adds \in active
            /\ \A d \in Callers : call[d].undo # call[c].adds
  BY <1>4, <1>5 DEF Accounted, UndoInv
<1> QED BY <1>1, <1>3, <1>4, <1>5

LEMMA AccountSends ==
  ASSUME CallShape, SheetsShape, TodoInv, Accounted, NEW c \in Callers, Send(c)
  PROVE Accounted'
<1> DEFINE m == Head(call[c].todo)
           T == Named(m.topics)
<1>1. /\ call[c].pc = "send" /\ call'[c].pc = "record"
      /\ call'[c].todo = call[c].todo /\ call'[c].adds = call[c].adds
      /\ call'[c].undo = call[c].undo
      /\ \A d \in Callers \ {c} : Continues(d) /\ call'[d].undo = call[d].undo
  BY SendMoves
<1>2. /\ \A d \in Callers : /\ call'[d].todo = call[d].todo /\ call'[d].adds = call[d].adds
                            /\ call'[d].undo = call[d].undo
      /\ \A d \in Callers \ {c} : Unsent(d)' = Unsent(d)
      /\ Unsent(c) = call[c].todo /\ Unsent(c)' = Tail(call[c].todo)
  BY <1>1 DEF Continues, Unsent
<1>3. active' = active /\ link' = link /\ revived' = revived \ T
  BY DEF Send
<1>4. /\ TopicsOf(call[c].todo) = m.topics \union TopicsOf(Tail(call[c].todo))
      /\ m.method = (IF call[c].adds = "none" THEN "unsubscribe" ELSE "subscribe")
      /\ call[c].adds # "none" =>
           /\ m.topics \subseteq Covered(call[c].adds) /\ call[c].undo = "none"
           /\ call[c].adds \in active /\ \A d \in Callers : call[d].undo # call[c].adds
  BY <1>1, HeadRequest
<1>5. IF m.method = "subscribe" THEN Subscribed' = Subscribed \union T
      ELSE Subscribed' = Subscribed \ T
  BY PresentSend
<1>6. Named(TopicsOf(call[c].todo)) = T \union Named(TopicsOf(Tail(call[c].todo)))
  BY <1>4, NamedTopics
<1>7. m.topics \subseteq Covered(call[c].adds) => T \subseteq Named(Covered(call[c].adds))
  BY NamedMonotone
<1>u. "none" \notin active
  BY DEF Accounted, UndoInv
<1> HIDE DEF m, T
<1>8. HeldInv'
  <2>1. ASSUME NEW t \in link'.book PROVE \E name \in active' : Holds(name, t)'
    <3>1. PICK name \in active : Holds(name, t)
      BY <1>3 DEF Accounted, HeldInv
    <3>2. Holds(name, t)'
      BY <1>2, <1>u, <3>1, HoldsKeeps
    <3> QED BY <1>3, <3>2
  <2> QED BY <2>1 DEF HeldInv
<1>9. ASSUME NEW t \in Subscribed' \ revived' PROVE \E name \in active' : Serves(name, t)'
  <2>1. CASE call[c].adds # "none" /\ t \in T
    <3>1. t \in Named(Covered(call[c].adds)) /\ call[c].adds \in active'
      BY <2>1, <1>3, <1>4, <1>7
    <3>2. \A d \in Callers : call'[d].undo # call[c].adds
      BY <2>1, <1>2, <1>4
    <3>3. Serves(call[c].adds, t)'
      <4>1. PICK name : name = call[c].adds
        OBVIOUS
      <4>2. t \in Named(Covered(name)) /\ \A d \in Callers : call'[d].undo # name
        BY <3>1, <3>2, <4>1
      <4>3. Serves(name, t)'
        BY <4>2 DEF Serves
      <4>4. Serves(call[c].adds, t)' <=> Serves(name, t)'
        BY <1>2, <4>1 DEF Serves
      <4> QED BY <4>3, <4>4
    <3> QED BY <3>1, <3>3, <1>2
  <2>2. CASE call[c].adds = "none" \/ t \notin T
    <3>1. t \in Subscribed \ revived /\ t \notin T
      BY <2>2, <1>3, <1>4, <1>5
    <3>2. PICK name \in active : Serves(name, t)
      BY <3>1 DEF Accounted, ServedInv
    <3>3. ASSUME NEW d \in Callers, call'[d].undo = name
          PROVE t \in Named(TopicsOf(Unsent(d)'))
      <4>1. t \in Named(TopicsOf(Unsent(d)))
        BY <3>2, <3>3, <1>2 DEF Serves
      <4>2. CASE d = c
        BY <4>1, <4>2, <3>1, <1>2, <1>6
      <4>3. CASE d # c
        BY <4>1, <4>3, <1>2
      <4> QED BY <4>2, <4>3
    <3>4. Serves(name, t)'
      BY <3>2, <3>3 DEF Serves
    <3> QED BY <3>4, <1>3
  <2> QED BY <2>1, <2>2
<1>10. UndoInv'
  BY <1>2, <1>3 DEF Accounted, UndoInv
<1> QED BY <1>8, <1>9, <1>10 DEF Accounted, ServedInv

LEMMA AccountRecords ==
  ASSUME CallShape, SheetsShape, TodoInv, Accounted, NEW c \in Callers, Record(c)
  PROVE Accounted'
<1> DEFINE m == Head(call[c].todo)
           rest == Tail(call[c].todo)
<1>1. /\ call[c].pc = "record" /\ call'[c].pc # "record"
      /\ call'[c].todo = rest /\ call'[c].undo = call[c].undo
      /\ IF rest = <<>> THEN call'[c].adds = "none" /\ active' = active \ {call[c].undo}
         ELSE call'[c].adds = call[c].adds /\ active' = active
      /\ \A d \in Callers \ {c} : Unmoved(d)
  BY RecordMoves
<1>2. /\ \A d \in Callers : call'[d].undo = call[d].undo /\ Unsent(d)' = Unsent(d)
      /\ \A d \in Callers \ {c} : call'[d].todo = call[d].todo /\ call'[d].adds = call[d].adds
      /\ Unsent(c) = rest
  BY <1>1 DEF Unmoved, Continues, Unsent
<1>3. /\ TopicsOf(call[c].todo) = m.topics \union TopicsOf(rest)
      /\ m.method = (IF call[c].adds = "none" THEN "unsubscribe" ELSE "subscribe")
      /\ call[c].adds # "none" =>
           /\ m.topics \subseteq Covered(call[c].adds) /\ call[c].undo = "none"
           /\ call[c].adds \in active /\ \A d \in Callers : call[d].undo # call[c].adds
  BY <1>1, HeadRequest
<1>4. /\ link'.book = Recorded(link.book, m) /\ revived' = revived
      /\ (Up => Subscribed' = Subscribed) /\ (~Up => Subscribed' = Named(link'.book))
      /\ ~Up => Subscribed = Named(link.book)
  BY PresentRecord DEF Subscribed
<1>5. TopicsOf(<<>>) = {} /\ Named({}) = {}
  BY NamedTopics DEF TopicsOf
<1>u. "none" \notin active
  BY DEF Accounted, UndoInv
<1> HIDE DEF m, rest
\* Who subscribes is asked for, and given up by nobody.
<1>a. ASSUME call[c].adds # "none"
      PROVE /\ \A t \in m.topics : \E name \in active' : Holds(name, t)'
            /\ \A t \in Named(m.topics) : \E name \in active' : Serves(name, t)'
  <2>1. active' = active
    BY <1>1, <1>3, <1>a, <1>u
  <2>2. Named(m.topics) \subseteq Named(Covered(call[c].adds))
    BY <1>3, <1>a, NamedMonotone
  <2>3. PICK name : name = call[c].adds
    OBVIOUS
  <2>4. name \in active' /\ \A d \in Callers : call'[d].undo # name
    BY <1>2, <1>3, <1>a, <2>1, <2>3
  <2>5. ASSUME NEW t \in m.topics PROVE Holds(name, t)'
    <3>1. t \in Covered(name)
      BY <1>3, <1>a, <2>3
    <3> QED BY <3>1, <2>4 DEF Holds
  <2>6. ASSUME NEW t \in Named(m.topics) PROVE Serves(name, t)'
    <3>1. t \in Named(Covered(name))
      BY <2>2, <2>3
    <3> QED BY <3>1, <2>4 DEF Serves
  <2> QED BY <2>4, <2>5, <2>6
<1>6. HeldInv'
  <2>1. ASSUME NEW t \in link'.book PROVE \E name \in active' : Holds(name, t)'
    <3>1. CASE call[c].adds # "none" /\ t \in m.topics
      BY <3>1, <1>a
    <3>2. CASE call[c].adds = "none" \/ t \notin m.topics
      <4>1. t \in link.book /\ t \notin m.topics
        BY <3>2, <1>3, <1>4 DEF Recorded
      <4>2. PICK name \in active : Holds(name, t)
        BY <4>1 DEF Accounted, HeldInv
      <4>3. ASSUME NEW d \in Callers, call'[d].undo = name PROVE t \in TopicsOf(call'[d].todo)
        <5>1. t \in TopicsOf(call[d].todo)
          BY <4>2, <4>3, <1>2 DEF Holds
        <5>2. CASE d = c
          BY <5>1, <5>2, <4>1, <1>1, <1>3
        <5>3. CASE d # c
          BY <5>1, <5>3, <1>2
        <5> QED BY <5>2, <5>3
      <4>4. Holds(name, t)'
        BY <4>2, <4>3 DEF Holds
      <4>5. name \in active'
        <5>1. ASSUME rest = <<>>, call[c].undo = name PROVE FALSE
          BY <5>1, <4>3, <1>1, <1>2, <1>5
        <5> QED BY <5>1, <4>2, <1>1
      <4> QED BY <4>4, <4>5
    <3> QED BY <3>1, <3>2
  <2> QED BY <2>1 DEF HeldInv
<1>7. ServedInv'
  <2>1. ASSUME NEW t \in Subscribed' \ revived' PROVE \E name \in active' : Serves(name, t)'
    <3>1. CASE call[c].adds # "none" /\ t \in Named(m.topics)
      BY <3>1, <1>a
    <3>2. CASE call[c].adds = "none" \/ t \notin Named(m.topics)
      <4>1. t \in Subscribed \ revived
        <5>1. CASE Up
          BY <5>1, <1>4
        <5>2. CASE ~Up
          <6>1. t \in Named(link'.book)
            BY <5>2, <1>4
          <6>2. PICK b \in link'.book : t = AtServer(b)
            BY <6>1 DEF Named
          <6>3. b \in m.topics => t \in Named(m.topics)
            BY <6>2, NamedTopics
          <6>4. b \in link.book
            BY <3>2, <6>2, <6>3, <1>3, <1>4 DEF Recorded
          <6> QED BY <5>2, <6>2, <6>4, <1>4, NamedTopics
        <5> QED BY <5>1, <5>2
      <4>2. PICK name \in active : Serves(name, t)
        BY <4>1 DEF Accounted, ServedInv
      <4>3. Serves(name, t)'
        BY <4>2, <1>2, <1>u, ServesKeeps
      <4>4. name \in active'
        <5>1. ASSUME rest = <<>>, call[c].undo = name PROVE FALSE
          <6>1. t \in Named(TopicsOf(Unsent(c)))
            BY <5>1, <4>2 DEF Serves
          <6> QED BY <6>1, <5>1, <1>2, <1>5
        <5> QED BY <5>1, <4>2, <1>1
      <4> QED BY <4>3, <4>4
    <3> QED BY <3>1, <3>2
  <2> QED BY <2>1 DEF ServedInv
<1>8. ASSUME NEW d \in Callers, call'[d].adds # "none"
      PROVE /\ TopicsOf(call'[d].todo) \subseteq Covered(call'[d].adds)
            /\ call'[d].adds \in active'
            /\ \A e \in Callers : call'[e].undo # call'[d].adds
  <2>1. call'[d].adds = call[d].adds
    BY <1>1, <1>2, <1>8
  <2>2. /\ TopicsOf(call[d].todo) \subseteq Covered(call[d].adds)
        /\ call[d].adds \in active /\ \A e \in Callers : call[e].undo # call[d].adds
    BY <1>8, <2>1 DEF Accounted, UndoInv
  <2>3. TopicsOf(call'[d].todo) \subseteq TopicsOf(call[d].todo)
    BY <1>1, <1>2, <1>3
  <2>4. call[d].adds \in active'
    BY <2>2, <1>1
  <2> QED BY <2>1, <2>2, <2>3, <2>4, <1>2
<1>9. \A d \in Callers : call'[d].undo # "none" => call'[d].adds = "none"
  BY <1>1, <1>2 DEF Accounted, UndoInv
<1>10. "none" \notin active'
  BY <1>1, <1>u
<1> QED BY <1>6, <1>7, <1>8, <1>9, <1>10 DEF Accounted, UndoInv

LEMMA AccountDisconnects ==
  ASSUME CallShape, SheetsShape, LinkInv, Accounted, Disconnect
  PROVE Accounted'
<1>1. \A d \in Callers : /\ call'[d].adds = call[d].adds /\ call'[d].todo = call[d].todo
                         /\ call'[d].undo = "none"
  BY DisconnectMoves DEF Continues
<1>2. active' = {call[c].adds : c \in Callers} \ {"none"}
  BY DEF Disconnect
<1>3. link'.book = {} /\ Subscribed' = {}
  BY SubscribedLink, NamedTopics
<1> QED BY <1>1, <1>2, <1>3 DEF Accounted, HeldInv, ServedInv, UndoInv

\* What the next connection restores was asked for, and given up by nobody; what
\* was sent to be given up and not recorded is among what was revived.
LEMMA AccountDrops ==
  ASSUME CallShape, SheetsShape, LinkInv, TodoInv, Accounted, Drop
  PROVE Accounted'
<1>1. /\ link'.book = link.book /\ Subscribed' = Named(link.book)
      /\ Recording("unsubscribe") \subseteq revived'
  BY SubscribedLink
<1>2. UNCHANGED <<call, active>>
  BY DEF Drop
<1>3. \A d \in Callers : Unsent(d)' = Unsent(d)
  BY <1>2 DEF Unsent
<1>4. HeldInv' /\ UndoInv'
  BY <1>1, <1>2 DEF Accounted, HeldInv, Holds, UndoInv
<1>5. ASSUME NEW t \in Subscribed' \ revived' PROVE \E name \in active' : Serves(name, t)'
  <2>1. PICK b \in link.book : t = AtServer(b)
    BY <1>1 DEF Named
  <2>2. PICK name \in active : Holds(name, b)
    BY DEF Accounted, HeldInv
  <2>3. t \in Named(Covered(name))
    BY <2>1, <2>2, NamedTopics DEF Holds
  <2>4. ASSUME NEW d \in Callers, call[d].undo = name PROVE t \in Named(TopicsOf(Unsent(d)))
    <3>1. b \in TopicsOf(call[d].todo)
      BY <2>2, <2>4 DEF Holds
    <3>2. CASE call[d].pc # "record"
      BY <3>1, <3>2, <2>1, NamedTopics DEF Unsent
    <3>3. CASE call[d].pc = "record"
      <4>1. /\ TopicsOf(call[d].todo) =
                 Head(call[d].todo).topics \union TopicsOf(Tail(call[d].todo))
            /\ Head(call[d].todo).method =
                 (IF call[d].adds = "none" THEN "unsubscribe" ELSE "subscribe")
            /\ call[d].adds # "none" => call[d].undo = "none"
        BY <3>3, HeadRequest
      <4>2. name # "none"
        BY <2>2 DEF Accounted, UndoInv
      <4>3. ASSUME b \in Head(call[d].todo).topics PROVE FALSE
        <5>1. InRecord(d, "unsubscribe", t)
          BY <2>1, <2>4, <3>3, <4>1, <4>2, <4>3, NamedTopics DEF InRecord
        <5>2. t \in Recording("unsubscribe")
          BY <5>1, RecordingMember
        <5> QED BY <5>2, <1>1
      <4>4. b \in TopicsOf(Unsent(d))
        BY <3>1, <3>3, <4>1, <4>3 DEF Unsent
      <4> QED BY <4>4, <2>1, NamedTopics
    <3> QED BY <3>2, <3>3
  <2>5. Serves(name, t)'
    BY <1>2, <1>3, <2>3, <2>4 DEF Serves
  <2> QED BY <2>5, <1>2
<1> QED BY <1>4, <1>5 DEF Accounted, ServedInv

LEMMA AccountStep ==
  ASSUME PairsMatch, CallShape, SheetsShape, LinkInv, TodoInv, Accounted, Next
  PROVE Accounted'
<1>1. CASE \E c \in Callers : Send(c)
  BY <1>1, AccountSends
<1>3. CASE \E c \in Callers : Record(c)
  BY <1>3, AccountRecords
<1>4. CASE \E c \in Callers : Start(c)
  BY <1>4, AccountStarts
<1>5. CASE Disconnect
  BY <1>5, AccountDisconnects
<1>6. CASE Drop
  BY <1>6, AccountDrops
<1>2. CASE /\ ~Disconnect /\ ~Drop
           /\ \A c \in Callers : ~Send(c) /\ ~Record(c) /\ ~Start(c)
  <2>0. /\ link'.book \subseteq link.book
        /\ Subscribed' \ revived' \subseteq Subscribed \ revived
    BY <1>2, PresentShrinks
  <2>b. \A d \in Callers : call'[d].todo = call[d].todo => Unsent(d)' = Unsent(d)
    BY <1>2, SteadyStep DEF Steady, Unsent
  <2>c. ASSUME NEW d \in Callers, call'[d].adds \in {call[d].adds, "none"},
               call'[d].undo \in {call[d].undo, "none"}, call'[d].todo = call[d].todo
        PROVE Stays(d)
    BY <2>b, <2>c DEF Stays
  <2>a. ASSUME active' = active, \A d \in Callers : Stays(d) PROVE Accounted'
    BY <2>0, <2>a, AccountKeeps
  <2>2. ASSUME NEW c \in Callers,
               Register(c) \/ ListOn(c) \/ ListSend(c) \/ ListWait(c) \/ Off(c)
        PROVE Accounted'
    <3>1. active' = active
      BY <2>2 DEF Register, ListOn, ListSend, ListWait, Off
    <3>2. \A d \in Callers : /\ call'[d].adds = call[d].adds /\ call'[d].undo = call[d].undo
                             /\ call'[d].todo = call[d].todo
      BY <2>2, StageMoves DEF Unmoved, Continues
    <3> QED BY <3>1, <3>2, <2>a, <2>c
  <2>3. ASSUME NEW c \in Callers, Over(c), \A d \in Callers \ {c} : Unmoved(d), active' = active
        PROVE Accounted'
    <3>1. Stays(c)
      BY <2>3 DEF Over, Blank, Stays
    <3>2. \A d \in Callers \ {c} : Stays(d)
      BY <2>3, <2>c DEF Unmoved, Continues
    <3> QED BY <3>1, <3>2, <2>3, <2>a
  <2>4. ASSUME NEW c \in Callers, SendFails(c) \/ Return(c) PROVE Accounted'
    <3>1. active' = active
      BY <2>4 DEF SendFails, Return
    <3> QED BY <3>1, <2>3, <2>4, EndMoves
  <2>5. ASSUME NEW c \in Callers, StartList(c) PROVE Accounted'
    <3>1. /\ call'[c].adds = "none" /\ call'[c].undo = "none"
          /\ \A d \in Callers \ {c} : Continues(d) /\ call'[d].undo = call[d].undo
      BY <2>5, StartListMoves
    <3>2. active' = active
      BY <2>5 DEF StartList
    <3>3. Stays(c)
      BY <3>1 DEF Stays
    <3>4. \A d \in Callers \ {c} : Stays(d)
      BY <3>1, <2>c DEF Continues
    <3> QED BY <3>2, <3>3, <3>4, <2>a
  <2>6. ASSUME NEW c \in Callers, OffWrite(c) PROVE Accounted'
    <3>1. active' = active
      BY <2>6 DEF OffWrite
    <3>2. CASE Over(c)
      BY <2>3, <2>6, <3>1, <3>2, OffWriteMoves
    <3>3. CASE ~Over(c)
      <4>1. /\ call[c].pc = "off_write" /\ call'[c].adds = call[c].adds
            /\ call'[c].undo = call[c].undo /\ \A d \in Callers \ {c} : Unmoved(d)
        BY <2>6, <3>3, OffWriteMoves
      <4>2. call[c].adds = "none" /\ call[c].todo = <<>>
        BY <4>1 DEF TodoInv
      <4>3. Stays(c)
        BY <4>1, <4>2 DEF Stays, Unsent
      <4>4. \A d \in Callers \ {c} : Stays(d)
        BY <4>1, <2>c DEF Unmoved, Continues
      <4> QED BY <3>1, <4>3, <4>4, <2>a
    <3> QED BY <3>2, <3>3
  <2>7. CASE Receive
    <3>1. active' = active
      BY <2>7 DEF Receive
    <3>2. \A d \in Callers : /\ call'[d].adds = call[d].adds /\ call'[d].undo = call[d].undo
                             /\ call'[d].todo = call[d].todo
      BY <2>7, ReceiveMoves
    <3> QED BY <3>1, <3>2, <2>a, <2>c
  <2>9. CASE ServerTakes
    <3>1. active' = active
      BY <2>9 DEF ServerTakes
    <3>2. \A d \in Callers : /\ call'[d].adds = call[d].adds /\ call'[d].undo = call[d].undo
                             /\ call'[d].todo = call[d].todo
      BY <2>9, TakesMoves DEF Continues
    <3> QED BY <3>1, <3>2, <2>a, <2>c
  <2>10. CASE UNCHANGED <<call, active>>
    BY <2>10, <2>a, <2>c
  <2> QED
    BY <1>2, <2>2, <2>4, <2>5, <2>6, <2>7, <2>9, <2>10
    DEF Next, CallerStep, LoopStep, LoopWakes, LoopSends, MainStep, SetCallback, RefreshHandlers,
        Ping, PingStart, PingJoin, PingJoinTimeout, PingRun, Connect, Handle, Reopen,
        ServerPushes
<1> QED BY <1>1, <1>2, <1>3, <1>4, <1>5, <1>6

-----------------------------------------------------------------------------
(* What the operations of the service ask for and give up                  *)

LEMMA TopicsOfConcat ==
  ASSUME NEW S, NEW a \in Seq(S), NEW b \in Seq(S)
  PROVE a \o b \in Seq(S) /\ TopicsOf(a \o b) = TopicsOf(a) \union TopicsOf(b)
<1> DEFINE v == a \o b
           m == Len(a)
           n == Len(b)
<1>1. /\ v \in Seq(S) /\ Len(v) = m + n /\ m \in Nat /\ n \in Nat
      /\ \A i \in 1..(m + n) : v[i] = IF i <= m THEN a[i] ELSE b[i - m]
  BY ConcatProperties
<1>2. DOMAIN v = 1..(m + n) /\ DOMAIN a = 1..m /\ DOMAIN b = 1..n
  BY <1>1
<1> HIDE DEF v, m, n
<1>3. ASSUME NEW t, t \in TopicsOf(v) PROVE t \in TopicsOf(a) \union TopicsOf(b)
  <2>1. PICK i \in 1..(m + n) : t \in v[i].topics
    BY <1>2, <1>3 DEF TopicsOf
  <2>2. (i \in 1..m /\ v[i] = a[i]) \/ (i - m \in 1..n /\ v[i] = b[i - m])
    BY <1>1, <2>1
  <2> QED BY <1>2, <2>1, <2>2 DEF TopicsOf
<1>4. ASSUME NEW t, t \in TopicsOf(a) PROVE t \in TopicsOf(v)
  <2>1. PICK i \in 1..m : t \in a[i].topics
    BY <1>2, <1>4 DEF TopicsOf
  <2>2. i \in 1..(m + n) /\ v[i] = a[i]
    BY <1>1, <2>1
  <2> QED BY <1>2, <2>1, <2>2 DEF TopicsOf
<1>5. ASSUME NEW t, t \in TopicsOf(b) PROVE t \in TopicsOf(v)
  <2>1. PICK i \in 1..n : t \in b[i].topics
    BY <1>2, <1>5 DEF TopicsOf
  <2>2. i + m \in 1..(m + n) /\ v[i + m] = b[i]
    BY <1>1, <2>1
  <2> QED BY <1>2, <2>1, <2>2 DEF TopicsOf
<1>6. TopicsOf(v) = TopicsOf(a) \union TopicsOf(b)
  BY <1>3, <1>4, <1>5
<1> QED BY <1>1, <1>6 DEF v

\* The same arguments make a request of either method, or are refused by both.
LEMMA AskEither ==
  ASSUME NEW channel, NEW type, NEW codes, NEW interval
  PROVE \E S : /\ Ask("subscribe", channel, type, codes, interval) \in Seq(S)
               /\ Ask("unsubscribe", channel, type, codes, interval) \in Seq(S)
               /\ S = {Message(m, {Topic(channel, type, c, interval) : c \in codes}) : m \in Methods}
               /\ TopicsOf(Ask("subscribe", channel, type, codes, interval)) =
                    TopicsOf(Ask("unsubscribe", channel, type, codes, interval))
<1> DEFINE T == {Topic(channel, type, c, interval) : c \in codes}
           S == {Message(m, T) : m \in Methods}
           asked == codes # {} /\ \A c \in codes : IsTopic(type, c, interval)
<1>1. \A m : Ask(m, channel, type, codes, interval) = IF asked THEN <<Message(m, T)>> ELSE <<>>
  BY DEF Ask
<1> HIDE DEF asked, T
<1>2. /\ Message("subscribe", T) \in S /\ Message("unsubscribe", T) \in S
      /\ Message("subscribe", T).topics = T /\ Message("unsubscribe", T).topics = T
  BY DEF Message, Methods
<1> HIDE DEF S
<1>3. ASSUME NEW m \in S, m.topics = T PROVE <<m>> \in Seq(S) /\ TopicsOf(<<m>>) = T
  BY <1>3 DEF TopicsOf
<1>4. <<>> \in Seq(S)
  OBVIOUS
<1> QED BY <1>1, <1>2, <1>3, <1>4 DEF S, T

LEMMA AskThreeEither ==
  ASSUME NEW codes, NEW interval
  PROVE TopicsOf(Ask("subscribe", "data", "trade", codes, interval)
                   \o Ask("subscribe", "data", "quote", codes, interval)
                   \o Ask("subscribe", "data", "room", codes, interval)) =
        TopicsOf(Ask("unsubscribe", "data", "trade", codes, interval)
                   \o Ask("unsubscribe", "data", "quote", codes, interval)
                   \o Ask("unsubscribe", "data", "room", codes, interval))
<1> DEFINE A(m, type) == Ask(m, "data", type, codes, interval)
<1>1. ASSUME NEW type
      PROVE \E S : /\ A("subscribe", type) \in Seq(S) /\ A("unsubscribe", type) \in Seq(S)
                   /\ TopicsOf(A("subscribe", type)) = TopicsOf(A("unsubscribe", type))
  BY AskEither
<1> HIDE DEF A
<1>2. PICK S1 : /\ A("subscribe", "trade") \in Seq(S1) /\ A("unsubscribe", "trade") \in Seq(S1)
                /\ TopicsOf(A("subscribe", "trade")) = TopicsOf(A("unsubscribe", "trade"))
  BY <1>1
<1>3. PICK S2 : /\ A("subscribe", "quote") \in Seq(S2) /\ A("unsubscribe", "quote") \in Seq(S2)
                /\ TopicsOf(A("subscribe", "quote")) = TopicsOf(A("unsubscribe", "quote"))
  BY <1>1
<1>4. PICK S3 : /\ A("subscribe", "room") \in Seq(S3) /\ A("unsubscribe", "room") \in Seq(S3)
                /\ TopicsOf(A("subscribe", "room")) = TopicsOf(A("unsubscribe", "room"))
  BY <1>1
<1>5. PICK S : S1 \subseteq S /\ S2 \subseteq S /\ S3 \subseteq S
  <2>1. \E S : S = S1 \union S2 \union S3
    OBVIOUS
  <2> QED BY <2>1
<1>6. ASSUME NEW m \in Methods
      PROVE /\ A(m, "trade") \in Seq(S) /\ A(m, "quote") \in Seq(S) /\ A(m, "room") \in Seq(S)
            /\ TopicsOf(A(m, "trade") \o A(m, "quote") \o A(m, "room")) =
                 TopicsOf(A(m, "trade")) \union TopicsOf(A(m, "quote")) \union TopicsOf(A(m, "room"))
  <2>1. A(m, "trade") \in Seq(S) /\ A(m, "quote") \in Seq(S) /\ A(m, "room") \in Seq(S)
    BY <1>2, <1>3, <1>4, <1>5, <1>6, SeqMonotonic DEF Methods
  <2>2. /\ A(m, "trade") \o A(m, "quote") \in Seq(S)
        /\ TopicsOf(A(m, "trade") \o A(m, "quote")) =
             TopicsOf(A(m, "trade")) \union TopicsOf(A(m, "quote"))
    BY <2>1, TopicsOfConcat
  <2> DEFINE two == A(m, "trade") \o A(m, "quote")
             three == A(m, "room")
  <2>3. two \in Seq(S) /\ three \in Seq(S)
    BY <2>1, <2>2
  <2> HIDE DEF two, three
  <2>4. TopicsOf(two \o three) = TopicsOf(two) \union TopicsOf(three)
    BY <2>3, TopicsOfConcat
  <2> QED BY <2>1, <2>2, <2>4 DEF two, three
<1>7. "subscribe" \in Methods /\ "unsubscribe" \in Methods
  BY DEF Methods
<1>8. TopicsOf(A("subscribe", "trade") \o A("subscribe", "quote") \o A("subscribe", "room")) =
      TopicsOf(A("unsubscribe", "trade") \o A("unsubscribe", "quote") \o A("unsubscribe", "room"))
  BY <1>2, <1>3, <1>4, <1>6, <1>7
<1> QED BY <1>8 DEF A

-----------------------------------------------------------------------------
(* The theorems                                                            *)

LEMMA InitIInv == Init => IInv
<1> SUFFICES ASSUME Init PROVE IInv
  OBVIOUS
<1>1. /\ call = [c \in Callers |-> Idle] /\ \A c \in Callers : call[c] = Idle
      /\ wire = <<>> /\ back = <<>> /\ server = {} /\ ~Up
      /\ link = [state |-> "down", book |-> {}, drops |-> 0]
  BY DEF Init, Up
<1>2. CallShape /\ \A c \in Callers : ~Listing(c)
  BY <1>1, IdleIsCall DEF CallShape, Listing
<1>3. SheetsShape /\ LinkInv /\ SpellInv /\ BackInv
  <2>1. <<>> \in Seq(Sheets) /\ DOMAIN <<>> = {}
    OBVIOUS
  <2> QED BY <1>1, <2>1 DEF SheetsShape, LinkInv, SpellInv, BackInv
<1>4. RestShape
  BY DEF Init, RestShape
<1>5. TableInv /\ OwedInv
  BY DEF Init, TableInv, OwedInv, Wants
<1>6. LoopInv
  BY DEF Init, LoopInv
<1>7. AnswerInv /\ TodoInv
  <2>1. DOMAIN <<>> = {}
    OBVIOUS
  <2> QED BY <1>1, <1>2, <2>1, IdleIsCall DEF AnswerInv, TodoInv
<1>8. BeforeInv
  <2>1. \A c \in Callers : SeenOf(c)
    BY <1>1, <1>2, IdleIsCall DEF SeenOf
  <2> QED
    BY <1>1, <2>1, IdleIsCall DEF BeforeInv, BookInv, RecordInv, ScopeInv, SeenInv, SeenOf
<1> QED BY <1>2, <1>3, <1>4, <1>5, <1>6, <1>7, <1>8 DEF IInv, Shape

LEMMA StutterIInv == IInv /\ UNCHANGED vars => IInv'
<1> SUFFICES ASSUME IInv, UNCHANGED vars PROVE IInv'
  OBVIOUS
<1> USE DEF vars
<1>1. Shape'
  BY DEF IInv, Shape, CallShape, IsCall, SheetsShape, RestShape
<1>2. LinkInv' /\ SpellInv' /\ BackInv' /\ TableInv' /\ OwedInv' /\ LoopInv'
  BY DEF IInv, LinkInv, SpellInv, BackInv, TableInv, OwedInv, LoopInv, Up
<1>3. AnswerInv' /\ TodoInv'
  BY DEF IInv, AnswerInv, TodoInv, Listing, Id
<1>4. /\ Subscribed' = Subscribed /\ Present' = Present /\ Kept' = Kept
      /\ Recording("subscribe")' = Recording("subscribe")
  <2>1. \A d \in Callers : Steady(d)
    BY DEF Steady
  <2>2. \A method : Recording(method)' = Recording(method)
    BY <2>1, RecordingSame
  <2> QED BY <2>2, SubscribedSame DEF Present, Kept
<1>5. BookInv' /\ RecordInv' /\ ScopeInv'
  BY <1>4 DEF IInv, BeforeInv, BookInv, RecordInv, ScopeInv, Up
<1>6. SeenInv'
  <2>1. \A c \in Callers : WireSeen(c)' = WireSeen(c) /\ BackSeen(c)' = BackSeen(c)
                           /\ Listing(c)' = Listing(c) /\ Unsent(c)' = Unsent(c)
    BY <1>4 DEF WireSeen, BackSeen, Listing, Unsent
  <2> QED BY <1>4, <2>1 DEF IInv, BeforeInv, SeenInv
<1> QED BY <1>1, <1>2, <1>3, <1>5, <1>6 DEF IInv, BeforeInv

LEMMA NextIInv == IInv /\ Next => IInv'
<1> SUFFICES ASSUME IInv, Next PROVE IInv'
  OBVIOUS
<1>1. /\ CallShape /\ SheetsShape /\ RestShape /\ LinkInv /\ BackInv /\ TableInv /\ OwedInv
      /\ LoopInv /\ AnswerInv /\ TodoInv /\ SpellInv
      /\ BookInv /\ RecordInv /\ ScopeInv /\ SeenInv
  BY DEF IInv, Shape, BeforeInv
<1>2. Shape' /\ LinkInv' /\ SpellInv' /\ BackInv'
  BY <1>1, CallShapeStep, SheetsShapeStep, SpellStep, RestShapeStep DEF Shape
<1>3. TableInv' /\ OwedInv' /\ LoopInv'
  BY <1>1, TableStep, OwedStep, LoopStepInv
<1>4. AnswerInv' /\ TodoInv'
  BY <1>1, AnswerStep, TodoStep
<1>5. BeforeInv'
  BY <1>1, BookStep, RecordStep, ScopeStep, SeenStep DEF BeforeInv
<1> QED BY <1>2, <1>3, <1>4, <1>5 DEF IInv

LEMMA AlwaysIInv == Spec => []IInv
<1>1. IInv /\ [Next]_vars => IInv'
  BY NextIInv, StutterIInv
<1> QED BY <1>1, InitIInv, PTL DEF Spec

\* The reader runs a frame's callbacks one after the other while the application
\* sets others: each of those that wanted it when it came, and still does, is run.
THEOREM EveryoneHears == Spec => []HeardByAll
<1>1. IInv => HeardByAll
  BY DEF IInv, OwedInv, HeardByAll
<1> QED BY <1>1, AlwaysIInv, PTL

\* However often ping(interval) is called, and disconnect() and connect() after
\* it, one loop pings at most, and once more at most after disconnect(), as long
\* as every join() returned because its loop had ended.
THEOREM OneLoopOnly == Spec => []OnePingLoop
<1>1. IInv => OnePingLoop
  BY OneLoop DEF IInv, Shape
<1> QED BY <1>1, AlwaysIInv, PTL

\* list_subscription returns the answer to its own request, although an answer
\* names no request and whoever holds the route gets it, if no answer of another
\* call was due when it began and no other call listed meanwhile.
THEOREM ListsAreOwn == Spec => []ListAnswersItsOwn
<1>1. IInv => ListAnswersItsOwn
  BY DEF IInv, AnswerInv, ListAnswersItsOwn
<1> QED BY <1>1, AlwaysIInv, PTL

\* unsubscribe_all asks what is subscribed and gives that up, in two requests of
\* several threads' traffic: when it returns, nothing the server had accepted
\* when it began is left, but for what was asked for again, and for what a lost
\* connection brings back: a request that was sent and not recorded yet, and
\* market.flag, which the book holds in another spelling than the list.
THEOREM AllIsGivenUp == Spec => []AllGivenUp
<1>1. ASSUME IInv PROVE AllGivenUp
  <2>1. SUFFICES ASSUME NEW c \in Callers, At(c, "returned"), ~call[c].muddled
                 PROVE Subscribed \intersect call[c].before \subseteq revived
    BY DEF AllGivenUp
  <2>2. call[c].pc = "returned" /\ call[c].todo = <<>>
    BY <1>1, <2>1 DEF IInv, TodoInv, At
  <2>3. Present \intersect call[c].before \subseteq Named(TopicsOf(<<>>))
    BY <1>1, <2>1, <2>2 DEF IInv, BeforeInv, SeenInv, Unsent
  <2>4. Named(TopicsOf(<<>>)) = {}
    BY DEF TopicsOf, Named
  <2> QED BY <2>3, <2>4 DEF Present
<1> QED BY <1>1, AlwaysIInv, PTL

\* Whatever the interleaving of the calls of several threads, with connections
\* lost and restored in between: once every subscription asked for was given up,
\* by the operation that undoes it, the book holds no topic, and the server none
\* but what a connection lost between a request and its record restored.
THEOREM NothingIsLeft ==
  ASSUME PairsMatch
  PROVE Spec => []NothingLeft
<1>1. Init => Accounted
  <2> SUFFICES ASSUME Init PROVE Accounted
    OBVIOUS
  <2>1. /\ active = {} /\ link.book = {} /\ Subscribed = {}
        /\ \A c \in Callers : call[c].adds = "none" /\ call[c].undo = "none"
    BY IdleIsCall, NamedTopics DEF Init, Subscribed, Up
  <2> QED BY <2>1 DEF Accounted, HeldInv, ServedInv, UndoInv
<1>2. ASSUME IInv, Accounted, [Next]_vars PROVE Accounted'
  <2>1. CASE Next
    BY <1>2, <2>1, AccountStep DEF IInv, Shape
  <2>2. CASE UNCHANGED vars
    <3>1. /\ Subscribed' = Subscribed /\ UNCHANGED <<link, call, active, revived>>
          /\ \A d \in Callers : Unsent(d)' = Unsent(d)
      BY <2>2, SubscribedSame DEF vars, Unsent
    <3>2. \A name, t : /\ Holds(name, t) => Holds(name, t)'
                       /\ Serves(name, t) => Serves(name, t)'
      BY <3>1 DEF Holds, Serves
    <3> QED BY <3>1, <3>2, <1>2 DEF Accounted, HeldInv, ServedInv, UndoInv
  <2> QED BY <1>2, <2>1, <2>2
<1>3. ASSUME Accounted PROVE NothingLeft
  <2>1. SUFFICES ASSUME active = {} PROVE link.book = {} /\ Subscribed \subseteq revived
    BY DEF NothingLeft
  <2> QED BY <1>3, <2>1 DEF Accounted, HeldInv, ServedInv
<1>4. IInv /\ Accounted /\ [Next]_vars => Accounted'
  BY <1>2
<1> QED BY <1>1, <1>3, <1>4, AlwaysIInv, PTL DEF Spec

\* Each operation is undone by its counterpart, whatever its arguments: what
\* unsubscribe_x gives up is what subscribe_x asked for, so that the pairs of the
\* service meet the hypothesis of NothingIsLeft.
THEOREM EachIsUndone ==
  ASSUME NEW codes, NEW interval, NEW account
  PROVE /\ TopicsOf(SubscribeSymbolOHLCV(codes, interval)) =
             TopicsOf(UnsubscribeSymbolOHLCV(codes, interval))
        /\ TopicsOf(SubscribeSymbolTrade(codes)) = TopicsOf(UnsubscribeSymbolTrade(codes))
        /\ TopicsOf(SubscribeSymbolQuote(codes)) = TopicsOf(UnsubscribeSymbolQuote(codes))
        /\ TopicsOf(SubscribeSymbolRoom(codes)) = TopicsOf(UnsubscribeSymbolRoom(codes))
        /\ TopicsOf(SubscribePutThrough(codes)) = TopicsOf(UnsubscribePutThrough(codes))
        /\ TopicsOf(SubscribeOddLot(codes)) = TopicsOf(UnsubscribeOddLot(codes))
        /\ TopicsOf(SubscribeSymbol(codes)) = TopicsOf(UnsubscribeSymbol(codes))
        /\ TopicsOf(SubscribeBoard(codes)) = TopicsOf(UnsubscribeBoard(codes))
        /\ TopicsOf(SubscribeIndex(codes)) = TopicsOf(UnsubscribeIndex(codes))
        /\ TopicsOf(SubscribeMarket(codes)) = TopicsOf(UnsubscribeMarket(codes))
        /\ TopicsOf(SubscribeIndexSummary(codes)) = TopicsOf(UnsubscribeIndexSummary(codes))
        /\ TopicsOf(SubscribeIndexTrade(codes, interval)) =
             TopicsOf(UnsubscribeIndexTrade(codes, interval))
        /\ TopicsOf(SubscribeOrderStatus(account)) = TopicsOf(UnsubscribeOrderStatus(account))
        /\ TopicsOf(SubscribePortfolio(account)) = TopicsOf(UnsubscribePortfolio(account))
        /\ TopicsOf(SubscribeMarketFlag) = TopicsOf(UnsubscribeMarketFlag)
<1>1. \A channel, type, some, i :
        TopicsOf(Ask("subscribe", channel, type, some, i)) =
          TopicsOf(Ask("unsubscribe", channel, type, some, i))
  BY AskEither
<1>2. /\ TopicsOf(SubscribeSymbolOHLCV(codes, interval)) =
           TopicsOf(UnsubscribeSymbolOHLCV(codes, interval))
      /\ TopicsOf(SubscribeIndexTrade(codes, interval)) =
           TopicsOf(UnsubscribeIndexTrade(codes, interval))
  BY <1>1 DEF SubscribeSymbolOHLCV, UnsubscribeSymbolOHLCV, SubscribeIndexTrade,
              UnsubscribeIndexTrade
<1>3. /\ TopicsOf(SubscribeSymbolTrade(codes)) = TopicsOf(UnsubscribeSymbolTrade(codes))
      /\ TopicsOf(SubscribeSymbolQuote(codes)) = TopicsOf(UnsubscribeSymbolQuote(codes))
      /\ TopicsOf(SubscribeSymbolRoom(codes)) = TopicsOf(UnsubscribeSymbolRoom(codes))
      /\ TopicsOf(SubscribePutThrough(codes)) = TopicsOf(UnsubscribePutThrough(codes))
      /\ TopicsOf(SubscribeOddLot(codes)) = TopicsOf(UnsubscribeOddLot(codes))
      /\ TopicsOf(SubscribeMarket(codes)) = TopicsOf(UnsubscribeMarket(codes))
      /\ TopicsOf(SubscribeIndexSummary(codes)) = TopicsOf(UnsubscribeIndexSummary(codes))
  BY <1>1
  DEF Data, SubscribeSymbolTrade, UnsubscribeSymbolTrade, SubscribeSymbolQuote,
      UnsubscribeSymbolQuote, SubscribeSymbolRoom, UnsubscribeSymbolRoom, SubscribePutThrough,
      UnsubscribePutThrough, SubscribeOddLot, UnsubscribeOddLot, SubscribeMarket,
      UnsubscribeMarket, SubscribeIndexSummary, UnsubscribeIndexSummary
<1>4. /\ TopicsOf(SubscribeOrderStatus(account)) = TopicsOf(UnsubscribeOrderStatus(account))
      /\ TopicsOf(SubscribePortfolio(account)) = TopicsOf(UnsubscribePortfolio(account))
  BY <1>1 DEF Trading, SubscribeOrderStatus, UnsubscribeOrderStatus, SubscribePortfolio,
              UnsubscribePortfolio
<1>5. TopicsOf(SubscribeSymbol(codes)) = TopicsOf(UnsubscribeSymbol(codes))
  BY AskThreeEither
  DEF Data, SubscribeSymbol, UnsubscribeSymbol, SubscribeSymbolTrade, UnsubscribeSymbolTrade,
      SubscribeSymbolQuote, UnsubscribeSymbolQuote, SubscribeSymbolRoom, UnsubscribeSymbolRoom
<1>6. /\ TopicsOf(SubscribeBoard(codes)) = TopicsOf(UnsubscribeBoard(codes))
      /\ TopicsOf(SubscribeIndex(codes)) = TopicsOf(UnsubscribeIndex(codes))
  BY AskThreeEither DEF Group, SubscribeBoard, UnsubscribeBoard, SubscribeIndex, UnsubscribeIndex
<1>7. TopicsOf(SubscribeMarketFlag) = TopicsOf(UnsubscribeMarketFlag)
  <2>1. \A m : TopicsOf(<<Message(m, {FlagTopic})>>) = {FlagTopic}
    <3> TAKE m
    <3> DEFINE r == Message(m, {FlagTopic})
    <3>1. r.topics = {FlagTopic}
      BY DEF Message
    <3> HIDE DEF r
    <3>2. TopicsOf(<<r>>) = r.topics
      BY DEF TopicsOf
    <3> QED BY <3>1, <3>2 DEF r
  <2> QED BY <2>1 DEF SubscribeMarketFlag, UnsubscribeMarketFlag
<1> QED BY <1>2, <1>3, <1>4, <1>5, <1>6, <1>7

-----------------------------------------------------------------------------
(* The types                                                               *)

\* What the types need beyond IInv: the requests of a call and those on their way
\* are each of one channel, a route has one handler at most, also where off()
\* writes one back, and the callbacks and the lost connections are in bounds.
Handlers == {<<>>} \union {<<h>> : h \in Callers \X Nat}
OwnInv ==
  \A c \in Callers : /\ \A i \in DOMAIN call[c].todo : OneChannel(call[c].todo[i].topics)
                     /\ call[c].kept \in Handlers
WireInv ==
  \A i \in DOMAIN wire :
    wire[i].kind \in {"subscribe", "unsubscribe"} => OneChannel(wire[i].topics)
RouteInv == \A r \in DOMAIN table : table[r] \in Handlers
BoundsInv == callback \subseteq Settable /\ link.drops \in 0..MaxDrops
Typed == OwnInv /\ WireInv /\ RouteInv /\ BoundsInv

OwnOf(c) == /\ \A i \in DOMAIN call[c].todo : OneChannel(call[c].todo[i].topics)
            /\ call[c].kept \in Handlers

LEMMA HandlerTypes ==
  /\ <<>> \in Handlers /\ <<Nobody>> \in Handlers
  /\ \A h \in Handlers : Len(h) <= 1 /\ Range(h) \subseteq Callers \X Nat
<1>1. Nobody \in Callers \X Nat
  BY IdleIsCall
<1>2. ASSUME NEW h \in Handlers PROVE Len(h) <= 1 /\ Range(h) \subseteq Callers \X Nat
  <2>1. CASE h = <<>>
    BY <2>1 DEF Range
  <2>2. ASSUME NEW g \in Callers \X Nat, h = <<g>>
        PROVE  Len(h) <= 1 /\ Range(h) \subseteq Callers \X Nat
    BY <2>2 DEF Range
  <2> QED BY <2>1, <2>2 DEF Handlers
<1> QED BY <1>1, <1>2 DEF Handlers

\* One channel of what was listed has one channel.
LEMMA ListedChannels ==
  ASSUME NEW L \in SUBSET Topics
  PROVE  \A i \in DOMAIN UnsubscribeListed(L) : OneChannel(UnsubscribeListed(L)[i].topics)
<1>1. ASSUME NEW channel, OfChannel(L, channel) # {} PROVE OneChannel(OfChannel(L, channel))
  <2>1. {t.channel : t \in OfChannel(L, channel)} = {channel}
    BY <1>1 DEF OfChannel
  <2> QED BY <2>1, FS_Singleton DEF OneChannel
<1> DEFINE D == OfChannel(L, "data")
           T == OfChannel(L, "trading")
           MD == Message("unsubscribe", D)
           MT == Message("unsubscribe", T)
<1>2. /\ MD.topics = D /\ MT.topics = T
      /\ (D # {} => OneChannel(D)) /\ (T # {} => OneChannel(T))
  BY <1>1 DEF Message
<1>3. UnsubscribeListed(L) = (IF D = {} THEN <<>> ELSE <<MD>>) \o (IF T = {} THEN <<>> ELSE <<MT>>)
  BY DEF UnsubscribeListed
<1> DEFINE v == UnsubscribeListed(L)
<1> HIDE DEF D, T, MD, MT, v
<1>4. CASE D = {} /\ T = {}
  <2>1. v = <<>>
    BY <1>3, <1>4 DEF v
  <2> QED BY <2>1 DEF v
<1>5. CASE D # {} /\ T = {}
  <2>1. v = <<MD>>
    BY <1>3, <1>5 DEF v
  <2> QED BY <2>1, <1>2, <1>5 DEF v
<1>6. CASE D = {} /\ T # {}
  <2>1. v = <<MT>>
    BY <1>3, <1>6 DEF v
  <2> QED BY <2>1, <1>2, <1>6 DEF v
<1>7. CASE D # {} /\ T # {}
  <2>1. v = <<MD>> \o <<MT>>
    BY <1>3, <1>7 DEF v
  <2>2. DOMAIN v = 1..2 /\ v[1] = MD /\ v[2] = MT
    BY <2>1
  <2> QED BY <2>2, <1>2, <1>7 DEF v
<1> QED BY <1>4, <1>5, <1>6, <1>7 DEF v

\* A call keeps its requests and what it will write back, or it is over.
Same(d) == call'[d].todo = call[d].todo /\ call'[d].kept = call[d].kept

LEMMA OwnStep ==
  ASSUME CallShape, SheetsShape, TodoInv, OwnInv, RouteInv, RestShape, Next
  PROVE OwnInv'
<1>0. /\ \A c \in Callers : OwnOf(c) /\ IsCall(call[c])
      /\ (\A c \in Callers : OwnOf(c)') => OwnInv'
      /\ call = [c \in Callers |-> call[c]]
  BY DEF OwnInv, OwnOf, CallShape
<1>a. \A d \in Callers : Same(d) => OwnOf(d)'
  BY <1>0 DEF OwnOf, Same
<1>b. /\ \A d \in Callers : \A x : call'[d] = [call[d] EXCEPT !.undo = x] => Same(d)
      /\ \A d \in Callers : \A x : call'[d] = [call[d] EXCEPT !.before = x] => Same(d)
      /\ \A d \in Callers : \A x : call'[d] = [call[d] EXCEPT !.muddled = x] => Same(d)
      /\ \A d \in Callers : \A p : call'[d] = [call[d] EXCEPT !.pc = p] => Same(d)
      /\ \A d \in Callers : \A p, x : call'[d] = [call[d] EXCEPT !.pc = p, !.arrived = x] => Same(d)
      /\ \A d \in Callers : call'[d] = call[d] => Same(d)
  BY <1>0 DEF Same, IsCall
<1>c. /\ Idle.kept = <<>> /\ DOMAIN Idle = {"pc", "todo", "ack", "n", "undo", "adds", "all",
            "arrived", "from", "listed", "kept", "before", "muddled"}
  BY DEF Idle
<1>d. \A d \in Callers : \A n : call'[d] = [Idle EXCEPT !.n = n] => OwnOf(d)'
  <2> TAKE d \in Callers
  <2> TAKE n
  <2> SUFFICES ASSUME call'[d] = [Idle EXCEPT !.n = n] PROVE OwnOf(d)'
    OBVIOUS
  <2>1. call'[d].todo = <<>> /\ call'[d].kept = <<>>
    BY <1>c, IdleIsCall
  <2> QED BY <2>1, HandlerTypes DEF OwnOf
<1>1. ASSUME NEW c \in Callers, Start(c) PROVE OwnInv'
  <2>1. PICK op \in Menu[c], ack \in BOOLEAN :
          LET adds    == op.method = "subscribe"
              clashes == \E d \in Callers \ {c} : call[d].adds = op.pair
          IN call' = [d \in Callers |->
               IF d = c
               THEN [Idle EXCEPT !.pc = IF ack THEN "on" ELSE "send", !.n = call[c].n + 1,
                                 !.todo = op.requests, !.ack = ack,
                                 !.adds = IF adds THEN op.pair ELSE "none",
                                 !.undo = IF adds \/ clashes THEN "none" ELSE op.pair]
               ELSE IF adds /\ call[d].undo = op.pair
                    THEN [call[d] EXCEPT !.undo = "none"] ELSE call[d]]
    BY <1>1 DEF Start
  <2>2. \A d \in Callers \ {c} : Same(d)
    BY <2>1, <1>b
  <2>3. call'[c].todo = op.requests /\ call'[c].kept = <<>>
    <3> DEFINE p == IF ack THEN "on" ELSE "send"
               n == call[c].n + 1
               a == IF op.method = "subscribe" THEN op.pair ELSE "none"
               u == IF \/ op.method = "subscribe"
                       \/ \E d \in Callers \ {c} : call[d].adds = op.pair
                    THEN "none" ELSE op.pair
    <3>1. call'[c] = [Idle EXCEPT !.pc = p, !.n = n, !.todo = op.requests, !.ack = ack,
                                  !.adds = a, !.undo = u]
      BY <2>1
    <3> HIDE DEF p, n, a, u
    <3> QED BY <3>1, <1>c
  <2>4. OwnOf(c)'
    BY <2>3, ChannelsAssumption, HandlerTypes DEF OwnOf
  <2> QED BY <2>2, <2>4, <1>0, <1>a
<1>2. ASSUME NEW c \in Callers, Register(c) \/ ListOn(c) \/ ListSend(c) \/ ListWait(c)
      PROVE OwnInv'
  <2>1. \A d \in Callers \ {c} : Same(d)
    BY <1>0, <1>2, <1>b DEF Register, ListOn, ListSend, ListWait
  <2>2. \/ call'[c] = [call[c] EXCEPT !.pc = "send"]
        \/ call'[c] = [call[c] EXCEPT !.pc = "list_send"]
        \/ call'[c] = [call[c] EXCEPT !.pc = "list_wait"]
        \/ call'[c] = [call[c] EXCEPT !.pc = "off", !.arrived = FALSE]
        \/ call'[c] = [call[c] EXCEPT !.pc = "off", !.arrived = call[c].arrived]
    BY <1>0, <1>2 DEF Register, ListOn, ListSend, ListWait, Arrived
  <2>3. Same(c)
    BY <2>2, <1>b
  <2> QED BY <2>1, <2>3, <1>0, <1>a
<1>3. ASSUME NEW c \in Callers, Off(c) PROVE OwnInv'
  <2> DEFINE k == OfOthers(table["list"], Id(c))
  <2>1. call' = [call EXCEPT ![c].pc = "off_write", ![c].kept = k]
    BY <1>3 DEF Off
  <2>2. k \in Handlers
    <3>1. table["list"] \in Handlers
      BY DEF RouteInv, RestShape
    <3> QED BY <3>1, HandlerTypes DEF OfOthers
  <2> HIDE DEF k
  <2>3. \A d \in Callers \ {c} : Same(d)
    BY <2>1, <1>0 DEF Same
  <2>4. call'[c] = [call[c] EXCEPT !.pc = "off_write", !.kept = k]
    BY <2>1, <1>0
  <2>5. call'[c].todo = call[c].todo /\ call'[c].kept = k
    BY <2>4, <1>0 DEF IsCall
  <2>6. OwnOf(c)'
    BY <2>2, <2>5, <1>0 DEF OwnOf
  <2> QED BY <2>3, <2>6, <1>0, <1>a
<1>4. ASSUME NEW c \in Callers, Record(c) PROVE OwnInv'
  <2> DEFINE rest == Tail(call[c].todo)
             a == IF rest = <<>> THEN "none" ELSE call[c].adds
             p == IF rest # <<>> THEN (IF call[c].ack THEN "on" ELSE "send")
                  ELSE IF call[c].all THEN "returned" ELSE "idle"
  <2>1. /\ call[c].pc = "record"
        /\ call'[c] = [call[c] EXCEPT !.todo = rest, !.adds = a, !.pc = p]
        /\ \A d \in Callers \ {c} : call'[d] = call[d]
    BY <1>4, <1>0 DEF Record, At
  <2>2. call[c].todo \in Seq(Requests) /\ call[c].todo # <<>>
    BY <1>0, <2>1 DEF TodoInv, IsCall
  <2>3. \A i \in DOMAIN rest : i + 1 \in DOMAIN call[c].todo /\ rest[i] = call[c].todo[i + 1]
    BY <2>2
  <2> HIDE DEF rest, a, p
  <2>4. call'[c].todo = rest /\ call'[c].kept = call[c].kept
    BY <2>1, <1>0 DEF IsCall
  <2>5. OwnOf(c)'
    BY <2>3, <2>4, <1>0 DEF OwnOf
  <2>6. \A d \in Callers \ {c} : Same(d)
    BY <2>1, <1>b
  <2> QED BY <2>5, <2>6, <1>0, <1>a
<1>12. ASSUME NEW c \in Callers, Send(c) PROVE OwnInv'
  <2>1. /\ call'[c] = [call[c] EXCEPT !.pc = "record"]
        /\ \A d \in Callers \ {c} :
             call'[d] = [call[d] EXCEPT !.before = Asked(c, d, Head(call[c].todo))]
    BY <1>12 DEF Send
  <2>2. \A d \in Callers : Same(d)
    BY <2>1, <1>b
  <2> QED BY <2>2, <1>0, <1>a
<1>5. ASSUME NEW c \in Callers, SendFails(c) \/ Return(c) PROVE OwnInv'
  <2>1. /\ call'[c] = [Idle EXCEPT !.n = call[c].n]
        /\ \A d \in Callers \ {c} : call'[d] = call[d]
    BY <1>5, <1>0 DEF SendFails, Return
  <2> QED BY <2>1, <1>0, <1>a, <1>b, <1>d
<1>6. ASSUME NEW c \in Callers, StartList(c) PROVE OwnInv'
  <2> DEFINE x == Unanswered \/ \E d \in Callers \ {c} : Listing(d)
  <2>1. PICK all \in BOOLEAN :
          call' = [d \in Callers |->
            IF d = c
            THEN [Idle EXCEPT !.pc = "list_on", !.n = call[c].n + 1, !.all = all,
                              !.before = IF all THEN Subscribed \ Recording("subscribe")
                                         ELSE {},
                              !.muddled = x]
            ELSE IF Listing(d) THEN [call[d] EXCEPT !.muddled = TRUE] ELSE call[d]]
    BY <1>6 DEF StartList
  <2> DEFINE b == IF all THEN Subscribed \ Recording("subscribe") ELSE {}
             n == call[c].n + 1
  <2>2. /\ call'[c] = [Idle EXCEPT !.pc = "list_on", !.n = n, !.all = all, !.before = b,
                                   !.muddled = x]
        /\ \A d \in Callers \ {c} :
             call'[d] = IF Listing(d) THEN [call[d] EXCEPT !.muddled = TRUE] ELSE call[d]
    BY <2>1
  <2> HIDE DEF b, n, x
  <2>3. \A d \in Callers \ {c} : Same(d)
    BY <2>2, <1>b
  <2>4. call'[c].todo = <<>> /\ call'[c].kept = <<>>
    BY <2>2, <1>c, IdleIsCall
  <2>5. OwnOf(c)'
    BY <2>4, HandlerTypes DEF OwnOf
  <2> QED BY <2>3, <2>5, <1>0, <1>a
<1>7. ASSUME NEW c \in Callers, OffWrite(c) PROVE OwnInv'
  <2> DEFINE requests == IF call[c].all THEN UnsubscribeListed(call[c].listed) ELSE <<>>
             p == IF requests # <<>> THEN "send" ELSE "returned"
  <2>1. /\ call'[c] = IF ~call[c].arrived THEN [Idle EXCEPT !.n = call[c].n]
                      ELSE [call[c] EXCEPT !.todo = requests, !.kept = <<>>, !.listed = {},
                                           !.pc = p]
        /\ \A d \in Callers \ {c} : call'[d] = call[d]
    BY <1>7, <1>0 DEF OffWrite
  <2>2. \A i \in DOMAIN requests : OneChannel(requests[i].topics)
    <3>1. call[c].listed \in SUBSET Topics
      BY <1>0 DEF IsCall
    <3>2. DOMAIN <<>> = {}
      OBVIOUS
    <3> QED BY <3>1, <3>2, ListedChannels
  <2>3. CASE ~call[c].arrived
    BY <2>1, <2>3, <1>0, <1>a, <1>b, <1>d
  <2>4. CASE call[c].arrived
    <3> HIDE DEF requests, p
    <3>1. call'[c].todo = requests /\ call'[c].kept = <<>>
      BY <2>1, <2>4, <1>0 DEF IsCall
    <3>2. OwnOf(c)'
      BY <2>2, <3>1, HandlerTypes DEF OwnOf
    <3> QED BY <2>1, <3>2, <1>0, <1>a, <1>b
  <2> QED BY <2>3, <2>4
<1>8. CASE Receive
  <2>1. ASSUME NEW d \in Callers PROVE Same(d)
    <3>1. \/ call'[d] = call[d]
          \/ \E L, by, x :
               call'[d] = [call[d] EXCEPT !.listed = L, !.from = by, !.arrived = x]
      BY <1>8 DEF Receive, Answer
    <3> QED BY <3>1, <1>0 DEF Same, IsCall
  <2> QED BY <2>1, <1>0, <1>a
<1>9. CASE Disconnect
  <2>1. \A d \in Callers : call'[d] = [call[d] EXCEPT !.undo = "none"]
    BY <1>9 DEF Disconnect
  <2> QED BY <2>1, <1>0, <1>a, <1>b
<1>10. CASE ServerTakes
  <2>1. \/ UNCHANGED call
        \/ \A d \in Callers : call'[d] = [call[d] EXCEPT !.before = @ \ Head(wire).topics]
    BY <1>10 DEF ServerTakes
  <2>2. \A d \in Callers : Same(d)
    BY <2>1, <1>b
  <2> QED BY <2>2, <1>0, <1>a
<1>11. CASE UNCHANGED call
  BY <1>11, <1>0, <1>a, <1>b
<1> QED
  BY <1>1, <1>2, <1>3, <1>4, <1>5, <1>6, <1>7, <1>8, <1>9, <1>10, <1>11,
     <1>12
  DEF Next, CallerStep, LoopStep, LoopWakes, LoopSends, MainStep, SetCallback, RefreshHandlers,
      Ping, PingStart, PingJoin, PingJoinTimeout, PingRun, Connect, Handle, Drop, Reopen,
      ServerPushes

\* A frame more, one less, or none.
LEMMA WireStep ==
  ASSUME CallShape, SheetsShape, TodoInv, OwnInv, WireInv, Next
  PROVE WireInv'
<1> DEFINE Fine(f) == f.kind \in {"subscribe", "unsubscribe"} => OneChannel(f.topics)
<1>0. wire \in Seq(Sheets) /\ \A i \in DOMAIN wire : Fine(wire[i])
  BY DEF SheetsShape, WireInv
<1>1. ASSUME NEW f \in Sheets, Fine(f), wire' = Append(wire, f) PROVE WireInv'
  <2>1. \A i \in DOMAIN wire' : i = Len(wire) + 1 \/ (i \in DOMAIN wire /\ wire'[i] = wire[i])
    BY <1>0, <1>1, SeqRules
  <2>2. wire'[Len(wire) + 1] = f
    BY <1>0, <1>1, SeqRules
  <2>3. \A i \in DOMAIN wire' : Fine(wire'[i])
    BY <1>0, <1>1, <2>1, <2>2
  <2> QED BY <2>3 DEF WireInv
<1>2. ASSUME wire # <<>>, wire' = Tail(wire) PROVE WireInv'
  <2>1. \A i \in DOMAIN wire' : i + 1 \in DOMAIN wire /\ wire'[i] = wire[i + 1]
    BY <1>0, <1>2, SeqRules
  <2>2. \A i \in DOMAIN wire' : Fine(wire'[i])
    BY <1>0, <2>1
  <2> QED BY <2>2 DEF WireInv
<1>3. ASSUME wire' = <<>> PROVE WireInv'
  BY <1>3 DEF WireInv
<1>4. ASSUME UNCHANGED wire PROVE WireInv'
  BY <1>4 DEF WireInv
<1>5. ASSUME NEW c \in Callers, Send(c) PROVE WireInv'
  <2>1. PICK f \in Sheets :
          /\ call[c].todo # <<>> /\ f.topics = Named(Head(call[c].todo).topics)
          /\ wire' = Append(wire, f)
    BY <1>5, SendSheet
  <2>2. call[c].todo \in Seq(Requests)
    BY DEF CallShape, IsCall
  <2>3. Head(call[c].todo) = call[c].todo[1] /\ 1 \in DOMAIN call[c].todo
    BY <2>1, <2>2
  <2>4. OneChannel(f.topics)
    <3> DEFINE T == Head(call[c].todo).topics
    <3>1. OneChannel(T) /\ T \in SUBSET Topics
      <4>1. call[c].todo[1] \in Requests
        BY <2>1, <2>2, <2>3
      <4>2. OneChannel(call[c].todo[1].topics)
        BY <2>3 DEF OwnInv
      <4>3. call[c].todo[1].topics \in SUBSET Topics
        BY <4>1 DEF Requests
      <4> QED BY <4>2, <4>3, <2>3
    <3> HIDE DEF T
    <3>2. {t.channel : t \in Named(T)} = {t.channel : t \in T}
      BY <3>1, Spelling DEF Named
    <3> QED BY <2>1, <3>1, <3>2 DEF OneChannel, T
  <2> QED BY <2>1, <2>4, <1>1
<1>6. ASSUME NEW c \in Callers, ListSend(c) PROVE WireInv'
  <2>1. CASE wire' = Append(wire, Frame("list", Id(c), "none", {}))
    <3>1. /\ Frame("list", Id(c), "none", {}) \in Sheets
          /\ Frame("list", Id(c), "none", {}).kind = "list"
      <4>1. Id(c) \in Callers \X Nat /\ "list" \in Kinds /\ {} \in SUBSET Topics
        BY DEF Id, CallShape, IsCall, Kinds
      <4> QED BY <4>1, FrameIsSheet
    <3> QED BY <2>1, <3>1, <1>1
  <2> QED BY <1>6, <2>1, <1>4 DEF ListSend
<1>7. CASE Ping
  <2>1. /\ Frame("ping", Nobody, "heartbeat", {}) \in Sheets
        /\ Frame("ping", Nobody, "heartbeat", {}).kind = "ping"
    <3>1. Nobody \in Callers \X Nat /\ "ping" \in Kinds /\ {} \in SUBSET Topics
      BY IdleIsCall DEF Kinds
    <3> QED BY <3>1, FrameIsSheet
  <2> QED BY <1>7, <2>1, <1>1 DEF Ping
<1>8. CASE Disconnect \/ Drop
  BY <1>8, <1>3 DEF Disconnect, Drop
<1>9. CASE ServerTakes
  BY <1>9, <1>2 DEF ServerTakes
<1> HIDE DEF Fine
<1> QED
  BY <1>4, <1>5, <1>6, <1>7, <1>8, <1>9
  DEF Next, CallerStep, Start, Register, Record, SendFails, StartList, ListOn, ListWait, Off, OffWrite,
      Return, LoopStep, LoopWakes, LoopSends, MainStep, SetCallback, RefreshHandlers, PingStart,
      PingJoin, PingJoinTimeout, PingRun, Connect, Receive, Handle, Reopen, ServerPushes

\* on() puts one handler or none, and off() writes back what it had read.
LEMMA RouteStep ==
  ASSUME CallShape, RestShape, OwnInv, RouteInv, Next
  PROVE RouteInv'
<1> DEFINE Keys == {"data", "trading", "heartbeat", "list", "ack"}
<1>0. DOMAIN table = Keys /\ \A r \in Keys : table[r] \in Handlers
  BY DEF RestShape, RouteInv
<1>a. \A c \in Callers : <<Id(c)>> \in Handlers
  BY DEF Handlers, Id, CallShape, IsCall
<1>1. ASSUME NEW r \in Keys, NEW h \in Handlers, table' = [table EXCEPT ![r] = h]
      PROVE RouteInv'
  BY <1>0, <1>1 DEF RouteInv
<1>2. ASSUME NEW c \in Callers, Register(c) PROVE RouteInv'
  BY <1>2, <1>a, <1>1 DEF Register, AckRoute
<1>3. ASSUME NEW c \in Callers, ListOn(c) PROVE RouteInv'
  BY <1>3, <1>a, <1>1 DEF ListOn
<1>4. ASSUME NEW c \in Callers, OffWrite(c) PROVE RouteInv'
  <2>1. call[c].kept \in Handlers /\ table' = [table EXCEPT !["list"] = call[c].kept]
    BY <1>4 DEF OffWrite, OwnInv
  <2> QED BY <2>1, <1>1
<1>5. CASE RefreshHandlers
  <2>1. /\ DOMAIN table' = Keys
        /\ \A r \in Keys : table'[r] \in {<<Nobody>>, <<>>, table[r]}
    BY <1>5, <1>0 DEF RefreshHandlers
  <2> QED BY <2>1, <1>0, HandlerTypes DEF RouteInv
<1>6. CASE UNCHANGED table
  BY <1>6 DEF RouteInv
<1> QED
  BY <1>2, <1>3, <1>4, <1>5, <1>6
  DEF Next, CallerStep, Start, Send, Record, SendFails, StartList, ListSend, ListWait, Off,
      Return, LoopStep, LoopWakes, LoopSends, MainStep, SetCallback, Ping, PingStart,
      PingJoin, PingJoinTimeout, PingRun, Connect, Disconnect, Receive, Handle, Drop, Reopen,
      ServerTakes, ServerPushes

LEMMA BoundsStep ==
  ASSUME SheetsShape, BoundsInv, Next
  PROVE BoundsInv'
<1>0. DOMAIN link = {"state", "book", "drops"}
  BY DEF SheetsShape
<1>1. ASSUME NEW c \in Callers, Record(c)
      PROVE link'.drops = link.drops /\ callback' = callback
  <2>1. \E b : link' = [link EXCEPT !.book = b]
    BY <1>1 DEF Record
  <2> QED BY <2>1, <1>0, <1>1 DEF Record
<1>2. CASE Connect \/ Reopen \/ Disconnect
  BY <1>0, <1>2 DEF Connect, Reopen, Opens, Disconnect, BoundsInv
<1>3. CASE Drop
  <2>1. link'.drops = link.drops + 1 /\ callback' = callback /\ link.drops < MaxDrops
    BY <1>0, <1>3 DEF Drop
  <2>2. link.drops + 1 \in 0..MaxDrops
    BY <2>1, DropsAssumption DEF BoundsInv
  <2> QED BY <2>1, <2>2 DEF BoundsInv
<1>4. CASE SetCallback
  <2>1. link' = link /\ callback' \subseteq Settable
    BY <1>4 DEF SetCallback, BoundsInv
  <2> QED BY <2>1 DEF BoundsInv
<1>5. CASE UNCHANGED <<link, callback>>
  BY <1>5 DEF BoundsInv
<1> QED
  BY <1>1, <1>2, <1>3, <1>4, <1>5
  DEF Next, CallerStep, Start, Register, Send, SendFails, StartList, ListOn, ListSend, ListWait, Off,
      OffWrite, Return, LoopStep, LoopWakes, LoopSends, MainStep, RefreshHandlers, Ping, PingStart,
      PingJoin, PingJoinTimeout, PingRun, Receive, Handle, ServerTakes, ServerPushes, BoundsInv

\* Every variable keeps its type; in particular a request that goes out names topics
\* of one channel, whatever is given up after a listing, and a route has one handler
\* at most although off() writes back what it had read before others changed it.
THEOREM TypeCorrect == Spec => []TypeOK
<1>1. Init => Typed
  <2> SUFFICES ASSUME Init PROVE Typed
    OBVIOUS
  <2>1. OwnInv
    <3>1. \A c \in Callers : call[c] = Idle
      BY DEF Init
    <3>2. Idle.todo = <<>> /\ Idle.kept = <<>> /\ DOMAIN <<>> = {}
      BY DEF Idle
    <3> QED BY <3>1, <3>2, HandlerTypes DEF OwnInv
  <2>2. WireInv /\ RouteInv
    BY HandlerTypes DEF Init, WireInv, RouteInv
  <2>3. BoundsInv
    BY DropsAssumption DEF Init, BoundsInv
  <2> QED BY <2>1, <2>2, <2>3 DEF Typed
<1>2. IInv /\ Typed /\ [Next]_vars => Typed'
  <2> SUFFICES ASSUME IInv, Typed, [Next]_vars PROVE Typed'
    OBVIOUS
  <2>1. /\ CallShape /\ SheetsShape /\ RestShape /\ TodoInv
        /\ OwnInv /\ WireInv /\ RouteInv /\ BoundsInv
    BY DEF IInv, Shape, Typed
  <2>2. CASE Next
    BY <2>1, <2>2, OwnStep, WireStep, RouteStep, BoundsStep DEF Typed
  <2>3. CASE UNCHANGED vars
    BY <2>1, <2>3 DEF vars, Typed, OwnInv, WireInv, RouteInv, BoundsInv
  <2> QED BY <2>2, <2>3
<1>3. IInv /\ Typed => TypeOK
  <2> SUFFICES ASSUME IInv, Typed PROVE TypeOK
    OBVIOUS
  <2>1. link \in [state : {"down", "lost", "up"}, book : SUBSET link.book, drops : 0..MaxDrops]
    BY DEF IInv, Shape, SheetsShape, Typed, BoundsInv
  <2>2. \A c \in Callers : call[c].pc \in {"send", "record"} => call[c].todo # <<>>
    BY DEF IInv, TodoInv
  <2>3. \A r \in DOMAIN table : Len(table[r]) <= 1 /\ Range(table[r]) \subseteq Callers \X Nat
    BY HandlerTypes DEF Typed, RouteInv
  <2> QED BY <2>1, <2>2, <2>3 DEF IInv, Shape, RestShape, Typed, WireInv, BoundsInv, TypeOK
<1> QED BY <1>1, <1>2, <1>3, AlwaysIInv, PTL DEF Spec

-----------------------------------------------------------------------------
(* The channels of the requests                                            *)

SingleChannel(requests) == \A i \in DOMAIN requests : OneChannel(requests[i].topics)

LEMMA AskSingle ==
  ASSUME NEW method, NEW channel, NEW type, NEW codes, NEW interval
  PROVE  \E S : /\ Ask(method, channel, type, codes, interval) \in Seq(S)
                /\ \A r \in S : OneChannel(r.topics)
<1> DEFINE T == {Topic(channel, type, c, interval) : c \in codes}
           m == Message(method, T)
           S == {r \in {m} : OneChannel(r.topics)}
           asked == codes # {} /\ \A c \in codes : IsTopic(type, c, interval)
<1>1. Ask(method, channel, type, codes, interval) = IF asked THEN <<m>> ELSE <<>>
  BY DEF Ask
<1>2. asked => m \in S
  <2> SUFFICES ASSUME asked PROVE OneChannel(m.topics)
    OBVIOUS
  <2>1. \A c \in codes : Topic(channel, type, c, interval).channel = channel
    BY DEF Topic
  <2>2. m.topics = T
    BY DEF Message
  <2>3. {t.channel : t \in T} = {channel}
    BY <2>1
  <2> HIDE DEF T, m
  <2> QED BY <2>2, <2>3, FS_Singleton DEF OneChannel
<1>3. \A r \in S : OneChannel(r.topics)
  OBVIOUS
<1> HIDE DEF asked, m, S
<1>4. <<>> \in Seq(S) /\ (m \in S => <<m>> \in Seq(S))
  OBVIOUS
<1> QED BY <1>1, <1>2, <1>3, <1>4

LEMMA MembersSingle ==
  ASSUME NEW S, NEW s \in Seq(S), \A r \in S : OneChannel(r.topics)
  PROVE  SingleChannel(s)
<1>1. \A i \in DOMAIN s : s[i] \in S
  BY SeqRules
<1> QED BY <1>1 DEF SingleChannel

LEMMA AskThreeSingle ==
  ASSUME NEW method, NEW codes, NEW interval
  PROVE  SingleChannel(Ask(method, "data", "trade", codes, interval)
                         \o Ask(method, "data", "quote", codes, interval)
                         \o Ask(method, "data", "room", codes, interval))
<1> DEFINE a == Ask(method, "data", "trade", codes, interval)
           b == Ask(method, "data", "quote", codes, interval)
           c == Ask(method, "data", "room", codes, interval)
<1>1. PICK S1 : a \in Seq(S1) /\ \A r \in S1 : OneChannel(r.topics)
  BY AskSingle
<1>2. PICK S2 : b \in Seq(S2) /\ \A r \in S2 : OneChannel(r.topics)
  BY AskSingle
<1>3. PICK S3 : c \in Seq(S3) /\ \A r \in S3 : OneChannel(r.topics)
  BY AskSingle
<1> HIDE DEF a, b, c
<1> DEFINE S == S1 \union S2 \union S3
<1>4. a \in Seq(S) /\ b \in Seq(S) /\ c \in Seq(S)
  <2>1. S1 \subseteq S /\ S2 \subseteq S /\ S3 \subseteq S
    OBVIOUS
  <2> HIDE DEF S
  <2> QED BY <1>1, <1>2, <1>3, <2>1, SeqMonotonic
<1>5. \A r \in S : OneChannel(r.topics)
  BY <1>1, <1>2, <1>3
<1> HIDE DEF S
<1>6. a \o b \in Seq(S)
  BY <1>4, ConcatProperties
<1>7. (a \o b) \o c \in Seq(S)
  BY <1>4, <1>6, ConcatProperties
<1>8. SingleChannel((a \o b) \o c)
  BY <1>5, <1>7, MembersSingle
<1> QED BY <1>8 DEF a, b, c

\* Each request of each operation names topics of one channel, whatever the
\* arguments, as a RequestMessage, which is sent under one, supposes: any menu made
\* of these operations meets ChannelsAssumption.
THEOREM EachHasOneChannel ==
  ASSUME NEW codes, NEW interval, NEW account
  PROVE  \A requests \in
           {SubscribeSymbolOHLCV(codes, interval), UnsubscribeSymbolOHLCV(codes, interval),
            SubscribeSymbolTrade(codes), UnsubscribeSymbolTrade(codes),
            SubscribeSymbolQuote(codes), UnsubscribeSymbolQuote(codes),
            SubscribeSymbolRoom(codes), UnsubscribeSymbolRoom(codes),
            SubscribePutThrough(codes), UnsubscribePutThrough(codes),
            SubscribeOddLot(codes), UnsubscribeOddLot(codes),
            SubscribeSymbol(codes), UnsubscribeSymbol(codes),
            SubscribeBoard(codes), UnsubscribeBoard(codes),
            SubscribeIndex(codes), UnsubscribeIndex(codes),
            SubscribeMarket(codes), UnsubscribeMarket(codes),
            SubscribeIndexSummary(codes), UnsubscribeIndexSummary(codes),
            SubscribeIndexTrade(codes, interval), UnsubscribeIndexTrade(codes, interval),
            SubscribeOrderStatus(account), UnsubscribeOrderStatus(account),
            SubscribePortfolio(account), UnsubscribePortfolio(account),
            SubscribeMarketFlag, UnsubscribeMarketFlag} :
           SingleChannel(requests)
<1>1. \A method, channel, type, some, i : SingleChannel(Ask(method, channel, type, some, i))
  <2> TAKE method, channel, type, some, i
  <2>1. PICK S : /\ Ask(method, channel, type, some, i) \in Seq(S)
                 /\ \A r \in S : OneChannel(r.topics)
    BY AskSingle
  <2> QED BY <2>1, MembersSingle
<1>2. \A method, type, some : /\ SingleChannel(Data(method, type, some))
                              /\ SingleChannel(Trading(method, type, some))
  BY <1>1 DEF Data, Trading
<1>3. /\ SingleChannel(SubscribeSymbolOHLCV(codes, interval))
      /\ SingleChannel(UnsubscribeSymbolOHLCV(codes, interval))
      /\ SingleChannel(SubscribeIndexTrade(codes, interval))
      /\ SingleChannel(UnsubscribeIndexTrade(codes, interval))
  BY <1>1 DEF SubscribeSymbolOHLCV, UnsubscribeSymbolOHLCV, SubscribeIndexTrade,
              UnsubscribeIndexTrade
<1>4. /\ SingleChannel(SubscribeSymbolTrade(codes)) /\ SingleChannel(UnsubscribeSymbolTrade(codes))
      /\ SingleChannel(SubscribeSymbolQuote(codes)) /\ SingleChannel(UnsubscribeSymbolQuote(codes))
      /\ SingleChannel(SubscribeSymbolRoom(codes)) /\ SingleChannel(UnsubscribeSymbolRoom(codes))
      /\ SingleChannel(SubscribePutThrough(codes)) /\ SingleChannel(UnsubscribePutThrough(codes))
      /\ SingleChannel(SubscribeOddLot(codes)) /\ SingleChannel(UnsubscribeOddLot(codes))
  BY <1>2
  DEF SubscribeSymbolTrade, UnsubscribeSymbolTrade, SubscribeSymbolQuote,
      UnsubscribeSymbolQuote, SubscribeSymbolRoom, UnsubscribeSymbolRoom, SubscribePutThrough,
      UnsubscribePutThrough, SubscribeOddLot, UnsubscribeOddLot
<1>5. /\ SingleChannel(SubscribeMarket(codes)) /\ SingleChannel(UnsubscribeMarket(codes))
      /\ SingleChannel(SubscribeIndexSummary(codes))
      /\ SingleChannel(UnsubscribeIndexSummary(codes))
      /\ SingleChannel(SubscribeOrderStatus(account))
      /\ SingleChannel(UnsubscribeOrderStatus(account))
      /\ SingleChannel(SubscribePortfolio(account)) /\ SingleChannel(UnsubscribePortfolio(account))
  BY <1>2
  DEF SubscribeMarket, UnsubscribeMarket, SubscribeIndexSummary, UnsubscribeIndexSummary,
      SubscribeOrderStatus, UnsubscribeOrderStatus, SubscribePortfolio, UnsubscribePortfolio
<1>6. /\ SingleChannel(SubscribeSymbol(codes)) /\ SingleChannel(UnsubscribeSymbol(codes))
      /\ SingleChannel(SubscribeBoard(codes)) /\ SingleChannel(UnsubscribeBoard(codes))
      /\ SingleChannel(SubscribeIndex(codes)) /\ SingleChannel(UnsubscribeIndex(codes))
  BY AskThreeSingle
  DEF Data, Group, SubscribeSymbol, UnsubscribeSymbol, SubscribeSymbolTrade,
      UnsubscribeSymbolTrade, SubscribeSymbolQuote, UnsubscribeSymbolQuote, SubscribeSymbolRoom,
      UnsubscribeSymbolRoom, SubscribeBoard, UnsubscribeBoard, SubscribeIndex, UnsubscribeIndex
<1>7. SingleChannel(SubscribeMarketFlag) /\ SingleChannel(UnsubscribeMarketFlag)
  <2>1. ASSUME NEW m PROVE SingleChannel(<<Message(m, {FlagTopic})>>)
    <3> DEFINE r == Message(m, {FlagTopic})
    <3>1. r.topics = {FlagTopic}
      BY DEF Message
    <3>2. {t.channel : t \in {FlagTopic}} = {FlagTopic.channel}
      OBVIOUS
    <3>3. OneChannel(r.topics)
      BY <3>1, <3>2, FS_Singleton DEF OneChannel
    <3> HIDE DEF r
    <3>4. SingleChannel(<<r>>)
      BY <3>3 DEF SingleChannel
    <3> QED BY <3>4 DEF r
  <2> QED BY <2>1 DEF SubscribeMarketFlag, UnsubscribeMarketFlag
<1> QED BY <1>3, <1>4, <1>5, <1>6, <1>7
=============================================================================

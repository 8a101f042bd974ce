--------------------------- MODULE TradingWSProofs ---------------------------
(***************************************************************************)
(* Proofs about TradingWSClient, for any callers, sockets and number of    *)
(* requests: the server never carries out both tries of one request, the   *)
(* routing table holds only commands under way, what a caller is told of   *)
(* its connection is true, close() leaves nobody waiting, every variable   *)
(* has its type, and the client as its callers see it is CommandService.   *)
(***************************************************************************)
EXTENDS TradingWSClient, TLAPS

Fields == {"pc", "n", "try", "signed", "ws", "encoding", "other", "first", "item"}

\* The shape of the state, as far as the proofs need it.
Counted(d) == DOMAIN d = Fields /\ d.n \in Nat /\ d.try \in {1, 2}

CallShape   == call = [c \in Callers |-> call[c]] /\ \A c \in Callers : Counted(call[c])
SelfShape   == DOMAIN self = {"ws", "reader", "closing", "rejection", "encoding"}
                 /\ self.ws \in Sockets \union {NoSocket}
SockShape   == /\ sock = [s \in Sockets |-> sock[s]]
               /\ \A s \in Sockets : DOMAIN sock[s] = {"state", "up", "down", "refusal"}
ReaderShape == /\ reader = [s \in Sockets |-> reader[s]]
               /\ \A s \in Sockets : /\ DOMAIN reader[s] = {"pc", "ws", "got"}
                                     /\ reader[s].pc \in {"recv", "put", "refuse"} =>
                                          reader[s].ws \in Sockets
Shape == CallShape /\ SelfShape /\ SockShape /\ ReaderShape

\* The ids caller c has used for a command that went out, by its record d.
Spent(d, id) ==
  \/ id[2] < d.n
  \/ id[2] = d.n /\ \/ d.pc = "idle" \/ id[3] < d.try
                    \/ id[3] = d.try /\ d.pc \in {"wait", "choose", "flip", "restore"}
AllIds   == Callers \X Nat \X {1, 2}
Sent(id) == id \in AllIds /\ Spent(call[id[1]], id)

\* A command on its way went out, once, and was not carried out before.
WireInv == \A s \in Sockets : \A m \in sock[s].up :
             /\ Sent(m.id) /\ m.id \notin executed
             /\ \A t \in Sockets : \A k \in sock[t].up : k.id = m.id => s = t /\ k = m

ExecutedInv == \A id \in executed : Sent(id)

\* A frame answers a command that went out; "signature" says it was refused.
Truthful(frames) == \A f \in frames : Sent(f.id) /\ (f.answer = "signature" => Refused(f.id))
FramesInv == \A s \in Sockets : Truthful(sock[s].down) /\ Truthful(reader[s].got)

\* A caller goes on to its second try only when the first was refused.
Justified(c, d) ==
  /\ d.try = 1 /\ d.item = "signature" =>
       d.pc \notin {"check", "register", "send"} /\ Refused(<<c, d.n, 1>>)
  /\ d.pc \in {"choose", "flip"} => d.try = 1 /\ Refused(<<c, d.n, 1>>)
  /\ d.try = 2 => Refused(<<c, d.n, 1>>)
CallersInv == \A c \in Callers : Justified(c, call[c])

\* ... and so it stays when the caller has gone.
SecondInv == \A c \in Callers, n \in Nat :
               ~Refused(<<c, n, 2>>) => Refused(<<c, n, 1>>)

IInv == Shape /\ WireInv /\ ExecutedInv /\ FramesInv /\ CallersInv /\ SecondInv

-----------------------------------------------------------------------------
\* The ids are those of AllIds.
LEMMA IdShape ==
  ASSUME CallShape, NEW c \in Callers
  PROVE  Id(c) \in AllIds /\ Id(c)[1] = c /\ Id(c)[2] = call[c].n /\ Id(c)[3] = call[c].try
BY DEF CallShape, Counted, Id, AllIds

\* An item changes nothing but the item.
LEMMA DeliverShape ==
  ASSUME CallShape, NEW ids, NEW item, call' = Deliver(ids, item)
  PROVE  /\ CallShape'
         /\ \A c \in Callers :
              /\ call'[c].n = call[c].n /\ call'[c].try = call[c].try
              /\ call'[c].pc = call[c].pc
              /\ call'[c].item # call[c].item => Id(c) \in ids /\ call'[c].item = item
<1>1. \A c \in Callers : call'[c] = IF Id(c) \in ids /\ call[c].item = "none"
                                    THEN [call[c] EXCEPT !.item = item] ELSE call[c]
  BY DEF Deliver
<1>2. \A c \in Callers :
        /\ DOMAIN call'[c] = Fields
        /\ call'[c].n = call[c].n /\ call'[c].try = call[c].try
        /\ call'[c].pc = call[c].pc
        /\ call'[c].item # call[c].item => Id(c) \in ids /\ call'[c].item = item
  BY <1>1 DEF CallShape, Counted, Fields
<1>3. call' = [c \in Callers |-> call'[c]]
  BY DEF Deliver
<1> QED  BY <1>2, <1>3 DEF CallShape, Counted

\* How a try ends.
LEMMA SettleShape ==
  ASSUME CallShape, NEW c \in Callers, NEW outcome, NEW d, d = Settle(c, outcome)[c]
  PROVE  /\ Settle(c, outcome) = [call EXCEPT ![c] = d]
         /\ Counted(d) /\ d.n = call[c].n /\ d.item = "none"
         /\ \/ d.pc = "choose" /\ call[c].try = 1 /\ d.try = 1 /\ outcome = "signature"
            \/ d.pc = "restore" /\ call[c].try = 2 /\ d.try = 2
            \/ d.pc = "idle" /\ d.try = 1
<1>1. d = IF call[c].try = 1 /\ OtherEncoding(c, outcome)
          THEN [call[c] EXCEPT !.pc = "choose", !.ws = NoSocket, !.item = "none"]
          ELSE IF call[c].try = 2 /\ outcome \in ServerErrors
          THEN [call[c] EXCEPT !.pc = "restore", !.ws = NoSocket, !.item = "none"]
          ELSE [Resting EXCEPT !.n = call[c].n]
  BY DEF Settle, CallShape
<1>2. Settle(c, outcome) = [call EXCEPT ![c] = d]
  BY <1>1 DEF Settle, CallShape
<1>3. CASE call[c].try = 1 /\ OtherEncoding(c, outcome)
  BY <1>1, <1>2, <1>3 DEF CallShape, Counted, Fields, OtherEncoding
<1>4. CASE ~(call[c].try = 1 /\ OtherEncoding(c, outcome)) /\ call[c].try = 2 /\ outcome \in ServerErrors
  BY <1>1, <1>2, <1>4 DEF CallShape, Counted, Fields
<1>5. CASE ~(call[c].try = 1 /\ OtherEncoding(c, outcome)) /\ ~(call[c].try = 2 /\ outcome \in ServerErrors)
  <2>1. d = [Resting EXCEPT !.n = call[c].n]
    BY <1>1, <1>5
  <2> QED  BY <1>2, <2>1 DEF CallShape, Counted, Fields, Resting
<1> QED  BY <1>3, <1>4, <1>5

-----------------------------------------------------------------------------
\* A step that carries out no command, sends none, and makes up no frame keeps
\* the invariant, as long as the callers it moves stay justified.
LEMMA Preserved ==
  ASSUME IInv, Shape', executed' = executed,
         \A s \in Sockets : sock'[s].up \subseteq sock[s].up,
         \A s \in Sockets : \A f \in sock'[s].down \union reader'[s].got :
           \E t \in Sockets : f \in sock[t].down \union reader[t].got,
         \A c \in Callers : \A id \in AllIds : Spent(call[c], id) => Spent(call'[c], id),
         \A c \in Callers : Justified(c, call'[c])
  PROVE  IInv'
<1>1. ASSUME NEW id, Refused(id) PROVE Refused(id)'
  BY <1>1 DEF Refused
<1>2. ASSUME NEW id, Sent(id) PROVE Sent(id)'
  <2>1. id \in AllIds /\ id[1] \in Callers
    BY <1>2 DEF Sent, AllIds
  <2> QED  BY <1>2, <2>1 DEF Sent, Spent
<1>3. WireInv'
  BY <1>2 DEF IInv, WireInv
<1>4. ExecutedInv'
  BY <1>2 DEF IInv, ExecutedInv
<1>5. FramesInv'
  <2>1. ASSUME NEW s \in Sockets, NEW f \in sock'[s].down \union reader'[s].got
        PROVE  Sent(f.id) /\ (f.answer = "signature" => Refused(f.id))
    BY <2>1 DEF IInv, FramesInv, Truthful
  <2> QED  BY <1>1, <1>2, <2>1 DEF FramesInv, Truthful
<1>6. CallersInv'
  BY <1>1 DEF CallersInv, Justified
<1>7. SecondInv'
  BY <1>1 DEF IInv, SecondInv
<1> QED  BY <1>3, <1>4, <1>5, <1>6, <1>7 DEF IInv

\* One caller moves and nothing else.
LEMMA OneCaller ==
  ASSUME IInv, NEW c \in Callers, NEW d, Counted(d), call' = [call EXCEPT ![c] = d],
         UNCHANGED <<sock, reader, executed>>, SelfShape',
         \A id \in AllIds : Spent(call[c], id) => Spent(d, id), Justified(c, d)
  PROVE  IInv'
<1>1. call' = [b \in Callers |-> call'[b]] /\ call'[c] = d
        /\ \A b \in Callers : b # c => call'[b] = call[b]
  BY DEF IInv, Shape, CallShape
<1>2. Shape'
  BY <1>1 DEF IInv, Shape, CallShape, SockShape, ReaderShape
<1>3. \A b \in Callers : Justified(b, call'[b])
  BY <1>1 DEF IInv, CallersInv
<1>4. \A b \in Callers : \A id \in AllIds : Spent(call[b], id) => Spent(call'[b], id)
  BY <1>1
<1> QED  BY <1>2, <1>3, <1>4, Preserved

\* Items are delivered, and nobody else moves.
LEMMA Delivered ==
  ASSUME IInv, NEW ids, NEW item, call' = Deliver(ids, item),
         item = "signature" => \A id \in ids : Sent(id) /\ Refused(id),
         UNCHANGED <<sock, executed>>, SelfShape', ReaderShape',
         \A s \in Sockets : reader'[s].got \subseteq reader[s].got
  PROVE  IInv'
<1>1. CallShape' /\ \A c \in Callers :
        /\ call'[c].n = call[c].n /\ call'[c].try = call[c].try
        /\ call'[c].pc = call[c].pc
        /\ call'[c].item # call[c].item => Id(c) \in ids /\ call'[c].item = item
  BY DeliverShape DEF IInv, Shape
<1>2. Shape'
  BY <1>1 DEF IInv, Shape, SockShape
<1>3. \A c \in Callers : \A id \in AllIds : Spent(call[c], id) => Spent(call'[c], id)
  BY <1>1 DEF Spent
<1>4. ASSUME NEW c \in Callers PROVE Justified(c, call'[c])
  <2>1. CASE call'[c].item = call[c].item
    BY <1>1, <2>1 DEF IInv, CallersInv, Justified
  <2>2. CASE call'[c].item # call[c].item
    <3>1. /\ Id(c) \in AllIds /\ Id(c)[1] = c /\ Id(c)[2] = call[c].n /\ Id(c)[3] = call[c].try
          /\ call[c].n \in Nat /\ call[c].try \in {1, 2}
      BY IdShape DEF IInv, Shape, CallShape, Counted
    <3>2. item = "signature" /\ call[c].try = 1 =>
            call[c].pc \notin {"check", "register", "send"} /\ Refused(<<c, call[c].n, 1>>)
      <4>1. SUFFICES ASSUME item = "signature", call[c].try = 1
                     PROVE  call[c].pc \notin {"check", "register", "send"}
                              /\ Refused(<<c, call[c].n, 1>>)
        OBVIOUS
      <4>2. Sent(Id(c)) /\ Refused(Id(c))
        BY <1>1, <2>2, <4>1
      <4>3. Spent(call[c], Id(c))
        BY <3>1, <4>2 DEF Sent
      <4>4. call[c].pc \notin {"check", "register", "send"}
        BY <3>1, <4>3 DEF Spent
      <4>5. Id(c) = <<c, call[c].n, 1>>
        BY <4>1 DEF Id
      <4> QED  BY <4>2, <4>4, <4>5
    <3> QED  BY <1>1, <2>2, <3>2 DEF IInv, CallersInv, Justified
  <2> QED  BY <2>1, <2>2
<1> QED  BY <1>2, <1>3, <1>4, Preserved

\* Neither a caller nor the server moves.
LEMMA Quiet ==
  ASSUME IInv, SelfShape', SockShape', ReaderShape', UNCHANGED <<call, executed>>,
         \A s \in Sockets : sock'[s].up \subseteq sock[s].up,
         \A s \in Sockets : \A f \in sock'[s].down \union reader'[s].got :
           \E t \in Sockets : f \in sock[t].down \union reader[t].got
  PROVE  IInv'
<1>1. Shape'
  BY DEF IInv, Shape, CallShape
<1>2. \A c \in Callers : call'[c] = call[c] /\ Justified(c, call'[c])
  BY DEF IInv, CallersInv
<1> QED  BY <1>1, <1>2, Preserved

\* A try ends; a refused signature is what sends a caller to its second try.
LEMMA Settled ==
  ASSUME IInv, NEW c \in Callers, NEW outcome, call' = Settle(c, outcome),
         UNCHANGED <<self, sock, reader, executed>>, call[c].pc # "idle",
         outcome = "signature" /\ call[c].try = 1 => Refused(<<c, call[c].n, 1>>)
  PROVE  IInv'
<1> DEFINE d == Settle(c, outcome)[c]
<1>1. CallShape /\ SelfShape /\ Counted(call[c]) /\ Justified(c, call[c])
  BY DEF IInv, Shape, CallShape, CallersInv
<1>2. /\ call' = [call EXCEPT ![c] = d]
      /\ Counted(d) /\ d.n = call[c].n /\ d.item = "none"
      /\ \/ d.pc = "choose" /\ call[c].try = 1 /\ d.try = 1 /\ outcome = "signature"
         \/ d.pc = "restore" /\ call[c].try = 2 /\ d.try = 2
         \/ d.pc = "idle" /\ d.try = 1
  BY <1>1, SettleShape
<1> HIDE DEF d
<1>3. \A id \in AllIds : Spent(call[c], id) => Spent(d, id)
  BY <1>1, <1>2 DEF Spent, AllIds, Counted
<1>4. Justified(c, d)
  BY <1>1, <1>2 DEF Justified
<1>5. SelfShape'
  BY <1>1 DEF SelfShape
<1> QED  BY <1>2, <1>3, <1>4, <1>5, OneCaller

-----------------------------------------------------------------------------
\* A command nobody has sent is neither under way nor carried out.
LEMMA Unsent ==
  ASSUME IInv, NEW id, ~Sent(id)
  PROVE  Refused(id)
BY DEF IInv, WireInv, ExecutedInv, Refused

\* A command that goes out is a new one, and the second try of a request only
\* when the first was refused.
LEMMA SendKeeps ==
  ASSUME IInv, NEW c \in Callers, Send(c)
  PROVE  IInv'
<1> DEFINE m == [id |-> Id(c), signed |-> call[c].signed, encoding |-> call[c].encoding]
<1>1. CallShape /\ SockShape /\ call[c].pc = "send" /\ Counted(call[c]) /\ Justified(c, call[c])
  BY DEF IInv, Shape, CallShape, CallersInv, Send
<1>2. /\ Id(c) \in AllIds /\ Id(c)[1] = c /\ Id(c)[2] = call[c].n /\ Id(c)[3] = call[c].try
      /\ call[c].n \in Nat /\ call[c].try \in {1, 2}
  BY <1>1, IdShape DEF Counted
<1>3. ~Sent(Id(c))
  BY <1>1, <1>2 DEF Sent, Spent
<1>4. /\ call' = [call EXCEPT ![c].pc = "wait"]
      /\ UNCHANGED <<self, reader, executed>>
  BY DEF Send
<1>5. /\ CallShape' /\ call'[c] = [call[c] EXCEPT !.pc = "wait"]
      /\ \A b \in Callers : b # c => call'[b] = call[b]
  BY <1>1, <1>4 DEF CallShape, Counted, Fields
<1>6. SockShape' /\ \A s \in Sockets :
        /\ sock'[s].down = sock[s].down
        /\ \/ sock'[s].up = sock[s].up
           \/ s = call[c].ws /\ sock'[s].up = sock[s].up \union {m}
  BY <1>1 DEF Send, SockShape
<1>7. m.id = Id(c)
  OBVIOUS
<1> HIDE DEF m
<1>8. ASSUME NEW id, Refused(id), id # Id(c) PROVE Refused(id)'
  BY <1>4, <1>6, <1>7, <1>8 DEF Refused
<1>9. ASSUME NEW id, Sent(id) PROVE Sent(id)'
  <2>1. id \in AllIds /\ id[1] \in Callers /\ Spent(call[id[1]], id)
    BY <1>9 DEF Sent, AllIds
  <2>2. Spent(call'[id[1]], id)
    BY <1>1, <1>5, <2>1 DEF Spent, Counted, Fields
  <2> QED  BY <2>1, <2>2 DEF Sent
<1>10. Sent(Id(c))'
  <2>1. Sent(Id(c)) \/ Spent(call'[c], Id(c))
    BY <1>1, <1>2, <1>5 DEF Spent, Counted, Fields
  <2> DEFINE i == Id(c)
  <2>2. i \in AllIds /\ i[1] = c /\ Spent(call'[c], i)
    BY <1>2, <1>3, <2>1
  <2>3. Id(c)' = i
    BY <1>1, <1>5 DEF Id, Counted, Fields
  <2> HIDE DEF i
  <2> QED  BY <2>2, <2>3 DEF Sent
<1>11. Id(c)' = Id(c)
  BY <1>1, <1>5 DEF Id, Counted, Fields
<1>12. WireInv'
  <2>1. ASSUME NEW s \in Sockets, NEW k \in sock'[s].up
        PROVE  Sent(k.id)' /\ k.id \notin executed'
    BY <1>3, <1>4, <1>6, <1>7, <1>9, <1>10, <1>11 DEF IInv, WireInv, ExecutedInv
  <2>2. ASSUME NEW s \in Sockets, NEW k \in sock'[s].up,
               NEW t \in Sockets, NEW l \in sock'[t].up, l.id = k.id
        PROVE  s = t /\ l = k
    BY <1>3, <1>6, <1>7, <2>2 DEF IInv, WireInv
  <2> QED  BY <2>1, <2>2 DEF WireInv
<1>13. ExecutedInv'
  BY <1>4, <1>9 DEF IInv, ExecutedInv
<1>14. FramesInv'
  BY <1>3, <1>4, <1>6, <1>8, <1>9 DEF IInv, FramesInv, Truthful
<1>15. CallersInv'
  <2>1. ASSUME NEW b \in Callers, b # c PROVE Justified(b, call[b])'
    <3>1. Justified(b, call[b]) /\ call'[b] = call[b]
      BY <1>5, <2>1 DEF IInv, CallersInv
    <3>2. <<b, call[b].n, 1>> # Id(c)
      BY <2>1 DEF Id
    <3> QED  BY <1>8, <3>1, <3>2 DEF Justified
  <2>2. Justified(c, call[c])'
    <3>1. /\ call'[c].pc = "wait" /\ call'[c].try = call[c].try
          /\ call'[c].n = call[c].n /\ call'[c].item = call[c].item
      BY <1>1, <1>5 DEF Counted, Fields
    <3>2. call[c].try = 2 => <<c, call[c].n, 1>> # Id(c)
      BY DEF Id
    <3> QED  BY <1>1, <1>8, <3>1, <3>2 DEF Justified
  <2> QED  BY <2>1, <2>2 DEF CallersInv
<1>16. SecondInv'
  <2>1. SUFFICES ASSUME NEW b \in Callers, NEW n \in Nat, ~Refused(<<b, n, 2>>)'
                 PROVE  Refused(<<b, n, 1>>)'
    BY DEF SecondInv
  <2>2. CASE <<b, n, 2>> = Id(c)
    <3>1. call[c].try = 2 /\ b = c /\ n = call[c].n /\ <<b, n, 1>> # Id(c)
      BY <2>2 DEF Id
    <3> QED  BY <1>1, <1>8, <3>1 DEF Justified
  <2>3. CASE <<b, n, 2>> # Id(c) /\ <<b, n, 1>> # Id(c)
    BY <1>8, <2>1, <2>3 DEF IInv, SecondInv
  <2>4. CASE <<b, n, 1>> = Id(c)
    <3>1. call[c].try = 1 /\ b = c /\ n = call[c].n /\ <<b, n, 2>> # Id(c)
      BY <2>4 DEF Id
    <3>2. ~Spent(call[c], <<b, n, 2>>)
      BY <1>1, <3>1 DEF Spent
    <3>3. ~Sent(<<b, n, 2>>)
      BY <3>1, <3>2 DEF Sent
    <3> QED  BY <1>8, <2>1, <3>1, <3>3, Unsent
  <2> QED  BY <2>2, <2>3, <2>4
<1>17. Shape'
  BY <1>4, <1>5, <1>6 DEF IInv, Shape, SelfShape, ReaderShape
<1> QED  BY <1>12, <1>13, <1>14, <1>15, <1>16, <1>17 DEF IInv

\* The server carries out a command, or refuses it and never sees it again.
LEMMA ServeKeeps ==
  ASSUME IInv, NEW s \in Sockets, Serve(s)
  PROVE  IInv'
<1>1. PICK command \in sock[s].up, answer \in Answers :
        /\ executed' = IF answer = "ok" THEN executed \union {command.id} ELSE executed
        /\ sock' = [sock EXCEPT
             ![s].up = @ \ {command},
             ![s].down = IF sock[s].state = "open"
                         THEN @ \union {[id |-> command.id, answer |-> answer]} ELSE @]
  BY DEF Serve
<1>2. UNCHANGED <<self, reader, call>>
  BY DEF Serve
<1>3. SockShape' /\ \A t \in Sockets :
        /\ t # s => sock'[t] = sock[t]
        /\ sock'[s].up = sock[s].up \ {command}
        /\ sock'[s].down \subseteq sock[s].down \union {[id |-> command.id, answer |-> answer]}
  BY <1>1 DEF IInv, Shape, SockShape
<1>4. /\ Sent(command.id) /\ command.id \notin executed
      /\ \A t \in Sockets : \A k \in sock[t].up : k.id = command.id => t = s /\ k = command
  BY DEF IInv, WireInv
<1>5. ASSUME NEW id, Sent(id) PROVE Sent(id)'
  BY <1>2, <1>5 DEF Sent
<1>6. ASSUME NEW id, Refused(id) PROVE Refused(id)'
  <2>1. id # command.id
    BY <1>6 DEF Refused
  <2> QED  BY <1>1, <1>3, <1>6, <2>1 DEF Refused
<1>7. ASSUME answer # "ok", NEW id, id = command.id PROVE Refused(id)'
  BY <1>1, <1>3, <1>4, <1>7 DEF Refused
<1>8. WireInv'
  <2>1. ASSUME NEW t \in Sockets, NEW m \in sock'[t].up
        PROVE  m \in sock[t].up /\ m.id # command.id
    BY <1>3, <1>4
  <2>2. ASSUME NEW t \in Sockets, NEW m \in sock'[t].up
        PROVE  Sent(m.id)' /\ m.id \notin executed'
    BY <1>1, <1>5, <2>1, <2>2 DEF IInv, WireInv
  <2>3. ASSUME NEW t \in Sockets, NEW m \in sock'[t].up,
               NEW v \in Sockets, NEW k \in sock'[v].up, k.id = m.id
        PROVE  t = v /\ k = m
    BY <2>1, <2>3 DEF IInv, WireInv
  <2> QED  BY <2>2, <2>3 DEF WireInv
<1>9. ExecutedInv'
  BY <1>1, <1>4, <1>5 DEF IInv, ExecutedInv
<1>10. FramesInv'
  <2>1. ASSUME NEW t \in Sockets, NEW f \in sock'[t].down
        PROVE  Sent(f.id)' /\ (f.answer = "signature" => Refused(f.id)')
    <3>1. CASE f \in sock[t].down
      BY <1>5, <1>6, <3>1 DEF IInv, FramesInv, Truthful
    <3>2. CASE f = [id |-> command.id, answer |-> answer]
      BY <1>4, <1>5, <1>7, <3>2
    <3> QED  BY <1>3, <2>1, <3>1, <3>2
  <2>2. \A t \in Sockets : \A f \in reader'[t].got :
          Sent(f.id)' /\ (f.answer = "signature" => Refused(f.id)')
    BY <1>2, <1>5, <1>6 DEF IInv, FramesInv, Truthful
  <2> QED  BY <2>1, <2>2 DEF FramesInv, Truthful
<1>11. CallersInv'
  BY <1>2, <1>6 DEF IInv, CallersInv, Justified
<1>12. SecondInv'
  BY <1>6 DEF IInv, SecondInv
<1>13. Shape'
  BY <1>2, <1>3 DEF IInv, Shape, SelfShape, CallShape, ReaderShape
<1> QED  BY <1>8, <1>9, <1>10, <1>11, <1>12, <1>13 DEF IInv

-----------------------------------------------------------------------------
\* connect() and close() move no command and make up no frame.
LEMMA MainKeeps ==
  ASSUME IInv, MainStep
  PROVE  IInv'
<1> USE DEF SelfShape, SockShape, ReaderShape
<1>0. SelfShape /\ SockShape /\ ReaderShape
  BY DEF IInv, Shape
<1>1. CASE Connect \/ OpenFails \/ Grace \/ Close \/ JoinReader
  BY <1>0, <1>1, Quiet DEF Connect, OpenFails, Grace, Close, JoinReader
<1>2. CASE Open
  <2>1. PICK s \in Sockets :
          /\ self' = [self EXCEPT !.ws = s, !.reader = s]
          /\ sock' = [sock EXCEPT ![s] = [Absent EXCEPT !.state = "open"]]
          /\ reader' = [reader EXCEPT ![s] = [NoReader EXCEPT !.pc = "start"]]
    BY <1>2 DEF Open, FreeSockets
  <2>2. SelfShape'
    BY <1>0, <2>1
  <2>3. SockShape' /\ \A t \in Sockets :
          sock'[t] = sock[t] \/ (sock'[t].up = {} /\ sock'[t].down = {})
    BY <1>0, <2>1 DEF Absent
  <2>4. ReaderShape' /\ \A t \in Sockets : reader'[t] = reader[t] \/ reader'[t].got = {}
    BY <1>0, <2>1 DEF NoReader
  <2>5. UNCHANGED <<call, executed>>
    BY <1>2 DEF Open
  <2>6. /\ \A t \in Sockets : sock'[t].up \subseteq sock[t].up
        /\ \A t \in Sockets : \A f \in sock'[t].down \union reader'[t].got :
             f \in sock[t].down \union reader[t].got
    BY <2>3, <2>4
  <2> QED  BY <2>2, <2>3, <2>4, <2>5, <2>6, Quiet
<1>3. CASE DropSocket
  <2>1. SelfShape' /\ ReaderShape' /\ UNCHANGED <<reader, call, executed>>
    BY <1>0, <1>3 DEF DropSocket
  <2>2. SockShape' /\ \A t \in Sockets :
          sock'[t].up = sock[t].up /\ sock'[t].down = sock[t].down
    BY <1>0, <1>3 DEF DropSocket, ClosedSocket
  <2> QED  BY <2>1, <2>2, Quiet
<1>4. CASE CloseWakes
  <2>1. /\ call' = Deliver(pending, "closed")
        /\ UNCHANGED <<self, sock, reader, executed>>
    BY <1>4 DEF CloseWakes, WakeWaiters, FailPending
  <2> QED  BY <1>0, <2>1, Delivered
<1> QED  BY <1>1, <1>2, <1>3, <1>4 DEF MainStep

\* A reader that moves on in its loop keeps its shape and its frames.
LEMMA GotoShape ==
  ASSUME ReaderShape, NEW s \in Sockets, NEW label, ReaderGoto(s, label), reader[s].ws \in Sockets
  PROVE  ReaderShape' /\ \A t \in Sockets : reader'[t].got = reader[t].got
<1>1. reader = [t \in Sockets |-> reader[t]] /\ DOMAIN reader[s] = {"pc", "ws", "got"}
  BY DEF ReaderShape
<1>2. /\ reader' = [t \in Sockets |-> reader'[t]]
      /\ reader'[s] = [reader[s] EXCEPT !.pc = label]
      /\ \A t \in Sockets : t # s => reader'[t] = reader[t]
  BY <1>1 DEF ReaderGoto
<1>3. DOMAIN reader'[s] = {"pc", "ws", "got"} /\ reader'[s].ws \in Sockets /\ reader'[s].got = reader[s].got
  BY <1>1, <1>2
<1> QED  BY <1>2, <1>3 DEF ReaderShape

\* A reader hands on the frames of its socket, and wakes the waiters.
LEMMA ReaderKeeps ==
  ASSUME IInv, NEW s \in Sockets, ReaderStep(s)
  PROVE  IInv'
<1> USE DEF SelfShape, SockShape, ReaderShape
<1>0. SelfShape /\ SockShape /\ ReaderShape
  BY DEF IInv, Shape
<1>1. CASE ReaderStart(s)
  <2>1. SelfShape' /\ SockShape' /\ UNCHANGED <<sock, call, executed>>
    BY <1>0, <1>1 DEF ReaderStart
  <2>2. ReaderShape' /\ \A t \in Sockets : reader'[t].got = reader[t].got
    BY <1>0, <1>1 DEF ReaderStart
  <2> QED  BY <2>1, <2>2, Quiet
<1>2. CASE ReadAnswer(s)
  <2> DEFINE w == reader[s].ws
  <2>1. PICK frame \in sock[w].down :
          /\ sock' = [sock EXCEPT ![w].down = @ \ {frame}]
          /\ reader' = [reader EXCEPT
               ![s] = IF frame.id \in pending
                      THEN [@ EXCEPT !.pc = "put", !.got = {frame}]
                      ELSE [@ EXCEPT !.pc = Again]]
    BY <1>2 DEF ReadAnswer
  <2>2. w \in Sockets /\ UNCHANGED <<self, call, executed>>
    BY <1>0, <1>2 DEF ReadAnswer
  <2> HIDE DEF w
  <2>3. SockShape' /\ \A t \in Sockets :
          sock'[t].up = sock[t].up /\ sock'[t].down \subseteq sock[t].down
    BY <1>0, <2>1, <2>2
  <2>4. ReaderShape' /\ \A t \in Sockets :
          reader'[t].got \subseteq reader[t].got \/ reader'[t].got = {frame}
    <3>1. CASE frame.id \in pending
      BY <1>0, <1>2, <2>1, <2>2, <3>1 DEF ReadAnswer, w
    <3>2. CASE frame.id \notin pending
      BY <1>0, <1>2, <2>1, <2>2, <3>2 DEF ReadAnswer, w
    <3> QED  BY <3>1, <3>2
  <2>5. ASSUME NEW t \in Sockets, NEW f \in sock'[t].down \union reader'[t].got
        PROVE  \E v \in Sockets : f \in sock[v].down \union reader[v].got
    BY <2>1, <2>2, <2>3, <2>4
  <2>6. SelfShape'
    BY <1>0, <2>2
  <2> QED  BY <2>2, <2>3, <2>4, <2>5, <2>6, Quiet
<1>3. CASE PutAnswer(s)
  <2>1. PICK frame \in reader[s].got : call' = Deliver({frame.id}, frame.answer)
    BY <1>3 DEF PutAnswer
  <2>2. Sent(frame.id) /\ (frame.answer = "signature" => Refused(frame.id))
    BY DEF IInv, FramesInv, Truthful
  <2>3. ReaderShape' /\ \A t \in Sockets : reader'[t].got \subseteq reader[t].got
    BY <1>0, <1>3 DEF PutAnswer
  <2>4. UNCHANGED <<self, sock, executed>>
    BY <1>3 DEF PutAnswer
  <2>5. SelfShape'
    BY <1>0, <2>4
  <2>6. frame.answer = "signature" => \A id \in {frame.id} : Sent(id) /\ Refused(id)
    BY <2>2
  <2> DEFINE ids == {frame.id}
             item == frame.answer
  <2>7. call' = Deliver(ids, item) /\ (item = "signature" => \A id \in ids : Sent(id) /\ Refused(id))
    BY <2>1, <2>6
  <2> HIDE DEF SelfShape, SockShape, ReaderShape, ids, item
  <2> QED  BY <2>3, <2>4, <2>5, <2>7, Delivered
<1>4. CASE ReadRefusal(s)
  <2>1. SelfShape' /\ UNCHANGED <<call, executed>>
    BY <1>0, <1>4 DEF ReadRefusal
  <2>2. SockShape' /\ \A t \in Sockets :
          sock'[t].up = sock[t].up /\ sock'[t].down = sock[t].down
    BY <1>0, <1>4 DEF ReadRefusal
  <2>3. ReaderShape' /\ \A t \in Sockets : reader'[t].got = reader[t].got
    BY <1>0, <1>4, GotoShape DEF ReadRefusal
  <2> QED  BY <2>1, <2>2, <2>3, Quiet
<1>5. CASE WakeRefused(s)
  <2>1. call' = Deliver(pending, "refused") /\ UNCHANGED <<self, sock, executed>>
    BY <1>5 DEF WakeRefused, FailPending
  <2>2. ReaderShape' /\ \A t \in Sockets : reader'[t].got = reader[t].got
    BY <1>0, <1>5, GotoShape DEF WakeRefused
  <2> QED  BY <1>0, <2>1, <2>2, Delivered
<1>6. CASE ReadFails(s)
  <2>1. SelfShape' /\ SockShape' /\ UNCHANGED <<sock, call, executed>>
    BY <1>0, <1>6 DEF ReadFails
  <2>2. ReaderShape' /\ \A t \in Sockets : reader'[t].got = reader[t].got
    BY <1>0, <1>6, GotoShape DEF ReadFails
  <2> QED  BY <2>1, <2>2, Quiet
<1>7. CASE ReaderEnd(s)
  <2>1. call' = Deliver(pending, "closed") /\ UNCHANGED <<self, sock, executed>>
    BY <1>7 DEF ReaderEnd, FailPending
  <2>2. ReaderShape' /\ \A t \in Sockets : reader'[t].got \subseteq reader[t].got
    BY <1>0, <1>7 DEF ReaderEnd, NoReader
  <2> QED  BY <1>0, <2>1, <2>2, Delivered
<1> QED  BY <1>1, <1>2, <1>3, <1>4, <1>5, <1>6, <1>7 DEF ReaderStep

\* The server and the network refuse, break and lose, and make nothing up.
LEMMA ServerKeeps ==
  ASSUME IInv, NEW s \in Sockets, ServerStep(s)
  PROVE  IInv'
<1>1. CASE Serve(s)
  BY <1>1, ServeKeeps
<1>2. CASE ServerRefuses(s) \/ Break(s) \/ Lose(s)
  <2>1. UNCHANGED <<self, reader, call, executed>>
    BY <1>2 DEF ServerRefuses, Break, Lose
  <2>2. SockShape' /\ \A t \in Sockets :
          sock'[t].up \subseteq sock[t].up /\ sock'[t].down \subseteq sock[t].down
    BY <1>2 DEF IInv, Shape, SockShape, ServerRefuses, Break, Lose
  <2>3. SelfShape' /\ ReaderShape'
    BY <2>1 DEF IInv, Shape, SelfShape, ReaderShape
  <2> QED  BY <2>1, <2>2, <2>3, Quiet
<1> QED  BY <1>1, <1>2 DEF ServerStep

\* A caller starts, gives up, or goes on to its second try.
LEMMA CallerKeeps ==
  ASSUME IInv, NEW c \in Callers, Request(c) \/ CallerStep(c)
  PROVE  IInv'
<1>0. /\ CallShape /\ SelfShape /\ Counted(call[c]) /\ Justified(c, call[c])
      /\ call = [b \in Callers |-> call[b]]
  BY DEF IInv, Shape, CallShape, CallersInv
<1>1. CASE Request(c)
  <2>1. PICK signed \in BOOLEAN :
          call' = [call EXCEPT ![c] = [Resting EXCEPT !.pc = "check", !.n = call[c].n + 1,
                                                      !.signed = signed]]
    BY <1>1 DEF Request
  <2> DEFINE d == [Resting EXCEPT !.pc = "check", !.n = call[c].n + 1, !.signed = signed]
  <2>2. Counted(d) /\ d.n = call[c].n + 1 /\ d.pc = "check" /\ d.try = 1 /\ d.item = "none"
    BY <1>0 DEF Counted, Fields, Resting
  <2>3. call' = [call EXCEPT ![c] = d] /\ UNCHANGED <<self, sock, reader, executed>>
    BY <1>1, <2>1 DEF Request
  <2> HIDE DEF d
  <2>4. \A id \in AllIds : Spent(call[c], id) => Spent(d, id)
    BY <1>0, <2>2 DEF Spent, AllIds, Counted
  <2>5. Justified(c, d) /\ SelfShape'
    BY <1>0, <2>2, <2>3 DEF Justified, SelfShape
  <2> QED  BY <2>2, <2>3, <2>4, <2>5, OneCaller
<1>2. CASE CheckConnected(c)
  <2>1. call[c].pc = "check" /\ UNCHANGED <<self, sock, reader, executed>>
    BY <1>2 DEF CheckConnected
  <2>2. CASE call' = Settle(c, "refused") \/ call' = Settle(c, "unconnected")
    BY <2>1, <2>2, Settled
  <2>3. CASE call' = [call EXCEPT ![c].pc = "register", ![c].ws = self.ws]
    <3> DEFINE d == [call[c] EXCEPT !.pc = "register", !.ws = self.ws]
    <3>1. /\ Counted(d) /\ d.n = call[c].n /\ d.pc = "register" /\ d.try = call[c].try
          /\ d.item = call[c].item
      BY <1>0 DEF Counted, Fields
    <3>2. call' = [call EXCEPT ![c] = d]
      BY <1>0, <2>3 DEF Counted, Fields
    <3> HIDE DEF d
    <3>3. \A id \in AllIds : Spent(call[c], id) => Spent(d, id)
      BY <2>1, <3>1 DEF Spent
    <3>4. Justified(c, d) /\ SelfShape'
      BY <1>0, <2>1, <3>1 DEF Justified, SelfShape
    <3> QED  BY <2>1, <3>1, <3>2, <3>3, <3>4, OneCaller
  <2> QED  BY <1>2, <2>2, <2>3 DEF CheckConnected
<1>3. CASE Register(c)
  <2>1. call[c].pc = "register" /\ UNCHANGED <<self, sock, reader, executed>>
    BY <1>3 DEF Register
  <2>2. CASE call' = Settle(c, "no key")
    BY <2>1, <2>2, Settled
  <2>3. CASE call' = [call EXCEPT ![c].pc = "send", ![c].encoding = self.encoding,
                                  ![c].item = "none"]
    <3> DEFINE d == [call[c] EXCEPT !.pc = "send", !.encoding = self.encoding, !.item = "none"]
    <3>1. /\ Counted(d) /\ d.n = call[c].n /\ d.pc = "send" /\ d.try = call[c].try
          /\ d.item = "none"
      BY <1>0 DEF Counted, Fields
    <3>2. call' = [call EXCEPT ![c] = d]
      BY <1>0, <2>3 DEF Counted, Fields
    <3> HIDE DEF d
    <3>3. \A id \in AllIds : Spent(call[c], id) => Spent(d, id)
      BY <2>1, <3>1 DEF Spent
    <3>4. Justified(c, d) /\ SelfShape'
      BY <1>0, <2>1, <3>1 DEF Justified, SelfShape
    <3> QED  BY <2>1, <3>1, <3>2, <3>3, <3>4, OneCaller
  <2> QED  BY <1>3, <2>2, <2>3 DEF Register
<1>4. CASE Send(c)
  BY <1>4, SendKeeps
<1>5. CASE SendFails(c) \/ TimeOut(c)
  <2>1. /\ call' = Settle(c, "unsent") \/ call' = Settle(c, "timeout")
        /\ call[c].pc # "idle" /\ UNCHANGED <<self, sock, reader, executed>>
    BY <1>5 DEF SendFails, TimeOut
  <2> QED  BY <2>1, Settled
<1>6. CASE Take(c)
  <2>1. /\ call' = Settle(c, call[c].item)
        /\ call[c].pc # "idle" /\ UNCHANGED <<self, sock, reader, executed>>
    BY <1>6 DEF Take
  <2>2. call[c].item = "signature" /\ call[c].try = 1 => Refused(<<c, call[c].n, 1>>)
    BY <1>0 DEF Justified
  <2> QED  BY <2>1, <2>2, Settled
<1>7. CASE ChooseOther(c)
  <2> DEFINE d == [call[c] EXCEPT !.pc = "flip", !.other = Other(self.encoding)]
  <2>1. call[c].pc = "choose" /\ UNCHANGED <<self, sock, reader, executed>>
    BY <1>7 DEF ChooseOther
  <2>2. /\ Counted(d) /\ d.n = call[c].n /\ d.pc = "flip" /\ d.try = call[c].try
        /\ d.item = call[c].item
    BY <1>0 DEF Counted, Fields
  <2>3. call' = [call EXCEPT ![c] = d]
    BY <1>0, <1>7 DEF ChooseOther, Counted, Fields
  <2> HIDE DEF d
  <2>4. \A id \in AllIds : Spent(call[c], id) => Spent(d, id)
    BY <2>1, <2>2 DEF Spent
  <2>5. Justified(c, d) /\ SelfShape'
    BY <1>0, <2>1, <2>2 DEF Justified, SelfShape
  <2> QED  BY <2>1, <2>2, <2>3, <2>4, <2>5, OneCaller
<1>8. CASE Flip(c)
  <2> DEFINE d == [call[c] EXCEPT !.pc = "check", !.try = 2, !.first = self.encoding]
  <2>1. /\ call[c].pc = "flip" /\ UNCHANGED <<sock, reader, executed>>
        /\ SelfShape'
    BY <1>0, <1>8 DEF Flip, SelfShape
  <2>2. Counted(d) /\ d.n = call[c].n /\ d.pc = "check" /\ d.try = 2
    BY <1>0 DEF Counted, Fields
  <2>3. call' = [call EXCEPT ![c] = d]
    BY <1>0, <1>8 DEF Flip, Counted, Fields
  <2> HIDE DEF d
  <2>4. call[c].try = 1 /\ Refused(<<c, call[c].n, 1>>)
    BY <1>0, <2>1 DEF Justified
  <2>5. \A id \in AllIds : Spent(call[c], id) => Spent(d, id)
    BY <1>0, <2>1, <2>2, <2>4 DEF Spent, AllIds, Counted
  <2>6. Justified(c, d)
    BY <2>2, <2>4 DEF Justified
  <2> QED  BY <2>1, <2>2, <2>3, <2>5, <2>6, OneCaller
<1>9. CASE BothRefused(c)
  <2> DEFINE d == [Resting EXCEPT !.n = call[c].n]
  <2>1. UNCHANGED <<sock, reader, executed>> /\ SelfShape'
    BY <1>0, <1>9 DEF BothRefused, SelfShape
  <2>2. Counted(d) /\ d.n = call[c].n /\ d.pc = "idle" /\ d.try = 1 /\ d.item = "none"
    BY <1>0 DEF Counted, Fields, Resting
  <2>3. call' = [call EXCEPT ![c] = d]
    BY <1>9 DEF BothRefused
  <2> HIDE DEF d
  <2>4. \A id \in AllIds : Spent(call[c], id) => Spent(d, id)
    BY <2>2 DEF Spent
  <2>5. Justified(c, d)
    BY <2>2 DEF Justified
  <2> QED  BY <2>1, <2>2, <2>3, <2>4, <2>5, OneCaller
<1> QED  BY <1>1, <1>2, <1>3, <1>4, <1>5, <1>6, <1>7, <1>8, <1>9 DEF CallerStep

-----------------------------------------------------------------------------
\* Nothing is on its way at the start.
LEMMA InitIInv == Init => IInv
<1> SUFFICES ASSUME Init PROVE IInv
  OBVIOUS
<1>1. CallShape
  BY DEF Init, CallShape, Counted, Fields, Resting
<1>2. SelfShape /\ SockShape /\ ReaderShape
  BY DEF Init, SelfShape, SockShape, ReaderShape, Absent, NoReader
<1>3. WireInv /\ ExecutedInv /\ FramesInv
  BY DEF Init, WireInv, ExecutedInv, FramesInv, Truthful, Absent, NoReader
<1>4. CallersInv
  BY DEF Init, CallersInv, Justified, Resting
<1>5. SecondInv
  BY DEF Init, SecondInv, Refused, Absent
<1> QED  BY <1>1, <1>2, <1>3, <1>4, <1>5 DEF IInv, Shape

\* Every step keeps the invariant.
LEMMA NextIInv == IInv /\ [Next]_vars => IInv'
<1> SUFFICES ASSUME IInv, [Next]_vars PROVE IInv'
  OBVIOUS
<1>1. CASE MainStep
  BY <1>1, MainKeeps
<1>2. ASSUME NEW s \in Sockets, ReaderStep(s) \/ ServerStep(s) PROVE IInv'
  BY <1>2, ReaderKeeps, ServerKeeps
<1>3. ASSUME NEW c \in Callers, Request(c) \/ CallerStep(c) PROVE IInv'
  BY <1>3, CallerKeeps
<1>4. CASE UNCHANGED vars
  <2>1. SelfShape' /\ SockShape' /\ ReaderShape' /\ UNCHANGED <<sock, reader, call, executed>>
    BY <1>4 DEF vars, IInv, Shape, SelfShape, SockShape, ReaderShape
  <2> QED  BY <2>1, Quiet
<1> QED  BY <1>1, <1>2, <1>3, <1>4 DEF Next

\* The server never carries out both tries of one request(): the second try
\* goes out only after the server refused the first.
THEOREM ExecutedOnce == Spec => []ExecutedAtMostOnce
<1>1. IInv => ExecutedAtMostOnce
  <2> SUFFICES ASSUME IInv, NEW c \in Callers, NEW n \in 1 .. MaxRequests,
                      <<c, n, 1>> \in executed, <<c, n, 2>> \in executed
               PROVE  FALSE
    BY DEF ExecutedAtMostOnce
  <2>1. n \in Nat
    BY BoundAssumption
  <2>2. ~Refused(<<c, n, 1>>) /\ ~Refused(<<c, n, 2>>)
    BY DEF Refused
  <2> QED  BY <2>1, <2>2 DEF IInv, SecondInv
<1> QED  BY <1>1, InitIInv, NextIInv, PTL DEF Spec

-----------------------------------------------------------------------------
\* A caller that leaves the table behind may move on.
LEMMA Leaves ==
  ASSUME CallShape, PendingIsUnderWay, NEW c \in Callers, NEW d, call' = [call EXCEPT ![c] = d],
         pending' \subseteq pending, Id(c) \notin pending' \/ call[c].pc \notin {"send", "wait"}
  PROVE  PendingIsUnderWay'
<1>1. \A b \in Callers : b # c => call'[b] = call[b]
  BY DEF CallShape
<1> SUFFICES ASSUME NEW id \in pending'
             PROVE  \E b \in Callers : Id(b)' = id /\ call'[b].pc \in {"send", "wait"}
  BY DEF PendingIsUnderWay
<1>2. PICK b \in Callers : Id(b) = id /\ call[b].pc \in {"send", "wait"}
  BY DEF PendingIsUnderWay
<1>3. b # c
  BY <1>2
<1> QED  BY <1>1, <1>2, <1>3 DEF Id

\* Every step keeps the routing table to the commands under way.
LEMMA NextPending ==
  IInv /\ PendingIsUnderWay /\ [Next]_vars => PendingIsUnderWay'
<1> SUFFICES ASSUME IInv, PendingIsUnderWay, [Next]_vars PROVE PendingIsUnderWay'
  OBVIOUS
<1>0. CallShape
  BY DEF IInv, Shape
<1>1. ASSUME pending' = {} PROVE PendingIsUnderWay'
  BY <1>1 DEF PendingIsUnderWay
<1>2. ASSUME UNCHANGED <<call, pending>> PROVE PendingIsUnderWay'
  BY <1>2 DEF PendingIsUnderWay, Id
<1>3. ASSUME NEW c \in Callers, Request(c) \/ CallerStep(c) PROVE PendingIsUnderWay'
  <2>0. Counted(call[c])
    BY <1>0 DEF CallShape
  <2>1. CASE Request(c)
    <3>1. PICK signed \in BOOLEAN :
            call' = [call EXCEPT ![c] = [Resting EXCEPT !.pc = "check", !.n = call[c].n + 1,
                                                        !.signed = signed]]
      BY <2>1 DEF Request
    <3> QED  BY <1>0, <2>1, <3>1, Leaves DEF Request
  <2>2. ASSUME NEW outcome, call' = Settle(c, outcome), pending' \subseteq pending,
               Id(c) \notin pending' \/ call[c].pc \notin {"send", "wait"}
        PROVE  PendingIsUnderWay'
    <3> DEFINE d == Settle(c, outcome)[c]
    <3>1. call' = [call EXCEPT ![c] = d]
      BY <1>0, <2>2, SettleShape
    <3> HIDE DEF d
    <3> QED  BY <1>0, <2>2, <3>1, Leaves
  <2>3. CASE CheckConnected(c)
    <3>1. call[c].pc = "check" /\ UNCHANGED pending
      BY <2>3 DEF CheckConnected
    <3>2. CASE call' = [call EXCEPT ![c].pc = "register", ![c].ws = self.ws]
      <4> DEFINE d == [call[c] EXCEPT !.pc = "register", !.ws = self.ws]
      <4>1. call' = [call EXCEPT ![c] = d]
        BY <1>0, <2>0, <3>2 DEF Counted, Fields, CallShape
      <4> HIDE DEF d
      <4> QED  BY <1>0, <3>1, <4>1, Leaves
    <3> QED  BY <2>2, <2>3, <3>1, <3>2 DEF CheckConnected
  <2>4. CASE Register(c)
    <3>1. CASE call' = Settle(c, "no key") /\ UNCHANGED pending
      BY <2>2, <2>4, <3>1 DEF Register
    <3>2. CASE /\ call' = [call EXCEPT ![c].pc = "send", ![c].encoding = self.encoding,
                                           ![c].item = "none"]
               /\ pending' = pending \union {Id(c)}
      <4>1. /\ \A b \in Callers : b # c => call'[b] = call[b]
            /\ call'[c].pc = "send" /\ call'[c].n = call[c].n /\ call'[c].try = call[c].try
        BY <1>0, <2>0, <3>2 DEF CallShape, Counted, Fields
      <4>2. call[c].pc = "register"
        BY <2>4 DEF Register
      <4>3. \A b \in Callers : Id(b)' = Id(b)
        BY <4>1 DEF Id
      <4> QED  BY <3>2, <4>1, <4>2, <4>3 DEF PendingIsUnderWay
    <3> QED  BY <2>4, <3>1, <3>2 DEF Register
  <2>5. CASE Send(c)
    <3>1. call' = [call EXCEPT ![c].pc = "wait"] /\ UNCHANGED pending
      BY <2>5 DEF Send
    <3>2. /\ \A b \in Callers : b # c => call'[b] = call[b]
          /\ call'[c].pc = "wait" /\ call'[c].n = call[c].n /\ call'[c].try = call[c].try
      BY <1>0, <2>0, <3>1 DEF CallShape, Counted, Fields
    <3>3. \A b \in Callers : Id(b)' = Id(b)
      BY <3>2 DEF Id
    <3> QED  BY <3>1, <3>2, <3>3 DEF PendingIsUnderWay
  <2>6. CASE SendFails(c) \/ Take(c) \/ TimeOut(c)
    <3>1. pending' = pending \ {Id(c)} /\ \E outcome : call' = Settle(c, outcome)
      BY <2>6 DEF SendFails, Take, TimeOut, Forgotten
    <3> QED  BY <2>2, <3>1
  <2>7. CASE ChooseOther(c)
    <3> DEFINE d == [call[c] EXCEPT !.pc = "flip", !.other = Other(self.encoding)]
    <3>1. call' = [call EXCEPT ![c] = d] /\ UNCHANGED pending /\ call[c].pc = "choose"
      BY <1>0, <2>0, <2>7 DEF ChooseOther, Counted, Fields, CallShape
    <3> HIDE DEF d
    <3> QED  BY <1>0, <3>1, Leaves
  <2>8. CASE Flip(c)
    <3> DEFINE d == [call[c] EXCEPT !.pc = "check", !.try = 2, !.first = self.encoding]
    <3>1. call' = [call EXCEPT ![c] = d] /\ UNCHANGED pending /\ call[c].pc = "flip"
      BY <1>0, <2>0, <2>8 DEF Flip, Counted, Fields, CallShape
    <3> HIDE DEF d
    <3> QED  BY <1>0, <3>1, Leaves
  <2>9. CASE BothRefused(c)
    <3> DEFINE d == [Resting EXCEPT !.n = call[c].n]
    <3>1. call' = [call EXCEPT ![c] = d] /\ UNCHANGED pending /\ call[c].pc = "restore"
      BY <2>9 DEF BothRefused
    <3> HIDE DEF d
    <3> QED  BY <1>0, <3>1, Leaves
  <2> QED  BY <1>3, <2>1, <2>3, <2>4, <2>5, <2>6, <2>7, <2>8, <2>9 DEF CallerStep
<1>4. ASSUME NEW ids, NEW item, call' = Deliver(ids, item), UNCHANGED pending
      PROVE  PendingIsUnderWay'
  <2>1. \A c \in Callers : call'[c].pc = call[c].pc /\ Id(c)' = Id(c)
    BY <1>0, <1>4, DeliverShape DEF Id
  <2> QED  BY <1>4, <2>1 DEF PendingIsUnderWay
<1>5. CASE MainStep
  BY <1>1, <1>2, <1>5 DEF MainStep, Connect, OpenFails, Open, Grace, Close, DropSocket,
                          JoinReader, CloseWakes, WakeWaiters, FailPending
<1>6. ASSUME NEW s \in Sockets, ReaderStep(s) \/ ServerStep(s) PROVE PendingIsUnderWay'
  <2>1. CASE PutAnswer(s)
    <3>1. UNCHANGED pending /\ \E ids, item : call' = Deliver(ids, item)
      BY <2>1 DEF PutAnswer
    <3> QED  BY <1>4, <3>1
  <2>2. CASE WakeRefused(s) \/ ReaderEnd(s)
    BY <1>1, <2>2 DEF WakeRefused, ReaderEnd, FailPending
  <2>3. CASE ReaderStart(s) \/ ReadAnswer(s) \/ ReadRefusal(s) \/ ReadFails(s) \/ ServerStep(s)
    BY <1>2, <2>3 DEF ReaderStart, ReadAnswer, ReadRefusal, ReadFails, ServerStep, Serve,
                      ServerRefuses, Break, Lose
  <2> QED  BY <1>6, <2>1, <2>2, <2>3 DEF ReaderStep
<1>7. CASE UNCHANGED vars
  BY <1>2, <1>7 DEF vars
<1> QED  BY <1>3, <1>5, <1>6, <1>7 DEF Next

\* The routing table of the client holds the commands under way and nothing
\* else.
THEOREM PendingHolds == Spec => []PendingIsUnderWay
<1>1. Init => PendingIsUnderWay
  BY DEF Init, PendingIsUnderWay
<1> QED  BY <1>1, InitIInv, NextIInv, NextPending, PTL DEF Spec

-----------------------------------------------------------------------------
(* What callers are told: connections and readers, one at a time.          *)

\* Where connect() and close() are decides what the client points to.
MainInv ==
  /\ self.reader \in Sockets \union {NoSocket}
  /\ self.ws # NoSocket => self.reader = self.ws
  /\ self.ws = NoSocket /\ main # "join" => self.reader = NoSocket
  /\ main \in {"open", "join", "wake"} => self.ws = NoSocket
  /\ main \in {"open", "grace", "close"} => ~self.closing
  /\ self.closing /\ self.ws # NoSocket => main = "drop"

\* Nothing but the client's own socket is connected.
SocketsInv == \A s \in Sockets : sock[s].state \in {"open", "broken"} => self.ws = s

\* Only the client's own reader lives, and it reads its own socket.
OwnReader(s) ==
  /\ reader[s].pc # "dead" => self.reader = s
  /\ reader[s].pc \in {"recv", "put", "refuse"} => reader[s].ws = s
  /\ reader[s].pc = "refuse" => sock[s].refusal = "read"
ReadersInv == \A s \in Sockets : OwnReader(s)

\* A frame for a command is an answer of the server.
AnswersInv == \A s \in Sockets : \A f \in sock[s].down \union reader[s].got : f.answer \in Answers

\* What a caller has been told, or that it will be.
Told(c) ==
  /\ call[c].pc \notin {"send", "wait"} => call[c].item \notin {"closed", "refused"}
  /\ call[c].pc \in {"register", "send", "wait"} => call[c].ws \in Sockets
  /\ call[c].pc \in {"send", "wait"} =>
       /\ call[c].item = "none" => Id(c) \in pending
       /\ call[c].item = "closed" => reader[call[c].ws].pc = "dead"
       /\ call[c].item = "refused" =>
            \/ sock[call[c].ws].refusal = "read"
            \/ call[c].pc = "send" /\ sock[call[c].ws].state \notin {"open", "broken"}
  /\ call[c].pc = "wait" /\ call[c].item = "none" => call[c].ws = self.reader \/ main = "wake"

TInv == MainInv /\ SocketsInv /\ ReadersInv /\ AnswersInv /\ \A c \in Callers : Told(c)

-----------------------------------------------------------------------------
\* What a step of one caller may change.
LEMMA OneMoves ==
  ASSUME Shape, TInv, NEW c \in Callers, NEW d, call' = [call EXCEPT ![c] = d],
         self'.ws = self.ws, self'.reader = self.reader, self'.closing = self.closing,
         UNCHANGED <<main, reader>>,
         \A s \in Sockets : /\ sock'[s].state = sock[s].state
                            /\ sock'[s].refusal = sock[s].refusal
                            /\ sock'[s].down = sock[s].down,
         pending \ {Id(c)} \subseteq pending', Told(c)'
  PROVE  TInv'
<1>1. MainInv' /\ SocketsInv' /\ ReadersInv' /\ AnswersInv'
  BY DEF TInv, MainInv, SocketsInv, ReadersInv, OwnReader, AnswersInv
<1>2. ASSUME NEW b \in Callers, b # c PROVE Told(b)'
  <2>1. call'[b] = call[b] /\ Id(b)' = Id(b) /\ Id(b) # Id(c)
    BY <1>2 DEF Shape, CallShape, Id
  <2> QED  BY <2>1 DEF TInv, Told
<1> QED  BY <1>1, <1>2 DEF TInv

\* A caller at the end of a try waits for nothing.
LEMMA SettledMoves ==
  ASSUME Shape, TInv, NEW c \in Callers, NEW outcome, call' = Settle(c, outcome),
         UNCHANGED <<self, main, reader, sock>>, pending \ {Id(c)} \subseteq pending'
  PROVE  TInv'
<1> DEFINE d == Settle(c, outcome)[c]
<1>1. call' = [call EXCEPT ![c] = d] /\ d.item = "none" /\ d.pc \in {"choose", "restore", "idle"}
  BY SettleShape DEF Shape
<1> HIDE DEF d
<1>2. call'[c] = d
  BY <1>1 DEF Shape, CallShape
<1>3. Told(c)'
  BY <1>1, <1>2 DEF Told
<1> QED  BY <1>1, <1>3, OneMoves

\* The steps of request().
LEMMA CallerTold ==
  ASSUME IInv, TInv, NEW c \in Callers, Request(c) \/ CallerStep(c)
  PROVE  TInv'
<1>0. /\ Shape /\ CallShape /\ SelfShape /\ SockShape /\ Counted(call[c]) /\ Told(c)
      /\ MainInv /\ SocketsInv
  BY DEF IInv, Shape, CallShape, TInv
<1>1. CASE Request(c)
  <2>1. PICK signed \in BOOLEAN :
          call' = [call EXCEPT ![c] = [Resting EXCEPT !.pc = "check", !.n = call[c].n + 1,
                                                      !.signed = signed]]
    BY <1>1 DEF Request
  <2>2. Told(c)'
    BY <1>0, <2>1 DEF Told, CallShape, Resting
  <2> QED  BY <1>0, <1>1, <2>1, <2>2, OneMoves DEF Request
<1>2. CASE CheckConnected(c)
  <2>1. call[c].pc = "check" /\ UNCHANGED <<self, pending, sock, main, reader>>
    BY <1>2 DEF CheckConnected
  <2>2. CASE self.rejection \/ self.ws = NoSocket
    <3>1. call' = Settle(c, "refused") \/ call' = Settle(c, "unconnected")
      BY <1>2, <2>2 DEF CheckConnected
    <3> QED  BY <1>0, <2>1, <3>1, SettledMoves
  <2>3. CASE ~self.rejection /\ self.ws # NoSocket
    <3> DEFINE d == [call[c] EXCEPT !.pc = "register", !.ws = self.ws]
    <3>1. call' = [call EXCEPT ![c] = d] /\ call'[c] = d
      BY <1>0, <1>2, <2>3 DEF CheckConnected, Counted, Fields, CallShape
    <3>2. d.pc = "register" /\ d.ws \in Sockets /\ d.item = call[c].item
      BY <1>0, <2>3 DEF SelfShape, Counted, Fields
    <3> HIDE DEF d
    <3>3. Told(c)'
      BY <1>0, <2>1, <3>1, <3>2 DEF Told
    <3> QED  BY <1>0, <2>1, <3>1, <3>3, OneMoves
  <2> QED  BY <2>2, <2>3
<1>3. CASE Register(c)
  <2>1. call[c].pc = "register" /\ UNCHANGED <<self, sock, main, reader>>
    BY <1>3 DEF Register
  <2>2. CASE call' = Settle(c, "no key") /\ UNCHANGED pending
    BY <1>0, <2>1, <2>2, SettledMoves
  <2>3. CASE /\ call' = [call EXCEPT ![c].pc = "send", ![c].encoding = self.encoding,
                                     ![c].item = "none"]
             /\ pending' = pending \union {Id(c)}
    <3> DEFINE d == [call[c] EXCEPT !.pc = "send", !.encoding = self.encoding, !.item = "none"]
    <3>1. call' = [call EXCEPT ![c] = d] /\ call'[c] = d
      BY <1>0, <2>3 DEF Counted, Fields, CallShape
    <3>2. /\ d.pc = "send" /\ d.ws = call[c].ws /\ d.item = "none"
          /\ d.n = call[c].n /\ d.try = call[c].try
      BY <1>0 DEF Counted, Fields
    <3> HIDE DEF d
    <3>3. Id(c)' = Id(c)
      BY <3>1, <3>2 DEF Id
    <3>4. Told(c)'
      BY <1>0, <2>1, <2>3, <3>1, <3>2, <3>3 DEF Told
    <3> QED  BY <1>0, <2>1, <2>3, <3>1, <3>4, OneMoves
  <2> QED  BY <1>3, <2>2, <2>3 DEF Register
<1>4. CASE Send(c)
  <2> DEFINE d == [call[c] EXCEPT !.pc = "wait"]
  <2>1. /\ call[c].pc = "send" /\ UNCHANGED <<self, pending, main, reader>>
        /\ sock[call[c].ws].state \in {"open", "broken"}
    BY <1>4 DEF Send
  <2>2. call' = [call EXCEPT ![c] = d] /\ call'[c] = d
    BY <1>0, <1>4 DEF Send, Counted, Fields, CallShape
  <2>3. /\ d.pc = "wait" /\ d.ws = call[c].ws /\ d.item = call[c].item
        /\ d.n = call[c].n /\ d.try = call[c].try
    BY <1>0 DEF Counted, Fields
  <2> HIDE DEF d
  <2>4. Id(c)' = Id(c)
    BY <2>2, <2>3 DEF Id
  <2>5. \A s \in Sockets : /\ sock'[s].state = sock[s].state
                           /\ sock'[s].refusal = sock[s].refusal
                           /\ sock'[s].down = sock[s].down
    BY <1>0, <1>4 DEF Send, SockShape
  <2>6. call[c].ws \in Sockets /\ call[c].ws = self.ws /\ self.reader = self.ws
    BY <1>0, <2>1, SocketsAssumption DEF Told, SocketsInv, MainInv
  <2>7. Told(c)'
    BY <1>0, <2>1, <2>2, <2>3, <2>4, <2>5, <2>6 DEF Told
  <2> QED  BY <1>0, <2>1, <2>2, <2>5, <2>7, OneMoves
<1>5. CASE SendFails(c) \/ Take(c) \/ TimeOut(c)
  <2>1. /\ UNCHANGED <<self, sock, main, reader>> /\ pending' = pending \ {Id(c)}
        /\ \E outcome : call' = Settle(c, outcome)
    BY <1>5 DEF SendFails, Take, TimeOut, Forgotten
  <2> QED  BY <1>0, <2>1, SettledMoves
<1>6. CASE ChooseOther(c)
  <2> DEFINE d == [call[c] EXCEPT !.pc = "flip", !.other = Other(self.encoding)]
  <2>1. call' = [call EXCEPT ![c] = d] /\ call'[c] = d
    BY <1>0, <1>6 DEF ChooseOther, Counted, Fields, CallShape
  <2>2. d.pc = "flip" /\ d.item = call[c].item
    BY <1>0 DEF Counted, Fields
  <2> HIDE DEF d
  <2>3. call[c].pc = "choose" /\ UNCHANGED <<self, sock, pending, main, reader>>
    BY <1>6 DEF ChooseOther
  <2>4. Told(c)'
    BY <1>0, <2>1, <2>2, <2>3 DEF Told
  <2> QED  BY <1>0, <2>1, <2>3, <2>4, OneMoves
<1>7. CASE Flip(c)
  <2> DEFINE d == [call[c] EXCEPT !.pc = "check", !.try = 2, !.first = self.encoding]
  <2>1. call' = [call EXCEPT ![c] = d] /\ call'[c] = d
    BY <1>0, <1>7 DEF Flip, Counted, Fields, CallShape
  <2>2. d.pc = "check" /\ d.item = call[c].item
    BY <1>0 DEF Counted, Fields
  <2> HIDE DEF d
  <2>3. /\ call[c].pc = "flip" /\ UNCHANGED <<sock, pending, main, reader>>
        /\ self'.ws = self.ws /\ self'.reader = self.reader /\ self'.closing = self.closing
    BY <1>0, <1>7 DEF Flip, SelfShape
  <2>4. Told(c)'
    BY <1>0, <2>1, <2>2, <2>3 DEF Told
  <2> QED  BY <1>0, <2>1, <2>3, <2>4, OneMoves
<1>8. CASE BothRefused(c)
  <2>1. /\ call' = [call EXCEPT ![c] = [Resting EXCEPT !.n = call[c].n]]
        /\ UNCHANGED <<sock, pending, main, reader>>
        /\ self'.ws = self.ws /\ self'.reader = self.reader /\ self'.closing = self.closing
    BY <1>0, <1>8 DEF BothRefused, SelfShape
  <2>2. Told(c)'
    BY <1>0, <2>1 DEF Told, CallShape, Resting
  <2> QED  BY <1>0, <2>1, <2>2, OneMoves
<1> QED  BY <1>1, <1>2, <1>3, <1>4, <1>5, <1>6, <1>7, <1>8 DEF CallerStep

-----------------------------------------------------------------------------
\* _fail_pending tells every caller under way that has not been told.
LEMMA Woken ==
  ASSUME Shape, TInv, PendingIsUnderWay, NEW error, call' = Deliver(pending, error),
         NEW c \in Callers
  PROVE  /\ call'[c].pc = call[c].pc /\ call'[c].ws = call[c].ws /\ Id(c)' = Id(c)
         /\ call'[c].item = IF call[c].pc \in {"send", "wait"} /\ call[c].item = "none"
                            THEN error ELSE call[c].item
<1>1. call'[c] = IF Id(c) \in pending /\ call[c].item = "none"
                 THEN [call[c] EXCEPT !.item = error] ELSE call[c]
  BY DEF Deliver
<1>2. DOMAIN call[c] = Fields
  BY DEF Shape, CallShape, Counted
<1>3. Id(c) \in pending => call[c].pc \in {"send", "wait"}
  BY DEF PendingIsUnderWay, Id
<1>4. call[c].pc \in {"send", "wait"} /\ call[c].item = "none" => Id(c) \in pending
  BY DEF TInv, Told
<1> QED  BY <1>1, <1>2, <1>3, <1>4 DEF Fields, Id

\* An answer is no error.
LEMMA Answered ==
  ASSUME Shape, NEW c \in Callers, Told(c), NEW id, NEW answer \in Answers,
         call' = Deliver({id}, answer), UNCHANGED <<self, pending, sock, main>>,
         \A s \in Sockets : reader[s].pc = "dead" => reader'[s].pc = "dead"
  PROVE  Told(c)'
<1>1. call'[c] = IF Id(c) = id /\ call[c].item = "none"
                 THEN [call[c] EXCEPT !.item = answer] ELSE call[c]
  BY DEF Deliver
<1>2. DOMAIN call[c] = Fields
  BY DEF Shape, CallShape, Counted
<1>3. /\ call'[c].pc = call[c].pc /\ call'[c].ws = call[c].ws /\ Id(c)' = Id(c)
      /\ call'[c].item = call[c].item \/ (call[c].item = "none" /\ call'[c].item = answer)
  BY <1>1, <1>2 DEF Fields, Id
<1> QED  BY <1>3 DEF Told, Answers

\* The steps of a reader.
LEMMA ReaderTold ==
  ASSUME IInv, TInv, PendingIsUnderWay, NEW s \in Sockets, ReaderStep(s)
  PROVE  TInv'
<1>0. /\ Shape /\ SelfShape /\ SockShape /\ ReaderShape
      /\ MainInv /\ SocketsInv /\ ReadersInv /\ AnswersInv
      /\ \A c \in Callers : Told(c)
  BY DEF IInv, Shape, TInv
<1>8. Again \in {"recv", "end"} /\ (Again = "end" => self.closing)
  BY DEF Again
<1>1. CASE ReaderStart(s)
  <2>1. /\ reader' = [reader EXCEPT ![s].ws = self.ws,
                                    ![s].pc = IF self.ws = NoSocket THEN "end" ELSE Again]
        /\ UNCHANGED <<self, pending, sock, main, call>>
        /\ reader[s].pc = "start"
    BY <1>1 DEF ReaderStart
  <2>2. /\ \A t \in Sockets : t # s => reader'[t] = reader[t]
        /\ reader'[s].ws = self.ws /\ reader'[s].got = reader[s].got
        /\ reader'[s].pc = IF self.ws = NoSocket THEN "end" ELSE Again
    BY <1>0, <2>1 DEF ReaderShape
  <2>3. self.reader = s /\ (self.ws # NoSocket => self.ws = s)
    BY <1>0, <2>1 DEF ReadersInv, OwnReader, MainInv
  <2>5. ReadersInv'
    <3>1. reader'[s].pc \in {"recv", "end"} /\ (reader'[s].pc = "recv" => reader'[s].ws = s)
      BY <1>8, <2>2, <2>3
    <3>2. OwnReader(s)'
      BY <2>1, <2>2, <2>3, <3>1 DEF OwnReader
    <3>3. ASSUME NEW t \in Sockets, t # s PROVE OwnReader(t)'
      BY <1>0, <2>1, <2>2, <3>3 DEF ReadersInv, OwnReader
    <3> QED  BY <3>2, <3>3 DEF ReadersInv
  <2>6. MainInv' /\ SocketsInv' /\ AnswersInv' /\ \A c \in Callers : Told(c)'
    BY <1>0, <2>1, <2>2 DEF MainInv, SocketsInv, AnswersInv, Told, Id
  <2> QED  BY <2>5, <2>6 DEF TInv
<1>2. CASE ReadAnswer(s)
  <2>1. PICK frame \in sock[reader[s].ws].down :
          /\ sock' = [sock EXCEPT ![reader[s].ws].down = @ \ {frame}]
          /\ reader' = [reader EXCEPT
               ![s] = IF frame.id \in pending
                      THEN [@ EXCEPT !.pc = "put", !.got = {frame}]
                      ELSE [@ EXCEPT !.pc = Again]]
    BY <1>2 DEF ReadAnswer
  <2>2. reader[s].pc = "recv" /\ UNCHANGED <<self, pending, main, call>>
    BY <1>2 DEF ReadAnswer
  <2>3. reader[s].ws = s /\ self.reader = s /\ frame \in sock[s].down
    BY <1>0, <2>1, <2>2 DEF ReadersInv, OwnReader
  <2>4. SockShape' /\ \A t \in Sockets :
          /\ sock'[t].state = sock[t].state /\ sock'[t].refusal = sock[t].refusal
          /\ sock'[t].down \subseteq sock[t].down
    BY <1>0, <2>1, <2>3 DEF SockShape
  <2>5. /\ \A t \in Sockets : t # s => reader'[t] = reader[t]
        /\ reader'[s].ws = s /\ reader'[s].got \subseteq reader[s].got \union {frame}
        /\ reader'[s].pc \in {"put", Again}
    <3>0. DOMAIN reader[s] = {"pc", "ws", "got"} /\ reader = [t \in Sockets |-> reader[t]]
      BY <1>0 DEF ReaderShape
    <3>1. CASE frame.id \in pending
      <4>1. reader' = [reader EXCEPT ![s] = [@ EXCEPT !.pc = "put", !.got = {frame}]]
        BY <2>1, <3>1
      <4> QED  BY <2>3, <3>0, <4>1
    <3>2. CASE frame.id \notin pending
      <4>1. reader' = [reader EXCEPT ![s] = [@ EXCEPT !.pc = Again]]
        BY <2>1, <3>2
      <4> QED  BY <2>3, <3>0, <4>1
    <3> QED  BY <3>1, <3>2
  <2>6. ReadersInv'
    <3>1. OwnReader(s)'
      BY <1>0, <1>8, <2>2, <2>3, <2>4, <2>5 DEF ReadersInv, OwnReader
    <3>2. ASSUME NEW t \in Sockets, t # s PROVE OwnReader(t)'
      BY <1>0, <2>2, <2>4, <2>5, <3>2 DEF ReadersInv, OwnReader
    <3> QED  BY <3>1, <3>2 DEF ReadersInv
  <2>7. AnswersInv'
    BY <1>0, <2>3, <2>4, <2>5 DEF AnswersInv
  <2>8. MainInv' /\ SocketsInv' /\ \A c \in Callers : Told(c)'
    BY <1>0, <2>2, <2>4, <2>5 DEF MainInv, SocketsInv, Told, Id
  <2> QED  BY <2>6, <2>7, <2>8 DEF TInv
<1>3. CASE PutAnswer(s)
  <2>1. PICK frame \in reader[s].got : call' = Deliver({frame.id}, frame.answer)
    BY <1>3 DEF PutAnswer
  <2>2. /\ reader[s].pc = "put" /\ UNCHANGED <<self, pending, sock, main>>
        /\ reader' = [reader EXCEPT ![s].pc = Again, ![s].got = {}]
    BY <1>3 DEF PutAnswer
  <2>3. /\ \A t \in Sockets : t # s => reader'[t] = reader[t]
        /\ reader'[s].ws = reader[s].ws /\ reader'[s].got = {} /\ reader'[s].pc = Again
    <3>1. reader = [t \in Sockets |-> reader[t]] /\ DOMAIN reader[s] = {"pc", "ws", "got"}
      BY <1>0 DEF ReaderShape
    <3> QED  BY <2>2, <3>1
  <2>4. MainInv' /\ SocketsInv' /\ AnswersInv'
    BY <1>0, <2>2, <2>3 DEF MainInv, SocketsInv, AnswersInv
  <2>7. ReadersInv'
    <3>1. OwnReader(s)'
      BY <1>0, <1>8, <2>2, <2>3 DEF ReadersInv, OwnReader
    <3>2. ASSUME NEW t \in Sockets, t # s PROVE OwnReader(t)'
      BY <1>0, <2>2, <2>3, <3>2 DEF ReadersInv, OwnReader
    <3> QED  BY <3>1, <3>2 DEF ReadersInv
  <2>5. frame.answer \in Answers
    BY <1>0 DEF AnswersInv
  <2>6. \A c \in Callers : Told(c)'
    BY <1>0, <2>1, <2>2, <2>3, <2>5, Answered
  <2> QED  BY <2>4, <2>7, <2>6 DEF TInv
<1>4. CASE ReadRefusal(s)
  <2>1. /\ reader[s].pc = "recv" /\ UNCHANGED <<pending, main, call>>
        /\ sock' = [sock EXCEPT ![reader[s].ws].refusal = "read"]
        /\ self'.ws = self.ws /\ self'.reader = self.reader /\ self'.closing = self.closing
        /\ reader' = [reader EXCEPT ![s].pc = "refuse"]
    BY <1>0, <1>4 DEF ReadRefusal, ReaderGoto, SelfShape
  <2>2. reader[s].ws = s
    BY <1>0, <2>1 DEF ReadersInv, OwnReader
  <2>3. \A t \in Sockets :
          /\ sock'[t].state = sock[t].state /\ sock'[t].down = sock[t].down
          /\ sock'[t].refusal = IF t = s THEN "read" ELSE sock[t].refusal
    BY <1>0, <2>1, <2>2 DEF SockShape
  <2>4. /\ \A t \in Sockets : t # s => reader'[t] = reader[t]
        /\ reader'[s].ws = reader[s].ws /\ reader'[s].got = reader[s].got
        /\ reader'[s].pc = "refuse"
    BY <1>0, <2>1 DEF ReaderShape
  <2>5. MainInv' /\ SocketsInv' /\ ReadersInv' /\ AnswersInv'
    BY <1>0, <2>1, <2>2, <2>3, <2>4 DEF MainInv, SocketsInv, ReadersInv, OwnReader, AnswersInv
  <2>6. \A c \in Callers : Told(c)'
    BY <1>0, <2>1, <2>3, <2>4 DEF Told, Id
  <2> QED  BY <2>5, <2>6 DEF TInv
<1>5. CASE WakeRefused(s)
  <2>1. /\ reader[s].pc = "refuse" /\ UNCHANGED <<self, sock, main>>
        /\ call' = Deliver(pending, "refused") /\ pending' = {}
        /\ reader' = [reader EXCEPT ![s].pc = Again]
    BY <1>5 DEF WakeRefused, FailPending, ReaderGoto
  <2>2. /\ \A t \in Sockets : t # s => reader'[t] = reader[t]
        /\ reader'[s].ws = reader[s].ws /\ reader'[s].got = reader[s].got
        /\ reader'[s].pc = Again
    BY <1>0, <2>1 DEF ReaderShape
  <2>3. MainInv' /\ SocketsInv' /\ ReadersInv' /\ AnswersInv'
    BY <1>0, <1>8, <2>1, <2>2 DEF MainInv, SocketsInv, ReadersInv, OwnReader, AnswersInv
  <2>4. sock[s].refusal = "read" /\ self.reader = s /\ main # "wake"
    BY <1>0, <2>1, SocketsAssumption DEF ReadersInv, OwnReader, MainInv
  <2>5. \A t \in Sockets : sock[t].state \in {"open", "broken"} => t = s
    BY <1>0, <2>4, SocketsAssumption DEF SocketsInv, MainInv
  <2>6. ASSUME NEW c \in Callers PROVE Told(c)'
    <3>1. /\ call'[c].pc = call[c].pc /\ call'[c].ws = call[c].ws /\ Id(c)' = Id(c)
          /\ call'[c].item = IF call[c].pc \in {"send", "wait"} /\ call[c].item = "none"
                             THEN "refused" ELSE call[c].item
      BY <1>0, <2>1, Woken
    <3> QED  BY <1>0, <2>1, <2>2, <2>4, <2>5, <3>1 DEF Told
  <2> QED  BY <2>3, <2>6 DEF TInv
<1>6. CASE ReadFails(s)
  <2>1. /\ UNCHANGED <<self, pending, sock, main, call>> /\ reader[s].pc = "recv"
        /\ reader' = [reader EXCEPT ![s].pc = "end"]
    BY <1>6 DEF ReadFails, ReaderGoto
  <2>2. /\ \A t \in Sockets : t # s => reader'[t] = reader[t]
        /\ reader'[s].ws = reader[s].ws /\ reader'[s].got = reader[s].got
        /\ reader'[s].pc = "end"
    BY <1>0, <2>1 DEF ReaderShape
  <2>3. MainInv' /\ SocketsInv' /\ ReadersInv' /\ AnswersInv'
    BY <1>0, <2>1, <2>2 DEF MainInv, SocketsInv, ReadersInv, OwnReader, AnswersInv
  <2>4. \A c \in Callers : Told(c)'
    BY <1>0, <2>1, <2>2 DEF Told, Id
  <2> QED  BY <2>3, <2>4 DEF TInv
<1>7. CASE ReaderEnd(s)
  <2>1. /\ reader[s].pc = "end" /\ UNCHANGED <<self, sock, main>>
        /\ call' = Deliver(pending, "closed") /\ pending' = {}
        /\ reader' = [reader EXCEPT ![s] = NoReader]
    BY <1>7 DEF ReaderEnd, FailPending
  <2>2. /\ \A t \in Sockets : t # s => reader'[t] = reader[t]
        /\ reader'[s] = NoReader
    BY <1>0, <2>1 DEF ReaderShape
  <2>3. MainInv' /\ SocketsInv' /\ ReadersInv' /\ AnswersInv'
    BY <1>0, <2>1, <2>2 DEF MainInv, SocketsInv, ReadersInv, OwnReader, AnswersInv, NoReader
  <2>5. \A t \in Sockets : reader'[t].pc = "dead"
    BY <1>0, <2>1, <2>2 DEF ReadersInv, OwnReader, NoReader
  <2>6. ASSUME NEW c \in Callers PROVE Told(c)'
    <3>1. /\ call'[c].pc = call[c].pc /\ call'[c].ws = call[c].ws /\ Id(c)' = Id(c)
          /\ call'[c].item = IF call[c].pc \in {"send", "wait"} /\ call[c].item = "none"
                             THEN "closed" ELSE call[c].item
      BY <1>0, <2>1, Woken
    <3> QED  BY <1>0, <2>1, <2>5, <3>1 DEF Told
  <2> QED  BY <2>3, <2>6 DEF TInv
<1> QED  BY <1>1, <1>2, <1>3, <1>4, <1>5, <1>6, <1>7 DEF ReaderStep

-----------------------------------------------------------------------------
\* The steps of connect() and close().
LEMMA MainTold ==
  ASSUME IInv, TInv, PendingIsUnderWay, MainStep
  PROVE  TInv'
<1>0. /\ Shape /\ SelfShape /\ SockShape /\ ReaderShape
      /\ MainInv /\ SocketsInv /\ ReadersInv /\ AnswersInv
      /\ \A c \in Callers : Told(c)
  BY DEF IInv, Shape, TInv
<1>1. CASE Connect
  <2>1. /\ main = "idle" /\ self.ws = NoSocket /\ self'.ws = self.ws /\ self'.reader = self.reader
        /\ ~self'.closing /\ main' = "open"
        /\ UNCHANGED <<pending, sock, reader, call>>
    BY <1>0, <1>1 DEF Connect, SelfShape
  <2>2. MainInv' /\ SocketsInv' /\ AnswersInv' /\ \A c \in Callers : Told(c)'
    BY <1>0, <2>1 DEF MainInv, SocketsInv, AnswersInv, Told, Id
  <2>3. ReadersInv'
    BY <1>0, <2>1, SocketsAssumption DEF MainInv, ReadersInv, OwnReader
  <2> QED  BY <2>2, <2>3 DEF TInv
<1>2. CASE OpenFails \/ Grace
  <2>1. /\ UNCHANGED <<self, pending, sock, reader, call>>
        /\ main \in {"open", "grace"} /\ main' \in {"idle", "close"}
    BY <1>2 DEF OpenFails, Grace
  <2>2. MainInv' /\ SocketsInv' /\ ReadersInv' /\ AnswersInv' /\ \A c \in Callers : Told(c)'
    BY <1>0, <2>1 DEF MainInv, SocketsInv, ReadersInv, OwnReader, AnswersInv, Told, Id
  <2> QED  BY <2>2 DEF TInv
<1>3. CASE Open
  <2>1. PICK s \in FreeSockets :
          /\ self' = [self EXCEPT !.ws = s, !.reader = s]
          /\ sock' = [sock EXCEPT ![s] = [Absent EXCEPT !.state = "open"]]
          /\ reader' = [reader EXCEPT ![s] = [NoReader EXCEPT !.pc = "start"]]
    BY <1>3 DEF Open
  <2>2. main = "open" /\ main' = "grace" /\ UNCHANGED <<pending, call>>
    BY <1>3 DEF Open
  <2>3. s \in Sockets /\ \A c \in Callers : call[c].ws # s
    BY DEF FreeSockets
  <2>4. self'.ws = s /\ self'.reader = s /\ ~self'.closing
    BY <1>0, <2>1, <2>2 DEF SelfShape, MainInv
  <2>5. /\ \A t \in Sockets : t # s => sock'[t] = sock[t] /\ reader'[t] = reader[t]
        /\ sock'[s].down = {} /\ reader'[s].got = {} /\ reader'[s].pc = "start"
    BY <1>0, <2>1, <2>3 DEF SockShape, ReaderShape, Absent, NoReader
  <2>6. /\ self.ws = NoSocket /\ self.reader = NoSocket
        /\ \A t \in Sockets : reader[t].pc = "dead" /\ sock[t].state \notin {"open", "broken"}
    BY <1>0, <2>2, SocketsAssumption DEF MainInv, ReadersInv, OwnReader, SocketsInv
  <2>7. MainInv' /\ SocketsInv' /\ ReadersInv' /\ AnswersInv'
    BY <1>0, <2>2, <2>3, <2>4, <2>5, <2>6, SocketsAssumption
       DEF MainInv, SocketsInv, ReadersInv, OwnReader, AnswersInv
  <2>8. ASSUME NEW c \in Callers PROVE Told(c)'
    <3>1. call[c].ws \in Sockets => /\ sock'[call[c].ws] = sock[call[c].ws]
                                    /\ reader'[call[c].ws] = reader[call[c].ws]
      BY <2>3, <2>5
    <3>2. ~(call[c].pc = "wait" /\ call[c].item = "none")
      BY <1>0, <2>2, <2>6, SocketsAssumption DEF Told
    <3> QED  BY <1>0, <2>2, <3>1, <3>2 DEF Told, Id
  <2> QED  BY <2>7, <2>8 DEF TInv
<1>4. CASE Close
  <2>1. /\ main \in {"idle", "close"} /\ main' = "drop" /\ UNCHANGED <<pending, sock, reader, call>>
        /\ self'.ws = self.ws /\ self'.reader = self.reader
    BY <1>0, <1>4 DEF Close, SelfShape
  <2>2. self'.closing = TRUE
    BY <1>0, <1>4 DEF Close, SelfShape
  <2>3. MainInv' /\ SocketsInv' /\ ReadersInv' /\ AnswersInv' /\ \A c \in Callers : Told(c)'
    BY <1>0, <2>1, <2>2 DEF MainInv, SocketsInv, ReadersInv, OwnReader, AnswersInv, Told, Id
  <2> QED  BY <2>3 DEF TInv
<1>5. CASE DropSocket
  <2>1. /\ main = "drop" /\ main' = "join" /\ UNCHANGED <<pending, reader, call>>
        /\ self'.ws = NoSocket /\ self'.reader = self.reader /\ self'.closing = self.closing
    BY <1>0, <1>5 DEF DropSocket, SelfShape
  <2>2. \A t \in Sockets :
          /\ sock'[t].refusal = sock[t].refusal /\ sock'[t].down = sock[t].down
          /\ sock'[t].state = IF t = self.ws THEN "closed" ELSE sock[t].state
    BY <1>0, <1>5, SocketsAssumption DEF DropSocket, ClosedSocket, SelfShape, SockShape
  <2>3. \A t \in Sockets : sock'[t].state \notin {"open", "broken"}
    BY <1>0, <2>2 DEF SocketsInv
  <2>4. MainInv' /\ SocketsInv' /\ ReadersInv' /\ AnswersInv'
    BY <1>0, <2>1, <2>2, <2>3, SocketsAssumption DEF MainInv, SocketsInv, ReadersInv, OwnReader, AnswersInv
  <2>5. \A c \in Callers : Told(c)'
    BY <1>0, <2>1, <2>2, <2>3 DEF Told, Id
  <2> QED  BY <2>4, <2>5 DEF TInv
<1>6. CASE JoinReader
  <2>1. /\ main = "join" /\ main' = "wake" /\ UNCHANGED <<pending, sock, reader, call>>
        /\ self'.ws = self.ws /\ self'.reader = NoSocket /\ self'.closing = self.closing
        /\ ~Alive(self.reader)
    BY <1>0, <1>6 DEF JoinReader, Joined, SelfShape
  <2>2. \A t \in Sockets : reader[t].pc = "dead"
    BY <1>0, <2>1, SocketsAssumption DEF ReadersInv, OwnReader, Alive
  <2>3. MainInv' /\ SocketsInv' /\ ReadersInv' /\ AnswersInv' /\ \A c \in Callers : Told(c)'
    BY <1>0, <2>1, <2>2 DEF MainInv, SocketsInv, ReadersInv, OwnReader, AnswersInv, Told, Id
  <2> QED  BY <2>3 DEF TInv
<1>7. CASE CloseWakes
  <2>1. /\ main = "wake" /\ main' = "idle" /\ UNCHANGED <<self, sock, reader>>
        /\ call' = Deliver(pending, "closed") /\ pending' = {}
    BY <1>7 DEF CloseWakes, WakeWaiters, FailPending
  <2>2. MainInv' /\ SocketsInv' /\ ReadersInv' /\ AnswersInv'
    BY <1>0, <2>1 DEF MainInv, SocketsInv, ReadersInv, OwnReader, AnswersInv
  <2>3. \A t \in Sockets : reader[t].pc = "dead"
    BY <1>0, <2>1, SocketsAssumption DEF ReadersInv, OwnReader, MainInv
  <2>4. ASSUME NEW c \in Callers PROVE Told(c)'
    <3>1. /\ call'[c].pc = call[c].pc /\ call'[c].ws = call[c].ws /\ Id(c)' = Id(c)
          /\ call'[c].item = IF call[c].pc \in {"send", "wait"} /\ call[c].item = "none"
                             THEN "closed" ELSE call[c].item
      BY <1>0, <2>1, Woken
    <3> QED  BY <1>0, <2>1, <2>3, <3>1 DEF Told
  <2> QED  BY <2>2, <2>4 DEF TInv
<1> QED  BY <1>1, <1>2, <1>3, <1>4, <1>5, <1>6, <1>7 DEF MainStep

\* The server and the network.
LEMMA ServerTold ==
  ASSUME IInv, TInv, NEW s \in Sockets, ServerStep(s)
  PROVE  TInv'
<1>0. /\ Shape /\ SockShape
      /\ MainInv /\ SocketsInv /\ ReadersInv /\ AnswersInv
      /\ \A c \in Callers : Told(c)
  BY DEF IInv, Shape, TInv
<1>1. UNCHANGED <<self, pending, main, reader, call>>
  BY DEF ServerStep, Serve, ServerRefuses, Break, Lose
<1>2. \A t \in Sockets : t # s => sock'[t] = sock[t]
  BY <1>0 DEF SockShape, ServerStep, Serve, ServerRefuses, Break, Lose
<1>3. /\ sock'[s].state = sock[s].state \/ (sock[s].state = "open" /\ sock'[s].state = "broken")
      /\ sock[s].refusal = "read" => sock'[s].refusal = "read"
  <2>0. sock = [t \in Sockets |-> sock[t]] /\ DOMAIN sock[s] = {"state", "up", "down", "refusal"}
    BY <1>0 DEF SockShape
  <2>1. CASE Serve(s)
    <3>1. \E up, down : sock' = [sock EXCEPT ![s].up = up, ![s].down = down]
      BY <2>1 DEF Serve
    <3> QED  BY <2>0, <3>1
  <2>2. CASE ServerRefuses(s)
    BY <2>0, <2>2 DEF ServerRefuses
  <2>3. CASE Break(s)
    BY <2>0, <2>3 DEF Break
  <2>4. CASE Lose(s)
    BY <2>0, <2>4 DEF Lose
  <2> QED  BY <2>1, <2>2, <2>3, <2>4 DEF ServerStep
<1>4. \A f \in sock'[s].down : f \in sock[s].down \/ f.answer \in Answers
  <2>1. CASE Serve(s)
    <3>1. PICK command \in sock[s].up, answer \in Answers :
            sock' = [sock EXCEPT
              ![s].up = @ \ {command},
              ![s].down = IF sock[s].state = "open"
                          THEN @ \union {[id |-> command.id, answer |-> answer]} ELSE @]
      BY <2>1 DEF Serve
    <3>2. sock'[s].down \subseteq sock[s].down \union {[id |-> command.id, answer |-> answer]}
      BY <1>0, <3>1 DEF SockShape
    <3> QED  BY <3>2
  <2>2. CASE ServerRefuses(s) \/ Break(s) \/ Lose(s)
    BY <1>0, <2>2 DEF SockShape, ServerRefuses, Break, Lose
  <2> QED  BY <2>1, <2>2 DEF ServerStep
<1>5. MainInv' /\ SocketsInv' /\ ReadersInv' /\ AnswersInv'
  BY <1>0, <1>1, <1>2, <1>3, <1>4 DEF MainInv, SocketsInv, ReadersInv, OwnReader, AnswersInv
<1>6. ASSUME NEW c \in Callers PROVE Told(c)'
  <2>1. /\ sock'[call[c].ws].state = sock[call[c].ws].state
           \/ (sock[call[c].ws].state = "open" /\ sock'[call[c].ws].state = "broken")
        /\ sock[call[c].ws].refusal = "read" => sock'[call[c].ws].refusal = "read"
        \/ call[c].ws \notin Sockets
    BY <1>2, <1>3
  <2> QED  BY <1>0, <1>1, <2>1 DEF Told, Id
<1> QED  BY <1>5, <1>6 DEF TInv

-----------------------------------------------------------------------------
\* At the start nobody waits and nothing is connected.
LEMMA InitTold == Init => TInv
BY SocketsAssumption DEF Init, TInv, MainInv, SocketsInv, ReadersInv, OwnReader, AnswersInv, Told,
                         Absent, NoReader, Resting

\* Every step keeps what callers are told true.
LEMMA NextTold == IInv /\ TInv /\ PendingIsUnderWay /\ [Next]_vars => TInv'
<1> SUFFICES ASSUME IInv, TInv, PendingIsUnderWay, [Next]_vars PROVE TInv'
  OBVIOUS
<1>1. CASE MainStep
  BY <1>1, MainTold
<1>2. ASSUME NEW s \in Sockets, ReaderStep(s) \/ ServerStep(s) PROVE TInv'
  BY <1>2, ReaderTold, ServerTold
<1>3. ASSUME NEW c \in Callers, Request(c) \/ CallerStep(c) PROVE TInv'
  BY <1>3, CallerTold
<1>4. CASE UNCHANGED vars
  BY <1>4 DEF vars, TInv, MainInv, SocketsInv, ReadersInv, OwnReader, AnswersInv, Told, Id
<1> QED  BY <1>1, <1>2, <1>3, <1>4 DEF Next

\* The three invariants together are kept.
THEOREM TruthInductive == Spec => [](IInv /\ PendingIsUnderWay /\ TInv)
<1>1. Init => PendingIsUnderWay
  BY DEF Init, PendingIsUnderWay
<1> QED  BY <1>1, InitIInv, InitTold, NextIInv, NextPending, NextTold, PTL DEF Spec

\* A caller is told that its connection is gone only when the socket it sent its
\* command on has lost its reader, and that it was refused only when that was read
\* from this socket.
THEOREM TruthHolds == Spec => []ToldTheTruth
<1>1. TInv => ToldTheTruth
  BY DEF TInv, Told, ToldTheTruth, Alive
<1> QED  BY <1>1, TruthInductive, PTL

\* close() does not hang in its join, and when it is done nobody waits for an
\* answer on the socket it closed.
THEOREM CloseHolds == Spec => []CloseLeavesNobody
<1>1. IInv /\ TInv => CloseLeavesNobody
  <2> SUFFICES ASSUME IInv, TInv PROVE CloseLeavesNobody
    OBVIOUS
  <2>1. /\ MainInv /\ SocketsInv /\ ReadersInv /\ SelfShape /\ ReaderShape
        /\ \A c \in Callers : Told(c)
    BY DEF IInv, Shape, TInv
  <2>2. main = "join" => \A t \in Sockets : sock[t].state # "open"
    BY <2>1, SocketsAssumption DEF MainInv, SocketsInv
  <2>3. ASSUME Alive(self.reader), reader[self.reader].pc = "recv", self.reader \in Sockets
        PROVE  reader[self.reader].ws \in Sockets
    BY <2>1, <2>3 DEF ReaderShape
  <2>4. main = "idle" /\ self.ws = NoSocket =>
          \A c \in Callers : call[c].pc = "wait" => call[c].item # "none"
    BY <2>1, SocketsAssumption DEF MainInv, Told
  <2>5. Alive(self.reader) => self.reader \in Sockets
    BY <2>1 DEF Alive, MainInv
  <2> QED  BY <2>2, <2>3, <2>4, <2>5 DEF CloseLeavesNobody
<1> QED  BY <1>1, TruthInductive, PTL

-----------------------------------------------------------------------------
(* The type of every variable.                                             *)

\* The types of the records.
SelfType   == [ws : Sockets \union {NoSocket}, reader : Sockets \union {NoSocket},
               closing : BOOLEAN, rejection : BOOLEAN, encoding : Encodings]
SocketType == [state : {"gone", "open", "broken", "closed"},
               up : SUBSET Commands, down : SUBSET Frames, refusal : {"none", "sent", "read"}]
ReaderType == [pc : {"dead", "start", "recv", "put", "refuse", "end"},
               ws : Sockets \union {NoSocket}, got : SUBSET Frames]
CallType   == [pc : {"idle", "check", "register", "send", "wait", "choose", "flip", "restore"},
               n : 0 .. MaxRequests, try : {1, 2}, signed : BOOLEAN,
               ws : Sockets \union {NoSocket}, encoding : Encodings,
               other : Encodings, first : Encodings,
               item : Answers \union {"none", "closed", "refused"}]

\* A call, or a reader: a call under way has a number, and whoever uses a
\* socket has one.
CallFits(d) == /\ d \in CallType /\ (d.pc # "idle" => d.n # 0)
               /\ d.pc \in {"register", "send", "wait"} => d.ws \in Sockets
ReaderFits(d) == d \in ReaderType /\ (d.pc \in {"recv", "put", "refuse"} => d.ws \in Sockets)

Typed ==
  /\ setup \in Setups /\ self \in SelfType /\ pending \subseteq Ids
  /\ sock \in [Sockets -> SocketType]
  /\ main \in {"idle", "open", "grace", "close", "drop", "join", "wake"}
  /\ reader = [s \in Sockets |-> reader[s]] /\ \A s \in Sockets : ReaderFits(reader[s])
  /\ call = [c \in Callers |-> call[c]] /\ \A c \in Callers : CallFits(call[c])
  /\ executed \subseteq Ids

LEMMA TypedIsTyped == Typed => TypeOK
<1> SUFFICES ASSUME Typed PROVE TypeOK
  OBVIOUS
<1>1. reader \in [Sockets -> ReaderType]
  BY DEF Typed, ReaderFits
<1>2. call \in [Callers -> CallType]
  BY DEF Typed, CallFits
<1> QED  BY <1>1, <1>2 DEF Typed, TypeOK, SelfType, SocketType, ReaderType, CallType

\* The id of a call under way, and the call when an item arrives.
LEMMA IdTyped ==
  ASSUME NEW c \in Callers, CallFits(call[c]), call[c].pc # "idle"
  PROVE  Id(c) \in Ids
BY BoundAssumption DEF CallFits, CallType, Id, Ids

LEMMA DeliverTyped ==
  ASSUME Typed, NEW ids, NEW item \in Answers \union {"closed", "refused"}, call' = Deliver(ids, item)
  PROVE  call' = [c \in Callers |-> call'[c]] /\ \A c \in Callers : CallFits(call'[c])
<1>1. \A c \in Callers : CallFits(call[c])
  BY DEF Typed
<1>2. \A c \in Callers : call'[c] = call[c] \/ call'[c] = [call[c] EXCEPT !.item = item]
  BY DEF Deliver
<1>3. ASSUME NEW c \in Callers PROVE CallFits([call[c] EXCEPT !.item = item])
  BY <1>1, <1>3 DEF CallFits, CallType
<1>4. call' = [c \in Callers |-> call'[c]]
  BY DEF Deliver
<1> QED  BY <1>1, <1>2, <1>3, <1>4

LEMMA RestingFits ==
  ASSUME NEW n \in 0 .. MaxRequests
  PROVE  CallFits([Resting EXCEPT !.n = n])
BY DEF CallFits, CallType, Resting, Encodings, Answers

LEMMA SettleTyped ==
  ASSUME Typed, NEW c \in Callers, NEW outcome, call' = Settle(c, outcome), call[c].pc # "idle"
  PROVE  call' = [b \in Callers |-> call'[b]] /\ \A b \in Callers : CallFits(call'[b])
<1> DEFINE d == call[c]
<1>1. CallFits(d) /\ \A b \in Callers : CallFits(call[b])
  BY DEF Typed
<1>2. CallFits([d EXCEPT !.pc = "choose", !.ws = NoSocket, !.item = "none"])
  BY <1>1 DEF CallFits, CallType
<1>3. CallFits([d EXCEPT !.pc = "restore", !.ws = NoSocket, !.item = "none"])
  BY <1>1 DEF CallFits, CallType
<1>4. CallFits([Resting EXCEPT !.n = d.n])
  BY <1>1, RestingFits DEF CallFits, CallType
<1>5. call = [b \in Callers |-> call[b]]
  BY DEF Typed
<1>6. /\ call' = [b \in Callers |-> call'[b]]
      /\ \A b \in Callers : b # c => call'[b] = call[b]
      /\ \/ call'[c] = [d EXCEPT !.pc = "choose", !.ws = NoSocket, !.item = "none"]
         \/ call'[c] = [d EXCEPT !.pc = "restore", !.ws = NoSocket, !.item = "none"]
         \/ call'[c] = [Resting EXCEPT !.n = d.n]
  BY <1>5 DEF Settle
<1> QED  BY <1>1, <1>2, <1>3, <1>4, <1>6

LEMMA OneCallTyped ==
  ASSUME Typed, NEW c \in Callers, NEW d, CallFits(d), call' = [call EXCEPT ![c] = d]
  PROVE  call' = [b \in Callers |-> call'[b]] /\ \A b \in Callers : CallFits(call'[b])
<1>1. call = [b \in Callers |-> call[b]] /\ \A b \in Callers : CallFits(call[b])
  BY DEF Typed
<1> QED  BY <1>1

LEMMA OneReaderTyped ==
  ASSUME Typed, NEW s \in Sockets, NEW d, ReaderFits(d), reader' = [reader EXCEPT ![s] = d]
  PROVE  reader' = [t \in Sockets |-> reader'[t]] /\ \A t \in Sockets : ReaderFits(reader'[t])
<1>1. reader = [t \in Sockets |-> reader[t]] /\ \A t \in Sockets : ReaderFits(reader[t])
  BY DEF Typed
<1> QED  BY <1>1

LEMMA OneSocketTyped ==
  ASSUME Typed, NEW s \in Sockets, NEW d \in SocketType, sock' = [sock EXCEPT ![s] = d]
  PROVE  sock' \in [Sockets -> SocketType]
BY DEF Typed

\* The steps of connect() and close().
LEMMA MainTyped ==
  ASSUME Typed, MainStep
  PROVE  Typed'
<1>0. /\ setup \in Setups /\ self \in SelfType /\ pending \subseteq Ids
      /\ sock \in [Sockets -> SocketType]
      /\ main \in {"idle", "open", "grace", "close", "drop", "join", "wake"}
      /\ reader = [s \in Sockets |-> reader[s]] /\ \A s \in Sockets : ReaderFits(reader[s])
      /\ call = [c \in Callers |-> call[c]] /\ \A c \in Callers : CallFits(call[c])
      /\ executed \subseteq Ids
  BY DEF Typed
<1>1. CASE Connect \/ OpenFails \/ Grace \/ Close \/ JoinReader
  <2>1. UNCHANGED <<setup, pending, sock, reader, call, executed>>
    BY <1>1 DEF Connect, OpenFails, Grace, Close, JoinReader
  <2>2. self' \in SelfType
    BY <1>0, <1>1 DEF Connect, OpenFails, Grace, Close, JoinReader, SelfType
  <2>3. main' \in {"idle", "open", "grace", "close", "drop", "join", "wake"}
    BY <1>1 DEF Connect, OpenFails, Grace, Close, JoinReader
  <2> QED  BY <1>0, <2>1, <2>2, <2>3 DEF Typed
<1>2. CASE Open
  <2>1. PICK s \in Sockets :
          /\ self' = [self EXCEPT !.ws = s, !.reader = s]
          /\ sock' = [sock EXCEPT ![s] = [Absent EXCEPT !.state = "open"]]
          /\ reader' = [reader EXCEPT ![s] = [NoReader EXCEPT !.pc = "start"]]
    BY <1>2 DEF Open, FreeSockets
  <2>2. self' \in SelfType
    BY <1>0, <2>1 DEF SelfType
  <2>3. [Absent EXCEPT !.state = "open"] \in SocketType
    BY DEF Absent, SocketType
  <2>4. sock' \in [Sockets -> SocketType]
    BY <2>1, <2>3, OneSocketTyped
  <2>5. ReaderFits([NoReader EXCEPT !.pc = "start"])
    BY DEF NoReader, ReaderFits, ReaderType
  <2>6. reader' = [t \in Sockets |-> reader'[t]] /\ \A t \in Sockets : ReaderFits(reader'[t])
    BY <2>1, <2>5, OneReaderTyped
  <2>7. UNCHANGED <<setup, pending, call, executed>> /\ main' = "grace"
    BY <1>2 DEF Open
  <2> QED  BY <1>0, <2>2, <2>4, <2>6, <2>7 DEF Typed
<1>3. CASE DropSocket
  <2>1. self' \in SelfType
    BY <1>0, <1>3 DEF DropSocket, SelfType
  <2>2. sock' \in [Sockets -> SocketType]
    BY <1>0, <1>3 DEF DropSocket, ClosedSocket, SocketType, SelfType
  <2>3. UNCHANGED <<setup, pending, reader, call, executed>> /\ main' = "join"
    BY <1>3 DEF DropSocket
  <2> QED  BY <1>0, <2>1, <2>2, <2>3 DEF Typed
<1>4. CASE CloseWakes
  <2>1. call' = Deliver(pending, "closed") /\ pending' = {} /\ main' = "idle"
        /\ UNCHANGED <<setup, self, sock, reader, executed>>
    BY <1>4 DEF CloseWakes, WakeWaiters, FailPending
  <2>2. call' = [c \in Callers |-> call'[c]] /\ \A c \in Callers : CallFits(call'[c])
    BY <2>1, DeliverTyped
  <2> QED  BY <1>0, <2>1, <2>2 DEF Typed
<1> QED  BY <1>1, <1>2, <1>3, <1>4 DEF MainStep

\* A reader that goes on to another place.
LEMMA GotoTyped ==
  ASSUME Typed, NEW s \in Sockets, NEW label \in {"recv", "refuse", "end"},
         reader[s].ws \in Sockets, ReaderGoto(s, label)
  PROVE  reader' = [t \in Sockets |-> reader'[t]] /\ \A t \in Sockets : ReaderFits(reader'[t])
<1> DEFINE d == [reader[s] EXCEPT !.pc = label]
<1>1. ReaderFits(reader[s]) /\ reader = [t \in Sockets |-> reader[t]]
  BY DEF Typed
<1>2. ReaderFits(d)
  BY <1>1 DEF ReaderFits, ReaderType
<1>3. reader' = [reader EXCEPT ![s] = d]
  BY <1>1 DEF ReaderGoto
<1> HIDE DEF d
<1> QED  BY <1>2, <1>3, OneReaderTyped

\* The steps of a reader.
LEMMA ReaderTyped ==
  ASSUME Typed, NEW s \in Sockets, ReaderStep(s)
  PROVE  Typed'
<1>0. /\ setup \in Setups /\ self \in SelfType /\ pending \subseteq Ids
      /\ sock \in [Sockets -> SocketType]
      /\ main \in {"idle", "open", "grace", "close", "drop", "join", "wake"}
      /\ reader = [t \in Sockets |-> reader[t]] /\ \A t \in Sockets : ReaderFits(reader[t])
      /\ call = [c \in Callers |-> call[c]] /\ \A c \in Callers : CallFits(call[c])
      /\ executed \subseteq Ids
  BY DEF Typed
<1>a. Again \in {"recv", "end"}
  BY DEF Again
<1>1. CASE ReaderStart(s)
  <2> DEFINE d == [reader[s] EXCEPT !.ws = self.ws, !.pc = IF self.ws = NoSocket THEN "end" ELSE Again]
  <2>1. reader' = [reader EXCEPT ![s] = d] /\ UNCHANGED <<setup, self, pending, sock, main, call, executed>>
    BY <1>0, <1>1 DEF ReaderStart, ReaderFits, ReaderType
  <2>2. self.ws \in Sockets \union {NoSocket} /\ reader[s] \in ReaderType
    BY <1>0 DEF SelfType, ReaderFits
  <2>3. ASSUME self.ws = NoSocket PROVE ReaderFits(d)
    <3>1. d = [reader[s] EXCEPT !.ws = NoSocket, !.pc = "end"]
      BY <2>3
    <3>2. ReaderFits([reader[s] EXCEPT !.ws = NoSocket, !.pc = "end"])
      BY <2>2 DEF ReaderFits, ReaderType
    <3> QED  BY <3>1, <3>2
  <2>4. ASSUME self.ws # NoSocket PROVE ReaderFits(d)
    <3>1. d = [reader[s] EXCEPT !.ws = self.ws, !.pc = Again]
      BY <2>4
    <3>2. ReaderFits([reader[s] EXCEPT !.ws = self.ws, !.pc = Again])
      BY <1>a, <2>2, <2>4 DEF ReaderFits, ReaderType
    <3> QED  BY <3>1, <3>2
  <2>5. ReaderFits(d)
    BY <2>3, <2>4
  <2> HIDE DEF d
  <2>6. reader' = [t \in Sockets |-> reader'[t]] /\ \A t \in Sockets : ReaderFits(reader'[t])
    BY <2>1, <2>5, OneReaderTyped
  <2> QED  BY <1>0, <2>1, <2>6 DEF Typed
<1>2. CASE ReadAnswer(s)
  <2>1. PICK frame \in sock[reader[s].ws].down :
          /\ sock' = [sock EXCEPT ![reader[s].ws].down = @ \ {frame}]
          /\ reader' = [reader EXCEPT
               ![s] = IF frame.id \in pending
                      THEN [@ EXCEPT !.pc = "put", !.got = {frame}]
                      ELSE [@ EXCEPT !.pc = Again]]
    BY <1>2 DEF ReadAnswer
  <2>2. reader[s].pc = "recv" /\ UNCHANGED <<setup, self, pending, main, call, executed>>
    BY <1>2 DEF ReadAnswer
  <2>3. reader[s] \in ReaderType /\ reader[s].ws \in Sockets
    BY <1>0, <2>2 DEF ReaderFits
  <2>4. sock' \in [Sockets -> SocketType] /\ frame \in Frames
    BY <1>0, <2>1, <2>3 DEF SocketType
  <2>5. CASE frame.id \in pending
    <3>1. reader' = [reader EXCEPT ![s] = [reader[s] EXCEPT !.pc = "put", !.got = {frame}]]
      BY <1>0, <2>1, <2>5
    <3>2. ReaderFits([reader[s] EXCEPT !.pc = "put", !.got = {frame}])
      BY <2>3, <2>4 DEF ReaderFits, ReaderType
    <3>3. reader' = [t \in Sockets |-> reader'[t]] /\ \A t \in Sockets : ReaderFits(reader'[t])
      BY <3>1, <3>2, OneReaderTyped
    <3> QED  BY <1>0, <2>2, <2>4, <3>3 DEF Typed
  <2>6. CASE frame.id \notin pending
    <3>1. ReaderGoto(s, Again)
      BY <1>0, <2>1, <2>6 DEF ReaderGoto
    <3>2. reader' = [t \in Sockets |-> reader'[t]] /\ \A t \in Sockets : ReaderFits(reader'[t])
      BY <1>a, <2>3, <3>1, GotoTyped
    <3> QED  BY <1>0, <2>2, <2>4, <3>2 DEF Typed
  <2> QED  BY <2>5, <2>6
<1>3. CASE PutAnswer(s)
  <2>1. PICK frame \in reader[s].got : call' = Deliver({frame.id}, frame.answer)
    BY <1>3 DEF PutAnswer
  <2>2. reader[s].pc = "put" /\ UNCHANGED <<setup, self, pending, sock, main, executed>>
    BY <1>3 DEF PutAnswer
  <2>3. reader[s] \in ReaderType /\ reader[s].ws \in Sockets
    BY <1>0, <2>2 DEF ReaderFits
  <2>4. frame.answer \in Answers
    BY <2>3 DEF ReaderType, Frames
  <2>5. call' = [c \in Callers |-> call'[c]] /\ \A c \in Callers : CallFits(call'[c])
    BY <2>1, <2>4, DeliverTyped
  <2> DEFINE d == [reader[s] EXCEPT !.pc = Again, !.got = {}]
  <2>6. reader' = [reader EXCEPT ![s] = d]
    BY <1>0, <1>3 DEF PutAnswer
  <2>7. ReaderFits(d)
    BY <1>a, <2>3 DEF ReaderFits, ReaderType
  <2> HIDE DEF d
  <2>8. reader' = [t \in Sockets |-> reader'[t]] /\ \A t \in Sockets : ReaderFits(reader'[t])
    BY <2>6, <2>7, OneReaderTyped
  <2> QED  BY <1>0, <2>2, <2>5, <2>8 DEF Typed
<1>4. CASE ReadRefusal(s)
  <2>1. reader[s].ws \in Sockets /\ ReaderGoto(s, "refuse")
    BY <1>0, <1>4 DEF ReadRefusal, ReaderFits
  <2>2. reader' = [t \in Sockets |-> reader'[t]] /\ \A t \in Sockets : ReaderFits(reader'[t])
    BY <2>1, GotoTyped
  <2>3. sock' \in [Sockets -> SocketType]
    BY <1>0, <1>4, <2>1 DEF ReadRefusal, SocketType
  <2>4. self' \in SelfType /\ UNCHANGED <<setup, pending, main, call, executed>>
    BY <1>0, <1>4 DEF ReadRefusal, SelfType
  <2> QED  BY <1>0, <2>2, <2>3, <2>4 DEF Typed
<1>5. CASE WakeRefused(s)
  <2>1. /\ call' = Deliver(pending, "refused") /\ pending' = {}
        /\ reader[s].ws \in Sockets /\ ReaderGoto(s, Again)
        /\ UNCHANGED <<setup, self, sock, main, executed>>
    BY <1>0, <1>5 DEF WakeRefused, FailPending, ReaderFits
  <2>2. reader' = [t \in Sockets |-> reader'[t]] /\ \A t \in Sockets : ReaderFits(reader'[t])
    BY <1>a, <2>1, GotoTyped
  <2>3. call' = [c \in Callers |-> call'[c]] /\ \A c \in Callers : CallFits(call'[c])
    BY <2>1, DeliverTyped
  <2> QED  BY <1>0, <2>1, <2>2, <2>3 DEF Typed
<1>6. CASE ReadFails(s)
  <2>1. reader[s].ws \in Sockets /\ ReaderGoto(s, "end")
        /\ UNCHANGED <<setup, self, pending, sock, main, call, executed>>
    BY <1>0, <1>6 DEF ReadFails, ReaderFits
  <2>2. reader' = [t \in Sockets |-> reader'[t]] /\ \A t \in Sockets : ReaderFits(reader'[t])
    BY <2>1, GotoTyped
  <2> QED  BY <1>0, <2>1, <2>2 DEF Typed
<1>7. CASE ReaderEnd(s)
  <2>1. /\ call' = Deliver(pending, "closed") /\ pending' = {}
        /\ reader' = [reader EXCEPT ![s] = NoReader]
        /\ UNCHANGED <<setup, self, sock, main, executed>>
    BY <1>7 DEF ReaderEnd, FailPending
  <2>2. ReaderFits(NoReader)
    BY DEF NoReader, ReaderFits, ReaderType
  <2>3. reader' = [t \in Sockets |-> reader'[t]] /\ \A t \in Sockets : ReaderFits(reader'[t])
    BY <2>1, <2>2, OneReaderTyped
  <2>4. call' = [c \in Callers |-> call'[c]] /\ \A c \in Callers : CallFits(call'[c])
    BY <2>1, DeliverTyped
  <2> QED  BY <1>0, <2>1, <2>3, <2>4 DEF Typed
<1> QED  BY <1>1, <1>2, <1>3, <1>4, <1>5, <1>6, <1>7 DEF ReaderStep

\* The steps of request().
LEMMA CallerTyped ==
  ASSUME Typed, NEW c \in Callers, Request(c) \/ CallerStep(c)
  PROVE  Typed'
<1>0. /\ setup \in Setups /\ self \in SelfType /\ pending \subseteq Ids
      /\ sock \in [Sockets -> SocketType] /\ executed \subseteq Ids
      /\ CallFits(call[c]) /\ call[c] \in CallType
  BY DEF Typed, CallFits
<1>1. ASSUME NEW d, CallFits(d), call' = [call EXCEPT ![c] = d], self' \in SelfType,
             pending' \subseteq Ids, sock' \in [Sockets -> SocketType],
             UNCHANGED <<setup, main, reader, executed>>
      PROVE  Typed'
  BY <1>1, OneCallTyped DEF Typed
<1>2. ASSUME NEW outcome, call' = Settle(c, outcome), call[c].pc # "idle",
             pending' \subseteq pending, UNCHANGED <<setup, self, sock, main, reader, executed>>
      PROVE  Typed'
  BY <1>0, <1>2, SettleTyped DEF Typed
<1>3. CASE Request(c)
  <2>1. PICK signed \in BOOLEAN :
          call' = [call EXCEPT ![c] = [Resting EXCEPT !.pc = "check", !.n = call[c].n + 1,
                                                      !.signed = signed]]
    BY <1>3 DEF Request
  <2> DEFINE d == [Resting EXCEPT !.pc = "check", !.n = call[c].n + 1, !.signed = signed]
  <2>2. call[c].n + 1 \in 0 .. MaxRequests /\ call[c].n + 1 # 0
    <3>1. call[c].n \in 0 .. MaxRequests
      BY <1>0 DEF CallType
    <3>2. call[c].n < MaxRequests
      BY <1>3 DEF Request
    <3> QED  BY <3>1, <3>2, BoundAssumption
  <2>3. CallFits(d)
    BY <2>2 DEF CallFits, CallType, Resting, Encodings, Answers
  <2>4. call' = [call EXCEPT ![c] = d]
    BY <2>1
  <2>5. UNCHANGED <<setup, self, pending, sock, main, reader, executed>>
    BY <1>3 DEF Request
  <2> HIDE DEF d
  <2> QED  BY <1>0, <1>1, <2>3, <2>4, <2>5
<1>4. CASE CheckConnected(c)
  <2>1. call[c].pc = "check" /\ UNCHANGED <<setup, self, pending, sock, main, reader, executed>>
    BY <1>4 DEF CheckConnected
  <2>2. CASE call' = Settle(c, "refused") \/ call' = Settle(c, "unconnected")
    BY <1>2, <2>1, <2>2
  <2>3. CASE call' = [call EXCEPT ![c].pc = "register", ![c].ws = self.ws] /\ self.ws # NoSocket
    <3> DEFINE d == [call[c] EXCEPT !.pc = "register", !.ws = self.ws]
    <3>1. CallFits(d)
      BY <1>0, <2>1, <2>3 DEF CallFits, CallType, SelfType
    <3>2. call' = [call EXCEPT ![c] = d]
      BY <2>3 DEF Typed
    <3> HIDE DEF d
    <3> QED  BY <1>0, <1>1, <2>1, <3>1, <3>2
  <2> QED  BY <1>4, <2>2, <2>3 DEF CheckConnected
<1>5. CASE Register(c)
  <2>1. call[c].pc = "register" /\ UNCHANGED <<setup, self, sock, main, reader, executed>>
    BY <1>5 DEF Register
  <2>2. CASE call' = Settle(c, "no key") /\ UNCHANGED pending
    BY <1>2, <2>1, <2>2
  <2>3. CASE /\ call' = [call EXCEPT ![c].pc = "send", ![c].encoding = self.encoding,
                                     ![c].item = "none"]
             /\ pending' = pending \union {Id(c)}
    <3> DEFINE d == [call[c] EXCEPT !.pc = "send", !.encoding = self.encoding, !.item = "none"]
    <3>1. CallFits(d)
      BY <1>0, <2>1 DEF CallFits, CallType, SelfType
    <3>2. call' = [call EXCEPT ![c] = d]
      BY <2>3 DEF Typed
    <3>3. pending' \subseteq Ids
      BY <1>0, <2>1, <2>3, IdTyped
    <3> HIDE DEF d
    <3> QED  BY <1>0, <1>1, <2>1, <3>1, <3>2, <3>3
  <2> QED  BY <1>5, <2>2, <2>3 DEF Register
<1>6. CASE Send(c)
  <2> DEFINE d == [call[c] EXCEPT !.pc = "wait"]
  <2> DEFINE m == [id |-> Id(c), signed |-> call[c].signed, encoding |-> call[c].encoding]
  <2>1. call[c].pc = "send" /\ UNCHANGED <<setup, self, pending, main, reader, executed>>
    BY <1>6 DEF Send
  <2>2. CallFits(d)
    BY <1>0, <2>1 DEF CallFits, CallType
  <2>3. call' = [call EXCEPT ![c] = d]
    BY <1>6 DEF Send, Typed
  <2>4. m \in Commands
    BY <1>0, <2>1, IdTyped DEF Commands, CallType
  <2>5. call[c].ws \in Sockets
    BY <1>0, <2>1 DEF CallFits
  <2>6. sock' \in [Sockets -> SocketType]
    BY <1>0, <1>6, <2>4, <2>5 DEF Send, SocketType
  <2> HIDE DEF d, m
  <2> QED  BY <1>0, <1>1, <2>1, <2>2, <2>3, <2>6
<1>7. CASE SendFails(c) \/ Take(c) \/ TimeOut(c)
  <2>1. /\ \E outcome : call' = Settle(c, outcome)
        /\ call[c].pc # "idle" /\ pending' \subseteq pending
        /\ UNCHANGED <<setup, self, sock, main, reader, executed>>
    BY <1>7 DEF SendFails, Take, TimeOut, Forgotten
  <2> QED  BY <1>2, <2>1
<1>8. CASE ChooseOther(c)
  <2> DEFINE d == [call[c] EXCEPT !.pc = "flip", !.other = Other(self.encoding)]
  <2>1. call[c].pc = "choose" /\ UNCHANGED <<setup, self, pending, sock, main, reader, executed>>
    BY <1>8 DEF ChooseOther
  <2>2. CallFits(d)
    BY <1>0, <2>1 DEF CallFits, CallType, Other, Encodings
  <2>3. call' = [call EXCEPT ![c] = d]
    BY <1>8 DEF ChooseOther, Typed
  <2> HIDE DEF d
  <2> QED  BY <1>0, <1>1, <2>1, <2>2, <2>3
<1>9. CASE Flip(c)
  <2> DEFINE d == [call[c] EXCEPT !.pc = "check", !.try = 2, !.first = self.encoding]
  <2>1. call[c].pc = "flip" /\ UNCHANGED <<setup, pending, sock, main, reader, executed>>
    BY <1>9 DEF Flip
  <2>2. CallFits(d)
    BY <1>0, <2>1 DEF CallFits, CallType, SelfType
  <2>3. call' = [call EXCEPT ![c] = d]
    BY <1>9 DEF Flip, Typed
  <2>4. self' \in SelfType
    BY <1>0, <1>9 DEF Flip, SelfType, CallType
  <2> HIDE DEF d
  <2> QED  BY <1>0, <1>1, <2>1, <2>2, <2>3, <2>4
<1>10. CASE BothRefused(c)
  <2> DEFINE d == [Resting EXCEPT !.n = call[c].n]
  <2>1. UNCHANGED <<setup, pending, sock, main, reader, executed>> /\ call' = [call EXCEPT ![c] = d]
    BY <1>10 DEF BothRefused
  <2>2. CallFits(d)
    BY <1>0, RestingFits DEF CallType
  <2>3. self' \in SelfType
    BY <1>0, <1>10 DEF BothRefused, SelfType, CallType
  <2> HIDE DEF d
  <2> QED  BY <1>0, <1>1, <2>1, <2>2, <2>3
<1> QED  BY <1>3, <1>4, <1>5, <1>6, <1>7, <1>8, <1>9, <1>10 DEF CallerStep

\* The steps of the server and the network.
LEMMA ServerTyped ==
  ASSUME Typed, NEW s \in Sockets, ServerStep(s)
  PROVE  Typed'
<1>0. sock \in [Sockets -> SocketType] /\ executed \subseteq Ids
  BY DEF Typed
<1>1. UNCHANGED <<setup, self, pending, main, reader, call>>
  BY DEF ServerStep, Serve, ServerRefuses, Break, Lose
<1>2. sock' \in [Sockets -> SocketType] /\ executed' \subseteq Ids
  <2>1. CASE Serve(s)
    <3>1. PICK command \in sock[s].up, answer \in Answers :
            /\ executed' = IF answer = "ok" THEN executed \union {command.id} ELSE executed
            /\ sock' = [sock EXCEPT
                 ![s].up = @ \ {command},
                 ![s].down = IF sock[s].state = "open"
                             THEN @ \union {[id |-> command.id, answer |-> answer]} ELSE @]
      BY <2>1 DEF Serve
    <3>2. command.id \in Ids
      BY <1>0 DEF SocketType, Commands
    <3>3. [id |-> command.id, answer |-> answer] \in Frames
      BY <3>2 DEF Frames
    <3> QED  BY <1>0, <3>1, <3>2, <3>3 DEF SocketType
  <2>2. CASE ServerRefuses(s) \/ Break(s) \/ Lose(s)
    BY <1>0, <2>2 DEF ServerRefuses, Break, Lose, SocketType
  <2> QED  BY <2>1, <2>2 DEF ServerStep
<1> QED  BY <1>1, <1>2 DEF Typed

LEMMA InitTyped == Init => Typed
<1> SUFFICES ASSUME Init PROVE Typed
  OBVIOUS
<1>1. setup \in Setups /\ pending \subseteq Ids /\ executed \subseteq Ids /\ main = "idle"
  BY DEF Init
<1>2. self \in SelfType
  BY <1>1, SetupsAssumption DEF Init, SelfType, SetupType, Encodings
<1>3. sock \in [Sockets -> SocketType]
  BY DEF Init, SocketType, Absent
<1>4. reader = [s \in Sockets |-> reader[s]] /\ \A s \in Sockets : ReaderFits(reader[s])
  BY DEF Init, ReaderFits, ReaderType, NoReader
<1>5. call = [c \in Callers |-> call[c]] /\ \A c \in Callers : CallFits(call[c])
  BY BoundAssumption DEF Init, CallFits, CallType, Resting, Encodings
<1> QED  BY <1>1, <1>2, <1>3, <1>4, <1>5 DEF Typed

LEMMA NextTyped == Typed /\ [Next]_vars => Typed'
<1> SUFFICES ASSUME Typed, [Next]_vars PROVE Typed'
  OBVIOUS
<1>1. CASE UNCHANGED vars
  BY <1>1 DEF vars, Typed
<1> QED  BY <1>1, MainTyped, ReaderTyped, CallerTyped, ServerTyped DEF Next

\* Every variable of the client has its type, whatever its threads, the server
\* and the network do.
THEOREM TypeCorrect == Spec => []TypeOK
BY InitTyped, NextTyped, TypedIsTyped, PTL DEF Spec

-----------------------------------------------------------------------------
(* What callers are told of their commands: the client as CommandService.  *)

\* What an answer says of a command is so, and stays so.
TrueOf(id, answer) ==
  /\ answer = "ok" => id \in executed
  /\ answer \in {"denied", "signature"} => Refused(id)

\* The answers on their way, and those that wait in a queue: none comes before
\* its command is out.
FatesInv ==
  /\ \A s \in Sockets : \A f \in sock[s].down \union reader[s].got : TrueOf(f.id, f.answer)
  /\ \A c \in Callers : /\ call[c].pc = "send" => call[c].item \notin Answers
                        /\ call[c].pc = "wait" => TrueOf(Id(c), call[c].item)

SInv == IInv /\ Typed /\ FatesInv

\* The steps, as far as commands and their answers are concerned: frames are
\* handed on or lost,
FramesKept == \A s \in Sockets : \A f \in sock'[s].down \union reader'[s].got :
             \E t \in Sockets : f \in sock[t].down \union reader[t].got
Calm == /\ UNCHANGED <<call, executed>> /\ FramesKept
        /\ \A s \in Sockets : sock'[s].up \subseteq sock[s].up

\* items reach their queues,
Waking ==
  /\ UNCHANGED <<sock, executed>> /\ FramesKept
  /\ \E ids, item :
       /\ call' = Deliver(ids, item)
       /\ \/ item \in {"closed", "refused"}
          \/ \E s \in Sockets : \E f \in reader[s].got : ids = {f.id} /\ item = f.answer

\* a try ends,
Settling(c) ==
  /\ call[c].pc \in {"check", "register", "send", "wait"}
  /\ UNCHANGED <<sock, reader, executed>>
  /\ \E outcome :
       /\ call' = Settle(c, outcome)
       /\ call[c].pc = "wait" /\ call[c].item # "none" => outcome = call[c].item
       /\ call[c].pc # "wait" \/ call[c].item = "none" => outcome # "signature"

\* a caller asks, or goes on,
Asking(c) ==
  /\ UNCHANGED <<sock, reader, executed>>
  /\ \E d : /\ call' = [call EXCEPT ![c] = d]
            /\ call[c].pc = "idle" /\ d.pc = "check" /\ d.n = call[c].n + 1
Moving(c) ==
  /\ UNCHANGED <<sock, reader, executed>>
  /\ \E d : /\ call' = [call EXCEPT ![c] = d]
            /\ d.n = call[c].n
            /\ \/ /\ call[c].pc \in {"check", "register", "choose", "flip"}
                  /\ d.pc \in {"register", "send", "flip", "check"}
                  /\ d.pc = "send" => d.item = "none"
               \/ call[c].pc = "restore" /\ d.pc = "idle"

LEMMA Outline ==
  ASSUME IInv, Typed, [Next]_vars
  PROVE  \/ Calm \/ Waking
         \/ \E c \in Callers : Asking(c) \/ Settling(c) \/ Moving(c) \/ Send(c)
         \/ \E s \in Sockets : Serve(s)
<1>0. /\ Shape /\ SockShape /\ ReaderShape /\ sock \in [Sockets -> SocketType]
      /\ \A c \in Callers : CallFits(call[c])
      /\ call = [c \in Callers |-> call[c]]
  BY DEF IInv, Shape, Typed
<1>1. CASE MainStep
  <2>1. CASE Connect \/ OpenFails \/ Grace \/ Close \/ JoinReader
    BY <2>1 DEF Connect, OpenFails, Grace, Close, JoinReader, Calm, FramesKept
  <2>2. CASE Open
    <3>1. PICK s \in Sockets :
            /\ sock' = [sock EXCEPT ![s] = [Absent EXCEPT !.state = "open"]]
            /\ reader' = [reader EXCEPT ![s] = [NoReader EXCEPT !.pc = "start"]]
      BY <2>2 DEF Open, FreeSockets
    <3>2. \A t \in Sockets : sock'[t] = sock[t] \/ (sock'[t].up = {} /\ sock'[t].down = {})
      BY <1>0, <3>1 DEF Absent, SockShape
    <3>3. \A t \in Sockets : reader'[t] = reader[t] \/ reader'[t].got = {}
      BY <1>0, <3>1 DEF NoReader, ReaderShape
    <3>4. UNCHANGED <<call, executed>>
      BY <2>2 DEF Open
    <3> QED  BY <3>2, <3>3, <3>4 DEF Calm, FramesKept
  <2>3. CASE DropSocket
    <3>1. UNCHANGED <<call, executed, reader>>
      BY <2>3 DEF DropSocket
    <3>2. \A t \in Sockets : sock'[t].up = sock[t].up /\ sock'[t].down = sock[t].down
      BY <1>0, <2>3 DEF DropSocket, ClosedSocket, SockShape
    <3> QED  BY <3>1, <3>2 DEF Calm, FramesKept
  <2>4. CASE CloseWakes
    <3>1. call' = Deliver(pending, "closed") /\ UNCHANGED <<sock, reader, executed>>
      BY <2>4 DEF CloseWakes, WakeWaiters, FailPending
    <3>2. FramesKept
      BY <3>1 DEF FramesKept
    <3> QED  BY <3>1, <3>2 DEF Waking
  <2> QED  BY <1>1, <2>1, <2>2, <2>3, <2>4 DEF MainStep
<1>2. ASSUME NEW s \in Sockets, ReaderStep(s)
      PROVE  Calm \/ Waking
  <2>0. reader = [t \in Sockets |-> reader[t]] /\ ReaderFits(reader[s]) /\ reader[s] \in ReaderType
    BY DEF Typed, ReaderFits
  <2>1. CASE ReaderStart(s) \/ ReadFails(s)
    <3>1. UNCHANGED <<sock, call, executed>>
      BY <2>1 DEF ReaderStart, ReadFails
    <3>2. \A t \in Sockets : reader'[t].got = reader[t].got
      BY <2>0, <2>1 DEF ReaderStart, ReadFails, ReaderGoto, ReaderType
    <3> QED  BY <3>1, <3>2 DEF Calm, FramesKept
  <2>2. CASE ReadAnswer(s)
    <3>1. PICK frame \in sock[reader[s].ws].down :
            /\ sock' = [sock EXCEPT ![reader[s].ws].down = @ \ {frame}]
            /\ reader' = [reader EXCEPT
                 ![s] = IF frame.id \in pending
                        THEN [@ EXCEPT !.pc = "put", !.got = {frame}]
                        ELSE [@ EXCEPT !.pc = Again]]
      BY <2>2 DEF ReadAnswer
    <3>2. UNCHANGED <<call, executed>> /\ reader[s].ws \in Sockets
      BY <2>0, <2>2 DEF ReadAnswer, ReaderFits
    <3>3. \A t \in Sockets : sock'[t].up = sock[t].up /\ sock'[t].down \subseteq sock[t].down
      BY <1>0, <3>1, <3>2 DEF SockShape
    <3>4. \A t \in Sockets : reader'[t].got \subseteq reader[t].got \union {frame}
      BY <2>0, <3>1 DEF ReaderType
    <3> QED  BY <3>2, <3>3, <3>4 DEF Calm, FramesKept
  <2>3. CASE PutAnswer(s)
    <3>1. /\ \E f \in reader[s].got : call' = Deliver({f.id}, f.answer)
          /\ UNCHANGED <<sock, executed>>
      BY <2>3 DEF PutAnswer
    <3>2. \A t \in Sockets : reader'[t].got \subseteq reader[t].got
      BY <2>0, <2>3 DEF PutAnswer, ReaderType
    <3>3. FramesKept
      BY <3>1, <3>2 DEF FramesKept
    <3> QED  BY <3>1, <3>3 DEF Waking
  <2>4. CASE ReadRefusal(s)
    <3>1. UNCHANGED <<call, executed>> /\ reader[s].ws \in Sockets
      BY <2>0, <2>4 DEF ReadRefusal, ReaderFits
    <3>2. \A t \in Sockets : sock'[t].up = sock[t].up /\ sock'[t].down = sock[t].down
      BY <1>0, <2>4, <3>1 DEF ReadRefusal, SockShape
    <3>3. \A t \in Sockets : reader'[t].got = reader[t].got
      BY <2>0, <2>4 DEF ReadRefusal, ReaderGoto, ReaderType
    <3> QED  BY <3>1, <3>2, <3>3 DEF Calm, FramesKept
  <2>5. CASE WakeRefused(s) \/ ReaderEnd(s)
    <3>1. /\ call' = Deliver(pending, "refused") \/ call' = Deliver(pending, "closed")
          /\ UNCHANGED <<sock, executed>>
      BY <2>5 DEF WakeRefused, ReaderEnd, FailPending
    <3>2. \A t \in Sockets : reader'[t].got \subseteq reader[t].got
      BY <2>0, <2>5 DEF WakeRefused, ReaderEnd, ReaderGoto, NoReader, ReaderType
    <3>3. FramesKept
      BY <3>1, <3>2 DEF FramesKept
    <3> QED  BY <3>1, <3>3 DEF Waking
  <2> QED  BY <1>2, <2>1, <2>2, <2>3, <2>4, <2>5 DEF ReaderStep
<1>3. ASSUME NEW s \in Sockets, ServerStep(s)
      PROVE  Calm \/ Serve(s)
  <2>1. CASE ServerRefuses(s) \/ Break(s) \/ Lose(s)
    <3>1. UNCHANGED <<call, executed, reader>>
      BY <2>1 DEF ServerRefuses, Break, Lose
    <3>2. \A t \in Sockets : sock'[t].up \subseteq sock[t].up /\ sock'[t].down \subseteq sock[t].down
      BY <1>0, <2>1 DEF ServerRefuses, Break, Lose, SockShape
    <3> QED  BY <3>1, <3>2 DEF Calm, FramesKept
  <2> QED  BY <1>3, <2>1 DEF ServerStep
<1>4. ASSUME NEW c \in Callers, Request(c) \/ CallerStep(c)
      PROVE  Asking(c) \/ Settling(c) \/ Moving(c) \/ Send(c)
  <2>0. CallFits(call[c]) /\ call[c] \in CallType
    BY <1>0 DEF CallFits
  <2>a. ASSUME NEW d, call' = [call EXCEPT ![c] = d], UNCHANGED <<sock, reader, executed>>,
               d.n = call[c].n,
               \/ /\ call[c].pc \in {"check", "register", "choose", "flip"}
                  /\ d.pc \in {"register", "send", "flip", "check"}
                  /\ d.pc = "send" => d.item = "none"
               \/ call[c].pc = "restore" /\ d.pc = "idle"
        PROVE  Moving(c)
    BY <2>a DEF Moving
  <2>b. ASSUME NEW outcome, call' = Settle(c, outcome), UNCHANGED <<sock, reader, executed>>,
               call[c].pc \in {"check", "register", "send", "wait"},
               call[c].pc = "wait" /\ call[c].item # "none" => outcome = call[c].item,
               call[c].pc # "wait" \/ call[c].item = "none" => outcome # "signature"
        PROVE  Settling(c)
    BY <2>b DEF Settling
  <2>1. CASE Request(c)
    <3>1. PICK signed \in BOOLEAN :
            call' = [call EXCEPT ![c] = [Resting EXCEPT !.pc = "check", !.n = call[c].n + 1,
                                                        !.signed = signed]]
      BY <2>1 DEF Request
    <3> DEFINE d == [Resting EXCEPT !.pc = "check", !.n = call[c].n + 1, !.signed = signed]
    <3>2. d.pc = "check" /\ d.n = call[c].n + 1
      BY DEF Resting
    <3>3. call[c].pc = "idle" /\ UNCHANGED <<sock, reader, executed>>
      BY <2>1 DEF Request
    <3>4. call' = [call EXCEPT ![c] = d]
      BY <3>1
    <3> HIDE DEF d
    <3> QED  BY <3>2, <3>3, <3>4 DEF Asking
  <2>2. CASE CheckConnected(c)
    <3>1. call[c].pc = "check" /\ UNCHANGED <<sock, reader, executed>>
      BY <2>2 DEF CheckConnected
    <3>2. CASE call' = Settle(c, "refused") \/ call' = Settle(c, "unconnected")
      BY <2>b, <3>1, <3>2
    <3>3. CASE call' = [call EXCEPT ![c].pc = "register", ![c].ws = self.ws]
      <4> DEFINE d == [call[c] EXCEPT !.pc = "register", !.ws = self.ws]
      <4>1. call' = [call EXCEPT ![c] = d] /\ d.pc = "register" /\ d.n = call[c].n
        BY <1>0, <2>0, <3>3 DEF CallType
      <4> HIDE DEF d
      <4> QED  BY <2>a, <3>1, <4>1
    <3> QED  BY <2>2, <3>2, <3>3 DEF CheckConnected
  <2>3. CASE Register(c)
    <3>1. call[c].pc = "register" /\ UNCHANGED <<sock, reader, executed>>
      BY <2>3 DEF Register
    <3>2. CASE call' = Settle(c, "no key")
      BY <2>b, <3>1, <3>2
    <3>3. CASE call' = [call EXCEPT ![c].pc = "send", ![c].encoding = self.encoding,
                                    ![c].item = "none"]
      <4> DEFINE d == [call[c] EXCEPT !.pc = "send", !.encoding = self.encoding, !.item = "none"]
      <4>1. call' = [call EXCEPT ![c] = d] /\ d.pc = "send" /\ d.n = call[c].n /\ d.item = "none"
        BY <1>0, <2>0, <3>3 DEF CallType
      <4> HIDE DEF d
      <4> QED  BY <2>a, <3>1, <4>1
    <3> QED  BY <2>3, <3>2, <3>3 DEF Register
  <2>4. CASE SendFails(c) \/ TimeOut(c)
    <3>1. /\ \/ call[c].pc = "send" /\ call' = Settle(c, "unsent")
             \/ call[c].pc = "wait" /\ call[c].item = "none" /\ call' = Settle(c, "timeout")
          /\ UNCHANGED <<sock, reader, executed>>
      BY <2>4 DEF SendFails, TimeOut
    <3> QED  BY <2>b, <3>1
  <2>5. CASE Take(c)
    <3>1. /\ call[c].pc = "wait" /\ call[c].item # "none" /\ call' = Settle(c, call[c].item)
          /\ UNCHANGED <<sock, reader, executed>>
      BY <2>5 DEF Take
    <3> QED  BY <2>b, <3>1
  <2>6. CASE ChooseOther(c) \/ Flip(c)
    <3> DEFINE d == IF ChooseOther(c) THEN [call[c] EXCEPT !.pc = "flip", !.other = Other(self.encoding)]
                    ELSE [call[c] EXCEPT !.pc = "check", !.try = 2, !.first = self.encoding]
    <3>1. call[c].pc \in {"choose", "flip"} /\ UNCHANGED <<sock, reader, executed>>
      BY <2>6 DEF ChooseOther, Flip
    <3>2. call' = [call EXCEPT ![c] = d]
      BY <1>0, <2>6 DEF ChooseOther, Flip
    <3>3. d.pc \in {"flip", "check"} /\ d.n = call[c].n
      BY <2>0 DEF CallType
    <3> HIDE DEF d
    <3> QED  BY <2>a, <3>1, <3>2, <3>3
  <2>7. CASE BothRefused(c)
    <3> DEFINE d == [Resting EXCEPT !.n = call[c].n]
    <3>1. call[c].pc = "restore" /\ UNCHANGED <<sock, reader, executed>> /\ call' = [call EXCEPT ![c] = d]
      BY <2>7 DEF BothRefused
    <3>2. d.pc = "idle" /\ d.n = call[c].n
      BY DEF Resting
    <3> HIDE DEF d
    <3> QED  BY <2>a, <3>1, <3>2
  <2> QED  BY <1>4, <2>1, <2>2, <2>3, <2>4, <2>5, <2>6, <2>7 DEF CallerStep
<1>5. CASE UNCHANGED vars
  BY <1>5 DEF vars, Calm, FramesKept
<1> QED  BY <1>1, <1>2, <1>3, <1>4, <1>5 DEF Next

\* A message that was refused or lost stays so, unless it is the one sent now.
LEMMA RefusedStays ==
  ASSUME IInv, NEW id, Refused(id), executed' = executed,
         \A s \in Sockets : sock'[s].up \subseteq sock[s].up
  PROVE  Refused(id)'
BY DEF Refused

\* What the server does to one message, and to nothing else.
LEMMA ServeMoves ==
  ASSUME IInv, NEW s \in Sockets, Serve(s)
  PROVE  \E m \in sock[s].up, answer \in Answers :
           /\ executed' = IF answer = "ok" THEN executed \union {m.id} ELSE executed
           /\ \A t \in Sockets : sock'[t].up \subseteq sock[t].up
           /\ \A t \in Sockets : \A k \in sock'[t].up : k.id # m.id
           /\ \A t \in Sockets : sock'[t].down \subseteq
                sock[t].down \union {[id |-> m.id, answer |-> answer]}
           /\ UNCHANGED <<reader, call>>
<1>1. PICK m \in sock[s].up, answer \in Answers :
        /\ executed' = IF answer = "ok" THEN executed \union {m.id} ELSE executed
        /\ sock' = [sock EXCEPT
             ![s].up = @ \ {m},
             ![s].down = IF sock[s].state = "open"
                         THEN @ \union {[id |-> m.id, answer |-> answer]} ELSE @]
  BY DEF Serve
<1>2. UNCHANGED <<reader, call>>
  BY DEF Serve
<1>3. /\ \A t \in Sockets : t # s => sock'[t] = sock[t]
      /\ sock'[s].up = sock[s].up \ {m}
      /\ sock'[s].down \subseteq sock[s].down \union {[id |-> m.id, answer |-> answer]}
  BY <1>1 DEF IInv, Shape, SockShape
<1>4. \A t \in Sockets : \A k \in sock[t].up : k.id = m.id => t = s /\ k = m
  BY DEF IInv, WireInv
<1>5. \A t \in Sockets : sock'[t].up \subseteq sock[t].up
  BY <1>3
<1>6. \A t \in Sockets : \A k \in sock'[t].up : k.id # m.id
  BY <1>3, <1>4
<1>7. \A t \in Sockets : sock'[t].down \subseteq
        sock[t].down \union {[id |-> m.id, answer |-> answer]}
  BY <1>3
<1> QED  BY <1>1, <1>2, <1>5, <1>6, <1>7

\* What sending does to one caller and its socket.
LEMMA SendMoves ==
  ASSUME IInv, NEW c \in Callers, Send(c)
  PROVE  /\ call[c].pc = "send" /\ call'[c] = [call[c] EXCEPT !.pc = "wait"]
         /\ \A b \in Callers : b # c => call'[b] = call[b]
         /\ UNCHANGED <<reader, executed>>
         /\ \A s \in Sockets : sock'[s].down = sock[s].down
         /\ \A s \in Sockets : \A m \in sock'[s].up : m \in sock[s].up \/ m.id = Id(c)
         /\ ~Sent(Id(c)) /\ Id(c)' = Id(c)
<1>1. CallShape /\ SockShape /\ call[c].pc = "send" /\ Counted(call[c])
  BY DEF IInv, Shape, CallShape, Send
<1>2. call'[c] = [call[c] EXCEPT !.pc = "wait"] /\ \A b \in Callers : b # c => call'[b] = call[b]
  BY <1>1 DEF Send, CallShape
<1>3. \A s \in Sockets : /\ sock'[s].down = sock[s].down
                         /\ \A m \in sock'[s].up : m \in sock[s].up \/ m.id = Id(c)
  BY <1>1 DEF Send, SockShape
<1>4. ~Sent(Id(c))
  BY <1>1, IdShape DEF Sent, Spent, Counted
<1>5. Id(c)' = Id(c)
  BY <1>1, <1>2 DEF Id, Counted, Fields
<1> QED  BY <1>1, <1>2, <1>3, <1>4, <1>5 DEF Send

LEMMA NextFates ==
  ASSUME SInv, [Next]_vars
  PROVE  FatesInv'
<1>0. IInv /\ Typed /\ FatesInv /\ CallShape /\ \A c \in Callers : Counted(call[c])
  BY DEF SInv, IInv, Shape, CallShape
<1>1. ASSUME executed' = executed, \A s \in Sockets : sock'[s].up \subseteq sock[s].up,
             NEW id, NEW answer, TrueOf(id, answer)
      PROVE  TrueOf(id, answer)'
  BY <1>0, <1>1, RefusedStays DEF TrueOf
<1>2. ASSUME executed' = executed, \A s \in Sockets : sock'[s].up \subseteq sock[s].up, FramesKept
      PROVE  \A s \in Sockets : \A f \in sock'[s].down \union reader'[s].got : TrueOf(f.id, f.answer)'
  BY <1>0, <1>1, <1>2 DEF FramesKept, FatesInv
<1>3. ASSUME executed' = executed, \A s \in Sockets : sock'[s].up \subseteq sock[s].up,
             NEW b \in Callers, call'[b] = call[b]
      PROVE  /\ call'[b].pc = "send" => call'[b].item \notin Answers
             /\ call'[b].pc = "wait" => TrueOf(Id(b), call[b].item)'
  <2>1. Id(b)' = Id(b)
    BY <1>3 DEF Id
  <2> QED  BY <1>0, <1>1, <1>3, <2>1 DEF FatesInv
<1>4. CASE Calm
  BY <1>2, <1>3, <1>4 DEF Calm, FatesInv
<1>5. CASE Waking
  <2>1. /\ UNCHANGED <<sock, executed>> /\ FramesKept
        /\ \A s \in Sockets : sock'[s].up \subseteq sock[s].up
    BY <1>5 DEF Waking
  <2>2. PICK ids, item :
          /\ call' = Deliver(ids, item)
          /\ \/ item \in {"closed", "refused"}
             \/ \E s \in Sockets : \E f \in reader[s].got : ids = {f.id} /\ item = f.answer
    BY <1>5 DEF Waking
  <2>3. \A b \in Callers :
          /\ call'[b].n = call[b].n /\ call'[b].try = call[b].try
          /\ call'[b].pc = call[b].pc
          /\ call'[b].item # call[b].item => Id(b) \in ids /\ call'[b].item = item
    BY <1>0, <2>2, DeliverShape
  <2>4. ASSUME NEW b \in Callers
        PROVE  /\ call'[b].pc = "send" => call'[b].item \notin Answers
               /\ call'[b].pc = "wait" => TrueOf(Id(b), call[b].item)'
    <3>1. Id(b)' = Id(b)
      BY <2>3 DEF Id
    <3>2. CASE call'[b].item = call[b].item
      <4>1. call'[b].pc = call[b].pc
        BY <2>3
      <4> QED  BY <1>0, <1>1, <2>1, <3>1, <3>2, <4>1 DEF FatesInv
    <3>3. CASE call'[b].item # call[b].item /\ item \in {"closed", "refused"}
      BY <2>3, <3>3 DEF TrueOf, Answers
    <3>4. CASE call'[b].item # call[b].item /\ item \notin {"closed", "refused"}
      <4>1. PICK s \in Sockets : \E f \in reader[s].got : ids = {f.id} /\ item = f.answer
        BY <2>2, <3>4
      <4>2. PICK f \in reader[s].got : ids = {f.id} /\ item = f.answer
        BY <4>1
      <4>3. Id(b) = f.id /\ call'[b].item = f.answer
        BY <2>3, <3>4, <4>2
      <4>4. TrueOf(f.id, f.answer) /\ Sent(f.id)
        BY <1>0, <4>2 DEF FatesInv, IInv, FramesInv, Truthful
      <4>5. call[b].pc # "send"
        BY <1>0, <4>3, <4>4, IdShape DEF Sent, Spent, Counted
      <4>6. TrueOf(Id(b), f.answer)'
        BY <1>1, <2>1, <3>1, <4>3, <4>4
      <4> QED  BY <2>3, <4>3, <4>5, <4>6
    <3> QED  BY <3>2, <3>3, <3>4
  <2> QED  BY <1>2, <2>1, <2>4 DEF FatesInv
<1>6. ASSUME NEW c \in Callers, NEW d, call' = [call EXCEPT ![c] = d],
             UNCHANGED <<sock, reader, executed>>,
             d.pc # "wait", d.pc = "send" => d.item \notin Answers
      PROVE  FatesInv'
  <2>1. FramesKept /\ \A s \in Sockets : sock'[s].up \subseteq sock[s].up
    BY <1>6 DEF FramesKept
  <2>2. call'[c] = d /\ \A b \in Callers : b # c => call'[b] = call[b]
    BY <1>0, <1>6 DEF CallShape
  <2>3. \A b \in Callers : /\ call'[b].pc = "send" => call'[b].item \notin Answers
                           /\ call'[b].pc = "wait" => TrueOf(Id(b), call[b].item)'
    BY <1>3, <1>6, <2>1, <2>2
  <2> QED  BY <1>2, <1>6, <2>1, <2>3 DEF FatesInv
<1>7. ASSUME NEW c \in Callers, Asking(c) \/ Moving(c) PROVE FatesInv'
  <2>1. PICK d : /\ call' = [call EXCEPT ![c] = d]
                 /\ d.pc \in {"check", "register", "send", "flip", "idle"}
                 /\ d.pc = "send" => d.item = "none"
    BY <1>7 DEF Asking, Moving
  <2>2. UNCHANGED <<sock, reader, executed>>
    BY <1>7 DEF Asking, Moving
  <2> QED  BY <1>6, <2>1, <2>2 DEF Answers
<1>8. ASSUME NEW c \in Callers, Settling(c) PROVE FatesInv'
  <2>1. PICK outcome : call' = Settle(c, outcome)
    BY <1>8 DEF Settling
  <2> DEFINE d == Settle(c, outcome)[c]
  <2>2. call' = [call EXCEPT ![c] = d] /\ d.pc \in {"choose", "restore", "idle"}
    BY <1>0, <2>1, SettleShape
  <2>3. UNCHANGED <<sock, reader, executed>>
    BY <1>8 DEF Settling
  <2> HIDE DEF d
  <2> QED  BY <1>6, <2>2, <2>3
<1>9. ASSUME NEW c \in Callers, Send(c) PROVE FatesInv'
  <2>1. /\ call[c].pc = "send" /\ call'[c] = [call[c] EXCEPT !.pc = "wait"]
        /\ \A b \in Callers : b # c => call'[b] = call[b]
        /\ UNCHANGED <<reader, executed>>
        /\ \A s \in Sockets : sock'[s].down = sock[s].down
        /\ \A s \in Sockets : \A m \in sock'[s].up : m \in sock[s].up \/ m.id = Id(c)
        /\ ~Sent(Id(c)) /\ Id(c)' = Id(c)
    BY <1>0, <1>9, SendMoves
  <2>2. ASSUME NEW id, NEW answer, TrueOf(id, answer), id # Id(c)
        PROVE  TrueOf(id, answer)'
    BY <2>1, <2>2 DEF TrueOf, Refused
  <2>3. ASSUME NEW s \in Sockets, NEW f \in sock'[s].down \union reader'[s].got
        PROVE  TrueOf(f.id, f.answer)'
    <3>1. f \in sock[s].down \union reader[s].got
      BY <2>1
    <3>2. TrueOf(f.id, f.answer) /\ Sent(f.id)
      BY <1>0, <3>1 DEF FatesInv, IInv, FramesInv, Truthful
    <3> QED  BY <2>1, <2>2, <3>2
  <2>4. ASSUME NEW b \in Callers, b # c
        PROVE  /\ call'[b].pc = "send" => call'[b].item \notin Answers
               /\ call'[b].pc = "wait" => TrueOf(Id(b), call[b].item)'
    <3>1. call'[b] = call[b] /\ Id(b)' = Id(b) /\ Id(b) # Id(c)
      BY <2>1, <2>4 DEF Id
    <3> QED  BY <1>0, <2>2, <3>1 DEF FatesInv
  <2>5. call'[c].pc = "wait" /\ call'[c].item = call[c].item /\ call[c].item \notin Answers
    BY <1>0, <2>1 DEF FatesInv, Counted, Fields
  <2>6. TrueOf(Id(c), call[c].item)'
    BY <2>5 DEF TrueOf, Answers
  <2> QED  BY <2>3, <2>4, <2>5, <2>6 DEF FatesInv
<1>10. ASSUME NEW s \in Sockets, Serve(s) PROVE FatesInv'
  <2>1. PICK m \in sock[s].up, answer \in Answers :
          /\ executed' = IF answer = "ok" THEN executed \union {m.id} ELSE executed
          /\ \A t \in Sockets : sock'[t].up \subseteq sock[t].up
          /\ \A t \in Sockets : \A k \in sock'[t].up : k.id # m.id
          /\ \A t \in Sockets : sock'[t].down \subseteq
               sock[t].down \union {[id |-> m.id, answer |-> answer]}
          /\ UNCHANGED <<reader, call>>
    BY <1>0, <1>10, ServeMoves
  <2>2. ASSUME NEW id, NEW word, TrueOf(id, word) PROVE TrueOf(id, word)'
    <3>1. word \in {"denied", "signature"} => id # m.id
      BY <2>2 DEF TrueOf, Refused
    <3> QED  BY <2>1, <2>2, <3>1 DEF TrueOf, Refused
  <2>3. m.id \notin executed
    BY <1>0 DEF IInv, WireInv
  <2>4. TrueOf(m.id, answer)'
    BY <2>1, <2>3 DEF TrueOf, Refused, Answers
  <2>5. ASSUME NEW t \in Sockets, NEW f \in sock'[t].down \union reader'[t].got
        PROVE  TrueOf(f.id, f.answer)'
    <3>1. CASE f \in sock[t].down \union reader[t].got
      BY <1>0, <2>2, <3>1 DEF FatesInv
    <3>2. CASE f = [id |-> m.id, answer |-> answer]
      BY <2>4, <3>2
    <3> QED  BY <2>1, <3>1, <3>2
  <2>6. ASSUME NEW b \in Callers
        PROVE  /\ call'[b].pc = "send" => call'[b].item \notin Answers
               /\ call'[b].pc = "wait" => TrueOf(Id(b), call[b].item)'
    <3>1. call'[b] = call[b] /\ Id(b)' = Id(b)
      BY <2>1 DEF Id
    <3> QED  BY <1>0, <2>2, <3>1 DEF FatesInv
  <2> QED  BY <2>5, <2>6 DEF FatesInv
<1> QED  BY <1>0, <1>4, <1>5, <1>7, <1>8, <1>9, <1>10, Outline

-----------------------------------------------------------------------------
\* The setup of a client does not change.
LEMMA SetupStays == [Next]_vars => setup' = setup
<1>1. ASSUME NEW c \in Callers, Request(c) \/ CallerStep(c) PROVE setup' = setup
  BY <1>1 DEF Request, CallerStep, CheckConnected, Register, Send, SendFails, Take, TimeOut,
              ChooseOther, Flip, BothRefused
<1>2. ASSUME NEW s \in Sockets, ReaderStep(s) \/ ServerStep(s) PROVE setup' = setup
  BY <1>2 DEF ReaderStep, ReaderStart, ReadAnswer, PutAnswer, ReadRefusal, WakeRefused, ReadFails,
              ReaderEnd, ServerStep, Serve, ServerRefuses, Break, Lose
<1>3. MainStep => setup' = setup
  BY DEF MainStep, Connect, OpenFails, Open, Grace, Close, DropSocket, JoinReader, CloseWakes
<1> QED  BY <1>1, <1>2, <1>3 DEF Next, vars

\* A try whose refusal does not call for another one ends the call, as far as
\* its caller is concerned.
LEMMA SettleEnds ==
  ASSUME CallShape, NEW c \in Callers, NEW outcome, ~(call[c].try = 1 /\ OtherEncoding(c, outcome))
  PROVE  Settle(c, outcome)[c].pc \in {"restore", "idle"}
BY DEF Settle, CallShape, Counted, Fields, Resting

LEMMA SettleAgain ==
  ASSUME CallShape, NEW c \in Callers, NEW outcome, call[c].try = 1 /\ OtherEncoding(c, outcome)
  PROVE  Settle(c, outcome)[c].pc = "choose" /\ outcome = "signature"
BY DEF Settle, CallShape, Counted, Fields, OtherEncoding

\* Nothing revives a command without hope.
LEMMA HopelessStays ==
  ASSUME SInv, [Next]_vars, NEW c \in Callers, NEW n \in 1 .. MaxRequests, Hopeless(c, n)
  PROVE  Hopeless(c, n)'
<1>0. IInv /\ Typed /\ FatesInv /\ CallShape /\ \A b \in Callers : Counted(call[b]) /\ call[b].n \in Nat
  BY DEF SInv, IInv, Shape, CallShape, Counted
<1>s. setup' = setup
  BY SetupStays
<1>n. n \in Nat
  BY BoundAssumption
<1>1. ASSUME executed' = executed, \A s \in Sockets : sock'[s].up \subseteq sock[s].up
      PROVE  Refused(<<c, n, 1>>)' /\ Refused(<<c, n, 2>>)'
  BY <1>0, <1>1, RefusedStays DEF Hopeless
<1>2. ASSUME call'[c] = call[c] PROVE n <= call'[c].n /\ (n = call'[c].n => Over(c)')
  BY <1>2, <1>s DEF Hopeless, Over, TriedAgain, OtherEncoding
<1>3. CASE Calm
  BY <1>1, <1>2, <1>3 DEF Calm, Hopeless
<1>4. CASE Waking
  <2>1. UNCHANGED <<sock, executed>>
    BY <1>4 DEF Waking
  <2>2. PICK ids, item : call' = Deliver(ids, item)
    BY <1>4 DEF Waking
  <2>3. call'[c].n = call[c].n /\ call'[c].pc = call[c].pc
    BY <1>0, <2>2, DeliverShape
  <2>4. call[c].item # "none" => call'[c] = call[c]
    BY <2>2 DEF Deliver
  <2>5. n <= call'[c].n /\ (n = call'[c].n => Over(c)')
    <3>1. CASE call[c].item # "none"
      BY <1>2, <2>4, <3>1
    <3>2. CASE call[c].item = "none"
      BY <2>3, <3>2 DEF Hopeless, Over
    <3> QED  BY <3>1, <3>2
  <2> QED  BY <1>1, <2>1, <2>5 DEF Hopeless
<1>5. ASSUME NEW b \in Callers, Asking(b) \/ Moving(b) \/ Settling(b) PROVE Hopeless(c, n)'
  <2>1. UNCHANGED <<sock, executed>>
    BY <1>5 DEF Asking, Moving, Settling
  <2>2. CASE b # c
    <3>1. call'[c] = call[c]
      <4>1. CASE Asking(b) \/ Moving(b)
        <5>1. PICK d : call' = [call EXCEPT ![b] = d]
          BY <4>1 DEF Asking, Moving
        <5> QED  BY <1>0, <2>2, <5>1 DEF CallShape
      <4>2. CASE Settling(b)
        <5>1. PICK outcome : call' = Settle(b, outcome)
          BY <4>2 DEF Settling
        <5> QED  BY <1>0, <2>2, <5>1 DEF CallShape, Settle
      <4> QED  BY <1>5, <4>1, <4>2
    <3> QED  BY <1>1, <1>2, <2>1, <3>1 DEF Hopeless
  <2>3. CASE b = c /\ Asking(b)
    <3>1. call'[c].n = call[c].n + 1
      BY <1>0, <2>3 DEF Asking, CallShape
    <3>2. n <= call'[c].n /\ n # call'[c].n
      BY <1>0, <1>n, <3>1 DEF Hopeless
    <3> QED  BY <1>1, <2>1, <3>2 DEF Hopeless
  <2>4. CASE b = c /\ Moving(b)
    <3>1. /\ call'[c].n = call[c].n
          /\ \/ call[c].pc \in {"check", "register", "choose", "flip"}
             \/ call[c].pc = "restore" /\ call'[c].pc = "idle"
      BY <1>0, <2>4 DEF Moving, CallShape
    <3> QED  BY <1>1, <2>1, <3>1 DEF Hopeless, Over
  <2>5. CASE b = c /\ Settling(b)
    <3>1. PICK outcome :
            /\ call' = Settle(c, outcome)
            /\ call[c].pc = "wait" /\ call[c].item # "none" => outcome = call[c].item
      BY <2>5 DEF Settling
    <3>2. call'[c].n = call[c].n
      <4> DEFINE d == Settle(c, outcome)[c]
      <4>1. d.n = call[c].n
        BY <1>0, SettleShape
      <4> QED  BY <3>1, <4>1
    <3>3. Over(c) => call[c].pc = "wait" /\ call[c].item # "none" /\ ~TriedAgain(c)
      BY <2>5 DEF Settling, Over
    <3>4. Over(c) => call'[c].pc \in {"restore", "idle"}
      BY <1>0, <3>1, <3>3, SettleEnds DEF TriedAgain
    <3>5. n <= call'[c].n /\ (n = call'[c].n => Over(c)')
      BY <3>2, <3>4 DEF Hopeless, Over
    <3> QED  BY <1>1, <2>1, <3>5 DEF Hopeless
  <2> QED  BY <1>5, <2>2, <2>3, <2>4, <2>5
<1>6. ASSUME NEW b \in Callers, Send(b) PROVE Hopeless(c, n)'
  <2>1. /\ call[b].pc = "send" /\ call'[b] = [call[b] EXCEPT !.pc = "wait"]
        /\ \A a \in Callers : a # b => call'[a] = call[a]
        /\ UNCHANGED <<reader, executed>>
        /\ \A s \in Sockets : \A m \in sock'[s].up : m \in sock[s].up \/ m.id = Id(b)
    BY <1>0, <1>6, SendMoves
  <2>2. <<c, n, 1>> # Id(b) /\ <<c, n, 2>> # Id(b)
    BY <2>1 DEF Id, Hopeless, Over
  <2>3. Refused(<<c, n, 1>>)' /\ Refused(<<c, n, 2>>)'
    BY <2>1, <2>2 DEF Hopeless, Refused
  <2>4. n <= call'[c].n /\ (n = call'[c].n => Over(c)')
    <3>1. CASE b # c
      BY <1>2, <2>1, <3>1
    <3>2. CASE b = c
      <4>1. call'[c].n = call[c].n
        BY <1>0, <2>1, <3>2 DEF Counted, Fields
      <4> QED  BY <2>1, <3>2, <4>1 DEF Hopeless, Over
    <3> QED  BY <3>1, <3>2
  <2> QED  BY <2>3, <2>4 DEF Hopeless
<1>7. ASSUME NEW s \in Sockets, Serve(s) PROVE Hopeless(c, n)'
  <2>1. PICK m \in sock[s].up, answer \in Answers :
          /\ executed' = IF answer = "ok" THEN executed \union {m.id} ELSE executed
          /\ \A t \in Sockets : sock'[t].up \subseteq sock[t].up
          /\ UNCHANGED <<reader, call>>
    BY <1>0, <1>7, ServeMoves
  <2>2. Refused(<<c, n, 1>>)' /\ Refused(<<c, n, 2>>)'
    BY <2>1 DEF Hopeless, Refused
  <2> QED  BY <1>2, <2>1, <2>2 DEF Hopeless
<1> QED  BY <1>0, <1>3, <1>4, <1>5, <1>6, <1>7, Outline

-----------------------------------------------------------------------------
(* Every step of the client is a step of CommandService, or a stutter.     *)

\* A command whose caller is told that it was refused, is.
RefusalsInv == \A c \in Callers, n \in 1 .. MaxRequests :
  call[c].pc = "wait" /\ Heard(c) = "refused" /\ n = call[c].n => Hopeless(c, n)

LEMMA RefusalsHold == SInv => RefusalsInv
<1> SUFFICES ASSUME SInv, NEW c \in Callers, NEW n \in 1 .. MaxRequests,
                    call[c].pc = "wait", Heard(c) = "refused", n = call[c].n
             PROVE  Hopeless(c, n)
  BY DEF RefusalsInv
<1>0. IInv /\ FatesInv /\ CallShape /\ Counted(call[c]) /\ Justified(c, call[c])
  BY DEF SInv, IInv, Shape, CallShape, CallersInv
<1>1. call[c].item \in {"denied", "signature"} /\ ~TriedAgain(c)
  <2>1. CASE call[c].item \in {"denied", "signature"}
    BY <2>1 DEF Heard
  <2>2. CASE call[c].item \notin {"denied", "signature"}
    BY <2>2 DEF Heard
  <2> QED  BY <2>1, <2>2
<1>2. Over(c)
  BY <1>1 DEF Over
<1>3. Refused(Id(c))
  BY <1>0, <1>1 DEF FatesInv, TrueOf
<1>4. Refused(<<c, n, 1>>) /\ Refused(<<c, n, 2>>)
  <2>1. CASE call[c].try = 1
    <3>1. ~Sent(<<c, n, 2>>)
      BY <1>0, <2>1 DEF Sent, Spent, Counted
    <3> QED  BY <1>0, <1>3, <2>1, <3>1, Unsent DEF Id
  <2>2. CASE call[c].try = 2
    BY <1>0, <1>3, <2>2 DEF Id, Justified
  <2> QED  BY <1>0, <2>1, <2>2 DEF Counted
<1>5. n <= call[c].n
  BY <1>0 DEF Counted
<1> QED  BY <1>2, <1>4, <1>5 DEF Hopeless

LEMMA ServiceInit == Init => Service!Init
<1> SUFFICES ASSUME Init PROVE Service!Init
  OBVIOUS
<1>1. \A c \in Callers : call[c] = Resting
  BY DEF Init
<1>2. \A c \in Callers : Heard(c) = "nothing"
  BY <1>1 DEF Heard, Resting
<1>3. \A c \in Callers, n \in 1 .. MaxRequests : ~Hopeless(c, n)
  BY <1>1, BoundAssumption DEF Hopeless, Resting
<1> QED  BY <1>1, <1>2, <1>3 DEF Service!Init, Init, Resting

\* A step of the client is a step of the service, or one that its callers do
\* not notice.
LEMMA ServiceStep ==
  ASSUME SInv, SInv', RefusalsInv', [Next]_vars
  PROVE  Service!Next
<1> DEFINE asked   == [c \in Callers |-> call[c].n]
           running == [c \in Callers |-> call[c].pc \notin {"idle", "restore"}]
           heard   == [c \in Callers |-> Heard(c)]
           void    == {r \in Callers \X (1 .. MaxRequests) : Hopeless(r[1], r[2])}
<1>0. /\ IInv /\ Typed /\ FatesInv /\ CallShape
      /\ \A c \in Callers : Counted(call[c]) /\ CallFits(call[c]) /\ call[c].n \in Nat
  BY DEF SInv, IInv, Shape, CallShape, Counted, Typed
<1>s. setup' = setup
  BY SetupStays
<1>1. Service!Voided
  <2>1. \A c \in Callers, n \in 1 .. MaxRequests : Hopeless(c, n) => Hopeless(c, n)'
    BY HopelessStays
  <2>2. void \subseteq void'
    BY <2>1
  <2>3. \A r \in void' : {<<r[1], r[2], 1>>, <<r[1], r[2], 2>>} \intersect executed' = {}
    BY DEF Hopeless, Refused
  <2> QED  BY <2>2, <2>3 DEF Service!Voided, Service!Messages
<1>2. ASSUME UNCHANGED <<asked, running, heard, executed>>
      PROVE  Service!Next
  BY <1>1, <1>2 DEF Service!Next
<1>3. ASSUME NEW c \in Callers, call'[c] = call[c]
      PROVE  Heard(c)' = Heard(c)
  BY <1>3, <1>s DEF Heard, TriedAgain, OtherEncoding
<1>4. ASSUME UNCHANGED <<call, executed>>
      PROVE  Service!Next
  <2>1. asked' = asked /\ running' = running
    BY <1>4
  <2>2. heard' = heard
    BY <1>3, <1>4
  <2> QED  BY <1>2, <1>4, <2>1, <2>2
<1>5. CASE Calm
  BY <1>4, <1>5 DEF Calm
<1>6. CASE Waking
  <2>1. PICK ids, item : call' = Deliver(ids, item)
    BY <1>6 DEF Waking
  <2>2. /\ executed' = executed
        /\ \A c \in Callers : /\ call'[c].n = call[c].n /\ call'[c].pc = call[c].pc
                              /\ call[c].item # "none" => call'[c] = call[c]
    <3>1. \A c \in Callers : call'[c].n = call[c].n /\ call'[c].pc = call[c].pc
      BY <1>0, <2>1, DeliverShape
    <3>2. \A c \in Callers : call[c].item # "none" => call'[c] = call[c]
      BY <2>1 DEF Deliver
    <3> QED  BY <1>6, <3>1, <3>2 DEF Waking
  <2>3. UNCHANGED <<asked, running, executed>>
    BY <2>2
  <2>4. ASSUME NEW c \in Callers, Heard(c)' # Heard(c)
        PROVE  /\ call[c].pc \notin {"idle", "restore"} /\ Heard(c) = "nothing"
               /\ Heard(c)' = "done" => Service!Messages(c, call[c].n) \intersect executed # {}
               /\ Heard(c)' = "refused" =>
                    \E n \in 1 .. MaxRequests : n = call[c].n /\ Hopeless(c, n)'
    <3>1. call[c].item = "none"
      BY <1>3, <2>2, <2>4
    <3>2. Heard(c) = "nothing"
      BY <3>1 DEF Heard
    <3>3. call[c].pc \in {"send", "wait"}
      BY <2>2, <2>4, <3>2 DEF Heard
    <3>4. ASSUME Heard(c)' \in {"done", "refused"}
          PROVE  call'[c].pc = "wait" /\ call'[c].item \in Answers
      <4>1. call'[c].item \in Answers
        BY <1>0, <3>4 DEF Heard, Answers
      <4> QED  BY <2>2, <3>3, <4>1 DEF SInv, FatesInv
    <3>5. ASSUME Heard(c)' = "done"
          PROVE  Service!Messages(c, call[c].n) \intersect executed # {}
      <4>1. call'[c].item = "ok"
        BY <3>5 DEF Heard
      <4>2. Id(c)' \in executed
        BY <2>2, <3>4, <3>5, <4>1 DEF SInv, FatesInv, TrueOf
      <4>3. Id(c)' = <<c, call[c].n, call'[c].try>>
        BY <2>2 DEF Id
      <4>4. call'[c].try \in {1, 2}
        BY DEF SInv, Typed, CallFits, CallType
      <4> QED  BY <4>2, <4>3, <4>4 DEF Service!Messages
    <3>6. ASSUME Heard(c)' = "refused"
          PROVE  \E n \in 1 .. MaxRequests : n = call[c].n /\ Hopeless(c, n)'
      <4>1. call[c].n \in 1 .. MaxRequests
        BY <1>0, <3>3, BoundAssumption DEF CallFits, CallType
      <4> QED  BY <2>2, <3>4, <3>6, <4>1 DEF RefusalsInv
    <3> QED  BY <3>2, <3>3, <3>5, <3>6
  <2>5. heard' \in [Callers -> Service!Fates]
    BY DEF Heard, Service!Fates
  <2>6. Service!Tell
    <3> HIDE DEF asked, running, heard
    <3>1. \A c \in Callers : /\ asked[c] = call[c].n /\ heard[c] = Heard(c) /\ heard'[c] = Heard(c)'
                             /\ running[c] = (call[c].pc \notin {"idle", "restore"})
      BY DEF asked, running, heard
    <3>2. \A c \in Callers, n \in 1 .. MaxRequests :
            n = asked[c] /\ Hopeless(c, n)' => <<c, asked[c]>> \in void'
      OBVIOUS
    <3>3. \A c \in Callers : heard'[c] # heard[c] =>
            /\ running[c] /\ heard[c] = "nothing"
            /\ heard'[c] = "done" => Service!Messages(c, asked[c]) \intersect executed # {}
            /\ heard'[c] = "refused" => <<c, asked[c]>> \in void'
      <4> SUFFICES ASSUME NEW c \in Callers, heard'[c] # heard[c]
                   PROVE  /\ running[c] /\ heard[c] = "nothing"
                          /\ heard'[c] = "done" =>
                               Service!Messages(c, asked[c]) \intersect executed # {}
                          /\ heard'[c] = "refused" => <<c, asked[c]>> \in void'
        OBVIOUS
      <4>1. asked[c] = call[c].n /\ heard[c] = Heard(c) /\ heard'[c] = Heard(c)'
            /\ running[c] = (call[c].pc \notin {"idle", "restore"})
        BY <3>1
      <4>2. /\ running[c] /\ heard[c] = "nothing"
            /\ heard'[c] = "done" => Service!Messages(c, asked[c]) \intersect executed # {}
        BY <2>4, <4>1
      <4>3. heard'[c] = "refused" => <<c, asked[c]>> \in void'
        BY <2>4, <3>2, <4>1
      <4> QED  BY <4>2, <4>3
    <3> QED  BY <2>3, <2>5, <3>3 DEF Service!Tell, asked, running, heard
  <2> QED  BY <1>1, <2>6 DEF Service!Next
<1>7. ASSUME \A c \in Callers : /\ call'[c].n = call[c].n /\ Heard(c)' = Heard(c)
                                /\ (call'[c].pc \in {"idle", "restore"}) <=>
                                     (call[c].pc \in {"idle", "restore"}),
             executed' = executed
      PROVE  Service!Next
  <2>a. \A c \in Callers : call'[c].n = call[c].n
    BY <1>7
  <2>b. \A c \in Callers : (call'[c].pc \notin {"idle", "restore"})
                           = (call[c].pc \notin {"idle", "restore"})
    BY <1>7
  <2>c. \A c \in Callers : Heard(c)' = Heard(c)
    BY <1>7
  <2>1. asked' = asked
    BY <2>a
  <2>2. running' = running
    BY <2>b
  <2>3. heard' = heard
    BY <2>c
  <2> QED  BY <1>2, <1>7, <2>1, <2>2, <2>3
<1>8. ASSUME NEW c \in Callers, Asking(c) PROVE Service!Next
  <2>1. PICK d : call' = [call EXCEPT ![c] = d] /\ call[c].pc = "idle" /\ d.pc = "check"
                 /\ d.n = call[c].n + 1
    BY <1>8 DEF Asking
  <2>2. call'[c] = d /\ \A b \in Callers : b # c => call'[b] = call[b]
    BY <1>0, <2>1 DEF CallShape
  <2>3. asked' = [asked EXCEPT ![c] = @ + 1]
    <3>1. \A b \in Callers : call'[b].n = IF b = c THEN call[c].n + 1 ELSE call[b].n
      BY <2>1, <2>2
    <3> QED  BY <3>1
  <2>4. running' = [running EXCEPT ![c] = TRUE]
    BY <2>1, <2>2
  <2>5. \A b \in Callers : Heard(b)' = Heard(b)
    <3>1. Heard(c) = "nothing" /\ Heard(c)' = "nothing"
      BY <2>1, <2>2 DEF Heard
    <3> QED  BY <1>3, <2>2, <3>1
  <2>6. heard' = heard
    BY <2>5
  <2>7. ~running[c] /\ executed' = executed
    BY <1>8, <2>1 DEF Asking
  <2>8. \E accepted \in BOOLEAN : running' = [running EXCEPT ![c] = accepted]
    BY <2>4
  <2>9. Service!Ask(c)
    <3> HIDE DEF asked, running, heard
    <3> QED  BY <2>3, <2>6, <2>7, <2>8 DEF Service!Ask, asked, running, heard
  <2> QED  BY <1>1, <2>9 DEF Service!Next
<1>9. ASSUME NEW c \in Callers, Settling(c) PROVE Service!Next
  <2>1. PICK outcome :
          /\ call' = Settle(c, outcome)
          /\ call[c].pc = "wait" /\ call[c].item # "none" => outcome = call[c].item
          /\ call[c].pc # "wait" \/ call[c].item = "none" => outcome # "signature"
    BY <1>9 DEF Settling
  <2>2. call[c].pc \in {"check", "register", "send", "wait"} /\ executed' = executed
    BY <1>9 DEF Settling
  <2>3. call'[c].n = call[c].n
    <3> DEFINE d == Settle(c, outcome)[c]
    <3>1. d.n = call[c].n
      BY <1>0, SettleShape
    <3> QED  BY <2>1, <3>1
  <2>4. \A b \in Callers : b # c => call'[b] = call[b]
    BY <1>0, <2>1 DEF CallShape, Settle
  <2>5. \A b \in Callers : b # c => Heard(b)' = Heard(b)
    BY <1>3, <2>4
  <2>6. CASE call[c].try = 1 /\ OtherEncoding(c, outcome)
    <3>1. call'[c].pc = "choose" /\ outcome = "signature"
      BY <1>0, <2>1, <2>6, SettleAgain
    <3>2. TriedAgain(c)
      BY <2>1, <2>6, <3>1 DEF TriedAgain
    <3>3. Heard(c) = "nothing" /\ Heard(c)' = "nothing"
      BY <3>1, <3>2 DEF Heard
    <3>4. \A b \in Callers : /\ call'[b].n = call[b].n /\ Heard(b)' = Heard(b)
                             /\ (call'[b].pc \in {"idle", "restore"}) <=>
                                  (call[b].pc \in {"idle", "restore"})
      BY <2>2, <2>3, <2>4, <2>5, <3>1, <3>3
    <3> QED  BY <1>7, <2>2, <3>4
  <2>7. CASE ~(call[c].try = 1 /\ OtherEncoding(c, outcome))
    <3>1. call'[c].pc \in {"restore", "idle"}
      BY <1>0, <2>1, <2>7, SettleEnds
    <3>2. Heard(c)' = "nothing"
      BY <3>1 DEF Heard
    <3>3. asked' = asked
      BY <2>3, <2>4
    <3>4. running' = [running EXCEPT ![c] = FALSE]
      BY <2>4, <3>1
    <3>5. heard' = [heard EXCEPT ![c] = "nothing"]
      BY <2>5, <3>2
    <3>6. Service!Return(c)
      BY <2>2, <3>3, <3>4, <3>5 DEF Service!Return
    <3> QED  BY <1>1, <3>6 DEF Service!Next
  <2> QED  BY <2>6, <2>7
<1>10. ASSUME NEW c \in Callers, Moving(c) PROVE Service!Next
  <2>1. PICK d : /\ call' = [call EXCEPT ![c] = d]
                 /\ d.n = call[c].n
                 /\ \/ /\ call[c].pc \in {"check", "register", "choose", "flip"}
                       /\ d.pc \in {"register", "send", "flip", "check"}
                       /\ d.pc = "send" => d.item = "none"
                    \/ call[c].pc = "restore" /\ d.pc = "idle"
    BY <1>10 DEF Moving
  <2>2. call'[c] = d /\ \A b \in Callers : b # c => call'[b] = call[b]
    BY <1>0, <2>1 DEF CallShape
  <2>3. Heard(c) = "nothing"
    BY <2>1 DEF Heard
  <2>4. Heard(c)' = "nothing"
    BY <2>1, <2>2 DEF Heard
  <2>5. \A b \in Callers : /\ call'[b].n = call[b].n /\ Heard(b)' = Heard(b)
                           /\ (call'[b].pc \in {"idle", "restore"}) <=>
                                (call[b].pc \in {"idle", "restore"})
    BY <1>3, <2>1, <2>2, <2>3, <2>4
  <2>6. executed' = executed
    BY <1>10 DEF Moving
  <2> QED  BY <1>7, <2>5, <2>6
<1>11. ASSUME NEW c \in Callers, Send(c) PROVE Service!Next
  <2>1. /\ call[c].pc = "send" /\ call'[c] = [call[c] EXCEPT !.pc = "wait"]
        /\ \A b \in Callers : b # c => call'[b] = call[b]
        /\ executed' = executed
    BY <1>0, <1>11, SendMoves
  <2>2. /\ call'[c].pc = "wait" /\ call'[c].n = call[c].n /\ call'[c].item = call[c].item
        /\ call'[c].try = call[c].try /\ call'[c].signed = call[c].signed
    BY <1>0, <2>1 DEF Counted, Fields
  <2>3. Heard(c)' = Heard(c)
    BY <1>s, <2>1, <2>2 DEF Heard, TriedAgain, OtherEncoding
  <2>4. \A b \in Callers : /\ call'[b].n = call[b].n /\ Heard(b)' = Heard(b)
                           /\ (call'[b].pc \in {"idle", "restore"}) <=>
                                (call[b].pc \in {"idle", "restore"})
    BY <1>3, <2>1, <2>2, <2>3
  <2> QED  BY <1>7, <2>1, <2>4
<1>12. ASSUME NEW s \in Sockets, Serve(s) PROVE Service!Next
  <2>1. PICK m \in sock[s].up, answer \in Answers :
          /\ executed' = IF answer = "ok" THEN executed \union {m.id} ELSE executed
          /\ UNCHANGED call
    BY <1>0, <1>12, ServeMoves
  <2>2. CASE answer # "ok"
    BY <1>4, <2>1, <2>2
  <2>3. CASE answer = "ok"
    <3>1. m.id \in Ids /\ Sent(m.id) /\ m.id \notin executed
      BY <1>0 DEF IInv, WireInv, Typed, SocketType, Commands
    <3>2. PICK c \in Callers, n \in 1 .. MaxRequests, k \in {1, 2} : m.id = <<c, n, k>>
      BY <3>1 DEF Ids
    <3>3. n \in 1 .. call[c].n
      <4>1. n <= call[c].n
        BY <1>0, <3>1, <3>2, BoundAssumption DEF Sent, Spent
      <4> QED  BY <1>0, <4>1, BoundAssumption
    <3>4. ~Refused(<<c, n, k>>)
      BY <3>2 DEF Refused
    <3>5. <<c, n>> \notin void
      BY <3>4 DEF Hopeless
    <3>6. <<c, n, 1>> \notin executed /\ <<c, n, 2>> \notin executed
      <4>1. Refused(<<c, n, 1>>) \/ Refused(<<c, n, 2>>)
        BY <1>0, BoundAssumption DEF IInv, SecondInv
      <4> QED  BY <3>1, <3>2, <3>4, <4>1 DEF Refused
    <3>7. asked' = asked /\ running' = running
      BY <2>1
    <3>8. heard' = heard
      BY <1>3, <2>1
    <3>9. Service!CarryOut(c)
      <4>1. n \in 1 .. asked[c]
        BY <3>3
      <4>2. Service!Messages(c, n) \intersect executed = {}
        BY <3>6 DEF Service!Messages
      <4>3. \E message \in Service!Messages(c, n) : executed' = executed \union {message}
        BY <2>1, <2>3, <3>2 DEF Service!Messages
      <4> QED  BY <3>5, <3>7, <3>8, <4>1, <4>2, <4>3 DEF Service!CarryOut
    <3> QED  BY <1>1, <3>9 DEF Service!Next
  <2> QED  BY <2>2, <2>3
<1> QED  BY <1>0, <1>5, <1>6, <1>8, <1>9, <1>10, <1>11, <1>12, Outline

LEMMA InitSInv == Init => SInv
<1>1. Init => FatesInv
  BY DEF Init, FatesInv, Absent, NoReader, Resting
<1> QED  BY <1>1, InitIInv, InitTyped DEF SInv

LEMMA NextSInv == SInv /\ [Next]_vars => SInv'
BY NextIInv, NextTyped, NextFates DEF SInv

\* Whatever its threads, the server and the network do, the client keeps the
\* promise of CommandService to those who call request().
THEOREM ServiceImplemented == Spec => ImplementsService
<1>1. SInv => RefusalsInv
  BY RefusalsHold
<1>2. SInv /\ SInv' /\ RefusalsInv' /\ [Next]_vars => [Service!Next]_(Service!vars)
  BY ServiceStep
<1> QED  BY <1>1, <1>2, InitSInv, NextSInv, ServiceInit, PTL
         DEF Spec, ImplementsService, Service!Spec

\* What CommandService promises of the fate of a command, read in the state of
\* the client: none is carried out twice, and what a caller is told is so.
THEOREM PromiseKept == Spec => []Service!Promise
<1>1. ASSUME SInv PROVE Service!Promise
  <2>0. /\ IInv /\ FatesInv /\ CallShape /\ RefusalsInv
        /\ \A c \in Callers : CallFits(call[c]) /\ Counted(call[c])
    BY <1>1, RefusalsHold DEF SInv, IInv, Shape, CallShape, Typed
  <2> SUFFICES ASSUME NEW c \in Callers
               PROVE  /\ \A n \in 1 .. call[c].n : ~(Service!Messages(c, n) \subseteq executed)
                      /\ Heard(c) = "done" => Service!Messages(c, call[c].n) \intersect executed # {}
                      /\ Heard(c) = "refused" =>
                           <<c, call[c].n>> \in
                             {r \in Callers \X (1 .. MaxRequests) : Hopeless(r[1], r[2])}
    BY DEF Service!Promise
  <2>1. ASSUME NEW n \in 1 .. call[c].n PROVE ~(Service!Messages(c, n) \subseteq executed)
    <3>1. n \in Nat
      BY <2>0 DEF Counted
    <3>2. Refused(<<c, n, 1>>) \/ Refused(<<c, n, 2>>)
      BY <2>0, <3>1 DEF IInv, SecondInv
    <3> QED  BY <3>2 DEF Refused, Service!Messages
  <2>2. ASSUME Heard(c) \in {"done", "refused"}
        PROVE  call[c].pc = "wait" /\ call[c].item \in Answers /\ call[c].n \in 1 .. MaxRequests
    <3>1. call[c].item \in Answers /\ call[c].pc \in {"send", "wait"}
      BY <2>0, <2>2 DEF Heard, Answers
    <3>2. call[c].n \in 1 .. MaxRequests
      BY <2>0, <3>1, BoundAssumption DEF CallFits, CallType
    <3> QED  BY <2>0, <3>1, <3>2 DEF FatesInv
  <2>3. ASSUME Heard(c) = "done"
        PROVE  Service!Messages(c, call[c].n) \intersect executed # {}
    <3>1. call[c].item = "ok"
      BY <2>3 DEF Heard
    <3>2. <<c, call[c].n, call[c].try>> \in executed
      BY <2>0, <2>2, <2>3, <3>1 DEF FatesInv, TrueOf, Id
    <3> QED  BY <2>0, <3>2 DEF Counted, Service!Messages
  <2>4. ASSUME Heard(c) = "refused"
        PROVE  <<c, call[c].n>> \in {r \in Callers \X (1 .. MaxRequests) : Hopeless(r[1], r[2])}
    BY <2>0, <2>2, <2>4 DEF RefusalsInv
  <2> QED  BY <2>1, <2>3, <2>4
<1> QED  BY <1>1, InitSInv, NextSInv, PTL DEF Spec
=============================================================================

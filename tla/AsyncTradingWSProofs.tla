------------------------- MODULE AsyncTradingWSProofs -------------------------
(***************************************************************************)
(* Proofs about AsyncTradingWS, for any number of callers, sockets and     *)
(* requests: what a caller is told of its command is true, nobody is left  *)
(* waiting when nobody is left to tell, and the client implements          *)
(* CommandService.  The argument for the first two has three parts that    *)
(* build on each other: which reader task is alive and which socket it     *)
(* reads (Alive), which ids have a queue in the table (Queues), and what   *)
(* has been put into those queues (Told).  The last one adds where the     *)
(* messages of a command are and what has become of them (FInv).           *)
(***************************************************************************)
EXTENDS AsyncTradingWS, TLAPS

-----------------------------------------------------------------------------
(* The invariants.                                                         *)

CallFields   == {"pc", "n", "try", "signed", "ws", "first", "item"}
SockFields   == {"state", "up", "down", "refusal"}
ReaderFields == {"pc", "ws", "cancelled"}
Shape ==
  /\ call = [c \in Callers |-> call[c]] /\ sock = [s \in Sockets |-> sock[s]]
  /\ reader = [s \in Sockets |-> reader[s]]
  /\ \A c \in Callers : DOMAIN call[c] = CallFields /\ call[c].n \in Nat /\ call[c].try \in {1, 2}
  /\ \A s \in Sockets : DOMAIN sock[s] = SockFields /\ DOMAIN reader[s] = ReaderFields
  /\ DOMAIN self = {"ws", "reader", "rejection", "encoding"}
  /\ self.ws \in Sockets \union {NoSocket} /\ self.reader \in {NoSocket, self.ws}

\* The only reader that runs on is the client's, and it reads the client's socket.
RunsOn(s) == reader[s].pc # "done" /\ ~reader[s].cancelled
ReadersInv == \A s \in Sockets :
  /\ RunsOn(s) => s = self.reader /\ (reader[s].pc = "read" => reader[s].ws = s)
  /\ reader[s].cancelled => self.reader = NoSocket
\* The only open socket is the client's; its reader ends with it.
OpenInv ==
  /\ \A s \in Sockets : sock[s].state = "open" => s = self.ws
  /\ self.reader # NoSocket /\ reader[self.reader].pc = "done" => sock[self.reader].state = "gone"
\* How far connect() and close() have come.
MainInv ==
  /\ main \in {"open", "closing"} => self.ws = NoSocket
  /\ main = "grace" => self.ws # NoSocket
  /\ main = "join" => self.reader = NoSocket
Alive == ReadersInv /\ OpenInv /\ MainInv

\* Who has sent its command, and perhaps waits for the answer.
UnderWay(c) == call[c].pc \in {"send", "wait"}
\* An id in the table was given out; that of a try that holds is not there yet.
IdsInv ==
  /\ \A id \in pending : id \in Callers \X Nat \X {1, 2} /\ id[2] <= call[id[1]].n
  /\ \A c \in Callers, try \in {1, 2} :
       call[c].pc # "idle" /\ <<c, call[c].n, try>> \in pending =>
         (try = 1 /\ call[c].try = 2) \/ (try = call[c].try /\ UnderWay(c))
\* A command under way has a queue in the table, or its queue holds an item.
QueueInv == \A c \in Callers :
  /\ call[c].pc \in {"idle", "hold", "send", "wait"}
  /\ call[c].pc = "hold" => call[c].item = "none"
  /\ UnderWay(c) => call[c].ws \in Sockets /\ (Id(c) \in pending \/ call[c].item # "none")
Queues == IdsInv /\ QueueInv

\* What a queue holds is true, from the moment it is put there.
Truth(c) ==
  /\ call[c].item = "ok"      => Id(c) \in executed
  /\ call[c].item = "closed"  => sock[call[c].ws].state # "open" \/ self.reader # call[c].ws
  /\ call[c].item = "refused" => sock[call[c].ws].refusal = "read" \/ sock[call[c].ws].state # "open"
TruthInv == /\ \A c \in Callers : UnderWay(c) => Truth(c)
            /\ \A s \in Sockets : \A frame \in sock[s].down :
                 frame.answer \in Answers /\ (frame.answer = "ok" => frame.id \in executed)
\* A reader that has ended told everybody on its socket; a close() that ran to
\* its end emptied the table.
HeardInv ==
  /\ \A c \in Callers : UnderWay(c) /\ self.reader # NoSocket /\ call[c].ws = self.reader
       /\ reader[self.reader].pc = "done" => call[c].item # "none"
  /\ main = "idle" /\ self.ws = NoSocket => pending = {}
Told == TruthInv /\ HeardInv

IInv == Shape /\ Alive /\ Queues /\ Told

-----------------------------------------------------------------------------
(* The operators of the module.                                            *)

\* Deliver puts the item into the empty queues of these ids and changes nothing else.
LEMMA Delivered ==
  ASSUME Shape, NEW ids, NEW item, call' = Deliver(ids, item)
  PROVE  /\ call' = [c \in Callers |-> call'[c]]
         /\ \A c \in Callers :
              /\ DOMAIN call'[c] = CallFields
              /\ call'[c].pc = call[c].pc /\ call'[c].n = call[c].n /\ call'[c].try = call[c].try
              /\ call'[c].ws = call[c].ws
              /\ Id(c)' = Id(c)
              /\ IF Id(c) \in ids /\ call[c].item = "none" THEN call'[c].item = item
                                                           ELSE call'[c] = call[c]
BY DEF Shape, CallFields, Deliver, Id

\* The id of a try that holds is not in the table.
LEMMA HoldIsNew ==
  ASSUME IdsInv, NEW c \in Callers, call[c].pc = "hold", call[c].try \in {1, 2}
  PROVE  Id(c) \notin pending
<1>1. ~UnderWay(c) /\ call[c].pc # "idle"
  BY DEF UnderWay
<1>2. \A try \in {1, 2} : <<c, call[c].n, try>> \in pending =>
        (try = 1 /\ call[c].try = 2) \/ (try = call[c].try /\ UnderWay(c))
  BY <1>1 DEF IdsInv
<1> QED  BY <1>1, <1>2 DEF Id

\* After _fail_pending every command under way has an item in its queue: the one it
\* had, or the error.
LEMMA Failed ==
  ASSUME Shape, Queues, NEW error, error # "none", FailPending(error)
  PROVE  /\ Queues' /\ pending' = {}
         /\ \A c \in Callers : UnderWay(c)' =>
              /\ UnderWay(c) /\ call'[c].ws = call[c].ws /\ Id(c)' = Id(c) /\ call'[c].item # "none"
              /\ call'[c].item = error \/ call'[c].item = call[c].item
<1>1. pending' = {} /\ call' = Deliver(pending, error)
  BY DEF FailPending
<1>2. \A c \in Callers :
        /\ call'[c].pc = call[c].pc /\ call'[c].ws = call[c].ws /\ Id(c)' = Id(c)
        /\ IF Id(c) \in pending /\ call[c].item = "none" THEN call'[c].item = error
                                                         ELSE call'[c] = call[c]
  BY <1>1, Delivered
<1>3. \A c \in Callers : UnderWay(c)' => UnderWay(c) /\ call'[c].item # "none"
  BY <1>2 DEF UnderWay, Queues, QueueInv
<1>4. IdsInv'
  BY <1>1 DEF IdsInv
<1>5. QueueInv'
  <2>1. \A c \in Callers : call'[c].pc = "hold" => call'[c].item = "none"
    <3> SUFFICES ASSUME NEW c \in Callers, call'[c].pc = "hold"
                 PROVE  call'[c].item = "none"
      OBVIOUS
    <3>1. call[c].pc = "hold" /\ call[c].item = "none" /\ call[c].n \in Nat /\ call[c].try \in {1, 2}
      BY <1>2 DEF Queues, QueueInv, Shape
    <3>2. Id(c) \notin pending
      BY <3>1, HoldIsNew DEF Queues
    <3> QED  BY <1>2, <3>1, <3>2
  <2> QED  BY <1>2, <1>3, <2>1 DEF QueueInv, Queues, UnderWay
<1> QED  BY <1>1, <1>2, <1>3, <1>4, <1>5 DEF Queues

\* A try that ends leaves its caller at rest, or holding the second try.
Rests(c)  == call'[c].pc = "idle" /\ call'[c].n = call[c].n
Second(c) == /\ call'[c].pc = "hold" /\ call'[c].n = call[c].n /\ call'[c].item = "none"
             /\ call[c].try = 1 /\ call'[c].try = 2

LEMMA SettleMoves ==
  ASSUME Shape, NEW c \in Callers, NEW outcome, Settle(c, outcome)
  PROVE  /\ call' = [call EXCEPT ![c] = call'[c]] /\ DOMAIN call'[c] = CallFields
         /\ call'[c].try \in {1, 2} /\ (Rests(c) \/ Second(c))
         /\ DOMAIN self' = DOMAIN self /\ self'.ws = self.ws /\ self'.reader = self.reader
<1> DEFINE second == [Resting EXCEPT !.n = call[c].n, !.try = 2, !.signed = call[c].signed,
                                     !.first = self.encoding]
<1>1. PICK d : /\ call' = [call EXCEPT ![c] = d]
               /\ d = Gone(c) \/ (call[c].try = 1 /\ d = Begun(second))
  BY DEF Settle
<1>2. call'[c] = d /\ call' = [call EXCEPT ![c] = call'[c]]
  BY <1>1 DEF Shape
<1>3. /\ DOMAIN d = CallFields /\ d.try \in {1, 2} /\ d.n = call[c].n
      /\ d.pc = "idle" \/ (d.pc = "hold" /\ d.item = "none" /\ call[c].try = 1 /\ d.try = 2)
  BY <1>1 DEF Gone, Begun, Resting, CallFields
<1>4. DOMAIN self' = DOMAIN self /\ self'.ws = self.ws /\ self'.reader = self.reader
  BY DEF Settle, Shape
<1> QED  BY <1>2, <1>3, <1>4 DEF Rests, Second

-----------------------------------------------------------------------------
(* The callers.                                                            *)

\* How a step moves its caller, and what it does to the table.
Same(c)    == call'[c].n = call[c].n /\ call'[c].try = call[c].try /\ call'[c].item = call[c].item
Begins(c)  == /\ call[c].pc = "idle" /\ call'[c].pc \in {"idle", "hold"} /\ pending' = pending
              /\ call'[c].n = call[c].n + 1 /\ call'[c].item = "none"
Sends(c)   == /\ call[c].pc = "hold" /\ pending' = pending \union {Id(c)}
              /\ call'[c].pc = "send" /\ call'[c].ws = self.ws /\ Same(c)
              /\ self.ws \in Sockets /\ sock[self.ws].state \in {"open", "broken"}
Waits(c)   == /\ call[c].pc = "send" /\ pending' = pending
              /\ call'[c].pc = "wait" /\ call'[c].ws = call[c].ws /\ Same(c)
Leaves(c)  == /\ call[c].pc # "idle" /\ pending' \in {pending, pending \ {Id(c)}}
              /\ Rests(c) \/ Second(c)

LEMMA CallerMoves ==
  ASSUME Shape, NEW c \in Callers, CallerStep(c)
  PROVE  /\ call' = [call EXCEPT ![c] = call'[c]] /\ DOMAIN call'[c] = CallFields
         /\ call'[c].try \in {1, 2}
         /\ Begins(c) \/ Sends(c) \/ Waits(c) \/ Leaves(c)
<1> USE DEF Begins, Sends, Waits, Leaves, Same
<1>1. CASE Request(c)
  <2>1. PICK signed \in Kinds : call' = [call EXCEPT ![c] =
          Begun([Resting EXCEPT !.n = call[c].n + 1, !.signed = signed])]
    BY <1>1 DEF Request
  <2> DEFINE d == Begun([Resting EXCEPT !.n = call[c].n + 1, !.signed = signed])
  <2>2. /\ DOMAIN d = CallFields /\ d.try = 1 /\ d.n = call[c].n + 1
        /\ d.pc \in {"idle", "hold"} /\ d.item = "none"
    BY DEF Begun, Resting, CallFields
  <2>3. call' = [call EXCEPT ![c] = d]
    BY <2>1
  <2> HIDE DEF d
  <2>4. call'[c] = d
    BY <2>3 DEF Shape
  <2> QED  BY <1>1, <2>2, <2>3, <2>4 DEF Request
<1>2. CASE Send(c)
  <2>1. /\ call' = [call EXCEPT ![c].pc = "send", ![c].ws = self.ws]
        /\ call[c].pc = "hold" /\ pending' = pending \union {Id(c)}
    BY <1>2 DEF Send
  <2>2. self.ws \in Sockets /\ sock[self.ws].state \in {"open", "broken"}
    BY <1>2 DEF Send, Writable, Shape
  <2> DEFINE d == [call[c] EXCEPT !.pc = "send", !.ws = self.ws]
  <2>3. /\ DOMAIN d = CallFields /\ d.pc = "send" /\ d.ws = self.ws
        /\ d.n = call[c].n /\ d.try = call[c].try /\ d.item = call[c].item
    BY DEF Shape, CallFields
  <2>4. call' = [call EXCEPT ![c] = d]
    BY <2>1 DEF Shape
  <2> HIDE DEF d
  <2>5. call'[c] = d
    BY <2>4 DEF Shape
  <2> QED  BY <2>1, <2>2, <2>3, <2>4, <2>5 DEF Shape
<1>3. CASE Sent(c)
  <2>1. call[c].pc = "send" /\ pending' = pending /\ call' = [call EXCEPT ![c].pc = "wait"]
    BY <1>3 DEF Sent
  <2> QED  BY <2>1 DEF Shape, CallFields
<1>4. CASE SendRefused(c) \/ SendFails(c) \/ Take(c) \/ TimeOut(c)
  <2>1. call[c].pc # "idle" /\ pending' \in {pending, pending \ {Id(c)}}
    BY <1>4 DEF SendRefused, SendFails, Take, TimeOut, Forgotten
  <2>2. \E outcome : Settle(c, outcome)
    BY <1>4 DEF SendRefused, SendFails, Take, TimeOut
  <2> QED  BY <2>1, <2>2, SettleMoves
<1>5. CASE Cancel(c)
  <2>1. call[c].pc # "idle" /\ pending' \in {pending, pending \ {Id(c)}}
    BY <1>5 DEF Cancel, Forgotten
  <2>2. call' = [call EXCEPT ![c] = Gone(c)]
    BY <1>5 DEF Cancel
  <2>3. call'[c] = Gone(c)
    BY <2>2 DEF Shape
  <2>4. /\ DOMAIN Gone(c) = CallFields /\ Gone(c).pc = "idle"
        /\ Gone(c).n = call[c].n /\ Gone(c).try = 1
    BY DEF Gone, Resting, CallFields
  <2> QED  BY <2>1, <2>2, <2>3, <2>4 DEF Rests
<1> QED  BY <1>1, <1>2, <1>3, <1>4, <1>5 DEF CallerStep

\* What the callers leave to the others.
LEMMA CallerRest ==
  ASSUME Shape, NEW c \in Callers, CallerStep(c)
  PROVE  /\ DOMAIN self' = DOMAIN self /\ self'.ws = self.ws /\ self'.reader = self.reader
         /\ UNCHANGED <<main, reader, executed>>
         /\ sock' = [s \in Sockets |-> sock'[s]]
         /\ \A s \in Sockets : /\ DOMAIN sock'[s] = SockFields /\ sock'[s].state = sock[s].state
                               /\ sock'[s].down = sock[s].down /\ sock'[s].refusal = sock[s].refusal
<1>1. CASE Send(c)
  <2>1. self' = self /\ UNCHANGED <<main, reader, executed>>
    BY <1>1 DEF Send
  <2>2. PICK up : sock' = [sock EXCEPT ![self.ws].up = up]
    BY <1>1 DEF Send
  <2>3. \A s \in Sockets : /\ DOMAIN sock'[s] = SockFields /\ sock'[s].state = sock[s].state
                           /\ sock'[s].down = sock[s].down /\ sock'[s].refusal = sock[s].refusal
    BY <2>2 DEF Shape, SockFields
  <2> QED  BY <2>1, <2>2, <2>3 DEF Shape
<1>2. CASE ~Send(c)
  <2>1. sock' = sock /\ UNCHANGED <<main, reader, executed>>
    BY <1>2 DEF CallerStep, Request, SendRefused, Sent, SendFails, Take, TimeOut, Cancel
  <2>2. self' = self \/ \E outcome : Settle(c, outcome)
    BY <1>2 DEF CallerStep, Request, SendRefused, Sent, SendFails, Take, TimeOut, Cancel
  <2> QED  BY <2>1, <2>2, SettleMoves DEF Shape
<1> QED  BY <1>1, <1>2

LEMMA CallerKeeps ==
  ASSUME IInv, NEW c \in Callers, CallerStep(c)
  PROVE  IInv'
<1> USE DEF IInv
<1>0. pending' \subseteq pending \union {Id(c)} /\ pending \ {Id(c)} \subseteq pending'
  BY CallerMoves DEF Begins, Sends, Waits, Leaves
<1>1. \A d \in Callers : d # c => call'[d] = call[d] /\ (Id(d) \in pending' <=> Id(d) \in pending)
  <2>1. \A d \in Callers : d # c => Id(d) # Id(c)
    BY DEF Id
  <2> QED  BY <1>0, <2>1, CallerMoves DEF Shape
<1>2. call[c].n \in Nat /\ call[c].try \in {1, 2} /\ call'[c].try \in {1, 2}
        /\ DOMAIN call[c] = CallFields
  BY CallerMoves DEF Shape
<1>3. Shape'
  <2>1. call' = [d \in Callers |-> call'[d]] /\ DOMAIN call'[c] = CallFields
    BY CallerMoves DEF Shape
  <2>2. call'[c].n \in Nat
    BY <1>2, CallerMoves DEF Begins, Sends, Waits, Leaves, Rests, Second, Same
  <2> QED  BY <1>1, <1>2, <2>1, <2>2, CallerRest DEF Shape
<1>4. Alive'
  BY CallerRest DEF Shape, Alive, ReadersInv, OpenInv, MainInv, RunsOn
<1>5. IdsInv'
  <2>1. ASSUME NEW id \in pending'
        PROVE  id \in Callers \X Nat \X {1, 2} /\ id[2] <= call'[id[1]].n
    <3>1. CASE id \in pending
      <4>1. id \in Callers \X Nat \X {1, 2} /\ id[2] <= call[id[1]].n
        BY <3>1 DEF Queues, IdsInv
      <4>2. call'[c].n >= call[c].n
        BY <1>2, CallerMoves DEF Begins, Sends, Waits, Leaves, Rests, Second, Same
      <4>3. \A d \in Callers : call[d].n <= call'[d].n /\ call[d].n \in Nat /\ call'[d].n \in Nat
        BY <1>1, <1>3, <4>2 DEF Shape
      <4> QED  BY <4>1, <4>3
    <3>2. CASE id \notin pending
      <4>1. id = Id(c) /\ Sends(c)
        BY <2>1, <3>2, CallerMoves DEF Begins, Waits, Leaves, Sends
      <4>2. call'[c].n = call[c].n
        BY <1>2, <4>1 DEF Sends, Same
      <4> QED  BY <1>2, <4>1, <4>2 DEF Id
    <3> QED  BY <3>1, <3>2
  <2>2. ASSUME NEW d \in Callers, NEW try \in {1, 2}, call'[d].pc # "idle",
               <<d, call'[d].n, try>> \in pending'
        PROVE  (try = 1 /\ call'[d].try = 2) \/ (try = call'[d].try /\ UnderWay(d)')
    <3>0. call[d].pc # "idle" /\ <<d, call[d].n, try>> \in pending =>
            (try = 1 /\ call[d].try = 2) \/ (try = call[d].try /\ UnderWay(d))
      BY DEF Queues, IdsInv
    <3>1. CASE d # c
      BY <1>0, <1>1, <2>2, <3>0, <3>1 DEF Id, UnderWay
    <3>2. CASE d = c /\ Begins(c)
      <4>1. <<c, call[c].n + 1, try>> \in pending
        BY <2>2, <3>2 DEF Begins
      <4>2. call[c].n + 1 <= call[c].n
        BY <4>1 DEF Queues, IdsInv
      <4> QED  BY <1>2, <4>2
    <3>3. CASE d = c /\ Sends(c)
      BY <1>2, <2>2, <3>0, <3>3 DEF Sends, UnderWay, Id, Same
    <3>4. CASE d = c /\ Waits(c)
      BY <1>2, <2>2, <3>0, <3>4 DEF Waits, UnderWay, Same
    <3>5. CASE d = c /\ Leaves(c)
      BY <2>2, <3>0, <3>5 DEF Leaves, Rests, Second
    <3> QED  BY <3>1, <3>2, <3>3, <3>4, <3>5, CallerMoves
  <2> QED  BY <2>1, <2>2 DEF IdsInv
<1>6. UnderWay(c)' => /\ Sends(c) \/ Waits(c)
                      /\ Id(c)' = Id(c) /\ call'[c].item = call[c].item
  BY <1>2, CallerMoves DEF UnderWay, Begins, Sends, Waits, Leaves, Rests, Second, Id, Same
<1>7. QueueInv'
  <2>1. call'[c].pc \in {"idle", "hold", "send", "wait"} /\ (call'[c].pc = "hold" => call'[c].item = "none")
    BY <1>2, CallerMoves DEF Begins, Sends, Waits, Leaves, Rests, Second, Same
  <2>2. UnderWay(c)' => call'[c].ws \in Sockets /\ (Id(c)' \in pending' \/ call'[c].item # "none")
    BY <1>2, <1>6 DEF Queues, QueueInv, UnderWay, Sends, Waits, Same
  <2>3. ASSUME NEW d \in Callers, d # c
        PROVE  /\ call'[d].pc \in {"idle", "hold", "send", "wait"}
               /\ call'[d].pc = "hold" => call'[d].item = "none"
               /\ UnderWay(d)' => call'[d].ws \in Sockets /\ (Id(d)' \in pending' \/ call'[d].item # "none")
    BY <1>1, <2>3 DEF Queues, QueueInv, UnderWay, Id
  <2> QED  BY <2>1, <2>2, <2>3 DEF QueueInv
<1>8. TruthInv'
  <2>1. UnderWay(c)' => Truth(c)'
    <3>1. CASE Sends(c)
      BY <1>2, <1>6, <3>1 DEF Queues, QueueInv, Sends, Truth
    <3>2. CASE Waits(c)
      <4>1. UnderWay(c) /\ call'[c].ws = call[c].ws /\ call[c].ws \in Sockets
        BY <1>2, <3>2 DEF Waits, UnderWay, Same, Queues, QueueInv
      <4> QED  BY <1>6, <4>1, CallerRest DEF Told, TruthInv, Truth
    <3> QED  BY <1>6, <3>1, <3>2
  <2>2. ASSUME NEW d \in Callers, d # c, UnderWay(d)'
        PROVE  Truth(d)'
    <3>1. UnderWay(d) /\ call'[d] = call[d] /\ call[d].ws \in Sockets
      BY <1>1, <2>2 DEF UnderWay, Queues, QueueInv
    <3> QED  BY <3>1, CallerRest DEF Told, TruthInv, Truth, Id
  <2> QED  BY <2>1, <2>2, CallerRest DEF Told, TruthInv
<1>9. HeardInv'
  <2>1. ASSUME NEW d \in Callers, UnderWay(d)', self'.reader # NoSocket, call'[d].ws = self'.reader,
               reader'[self'.reader].pc = "done"
        PROVE  call'[d].item # "none"
    <3>1. self.reader # NoSocket /\ reader[self.reader].pc = "done"
      BY <2>1, CallerRest
    <3>2. CASE d = c /\ Sends(c)
      <4>1. self.reader = self.ws /\ sock[self.ws].state = "gone"
        BY <3>1 DEF Shape, Alive, OpenInv
      <4> QED  BY <3>2, <4>1 DEF Sends
    <3>3. CASE d = c /\ Waits(c)
      <4>1. UnderWay(c) /\ call'[c].ws = call[c].ws /\ call'[c].item = call[c].item
        BY <1>2, <3>3 DEF Waits, UnderWay, Same
      <4> QED  BY <2>1, <3>1, <3>3, <4>1, CallerRest DEF Told, HeardInv
    <3>4. CASE d # c
      <4>1. UnderWay(d) /\ call'[d] = call[d]
        BY <1>1, <2>1, <3>4 DEF UnderWay
      <4> QED  BY <2>1, <3>1, <4>1, CallerRest DEF Told, HeardInv
    <3> QED  BY <1>6, <2>1, <3>2, <3>3, <3>4
  <2>2. main' = "idle" /\ self'.ws = NoSocket => pending' = {}
    <3>1. main = "idle" /\ self.ws = NoSocket => pending = {} /\ ~Sends(c)
      BY SocketsAssumption DEF Told, HeardInv, Sends
    <3> QED  BY <3>1, CallerMoves, CallerRest DEF Begins, Waits, Leaves
  <2> QED  BY <2>1, <2>2 DEF HeardInv
<1> QED  BY <1>3, <1>4, <1>5, <1>7, <1>8, <1>9 DEF Queues, Told

-----------------------------------------------------------------------------
(* The reader tasks.                                                       *)

\* A reader that has not been cancelled reads the client's socket.
LEMMA ReadsOn ==
  ASSUME Shape, Alive, NEW s \in Sockets, reader[s].pc = "read", ~reader[s].cancelled
  PROVE  s = self.reader /\ s = self.ws /\ reader[s].ws = s
BY SocketsAssumption DEF Shape, Alive, ReadersInv, RunsOn

LEMMA ReadAnswerKeeps ==
  ASSUME IInv, NEW s \in Sockets, ReadAnswer(s)
  PROVE  IInv'
<1> USE DEF IInv
<1>1. PICK frame \in sock[reader[s].ws].down :
        /\ sock' = [sock EXCEPT ![reader[s].ws].down = @ \ {frame}]
        /\ call' = Deliver(AnswerRoute(frame.id), frame.answer)
  BY DEF ReadAnswer
<1>2. reader[s].ws = s /\ UNCHANGED <<self, pending, main, reader, executed>>
  BY ReadsOn DEF ReadAnswer, Reading
<1>3. /\ sock' = [u \in Sockets |-> sock'[u]]
      /\ \A u \in Sockets :
           /\ DOMAIN sock'[u] = SockFields /\ sock'[u].state = sock[u].state
           /\ sock'[u].refusal = sock[u].refusal /\ sock'[u].down \subseteq sock[u].down
  BY <1>1, <1>2 DEF Shape, SockFields
<1>4. frame.answer \in Answers /\ (frame.answer = "ok" => frame.id \in executed)
  BY <1>1, <1>2 DEF Told, TruthInv
<1>5. /\ call' = [c \in Callers |-> call'[c]]
      /\ \A c \in Callers :
           /\ DOMAIN call'[c] = CallFields
           /\ call'[c].pc = call[c].pc /\ call'[c].n = call[c].n /\ call'[c].try = call[c].try
           /\ call'[c].ws = call[c].ws /\ Id(c)' = Id(c)
           /\ IF Id(c) \in AnswerRoute(frame.id) /\ call[c].item = "none"
              THEN call'[c].item = frame.answer ELSE call'[c] = call[c]
  BY <1>1, Delivered
<1>6. \A c \in Callers : call'[c] # call[c] =>
        call[c].pc # "hold" /\ call'[c].item = frame.answer /\ Id(c) = frame.id
  <2>1. \A c \in Callers : call[c].pc = "hold" => Id(c) \notin pending
    BY HoldIsNew DEF Shape, Queues
  <2> QED  BY <1>5, <2>1 DEF AnswerRoute, Queues, QueueInv, UnderWay
<1>7. Shape' /\ Alive'
  BY <1>2, <1>3, <1>5 DEF Shape, Alive, ReadersInv, OpenInv, MainInv, RunsOn
<1>8. Queues'
  <2>1. IdsInv'
    BY <1>2, <1>5 DEF Queues, IdsInv, UnderWay
  <2>2. QueueInv'
    BY <1>2, <1>4, <1>5, <1>6 DEF Queues, QueueInv, UnderWay, Answers
  <2> QED  BY <2>1, <2>2 DEF Queues
<1>9. Told'
  <2>1. ASSUME NEW c \in Callers, UnderWay(c)'
        PROVE  Truth(c)'
    <3>1. UnderWay(c) /\ call[c].ws \in Sockets
      BY <1>5, <2>1 DEF UnderWay, Queues, QueueInv
    <3>2. CASE call'[c] = call[c]
      BY <1>2, <1>3, <1>5, <3>1, <3>2 DEF Told, TruthInv, Truth
    <3>3. CASE call'[c].item = frame.answer /\ Id(c) = frame.id
      BY <1>2, <1>4, <1>5, <3>3 DEF Truth, Answers
    <3> QED  BY <1>6, <3>2, <3>3
  <2>2. TruthInv'
    BY <1>2, <1>3, <2>1 DEF Told, TruthInv
  <2>3. HeardInv'
    BY <1>2, <1>4, <1>5, <1>6 DEF Told, HeardInv, UnderWay, Answers
  <2> QED  BY <2>2, <2>3 DEF Told
<1> QED  BY <1>7, <1>8, <1>9

LEMMA ReadRefusalKeeps ==
  ASSUME IInv, NEW s \in Sockets, ReadRefusal(s)
  PROVE  IInv'
<1> USE DEF IInv
<1>1. s = self.reader /\ s = self.ws /\ reader[s].ws = s
  BY ReadsOn DEF ReadRefusal, Reading
<1>2. /\ sock' = [sock EXCEPT ![s].refusal = "read"] /\ self' = [self EXCEPT !.rejection = TRUE]
      /\ FailPending("refused") /\ UNCHANGED <<main, reader, executed>>
  BY <1>1 DEF ReadRefusal
<1>3. /\ sock' = [u \in Sockets |-> sock'[u]] /\ sock'[s].refusal = "read"
      /\ \A u \in Sockets :
           /\ DOMAIN sock'[u] = SockFields /\ sock'[u].state = sock[u].state
           /\ sock'[u].down = sock[u].down
           /\ u # s => sock'[u].refusal = sock[u].refusal
  BY <1>2 DEF Shape, SockFields
<1>4. DOMAIN self' = DOMAIN self /\ self'.ws = self.ws /\ self'.reader = self.reader
  BY <1>2 DEF Shape
<1>5. /\ Queues' /\ pending' = {}
      /\ \A c \in Callers : UnderWay(c)' =>
           /\ UnderWay(c) /\ call'[c].ws = call[c].ws /\ Id(c)' = Id(c) /\ call'[c].item # "none"
           /\ call'[c].item = "refused" \/ call'[c].item = call[c].item
  BY <1>2, Failed
<1>6. call' = Deliver(pending, "refused")
  BY <1>2 DEF FailPending
<1>7. Shape' /\ Alive'
  BY <1>2, <1>3, <1>4, <1>6, Delivered DEF Shape, Alive, ReadersInv, OpenInv, MainInv, RunsOn
<1>8. TruthInv'
  <2>1. ASSUME NEW c \in Callers, UnderWay(c)'
        PROVE  Truth(c)'
    <3>1. UnderWay(c) /\ call'[c].ws = call[c].ws /\ call[c].ws \in Sockets /\ Id(c)' = Id(c)
      BY <1>5, <2>1 DEF Queues, QueueInv
    <3>2. call'[c].item = "refused" => sock'[call[c].ws].refusal = "read" \/ sock[call[c].ws].state # "open"
      BY <1>1, <1>3, <3>1 DEF Alive, OpenInv
    <3>3. call'[c].item # "refused" => call'[c].item = call[c].item
      BY <1>5, <2>1
    <3> QED  BY <1>2, <1>3, <1>4, <3>1, <3>2, <3>3 DEF Told, TruthInv, Truth
  <2> QED  BY <1>2, <1>3, <2>1 DEF Told, TruthInv
<1>9. HeardInv'
  BY <1>5 DEF HeardInv
<1> QED  BY <1>5, <1>7, <1>8, <1>9 DEF Told

LEMMA ReaderEndsKeeps ==
  ASSUME IInv, NEW s \in Sockets, ReaderEnds(s)
  PROVE  IInv'
<1> USE DEF IInv
<1>1. /\ reader[s].pc = "read" /\ FailPending("closed") /\ reader' = [reader EXCEPT ![s] = NoReader]
      /\ UNCHANGED <<self, sock, main, executed>>
  BY DEF ReaderEnds, ReaderWakes
<1>2. self.reader = NoSocket \/ (self.reader = s /\ sock[s].state = "gone")
  <2>1. CASE reader[s].cancelled
    BY <2>1 DEF Alive, ReadersInv
  <2>2. CASE ~reader[s].cancelled
    BY <1>1, <2>2, ReadsOn, SocketsAssumption DEF ReaderEnds, Reading
  <2> QED  BY <2>1, <2>2
<1>3. /\ Queues' /\ pending' = {}
      /\ \A c \in Callers : UnderWay(c)' =>
           /\ UnderWay(c) /\ call'[c].ws = call[c].ws /\ Id(c)' = Id(c) /\ call'[c].item # "none"
           /\ call'[c].item = "closed" \/ call'[c].item = call[c].item
  BY <1>1, Failed
<1>4. call' = Deliver(pending, "closed")
  BY <1>1 DEF FailPending
<1>5. /\ reader' = [u \in Sockets |-> reader'[u]] /\ reader'[s] = NoReader
      /\ \A u \in Sockets : u # s => reader'[u] = reader[u]
  BY <1>1 DEF Shape
<1>6. Shape'
  BY <1>1, <1>4, <1>5, Delivered DEF Shape, NoReader, ReaderFields
<1>7. Alive'
  BY <1>1, <1>2, <1>5, SocketsAssumption DEF Shape, Alive, ReadersInv, OpenInv, MainInv, RunsOn, NoReader
<1>8. TruthInv'
  <2>1. ASSUME NEW c \in Callers, UnderWay(c)'
        PROVE  Truth(c)'
    <3>1. UnderWay(c) /\ call'[c].ws = call[c].ws /\ call[c].ws \in Sockets /\ Id(c)' = Id(c)
      BY <1>3, <2>1 DEF Queues, QueueInv
    <3>2. call'[c].item # "closed" => call'[c].item = call[c].item
      BY <1>3, <2>1
    <3> QED  BY <1>1, <1>2, <3>1, <3>2, SocketsAssumption DEF Told, TruthInv, Truth
  <2> QED  BY <1>1, <2>1 DEF Told, TruthInv
<1>9. HeardInv'
  BY <1>3 DEF HeardInv
<1> QED  BY <1>3, <1>6, <1>7, <1>8, <1>9 DEF Told

LEMMA ReaderStartKeeps ==
  ASSUME IInv, NEW s \in Sockets, ReaderStart(s)
  PROVE  IInv'
<1> USE DEF IInv
<1>1. /\ reader[s].pc = "start" /\ UNCHANGED <<self, pending, sock, main, call, executed>>
      /\ reader' = [reader EXCEPT ![s] = IF reader[s].cancelled THEN NoReader
                                         ELSE [reader[s] EXCEPT !.pc = "read", !.ws = self.ws]]
  BY DEF ReaderStart
<1>2. /\ reader' = [u \in Sockets |-> reader'[u]] /\ DOMAIN reader'[s] = ReaderFields
      /\ \A u \in Sockets : u # s => reader'[u] = reader[u]
      /\ IF reader[s].cancelled THEN reader'[s] = NoReader
         ELSE reader'[s].pc = "read" /\ reader'[s].ws = self.ws /\ ~reader'[s].cancelled
  BY <1>1 DEF Shape, ReaderFields, NoReader
<1>3. IF reader[s].cancelled THEN self.reader = NoSocket ELSE self.reader = s /\ self.ws = s
  BY <1>1, SocketsAssumption DEF Shape, Alive, ReadersInv, RunsOn
<1>4. Shape'
  BY <1>1, <1>2 DEF Shape
<1>5. Alive'
  BY <1>1, <1>2, <1>3, SocketsAssumption DEF Shape, Alive, ReadersInv, OpenInv, MainInv, RunsOn, NoReader
<1>6. Queues' /\ TruthInv'
  BY <1>1 DEF Queues, IdsInv, QueueInv, UnderWay, Id, Told, TruthInv, Truth
<1>7. HeardInv'
  BY <1>1, <1>2, <1>3 DEF Shape, Told, HeardInv, UnderWay, NoReader
<1> QED  BY <1>4, <1>5, <1>6, <1>7 DEF Told

-----------------------------------------------------------------------------
(* connect(), close(), and the server.                                     *)

\* What is in the queues stays true as long as an open socket in use is not replaced:
\* its state and its refusal change only when it is no longer open.
LEMMA Undisturbed ==
  ASSUME IInv, UNCHANGED <<call, pending, executed>>,
         \A s \in Sockets : (\E c \in Callers : call[c].ws = s) /\ sock'[s].state = "open" =>
           sock[s].state = "open" /\ (sock[s].refusal = "read" => sock'[s].refusal = "read"),
         \A c \in Callers : self'.reader = call[c].ws => self.reader = call[c].ws,
         \A s \in Sockets : sock'[s].down \subseteq sock[s].down
  PROVE  Queues' /\ TruthInv'
<1>1. Queues'
  BY DEF IInv, Queues, IdsInv, QueueInv, UnderWay, Id
<1>2. ASSUME NEW c \in Callers, UnderWay(c)'
      PROVE  Truth(c)'
  <2>1. UnderWay(c) /\ Truth(c) /\ call[c].ws \in Sockets /\ Id(c)' = Id(c)
    BY <1>2 DEF IInv, Told, TruthInv, UnderWay, Queues, QueueInv, Id
  <2> QED  BY <2>1 DEF Truth
<1>3. \A s \in Sockets : \A frame \in sock'[s].down :
        frame.answer \in Answers /\ (frame.answer = "ok" => frame.id \in executed')
  BY DEF IInv, Told, TruthInv
<1> QED  BY <1>1, <1>2, <1>3 DEF TruthInv

LEMMA OpenKeeps ==
  ASSUME IInv, Open
  PROVE  IInv'
<1> USE DEF IInv
<1>1. PICK s \in FreeSockets :
        /\ self' = [self EXCEPT !.ws = s, !.reader = s]
        /\ sock' = [sock EXCEPT ![s] = [Absent EXCEPT !.state = "open"]]
        /\ reader' = [reader EXCEPT ![s] = [NoReader EXCEPT !.pc = "start"]]
  BY DEF Open
<1>2. /\ main = "open" /\ main' = "grace" /\ UNCHANGED <<pending, call, executed>>
      /\ \A u \in Sockets : ~reader[u].cancelled
  BY DEF Open, Settled
<1>3. s \in Sockets /\ sock[s] = Absent /\ \A c \in Callers : call[c].ws # s
  BY DEF FreeSockets
<1>4. DOMAIN self' = DOMAIN self /\ self'.ws = s /\ self'.reader = s
  BY <1>1 DEF Shape
<1>5. /\ sock' = [u \in Sockets |-> sock'[u]] /\ DOMAIN sock'[s] = SockFields
      /\ sock'[s].down = {} /\ \A u \in Sockets : u # s => sock'[u] = sock[u]
  BY <1>1, <1>3 DEF Shape, Absent, SockFields
<1>6. /\ reader' = [u \in Sockets |-> reader'[u]] /\ DOMAIN reader'[s] = ReaderFields
      /\ reader'[s].pc = "start" /\ ~reader'[s].cancelled
      /\ \A u \in Sockets : u # s => reader'[u] = reader[u]
  BY <1>1, <1>3 DEF Shape, NoReader, ReaderFields
<1>7. self.ws = NoSocket /\ self.reader = NoSocket
  BY <1>2 DEF Alive, MainInv, Shape
<1>8. Shape'
  BY <1>2, <1>3, <1>4, <1>5, <1>6 DEF Shape
<1>9. Alive'
  BY <1>2, <1>3, <1>4, <1>5, <1>6, <1>7, SocketsAssumption
     DEF Alive, ReadersInv, OpenInv, MainInv, RunsOn
<1>10. Queues' /\ TruthInv'
  BY <1>2, <1>3, <1>4, <1>5, Undisturbed
<1>11. HeardInv'
  BY <1>2, <1>4, <1>6 DEF HeardInv
<1> QED  BY <1>8, <1>9, <1>10, <1>11 DEF Told

LEMMA CloseKeeps ==
  ASSUME IInv, Close
  PROVE  IInv'
<1> USE DEF IInv
<1>1. /\ self.reader # NoSocket /\ reader' = Cancelled(self.reader)
      /\ self' = [self EXCEPT !.reader = NoSocket] /\ main' = "join"
      /\ UNCHANGED <<pending, sock, call, executed>>
  BY DEF Close
<1>2. DOMAIN self' = DOMAIN self /\ self'.ws = self.ws /\ self'.reader = NoSocket
        /\ self.reader \in Sockets
  BY <1>1 DEF Shape
<1>3. /\ reader' = [u \in Sockets |-> reader'[u]]
      /\ \A u \in Sockets : DOMAIN reader'[u] = ReaderFields /\ (RunsOn(u)' => RunsOn(u) /\ u # self.reader)
  BY <1>1, <1>2 DEF Shape, Cancelled, ReaderFields, RunsOn
<1>4. Shape'
  BY <1>1, <1>2, <1>3 DEF Shape
<1>5. Alive'
  BY <1>1, <1>2, <1>3 DEF Alive, ReadersInv, OpenInv, MainInv
<1>6. Queues' /\ TruthInv'
  <2>1. \A c \in Callers : UnderWay(c) => call[c].ws \in Sockets
    BY DEF Queues, QueueInv
  <2>2. Queues'
    BY <1>1 DEF Queues, IdsInv, QueueInv, UnderWay, Id
  <2>3. TruthInv'
    BY <1>1, <1>2, <2>1, SocketsAssumption DEF Told, TruthInv, Truth, UnderWay, Id
  <2> QED  BY <2>2, <2>3
<1>7. HeardInv'
  BY <1>1, <1>2 DEF HeardInv
<1> QED  BY <1>4, <1>5, <1>6, <1>7 DEF Told

LEMMA CloseSocketKeeps ==
  ASSUME IInv, CloseSocket
  PROVE  IInv'
<1> USE DEF IInv
<1>1. /\ self.ws # NoSocket /\ sock' = [sock EXCEPT ![self.ws].state = "closing"]
      /\ self' = [self EXCEPT !.ws = NoSocket] /\ main' = "closing"
      /\ UNCHANGED <<pending, reader, call, executed>>
  BY DEF CloseSocket
<1>2. self.reader = NoSocket /\ self.ws \in Sockets
  BY <1>1 DEF CloseSocket, Alive, MainInv, Shape
<1>3. DOMAIN self' = DOMAIN self /\ self'.ws = NoSocket /\ self'.reader = NoSocket
  BY <1>1, <1>2 DEF Shape
<1>4. /\ sock' = [u \in Sockets |-> sock'[u]] /\ sock'[self.ws].state = "closing"
      /\ \A u \in Sockets : /\ DOMAIN sock'[u] = SockFields /\ sock'[u].down = sock[u].down
                            /\ u # self.ws => sock'[u] = sock[u]
  BY <1>1, <1>2 DEF Shape, SockFields
<1>5. Shape'
  BY <1>1, <1>3, <1>4 DEF Shape
<1>6. Alive'
  BY <1>1, <1>2, <1>3, <1>4, SocketsAssumption DEF Alive, ReadersInv, OpenInv, MainInv, RunsOn
<1>7. Queues' /\ TruthInv'
  BY <1>1, <1>2, <1>3, <1>4, Undisturbed
<1>8. HeardInv'
  BY <1>1, <1>3 DEF HeardInv
<1> QED  BY <1>5, <1>6, <1>7, <1>8 DEF Told

LEMMA CloseEndsKeeps ==
  ASSUME IInv, CloseEnds
  PROVE  IInv'
<1> USE DEF IInv
<1>1. /\ FailPending("closed") /\ UNCHANGED <<self, reader, executed>> /\ main' = "idle"
      /\ sock' = [s \in Sockets |-> IF sock[s].state = "closing" THEN Over(sock[s]) ELSE sock[s]]
  BY DEF CloseEnds, CloseWakes
<1>2. self.reader = NoSocket
  BY DEF CloseEnds, Alive, MainInv, Shape
<1>3. /\ Queues' /\ pending' = {}
      /\ \A c \in Callers : UnderWay(c)' =>
           /\ UnderWay(c) /\ call'[c].ws = call[c].ws /\ Id(c)' = Id(c) /\ call'[c].item # "none"
           /\ call'[c].item = "closed" \/ call'[c].item = call[c].item
  BY <1>1, Failed
<1>4. call' = Deliver(pending, "closed")
  BY <1>1 DEF FailPending
<1>5. \A s \in Sockets : /\ DOMAIN sock'[s] = SockFields /\ sock'[s].down \subseteq sock[s].down
                         /\ sock'[s].state = "open" => sock'[s] = sock[s]
  BY <1>1 DEF Shape, Over, Absent, SockFields
<1>6. Shape'
  BY <1>1, <1>4, <1>5, Delivered DEF Shape
<1>7. Alive'
  BY <1>1, <1>2, <1>5 DEF Alive, ReadersInv, OpenInv, MainInv, RunsOn
<1>8. TruthInv'
  <2>1. ASSUME NEW c \in Callers, UnderWay(c)'
        PROVE  Truth(c)'
    <3>1. UnderWay(c) /\ call'[c].ws = call[c].ws /\ call[c].ws \in Sockets /\ Id(c)' = Id(c)
      BY <1>3, <2>1 DEF Queues, QueueInv
    <3>2. call'[c].item # "closed" => call'[c].item = call[c].item
      BY <1>3, <2>1
    <3> QED  BY <1>1, <1>2, <1>5, <3>1, <3>2, SocketsAssumption DEF Told, TruthInv, Truth
  <2> QED  BY <1>1, <1>5, <2>1 DEF Told, TruthInv
<1>9. HeardInv'
  BY <1>3 DEF HeardInv
<1> QED  BY <1>3, <1>6, <1>7, <1>8, <1>9 DEF Told

LEMMA MainKeeps ==
  ASSUME IInv, MainStep
  PROVE  IInv'
<1>1. CASE Connect \/ OpenFails \/ Grace \/ CancelMain
  <2>1. UNCHANGED <<pending, sock, reader, call, executed>>
    BY <1>1 DEF Connect, OpenFails, Grace, CancelMain
  <2>2. DOMAIN self' = DOMAIN self /\ self'.ws = self.ws /\ self'.reader = self.reader
    BY <1>1 DEF Connect, OpenFails, Grace, CancelMain, IInv, Shape
  <2>3. /\ main' = "open" => self.ws = NoSocket
        /\ main' \notin {"closing", "grace", "join"}
        /\ main' = "idle" => self.ws # NoSocket
    BY <1>1 DEF Connect, OpenFails, Grace, CancelMain, IInv, Alive, MainInv
  <2>4. Shape' /\ Alive'
    BY <2>1, <2>2, <2>3 DEF IInv, Shape, Alive, ReadersInv, OpenInv, MainInv, RunsOn
  <2>5. Queues' /\ TruthInv'
    BY <2>1, <2>2, Undisturbed
  <2>6. HeardInv'
    BY <2>1, <2>2, <2>3 DEF IInv, Told, HeardInv, UnderWay
  <2> QED  BY <2>4, <2>5, <2>6 DEF IInv, Told
<1> QED  BY <1>1, OpenKeeps, CloseKeeps, CloseSocketKeeps, CloseEndsKeeps DEF MainStep, CloseStep

\* The server answers commands and refuses connections; connections break.
LEMMA ServerKeeps ==
  ASSUME IInv, NEW s \in Sockets, ServerStep(s)
  PROVE  IInv'
<1> USE DEF IInv
<1>1. UNCHANGED <<self, pending, main, reader, call>>
  BY DEF ServerStep, Serve, ServerRefuses, Break
<1>2. /\ sock' = [u \in Sockets |-> sock'[u]] /\ executed \subseteq executed'
      /\ \A u \in Sockets : u # s => sock'[u] = sock[u]
  BY DEF ServerStep, Serve, ServerRefuses, Break, Shape
<1>3. /\ DOMAIN sock'[s] = SockFields
      /\ sock'[s].state = "open" => sock[s].state = "open"
      /\ sock[s].state = "gone" => sock'[s].state = "gone"
      /\ sock'[s].state = "open" /\ sock[s].refusal = "read" => sock'[s].refusal = "read"
      /\ \A frame \in sock'[s].down : frame.answer \in Answers /\ (frame.answer = "ok" => frame.id \in executed')
  <2>1. \A frame \in sock[s].down : frame.answer \in Answers /\ (frame.answer = "ok" => frame.id \in executed)
    BY DEF Told, TruthInv
  <2>2. CASE Serve(s)
    <3>1. PICK command \in sock[s].up, answer \in Answers :
            /\ executed' = IF answer = "ok" THEN executed \union {command.id} ELSE executed
            /\ sock' = [sock EXCEPT
                 ![s].up = @ \ {command},
                 ![s].down = IF sock[s].state = "open"
                             THEN @ \union {[id |-> command.id, answer |-> answer]} ELSE @]
      BY <2>2 DEF Serve
    <3>2. /\ DOMAIN sock'[s] = SockFields /\ sock'[s].state = sock[s].state
          /\ sock'[s].refusal = sock[s].refusal
          /\ sock'[s].down \subseteq sock[s].down \union {[id |-> command.id, answer |-> answer]}
      BY <3>1 DEF Shape, SockFields
    <3>3. \A frame \in sock'[s].down : frame.answer \in Answers /\ (frame.answer = "ok" => frame.id \in executed')
      <4> SUFFICES ASSUME NEW frame \in sock'[s].down
                   PROVE  frame.answer \in Answers /\ (frame.answer = "ok" => frame.id \in executed')
        OBVIOUS
      <4>1. CASE frame \in sock[s].down
        BY <1>2, <2>1, <4>1
      <4>2. CASE frame = [id |-> command.id, answer |-> answer]
        <5>1. frame.answer = answer /\ frame.id = command.id
          BY <4>2
        <5>2. answer = "ok" => command.id \in executed'
          BY <3>1
        <5> QED  BY <5>1, <5>2
      <4> QED  BY <3>2, <4>1, <4>2
    <3> QED  BY <3>2, <3>3
  <2>3. CASE ServerRefuses(s)
    BY <2>1, <2>3 DEF ServerRefuses, Shape, SockFields
  <2>4. CASE Break(s)
    BY <2>1, <2>4 DEF Break, Over, Absent, Shape, SockFields
  <2> QED  BY <2>2, <2>3, <2>4 DEF ServerStep
<1>4. Shape' /\ Alive'
  BY <1>1, <1>2, <1>3 DEF Shape, Alive, ReadersInv, OpenInv, MainInv, RunsOn
<1>5. Queues' /\ HeardInv'
  BY <1>1 DEF Queues, IdsInv, QueueInv, UnderWay, Id, Told, HeardInv
<1>6. TruthInv'
  <2>1. ASSUME NEW c \in Callers, UnderWay(c)'
        PROVE  Truth(c)'
    <3>1. UnderWay(c) /\ Truth(c) /\ call[c].ws \in Sockets /\ Id(c)' = Id(c)
      BY <1>1, <2>1 DEF Told, TruthInv, UnderWay, Queues, QueueInv, Id
    <3> QED  BY <1>1, <1>2, <1>3, <3>1 DEF Truth
  <2>2. \A u \in Sockets : \A frame \in sock'[u].down :
          frame.answer \in Answers /\ (frame.answer = "ok" => frame.id \in executed')
    BY <1>2, <1>3 DEF Told, TruthInv
  <2> QED  BY <2>1, <2>2 DEF TruthInv
<1> QED  BY <1>4, <1>5, <1>6 DEF Told

-----------------------------------------------------------------------------
(* The theorems.                                                           *)

LEMMA InitIInv == Init => IInv
<1> SUFFICES ASSUME Init PROVE IInv
  OBVIOUS
<1>1. Shape
  BY DEF Init, Shape, Resting, Absent, NoReader, CallFields, SockFields, ReaderFields
<1>2. Alive
  BY DEF Init, Alive, ReadersInv, OpenInv, MainInv, RunsOn, NoReader, Absent
<1>3. Queues /\ Told
  BY DEF Init, Queues, IdsInv, QueueInv, Told, TruthInv, HeardInv, UnderWay, Resting, Absent
<1> QED  BY <1>1, <1>2, <1>3 DEF IInv

LEMMA NextIInv == IInv /\ [Next]_vars => IInv'
<1>1. CASE UNCHANGED vars
  BY <1>1 DEF vars, IInv, Shape, Alive, ReadersInv, OpenInv, MainInv, RunsOn, Queues, IdsInv,
         QueueInv, UnderWay, Id, Told, TruthInv, Truth, HeardInv
<1> QED  BY <1>1, MainKeeps, ReaderStartKeeps, ReadAnswerKeeps, ReadRefusalKeeps, ReaderEndsKeeps,
            ServerKeeps, CallerKeeps DEF Next, ReaderStep

LEMMA AlwaysIInv == Spec => []IInv
BY InitIInv, NextIInv, PTL DEF Spec

\* What request() reports to a caller of its command is true, although tasks are
\* cancelled at any await, ids of cancelled commands stay in the table, and the one
\* task that connects and closes the client does so at any time.
THEOREM TasksAreToldTheTruth == Spec => []ToldTheTruth
<1>1. IInv => ToldTheTruth
  BY DEF IInv, Told, TruthInv, Truth, UnderWay, ToldTheTruth
<1> QED  BY <1>1, AlwaysIInv, PTL

\* Nobody waits for an answer when there is no reader left to deliver one.
THEOREM NobodyIsForgotten == Spec => []NobodyForgotten
<1>1. IInv => NobodyForgotten
  <2> SUFFICES ASSUME IInv PROVE NobodyForgotten
    OBVIOUS
  <2>1. \A c \in Callers : call[c].pc = "wait" /\ call[c].item = "none" =>
          UnderWay(c) /\ Id(c) \in pending
    BY DEF IInv, Queues, QueueInv, UnderWay
  <2> QED  BY <2>1 DEF IInv, Told, HeardInv, NobodyForgotten
<1> QED  BY <1>1, AlwaysIInv, PTL

-----------------------------------------------------------------------------
(* What callers are told of their commands: the client as CommandService.  *)

\* The ids that went out for a command of a caller, by its record d.
Spent(d, id) ==
  \/ id[2] < d.n
  \/ id[2] = d.n /\ \/ d.pc = "idle" \/ id[3] < d.try
                    \/ id[3] = d.try /\ d.pc # "hold"
GoneOut(id) == id \in Ids /\ Spent(call[id[1]], id)

\* What an answer says of a command is so.
TrueOf(id, answer) == /\ answer = "ok" => id \in executed
                      /\ answer \in {"denied", "signature"} => Refused(id)

\* A command on its way went out, once, and was not carried out before.
WireInv == \A s \in Sockets : \A m \in sock[s].up :
  /\ GoneOut(m.id) /\ m.id \notin executed
  /\ \A t \in Sockets : \A k \in sock[t].up : k.id = m.id => s = t /\ k = m
ExecutedInv == \A id \in executed : GoneOut(id)
AnswersInv  == \A s \in Sockets : \A f \in sock[s].down : GoneOut(f.id) /\ TrueOf(f.id, f.answer)
\* A caller sends a second message only when the first was refused, ...
CallsInv == \A c \in Callers :
  /\ call[c].n \in 0 .. MaxRequests /\ (call[c].pc # "idle" => call[c].n # 0)
  /\ UnderWay(c) => TrueOf(Id(c), call[c].item)
  /\ call[c].pc # "idle" /\ call[c].try = 2 => Refused(<<c, call[c].n, 1>>)
\* ... which is so when the caller has gone, too.
OnceInv == \A c \in Callers, n \in 1 .. MaxRequests :
             Refused(<<c, n, 1>>) \/ Refused(<<c, n, 2>>)
FInv == WireInv /\ ExecutedInv /\ AnswersInv /\ CallsInv /\ OnceInv

SInv == IInv /\ FInv

\* The steps, as far as commands and their answers are concerned: nothing is
\* added to the wire, ...
Fewer == \A s \in Sockets : sock'[s].up \subseteq sock[s].up /\ sock'[s].down \subseteq sock[s].down
Calm  == UNCHANGED <<call, executed>> /\ Fewer
\* ... items reach their queues, ...
Waking ==
  /\ executed' = executed /\ Fewer
  /\ \E ids, item :
       /\ call' = Deliver(ids, item)
       /\ \/ item \in {"closed", "refused"}
          \/ \E s \in Sockets : \E f \in sock[s].down : ids \subseteq {f.id} /\ item = f.answer
\* ... or one caller moves: it asks, sends, has sent, or ends a try.
Moves(c) == call' = [call EXCEPT ![c] = call'[c]] /\ executed' = executed
Asking(c) ==
  /\ Moves(c) /\ sock' = sock
  /\ call[c].pc = "idle" /\ call'[c].pc \in {"idle", "hold"} /\ call[c].n < MaxRequests
  /\ call'[c].n = call[c].n + 1 /\ call'[c].try = 1
Sending(c) ==
  /\ Moves(c) /\ call[c].pc = "hold" /\ call'[c].pc = "send"
  /\ call'[c].n = call[c].n /\ call'[c].try = call[c].try /\ call'[c].item = "none"
  /\ \A s \in Sockets :
       /\ sock'[s].down = sock[s].down
       /\ \E m : m.id = Id(c) /\ sock'[s].up \subseteq sock[s].up \union {m}
  /\ \A s, t \in Sockets : sock'[s].up # sock[s].up /\ sock'[t].up # sock[t].up => s = t
Waiting(c) ==
  /\ Moves(c) /\ sock' = sock
  /\ call[c].pc = "send" /\ call'[c] = [call[c] EXCEPT !.pc = "wait"]
Ending(c) ==
  /\ Moves(c) /\ sock' = sock /\ call[c].pc # "idle"
  /\ Rests(c) \/ (Second(c) /\ call[c].pc = "wait" /\ TriedAgain(c))

\* A refused signature of a first try is what a second try takes.
LEMMA SettleEnds ==
  ASSUME Shape, NEW c \in Callers, NEW outcome, Settle(c, outcome),
         UNCHANGED <<sock, executed>>, call[c].pc # "idle",
         outcome = "signature" => call[c].pc = "wait" /\ call[c].item = outcome
  PROVE  Ending(c)
<1>1. call' = [call EXCEPT ![c] = call'[c]] /\ (Rests(c) \/ Second(c))
  BY SettleMoves
<1>2. CASE Rests(c)
  BY <1>1, <1>2 DEF Ending, Moves
<1>3. CASE Second(c)
  <2>1. call[c].try = 1 /\ OtherEncoding(c, outcome)
    <3>1. CASE ~(call[c].try = 1 /\ OtherEncoding(c, outcome))
      <4>1. call' = [call EXCEPT ![c] = Gone(c)]
        BY <3>1 DEF Settle
      <4>2. call'[c] = Gone(c)
        BY <4>1 DEF Shape
      <4> QED  BY <1>3, <4>2 DEF Second, Gone, Resting
    <3> QED  BY <3>1
  <2>2. outcome = "signature" /\ call[c].pc = "wait" /\ TriedAgain(c)
    BY <2>1 DEF OtherEncoding, TriedAgain
  <2> QED  BY <1>1, <1>3, <2>2 DEF Ending, Moves
<1> QED  BY <1>1, <1>2, <1>3

LEMMA CallerOutline ==
  ASSUME IInv, NEW c \in Callers, CallerStep(c)
  PROVE  Asking(c) \/ Sending(c) \/ Waiting(c) \/ Ending(c)
<1>0. /\ Shape /\ call = [b \in Callers |-> call[b]] /\ DOMAIN call[c] = CallFields
      /\ call[c].pc = "hold" => call[c].item = "none"
  BY DEF IInv, Shape, Queues, QueueInv
<1>1. CASE Request(c)
  <2>1. PICK signed \in Kinds : call' = [call EXCEPT ![c] =
          Begun([Resting EXCEPT !.n = call[c].n + 1, !.signed = signed])]
    BY <1>1 DEF Request
  <2> DEFINE d == Begun([Resting EXCEPT !.n = call[c].n + 1, !.signed = signed])
  <2>2. d.try = 1 /\ d.n = call[c].n + 1 /\ d.pc \in {"idle", "hold"}
    BY DEF Begun, Resting
  <2>3. call' = [call EXCEPT ![c] = d]
    BY <2>1
  <2> HIDE DEF d
  <2>4. call'[c] = d
    BY <1>0, <2>3
  <2> QED  BY <1>1, <2>2, <2>3, <2>4 DEF Request, Asking, Moves
<1>2. CASE Send(c)
  <2>1. /\ call' = [call EXCEPT ![c].pc = "send", ![c].ws = self.ws]
        /\ call[c].pc = "hold" /\ executed' = executed
    BY <1>2 DEF Send
  <2> DEFINE d == [call[c] EXCEPT !.pc = "send", !.ws = self.ws]
  <2>2. d.pc = "send" /\ d.n = call[c].n /\ d.try = call[c].try /\ d.item = call[c].item
    BY <1>0 DEF CallFields
  <2>3. call' = [call EXCEPT ![c] = d]
    BY <1>0, <2>1
  <2> HIDE DEF d
  <2>4. call'[c] = d
    BY <1>0, <2>3
  <2> DEFINE m == [id |-> Id(c), signed |-> call[c].signed, encoding |-> self.encoding]
  <2>5. m.id = Id(c)
    OBVIOUS
  <2>6. \A s \in Sockets : /\ sock'[s].down = sock[s].down
                           /\ sock'[s].up \subseteq sock[s].up \union {m}
                           /\ s # self.ws => sock'[s] = sock[s]
    BY <1>0, <1>2 DEF Send, Shape, SockFields
  <2> HIDE DEF m
  <2>7. \A s, t \in Sockets : sock'[s].up # sock[s].up /\ sock'[t].up # sock[t].up => s = t
    BY <2>6
  <2> QED  BY <1>0, <2>1, <2>2, <2>3, <2>4, <2>5, <2>6, <2>7 DEF Sending, Moves
<1>3. CASE Sent(c)
  <2>1. /\ call[c].pc = "send" /\ call' = [call EXCEPT ![c].pc = "wait"]
        /\ UNCHANGED <<sock, executed>>
    BY <1>3 DEF Sent
  <2>2. call'[c] = [call[c] EXCEPT !.pc = "wait"]
    BY <1>0, <2>1
  <2> QED  BY <1>0, <2>1, <2>2 DEF Waiting, Moves
<1>4. CASE SendRefused(c) \/ SendFails(c) \/ Take(c) \/ TimeOut(c)
  <2>1. UNCHANGED <<sock, executed>> /\ call[c].pc # "idle"
    BY <1>4 DEF SendRefused, SendFails, Take, TimeOut
  <2>2. \/ Settle(c, "unsent") \/ Settle(c, "timeout")
        \/ call[c].pc = "wait" /\ Settle(c, call[c].item)
    BY <1>4 DEF SendRefused, SendFails, Take, TimeOut
  <2> QED  BY <1>0, <2>1, <2>2, SettleEnds
<1>5. CASE Cancel(c)
  <2>1. call' = [call EXCEPT ![c] = Gone(c)] /\ call[c].pc # "idle" /\ UNCHANGED <<sock, executed>>
    BY <1>5 DEF Cancel
  <2>2. call'[c] = Gone(c)
    BY <1>0, <2>1
  <2>3. Gone(c).pc = "idle" /\ Gone(c).n = call[c].n
    BY DEF Gone, Resting
  <2> QED  BY <2>1, <2>2, <2>3 DEF Ending, Moves, Rests
<1> QED  BY <1>1, <1>2, <1>3, <1>4, <1>5 DEF CallerStep

\* The sockets that close() and the network change, as far as commands go.
LEMMA Outline ==
  ASSUME IInv, [Next]_vars
  PROVE  \/ Calm \/ Waking
         \/ \E c \in Callers : Asking(c) \/ Sending(c) \/ Waiting(c) \/ Ending(c)
         \/ \E s \in Sockets : Serve(s)
<1>0. Shape
  BY DEF IInv
<1>1. CASE MainStep
  <2>1. CASE Connect \/ OpenFails \/ Grace \/ CancelMain \/ Close
    BY <2>1 DEF Connect, OpenFails, Grace, CancelMain, Close, Calm, Fewer
  <2>2. CASE Open
    <3>1. PICK s \in Sockets : sock' = [sock EXCEPT ![s] = [Absent EXCEPT !.state = "open"]]
      BY <2>2 DEF Open, FreeSockets
    <3>2. Fewer
      BY <1>0, <3>1 DEF Fewer, Shape, Absent
    <3> QED  BY <2>2, <3>2 DEF Open, Calm
  <2>3. CASE CloseSocket
    <3>1. sock' = [sock EXCEPT ![self.ws].state = "closing"] /\ UNCHANGED <<call, executed>>
      BY <2>3 DEF CloseSocket
    <3> QED  BY <1>0, <3>1 DEF Calm, Fewer, Shape, SockFields
  <2>4. CASE CloseEnds
    <3>1. call' = Deliver(pending, "closed") /\ executed' = executed
      BY <2>4 DEF CloseEnds, CloseWakes, FailPending
    <3>2. Fewer
      BY <2>4 DEF CloseEnds, Fewer, Over, Absent
    <3> QED  BY <3>1, <3>2 DEF Waking
  <2> QED  BY <1>1, <2>1, <2>2, <2>3, <2>4 DEF MainStep, CloseStep
<1>2. ASSUME NEW s \in Sockets, ReaderStep(s) PROVE Calm \/ Waking
  <2>1. CASE ReaderStart(s)
    BY <2>1 DEF ReaderStart, Calm, Fewer
  <2>2. CASE ReadAnswer(s)
    <3>1. reader[s].ws = s
      BY <2>2, ReadsOn DEF IInv, ReadAnswer, Reading
    <3>2. PICK frame \in sock[s].down :
            /\ sock' = [sock EXCEPT ![s].down = @ \ {frame}]
            /\ call' = Deliver(AnswerRoute(frame.id), frame.answer)
      BY <2>2, <3>1 DEF ReadAnswer
    <3>3. Fewer /\ AnswerRoute(frame.id) \subseteq {frame.id}
      BY <1>0, <3>2 DEF Fewer, Shape, SockFields, AnswerRoute
    <3> QED  BY <2>2, <3>2, <3>3 DEF ReadAnswer, Waking
  <2>3. CASE ReadRefusal(s) \/ ReaderEnds(s)
    <3>1. /\ executed' = executed
          /\ call' = Deliver(pending, "refused") \/ call' = Deliver(pending, "closed")
      BY <2>3 DEF ReadRefusal, ReaderEnds, ReaderWakes, FailPending
    <3>2. Fewer
      <4>1. CASE ReadRefusal(s)
        <5>1. reader[s].ws = s
          BY <4>1, ReadsOn DEF IInv, ReadRefusal, Reading
        <5>2. sock' = [sock EXCEPT ![s].refusal = "read"]
          BY <4>1, <5>1 DEF ReadRefusal
        <5> QED  BY <1>0, <5>2 DEF Fewer, Shape, SockFields
      <4>2. CASE ReaderEnds(s)
        BY <4>2 DEF ReaderEnds, Fewer
      <4> QED  BY <2>3, <4>1, <4>2
    <3> QED  BY <3>1, <3>2 DEF Waking
  <2> QED  BY <1>2, <2>1, <2>2, <2>3 DEF ReaderStep
<1>3. ASSUME NEW s \in Sockets, ServerStep(s) PROVE Calm \/ Serve(s)
  <2>1. CASE ServerRefuses(s) \/ Break(s)
    <3>1. UNCHANGED <<call, executed>>
      BY <2>1 DEF ServerRefuses, Break
    <3>2. Fewer
      BY <1>0, <2>1 DEF ServerRefuses, Break, Over, Absent, Fewer, Shape, SockFields
    <3> QED  BY <3>1, <3>2 DEF Calm
  <2> QED  BY <1>3, <2>1 DEF ServerStep
<1>4. CASE UNCHANGED vars
  BY <1>4 DEF vars, Calm, Fewer
<1> QED  BY <1>1, <1>2, <1>3, <1>4, CallerOutline DEF Next

\* What the server does to one message, and to nothing else.
LEMMA ServeMoves ==
  ASSUME Shape, WireInv, NEW s \in Sockets, Serve(s)
  PROVE  \E m \in sock[s].up, answer \in Answers :
           /\ executed' = IF answer = "ok" THEN executed \union {m.id} ELSE executed
           /\ \A t \in Sockets : sock'[t].up \subseteq sock[t].up
           /\ \A t \in Sockets : \A k \in sock'[t].up : k.id # m.id
           /\ \A t \in Sockets : sock'[t].down \subseteq
                sock[t].down \union {[id |-> m.id, answer |-> answer]}
           /\ call' = call
<1>1. PICK m \in sock[s].up, answer \in Answers :
        /\ executed' = IF answer = "ok" THEN executed \union {m.id} ELSE executed
        /\ sock' = [sock EXCEPT
             ![s].up = @ \ {m},
             ![s].down = IF sock[s].state = "open"
                         THEN @ \union {[id |-> m.id, answer |-> answer]} ELSE @]
  BY DEF Serve
<1>2. call' = call
  BY DEF Serve
<1>3. /\ \A t \in Sockets : t # s => sock'[t] = sock[t]
      /\ sock'[s].up = sock[s].up \ {m}
      /\ sock'[s].down \subseteq sock[s].down \union {[id |-> m.id, answer |-> answer]}
  BY <1>1 DEF Shape, SockFields
<1>4. \A t \in Sockets : \A k \in sock[t].up : k.id = m.id => t = s /\ k = m
  BY DEF WireInv
<1>5. \A t \in Sockets : sock'[t].up \subseteq sock[t].up
  BY <1>3
<1>6. \A t \in Sockets : \A k \in sock'[t].up : k.id # m.id
  BY <1>3, <1>4
<1>7. \A t \in Sockets : sock'[t].down \subseteq
        sock[t].down \union {[id |-> m.id, answer |-> answer]}
  BY <1>3
<1> QED  BY <1>1, <1>2, <1>5, <1>6, <1>7

-----------------------------------------------------------------------------
(* What is so of commands stays so.                                        *)

\* An id that went out has gone out for good.
LEMMA OutStays ==
  ASSUME SInv, [Next]_vars, NEW id, GoneOut(id)
  PROVE  GoneOut(id)'
<1> DEFINE c == id[1]
<1>0. /\ IInv /\ Shape /\ c \in Callers /\ id[2] \in Nat /\ id[3] \in {1, 2}
      /\ \A b \in Callers : call[b].n \in Nat /\ call[b].try \in {1, 2}
      /\ call = [b \in Callers |-> call[b]]
  BY BoundAssumption DEF SInv, IInv, Shape, GoneOut, Ids
<1> SUFFICES Spent(call'[c], id)
  BY DEF GoneOut
<1>1. Spent(call[c], id)
  BY DEF GoneOut
<1>2. CASE call'[c] = call[c]
  BY <1>1, <1>2
<1>3. CASE Waking
  <2>1. PICK ids, item : call' = Deliver(ids, item)
    BY <1>3 DEF Waking
  <2>2. call'[c].pc = call[c].pc /\ call'[c].n = call[c].n /\ call'[c].try = call[c].try
    BY <1>0, <2>1, Delivered
  <2> QED  BY <1>1, <2>2 DEF Spent
<1>4. ASSUME NEW b \in Callers, Asking(b) \/ Sending(b) \/ Waiting(b) \/ Ending(b)
      PROVE  Spent(call'[c], id)
  <2>1. call' = [call EXCEPT ![b] = call'[b]]
    BY <1>4 DEF Asking, Sending, Waiting, Ending, Moves
  <2>2. CASE b # c
    BY <1>0, <1>2, <2>1, <2>2
  <2>3. CASE b = c /\ Asking(c)
    BY <1>0, <1>1, <2>3 DEF Asking, Spent
  <2>4. CASE b = c /\ Sending(c)
    BY <1>0, <1>1, <2>4 DEF Sending, Spent
  <2>5. CASE b = c /\ Waiting(c)
    <3>1. /\ call'[c].pc = "wait" /\ call'[c].n = call[c].n /\ call'[c].try = call[c].try
          /\ call[c].pc = "send"
      BY <1>0, <2>5 DEF Waiting, Shape, CallFields
    <3> QED  BY <1>1, <3>1 DEF Spent
  <2>6. CASE b = c /\ Ending(c)
    <3>1. call[c].pc # "idle" /\ (Rests(c) \/ (Second(c) /\ call[c].pc = "wait"))
      BY <2>6 DEF Ending
    <3> QED  BY <1>0, <1>1, <3>1 DEF Rests, Second, Spent
  <2> QED  BY <1>4, <2>2, <2>3, <2>4, <2>5, <2>6
<1>5. CASE Calm
  BY <1>2, <1>5 DEF Calm
<1>6. ASSUME NEW s \in Sockets, Serve(s) PROVE call'[c] = call[c]
  BY <1>6 DEF Serve
<1> QED  BY <1>0, <1>2, <1>3, <1>4, <1>5, <1>6, Outline

\* A message that was refused or lost stays so, unless it is the one sent now.
LEMMA RefusedStays ==
  ASSUME SInv, [Next]_vars, NEW id, Refused(id), \A c \in Callers : Sending(c) => id # Id(c)
  PROVE  Refused(id)'
<1>0. IInv /\ Shape /\ WireInv
  BY DEF SInv, IInv, FInv
<1>1. CASE executed' = executed /\ \A s \in Sockets : sock'[s].up \subseteq sock[s].up
  BY <1>1 DEF Refused
<1>2. CASE Calm \/ Waking
  BY <1>1, <1>2 DEF Calm, Waking, Fewer
<1>3. ASSUME NEW c \in Callers, Asking(c) \/ Waiting(c) \/ Ending(c) PROVE Refused(id)'
  BY <1>1, <1>3 DEF Asking, Waiting, Ending, Moves
<1>4. ASSUME NEW c \in Callers, Sending(c) PROVE Refused(id)'
  <2>1. \A s \in Sockets : \A k \in sock'[s].up : k \in sock[s].up \/ k.id = Id(c)
    BY <1>4 DEF Sending
  <2>2. executed' = executed /\ id # Id(c)
    BY <1>4 DEF Sending, Moves
  <2> QED  BY <2>1, <2>2 DEF Refused
<1>5. ASSUME NEW s \in Sockets, Serve(s) PROVE Refused(id)'
  <2>1. PICK m \in sock[s].up, answer \in Answers :
          /\ executed' = IF answer = "ok" THEN executed \union {m.id} ELSE executed
          /\ \A t \in Sockets : sock'[t].up \subseteq sock[t].up
    BY <1>0, <1>5, ServeMoves
  <2> QED  BY <2>1 DEF Refused
<1> QED  BY <1>0, <1>2, <1>3, <1>4, <1>5, Outline

\* The command of a caller that holds has not gone out.
LEMMA HoldsBack ==
  ASSUME Shape, NEW c \in Callers, call[c].pc = "hold"
  PROVE  ~GoneOut(Id(c))
BY DEF Shape, GoneOut, Spent, Id

LEMMA ExecutedGrows == SInv /\ [Next]_vars => executed \subseteq executed'
<1> SUFFICES ASSUME SInv, [Next]_vars PROVE executed \subseteq executed'
  OBVIOUS
<1>1. ASSUME NEW s \in Sockets, Serve(s) PROVE executed \subseteq executed'
  BY <1>1 DEF Serve
<1> QED  BY <1>1, Outline DEF SInv, Calm, Waking, Asking, Sending, Waiting, Ending, Moves

\* What is said of a command that went out stays true.
LEMMA TrueStays ==
  ASSUME SInv, [Next]_vars, NEW id, NEW answer, GoneOut(id), TrueOf(id, answer)
  PROVE  TrueOf(id, answer)'
<1>1. \A c \in Callers : Sending(c) => id # Id(c)
  BY HoldsBack DEF SInv, IInv, Sending
<1>2. Refused(id) => Refused(id)'
  BY <1>1, RefusedStays
<1>3. executed \subseteq executed'
  BY ExecutedGrows
<1> QED  BY <1>2, <1>3 DEF TrueOf

\* What never went out was not carried out.
LEMMA NeverSent ==
  ASSUME WireInv, ExecutedInv, NEW id, ~GoneOut(id)
  PROVE  Refused(id)
BY DEF WireInv, ExecutedInv, Refused

-----------------------------------------------------------------------------
(* Where the messages of commands are, and what has become of them.        *)

\* How a step moves the call of a caller that is under way afterwards.
LEMMA Underway ==
  ASSUME SInv, [Next]_vars, NEW c \in Callers, UnderWay(c)', call'[c] # call[c]
  PROVE  /\ Id(c)' = Id(c)
         /\ \/ call'[c].item \notin Answers
            \/ UnderWay(c) /\ call'[c].item = call[c].item
            \/ \E s \in Sockets : \E f \in sock[s].down : f.id = Id(c) /\ f.answer = call'[c].item
<1>0. /\ IInv /\ Shape /\ call = [b \in Callers |-> call[b]] /\ DOMAIN call[c] = CallFields
  BY DEF SInv, IInv, Shape
<1>1. CASE Waking
  <2>1. PICK ids, item :
          /\ call' = Deliver(ids, item)
          /\ \/ item \in {"closed", "refused"}
             \/ \E s \in Sockets : \E f \in sock[s].down : ids \subseteq {f.id} /\ item = f.answer
    BY <1>1 DEF Waking
  <2>2. Id(c) \in ids /\ call'[c].item = item /\ Id(c)' = Id(c)
    BY <1>0, <2>1, Delivered
  <2> QED  BY <2>1, <2>2 DEF Answers
<1>2. ASSUME NEW b \in Callers, Asking(b) \/ Sending(b) \/ Waiting(b) \/ Ending(b)
      PROVE  /\ Id(c)' = Id(c)
             /\ call'[c].item \notin Answers \/ (UnderWay(c) /\ call'[c].item = call[c].item)
  <2>1. call' = [call EXCEPT ![b] = call'[b]]
    BY <1>2 DEF Asking, Sending, Waiting, Ending, Moves
  <2>2. b = c
    BY <1>0, <2>1
  <2>3. ~Asking(c) /\ ~Ending(c)
    BY DEF Asking, Ending, Rests, Second, UnderWay
  <2>4. CASE Sending(c)
    BY <2>4 DEF Sending, Id, Answers
  <2>5. CASE Waiting(c)
    <3>1. /\ call'[c].n = call[c].n /\ call'[c].try = call[c].try /\ call'[c].item = call[c].item
          /\ call[c].pc = "send"
      BY <1>0, <2>5 DEF Waiting, CallFields
    <3> QED  BY <3>1 DEF Id, UnderWay
  <2> QED  BY <1>2, <2>2, <2>3, <2>4, <2>5
<1>3. call' # call
  OBVIOUS
<1> QED  BY <1>0, <1>1, <1>2, <1>3, Outline DEF Calm, Serve

LEMMA NextWire == SInv /\ [Next]_vars => WireInv' /\ ExecutedInv'
<1> SUFFICES ASSUME SInv, [Next]_vars PROVE WireInv' /\ ExecutedInv'
  OBVIOUS
<1>0. /\ IInv /\ Shape /\ WireInv /\ ExecutedInv /\ CallsInv
  BY DEF SInv, IInv, FInv
<1>1. \A id : GoneOut(id) => GoneOut(id)'
  BY OutStays
<1>2. ASSUME executed' = executed, \A s \in Sockets : sock'[s].up \subseteq sock[s].up
      PROVE  WireInv' /\ ExecutedInv'
  BY <1>0, <1>1, <1>2 DEF WireInv, ExecutedInv
<1>3. ASSUME NEW c \in Callers, Sending(c) PROVE WireInv' /\ ExecutedInv'
  <2>1. executed' = executed /\ ~GoneOut(Id(c))
    BY <1>0, <1>3, HoldsBack DEF Sending, Moves
  <2>2. Refused(Id(c))
    BY <1>0, <2>1, NeverSent
  <2>3. ASSUME NEW id, id = Id(c) PROVE GoneOut(id)'
    <3>1. Id(c) \in Ids
      <4>1. call[c].n \in 0 .. MaxRequests /\ call[c].n # 0 /\ call[c].try \in {1, 2}
        BY <1>0, <1>3 DEF Sending, CallsInv, Shape
      <4>2. call[c].n \in 1 .. MaxRequests
        BY <4>1, BoundAssumption
      <4> QED  BY <4>1, <4>2 DEF Id, Ids
    <3>2. Spent(call'[c], id) /\ id[1] = c
      BY <1>3, <2>3 DEF Sending, Spent, Id
    <3> QED  BY <2>3, <3>1, <3>2 DEF GoneOut
  <2>4. /\ \A s \in Sockets : \E m : m.id = Id(c) /\ sock'[s].up \subseteq sock[s].up \union {m}
        /\ \A s, t \in Sockets : sock'[s].up # sock[s].up /\ sock'[t].up # sock[t].up => s = t
    BY <1>3 DEF Sending
  <2>5. \A s \in Sockets : \A k \in sock'[s].up : k \in sock[s].up \/ k.id = Id(c)
    BY <2>4
  <2>6. \A s, t \in Sockets : \A m \in sock'[s].up, k \in sock'[t].up :
          m.id = Id(c) /\ k.id = Id(c) => s = t /\ k = m
    <3> SUFFICES ASSUME NEW s \in Sockets, NEW t \in Sockets, NEW m \in sock'[s].up,
                        NEW k \in sock'[t].up, m.id = Id(c), k.id = Id(c)
                 PROVE  s = t /\ k = m
      OBVIOUS
    <3>1. m \notin sock[s].up /\ k \notin sock[t].up
      BY <2>2 DEF Refused
    <3>2. s = t
      BY <2>4, <3>1
    <3>3. PICK x : sock'[s].up \subseteq sock[s].up \union {x}
      BY <2>4
    <3> QED  BY <3>1, <3>2, <3>3
  <2>7. ASSUME NEW s \in Sockets, NEW m \in sock'[s].up
        PROVE  GoneOut(m.id)' /\ m.id \notin executed'
    <3>1. CASE m \in sock[s].up
      BY <1>0, <1>1, <2>1, <3>1 DEF WireInv
    <3>2. CASE m.id = Id(c)
      <4>1. ASSUME NEW k, k = Id(c) PROVE GoneOut(k)' /\ k \notin executed'
        <5>1. GoneOut(k)'
          BY <2>3, <4>1
        <5> QED  BY <2>1, <2>2, <4>1, <5>1 DEF Refused
      <4> QED  BY <3>2, <4>1
    <3> QED  BY <2>5, <3>1, <3>2
  <2>8. ASSUME NEW s \in Sockets, NEW m \in sock'[s].up, NEW t \in Sockets, NEW k \in sock'[t].up,
               k.id = m.id
        PROVE  s = t /\ k = m
    <3>1. CASE m.id = Id(c)
      BY <2>6, <2>8, <3>1
    <3>2. CASE m.id # Id(c)
      <4>1. m \in sock[s].up /\ k \in sock[t].up
        BY <2>5, <2>8, <3>2
      <4> QED  BY <1>0, <2>8, <4>1 DEF WireInv
    <3> QED  BY <3>1, <3>2
  <2>9. WireInv'
    BY <2>7, <2>8 DEF WireInv
  <2> QED  BY <1>0, <1>1, <2>1, <2>9 DEF ExecutedInv
<1>4. ASSUME NEW s \in Sockets, Serve(s) PROVE WireInv' /\ ExecutedInv'
  <2>1. PICK m \in sock[s].up, answer \in Answers :
          /\ executed' = IF answer = "ok" THEN executed \union {m.id} ELSE executed
          /\ \A t \in Sockets : sock'[t].up \subseteq sock[t].up
          /\ \A t \in Sockets : \A k \in sock'[t].up : k.id # m.id
    BY <1>0, <1>4, ServeMoves
  <2>2. GoneOut(m.id)
    BY <1>0 DEF WireInv
  <2>3. ExecutedInv'
    BY <1>0, <1>1, <2>1, <2>2 DEF ExecutedInv
  <2>4. \A t \in Sockets : \A k \in sock'[t].up : GoneOut(k.id)' /\ k.id \notin executed'
    BY <1>0, <1>1, <2>1 DEF WireInv
  <2>5. WireInv'
    BY <1>0, <2>1, <2>4 DEF WireInv
  <2> QED  BY <2>3, <2>5
<1> QED  BY <1>0, <1>2, <1>3, <1>4, Outline DEF Calm, Waking, Fewer, Asking, Waiting, Ending, Moves

LEMMA NextAnswers == SInv /\ [Next]_vars => AnswersInv'
<1> SUFFICES ASSUME SInv, [Next]_vars, NEW s \in Sockets, NEW f \in sock'[s].down
             PROVE  GoneOut(f.id)' /\ TrueOf(f.id, f.answer)'
  BY DEF AnswersInv
<1>0. IInv /\ Shape /\ WireInv /\ AnswersInv
  BY DEF SInv, IInv, FInv
<1>1. CASE f \in sock[s].down
  BY <1>0, <1>1, OutStays, TrueStays DEF AnswersInv
<1>2. ASSUME NEW t \in Sockets, Serve(t), f \notin sock[s].down
      PROVE  GoneOut(f.id)' /\ TrueOf(f.id, f.answer)'
  <2>1. PICK m \in sock[t].up, answer \in Answers :
          /\ executed' = IF answer = "ok" THEN executed \union {m.id} ELSE executed
          /\ \A u \in Sockets : \A k \in sock'[u].up : k.id # m.id
          /\ \A u \in Sockets : sock'[u].down \subseteq
               sock[u].down \union {[id |-> m.id, answer |-> answer]}
    BY <1>0, <1>2, ServeMoves
  <2>2. f.id = m.id /\ f.answer = answer
    BY <1>2, <2>1
  <2>3. GoneOut(m.id) /\ m.id \notin executed
    BY <1>0 DEF WireInv
  <2>4. TrueOf(m.id, answer)'
    BY <2>1, <2>3 DEF TrueOf, Refused, Answers
  <2> QED  BY <2>2, <2>3, <2>4, OutStays
<1>3. CASE \A t \in Sockets : sock'[t].down \subseteq sock[t].down
  BY <1>1, <1>3
<1> QED  BY <1>0, <1>1, <1>2, <1>3, Outline
         DEF Calm, Waking, Fewer, Asking, Sending, Waiting, Ending

LEMMA NextCalls == SInv /\ [Next]_vars => CallsInv'
<1> SUFFICES ASSUME SInv, [Next]_vars, NEW c \in Callers
             PROVE  /\ call'[c].n \in 0 .. MaxRequests /\ (call'[c].pc # "idle" => call'[c].n # 0)
                    /\ UnderWay(c)' => TrueOf(Id(c), call[c].item)'
                    /\ call'[c].pc # "idle" /\ call'[c].try = 2 => Refused(<<c, call[c].n, 1>>)'
  BY DEF CallsInv
<1>0. /\ IInv /\ Shape /\ WireInv /\ AnswersInv /\ call = [b \in Callers |-> call[b]]
      /\ DOMAIN call[c] = CallFields /\ call[c].try \in {1, 2}
  BY DEF SInv, IInv, FInv, Shape
<1>1. /\ call[c].n \in 0 .. MaxRequests /\ (call[c].pc # "idle" => call[c].n # 0)
      /\ UnderWay(c) => TrueOf(Id(c), call[c].item)
      /\ call[c].pc # "idle" /\ call[c].try = 2 => Refused(<<c, call[c].n, 1>>)
  BY DEF SInv, FInv, CallsInv
<1>a. UnderWay(c) => GoneOut(Id(c))
  <2> SUFFICES ASSUME UnderWay(c) PROVE GoneOut(Id(c))
    OBVIOUS
  <2>1. Id(c) \in Ids
    BY <1>0, <1>1, BoundAssumption DEF UnderWay, Id, Ids
  <2> QED  BY <2>1 DEF UnderWay, GoneOut, Spent, Id
<1>2. UnderWay(c)' => TrueOf(Id(c), call[c].item)'
  <2> SUFFICES ASSUME UnderWay(c)' PROVE TrueOf(Id(c), call[c].item)'
    OBVIOUS
  <2>1. CASE call'[c] = call[c]
    <3>1. UnderWay(c) /\ Id(c)' = Id(c)
      BY <2>1 DEF UnderWay, Id
    <3> QED  BY <1>1, <1>a, <2>1, <3>1, TrueStays
  <2>2. CASE call'[c] # call[c]
    <3>1. Id(c)' = Id(c)
      BY <2>2, Underway
    <3>2. CASE call'[c].item \notin Answers
      BY <3>2 DEF TrueOf, Answers
    <3>3. CASE UnderWay(c) /\ call'[c].item = call[c].item
      BY <1>1, <1>a, <3>1, <3>3, TrueStays
    <3>4. CASE \E s \in Sockets : \E f \in sock[s].down : f.id = Id(c) /\ f.answer = call'[c].item
      <4>0. PICK s \in Sockets : \E f \in sock[s].down : f.id = Id(c) /\ f.answer = call'[c].item
        BY <3>4
      <4>1. PICK f \in sock[s].down : f.id = Id(c) /\ f.answer = call'[c].item
        BY <4>0
      <4>2. GoneOut(f.id) /\ TrueOf(f.id, f.answer)
        BY <1>0 DEF AnswersInv
      <4> QED  BY <3>1, <4>1, <4>2, TrueStays
    <3> QED  BY <2>2, <3>2, <3>3, <3>4, Underway
  <2> QED  BY <2>1, <2>2
<1>3. ASSUME call'[c].n = call[c].n, call[c].pc # "idle", call[c].try = 2
      PROVE  Refused(<<c, call[c].n, 1>>)'
  <2>1. \A b \in Callers : <<c, call[c].n, 1>> # Id(b)
    BY <1>3 DEF Id
  <2>2. Refused(<<c, call[c].n, 1>>)
    BY <1>1, <1>3
  <2> DEFINE n == call[c].n
  <2>3. ASSUME NEW k, k = n PROVE Refused(<<c, k, 1>>)'
    BY <2>1, <2>2, <2>3, RefusedStays
  <2> QED  BY <1>3, <2>3
<1>4. ASSUME call'[c].pc = "idle" <=> call[c].pc = "idle", call'[c].n = call[c].n,
             call'[c].try = call[c].try
      PROVE  /\ call'[c].n \in 0 .. MaxRequests /\ (call'[c].pc # "idle" => call'[c].n # 0)
             /\ call'[c].pc # "idle" /\ call'[c].try = 2 => Refused(<<c, call[c].n, 1>>)'
  BY <1>1, <1>3, <1>4
<1>5. ASSUME NEW b \in Callers, Asking(b) \/ Sending(b) \/ Waiting(b) \/ Ending(b)
      PROVE  /\ call'[c].n \in 0 .. MaxRequests /\ (call'[c].pc # "idle" => call'[c].n # 0)
             /\ call'[c].pc # "idle" /\ call'[c].try = 2 => Refused(<<c, call[c].n, 1>>)'
  <2>1. CASE b # c
    <3>1. call'[c] = call[c]
      BY <1>0, <1>5, <2>1 DEF Asking, Sending, Waiting, Ending, Moves
    <3> QED  BY <1>4, <3>1
  <2>2. CASE Asking(c)
    BY <1>1, <2>2, BoundAssumption DEF Asking
  <2>3. CASE Sending(c)
    BY <1>4, <2>3 DEF Sending
  <2>4. CASE Waiting(c)
    BY <1>0, <1>4, <2>4 DEF Waiting, CallFields
  <2>5. CASE Ending(c) /\ Rests(c)
    BY <1>1, <2>5 DEF Rests
  <2>6. CASE Ending(c) /\ Second(c) /\ call[c].pc = "wait" /\ TriedAgain(c)
    <3>1. call[c].try = 1 /\ call[c].item = "signature" /\ call'[c].n = call[c].n
      BY <2>6 DEF TriedAgain, OtherEncoding, Second
    <3>2. Refused(Id(c))
      BY <1>1, <2>6, <3>1 DEF UnderWay, TrueOf
    <3>3. \A a \in Callers : Sending(a) => Id(c) # Id(a)
      BY <2>6 DEF Sending, Id
    <3>4. ASSUME NEW k, k = call[c].n PROVE Refused(<<c, k, 1>>)'
      <4>1. Refused(<<c, k, 1>>) /\ \A a \in Callers : Sending(a) => <<c, k, 1>> # Id(a)
        BY <3>1, <3>2, <3>3, <3>4 DEF Id
      <4> QED  BY <4>1, RefusedStays
    <3> QED  BY <1>1, <2>6, <3>1, <3>4
  <2> QED  BY <1>5, <2>1, <2>2, <2>3, <2>4, <2>5, <2>6 DEF Ending
<1>6. CASE Waking
  <2>1. PICK ids, item : call' = Deliver(ids, item)
    BY <1>6 DEF Waking
  <2>2. call'[c].pc = call[c].pc /\ call'[c].n = call[c].n /\ call'[c].try = call[c].try
    BY <1>0, <2>1, Delivered
  <2> QED  BY <1>2, <1>4, <2>2
<1>7. CASE call'[c] = call[c]
  BY <1>2, <1>4, <1>7
<1> QED  BY <1>0, <1>2, <1>5, <1>6, <1>7, Outline DEF Calm, Serve

LEMMA NextOnce == SInv /\ [Next]_vars => OnceInv'
<1> SUFFICES ASSUME SInv, [Next]_vars, NEW c \in Callers, NEW n \in 1 .. MaxRequests
             PROVE  Refused(<<c, n, 1>>)' \/ Refused(<<c, n, 2>>)'
  BY DEF OnceInv
<1>0. /\ WireInv /\ ExecutedInv /\ CallsInv /\ call[c].try \in {1, 2}
      /\ Refused(<<c, n, 1>>) \/ Refused(<<c, n, 2>>)
  BY DEF SInv, IInv, FInv, OnceInv, Shape
<1>1. CASE \A b \in Callers : Sending(b) => <<c, n, 1>> # Id(b) /\ <<c, n, 2>> # Id(b)
  BY <1>0, <1>1, RefusedStays
<1>2. ASSUME Sending(c), n = call[c].n
      PROVE  Refused(<<c, n, 1>>)' \/ Refused(<<c, n, 2>>)'
  <2>1. call[c].pc = "hold"
    BY <1>2 DEF Sending
  <2>2. CASE call[c].try = 1
    <3>1. ~GoneOut(<<c, n, 2>>)
      BY <1>2, <2>1, <2>2 DEF GoneOut, Spent
    <3>2. Refused(<<c, n, 2>>)
      BY <1>0, <3>1, NeverSent
    <3>3. \A b \in Callers : <<c, n, 2>> # Id(b) \/ ~Sending(b)
      BY <2>2 DEF Id
    <3> QED  BY <3>2, <3>3, RefusedStays
  <2>3. CASE call[c].try = 2
    <3>1. Refused(<<c, n, 1>>)
      BY <1>0, <1>2, <2>1, <2>3 DEF CallsInv
    <3>2. \A b \in Callers : <<c, n, 1>> # Id(b) \/ ~Sending(b)
      BY <2>3 DEF Id
    <3> QED  BY <3>1, <3>2, RefusedStays
  <2> QED  BY <1>0, <2>2, <2>3
<1>3. CASE \E b \in Callers : Sending(b) /\ (<<c, n, 1>> = Id(b) \/ <<c, n, 2>> = Id(b))
  <2>1. PICK b \in Callers : Sending(b) /\ (<<c, n, 1>> = Id(b) \/ <<c, n, 2>> = Id(b))
    BY <1>3
  <2>2. b = c /\ n = call[c].n
    BY <2>1 DEF Id
  <2> QED  BY <1>2, <2>1, <2>2
<1> QED  BY <1>1, <1>3

LEMMA InitSInv == Init => SInv
<1>1. Init => FInv
  <2> SUFFICES ASSUME Init PROVE FInv
    OBVIOUS
  <2>1. /\ \A c \in Callers : call[c] = Resting
        /\ \A s \in Sockets : sock[s].up = {} /\ sock[s].down = {}
        /\ executed = {}
    BY DEF Init, Absent
  <2>2. CallsInv
    BY <2>1, BoundAssumption DEF CallsInv, Resting, UnderWay
  <2> QED  BY <2>1, <2>2 DEF FInv, WireInv, ExecutedInv, AnswersInv, OnceInv, Refused
<1> QED  BY <1>1, InitIInv DEF SInv

LEMMA NextSInv == SInv /\ [Next]_vars => SInv'
BY NextIInv, NextWire, NextAnswers, NextCalls, NextOnce DEF SInv, FInv

-----------------------------------------------------------------------------
(* Every step is one of the service, or none.                              *)

LEMMA SetupStays == [Next]_vars => setup' = setup
<1> SUFFICES ASSUME [Next]_vars PROVE setup' = setup
  OBVIOUS
<1>1. MainStep => setup' = setup
  BY DEF MainStep, CloseStep, Connect, OpenFails, Open, Grace, Close, CloseSocket, CloseEnds,
         CancelMain
<1>2. \A s \in Sockets : ReaderStep(s) \/ ServerStep(s) => setup' = setup
  BY DEF ReaderStep, ReaderStart, ReadAnswer, ReadRefusal, ReaderEnds,
         ServerStep, Serve, ServerRefuses, Break
<1>3. \A c \in Callers : CallerStep(c) => setup' = setup
  BY DEF CallerStep, Request, Send, SendRefused, Sent, SendFails, Take, TimeOut, Cancel
<1> QED  BY <1>1, <1>2, <1>3 DEF Next, vars

\* A command with no message under way has none later.
LEMMA HopelessStays ==
  ASSUME SInv, [Next]_vars, NEW c \in Callers, NEW n \in 1 .. MaxRequests, Hopeless(c, n)
  PROVE  Hopeless(c, n)'
<1>0. /\ IInv /\ Shape /\ call = [b \in Callers |-> call[b]] /\ call[c].n \in Nat
      /\ n <= call[c].n /\ (n = call[c].n => Ended(c))
      /\ Refused(<<c, n, 1>>) /\ Refused(<<c, n, 2>>)
  BY DEF SInv, IInv, Shape, Hopeless
<1>1. Refused(<<c, n, 1>>)' /\ Refused(<<c, n, 2>>)'
  <2>1. \A b \in Callers : Sending(b) => <<c, n, 1>> # Id(b) /\ <<c, n, 2>> # Id(b)
    BY <1>0 DEF Sending, Id, Ended
  <2> QED  BY <1>0, <2>1, RefusedStays
<1>2. n <= call'[c].n /\ (n = call'[c].n => Ended(c)')
  <2>1. CASE call'[c] = call[c]
    BY <1>0, <2>1, SetupStays DEF Ended, TriedAgain, OtherEncoding
  <2>2. CASE Waking
    <3>1. PICK ids, item : call' = Deliver(ids, item)
      BY <2>2 DEF Waking
    <3>2. /\ call'[c].pc = call[c].pc /\ call'[c].n = call[c].n
          /\ call[c].item # "none" => call'[c] = call[c]
      BY <1>0, <3>1, Delivered
    <3> QED  BY <1>0, <2>1, <3>2 DEF Ended
  <2>3. ASSUME NEW b \in Callers, Asking(b) \/ Sending(b) \/ Waiting(b) \/ Ending(b)
        PROVE  n <= call'[c].n /\ (n = call'[c].n => Ended(c)')
    <3>1. CASE b # c
      <4>1. call'[c] = call[c]
        BY <1>0, <2>3, <3>1 DEF Asking, Sending, Waiting, Ending, Moves
      <4> QED  BY <2>1, <4>1
    <3>2. CASE Asking(c)
      BY <1>0, <3>2 DEF Asking
    <3>3. CASE Sending(c)
      BY <1>0, <3>3 DEF Sending, Ended
    <3>4. CASE Waiting(c)
      <4>1. call'[c].n = call[c].n /\ call[c].pc = "send"
        BY <1>0, <3>4 DEF Waiting, Shape, CallFields
      <4> QED  BY <1>0, <4>1 DEF Ended
    <3>5. CASE Ending(c)
      BY <1>0, <3>5 DEF Ending, Rests, Second, Ended
    <3> QED  BY <2>3, <3>1, <3>2, <3>3, <3>4, <3>5
  <2> QED  BY <1>0, <2>1, <2>2, <2>3, Outline DEF Calm, Serve
<1> QED  BY <1>1, <1>2 DEF Hopeless

\* A command whose caller is told that it was refused, is.
RefusalsInv == \A c \in Callers, n \in 1 .. MaxRequests :
  Heard(c) = "refused" /\ n = call[c].n => Hopeless(c, n)

LEMMA RefusalsHold == SInv => RefusalsInv
<1> SUFFICES ASSUME SInv, NEW c \in Callers, NEW n \in 1 .. MaxRequests,
                    Heard(c) = "refused", n = call[c].n
             PROVE  Hopeless(c, n)
  BY DEF RefusalsInv
<1>0. WireInv /\ ExecutedInv /\ CallsInv /\ call[c].try \in {1, 2} /\ call[c].n \in Nat
  BY DEF SInv, IInv, FInv, Shape
<1>1. call[c].pc = "wait" /\ call[c].item \in {"denied", "signature"} /\ ~TriedAgain(c)
  <2>1. CASE call[c].pc # "wait" \/ call[c].item = "none" \/ TriedAgain(c)
    BY <2>1 DEF Heard
  <2>2. CASE ~(call[c].pc # "wait" \/ call[c].item = "none" \/ TriedAgain(c))
    <3>1. call[c].item \in {"denied", "signature"}
      <4>1. CASE call[c].item \notin {"denied", "signature"}
        BY <2>2, <4>1 DEF Heard
      <4> QED  BY <4>1
    <3> QED  BY <2>2, <3>1
  <2> QED  BY <2>1, <2>2
<1>2. Refused(Id(c))
  BY <1>0, <1>1 DEF CallsInv, TrueOf, UnderWay
<1>3. Refused(<<c, n, 1>>) /\ Refused(<<c, n, 2>>)
  <2>1. CASE call[c].try = 1
    <3>1. ~GoneOut(<<c, n, 2>>)
      BY <1>0, <1>1, <2>1 DEF GoneOut, Spent
    <3> QED  BY <1>0, <1>2, <2>1, <3>1, NeverSent DEF Id
  <2>2. CASE call[c].try = 2
    BY <1>0, <1>1, <1>2, <2>2 DEF CallsInv, Id
  <2> QED  BY <1>0, <2>1, <2>2
<1>4. Ended(c)
  BY <1>1 DEF Ended
<1> QED  BY <1>0, <1>3, <1>4 DEF Hopeless

LEMMA ServiceInit == Init => Service!Init
<1> SUFFICES ASSUME Init PROVE Service!Init
  OBVIOUS
<1>1. \A c \in Callers : call[c] = Resting
  BY DEF Init
<1>2. \A c \in Callers : Heard(c) = "nothing"
  BY <1>1 DEF Heard, Resting
<1>3. \A c \in Callers, n \in 1 .. MaxRequests : ~Hopeless(c, n)
  BY <1>1, BoundAssumption DEF Hopeless, Resting
<1> QED  BY <1>1, <1>2, <1>3 DEF Service!Init, Init, Resting

LEMMA ServiceStep ==
  ASSUME SInv, SInv', RefusalsInv', [Next]_vars
  PROVE  Service!Next
<1> DEFINE asked   == [c \in Callers |-> call[c].n]
           running == [c \in Callers |-> call[c].pc # "idle"]
           heard   == [c \in Callers |-> Heard(c)]
           void    == {r \in Callers \X (1 .. MaxRequests) : Hopeless(r[1], r[2])}
<1>0. /\ IInv /\ Shape /\ WireInv /\ OnceInv /\ call = [c \in Callers |-> call[c]]
      /\ \A c \in Callers : call[c].n \in Nat
  BY DEF SInv, IInv, FInv, Shape
<1>n. ASSUME NEW c \in Callers, call[c].pc # "idle" PROVE call[c].n \in 1 .. MaxRequests
  <2>1. call[c].n \in 0 .. MaxRequests /\ call[c].n # 0
    BY <1>n DEF SInv, FInv, CallsInv
  <2> QED  BY <2>1, BoundAssumption
<1>1. Service!Voided
  <2>1. \A c \in Callers, n \in 1 .. MaxRequests : Hopeless(c, n) => Hopeless(c, n)'
    BY HopelessStays
  <2>2. void \subseteq void'
    BY <2>1
  <2>3. \A r \in void' : {<<r[1], r[2], 1>>, <<r[1], r[2], 2>>} \intersect executed' = {}
    BY DEF Hopeless, Refused
  <2> QED  BY <2>2, <2>3 DEF Service!Voided, Service!Messages
<1>2. ASSUME NEW c \in Callers, call'[c] = call[c]
      PROVE  Heard(c)' = Heard(c)
  BY <1>2, SetupStays DEF Heard, TriedAgain, OtherEncoding
\* Callers that stay in request() may come to hear of their commands.
<1>3. ASSUME executed' = executed,
             \A c \in Callers :
               /\ call'[c].n = call[c].n /\ (call'[c].pc # "idle") = (call[c].pc # "idle")
               /\ Heard(c)' # Heard(c) => Heard(c) = "nothing" /\ call[c].pc # "idle"
      PROVE  Service!Next
  <2>1. asked' = asked /\ running' = running
    <3>1. \A c \in Callers : call'[c].n = call[c].n
      BY <1>3
    <3>2. \A c \in Callers : (call'[c].pc # "idle") = (call[c].pc # "idle")
      BY <1>3
    <3>3. asked' = asked
      BY <3>1
    <3>4. running' = running
      BY <3>2
    <3> QED  BY <3>3, <3>4
  <2>2. ASSUME NEW c \in Callers, Heard(c)' # Heard(c)
        PROVE  /\ call[c].pc # "idle" /\ Heard(c) = "nothing"
               /\ Heard(c)' = "done" => Service!Messages(c, call[c].n) \intersect executed # {}
               /\ Heard(c)' = "refused" =>
                    \E n \in 1 .. MaxRequests : n = call[c].n /\ Hopeless(c, n)'
    <3>1. call[c].pc # "idle" /\ Heard(c) = "nothing" /\ call'[c].n = call[c].n
      BY <1>3, <2>2
    <3>2. ASSUME Heard(c)' = "done"
          PROVE  Service!Messages(c, call[c].n) \intersect executed # {}
      <4>1. call'[c].pc = "wait" /\ call'[c].item = "ok"
        BY <3>2 DEF Heard
      <4>2. Id(c)' \in executed
        BY <1>3, <4>1 DEF SInv, FInv, CallsInv, TrueOf, UnderWay
      <4>3. Id(c)' = <<c, call[c].n, call'[c].try>>
        BY <3>1 DEF Id
      <4>4. call'[c].try \in {1, 2}
        BY DEF SInv, IInv, Shape
      <4> QED  BY <4>2, <4>3, <4>4 DEF Service!Messages
    <3>3. ASSUME Heard(c)' = "refused"
          PROVE  \E n \in 1 .. MaxRequests : n = call[c].n /\ Hopeless(c, n)'
      BY <1>n, <3>1, <3>3 DEF RefusalsInv
    <3> QED  BY <3>1, <3>2, <3>3
  <2>3. heard' \in [Callers -> Service!Fates]
    BY DEF Heard, Service!Fates
  <2>4. Service!Tell
    <3> HIDE DEF asked, running, heard
    <3>1. \A c \in Callers : /\ asked[c] = call[c].n /\ heard[c] = Heard(c) /\ heard'[c] = Heard(c)'
                             /\ running[c] = (call[c].pc # "idle")
      BY DEF asked, running, heard
    <3>2. \A c \in Callers, n \in 1 .. MaxRequests :
            n = asked[c] /\ Hopeless(c, n)' => <<c, asked[c]>> \in void'
      OBVIOUS
    <3>3. ASSUME NEW c \in Callers, heard'[c] # heard[c]
          PROVE  /\ running[c] /\ heard[c] = "nothing"
                 /\ heard'[c] = "done" => Service!Messages(c, asked[c]) \intersect executed # {}
                 /\ heard'[c] = "refused" => <<c, asked[c]>> \in void'
      <4>1. /\ asked[c] = call[c].n /\ heard[c] = Heard(c) /\ heard'[c] = Heard(c)'
            /\ running[c] = (call[c].pc # "idle")
        BY <3>1
      <4>2. /\ running[c] /\ heard[c] = "nothing"
            /\ heard'[c] = "done" => Service!Messages(c, asked[c]) \intersect executed # {}
        BY <2>2, <3>3, <4>1
      <4>3. heard'[c] = "refused" => <<c, asked[c]>> \in void'
        BY <2>2, <3>2, <3>3, <4>1
      <4> QED  BY <4>2, <4>3
    <3> QED  BY <1>3, <2>1, <2>3, <3>3 DEF Service!Tell, asked, running, heard
  <2> QED  BY <1>1, <2>4 DEF Service!Next
<1>4. CASE UNCHANGED <<call, executed>>
  <2>1. \A c \in Callers :
          /\ call'[c].n = call[c].n /\ (call'[c].pc # "idle") = (call[c].pc # "idle")
          /\ Heard(c)' = Heard(c)
    BY <1>2, <1>4
  <2> QED  BY <1>3, <1>4, <2>1
<1>5. CASE Waking
  <2>1. PICK ids, item : call' = Deliver(ids, item)
    BY <1>5 DEF Waking
  <2>2. \A c \in Callers : /\ call'[c].n = call[c].n /\ call'[c].pc = call[c].pc
                           /\ call[c].item # "none" => call'[c] = call[c]
    BY <1>0, <2>1, Delivered
  <2>3. ASSUME NEW c \in Callers, Heard(c)' # Heard(c)
        PROVE  Heard(c) = "nothing" /\ call[c].pc # "idle"
    <3>1. call[c].item = "none"
      BY <1>2, <2>2, <2>3
    <3>2. Heard(c) = "nothing"
      BY <3>1 DEF Heard
    <3> QED  BY <2>2, <2>3, <3>2 DEF Heard
  <2> QED  BY <1>3, <1>5, <2>2, <2>3 DEF Waking
\* One caller moves on.
<1>6. ASSUME NEW c \in Callers, Moves(c)
      PROVE  \A b \in Callers : b # c => call'[b] = call[b] /\ Heard(b)' = Heard(b)
  BY <1>0, <1>2, <1>6 DEF Moves
<1>7. ASSUME NEW c \in Callers, Moves(c), call'[c].n = call[c].n,
             call[c].pc # "idle", call'[c].pc # "idle", Heard(c) = "nothing"
      PROVE  Service!Next
  <2>1. \A b \in Callers :
          /\ call'[b].n = call[b].n /\ (call'[b].pc # "idle") = (call[b].pc # "idle")
          /\ Heard(b)' # Heard(b) => Heard(b) = "nothing" /\ call[b].pc # "idle"
    BY <1>6, <1>7
  <2> QED  BY <1>3, <1>7, <2>1 DEF Moves
<1>8. ASSUME NEW c \in Callers, Asking(c) PROVE Service!Next
  <2>1. /\ Moves(c) /\ call[c].pc = "idle" /\ call'[c].pc \in {"idle", "hold"}
        /\ call'[c].n = call[c].n + 1
    BY <1>8 DEF Asking
  <2>2. asked' = [asked EXCEPT ![c] = @ + 1]
    <3>1. \A b \in Callers : call'[b].n = IF b = c THEN call[c].n + 1 ELSE call[b].n
      BY <1>6, <2>1
    <3> QED  BY <3>1
  <2>3. \E accepted \in BOOLEAN : running' = [running EXCEPT ![c] = accepted]
    <3> DEFINE accepted == call'[c].pc # "idle"
    <3>1. running' = [running EXCEPT ![c] = accepted]
      BY <1>6, <2>1
    <3>2. accepted \in BOOLEAN
      OBVIOUS
    <3> HIDE DEF accepted
    <3> QED  BY <3>1, <3>2
  <2>4. heard' = heard
    <3>1. Heard(c) = "nothing" /\ Heard(c)' = "nothing"
      BY <2>1 DEF Heard
    <3> QED  BY <1>6, <2>1, <3>1
  <2>5. ~running[c] /\ executed' = executed
    BY <2>1 DEF Moves
  <2>6. Service!Ask(c)
    BY <2>2, <2>3, <2>4, <2>5 DEF Service!Ask
  <2> QED  BY <1>1, <2>6 DEF Service!Next
<1>9. ASSUME NEW c \in Callers, Sending(c) PROVE Service!Next
  BY <1>7, <1>9 DEF Sending, Heard
<1>10. ASSUME NEW c \in Callers, Waiting(c) PROVE Service!Next
  <2>1. /\ Moves(c) /\ call[c].pc = "send" /\ call'[c].pc = "wait" /\ call'[c].n = call[c].n
    BY <1>0, <1>10 DEF Waiting, Shape, CallFields
  <2> QED  BY <1>7, <2>1 DEF Heard
<1>11. ASSUME NEW c \in Callers, Ending(c) PROVE Service!Next
  <2>1. Moves(c) /\ call[c].pc # "idle" /\ call'[c].n = call[c].n
    BY <1>11 DEF Ending, Rests, Second
  <2>2. CASE Second(c) /\ TriedAgain(c)
    BY <1>7, <2>1, <2>2 DEF Second, Heard
  <2>3. CASE Rests(c)
    <3>1. call'[c].pc = "idle" /\ Heard(c)' = "nothing"
      BY <2>3 DEF Rests, Heard
    <3>2. asked' = asked
      BY <1>6, <2>1
    <3>3. running' = [running EXCEPT ![c] = FALSE]
      BY <1>6, <2>1, <3>1
    <3>4. heard' = [heard EXCEPT ![c] = "nothing"]
      BY <1>6, <2>1, <3>1
    <3>5. Service!Return(c)
      BY <2>1, <3>2, <3>3, <3>4 DEF Service!Return, Moves
    <3> QED  BY <1>1, <3>5 DEF Service!Next
  <2> QED  BY <1>11, <2>2, <2>3 DEF Ending
<1>12. ASSUME NEW s \in Sockets, Serve(s) PROVE Service!Next
  <2>1. PICK m \in sock[s].up, answer \in Answers :
          /\ executed' = IF answer = "ok" THEN executed \union {m.id} ELSE executed
          /\ call' = call
    BY <1>0, <1>12, ServeMoves
  <2>2. CASE answer # "ok"
    BY <1>4, <2>1, <2>2
  <2>3. CASE answer = "ok"
    <3>1. GoneOut(m.id) /\ m.id \notin executed
      BY <1>0 DEF WireInv
    <3>2. PICK c \in Callers, n \in 1 .. MaxRequests, k \in {1, 2} : m.id = <<c, n, k>>
      BY <3>1 DEF GoneOut, Ids
    <3>3. n \in 1 .. call[c].n
      <4>1. n <= call[c].n
        BY <1>0, <3>1, <3>2, BoundAssumption DEF GoneOut, Spent
      <4> QED  BY <1>0, <4>1, BoundAssumption
    <3>4. ~Refused(<<c, n, k>>)
      BY <3>2 DEF Refused
    <3>5. <<c, n>> \notin void
      BY <3>4 DEF Hopeless
    <3>6. <<c, n, 1>> \notin executed /\ <<c, n, 2>> \notin executed
      <4>1. Refused(<<c, n, 1>>) \/ Refused(<<c, n, 2>>)
        BY <1>0 DEF OnceInv
      <4> QED  BY <3>1, <3>2, <3>4, <4>1 DEF Refused
    <3>7. asked' = asked /\ running' = running
      BY <2>1
    <3>8. heard' = heard
      BY <1>2, <2>1
    <3>9. Service!CarryOut(c)
      <4>1. n \in 1 .. asked[c]
        BY <3>3
      <4>2. Service!Messages(c, n) \intersect executed = {}
        BY <3>6 DEF Service!Messages
      <4>3. \E message \in Service!Messages(c, n) : executed' = executed \union {message}
        BY <2>1, <2>3, <3>2 DEF Service!Messages
      <4> QED  BY <3>5, <3>7, <3>8, <4>1, <4>2, <4>3 DEF Service!CarryOut
    <3> QED  BY <1>1, <3>9 DEF Service!Next
  <2> QED  BY <2>2, <2>3
<1> QED  BY <1>0, <1>4, <1>5, <1>8, <1>9, <1>10, <1>11, <1>12, Outline DEF Calm

\* Whatever its tasks, the server and the network do, and whichever tasks are
\* cancelled, the client keeps the promise of CommandService to those who call
\* request().
THEOREM ServiceImplemented == Spec => ImplementsService
<1>1. SInv => RefusalsInv
  BY RefusalsHold
<1>2. SInv /\ SInv' /\ RefusalsInv' /\ [Next]_vars => [Service!Next]_(Service!vars)
  BY ServiceStep
<1> QED  BY <1>1, <1>2, InitSInv, NextSInv, ServiceInit, PTL
         DEF Spec, ImplementsService, Service!Spec

\* What CommandService promises of the fate of a command, read in the state of
\* the client: none is carried out twice, and what a caller is told is so.
THEOREM PromiseKept == Spec => []Service!Promise
<1>1. ASSUME SInv PROVE Service!Promise
  <2>0. CallsInv /\ OnceInv /\ RefusalsInv /\ \A c \in Callers : call[c].try \in {1, 2}
    BY <1>1, RefusalsHold DEF SInv, IInv, FInv, Shape
  <2> SUFFICES ASSUME NEW c \in Callers
               PROVE  /\ \A n \in 1 .. call[c].n : ~(Service!Messages(c, n) \subseteq executed)
                      /\ Heard(c) = "done" =>
                           Service!Messages(c, call[c].n) \intersect executed # {}
                      /\ Heard(c) = "refused" =>
                           <<c, call[c].n>> \in
                             {r \in Callers \X (1 .. MaxRequests) : Hopeless(r[1], r[2])}
    BY DEF Service!Promise
  <2>1. ASSUME NEW n \in 1 .. call[c].n PROVE ~(Service!Messages(c, n) \subseteq executed)
    <3>1. call[c].n \in 0 .. MaxRequests
      BY <2>0 DEF CallsInv
    <3>2. n \in 1 .. MaxRequests
      BY <3>1, BoundAssumption
    <3>3. Refused(<<c, n, 1>>) \/ Refused(<<c, n, 2>>)
      BY <2>0, <3>2 DEF OnceInv
    <3> QED  BY <3>3 DEF Refused, Service!Messages
  <2>2. ASSUME Heard(c) = "done"
        PROVE  Service!Messages(c, call[c].n) \intersect executed # {}
    <3>1. call[c].pc = "wait" /\ call[c].item = "ok"
      BY <2>2 DEF Heard
    <3>2. <<c, call[c].n, call[c].try>> \in executed
      BY <2>0, <3>1 DEF CallsInv, UnderWay, TrueOf, Id
    <3> QED  BY <2>0, <3>2 DEF Service!Messages
  <2>3. ASSUME Heard(c) = "refused"
        PROVE  <<c, call[c].n>> \in {r \in Callers \X (1 .. MaxRequests) : Hopeless(r[1], r[2])}
    <3>0. call[c].pc # "idle"
      BY <2>3 DEF Heard
    <3>1. call[c].n \in 0 .. MaxRequests /\ call[c].n # 0
      BY <2>0, <3>0 DEF CallsInv
    <3>2. call[c].n \in 1 .. MaxRequests
      BY <3>1, BoundAssumption
    <3> QED  BY <2>0, <2>3, <3>2 DEF RefusalsInv
  <2> QED  BY <2>1, <2>2, <2>3
<1> QED  BY <1>1, InitSInv, NextSInv, PTL DEF Spec

-----------------------------------------------------------------------------
(* The type of every variable.                                             *)

SelfType == [ws : Sockets \union {NoSocket}, reader : Sockets \union {NoSocket},
             rejection : BOOLEAN, encoding : Encodings]
Commands == [id : Ids, signed : BOOLEAN, encoding : Encodings]
Frames   == [id : Ids, answer : Answers]
SockType == [state : {"gone", "open", "broken", "closing"}, up : SUBSET Commands,
             down : SUBSET Frames, refusal : {"none", "sent", "read"}]
ReaderType == [pc : {"done", "start", "read"}, ws : Sockets \union {NoSocket},
               cancelled : BOOLEAN]
Items == Answers \union {"none", "closed", "refused"}
CallType == [pc : {"idle", "hold", "send", "wait"}, n : 0 .. MaxRequests,
             try : {1, 2}, signed : BOOLEAN, ws : Sockets \union {NoSocket},
             first : Encodings, item : Items]

Parts == /\ self \in SelfType /\ pending \subseteq Ids /\ executed \subseteq Ids
         /\ sock \in [Sockets -> SockType] /\ reader \in [Sockets -> ReaderType]
         /\ call \in [Callers -> CallType]

LEMMA TypeParts ==
  TypeOK <=> /\ Parts /\ setup \in Setups
             /\ main \in {"idle", "left", "open", "grace", "join", "closing"}
BY DEF TypeOK, Parts, SelfType, Commands, Frames, SockType, ReaderType, Items, CallType

LEMMA BeganType ==
  ASSUME NEW d \in CallType, d.n # 0
  PROVE  Begun(d) \in CallType
BY BoundAssumption DEF Begun, CallType, Resting, Items, Encodings

LEMMA RestingTyped == Resting \in CallType
BY BoundAssumption DEF CallType, Resting, Items, Encodings

LEMMA IdTyped ==
  ASSUME Parts, NEW c \in Callers, call[c].n # 0
  PROVE  Id(c) \in Ids
<1>1. call[c].n \in 1 .. MaxRequests /\ call[c].try \in {1, 2}
  BY BoundAssumption DEF Parts, CallType
<1> QED  BY <1>1 DEF Id, Ids

LEMMA DeliverTyped ==
  ASSUME Parts, NEW ids, NEW item \in Items, call' = Deliver(ids, item)
  PROVE  call' \in [Callers -> CallType]
<1>1. ASSUME NEW c \in Callers PROVE [call[c] EXCEPT !.item = item] \in CallType
  BY DEF Parts, CallType
<1>2. \A c \in Callers : call[c] \in CallType
  BY DEF Parts
<1> QED  BY <1>1, <1>2 DEF Deliver

LEMMA SettleTyped ==
  ASSUME Parts, NEW c \in Callers, NEW outcome, Settle(c, outcome), call[c].n # 0
  PROVE  call' \in [Callers -> CallType] /\ self' \in SelfType
<1> DEFINE second == [Resting EXCEPT !.n = call[c].n, !.try = 2, !.signed = call[c].signed,
                                     !.first = self.encoding]
<1>0. /\ call \in [Callers -> CallType] /\ call[c] \in CallType
      /\ self \in SelfType /\ self.encoding \in Encodings /\ call[c].first \in Encodings
      /\ call[c].signed \in BOOLEAN /\ call[c].n \in 0 .. MaxRequests
  BY DEF Parts, CallType, SelfType
<1>1. Gone(c) \in CallType
  BY <1>0 DEF Gone, Resting, CallType, Items, Encodings
<1>2. second \in CallType /\ second.n # 0
  BY <1>0 DEF Resting, CallType, Items, Encodings
<1>3. Begun(second) \in CallType
  BY <1>2, BeganType
<1>4. Other(self.encoding) \in Encodings
  BY DEF Other, Encodings
<1>5. /\ call' = [call EXCEPT ![c] = Begun(second)] \/ call' = [call EXCEPT ![c] = Gone(c)]
      /\ \/ self' = self
         \/ self' = [self EXCEPT !.encoding = IF self.rejection THEN @ ELSE Other(@)]
         \/ self' = [self EXCEPT !.encoding = call[c].first]
  BY DEF Settle
<1> HIDE DEF second
<1>6. call' \in [Callers -> CallType]
  BY <1>0, <1>1, <1>3, <1>5
<1>7. self' \in SelfType
  BY <1>0, <1>4, <1>5 DEF SelfType
<1> QED  BY <1>6, <1>7

LEMMA CallersTyped ==
  ASSUME Parts, SInv, NEW c \in Callers, CallerStep(c)
  PROVE  Parts'
<1>0. /\ Parts /\ call[c] \in CallType /\ self \in SelfType
      /\ call[c].pc # "idle" => call[c].n # 0
  BY DEF SInv, FInv, CallsInv, Parts
<1>1. CASE Request(c)
  <2>1. PICK signed \in Kinds :
          call' = [call EXCEPT ![c] =
                     Begun([Resting EXCEPT !.n = call[c].n + 1, !.signed = signed])]
    BY <1>1 DEF Request
  <2> DEFINE d == [Resting EXCEPT !.n = call[c].n + 1, !.signed = signed]
  <2>2. call[c].n + 1 \in 0 .. MaxRequests /\ call[c].n + 1 # 0 /\ signed \in BOOLEAN
    BY <1>0, <1>1, BoundAssumption, KindsAssumption DEF Request, CallType
  <2>3. d \in CallType /\ d.n # 0
    BY <2>2 DEF Resting, CallType, Items, Encodings
  <2>4. Begun(d) \in CallType
    BY <2>3, BeganType
  <2>5. call' \in [Callers -> CallType]
    <3> HIDE DEF d
    <3>1. call' = [call EXCEPT ![c] = Begun(d)]
      BY <2>1 DEF d
    <3> QED  BY <1>0, <2>4, <3>1 DEF Parts
  <2> QED  BY <1>0, <1>1, <2>5 DEF Request, Parts
<1>2. CASE Send(c)
  <2>1. self.ws \in Sockets
    BY <1>0, <1>2 DEF Send, Writable, SelfType
  <2>2. call[c].n # 0 /\ Id(c) \in Ids
    BY <1>0, <1>2, IdTyped DEF Send
  <2>3. call' \in [Callers -> CallType]
    <3>1. [call[c] EXCEPT !.pc = "send", !.ws = self.ws] \in CallType
      BY <1>0, <2>1 DEF CallType
    <3>2. call' = [call EXCEPT ![c] = [call[c] EXCEPT !.pc = "send", !.ws = self.ws]]
      BY <1>0, <1>2 DEF Send, Parts, CallType
    <3> QED  BY <1>0, <3>1, <3>2 DEF Parts
  <2>4. sock' \in [Sockets -> SockType]
    <3> DEFINE m == [id |-> Id(c), signed |-> call[c].signed, encoding |-> self.encoding]
    <3>1. m \in Commands
      BY <1>0, <2>2 DEF Commands, CallType, SelfType
    <3>2. sock' = [sock EXCEPT ![self.ws].up = IF sock[self.ws].state = "open"
                                              THEN @ \union {m} ELSE @]
      BY <1>2 DEF Send
    <3> HIDE DEF m
    <3> QED  BY <1>0, <2>1, <3>1, <3>2 DEF Parts, SockType
  <2> QED  BY <1>0, <1>2, <2>2, <2>3, <2>4 DEF Send, Parts
<1>3. CASE SendRefused(c) \/ SendFails(c) \/ Take(c) \/ TimeOut(c)
  <2>1. /\ UNCHANGED <<sock, reader, executed>> /\ call[c].pc # "idle"
        /\ pending' \subseteq pending /\ \E outcome : Settle(c, outcome)
    BY <1>3 DEF SendRefused, SendFails, Take, TimeOut, Forgotten
  <2> QED  BY <1>0, <2>1, SettleTyped DEF Parts
<1>4. CASE Sent(c)
  <2>1. call' = [call EXCEPT ![c].pc = "wait"]
    BY <1>4 DEF Sent
  <2>2. call' \in [Callers -> CallType]
    BY <1>0, <2>1 DEF Parts, CallType
  <2> QED  BY <1>0, <1>4, <2>2 DEF Sent, Parts
<1>5. CASE Cancel(c)
  <2>1. Gone(c) \in CallType
    BY <1>0 DEF Gone, Resting, CallType, Items, Encodings
  <2>2. call' \in [Callers -> CallType]
    BY <1>0, <1>5, <2>1 DEF Cancel, Parts
  <2> QED  BY <1>0, <1>5, <2>2 DEF Cancel, Parts, Forgotten
<1> QED  BY <1>1, <1>2, <1>3, <1>4, <1>5 DEF CallerStep

LEMMA FailTyped ==
  ASSUME Parts, NEW error \in {"closed", "refused"}, FailPending(error)
  PROVE  call' \in [Callers -> CallType] /\ pending' \subseteq Ids
BY DeliverTyped DEF FailPending, Items

LEMMA ReadersTyped ==
  ASSUME Parts, SInv, NEW s \in Sockets, ReaderStep(s)
  PROVE  Parts'
<1>0. Parts /\ self \in SelfType /\ reader[s] \in ReaderType /\ sock[s] \in SockType
  BY DEF Parts
<1>1. CASE ReaderStart(s)
  <2>1. reader' \in [Sockets -> ReaderType]
    BY <1>0, <1>1 DEF ReaderStart, Parts, ReaderType, NoReader, SelfType
  <2> QED  BY <1>0, <1>1, <2>1 DEF ReaderStart, Parts
<1>2. CASE ReadAnswer(s)
  <2>1. reader[s].ws = s
    BY <1>2, ReadsOn DEF SInv, IInv, ReadAnswer, Reading
  <2>2. PICK frame \in sock[s].down :
          /\ sock' = [sock EXCEPT ![s].down = @ \ {frame}]
          /\ call' = Deliver(AnswerRoute(frame.id), frame.answer)
    BY <1>2, <2>1 DEF ReadAnswer
  <2>3. frame.answer \in Items
    BY <1>0, <2>2 DEF SockType, Frames, Items
  <2>4. sock' \in [Sockets -> SockType]
    BY <1>0, <2>2 DEF Parts, SockType
  <2>5. call' \in [Callers -> CallType]
    BY <1>0, <2>2, <2>3, DeliverTyped
  <2> QED  BY <1>0, <1>2, <2>4, <2>5 DEF ReadAnswer, Parts
<1>3. CASE ReadRefusal(s)
  <2>1. reader[s].ws = s
    BY <1>3, ReadsOn DEF SInv, IInv, ReadRefusal, Reading
  <2>2. sock' = [sock EXCEPT ![s].refusal = "read"] /\ self' = [self EXCEPT !.rejection = TRUE]
        /\ FailPending("refused")
    BY <1>3, <2>1 DEF ReadRefusal
  <2>3. sock' \in [Sockets -> SockType]
    BY <1>0, <2>2 DEF Parts, SockType
  <2>4. self' \in SelfType
    BY <1>0, <2>2 DEF SelfType
  <2> QED  BY <1>0, <1>3, <2>2, <2>3, <2>4, FailTyped DEF ReadRefusal, Parts
<1>4. CASE ReaderEnds(s)
  <2>1. NoReader \in ReaderType
    BY DEF NoReader, ReaderType
  <2> QED  BY <1>0, <1>4, <2>1, FailTyped DEF ReaderEnds, ReaderWakes, Parts
<1> QED  BY <1>1, <1>2, <1>3, <1>4 DEF ReaderStep

LEMMA ServerTyped ==
  ASSUME Parts, NEW s \in Sockets, ServerStep(s)
  PROVE  Parts'
<1>0. Parts /\ sock[s] \in SockType
  BY DEF Parts
<1>1. CASE Serve(s)
  <2>1. PICK m \in sock[s].up, answer \in Answers :
          /\ executed' = IF answer = "ok" THEN executed \union {m.id} ELSE executed
          /\ sock' = [sock EXCEPT
               ![s].up = @ \ {m},
               ![s].down = IF sock[s].state = "open"
                           THEN @ \union {[id |-> m.id, answer |-> answer]} ELSE @]
    BY <1>1 DEF Serve
  <2>2. m.id \in Ids /\ [id |-> m.id, answer |-> answer] \in Frames
    BY <1>0, <2>1 DEF SockType, Commands, Frames
  <2>3. sock' \in [Sockets -> SockType]
    BY <1>0, <2>1, <2>2 DEF Parts, SockType
  <2> QED  BY <1>0, <1>1, <2>1, <2>2, <2>3 DEF Serve, Parts
<1>2. CASE ServerRefuses(s)
  <2>1. sock' \in [Sockets -> SockType]
    BY <1>0, <1>2 DEF ServerRefuses, Parts, SockType
  <2> QED  BY <1>0, <1>2, <2>1 DEF ServerRefuses, Parts
<1>3. CASE Break(s)
  <2>1. sock' \in [Sockets -> SockType]
    BY <1>0, <1>3 DEF Break, Over, Absent, Parts, SockType
  <2> QED  BY <1>0, <1>3, <2>1 DEF Break, Parts
<1> QED  BY <1>1, <1>2, <1>3 DEF ServerStep

LEMMA MainTyped ==
  ASSUME Parts, MainStep
  PROVE  Parts' /\ main' \in {"idle", "left", "open", "grace", "join", "closing"}
<1>0. Parts /\ self \in SelfType
  BY DEF Parts
<1>1. CASE OpenFails \/ Grace \/ CancelMain
  BY <1>0, <1>1 DEF OpenFails, Grace, CancelMain, Parts
<1>2. CASE Connect
  BY <1>0, <1>2 DEF Connect, Parts, SelfType
<1>3. CASE Open
  <2>1. PICK s \in FreeSockets :
          /\ self' = [self EXCEPT !.ws = s, !.reader = s]
          /\ sock' = [sock EXCEPT ![s] = [Absent EXCEPT !.state = "open"]]
          /\ reader' = [reader EXCEPT ![s] = [NoReader EXCEPT !.pc = "start"]]
    BY <1>3 DEF Open
  <2>2. s \in Sockets
    BY DEF FreeSockets
  <2>3. [Absent EXCEPT !.state = "open"] \in SockType
    BY DEF Absent, SockType
  <2>4. [NoReader EXCEPT !.pc = "start"] \in ReaderType
    BY DEF NoReader, ReaderType
  <2>5. self' \in SelfType
    BY <1>0, <2>1, <2>2 DEF SelfType
  <2> QED  BY <1>0, <1>3, <2>1, <2>2, <2>3, <2>4, <2>5 DEF Open, Parts
<1>4. CASE Close
  <2>1. self.reader \in Sockets
    BY <1>0, <1>4 DEF Close, SelfType
  <2>2. reader' \in [Sockets -> ReaderType]
    BY <1>0, <1>4, <2>1 DEF Close, Cancelled, Parts, ReaderType
  <2>3. self' \in SelfType
    BY <1>0, <1>4 DEF Close, SelfType
  <2> QED  BY <1>0, <1>4, <2>2, <2>3 DEF Close, Parts
<1>5. CASE CloseSocket
  <2>1. sock' \in [Sockets -> SockType]
    BY <1>0, <1>5 DEF CloseSocket, Parts, SockType, SelfType
  <2>2. self' \in SelfType
    BY <1>0, <1>5 DEF CloseSocket, SelfType
  <2> QED  BY <1>0, <1>5, <2>1, <2>2 DEF CloseSocket, Parts
<1>6. CASE CloseEnds
  <2>1. \A s \in Sockets : Over(sock[s]) \in SockType
    BY <1>0 DEF Over, Absent, Parts, SockType
  <2>2. sock' \in [Sockets -> SockType]
    BY <1>0, <1>6, <2>1 DEF CloseEnds, Parts
  <2> QED  BY <1>0, <1>6, <2>2, FailTyped DEF CloseEnds, CloseWakes, Parts
<1> QED  BY <1>1, <1>2, <1>3, <1>4, <1>5, <1>6 DEF MainStep, CloseStep

LEMMA InitTyped == Init => TypeOK
<1> SUFFICES ASSUME Init PROVE TypeOK
  OBVIOUS
<1>1. setup.mode \in {"auto"} \union Encodings
  BY SetupsAssumption DEF Init, SetupType
<1>2. self \in SelfType
  BY <1>1 DEF Init, SelfType, Encodings
<1>3. Absent \in SockType /\ NoReader \in ReaderType
  BY DEF Absent, SockType, NoReader, ReaderType
<1>4. Parts
  BY <1>2, <1>3, RestingTyped DEF Init, Parts
<1> QED  BY <1>4, TypeParts DEF Init

\* Every variable keeps to its type.
THEOREM TypeCorrect == Spec => []TypeOK
<1>1. TypeOK /\ SInv /\ [Next]_vars => TypeOK'
  <2> SUFFICES ASSUME TypeOK, SInv, [Next]_vars PROVE TypeOK'
    OBVIOUS
  <2>0. /\ Parts /\ setup \in Setups /\ setup' = setup
        /\ main \in {"idle", "left", "open", "grace", "join", "closing"}
    BY TypeParts, SetupStays
  <2>1. Parts' /\ main' \in {"idle", "left", "open", "grace", "join", "closing"}
    <3>1. CASE MainStep
      BY <2>0, <3>1, MainTyped
    <3>2. ASSUME NEW s \in Sockets, ReaderStep(s) \/ ServerStep(s)
          PROVE  Parts' /\ main' \in {"idle", "left", "open", "grace", "join", "closing"}
      <4>1. main' = main
        BY <3>2 DEF ReaderStep, ReaderStart, ReadAnswer, ReadRefusal, ReaderEnds,
                    ServerStep, Serve, ServerRefuses, Break
      <4> QED  BY <2>0, <3>2, <4>1, ReadersTyped, ServerTyped
    <3>3. ASSUME NEW c \in Callers, CallerStep(c)
          PROVE  Parts' /\ main' \in {"idle", "left", "open", "grace", "join", "closing"}
      <4>1. main' = main
        BY <3>3 DEF CallerStep, Request, Send, SendRefused, Sent, SendFails, Take, TimeOut, Cancel
      <4> QED  BY <2>0, <3>3, <4>1, CallersTyped
    <3>4. CASE UNCHANGED vars
      BY <2>0, <3>4 DEF vars, Parts
    <3> QED  BY <3>1, <3>2, <3>3, <3>4 DEF Next
  <2>2. setup' \in Setups
    BY <2>0
  <2>3. TypeOK' <=> /\ Parts' /\ setup' \in Setups
                    /\ main' \in {"idle", "left", "open", "grace", "join", "closing"}
    BY DEF TypeOK, Parts, SelfType, Commands, Frames, SockType, ReaderType, Items, CallType
  <2> QED  BY <2>1, <2>2, <2>3
<1> QED  BY <1>1, InitTyped, InitSInv, NextSInv, PTL DEF Spec
=============================================================================

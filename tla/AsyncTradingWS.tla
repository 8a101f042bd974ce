--------------------------- MODULE AsyncTradingWS ---------------------------
(***************************************************************************)
(* transport/trading_ws.py, the AsyncTradingWSClient (233-550).  All tasks *)
(* run on one thread, so an action is what a task does from one await that *)
(* suspends to the next, and a task may be cancelled at any such await.    *)
(*   main       calls connect() and close(), one after the other;          *)
(*   call[c]    runs request(), with its second try in "auto" mode;        *)
(*   reader[s]  is the _read_loop task created for the socket s.           *)
(*                                                                         *)
(* The server, the ids and the encodings are those of TradingWSClient.     *)
(* The hold for the rate limit may suspend a command any time before it    *)
(* is registered.  The pings, on_event and subscribe() are left out.       *)
(***************************************************************************)
EXTENDS Naturals, FiniteSets

CONSTANTS
  Callers,      \* the tasks that call request()
  Sockets,      \* bound on the connections somebody still refers to
  NoSocket,     \* None
  MaxRequests,  \* bound on the requests of one caller
  Setups,       \* what a session starts from: see the type SetupType
  Kinds         \* the commands to consider: TRUE for one that is signed

Encodings == {"base64", "hex"}

\* The signature_encoding argument, whether there is a private key, and the
\* encoding of a signature that the server accepts.
SetupType == [mode : {"auto"} \union Encodings, key : BOOLEAN,
              accepts : Encodings \union {"neither"}]

ASSUME SocketsAssumption == NoSocket \notin Sockets
ASSUME BoundAssumption   == MaxRequests \in Nat \ {0}
ASSUME SetupsAssumption  == Setups \subseteq SetupType
ASSUME KindsAssumption   == Kinds \subseteq BOOLEAN

VARIABLES
  setup,     \* what does not change: mode, private key, what the server accepts
  self,      \* the attributes of the client
  pending,   \* self._pending: the ids whose frames have a queue
  sock,      \* per connection: state, commands under way, frames to read
  main,      \* where the task that connects and closes is suspended
  reader,    \* per reader task: pc, the connection it reads, cancellation asked for
  call,      \* per caller: pc and the locals of request()
  executed   \* the commands the server carried out

vars == <<setup, self, pending, sock, main, reader, call, executed>>

Other(encoding) == IF encoding = "base64" THEN "hex" ELSE "base64"
Ids == Callers \X (1 .. MaxRequests) \X {1, 2}
Answers == {"ok", "denied", "signature"}
\* The outcomes that are a TradingWSError.
ServerErrors == {"denied", "signature", "refused"}

Absent   == [state |-> "gone", up |-> {}, down |-> {}, refusal |-> "none"]
NoReader == [pc |-> "done", ws |-> NoSocket, cancelled |-> FALSE]
Resting  == [pc |-> "idle", n |-> 0, try |-> 1, signed |-> FALSE, ws |-> NoSocket,
             first |-> "base64", item |-> "none"]

Init ==
  /\ setup \in Setups
  /\ self = [ws |-> NoSocket, reader |-> NoSocket, rejection |-> FALSE,
             encoding |-> IF setup.mode = "auto" THEN "base64" ELSE setup.mode]
  /\ pending = {}
  /\ sock = [s \in Sockets |-> Absent]
  /\ main = "idle"
  /\ reader = [s \in Sockets |-> NoReader]
  /\ call = [c \in Callers |-> Resting]
  /\ executed = {}

-----------------------------------------------------------------------------
Id(c) == <<c, call[c].n, call[c].try>>

\* Put an item into the queue of each of these commands.
Deliver(ids, item) ==
  [c \in Callers |-> IF Id(c) \in ids /\ call[c].item = "none"
                     THEN [call[c] EXCEPT !.item = item] ELSE call[c]]

\* _fail_pending: every waiter is woken and the table is emptied.
FailPending(error) ==
  /\ call' = Deliver(pending, error)
  /\ pending' = {}

\* A connection nobody refers to any more may stand for the next one.
FreeSockets ==
  {s \in Sockets : sock[s] = Absent /\ \A c \in Callers : call[c].ws # s}

\* A task that was cancelled runs before any handshake is over.
Settled == \A s \in Sockets : ~reader[s].cancelled

\* A connection that is over: what was not read is lost, what is on its way
\* to the server may arrive.
Over(connection) == [Absent EXCEPT !.up = connection.up]

-----------------------------------------------------------------------------
(* connect() and close(): "left" is a task whose last call raised or was   *)
(* cancelled, "idle" one whose last call ran to its end.                   *)

\* The token has come and the handshake is awaited; self._ws is still None.
Connect ==
  /\ main \in {"idle", "left"}
  /\ self.ws = NoSocket
  /\ self' = [self EXCEPT !.rejection = FALSE]
  /\ main' = "open"
  /\ UNCHANGED <<setup, pending, sock, reader, call, executed>>

\* The handshake raises, or connect() is cancelled.
OpenFails ==
  /\ main = "open"
  /\ main' = "left"
  /\ UNCHANGED <<setup, self, pending, sock, reader, call, executed>>

Open ==
  /\ main = "open"
  /\ Settled
  /\ \E s \in FreeSockets :
       /\ self' = [self EXCEPT !.ws = s, !.reader = s]
       /\ sock' = [sock EXCEPT ![s] = [Absent EXCEPT !.state = "open"]]
       /\ reader' = [reader EXCEPT ![s] = [NoReader EXCEPT !.pc = "start"]]
  /\ main' = "grace"
  /\ UNCHANGED <<setup, pending, call, executed>>

\* The grace period passed without a refusal.
Grace ==
  /\ main = "grace"
  /\ ~self.rejection
  /\ main' = "idle"
  /\ UNCHANGED <<setup, self, pending, sock, reader, call, executed>>

Cancelled(s) == [reader EXCEPT ![s].cancelled = reader[s].pc # "done"]

\* close(), also from connect() when the server refused: the reader is taken
\* and cancelled, and its end is awaited.
Close ==
  /\ main \in {"idle", "left"} \/ (main = "grace" /\ self.rejection)
  /\ self.reader # NoSocket
  /\ reader' = Cancelled(self.reader)
  /\ self' = [self EXCEPT !.reader = NoSocket]
  /\ main' = "join"
  /\ UNCHANGED <<setup, pending, sock, call, executed>>

\* The connection is taken, and its closing handshake is awaited.
CloseSocket ==
  /\ \/ main \in {"idle", "left"} /\ self.reader = NoSocket
     \/ main = "join" /\ reader[self.ws].pc = "done"   \* the reader of this connection
  /\ self.ws # NoSocket
  /\ sock' = [sock EXCEPT ![self.ws].state = "closing"]
  /\ self' = [self EXCEPT !.ws = NoSocket]
  /\ main' = "closing"
  /\ UNCHANGED <<setup, pending, reader, call, executed>>

\* Mutant: the waiters are left to the reader to wake.
LeftToReader == UNCHANGED <<call, pending>>

CloseWakes == FailPending("closed")

\* Nothing to close, or the handshake is over.
CloseEnds ==
  /\ \/ main \in {"idle", "left"} /\ self.reader = NoSocket /\ self.ws = NoSocket
     \/ main = "closing" /\ Settled
  /\ CloseWakes
  /\ sock' = [s \in Sockets |-> IF sock[s].state = "closing" THEN Over(sock[s]) ELSE sock[s]]
  /\ main' = "idle"
  /\ UNCHANGED <<setup, self, reader, executed>>

\* connect() or close() is cancelled; the rest of it does not run.
CancelMain ==
  /\ main \in {"grace", "join", "closing"}
  /\ main' = "left"
  /\ UNCHANGED <<setup, self, pending, sock, reader, call, executed>>

-----------------------------------------------------------------------------
(* _read_loop                                                              *)

\* A task cancelled before its first step never enters its try.
ReaderStart(s) ==
  /\ reader[s].pc = "start"
  /\ reader' = [reader EXCEPT ![s] = IF reader[s].cancelled THEN NoReader
                                     ELSE [@ EXCEPT !.pc = "read", !.ws = self.ws]]
  /\ UNCHANGED <<setup, self, pending, sock, main, call, executed>>

\* "async for" over None raises.
Reading(s) == reader[s].pc = "read" /\ ~reader[s].cancelled /\ reader[s].ws # NoSocket

\* Mutant: a frame is for whoever sent last, not for its id.
ForAnybody(id) == IF id \in pending THEN {id} ELSE pending

AnswerRoute(id) == {id} \intersect pending

ReadAnswer(s) ==
  /\ Reading(s)
  /\ \E frame \in sock[reader[s].ws].down :
       /\ sock' = [sock EXCEPT ![reader[s].ws].down = @ \ {frame}]
       /\ call' = Deliver(AnswerRoute(frame.id), frame.answer)
  /\ UNCHANGED <<setup, self, pending, main, reader, executed>>

ReadRefusal(s) ==
  /\ Reading(s)
  /\ sock[reader[s].ws].refusal = "sent"
  /\ sock' = [sock EXCEPT ![reader[s].ws].refusal = "read"]
  /\ self' = [self EXCEPT !.rejection = TRUE]
  /\ FailPending("refused")
  /\ UNCHANGED <<setup, main, reader, executed>>

ReaderWakes == FailPending("closed")

\* The loop ends with its connection, or at a cancelled await; the finally
\* wakes the waiters in the same step.
ReaderEnds(s) ==
  /\ reader[s].pc = "read"
  /\ Reading(s) => sock[reader[s].ws].state = "gone"
  /\ ReaderWakes
  /\ reader' = [reader EXCEPT ![s] = NoReader]
  /\ UNCHANGED <<setup, self, sock, main, executed>>

-----------------------------------------------------------------------------
(* request()                                                               *)

OtherEncoding(c, outcome) ==
  setup.mode = "auto" /\ call[c].signed /\ outcome = "signature"

\* The first lines of request_stream, which do not suspend.
Admitted == ~self.rejection /\ self.ws # NoSocket
Begun(d) == IF Admitted THEN [d EXCEPT !.pc = "hold"] ELSE [Resting EXCEPT !.n = d.n]

Gone(c) == [Resting EXCEPT !.n = call[c].n]

\* A try ends.  A refused signature flips the encoding and begins the second
\* try in the same step (which ends at once, and restores the encoding, when
\* the server has refused the connection); a TradingWSError of the second try
\* restores it; a WebSocketError does not.
Settle(c, outcome) ==
  LET second == [Resting EXCEPT !.n = call[c].n, !.try = 2, !.signed = call[c].signed,
                                !.first = self.encoding]
  IN CASE call[c].try = 1 /\ OtherEncoding(c, outcome) ->
            /\ call' = [call EXCEPT ![c] = Begun(second)]
            /\ self' = [self EXCEPT !.encoding =
                          IF self.rejection THEN @ ELSE Other(@)]
       [] call[c].try = 2 /\ outcome \in ServerErrors ->
            /\ call' = [call EXCEPT ![c] = Gone(c)]
            /\ self' = [self EXCEPT !.encoding = call[c].first]
       [] OTHER ->
            /\ call' = [call EXCEPT ![c] = Gone(c)]
            /\ UNCHANGED self

Request(c) ==
  /\ call[c].pc = "idle"
  /\ call[c].n < MaxRequests
  /\ \E signed \in Kinds :
       call' = [call EXCEPT ![c] = Begun([Resting EXCEPT !.n = call[c].n + 1, !.signed = signed])]
  /\ UNCHANGED <<setup, self, pending, sock, main, reader, executed>>

Writable(s) == s # NoSocket /\ sock[s].state \in {"open", "broken"}
CanSign(c)  == call[c].signed => setup.key

\* The command is signed, its queue registered and its bytes handed over (a
\* broken connection takes them too), and send() may wait for the buffer.
Send(c) ==
  /\ call[c].pc = "hold"
  /\ CanSign(c) /\ Writable(self.ws)
  /\ pending' = pending \union {Id(c)}
  /\ sock' = [sock EXCEPT ![self.ws].up =
       IF sock[self.ws].state = "open"
       THEN @ \union {[id |-> Id(c), signed |-> call[c].signed, encoding |-> self.encoding]}
       ELSE @]
  /\ call' = [call EXCEPT ![c].pc = "send", ![c].ws = self.ws]
  /\ UNCHANGED <<setup, self, main, reader, executed>>

\* There is no key, or send() raises at once (also because self._ws is None).
SendRefused(c) ==
  /\ call[c].pc = "hold"
  /\ ~CanSign(c) \/ ~Writable(self.ws)
  /\ Settle(c, "unsent")
  /\ UNCHANGED <<setup, pending, sock, main, reader, executed>>

Sent(c) ==
  /\ call[c].pc = "send"
  /\ Writable(call[c].ws)
  /\ call' = [call EXCEPT ![c].pc = "wait"]
  /\ UNCHANGED <<setup, self, pending, sock, main, reader, executed>>

SendFails(c) ==
  /\ call[c].pc = "send"
  /\ ~Writable(call[c].ws)
  /\ pending' = pending \ {Id(c)}
  /\ Settle(c, "unsent")
  /\ UNCHANGED <<setup, sock, main, reader, executed>>

\* stream() forgets the queue when its body ends, however it ends.
Forgotten(c) == pending' = pending \ {Id(c)}

Take(c) ==
  /\ call[c].pc = "wait"
  /\ call[c].item # "none"
  /\ Settle(c, call[c].item)
  /\ Forgotten(c)
  /\ UNCHANGED <<setup, sock, main, reader, executed>>

TimeOut(c) ==
  /\ call[c].pc = "wait"
  /\ call[c].item = "none"
  /\ Settle(c, "timeout")
  /\ Forgotten(c)
  /\ UNCHANGED <<setup, sock, main, reader, executed>>

\* A cancelled request(): the body of stream() is left, but a send() that is
\* cancelled has not entered it, and "except Exception" does not see it.
Cancel(c) ==
  /\ call[c].pc \in {"hold", "send", "wait"}
  /\ IF call[c].pc = "wait" THEN Forgotten(c) ELSE UNCHANGED pending
  /\ call' = [call EXCEPT ![c] = Gone(c)]
  /\ UNCHANGED <<setup, self, sock, main, reader, executed>>

-----------------------------------------------------------------------------
(* The server and the network                                              *)

SignatureRight(command) == ~command.signed \/ command.encoding = setup.accepts

\* A command that is lost on a broken connection changes as little as one
\* that is refused there.
Serve(s) ==
  /\ \E command \in sock[s].up, answer \in Answers :
       /\ (answer = "signature") <=> ~SignatureRight(command)
       /\ executed' = IF answer = "ok" THEN executed \union {command.id} ELSE executed
       /\ sock' = [sock EXCEPT
            ![s].up = @ \ {command},
            ![s].down = IF sock[s].state = "open"
                        THEN @ \union {[id |-> command.id, answer |-> answer]} ELSE @]
  /\ UNCHANGED <<setup, self, pending, main, reader, call>>

ServerRefuses(s) ==
  /\ sock[s].state = "open" /\ sock[s].refusal = "none"
  /\ sock' = [sock EXCEPT ![s].refusal = "sent"]
  /\ UNCHANGED <<setup, self, pending, main, reader, call, executed>>

\* The connection breaks, and later the library notices; a closing handshake
\* that nobody awaits any more comes to its end.
Break(s) ==
  /\ sock[s].state \in {"open", "broken", "closing"}
  /\ sock' = [sock EXCEPT ![s] = IF sock[s].state = "open" THEN [@ EXCEPT !.state = "broken"]
                                 ELSE Over(@)]
  /\ UNCHANGED <<setup, self, pending, main, reader, call, executed>>

-----------------------------------------------------------------------------
CloseStep     == Close \/ CloseSocket \/ CloseEnds
MainStep      == Connect \/ OpenFails \/ Open \/ Grace \/ CloseStep \/ CancelMain
ReaderStep(s) == ReaderStart(s) \/ ReadAnswer(s) \/ ReadRefusal(s) \/ ReaderEnds(s)
CallerStep(c) == \/ Request(c) \/ Send(c) \/ SendRefused(c) \/ Sent(c) \/ SendFails(c)
                 \/ Take(c) \/ TimeOut(c) \/ Cancel(c)
ServerStep(s) == Serve(s) \/ ServerRefuses(s) \/ Break(s)

Next == \/ MainStep
        \/ \E s \in Sockets : ReaderStep(s) \/ ServerStep(s)
        \/ \E c \in Callers : CallerStep(c)

Spec == Init /\ [][Next]_vars

-----------------------------------------------------------------------------
(* Properties                                                              *)

\* The type of every variable.
TypeOK ==
  /\ setup \in Setups
  /\ self \in [ws : Sockets \union {NoSocket}, reader : Sockets \union {NoSocket},
               rejection : BOOLEAN, encoding : Encodings]
  /\ pending \subseteq Ids
  /\ sock \in [Sockets -> [state : {"gone", "open", "broken", "closing"},
                           up : SUBSET [id : Ids, signed : BOOLEAN, encoding : Encodings],
                           down : SUBSET [id : Ids, answer : Answers],
                           refusal : {"none", "sent", "read"}]]
  /\ main \in {"idle", "left", "open", "grace", "join", "closing"}
  /\ reader \in [Sockets -> [pc : {"done", "start", "read"}, ws : Sockets \union {NoSocket},
                             cancelled : BOOLEAN]]
  /\ call \in [Callers -> [pc : {"idle", "hold", "send", "wait"}, n : 0 .. MaxRequests,
                           try : {1, 2}, signed : BOOLEAN, ws : Sockets \union {NoSocket},
                           first : Encodings, item : Answers \union {"none", "closed", "refused"}]]
  /\ executed \subseteq Ids

\* What a caller is told is true of its own command: "ok" means that this
\* command was carried out; "closed" that its connection is no longer open,
\* or that close() took its reader away; "refused" that the server refused
\* it, or that the connection is no longer open.
ToldTheTruth ==
  \A c \in Callers : call[c].pc = "wait" =>
    /\ call[c].item = "ok"      => Id(c) \in executed
    /\ call[c].item = "closed"  => sock[call[c].ws].state # "open" \/ self.reader # call[c].ws
    /\ call[c].item = "refused" => sock[call[c].ws].refusal = "read" \/ sock[call[c].ws].state # "open"

\* Nobody waits without having been told when there is nobody left to tell:
\* neither on a connection whose reader has ended, while that reader is still
\* the client's, nor after a close() that ran to its end, which also leaves no
\* queue in the table.
NobodyForgotten ==
  LET untold == {c \in Callers : call[c].pc = "wait" /\ call[c].item = "none"}
  IN  /\ self.reader # NoSocket /\ self.reader = self.ws /\ reader[self.ws].pc = "done"
           => \A c \in untold : call[c].ws # self.ws
      /\ main = "idle" /\ self.ws = NoSocket => pending = {} /\ untold = {}

-----------------------------------------------------------------------------
(* What request() promises its callers: CommandService.                    *)

\* A refused signature that another try in the other encoding may follow.
TriedAgain(c) == call[c].try = 1 /\ OtherEncoding(c, call[c].item)

\* What a caller that waits will be told, once it is in its queue.
Heard(c) ==
  IF call[c].pc # "wait" \/ call[c].item = "none" \/ TriedAgain(c) THEN "nothing"
  ELSE IF call[c].item = "ok" THEN "done"
  ELSE IF call[c].item \in {"denied", "signature"} THEN "refused"
  ELSE "unknown"

\* No message of its command is to be sent any more.
Ended(c) == \/ call[c].pc = "idle"
            \/ call[c].pc = "wait" /\ call[c].item # "none" /\ ~TriedAgain(c)

\* The server has not carried out this message and never will: it is not on
\* its way any more.
Refused(id) == id \notin executed /\ \A s \in Sockets : \A m \in sock[s].up : m.id # id

\* No message of this command is under way, nor will be.
Hopeless(c, n) ==
  /\ n <= call[c].n
  /\ n = call[c].n => Ended(c)
  /\ Refused(<<c, n, 1>>) /\ Refused(<<c, n, 2>>)

Service == INSTANCE CommandService WITH
  asked   <- [c \in Callers |-> call[c].n],
  running <- [c \in Callers |-> call[c].pc # "idle"],
  heard   <- [c \in Callers |-> Heard(c)],
  void    <- {r \in Callers \X (1 .. MaxRequests) : Hopeless(r[1], r[2])}

\* Seen by its callers, the client is CommandService, whichever tasks are
\* cancelled.
ImplementsService == Service!Spec
=============================================================================

-------------------------- MODULE TradingWSClient --------------------------
(***************************************************************************)
(* transport/trading_ws.py, the thread-based TradingWSClient.              *)
(*   main       calls connect() and close();                               *)
(*   call[c]    runs request(): one command, and in "auto" mode a second   *)
(*              try in the other signature encoding;                       *)
(*   reader[s]  is the _read_loop thread that connect() started for the    *)
(*              socket s.                                                  *)
(* One action is one block of lines between two accesses to the client     *)
(* object that another thread can tell apart; what runs under self._lock   *)
(* is one action.                                                          *)
(*                                                                         *)
(* The id of a command is the caller, its request and the try.  The server *)
(* accepts one signature encoding, or none when the key is not the         *)
(* registered one, answers commands in any order, may refuse a command for *)
(* a business reason, refuses the whole connection after the upgrade, and  *)
(* a broken socket loses what is in flight.  One thread connects and       *)
(* closes, and its join of the reader does not time out.  The keep-alive   *)
(* pings and the rate-limit hold are left out: they only delay a caller.   *)
(***************************************************************************)
EXTENDS Naturals, FiniteSets

CONSTANTS
  Callers,       \* the threads that call request()
  Sockets,       \* bound on the sockets somebody still refers to
  NoSocket,      \* None
  MaxRequests,   \* bound on the requests of one caller
  Setups         \* what a session starts from: see the type SetupType

Encodings == {"base64", "hex"}

\* The signature_encoding argument, whether there is a private key, and the
\* encoding of a signature that the server accepts.
SetupType == [mode : {"auto"} \union Encodings, key : BOOLEAN,
              accepts : Encodings \union {"neither"}]

ASSUME SocketsAssumption == NoSocket \notin Sockets
ASSUME BoundAssumption   == MaxRequests \in Nat \ {0}
ASSUME SetupsAssumption  == Setups \subseteq SetupType

VARIABLES
  setup,     \* what does not change: mode, private key, what the server accepts
  self,      \* the attributes of the client the threads share
  pending,   \* self._pending: the ids somebody waits for
  sock,      \* per socket: state, commands under way, frames to read
  main,      \* pc of the thread that connects and closes
  reader,    \* per reader thread: pc and its locals
  call,      \* per caller: pc and the locals of request()
  executed   \* the commands the server carried out

vars == <<setup, self, pending, sock, main, reader, call, executed>>

Other(encoding) == IF encoding = "base64" THEN "hex" ELSE "base64"
\* The id of a command, and a command as the server sees it.
Ids == Callers \X (1 .. MaxRequests) \X {1, 2}
Commands == [id : Ids, signed : BOOLEAN, encoding : Encodings]
\* An answer for one command; "reject" is the frame that refuses the connection.
Answers == {"ok", "denied", "signature"}
Frames  == [id : Ids, answer : Answers]

\* What a try ends with: "ok", an error of class TradingWSError, or a plain
\* WebSocketError.
ServerErrors == {"denied", "signature", "refused"}
LocalErrors  == {"unconnected", "no key", "unsent", "closed", "timeout"}

Absent   == [state |-> "gone", up |-> {}, down |-> {}, refusal |-> "none"]
NoReader == [pc |-> "dead", ws |-> NoSocket, got |-> {}]
Resting  == [pc |-> "idle", n |-> 0, try |-> 1, signed |-> FALSE, ws |-> NoSocket,
             encoding |-> "base64", other |-> "base64", first |-> "base64",
             item |-> "none"]

Init ==
  /\ setup \in Setups
  /\ self = [ws |-> NoSocket, reader |-> NoSocket, closing |-> FALSE, rejection |-> FALSE,
             encoding |-> IF setup.mode = "auto" THEN "base64" ELSE setup.mode]
  /\ pending = {}
  /\ sock = [s \in Sockets |-> Absent]
  /\ main = "idle"
  /\ reader = [s \in Sockets |-> NoReader]
  /\ call = [c \in Callers |-> Resting]
  /\ executed = {}

-----------------------------------------------------------------------------
Id(c) == <<c, call[c].n, call[c].try>>

\* Put an item into the queue of each of these commands; the waiter takes the
\* first one.
Deliver(ids, item) ==
  [c \in Callers |->
     IF Id(c) \in ids /\ call[c].item = "none"
     THEN [call[c] EXCEPT !.item = item] ELSE call[c]]

\* _fail_pending: under the lock the ids are taken, then each waiter is woken.
FailPending(error) ==
  /\ call' = Deliver(pending, error)
  /\ pending' = {}

Alive(s) == s # NoSocket /\ reader[s].pc # "dead"

\* A socket nobody refers to any more may stand for the next one.
FreeSockets ==
  {s \in Sockets : /\ s \notin {self.ws, self.reader}
                   /\ \A c \in Callers : call[c].ws # s
                   /\ \A r \in Sockets : reader[r].pc # "dead" => reader[r].ws # s
                   /\ reader[s].pc = "dead"
                   /\ sock[s].up = {}}

-----------------------------------------------------------------------------
(* connect() and close()                                                   *)

Connect ==
  /\ main = "idle"
  /\ self.ws = NoSocket
  /\ self' = [self EXCEPT !.closing = FALSE, !.rejection = FALSE]
  /\ main' = "open"
  /\ UNCHANGED <<setup, pending, sock, reader, call, executed>>

\* The handshake fails, and connect() raises.
OpenFails ==
  /\ main = "open"
  /\ main' = "idle"
  /\ UNCHANGED <<setup, self, pending, sock, reader, call, executed>>

\* The reader thread is started, which need not run at once.
Open ==
  /\ main = "open"
  /\ \E s \in FreeSockets :
       /\ self' = [self EXCEPT !.ws = s, !.reader = s]
       /\ sock' = [sock EXCEPT ![s] = [Absent EXCEPT !.state = "open"]]
       /\ reader' = [reader EXCEPT ![s] = [NoReader EXCEPT !.pc = "start"]]
  /\ main' = "grace"
  /\ UNCHANGED <<setup, pending, call, executed>>

\* The grace period is over, or a refusal or the end of the reader cut it short.
Grace ==
  /\ main = "grace"
  /\ main' = IF self.rejection THEN "close" ELSE "idle"
  /\ UNCHANGED <<setup, self, pending, sock, reader, call, executed>>

Close ==
  /\ main \in {"idle", "close"}
  /\ self' = [self EXCEPT !.closing = TRUE]
  /\ main' = "drop"
  /\ UNCHANGED <<setup, pending, sock, reader, call, executed>>

\* Mutant: close() lets go of the socket but does not close it.
LeftOpen == sock

ClosedSocket ==
  IF self.ws = NoSocket THEN sock ELSE [sock EXCEPT ![self.ws].state = "closed"]

DropSocket ==
  /\ main = "drop"
  /\ sock' = ClosedSocket
  /\ self' = [self EXCEPT !.ws = NoSocket]
  /\ main' = "join"
  /\ UNCHANGED <<setup, pending, reader, call, executed>>

\* Mutant: close() does not wait for the reader.
JoinedAtOnce == TRUE

Joined == ~Alive(self.reader)

JoinReader ==
  /\ main = "join"
  /\ Joined
  /\ self' = [self EXCEPT !.reader = NoSocket]
  /\ main' = "wake"
  /\ UNCHANGED <<setup, pending, sock, reader, call, executed>>

WakeWaiters == FailPending("closed")

CloseWakes ==
  /\ main = "wake"
  /\ WakeWaiters
  /\ main' = "idle"
  /\ UNCHANGED <<setup, self, sock, reader, executed>>

-----------------------------------------------------------------------------
(* _read_loop                                                              *)

ReaderGoto(s, label) == reader' = [reader EXCEPT ![s].pc = label]
\* Once round the loop: self._closing is tested, then recv() waits.
Again == IF self.closing THEN "end" ELSE "recv"

\* ws = self._ws is read when the thread gets to run.
ReaderStart(s) ==
  /\ reader[s].pc = "start"
  /\ reader' = [reader EXCEPT ![s].ws = self.ws,
                              ![s].pc = IF self.ws = NoSocket THEN "end" ELSE Again]
  /\ UNCHANGED <<setup, self, pending, sock, main, call, executed>>

\* The frame of a command: its queue is looked up under the lock, ...
ReadAnswer(s) ==
  /\ reader[s].pc = "recv"
  /\ \E frame \in sock[reader[s].ws].down :
       /\ sock' = [sock EXCEPT ![reader[s].ws].down = @ \ {frame}]
       /\ reader' = [reader EXCEPT
            ![s] = IF frame.id \in pending
                   THEN [@ EXCEPT !.pc = "put", !.got = {frame}]
                   ELSE [@ EXCEPT !.pc = Again]]   \* on_event takes it
  /\ UNCHANGED <<setup, self, pending, main, call, executed>>

\* ... and filled after the lock is released.
PutAnswer(s) ==
  /\ reader[s].pc = "put"
  /\ \E frame \in reader[s].got : call' = Deliver({frame.id}, frame.answer)
  /\ reader' = [reader EXCEPT ![s].pc = Again, ![s].got = {}]
  /\ UNCHANGED <<setup, self, pending, sock, main, executed>>

ReadRefusal(s) ==
  /\ reader[s].pc = "recv"
  /\ sock[reader[s].ws].refusal = "sent"
  /\ sock' = [sock EXCEPT ![reader[s].ws].refusal = "read"]
  /\ self' = [self EXCEPT !.rejection = TRUE]
  /\ ReaderGoto(s, "refuse")
  /\ UNCHANGED <<setup, pending, main, call, executed>>

WakeRefused(s) ==
  /\ reader[s].pc = "refuse"
  /\ FailPending("refused")
  /\ ReaderGoto(s, Again)
  /\ UNCHANGED <<setup, self, sock, main, executed>>

\* recv() raises: the socket is closed or broken, or it is open and was silent for
\* the timeout that connect() gave it.  The loop ends either way, and leaves an
\* open socket without a reader.
ReadFails(s) ==
  /\ reader[s].pc = "recv"
  /\ ReaderGoto(s, "end")
  /\ UNCHANGED <<setup, self, pending, sock, main, call, executed>>

ReaderEnd(s) ==
  /\ reader[s].pc = "end"
  /\ FailPending("closed")
  /\ reader' = [reader EXCEPT ![s] = NoReader]
  /\ UNCHANGED <<setup, self, sock, main, executed>>

-----------------------------------------------------------------------------
(* request()                                                               *)

Request(c) ==
  /\ call[c].pc = "idle"
  /\ call[c].n < MaxRequests
  /\ \E signed \in BOOLEAN :
       call' = [call EXCEPT ![c] = [Resting EXCEPT !.pc = "check", !.n = call[c].n + 1,
                                                   !.signed = signed]]
  /\ UNCHANGED <<setup, self, pending, sock, main, reader, executed>>

\* Mutant: every error of the server is taken for a refused signature.
AnyServerError(c, outcome) ==
  setup.mode = "auto" /\ call[c].signed /\ outcome \in ServerErrors

\* _other_encoding: is this a refused signature that may be tried again?
OtherEncoding(c, outcome) ==
  setup.mode = "auto" /\ call[c].signed /\ outcome = "signature"

\* request() returns or raises, unless the encoding has to change first.
Settle(c, outcome) ==
  [call EXCEPT ![c] =
     IF call[c].try = 1 /\ OtherEncoding(c, outcome)
     THEN [@ EXCEPT !.pc = "choose", !.ws = NoSocket, !.item = "none"]
     ELSE IF call[c].try = 2 /\ outcome \in ServerErrors
     THEN [@ EXCEPT !.pc = "restore", !.ws = NoSocket, !.item = "none"]
     ELSE [Resting EXCEPT !.n = call[c].n]]

CheckConnected(c) ==
  /\ call[c].pc = "check"
  /\ call' = IF self.rejection THEN Settle(c, "refused")
             ELSE IF self.ws = NoSocket THEN Settle(c, "unconnected")
             ELSE [call EXCEPT ![c].pc = "register", ![c].ws = self.ws]
  /\ UNCHANGED <<setup, self, pending, sock, main, reader, executed>>

\* Under the lock: build_command signs with the encoding of this moment, and
\* the command gets a queue of its own.
Register(c) ==
  /\ call[c].pc = "register"
  /\ IF call[c].signed /\ ~setup.key
     THEN call' = Settle(c, "no key") /\ UNCHANGED pending
     ELSE /\ call' = [call EXCEPT ![c].pc = "send", ![c].encoding = self.encoding,
                                  ![c].item = "none"]
          /\ pending' = pending \union {Id(c)}
  /\ UNCHANGED <<setup, self, sock, main, reader, executed>>

\* A broken socket may take the bytes all the same.
Send(c) ==
  /\ call[c].pc = "send"
  /\ sock[call[c].ws].state \in {"open", "broken"}
  /\ sock' = [sock EXCEPT ![call[c].ws].up =
       IF sock[call[c].ws].state = "open"
       THEN @ \union {[id |-> Id(c), signed |-> call[c].signed, encoding |-> call[c].encoding]}
       ELSE @]
  /\ call' = [call EXCEPT ![c].pc = "wait"]
  /\ UNCHANGED <<setup, self, pending, main, reader, executed>>

SendFails(c) ==
  /\ call[c].pc = "send"
  /\ sock[call[c].ws].state # "open"
  /\ pending' = pending \ {Id(c)}
  /\ call' = Settle(c, "unsent")
  /\ UNCHANGED <<setup, self, sock, main, reader, executed>>

\* Mutant: the queue is not released.
Kept(c) == pending' = pending

\* next_response takes an item, or gives up; stream() forgets the queue.
Forgotten(c) == pending' = pending \ {Id(c)}

Take(c) ==
  /\ call[c].pc = "wait"
  /\ call[c].item # "none"
  /\ call' = Settle(c, call[c].item)
  /\ Forgotten(c)
  /\ UNCHANGED <<setup, self, sock, main, reader, executed>>

TimeOut(c) ==
  /\ call[c].pc = "wait"
  /\ call[c].item = "none"
  /\ call' = Settle(c, "timeout")
  /\ Forgotten(c)
  /\ UNCHANGED <<setup, self, sock, main, reader, executed>>

\* The second try: the other encoding is computed,
ChooseOther(c) ==
  /\ call[c].pc = "choose"
  /\ call' = [call EXCEPT ![c].pc = "flip", ![c].other = Other(self.encoding)]
  /\ UNCHANGED <<setup, self, pending, sock, main, reader, executed>>

\* self._encoding is read once more and replaced, and the command goes out
\* again under a new id.
Flip(c) ==
  /\ call[c].pc = "flip"
  /\ self' = [self EXCEPT !.encoding = call[c].other]
  /\ call' = [call EXCEPT ![c].pc = "check", ![c].try = 2, ![c].first = self.encoding]
  /\ UNCHANGED <<setup, pending, sock, main, reader, executed>>

\* A TradingWSError of the second try restores the encoding (a WebSocketError
\* does not) and is raised as "refused with a base64 and a hex signature".
BothRefused(c) ==
  /\ call[c].pc = "restore"
  /\ self' = [self EXCEPT !.encoding = call[c].first]
  /\ call' = [call EXCEPT ![c] = [Resting EXCEPT !.n = call[c].n]]
  /\ UNCHANGED <<setup, pending, sock, main, reader, executed>>

-----------------------------------------------------------------------------
(* The server and the network                                              *)

SignatureRight(command) == ~command.signed \/ command.encoding = setup.accepts

\* A command is carried out or refused; on a broken socket nobody hears of it.
Serve(s) ==
  /\ \E command \in sock[s].up, answer \in Answers :
       /\ (answer = "signature") <=> ~SignatureRight(command)
       /\ executed' = IF answer = "ok" THEN executed \union {command.id} ELSE executed
       /\ sock' = [sock EXCEPT
            ![s].up = @ \ {command},
            ![s].down = IF sock[s].state = "open"
                        THEN @ \union {[id |-> command.id, answer |-> answer]} ELSE @]
  /\ UNCHANGED <<setup, self, pending, main, reader, call>>

ServerRefuses(s) ==
  /\ sock[s].state = "open" /\ sock[s].refusal = "none"
  /\ sock' = [sock EXCEPT ![s].refusal = "sent"]
  /\ UNCHANGED <<setup, self, pending, main, reader, call, executed>>

Break(s) ==
  /\ sock[s].state = "open"
  /\ sock' = [sock EXCEPT ![s].state = "broken"]
  /\ UNCHANGED <<setup, self, pending, main, reader, call, executed>>

Lose(s) ==
  /\ sock[s].state # "open" /\ sock[s].up \union sock[s].down # {}
  /\ sock' = [sock EXCEPT ![s].up = {}, ![s].down = {}]
  /\ UNCHANGED <<setup, self, pending, main, reader, call, executed>>

-----------------------------------------------------------------------------
MainStep == \/ Connect \/ OpenFails \/ Open \/ Grace
            \/ Close \/ DropSocket \/ JoinReader \/ CloseWakes
ReaderStep(s) == \/ ReaderStart(s) \/ ReadAnswer(s) \/ PutAnswer(s)
                 \/ ReadRefusal(s) \/ WakeRefused(s) \/ ReadFails(s) \/ ReaderEnd(s)
CallerStep(c) == \/ CheckConnected(c) \/ Register(c) \/ Send(c) \/ SendFails(c)
                 \/ Take(c) \/ TimeOut(c) \/ ChooseOther(c) \/ Flip(c)
                 \/ BothRefused(c)
ServerStep(s) == Serve(s) \/ ServerRefuses(s) \/ Break(s) \/ Lose(s)

Next == \/ MainStep
        \/ \E s \in Sockets : ReaderStep(s) \/ ServerStep(s)
        \/ \E c \in Callers : Request(c) \/ CallerStep(c)

Spec == Init /\ [][Next]_vars

-----------------------------------------------------------------------------
(* Properties                                                              *)

\* The type of every variable.
TypeOK ==
  /\ setup \in Setups
  /\ self \in [ws : Sockets \union {NoSocket}, reader : Sockets \union {NoSocket},
               closing : BOOLEAN, rejection : BOOLEAN, encoding : Encodings]
  /\ pending \subseteq Ids
  /\ sock \in [Sockets -> [state : {"gone", "open", "broken", "closed"},
                           up : SUBSET Commands, down : SUBSET Frames,
                           refusal : {"none", "sent", "read"}]]
  /\ main \in {"idle", "open", "grace", "close", "drop", "join", "wake"}
  /\ reader \in [Sockets -> [pc : {"dead", "start", "recv", "put", "refuse", "end"},
                             ws : Sockets \union {NoSocket}, got : SUBSET Frames]]
  /\ call \in [Callers -> [pc : {"idle", "check", "register", "send", "wait", "choose", "flip", "restore"},
                           n : 0 .. MaxRequests, try : {1, 2}, signed : BOOLEAN,
                           ws : Sockets \union {NoSocket}, encoding : Encodings,
                           other : Encodings, first : Encodings,
                           item : Answers \union {"none", "closed", "refused"}]]
  /\ executed \subseteq Ids

\* One request() never has the server carry out its command twice, whatever
\* is lost, refused, timed out or reconnected: the second try is only for a
\* command whose signature the server refused.
ExecutedAtMostOnce ==
  \A c \in Callers, n \in 1 .. MaxRequests : ~({<<c, n, 1>>, <<c, n, 2>>} \subseteq executed)

\* The routing table holds the commands under way and nothing else: a late
\* frame cannot reach the queue of somebody who has gone.
PendingIsUnderWay ==
  \A id \in pending : \E c \in Callers : Id(c) = id /\ call[c].pc \in {"send", "wait"}

\* A caller is told that its connection is gone only when nobody reads the socket
\* its command went out on any more, and that the server refused it only when that
\* was read from this socket: no reader sweeps away the waiters of a later
\* connection.  The socket itself may be open, if its reader ended because nothing
\* came in for as long as the timeout.
ToldTheTruth ==
  \A c \in Callers : call[c].pc = "wait" =>
    /\ call[c].item = "closed"  => ~Alive(call[c].ws)
    /\ call[c].item = "refused" => sock[call[c].ws].refusal = "read"

\* close() leaves nobody waiting.  It does not hang in the join: the reader it
\* waits for never waits for a frame of a socket that is still open.  And when
\* it returns, every caller that waits for an answer on the socket it closed
\* has been told.
CloseLeavesNobody ==
  /\ main = "join" /\ Alive(self.reader) =>
       (reader[self.reader].pc = "recv" => sock[reader[self.reader].ws].state # "open")
  /\ main = "idle" /\ self.ws = NoSocket =>
       \A c \in Callers : call[c].pc = "wait" => call[c].item # "none"

-----------------------------------------------------------------------------
(* What request() promises its callers: CommandService.                    *)

\* A refused signature that another try in the other encoding may follow.
TriedAgain(c) == call[c].try = 1 /\ OtherEncoding(c, call[c].item)

\* What a caller will be told, once it is in its queue.
Heard(c) ==
  IF call[c].pc \notin {"send", "wait"} \/ call[c].item = "none" \/ TriedAgain(c) THEN "nothing"
  ELSE IF call[c].item = "ok" THEN "done"
  ELSE IF call[c].item \in {"denied", "signature"} THEN "refused"
  ELSE "unknown"

\* No message of its command is to be sent any more.
Over(c) ==
  \/ call[c].pc \in {"idle", "restore"}
  \/ call[c].pc = "wait" /\ call[c].item # "none" /\ ~TriedAgain(c)

\* The server has not carried out this message and never will: it is not on
\* its way any more.
Refused(id) == id \notin executed /\ \A s \in Sockets : \A m \in sock[s].up : m.id # id

\* No message of this command is under way, nor will be.
Hopeless(c, n) ==
  /\ n <= call[c].n
  /\ n = call[c].n => Over(c)
  /\ Refused(<<c, n, 1>>) /\ Refused(<<c, n, 2>>)

Service == INSTANCE CommandService WITH
  asked   <- [c \in Callers |-> call[c].n],
  running <- [c \in Callers |-> call[c].pc \notin {"idle", "restore"}],
  heard   <- [c \in Callers |-> Heard(c)],
  void    <- {r \in Callers \X (1 .. MaxRequests) : Hopeless(r[1], r[2])}

\* Seen by its callers, the client with its readers, sockets and two encodings
\* behaves as CommandService.
ImplementsService == Service!Spec
=============================================================================

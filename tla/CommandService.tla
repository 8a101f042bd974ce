--------------------------- MODULE CommandService ---------------------------
(***************************************************************************)
(* What request() of the trading WebSocket promises its callers, without   *)
(* connections, readers, queues or encodings: a command goes to the server *)
(* in one or two messages, of which at most one is carried out, and that   *)
(* may be after the caller has left; what the caller is told of the fate   *)
(* of its command is true, and stays true.                                 *)
(***************************************************************************)
EXTENDS Naturals

CONSTANT Callers

VARIABLES
  asked,     \* per caller: the commands it has asked for so far
  running,   \* per caller: whether its last command is still in request()
  heard,     \* per caller: what it will be told of that command
  executed,  \* the messages the server carried out: caller, command, message
  void       \* the commands that will never be carried out: caller, command

Fates == {"nothing", "done", "refused", "unknown"}

Init ==
  /\ asked = [c \in Callers |-> 0]
  /\ running = [c \in Callers |-> FALSE]
  /\ heard = [c \in Callers |-> "nothing"]
  /\ executed = {}
  /\ void = {}

Messages(c, n) == {<<c, n, 1>>, <<c, n, 2>>}

\* A caller asks for its next command, which may be turned away at once.
Ask(c) ==
  /\ ~running[c]
  /\ asked' = [asked EXCEPT ![c] = @ + 1]
  /\ \E accepted \in BOOLEAN : running' = [running EXCEPT ![c] = accepted]
  /\ UNCHANGED <<heard, executed>>

\* One message of a command whose fate is open is carried out, whether or not
\* its caller still waits.
CarryOut(c) ==
  /\ \E n \in 1 .. asked[c] :
       /\ <<c, n>> \notin void
       /\ Messages(c, n) \intersect executed = {}
       /\ \E message \in Messages(c, n) : executed' = executed \union {message}
  /\ UNCHANGED <<asked, running, heard>>

\* The fate of a command reaches its caller, or the news that it is unknown;
\* the end of a connection tells several callers at once.
Tell ==
  /\ \A c \in Callers : heard'[c] # heard[c] =>
       /\ running[c] /\ heard[c] = "nothing"
       /\ heard'[c] = "done" => Messages(c, asked[c]) \intersect executed # {}
       /\ heard'[c] = "refused" => <<c, asked[c]>> \in void'
  /\ heard' \in [Callers -> Fates]
  /\ UNCHANGED <<asked, running, executed>>

\* request() returns or raises, also when nothing was heard.
Return(c) ==
  /\ running[c]
  /\ running' = [running EXCEPT ![c] = FALSE]
  /\ heard' = [heard EXCEPT ![c] = "nothing"]
  /\ UNCHANGED <<asked, executed>>

\* Commands are refused or lost at any time: they were not carried out, and
\* never will be.
Voided ==
  /\ void \subseteq void'
  /\ \A r \in void' : Messages(r[1], r[2]) \intersect executed' = {}

Next ==
  /\ \/ UNCHANGED <<asked, running, heard, executed>>
     \/ \E c \in Callers : Ask(c) \/ CarryOut(c) \/ Return(c)
     \/ Tell
  /\ Voided

vars == <<asked, running, heard, executed, void>>

Spec == Init /\ [][Next]_vars

\* Nothing is carried out twice, and what a caller was told is so.
Promise ==
  \A c \in Callers :
    /\ \A n \in 1 .. asked[c] : ~(Messages(c, n) \subseteq executed)
    /\ heard[c] = "done" => Messages(c, asked[c]) \intersect executed # {}
    /\ heard[c] = "refused" => <<c, asked[c]>> \in void
=============================================================================

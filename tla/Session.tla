------------------------------- MODULE Session -------------------------------
(***************************************************************************)
(* One client session of the server (server/session.go), from the upgrade   *)
(* of its connection to its removal from the server's clients: the handler  *)
(* (wsUpgrader in server/server.go), the heartbeat loop with its ticker or  *)
(* timer, the sender and the forwarder of a subscription.                   *)
(*                                                                          *)
(*   peer --> handler --hbChan--> heartbeatLoop --\                         *)
(*               \------------------------------> sendChan --> sender       *)
(*                             forwarder ---------/                --> peer *)
(*                                                                          *)
(* Neither channel has a buffer: a send is one step of both its ends.  Any  *)
(* goroutine may call Close; the first runs it, the others wait for it.     *)
(* What a subscription forwards is the subject of ServerStream, the cleanup *)
(* function too: here it is a step that ends.  The server's own context is  *)
(* not ended before the process.                                            *)
(***************************************************************************)
EXTENDS Integers

CONSTANT HeartbeatFailCount

ASSUME FailCountAssumption == HeartbeatFailCount \in Nat \ {0}

Goroutine == {"handler", "heartbeat", "ticker", "sender", "forwarder"}
Place == {"welcome", "welcomed", "read", "ping", "pong", "respond", "leave",
          "range", "write", "wait", "answered", "select", "close", "cleanup",
          "off", "done"}

VARIABLES
    reversHeartbeat, \* the server pings (else the client does)
    pc,              \* where each goroutine is
    peer,            \* "up", "rude" (has sent a pong unasked), "silent" (sends
                     \* nothing), "stalled" (nor reads), "gone"
    inbox,           \* the message that has arrived; those behind it count as
                     \* not yet sent
    owed,            \* pings the peer has not answered
    hbCounter,
    taken,           \* whose message the sender holds
    isClosed,        \* Close has begun: the context has ended
    connOpen,        \* Close has not ended
    returned,        \* incClients has returned the session, not nil
    clients          \* the sessions counted in the server's status

clientVars == <<returned, clients>>
vars == <<reversHeartbeat, pc, peer, inbox, owed, hbCounter, taken,
          isClosed, connOpen, clientVars>>

Init ==
    /\ reversHeartbeat \in BOOLEAN
    /\ pc = [g \in Goroutine |-> CASE g = "handler" -> "welcome"
                                  [] g = "heartbeat" -> "range"
                                  [] g = "ticker" -> "wait"
                                  [] g = "sender" -> "select"
                                  [] OTHER -> "off"]
    /\ peer = "up" /\ inbox = "none" /\ owed = 0
    /\ hbCounter = 0
    /\ taken = "none"
    /\ isClosed = FALSE /\ connOpen = TRUE
    /\ returned = FALSE /\ clients = 0

At(g, place) == pc[g] = place
Goto(g, place) == pc' = [pc EXCEPT ![g] = place]
Meet(g, place, h, other) == pc' = [pc EXCEPT ![g] = place, ![h] = other]

-----------------------------------------------------------------------------
(* The peer.  One that is up pings, or answers pings, in time and reads.  It *)
(* may ping a server that pings itself: that makes the server send one more. *)
PeerSends ==
    /\ peer = "up" /\ inbox = "none" /\ connOpen
    /\ \/ inbox' = "ping" /\ UNCHANGED <<owed, peer>>
       \/ inbox' = "pong" /\ owed > 0 /\ owed' = owed - 1 /\ UNCHANGED peer
       \/ inbox' = "pong" /\ owed = 0 /\ peer' = "rude" /\ UNCHANGED owed
       \/ inbox' = "subscribe" /\ UNCHANGED <<owed, peer>>
    /\ UNCHANGED <<reversHeartbeat, pc, hbCounter, taken, isClosed, connOpen, clientVars>>

PeerLost ==
    /\ peer # "gone"
    /\ peer' \in {"silent", "stalled", "gone"} \ {peer}
    /\ peer = "stalled" => peer' = "gone"
    /\ UNCHANGED <<reversHeartbeat, pc, inbox, owed, hbCounter, taken,
                   isClosed, connOpen, clientVars>>

-----------------------------------------------------------------------------
(* sendChan: the sender takes a message.  Welcome and the heartbeats wait   *)
(* for their errChan; a response starts the forwarder of its subscription.  *)
After(g) == IF At(g, "respond") THEN "read"
            ELSE IF g = "forwarder" THEN "off" ELSE "wait"

Send(g) ==
    /\ \/ g = "handler" /\ pc[g] \in {"welcome", "respond"}
       \/ g \in {"heartbeat", "forwarder"} /\ At(g, "write")
    /\ At("sender", "select")
    /\ taken' = g
    /\ Meet(g, After(g), "sender", "write")
    /\ UNCHANGED <<reversHeartbeat, peer, inbox, owed, hbCounter,
                   isClosed, connOpen, clientVars>>

(* The forwarder has the next message of its subscription, or ends with it  *)
(* when the cleanup function has closed its destination.                    *)
Forward ==
    /\ At("forwarder", "off")
    /\ \/ returned /\ Goto("forwarder", "write")
       \/ isClosed /\ Goto("forwarder", "done")
    /\ UNCHANGED <<reversHeartbeat, peer, inbox, owed, hbCounter, taken,
                   isClosed, connOpen, clientVars>>

(* sendMessageLoop.  It writes what it has taken, tells a waiting writer,   *)
(* and closes the session when the write has failed.  A write to a peer     *)
(* that does not read waits until the connection is closed; one to a peer   *)
(* that has gone may go unnoticed.                                          *)
Answer(g, place) ==
    IF At(g, "wait") THEN [pc EXCEPT ![g] = place] ELSE pc

WriteMessage ==
    /\ At("sender", "write")
    /\ \/ /\ connOpen /\ peer # "stalled"
          /\ pc' = [Answer(taken, IF taken = "handler" THEN "welcomed" ELSE "answered")
                      EXCEPT !["sender"] = "select"]
          /\ owed' = IF taken = "heartbeat" /\ reversHeartbeat THEN owed + 1 ELSE owed
       \/ /\ ~connOpen \/ peer = "gone"
          /\ pc' = [Answer(taken, "close") EXCEPT !["sender"] = "close"]
          /\ UNCHANGED owed
    /\ taken' = "none"
    /\ UNCHANGED <<reversHeartbeat, peer, inbox, hbCounter, isClosed, connOpen, clientVars>>

(* When a message and the end of the context are both there the sender may  *)
(* take either.                                                             *)
SenderEnds ==
    /\ At("sender", "select") /\ isClosed
    /\ Goto("sender", "done")
    /\ UNCHANGED <<reversHeartbeat, peer, inbox, owed, hbCounter, taken,
                   isClosed, connOpen, clientVars>>

-----------------------------------------------------------------------------
(* The handler: incClients, ReadMessage and what is done with a message.    *)
(* The query of the request may hold a subscription too.  After a welcome   *)
(* that failed incClients returns nil, on which the handler panics.         *)
incClients ==
    /\ At("handler", "welcomed")
    /\ returned' = TRUE
    /\ clients' = clients + 1
    /\ \E next \in {"read", "respond"} : Goto("handler", next)
    /\ UNCHANGED <<reversHeartbeat, peer, inbox, owed, hbCounter, taken,
                   isClosed, connOpen>>

ReadMessage ==
    /\ At("handler", "read")
    /\ \/ /\ inbox # "none"
          /\ inbox' = "none"
          /\ Goto("handler", IF inbox = "subscribe" THEN "respond" ELSE inbox)
       \/ /\ ~connOpen \/ peer = "gone"
          /\ Goto("handler", "close")
          /\ UNCHANGED inbox
    /\ UNCHANGED <<reversHeartbeat, peer, owed, hbCounter, taken,
                   isClosed, connOpen, clientVars>>

\* Mutant: a session that was never counted is taken off all the same.
decClientsNil ==
    /\ At("handler", "leave")
    /\ clients' = clients - 1
    /\ Goto("handler", "done")
    /\ UNCHANGED <<reversHeartbeat, peer, inbox, owed, hbCounter, taken,
                   isClosed, connOpen, returned>>

(* The deferred call, also after a panic; a nil session is not taken off.   *)
decClients ==
    /\ At("handler", "leave")
    /\ clients' = IF returned THEN clients - 1 ELSE clients
    /\ Goto("handler", "done")
    /\ UNCHANGED <<reversHeartbeat, peer, inbox, owed, hbCounter, taken,
                   isClosed, connOpen, returned>>

-----------------------------------------------------------------------------
(* heartbeatLoop.  A ping, the ticker's or the client's, is written before  *)
(* it is counted; a pong is counted.                                        *)
MissMatch(count) == count >= HeartbeatFailCount \/ count < 0

ReceivePing(g) ==
    /\ \/ g = "handler" /\ At(g, "ping")
       \/ g = "ticker" /\ At(g, "write")
    /\ At("heartbeat", "range")
    /\ Meet(g, IF g = "handler" THEN "read" ELSE "wait", "heartbeat", "write")
    /\ UNCHANGED <<reversHeartbeat, peer, inbox, owed, hbCounter, taken,
                   isClosed, connOpen, clientVars>>

CountPing ==
    /\ At("heartbeat", "answered")
    /\ hbCounter' = IF reversHeartbeat THEN hbCounter + 1 ELSE hbCounter
    /\ Goto("heartbeat", IF MissMatch(hbCounter') THEN "close" ELSE "range")
    /\ UNCHANGED <<reversHeartbeat, peer, inbox, owed, taken,
                   isClosed, connOpen, clientVars>>

PongStartsAgain ==
    /\ At("handler", "pong") /\ At("heartbeat", "range")
    /\ hbCounter' = 0
    /\ Meet("handler", "read", "heartbeat", "range")
    /\ UNCHANGED <<reversHeartbeat, peer, inbox, owed, taken,
                   isClosed, connOpen, clientVars>>

ReceivePong ==
    /\ At("handler", "pong") /\ At("heartbeat", "range")
    /\ hbCounter' = hbCounter - 1
    /\ Meet("handler", "read",
            "heartbeat", IF MissMatch(hbCounter') THEN "close" ELSE "range")
    /\ UNCHANGED <<reversHeartbeat, peer, inbox, owed, taken,
                   isClosed, connOpen, clientVars>>

(* The ticker of a reversed heartbeat; the timer of the other one, which    *)
(* every message read sets back and a peer that is up never lets run out.   *)
TickWithoutTimer ==
    /\ At("ticker", "wait")
    /\ \/ reversHeartbeat /\ Goto("ticker", "write")
       \/ isClosed /\ Goto("ticker", "done")
    /\ UNCHANGED <<reversHeartbeat, peer, inbox, owed, hbCounter, taken,
                   isClosed, connOpen, clientVars>>

Tick ==
    /\ At("ticker", "wait")
    /\ \/ reversHeartbeat /\ Goto("ticker", "write")
       \/ ~reversHeartbeat /\ ~isClosed /\ peer # "up" /\ Goto("ticker", "close")
       \/ isClosed /\ Goto("ticker", "done")
    /\ UNCHANGED <<reversHeartbeat, peer, inbox, owed, hbCounter, taken,
                   isClosed, connOpen, clientVars>>

-----------------------------------------------------------------------------
(* Close, once: the context ends, the cleanup function runs, the connection *)
(* is closed.  Who comes later waits for the end and goes on.               *)
Returned(g) == CASE g = "handler" -> "leave"
                 [] g = "heartbeat" -> "done"
                 [] g = "ticker" -> "wait"
                 [] OTHER -> "select"

Close(g) ==
    /\ At(g, "close")
    /\ \/ /\ ~isClosed
          /\ isClosed' = TRUE
          /\ Goto(g, "cleanup")
       \/ /\ ~connOpen
          /\ Goto(g, Returned(g))
          /\ UNCHANGED isClosed
    /\ UNCHANGED <<reversHeartbeat, peer, inbox, owed, hbCounter, taken,
                   connOpen, clientVars>>

CloseConnForgotten(g) ==
    /\ At(g, "cleanup")
    /\ Goto(g, Returned(g))
    /\ UNCHANGED <<reversHeartbeat, peer, inbox, owed, hbCounter, taken,
                   isClosed, connOpen, clientVars>>

CloseConn(g) ==
    /\ At(g, "cleanup")
    /\ connOpen' = FALSE
    /\ Goto(g, Returned(g))
    /\ UNCHANGED <<reversHeartbeat, peer, inbox, owed, hbCounter, taken,
                   isClosed, clientVars>>

-----------------------------------------------------------------------------
Handler == incClients \/ ReadMessage \/ decClients

Next ==
    \/ PeerSends \/ PeerLost
    \/ \E g \in {"handler", "heartbeat", "forwarder"} : Send(g)
    \/ Forward \/ WriteMessage \/ SenderEnds
    \/ incClients \/ ReadMessage \/ decClients
    \/ \E g \in {"handler", "ticker"} : ReceivePing(g)
    \/ CountPing \/ ReceivePong \/ Tick
    \/ \E g \in Goroutine \ {"forwarder"} : Close(g) \/ CloseConn(g)

Spec == Init /\ [][Next]_vars

(* The scheduler runs what can run and time passes; nothing is owed by the  *)
(* peer.  A channel serves its senders in turn, so a choice among them is   *)
(* fair to each.                                                            *)
Fairness ==
    /\ \A g \in {"handler", "heartbeat"} : SF_vars(Send(g))
    /\ SF_vars(ReceivePing("handler") \/ ReceivePong)
    /\ SF_vars(ReceivePing("ticker"))
    /\ \A g \in {"handler", "heartbeat", "ticker", "sender"} :
          WF_vars(Close(g) \/ CloseConn(g))
    /\ WF_vars(WriteMessage \/ SenderEnds)
    /\ WF_vars(Handler) /\ WF_vars(CountPing) /\ WF_vars(Tick)

FairSpec == Spec /\ Fairness

-----------------------------------------------------------------------------
(* Every variable has its type; the heartbeat counter stays in its range,   *)
(* and a session is counted once and taken off once, or neither.            *)
SessionTypeOK ==
    /\ reversHeartbeat \in BOOLEAN
    /\ pc \in [Goroutine -> Place]
    /\ peer \in {"up", "rude", "silent", "stalled", "gone"}
    /\ inbox \in {"none", "ping", "pong", "subscribe"}
    /\ owed \in Nat
    /\ hbCounter \in -1..HeartbeatFailCount
    /\ taken \in {"none", "handler", "heartbeat", "forwarder"}
    /\ isClosed \in BOOLEAN /\ connOpen \in BOOLEAN 
    /\ returned \in BOOLEAN /\ clients \in {0, 1}

(* A session is never closed on a peer that is there: unasked pongs apart,  *)
(* only HeartbeatFailCount pings it has left unanswered do that, those that *)
(* answer its own pings included.  A pong                                   *)
(* that overtakes the count of its ping waits in the handler, so the        *)
(* counter is exact whenever it is looked at, and not below zero.           *)
HonestPeerKept ==
    peer = "up" =>
        /\ hbCounter >= 0
        /\ hbCounter + (IF reversHeartbeat /\ At("heartbeat", "answered") THEN 1 ELSE 0)
             = owed + (IF inbox = "pong" THEN 1 ELSE 0)
                    + (IF At("handler", "pong") THEN 1 ELSE 0)
        /\ isClosed => hbCounter = HeartbeatFailCount

(* The server pings, and the ping waits behind a message that the peer does *)
(* not read: there is no deadline for a write.                              *)
Clogged == reversHeartbeat /\ peer = "stalled" /\ At("sender", "write")

(* A peer that is not there any more is noticed and its session closed,     *)
(* unless its own full connection holds up the pings that would notice it.  *)
DeadPeerClosed ==
    peer \in {"silent", "stalled", "gone"} ~> isClosed \/ Clogged

(* The handler is left in a send that nobody will receive.                  *)
Stranded ==
    \/ pc["handler"] \in {"welcome", "respond"} /\ At("sender", "done")
    \/ /\ pc["handler"] \in {"ping", "pong"}
       /\ At("heartbeat", "done") \/ (At("heartbeat", "write") /\ At("sender", "done"))

(* A closed session leaves the server's clients: its handler ends in        *)
(* decClients.  Only a handler that is left in a send never does.           *)
ClosedLeaves == isClosed ~> (At("handler", "done") /\ clients = 0) \/ Stranded
=============================================================================

---------------------------- MODULE SessionProofs ----------------------------
(***************************************************************************)
(* Proofs about Session, for every HeartbeatFailCount: its variables keep   *)
(* their types, in particular the heartbeat counter its range, and a        *)
(* session is not closed on a peer that answers.                            *)
(***************************************************************************)
EXTENDS Session, TLAPS

(* Where each goroutine can be.                                             *)
Places ==
    /\ pc["handler"] \in {"welcome", "wait", "welcomed", "read", "ping", "pong",
                          "respond", "leave", "close", "cleanup", "done"}
    /\ pc["heartbeat"] \in {"range", "write", "wait", "answered",
                            "close", "cleanup", "done"}
    /\ pc["ticker"] \in {"wait", "write", "close", "cleanup", "done"}
    /\ pc["sender"] \in {"select", "write", "close", "cleanup", "done"}
    /\ pc["forwarder"] \in {"off", "write", "done"}

(* A heartbeat loop that has not given up has a counter below the limit.    *)
Counting ==
    pc["heartbeat"] \in {"range", "write", "wait", "answered"} =>
        hbCounter \in 0..(HeartbeatFailCount - 1)

(* What the sender holds belongs to a goroutine, the heartbeat's while that *)
(* waits for it.                                                            *)
Taken ==
    /\ pc["sender"] = "write" => taken # "none"
    /\ taken = "heartbeat" => pc["heartbeat"] = "wait"

(* Closing begins with the flag and ends with the connection; a heartbeat   *)
(* loop ends in a closed session.                                           *)
Closing ==
    /\ ~connOpen => isClosed
    /\ \A g \in Goroutine : pc[g] = "cleanup" => isClosed
    /\ pc["heartbeat"] = "done" => isClosed

(* Nobody is about to close the session on a peer that is there, unless the *)
(* counter has reached its limit.                                           *)
NoneCloses ==
    peer = "up" => \A g \in Goroutine :
        pc[g] = "close" => hbCounter = HeartbeatFailCount

(* The session is in the status from the return of incClients to that of    *)
(* decClients, and never if incClients has returned nil.                    *)
Counted ==
    /\ clients = IF returned /\ pc["handler"] # "done" THEN 1 ELSE 0
    /\ pc["handler"] \in {"welcome", "wait", "welcomed"} => ~returned

IInv ==
    /\ SessionTypeOK /\ Places /\ Counting /\ Taken /\ Counted
    /\ Closing /\ NoneCloses /\ HonestPeerKept

USE FailCountAssumption

(* Where Close leaves its caller.                                           *)
LEMMA ReturnedFrom ==
    /\ Returned("handler") = "leave" /\ Returned("heartbeat") = "done"
    /\ Returned("ticker") = "wait" /\ Returned("sender") = "select"
  BY DEF Returned

LEMMA InitIInv == Init => IInv
<1> SUFFICES ASSUME Init PROVE IInv
  OBVIOUS
<1>1. /\ reversHeartbeat \in BOOLEAN /\ peer = "up" /\ inbox = "none" /\ owed = 0
      /\ hbCounter = 0 /\ taken = "none"
      /\ isClosed = FALSE /\ connOpen = TRUE /\ clients = 0 /\ returned = FALSE
  BY DEF Init
<1>2. pc["handler"] = "welcome"
  BY DEF Init, Goroutine
<1>3. pc["heartbeat"] = "range"
  BY DEF Init, Goroutine
<1>4. pc["ticker"] = "wait"
  BY DEF Init, Goroutine
<1>5. pc["sender"] = "select"
  BY DEF Init, Goroutine
<1>6. pc["forwarder"] = "off"
  BY DEF Init, Goroutine
<1>7. pc = [g \in Goroutine |-> pc[g]]
  BY DEF Init
<1>8. pc \in [Goroutine -> Place]
  BY <1>2, <1>3, <1>4, <1>5, <1>6, <1>7 DEF Goroutine, Place
<1>9. \A g \in Goroutine : pc[g] \notin {"close", "cleanup"}
  BY <1>2, <1>3, <1>4, <1>5, <1>6 DEF Goroutine
<1>10. SessionTypeOK /\ Counting
  <2>1. HeartbeatFailCount \in Nat /\ HeartbeatFailCount >= 1
    OBVIOUS
  <2>2. 0 \in -1..HeartbeatFailCount /\ 0 \in 0..(HeartbeatFailCount - 1)
    BY <2>1
  <2> QED
    BY <1>1, <1>8, <2>2 DEF SessionTypeOK, Counting
<1>11. Places /\ Taken /\ Counted /\ Closing /\ NoneCloses
  BY <1>1, <1>2, <1>3, <1>4, <1>5, <1>6, <1>9 DEF Places, Taken, Counted, Closing, NoneCloses
<1>12. HonestPeerKept
  <2>1. ~At("heartbeat", "answered") /\ ~At("handler", "pong")
    BY <1>2, <1>3 DEF At
  <2> QED
    BY <1>1, <2>1 DEF HonestPeerKept
<1> QED
  BY <1>10, <1>11, <1>12 DEF IInv

LEMMA NextIInv == IInv /\ [Next]_vars => IInv'
<1> SUFFICES ASSUME IInv, [Next]_vars PROVE IInv'
  OBVIOUS
<1> USE DEF IInv, SessionTypeOK, Places, Counting, Taken, Counted, clientVars, Closing, NoneCloses,
            HonestPeerKept, Goroutine, Place, At
<1>1. CASE PeerSends
  BY <1>1 DEF PeerSends
<1>2. CASE PeerLost
  BY <1>2 DEF PeerLost
<1>3. ASSUME NEW g \in {"handler", "heartbeat", "forwarder"}, Send(g) PROVE IInv'
  BY <1>3 DEF Send, Meet, After
<1>4. CASE Forward
  BY <1>4 DEF Forward, Goto
<1>5. CASE WriteMessage
  BY <1>5 DEF WriteMessage, Answer
<1>6. CASE SenderEnds
  BY <1>6 DEF SenderEnds, Goto
<1>7. CASE incClients
  BY <1>7 DEF incClients, Goto
<1>8. CASE ReadMessage
  BY <1>8 DEF ReadMessage, Goto
<1>9. CASE decClients
  BY <1>9 DEF decClients, Goto
<1>10. ASSUME NEW g \in {"handler", "ticker"}, ReceivePing(g) PROVE IInv'
  BY <1>10 DEF ReceivePing, Meet
<1>11. CASE CountPing
  BY <1>11 DEF CountPing, Goto, MissMatch
<1>12. CASE ReceivePong
  BY <1>12 DEF ReceivePong, Meet, MissMatch
<1>13. CASE Tick
  BY <1>13 DEF Tick, Goto
<1>14. ASSUME NEW g \in Goroutine \ {"forwarder"}, Close(g) \/ CloseConn(g) PROVE IInv'
  <2>1. /\ g = "handler" => Returned(g) = "leave"
        /\ g = "heartbeat" => Returned(g) = "done"
        /\ g = "ticker" => Returned(g) = "wait"
        /\ g = "sender" => Returned(g) = "select"
    BY ReturnedFrom
  <2>2. Returned(g) \in Place \ {"close", "cleanup"}
    BY <2>1
  <2>3. UNCHANGED <<reversHeartbeat, peer, inbox, owed, hbCounter, taken, clientVars>>
    BY <1>14 DEF Close, CloseConn
  <2>4. CASE isClosed' /\ ~isClosed /\ connOpen' = connOpen /\ pc[g] = "close"
             /\ pc' = [pc EXCEPT ![g] = "cleanup"]
    <3>1. SessionTypeOK'
      BY <2>3, <2>4
    <3>2. Places' /\ Counting'
      BY <2>3, <2>4
    <3>3. Taken' /\ Counted' /\ Closing' /\ NoneCloses'
      BY <2>3, <2>4
    <3>4. HonestPeerKept'
      BY <2>3, <2>4
    <3> QED
      BY <3>1, <3>2, <3>3, <3>4
  <2>5. CASE isClosed' /\ isClosed /\ connOpen' \in {connOpen, FALSE}
             /\ pc[g] \in {"close", "cleanup"} /\ pc' = [pc EXCEPT ![g] = Returned(g)]
    <3>1. SessionTypeOK'
      <4>1. Returned(g) \in Place
        BY <2>2
      <4>2. pc' \in [Goroutine -> Place]
        BY ONLY <2>5, <4>1, IInv, g \in Goroutine DEF IInv, SessionTypeOK
      <4>3. isClosed' \in BOOLEAN /\ connOpen' \in BOOLEAN
        BY ONLY <2>5, IInv DEF IInv, SessionTypeOK
      <4>4. SessionTypeOK
        BY ONLY IInv DEF IInv
      <4> QED
        BY ONLY <2>3, <4>2, <4>3, <4>4 DEF SessionTypeOK, clientVars
    <3>2. pc'["handler"] = pc["handler"] \/ pc'["handler"] = "leave"
      BY <2>1, <2>5
    <3>3. pc'["heartbeat"] = pc["heartbeat"] \/ pc'["heartbeat"] = "done"
      BY <2>1, <2>5
    <3>4. pc'["ticker"] = pc["ticker"] \/ pc'["ticker"] = "wait"
      BY <2>1, <2>5
    <3>5. pc'["sender"] = pc["sender"] \/ (pc'["sender"] = "select" /\ pc["sender"] # "write")
      BY <2>1, <2>5
    <3>6. pc'["forwarder"] = pc["forwarder"]
      BY <2>5
    <3>7. Places' /\ Counting'
      BY <2>3, <3>2, <3>3, <3>4, <3>5, <3>6
    <3>8. Taken' /\ Closing' /\ NoneCloses'
      BY <2>2, <2>3, <2>5, <3>3, <3>5
    <3>10. Counted'
      <4>1. pc'["handler"] = "done" <=> pc["handler"] = "done"
        BY <2>1, <2>5
      <4> QED
        BY <2>3, <3>2, <4>1
    <3>9. HonestPeerKept'
      BY <2>3, <2>5, <3>2, <3>3
    <3> QED
      BY <3>1, <3>7, <3>8, <3>9, <3>10
  <2>6. CASE Close(g)
    BY <2>6, <2>4, <2>5 DEF Close, Goto
  <2>7. CASE CloseConn(g)
    BY <2>7, <2>5 DEF CloseConn, Goto
  <2> QED
    BY <1>14, <2>6, <2>7
<1>15. CASE UNCHANGED vars
  BY <1>15 DEF vars
<1> QED
  BY <1>1, <1>2, <1>3, <1>4, <1>5, <1>6, <1>7, <1>8, <1>9, <1>10, <1>11,
     <1>12, <1>13, <1>14, <1>15 DEF Next

(* In every reachable state.                                                *)
THEOREM Invariance == Spec => []IInv
  BY InitIInv, NextIInv, PTL DEF Spec

(* Every variable keeps its type: the heartbeat counter stays between -1    *)
(* and HeartbeatFailCount (session.go:197), and the session is counted in   *)
(* the status at most once and taken off only then (server.go:94, 118).     *)
THEOREM TypeCorrect == Spec => []SessionTypeOK
<1>1. IInv => SessionTypeOK
  BY DEF IInv
<1> QED
  BY <1>1, Invariance, PTL

(* The counter of a peer that is there is the number of pings it has not    *)
(* answered, and its session is closed at HeartbeatFailCount of them only   *)
(* (session.go:197).                                                        *)
THEOREM Kept == Spec => []HonestPeerKept
<1>1. IInv => HonestPeerKept
  BY DEF IInv
<1> QED
  BY <1>1, Invariance, PTL
=============================================================================

------------------------ MODULE ClientConnectionProofs ------------------------
(***************************************************************************)
(* Proofs about ClientConnection, for every HeartbeatFailCount, all queue   *)
(* capacities and any number of messages: types, no panic while the         *)
(* connection lives, no peer given up that answers, and a stream without a  *)
(* loss or a gap from the consumer's registration on.                       *)
(***************************************************************************)
EXTENDS ClientConnection, FunctionTheorems, FiniteSetTheorems, SequenceTheorems, TLAPS

(* Where each goroutine can be.                                             *)
ClientPlaces ==
    /\ pc["reader"] \in {"select", "read", "ping", "pong", "handle", "publish", "send", "done"}
    /\ pc["pinger"] \in {"select", "send", "done"}
    /\ pc["heartbeat"] \in {"select", "done"}
    /\ pc["cache"] \in {"select", "publish", "send", "done"}
    /\ pc["dispatcher"] \in {"select", "write", "close", "done"}
    /\ pc["consumer"] \in {"get", "send", "select", "append", "stuck", "done"}

(* A goroutine holds a message when it is between taking it and passing it  *)
(* on, and one message only.                                                *)
Holding(g, places) ==
    IF pc[g] \in places THEN Len(held[g]) = 1 ELSE held[g] = <<>>

Hands ==
    /\ Holding("reader", {"handle", "publish", "send"})
    /\ Holding("cache", {"publish", "send"})
    /\ Holding("dispatcher", {"write"})

(* Without the cache nothing goes through its pipeline, and only then does  *)
(* the reader publish.                                                      *)
Bypassed ==
    /\ disableCache => pipeline = <<>> /\ pc["cache"] \in {"select", "done"}
    /\ pc["reader"] \in {"publish", "send"} => disableCache

(* A handler that has not given up has a counter below the limit.           *)
Below == pc["heartbeat"] = "select" => hbCounter \in 0..(HeartbeatFailCount - 1)

(* The channel is closed, and the cache's goroutine ends, only after the    *)
(* context has ended.                                                       *)
Ending ==
    /\ channel # "open" => ctx
    /\ pc["dispatcher"] \in {"close", "done"} => ctx
    /\ pc["cache"] = "done" => ctx
    /\ channel = "closed" => destination # "open" /\ pc["dispatcher"] = "done"

ControlTypes ==
    /\ disableCache \in BOOLEAN /\ reversHeartbeat \in BOOLEAN
    /\ peer \in {"up", "lost"}
    /\ hbCounter \in -1..HeartbeatFailCount
    /\ closeFlag \in BOOLEAN /\ ctx \in BOOLEAN
    /\ destination \in {"none", "asked", "open", "closed"}
    /\ channel \in {"open", "closing", "closed"}
    /\ panicked \in {"no", "nilChannel", "closedSource"}

DataTypes ==
    /\ sent \in 0..MaxData /\ owed \in Int /\ ahead \in Nat /\ unheard \in Nat
    /\ wire \in Seq(Beat \cup Message)
    /\ held \in [Goroutine -> Seq(Message)]
    /\ pipeline \in Seq(Message) /\ source \in Seq(Message) /\ dest \in Seq(Message)
    /\ got \in Seq(Message)

TInv == ClientTypeOK /\ ClientPlaces /\ Hands /\ Bypassed /\ Below /\ Ending /\ SafeWhileOpen

USE FailCountAssumption, ClientCapAssumption

LEMMA InitTInv == Init => TInv
<1> SUFFICES ASSUME Init PROVE TInv
  OBVIOUS
<1>1. /\ \A g \in Goroutine : held[g] = <<>>
      /\ \A g \in Goroutine \ {"consumer"} : pc[g] = "select"
      /\ pc["consumer"] = "get"
  BY DEF Init, Goroutine
<1>2. HeartbeatFailCount \in Nat /\ HeartbeatFailCount > 0 /\ 0 \in 0..MaxData
  OBVIOUS
<1>3. ClientTypeOK
  <2>1. pc \in [Goroutine -> Place] /\ held \in [Goroutine -> Seq(Message)]
    BY DEF Init, Place
  <2>2. 0 \in -1..HeartbeatFailCount /\ 0 \in Nat /\ 0 \in Int
    BY <1>2
  <2>3. <<>> \in Seq(Beat \cup Message) /\ <<>> \in Seq(Message)
    OBVIOUS
  <2>4. ControlTypes
    BY <2>2 DEF Init, ControlTypes
  <2>5. DataTypes
    BY <1>2, <2>1, <2>2, <2>3 DEF Init, DataTypes
  <2> QED
    BY <2>1, <2>4, <2>5 DEF ClientTypeOK, ControlTypes, DataTypes
<1>4. ClientPlaces /\ Hands /\ Bypassed
  BY <1>1, <1>3 DEF Init, ClientPlaces, Hands, Holding, Bypassed, Goroutine, ClientTypeOK
<1>5. Below /\ Ending /\ SafeWhileOpen
  BY <1>1, <1>2 DEF Init, Below, Ending, SafeWhileOpen, Running, Goroutine
<1> QED
  BY <1>3, <1>4, <1>5 DEF TInv

LEMMA QueueTypes ==
  ASSUME NEW S, NEW p \in Seq(S), NEW q \in Seq(S)
  PROVE  /\ p \o q \in Seq(S) /\ <<>> \in Seq(S)
         /\ q # <<>> => /\ Tail(q) \in Seq(S) /\ <<Head(q)>> \in Seq(S)
                        /\ Append(p, Head(q)) \in Seq(S)
  OBVIOUS

(* The types: of the places, of the flags and counters, of the data.        *)
LEMMA NextPc == TInv /\ [Next]_vars => (pc \in [Goroutine -> Place])'
<1> SUFFICES ASSUME TInv, [Next]_vars PROVE (pc \in [Goroutine -> Place])'
  OBVIOUS
<1> USE DEF TInv, ClientTypeOK, Goto, Place, cfgVars, peerVars, hbVars, dataVars, dstVars
<1>1. CASE PeerSends
  BY <1>1 DEF PeerSends
<1>2. CASE PeerLost
  BY <1>2 DEF PeerLost
<1>3. CASE messageHandler
  BY <1>3 DEF messageHandler
<1>4. CASE readMessage
  BY <1>4 DEF readMessage
<1>5. CASE readError
  BY <1>5 DEF readError
<1>6. CASE AppendInput
  BY <1>6 DEF AppendInput
<1>7. CASE GetDefaultChannel
  BY <1>7 DEF GetDefaultChannel, Panic
<1>8. ASSUME NEW g \in Publisher, CheckClosed(g) PROVE (pc \in [Goroutine -> Place])'
  BY <1>8 DEF CheckClosed, Publisher
<1>9. ASSUME NEW g \in Publisher, SendSource(g) PROVE (pc \in [Goroutine -> Place])'
  BY <1>9 DEF SendSource, Panic, Publisher
<1>10. CASE Tick
  BY <1>10 DEF Tick
<1>11. CASE SendPing
  BY <1>11 DEF SendPing, WritePing, WriteFails, HandlerGoes
<1>12. CASE ReceivePong
  BY <1>12 DEF ReceivePong, HandlerGoes
<1>24. CASE ReceivePing
  BY <1>24 DEF ReceivePing, WritePing, WriteFails, HandlerGoes, Count, MissMatch
<1>25. CASE TimerOrContext
  BY <1>25 DEF TimerOrContext
<1>13. CASE CacheSelect
  BY <1>13 DEF CacheSelect
<1>14. CASE DispatcherSelect
  BY <1>14 DEF DispatcherSelect, TakeMessage, AddDestination
<1>15. CASE WriteDestination
  BY <1>15 DEF WriteDestination
<1>16. CASE CloseChannel
  BY <1>16 DEF CloseChannel
<1>17. CASE Consume
  BY <1>17 DEF Consume
<1>26. CASE GetResponse
  BY <1>26 DEF GetResponse, Panic
<1>27. CASE RetriveData
  BY <1>27 DEF RetriveData, Panic
<1>28. CASE AppendToCache
  BY <1>28 DEF AppendToCache
<1>18. CASE Owner
  BY <1>18 DEF Owner
<1>19. CASE UNCHANGED vars
  BY <1>19 DEF vars
<1> QED
  BY <1>1, <1>2, <1>3, <1>4, <1>5, <1>6, <1>7, <1>8, <1>9, <1>10, <1>11, <1>12,
     <1>13, <1>14, <1>15, <1>16, <1>17, <1>18, <1>19, <1>24, <1>25, <1>26, <1>27, <1>28 DEF Next

LEMMA NextControl == TInv /\ [Next]_vars => ControlTypes'
<1> SUFFICES ASSUME TInv, [Next]_vars PROVE ControlTypes'
  OBVIOUS
<1> USE DEF TInv, ClientTypeOK, ControlTypes, Below, At, cfgVars, peerVars, hbVars, dataVars, dstVars
<1>b. ASSUME NEW g \in {"pinger", "reader"}, NEW p \in {"select", "read"}, WritePing(g, p),
             pc["heartbeat"] = "select"
      PROVE  ControlTypes'
  <2>1. UNCHANGED <<cfgVars, peer, ctx, channel, destination, panicked>>
    BY <1>b DEF WritePing
  <2>2. hbCounter \in 0..(HeartbeatFailCount - 1)
    BY <1>b
  <2>3. /\ hbCounter' = hbCounter + 1 \/ UNCHANGED hbCounter
        /\ closeFlag' \in BOOLEAN
    BY <1>b DEF WritePing, WriteFails, Count, MissMatch
  <2> QED
    BY <2>1, <2>2, <2>3, SMTT(30)
<1>1. CASE PeerSends
  BY <1>1 DEF PeerSends
<1>2. CASE PeerLost
  BY <1>2 DEF PeerLost
<1>3. CASE messageHandler
  BY <1>3 DEF messageHandler
<1>4. CASE readMessage
  BY <1>4 DEF readMessage
<1>5. CASE readError
  BY <1>5 DEF readError
<1>6. CASE AppendInput
  BY <1>6 DEF AppendInput
<1>7. CASE GetDefaultChannel
  BY <1>7 DEF GetDefaultChannel, Panic
<1>8. ASSUME NEW g \in Publisher, CheckClosed(g) PROVE ControlTypes'
  BY <1>8 DEF CheckClosed, Publisher
<1>9. ASSUME NEW g \in Publisher, SendSource(g) PROVE ControlTypes'
  BY <1>9 DEF SendSource, Panic, Publisher
<1>10. CASE Tick
  BY <1>10 DEF Tick
<1>11. CASE SendPing
  BY <1>11, <1>b DEF SendPing
<1>12. CASE ReceivePong
  BY <1>12 DEF ReceivePong, Count, MissMatch
<1>24. CASE ReceivePing
  <2>1. pc["heartbeat"] = "select"
    BY <1>24 DEF ReceivePing
  <2>2. CASE WritePing("reader", "read")
    BY <1>b, <2>1, <2>2
  <2>3. CASE /\ UNCHANGED <<cfgVars, peer, sent, wire, ctx, dataVars, panicked, hbCounter>>
             /\ closeFlag' = TRUE \/ UNCHANGED closeFlag
    BY <2>3
  <2> QED
    BY <1>24, <2>2, <2>3 DEF ReceivePing, WriteFails
<1>25. CASE TimerOrContext
  BY <1>25 DEF TimerOrContext
<1>13. CASE CacheSelect
  BY <1>13 DEF CacheSelect
<1>14. CASE DispatcherSelect
  BY <1>14 DEF DispatcherSelect, TakeMessage, AddDestination
<1>15. CASE WriteDestination
  BY <1>15 DEF WriteDestination
<1>16. CASE CloseChannel
  BY <1>16 DEF CloseChannel
<1>17. CASE Consume
  BY <1>17 DEF Consume
<1>26. CASE GetResponse
  BY <1>26 DEF GetResponse, Panic
<1>27. CASE RetriveData
  BY <1>27 DEF RetriveData, Panic
<1>28. CASE AppendToCache
  BY <1>28 DEF AppendToCache
<1>18. CASE Owner
  BY <1>18 DEF Owner
<1>19. CASE UNCHANGED vars
  BY <1>19 DEF vars
<1> QED
  BY <1>1, <1>2, <1>3, <1>4, <1>5, <1>6, <1>7, <1>8, <1>9, <1>10, <1>11, <1>12,
     <1>13, <1>14, <1>15, <1>16, <1>17, <1>18, <1>19, <1>24, <1>25, <1>26, <1>27, <1>28 DEF Next

LEMMA NextData == TInv /\ [Next]_vars => DataTypes'
<1> SUFFICES ASSUME TInv, [Next]_vars PROVE DataTypes'
  OBVIOUS
<1> USE DEF TInv, ClientTypeOK, DataTypes, Hold, peerVars, dataVars, dstVars
<1>a. \A p, q \in Seq(Message) :
         /\ p \o q \in Seq(Message) /\ <<>> \in Seq(Message)
         /\ q # <<>> => /\ Tail(q) \in Seq(Message) /\ <<Head(q)>> \in Seq(Message)
                        /\ Append(p, Head(q)) \in Seq(Message)
  BY QueueTypes
<1>b. \A g \in {"reader", "cache", "dispatcher"} : held[g] \in Seq(Message)
  BY DEF Goroutine
<1>1. CASE PeerSends
  <2>1. UNCHANGED <<held, pipeline, source, dest, got, ahead, unheard>>
    BY <1>1 DEF PeerSends, dstVars
  <2>2. MaxData \in Nat /\ sent \in 0..MaxData /\ owed \in Int
    OBVIOUS
  <2>3. \/ sent < MaxData /\ sent' = sent + 1 /\ owed' = owed
        \/ sent' = sent /\ owed' = owed - 1
        \/ UNCHANGED <<sent, owed>>
    BY <1>1 DEF PeerSends
  <2>4. sent' \in 0..MaxData /\ owed' \in Int
    BY <2>2, <2>3, SMTT(30)
  <2>5. \E m \in Beat \cup Message : wire' = Append(wire, m)
    <3>1. \/ wire' = Append(wire, Ping) \/ wire' = Append(wire, Pong)
          \/ sent < MaxData /\ wire' = Append(wire, sent + 1)
      BY <1>1 DEF PeerSends
    <3>2. sent < MaxData => sent + 1 \in Message
      BY <2>2 DEF Message
    <3> QED
      BY <3>1, <3>2 DEF Beat
  <2>6. wire' \in Seq(Beat \cup Message)
    <3>1. wire \in Seq(Beat \cup Message)
      OBVIOUS
    <3> QED
      BY <2>5, <3>1, AppendProperties
  <2> QED
    BY <2>1, <2>4, <2>6
<1>2. CASE PeerLost
  BY <1>2 DEF PeerLost
<1>3. CASE messageHandler
  BY <1>3 DEF messageHandler
<1>4. CASE readMessage
  <2>1. /\ wire # <<>> /\ wire' = Tail(wire)
        /\ UNCHANGED <<sent, owed, pipeline, source, dest, got, ahead, unheard>>
        /\ \/ UNCHANGED held
           \/ Head(wire) \notin Beat /\ held' = [held EXCEPT !["reader"] = <<Head(wire)>>]
    BY <1>4 DEF readMessage, dstVars
  <2>2. wire' \in Seq(Beat \cup Message) /\ Head(wire) \in Beat \cup Message
    BY <2>1
  <2>3. \A m \in Message : <<m>> \in Seq(Message)
    OBVIOUS
  <2>4. held' \in [Goroutine -> Seq(Message)]
    BY <2>1, <2>2, <2>3
  <2> QED
    BY <2>1, <2>2, <2>4
<1>5. CASE readError
  BY <1>5 DEF readError
<1>6. CASE AppendInput
  BY <1>6, <1>a, <1>b DEF AppendInput
<1>7. CASE GetDefaultChannel
  BY <1>7 DEF GetDefaultChannel, Panic
<1>8. ASSUME NEW g \in Publisher, CheckClosed(g) PROVE DataTypes'
  BY <1>8, <1>a, <1>b DEF CheckClosed, Publisher
<1>9. ASSUME NEW g \in Publisher, SendSource(g) PROVE DataTypes'
  <2>1. g \in {"reader", "cache", "dispatcher"}
    BY DEF Publisher
  <2>2. \/ UNCHANGED <<held, source>>
        \/ source' = source \o held[g] /\ held' = [held EXCEPT ![g] = <<>>]
    BY <1>9 DEF SendSource, Panic
  <2>3. source' \in Seq(Message)
    <3>1. source \in Seq(Message) /\ held[g] \in Seq(Message)
      BY <2>1, <1>b
    <3>2. source \o held[g] \in Seq(Message)
      BY <3>1, <1>a
    <3> QED
      BY <2>2, <3>1, <3>2
  <2>5. held' \in [Goroutine -> Seq(Message)]
    <3>1. held \in [Goroutine -> Seq(Message)] /\ <<>> \in Seq(Message)
      OBVIOUS
    <3> QED
      BY <2>2, <3>1
  <2>4. /\ UNCHANGED <<sent, owed, wire, pipeline, dest, got, ahead>>
        /\ unheard' = unheard + 1 \/ UNCHANGED unheard
    BY <1>9 DEF SendSource, Panic
  <2> QED
    BY <2>3, <2>4, <2>5
<1>10. CASE Tick
  BY <1>10 DEF Tick
<1>11. CASE SendPing
  BY <1>11, SMTT(30) DEF SendPing, WritePing, WriteFails
<1>12. CASE ReceivePong
  BY <1>12 DEF ReceivePong, Count, HandlerGoes, MissMatch
<1>24. CASE ReceivePing
  <2>1. /\ owed' = owed + 1 \/ UNCHANGED owed
        /\ UNCHANGED <<sent, wire, dataVars>>
    BY <1>24 DEF ReceivePing, WritePing, WriteFails
  <2> QED
    BY <2>1
<1>25. CASE TimerOrContext
  BY <1>25 DEF TimerOrContext
<1>13. CASE CacheSelect
  BY <1>13, <1>a, <1>b DEF CacheSelect
<1>14. CASE DispatcherSelect
  <2>1. CASE TakeMessage
    <3>1. destination = "asked" => ahead - 1 \in Nat
      BY <2>1 DEF TakeMessage
    <3> QED
      BY <1>14, <1>a, <1>b, <2>1, <3>1 DEF DispatcherSelect, TakeMessage
  <2>2. CASE ~TakeMessage
    BY <1>14, <2>2 DEF DispatcherSelect, AddDestination
  <2> QED
    BY <2>1, <2>2
<1>15. CASE WriteDestination
  BY <1>15, <1>a, <1>b DEF WriteDestination
<1>16. CASE CloseChannel
  BY <1>16 DEF CloseChannel
<1>17. CASE Consume
  BY <1>17, <1>a, <1>b DEF Consume
<1>26. CASE GetResponse
  BY <1>26 DEF GetResponse, Panic
<1>28. CASE AppendToCache
  BY <1>28 DEF AppendToCache
<1>27. CASE RetriveData
  <2>1. Len(source) \in Nat
    OBVIOUS
  <2> QED
    BY <1>27, <2>1 DEF RetriveData, Panic
<1>18. CASE Owner
  BY <1>18 DEF Owner
<1>19. CASE UNCHANGED vars
  BY <1>19 DEF vars
<1> QED
  BY <1>1, <1>2, <1>3, <1>4, <1>5, <1>6, <1>7, <1>8, <1>9, <1>10, <1>11, <1>12,
     <1>13, <1>14, <1>15, <1>16, <1>17, <1>18, <1>19, <1>24, <1>25, <1>26, <1>27, <1>28 DEF Next

LEMMA NextPlaces == TInv /\ [Next]_vars => (ClientPlaces /\ Below)'
<1> SUFFICES ASSUME TInv, [Next]_vars PROVE (ClientPlaces /\ Below)'
  OBVIOUS
<1> USE DEF TInv, ClientTypeOK, ClientPlaces, Below, Goto, At, Goroutine, cfgVars, peerVars, hbVars
<1>1. CASE PeerSends
  BY <1>1 DEF PeerSends
<1>2. CASE PeerLost
  BY <1>2 DEF PeerLost
<1>3. CASE messageHandler
  BY <1>3 DEF messageHandler
<1>4. CASE readMessage
  BY <1>4 DEF readMessage
<1>5. CASE readError
  BY <1>5 DEF readError
<1>6. CASE AppendInput
  BY <1>6 DEF AppendInput
<1>7. CASE GetDefaultChannel
  BY <1>7 DEF GetDefaultChannel, Panic
<1>8. ASSUME NEW g \in Publisher, CheckClosed(g) PROVE (ClientPlaces /\ Below)'
  BY <1>8 DEF CheckClosed, Publisher
<1>9. ASSUME NEW g \in Publisher, SendSource(g) PROVE (ClientPlaces /\ Below)'
  BY <1>9 DEF SendSource, Panic, Publisher
<1>10. CASE Tick
  BY <1>10 DEF Tick
<1>c. ASSUME NEW g \in {"pinger", "reader"}, NEW p \in {"select", "read"}, WritePing(g, p),
             g = "pinger" => p = "select", pc["heartbeat"] = "select"
      PROVE  (ClientPlaces /\ Below)'
  <2>1. hbCounter \in 0..(HeartbeatFailCount - 1)
    BY <1>c
  <2>2. CASE Count(1) /\ HandlerGoes(g, p)
    <3>1. hbCounter' = hbCounter + 1
      BY <2>2 DEF Count
    <3>2. HeartbeatFailCount \in Nat /\ hbCounter' \in Int /\ hbCounter' >= 0
      BY <2>1, <3>1
    <3>3. MissMatch(hbCounter') \/ hbCounter' \in 0..(HeartbeatFailCount - 1)
      BY <3>2 DEF MissMatch
    <3>4. /\ pc'[g] = p /\ pc'["heartbeat"] \in {"select", "done"}
          /\ \A h \in Goroutine \ {g, "heartbeat"} : pc'[h] = pc[h]
      BY <2>2 DEF HandlerGoes
    <3>5. pc'["heartbeat"] = "select" => ~MissMatch(hbCounter')
      BY <2>2, <3>3 DEF HandlerGoes
    <3> QED
      BY <1>c, <3>2, <3>3, <3>4, <3>5
  <2>3. CASE WriteFails(g, p)
    BY <1>c, <2>3 DEF WriteFails
  <2> QED
    BY <1>c, <2>2, <2>3 DEF WritePing
<1>11. CASE SendPing
  BY <1>11, <1>c DEF SendPing
<1>12. CASE ReceivePong
  <2>1. hbCounter \in 0..(HeartbeatFailCount - 1)
    BY <1>12 DEF ReceivePong
  <2>2. hbCounter' \in Int /\ (MissMatch(hbCounter') \/ hbCounter' \in 0..(HeartbeatFailCount - 1))
    <3>1. hbCounter' = hbCounter - 1
      BY <1>12 DEF ReceivePong, Count
    <3>2. hbCounter' \in Int /\ (hbCounter' < 0 \/ hbCounter' \in 0..(HeartbeatFailCount - 1))
      BY <2>1, <3>1
    <3> QED
      BY <3>2 DEF MissMatch
  <2>3. /\ pc'["reader"] = "read"
        /\ pc'["heartbeat"] \in {"select", "done"}
        /\ \A g \in Goroutine \ {"reader", "heartbeat"} : pc'[g] = pc[g]
    BY <1>12 DEF ReceivePong, HandlerGoes
  <2>4. pc'["heartbeat"] = "select" => ~MissMatch(hbCounter')
    BY <1>12, <2>2 DEF ReceivePong, HandlerGoes
  <2> QED
    BY <2>2, <2>3, <2>4
<1>24. CASE ReceivePing
  <2>1. CASE WritePing("reader", "read")
    BY <1>24, <1>c, <2>1 DEF ReceivePing
  <2>2. CASE Goto("reader", "read") /\ UNCHANGED hbCounter
    BY <2>2
  <2>3. CASE WriteFails("reader", "read")
    BY <2>3 DEF WriteFails
  <2> QED
    BY <1>24, <2>1, <2>2, <2>3 DEF ReceivePing
<1>25. CASE TimerOrContext
  BY <1>25 DEF TimerOrContext
<1>13. CASE CacheSelect
  BY <1>13 DEF CacheSelect
<1>14. CASE DispatcherSelect
  BY <1>14 DEF DispatcherSelect, TakeMessage, AddDestination
<1>15. CASE WriteDestination
  BY <1>15 DEF WriteDestination
<1>16. CASE CloseChannel
  BY <1>16 DEF CloseChannel
<1>17. CASE Consume
  BY <1>17 DEF Consume
<1>26. CASE GetResponse
  BY <1>26 DEF GetResponse, Panic
<1>27. CASE RetriveData
  BY <1>27 DEF RetriveData, Panic
<1>28. CASE AppendToCache
  BY <1>28 DEF AppendToCache
<1>18. CASE Owner
  BY <1>18 DEF Owner
<1>19. CASE UNCHANGED vars
  BY <1>19 DEF vars
<1> QED
  BY <1>1, <1>2, <1>3, <1>4, <1>5, <1>6, <1>7, <1>8, <1>9, <1>10, <1>11, <1>12,
     <1>13, <1>14, <1>15, <1>16, <1>17, <1>18, <1>19, <1>24, <1>25, <1>26, <1>27, <1>28 DEF Next

LEMMA NextHands == TInv /\ [Next]_vars => (Hands /\ Bypassed)'
<1> SUFFICES ASSUME TInv, [Next]_vars PROVE (Hands /\ Bypassed)'
  OBVIOUS
<1>a. \A m : Len(<<m>>) = 1
  OBVIOUS
<1> USE DEF TInv, ClientTypeOK, ClientPlaces, Hands, Holding, Bypassed, Goto, Hold, At,
            Goroutine, cfgVars, dataVars
<1>1. CASE PeerSends
  BY <1>1 DEF PeerSends
<1>2. CASE PeerLost
  BY <1>2 DEF PeerLost
<1>3. CASE messageHandler
  BY <1>3 DEF messageHandler
<1>4. CASE readMessage
  <2>1. \A g \in {"cache", "dispatcher"} : held'[g] = held[g] /\ pc'[g] = pc[g]
    BY <1>4 DEF readMessage
  <2>2. \/ pc'["reader"] \in {"ping", "pong"} /\ held'["reader"] = <<>>
        \/ pc'["reader"] = "handle" /\ held'["reader"] = <<Head(wire)>>
    BY <1>4 DEF readMessage
  <2>3. UNCHANGED <<disableCache, pipeline>>
    BY <1>4 DEF readMessage
  <2> QED
    BY <2>1, <2>2, <2>3, <1>a
<1>5. CASE readError
  BY <1>5 DEF readError
<1>6. CASE AppendInput
  BY <1>6 DEF AppendInput
<1>7. CASE GetDefaultChannel
  BY <1>7 DEF GetDefaultChannel, Panic
<1>8. ASSUME NEW g \in Publisher, CheckClosed(g) PROVE (Hands /\ Bypassed)'
  BY <1>8 DEF CheckClosed, Publisher
<1>9. ASSUME NEW g \in Publisher, SendSource(g) PROVE (Hands /\ Bypassed)'
  <2>1. g \in {"reader", "cache"} /\ UNCHANGED <<disableCache, pipeline>>
    BY <1>9 DEF SendSource, Panic, Publisher
  <2>2. CASE UNCHANGED <<pc, held>>
    BY <2>1, <2>2
  <2>3. CASE /\ pc[g] = "send" /\ pc' = [pc EXCEPT ![g] = "select"]
             /\ held' = [held EXCEPT ![g] = <<>>]
    <3>1. \A h \in {"reader", "cache", "dispatcher"} :
            IF h = g THEN held'[h] = <<>> /\ pc'[h] = "select"
                     ELSE held'[h] = held[h] /\ pc'[h] = pc[h]
      BY <2>3
    <3> QED
      BY <2>1, <3>1
  <2> QED
    BY <1>9, <2>2, <2>3 DEF SendSource, Panic
<1>10. CASE Tick
  BY <1>10 DEF Tick
<1>11. CASE SendPing
  BY <1>11 DEF SendPing, WritePing, WriteFails, HandlerGoes
<1>12. CASE ReceivePong
  BY <1>12 DEF ReceivePong, Count, HandlerGoes, MissMatch
<1>24. CASE ReceivePing
  <2>1. /\ pc["reader"] = "ping" /\ pc'["reader"] = "read"
        /\ \A g \in {"cache", "dispatcher"} : pc'[g] = pc[g]
    BY <1>24 DEF ReceivePing, WritePing, WriteFails, HandlerGoes
  <2>2. UNCHANGED <<disableCache, pipeline, held>>
    BY <1>24 DEF ReceivePing, WritePing
  <2> QED
    BY <2>1, <2>2
<1>25. CASE TimerOrContext
  BY <1>25 DEF TimerOrContext
<1>13. CASE CacheSelect
  <2>1. \A g \in {"reader", "dispatcher"} : held'[g] = held[g] /\ pc'[g] = pc[g]
    BY <1>13 DEF CacheSelect
  <2>2. \/ pc'["cache"] = "done" /\ held'["cache"] = <<>> /\ UNCHANGED pipeline
        \/ /\ pc'["cache"] = "publish" /\ held'["cache"] = <<Head(pipeline)>>
           /\ pipeline # <<>>
    BY <1>13 DEF CacheSelect
  <2>3. UNCHANGED disableCache
    BY <1>13 DEF CacheSelect
  <2> QED
    BY <2>1, <2>2, <2>3, <1>a
<1>14. CASE DispatcherSelect
  <2> USE DEF TakeMessage, AddDestination
  <2>1. \A g \in {"reader", "cache"} : held'[g] = held[g] /\ pc'[g] = pc[g]
    BY <1>14 DEF DispatcherSelect
  <2>2. \/ pc'["dispatcher"] \in {"select", "close"} /\ held'["dispatcher"] = <<>>
        \/ pc'["dispatcher"] = "write" /\ held'["dispatcher"] = <<Head(source)>>
    BY <1>14 DEF DispatcherSelect
  <2>3. UNCHANGED <<disableCache, pipeline>>
    BY <1>14 DEF DispatcherSelect
  <2> QED
    BY <2>1, <2>2, <2>3, <1>a
<1>15. CASE WriteDestination
  BY <1>15 DEF WriteDestination
<1>16. CASE CloseChannel
  BY <1>16 DEF CloseChannel
<1>17. CASE Consume
  BY <1>17 DEF Consume
<1>26. CASE GetResponse
  <2>1. \A g \in {"reader", "cache", "dispatcher"} : pc'[g] = pc[g]
    BY <1>26 DEF GetResponse, Panic
  <2>2. UNCHANGED <<disableCache, pipeline, held>>
    BY <1>26 DEF GetResponse, Panic
  <2> QED
    BY <2>1, <2>2
<1>27. CASE RetriveData
  <2>1. \A g \in {"reader", "cache", "dispatcher"} : pc'[g] = pc[g]
    BY <1>27 DEF RetriveData, Panic
  <2>2. UNCHANGED <<disableCache, pipeline, held>>
    BY <1>27 DEF RetriveData, Panic
  <2> QED
    BY <2>1, <2>2
<1>28. CASE AppendToCache
  BY <1>28 DEF AppendToCache
<1>18. CASE Owner
  BY <1>18 DEF Owner
<1>19. CASE UNCHANGED vars
  BY <1>19 DEF vars
<1> QED
  BY <1>1, <1>2, <1>3, <1>4, <1>5, <1>6, <1>7, <1>8, <1>9, <1>10, <1>11, <1>12,
     <1>13, <1>14, <1>15, <1>16, <1>17, <1>18, <1>19, <1>24, <1>25, <1>26, <1>27, <1>28 DEF Next

LEMMA NextEnding == TInv /\ [Next]_vars => (Ending /\ SafeWhileOpen)'
<1> SUFFICES ASSUME TInv, [Next]_vars PROVE (Ending /\ SafeWhileOpen)'
  OBVIOUS
<1> USE DEF TInv, ClientTypeOK, Ending, SafeWhileOpen, Running, Goto, At, Goroutine, dataVars, dstVars
<1>1. CASE PeerSends
  BY <1>1 DEF PeerSends
<1>2. CASE PeerLost
  BY <1>2 DEF PeerLost
<1>3. CASE messageHandler
  BY <1>3 DEF messageHandler
<1>4. CASE readMessage
  BY <1>4 DEF readMessage
<1>5. CASE readError
  BY <1>5 DEF readError
<1>6. CASE AppendInput
  BY <1>6 DEF AppendInput
<1>7. CASE GetDefaultChannel
  <2>1. CASE pc["cache"] = "done" /\ Panic("nilChannel")
    <3>1. ctx
      BY <2>1
    <3> QED
      BY <2>1, <3>1 DEF Panic
  <2>2. CASE Goto("reader", "publish") /\ UNCHANGED <<ctx, channel, destination, panicked>>
    BY <2>2
  <2> QED
    BY <1>7, <2>1, <2>2 DEF GetDefaultChannel
<1>8. ASSUME NEW g \in Publisher, CheckClosed(g) PROVE (Ending /\ SafeWhileOpen)'
  BY <1>8 DEF CheckClosed, Publisher
<1>9. ASSUME NEW g \in Publisher, SendSource(g) PROVE (Ending /\ SafeWhileOpen)'
  BY <1>9, SMTT(30) DEF SendSource, Panic, Publisher
<1>10. CASE Tick
  BY <1>10 DEF Tick
<1>11. CASE SendPing
  BY <1>11 DEF SendPing, WritePing, WriteFails, HandlerGoes
<1>12. CASE ReceivePong
  BY <1>12 DEF ReceivePong, Count, HandlerGoes, MissMatch
<1>24. CASE ReceivePing
  BY <1>24 DEF ReceivePing, WritePing, WriteFails, HandlerGoes, Count, MissMatch
<1>25. CASE TimerOrContext
  BY <1>25 DEF TimerOrContext
<1>13. CASE CacheSelect
  BY <1>13 DEF CacheSelect
<1>14. CASE DispatcherSelect
  <2>1. UNCHANGED <<ctx, channel, panicked>> /\ pc'["cache"] = pc["cache"]
    BY <1>14 DEF DispatcherSelect, TakeMessage, AddDestination
  <2>2. pc["dispatcher"] = "select" /\ (pc'["dispatcher"] = "close" => ctx)
        /\ pc'["dispatcher"] # "done"
    BY <1>14 DEF DispatcherSelect, TakeMessage, AddDestination
  <2>3. channel = "closed" => pc["dispatcher"] # "select"
    OBVIOUS
  <2> QED
    BY <2>1, <2>2, <2>3
<1>15. CASE WriteDestination
  BY <1>15 DEF WriteDestination
<1>16. CASE CloseChannel
  BY <1>16 DEF CloseChannel
<1>17. CASE Consume
  BY <1>17 DEF Consume
<1>26. CASE GetResponse
  <2>1. CASE pc["cache"] = "done" /\ Panic("nilChannel")
    <3>1. ctx
      BY <2>1
    <3> QED
      BY <2>1, <3>1 DEF Panic
  <2>2. CASE /\ UNCHANGED <<ctx, channel, destination, panicked>>
             /\ \E p \in {"select", "send"} : Goto("consumer", p)
    BY <2>2
  <2> QED
    BY <1>26, <2>1, <2>2 DEF GetResponse
<1>27. CASE RetriveData
  BY <1>27 DEF RetriveData, Panic
<1>28. CASE AppendToCache
  BY <1>28 DEF AppendToCache
<1>18. CASE Owner
  BY <1>18 DEF Owner
<1>19. CASE UNCHANGED vars
  BY <1>19 DEF vars
<1> QED
  BY <1>1, <1>2, <1>3, <1>4, <1>5, <1>6, <1>7, <1>8, <1>9, <1>10, <1>11, <1>12,
     <1>13, <1>14, <1>15, <1>16, <1>17, <1>18, <1>19, <1>24, <1>25, <1>26, <1>27, <1>28 DEF Next

THEOREM TypeInvariance == Spec => []TInv
<1>1. TInv /\ [Next]_vars => TInv'
  BY NextPc, NextControl, NextData, NextPlaces, NextHands, NextEnding
     DEF TInv, ClientTypeOK, ControlTypes, DataTypes
<1> QED
  BY InitTInv, <1>1, PTL DEF Spec

(* Every variable has its type; in particular the heartbeat counter of the  *)
(* client never leaves -1..HeartbeatFailCount.                              *)
THEOREM TypeCorrect == Spec => []ClientTypeOK
  BY TypeInvariance, PTL DEF TInv

(* Neither a publisher of the client nor its consumer finds the channel     *)
(* closed or nil before the context has ended.                              *)
THEOREM SafeOpen == Spec => []SafeWhileOpen
  BY TypeInvariance, PTL DEF TInv

-----------------------------------------------------------------------------
(* The pongs on the wire.                                                   *)
PongPlaces(list) == {i \in DOMAIN list : list[i] = Pong}

LEMMA PongsAppended ==
  ASSUME NEW T, NEW list \in Seq(T), NEW m \in T
  PROVE  /\ Cardinality(PongPlaces(list)) \in Nat
         /\ m = Pong => Cardinality(PongPlaces(Append(list, m))) =
                           Cardinality(PongPlaces(list)) + 1
         /\ m # Pong => Cardinality(PongPlaces(Append(list, m))) =
                           Cardinality(PongPlaces(list))
<1>1. Len(list) \in Nat /\ DOMAIN list = 1..Len(list)
  OBVIOUS
<1>2. IsFiniteSet(PongPlaces(list))
  <2>1. PongPlaces(list) \in SUBSET (1..Len(list))
    BY <1>1 DEF PongPlaces
  <2>2. IsFiniteSet(1..Len(list))
    BY <1>1, FS_Interval
  <2> QED
    BY <2>1, <2>2, FS_Subset
<1>3. /\ DOMAIN Append(list, m) = 1..(Len(list) + 1)
      /\ \A i \in 1..Len(list) : Append(list, m)[i] = list[i]
      /\ Append(list, m)[Len(list) + 1] = m
  OBVIOUS
<1>4. CASE m = Pong
  <2>1. PongPlaces(Append(list, m)) = PongPlaces(list) \cup {Len(list) + 1}
    BY <1>1, <1>3, <1>4 DEF PongPlaces
  <2>2. Len(list) + 1 \notin PongPlaces(list)
    BY <1>1 DEF PongPlaces
  <2> QED
    BY <1>2, <1>4, <2>1, <2>2, FS_AddElement, FS_CardinalityType
<1>5. CASE m # Pong
  <2>1. PongPlaces(Append(list, m)) = PongPlaces(list)
    BY <1>1, <1>3, <1>5 DEF PongPlaces
  <2> QED
    BY <1>2, <1>5, <2>1, FS_CardinalityType
<1> QED
  BY <1>4, <1>5

LEMMA PongsReceived ==
  ASSUME NEW T, NEW list \in Seq(T), list # <<>>
  PROVE  /\ Head(list) = Pong => Cardinality(PongPlaces(list)) =
                                    Cardinality(PongPlaces(Tail(list))) + 1
         /\ Head(list) # Pong => Cardinality(PongPlaces(list)) =
                                    Cardinality(PongPlaces(Tail(list)))
<1>1. /\ Len(list) \in Nat \ {0} /\ DOMAIN list = 1..Len(list)
      /\ DOMAIN Tail(list) = 1..(Len(list) - 1)
      /\ \A i \in 1..(Len(list) - 1) : Tail(list)[i] = list[i + 1]
      /\ Head(list) = list[1]
  OBVIOUS
<1> DEFINE Rest == {i \in PongPlaces(list) : i # 1}
<1>2. IsFiniteSet(PongPlaces(list)) /\ IsFiniteSet(Rest)
  <2>1. PongPlaces(list) \in SUBSET (1..Len(list)) /\ Rest \in SUBSET (1..Len(list))
    BY <1>1 DEF PongPlaces
  <2>2. IsFiniteSet(1..Len(list))
    BY <1>1, FS_Interval
  <2> QED
    BY <2>1, <2>2, FS_Subset
<1>3. Cardinality(PongPlaces(Tail(list))) = Cardinality(Rest)
  <2> DEFINE back == [i \in Rest |-> i - 1]
  <2>1. \A i \in Rest : i \in 2..Len(list) /\ list[i] = Pong
    BY <1>1 DEF PongPlaces
  <2>2. \A i \in Rest : back[i] \in PongPlaces(Tail(list))
    BY <1>1, <2>1 DEF PongPlaces
  <2>3. \A i, j \in Rest : back[i] = back[j] => i = j
    BY <2>1
  <2>4. \A k \in PongPlaces(Tail(list)) : k + 1 \in Rest /\ back[k + 1] = k
    BY <1>1 DEF PongPlaces
  <2>5. back \in Bijection(Rest, PongPlaces(Tail(list)))
    BY <2>2, <2>3, <2>4, Fun_IsBij
  <2> QED
    BY <1>2, <2>5, FS_Bijection DEF ExistsBijection
<1>4. CASE Head(list) = Pong
  <2>1. PongPlaces(list) = Rest \cup {1} /\ 1 \notin Rest
    BY <1>1, <1>4 DEF PongPlaces
  <2> QED
    BY <1>2, <1>3, <1>4, <2>1, FS_AddElement
<1>5. CASE Head(list) # Pong
  <2>1. PongPlaces(list) = Rest
    BY <1>1, <1>5 DEF PongPlaces
  <2>2. Cardinality(Rest) \in Nat
    BY <1>2, FS_CardinalityType
  <2>3. Cardinality(PongPlaces(list)) = Cardinality(PongPlaces(Tail(list)))
    BY <1>3, <2>1
  <2> HIDE DEF Rest
  <2> QED
    BY <1>3, <1>5, <2>2, <2>3
<1> QED
  BY <1>4, <1>5

(* A handler that still counts has counted every ping without a pong; one   *)
(* that has given up on a peer that is there has reached the limit, or got  *)
(* more pongs than it has sent pings.                                       *)
Due == owed + PongsOnWire

Exact ==
    peer = "up" /\ ~reversHeartbeat =>
        /\ pc["heartbeat"] # "done" =>
              /\ pc["reader"] = "pong" => hbCounter = Due + 1
              /\ pc["reader"] # "pong" => hbCounter = Due
        /\ pc["heartbeat"] = "done" => hbCounter = HeartbeatFailCount \/ owed < 0
        /\ closeFlag => pc["heartbeat"] = "done"

LEMMA InitExact == Init => Exact
<1> SUFFICES ASSUME Init PROVE Exact
  OBVIOUS
<1>1. PongsOnWire = 0
  <2>1. {i \in DOMAIN wire : wire[i] = Pong} = {}
    BY DEF Init
  <2> QED
    BY <2>1, FS_EmptySet DEF PongsOnWire
<1> QED
  BY <1>1 DEF Init, Exact, Due, Goroutine

LEMMA ConfigKept == [Next]_vars => UNCHANGED cfgVars
  BY DEF Next, vars, cfgVars, PeerSends, PeerLost, messageHandler, readMessage, readError,
         AppendInput, GetDefaultChannel, CheckClosed, SendSource, Tick, TimerOrContext,
         SendPing, ReceivePong, ReceivePing, WritePing, CacheSelect, DispatcherSelect,
         WriteDestination, CloseChannel, GetResponse, RetriveData, Consume, AppendToCache,
         Owner, Panic

LEMMA NextExact == TInv /\ Exact /\ [Next]_vars => Exact'
<1> SUFFICES ASSUME TInv, Exact, [Next]_vars, ~reversHeartbeat PROVE Exact'
  BY ConfigKept DEF cfgVars, Exact
<1> DEFINE OnWire == Beat \cup Message
<1>a. /\ wire \in Seq(OnWire) /\ owed \in Int /\ PongsOnWire \in Nat
      /\ PongsOnWire = Cardinality(PongPlaces(wire))
      /\ pc \in [Goroutine -> Place]
      /\ pc["heartbeat"] \in {"select", "done"}
      /\ hbCounter \in Int /\ HeartbeatFailCount \in Nat \ {0}
  <2>1. wire \in Seq(OnWire) /\ Pong \in OnWire
    BY DEF TInv, ClientTypeOK, Beat
  <2>2. PongsOnWire = Cardinality(PongPlaces(wire))
    BY DEF PongsOnWire, PongPlaces
  <2>3. Cardinality(PongPlaces(wire)) \in Nat
    BY <2>1, PongsAppended
  <2> QED
    BY <2>1, <2>2, <2>3 DEF TInv, ClientTypeOK, ClientPlaces
<1> HIDE DEF OnWire
<1>b. PongsOnWire' = Cardinality(PongPlaces(wire'))
  BY DEF PongsOnWire, PongPlaces
<1>c. Due \in Int /\ (UNCHANGED <<wire, owed>> => UNCHANGED Due)
  BY <1>a, <1>b DEF Due
<1>1. CASE PeerSends
  <2>1. UNCHANGED <<peer, pc, hbCounter, closeFlag>>
    BY <1>1 DEF PeerSends, hbVars
  <2>2. ASSUME NEW m \in OnWire \ {Pong}, wire' = Append(wire, m), owed' = owed
        PROVE  Exact'
    <3>1. PongsOnWire' = PongsOnWire
      BY <1>a, <1>b, <2>2, PongsAppended
    <3>2. Due' = Due
      BY <2>2, <3>1 DEF Due
    <3> QED
      BY <2>1, <2>2, <3>2 DEF Exact
  <2>3. CASE sent < MaxData /\ wire' = Append(wire, sent + 1) /\ owed' = owed
    <3>1. sent + 1 \in OnWire \ {Pong}
      BY <2>3 DEF OnWire, Message, Pong, TInv, ClientTypeOK
    <3> QED
      BY <2>2, <2>3, <3>1
  <2>4. CASE wire' = Append(wire, Ping) /\ owed' = owed
    <3>1. Ping \in OnWire \ {Pong}
      BY DEF OnWire, Beat, Ping, Pong
    <3> QED
      BY <2>2, <2>4, <3>1
  <2>5. CASE owed' = owed - 1 /\ wire' = Append(wire, Pong)
    <3>1. Pong \in OnWire
      BY DEF OnWire, Beat
    <3>2. PongsOnWire' = PongsOnWire + 1
      BY <1>a, <1>b, <2>5, <3>1, PongsAppended
    <3>3. Due' = Due
      BY <1>a, <2>5, <3>2 DEF Due
    <3>4. owed < 0 => owed' < 0
      BY <1>a, <2>5
    <3> QED
      BY <2>1, <3>3, <3>4 DEF Exact
  <2> QED
    BY <1>1, <2>3, <2>4, <2>5 DEF PeerSends
<1>4. CASE readMessage
  <2>1. /\ UNCHANGED <<peer, owed, hbCounter, closeFlag, pc["heartbeat"]>>
        /\ pc["reader"] = "read" /\ wire # <<>> /\ wire' = Tail(wire)
        /\ \/ Head(wire) = Pong /\ pc'["reader"] = "pong"
           \/ Head(wire) # Pong /\ pc'["reader"] \in {"ping", "handle"}
    BY <1>4, <1>a DEF readMessage, At, Goto, hbVars, Goroutine, Beat, Ping, Pong
  <2>2. PongsOnWire' \in Nat
    <3>1. wire' \in Seq(OnWire)
      BY <1>a, <2>1
    <3>2. Pong \in OnWire
      BY DEF OnWire, Beat
    <3> QED
      BY <1>b, <3>1, <3>2, PongsAppended
  <2>3. /\ Head(wire) = Pong => PongsOnWire = PongsOnWire' + 1
        /\ Head(wire) # Pong => PongsOnWire = PongsOnWire'
    BY <1>a, <1>b, <2>1, PongsReceived
  <2>4. /\ Head(wire) = Pong => Due = Due' + 1
        /\ Head(wire) # Pong => Due = Due'
    BY <1>a, <2>1, <2>2, <2>3 DEF Due
  <2> QED
    BY <2>1, <2>4 DEF Exact
<1>5. CASE readError
  BY <1>5 DEF readError, Exact, peerVars
<1>d. ASSUME NEW g \in {"pinger", "reader"}, NEW p \in {"select", "read"}, WritePing(g, p),
             g = "reader" => pc["reader"] = "ping", pc["heartbeat"] = "select"
      PROVE  Exact'
  <2>1. CASE peer # "up"
    BY <1>d, <2>1 DEF WritePing, Exact
  <2>2. CASE peer = "up"
    <3>1. /\ owed' = owed + 1 /\ hbCounter' = hbCounter + 1
          /\ closeFlag' = (closeFlag \/ MissMatch(hbCounter'))
          /\ HandlerGoes(g, p) /\ UNCHANGED <<peer, wire>>
      BY <1>d, <2>2 DEF WritePing, WriteFails, Count
    <3>2. /\ pc'["reader"] = "pong" <=> pc["reader"] = "pong"
          /\ pc'["heartbeat"] = IF MissMatch(hbCounter') THEN "done" ELSE "select"
      BY <1>a, <1>d, <3>1 DEF HandlerGoes, Goroutine
    <3>3. hbCounter \in 0..(HeartbeatFailCount - 1)
      BY <1>d DEF TInv, Below
    <3>4. Due' = Due + 1
      <4>1. PongsOnWire' = PongsOnWire
        BY <1>a, <1>b, <3>1
      <4> QED
        BY <1>a, <3>1, <4>1 DEF Due
    <3>5. MissMatch(hbCounter + 1) <=> hbCounter + 1 = HeartbeatFailCount
      BY <1>a, <3>3 DEF MissMatch
    <3>6. CASE pc["reader"] = "pong"
      BY <1>a, <1>c, <1>d, <2>2, <3>1, <3>2, <3>4, <3>5, <3>6 DEF Exact
    <3>7. CASE pc["reader"] # "pong"
      BY <1>a, <1>c, <1>d, <2>2, <3>1, <3>2, <3>4, <3>5, <3>7 DEF Exact
    <3> QED
      BY <3>6, <3>7
  <2> QED
    BY <2>1, <2>2
<1>11. CASE SendPing
  BY <1>11, <1>d DEF SendPing, At
<1>24. CASE ReceivePing
  BY <1>24, <1>d DEF ReceivePing, At
<1>12. CASE ReceivePong
  <2>1. /\ hbCounter' = hbCounter - 1
        /\ closeFlag' = (closeFlag \/ MissMatch(hbCounter'))
        /\ pc["heartbeat"] = "select" /\ pc["reader"] = "pong"
        /\ UNCHANGED <<peer, owed, wire>>
    BY <1>12 DEF ReceivePong, Count, At, peerVars
  <2>2. /\ pc'["reader"] = "read"
        /\ pc'["heartbeat"] = IF MissMatch(hbCounter') THEN "done" ELSE "select"
    BY <1>12, <1>a DEF ReceivePong, HandlerGoes, Goroutine
  <2>3. hbCounter \in 0..(HeartbeatFailCount - 1)
    BY <2>1 DEF TInv, Below
  <2>4. Due' = Due
    BY <1>c, <2>1
  <2>5. CASE peer = "up"
    <3>1. hbCounter = Due + 1 /\ ~closeFlag
      BY <2>1, <2>5 DEF Exact
    <3>2. hbCounter' = Due'
      BY <1>a, <1>c, <2>1, <2>4, <3>1
    <3>3. MissMatch(hbCounter') => owed < 0
      BY <1>a, <2>1, <2>3, <2>4, <3>2 DEF MissMatch, Due
    <3> QED
      BY <2>1, <2>2, <3>1, <3>2, <3>3 DEF Exact
  <2> QED
    BY <2>1, <2>5 DEF Exact
<1>20. ASSUME NEW g \in Goroutine \ {"heartbeat"}, NEW p \in Place \ {"pong"},
              UNCHANGED <<wire, owed, hbCounter, closeFlag, peer>>,
              pc' = [pc EXCEPT ![g] = p], pc["reader"] = "pong" => g # "reader"
       PROVE  Exact'
  <2>1. pc'["heartbeat"] = pc["heartbeat"] /\ (pc'["reader"] = "pong" <=> pc["reader"] = "pong")
    BY <1>20, <1>a DEF Goroutine
  <2> QED
    BY <1>20, <1>c, <2>1 DEF Exact
<1>21. ASSUME UNCHANGED <<wire, owed, hbCounter, closeFlag, pc>>, peer' = "up" => peer = "up"
       PROVE  Exact'
  BY <1>21, <1>c DEF Exact
<1> USE DEF peerVars, hbVars, At, Goto, Panic
<1>22. Goroutine \ {"heartbeat"} = {"reader", "pinger", "cache", "dispatcher", "consumer"}
  BY DEF Goroutine
<1>23. {"select", "read", "handle", "publish", "send", "append", "stuck", "write", "close", "done"}
         \subseteq Place \ {"pong"}
  BY DEF Place
<1>2. CASE PeerLost
  BY <1>2, <1>21 DEF PeerLost
<1>3. CASE messageHandler
  BY <1>3, <1>20, <1>22, <1>23 DEF messageHandler
<1>6. CASE AppendInput
  BY <1>6, <1>20, <1>22, <1>23 DEF AppendInput
<1>7. CASE GetDefaultChannel
  BY <1>7, <1>20, <1>21, <1>22, <1>23 DEF GetDefaultChannel
<1>8. ASSUME NEW g \in Publisher, CheckClosed(g) PROVE Exact'
  BY <1>8, <1>20, <1>22, <1>23 DEF CheckClosed, Publisher
<1>9. ASSUME NEW g \in Publisher, SendSource(g) PROVE Exact'
  BY <1>9, <1>20, <1>21, <1>22, <1>23 DEF SendSource, Publisher
<1>10. CASE Tick
  BY <1>10, <1>20, <1>22, <1>23 DEF Tick
<1>25. CASE TimerOrContext
  BY <1>25 DEF TimerOrContext
<1>13. CASE CacheSelect
  BY <1>13, <1>20, <1>22, <1>23 DEF CacheSelect
<1>14. CASE DispatcherSelect
  BY <1>14, <1>20, <1>21, <1>22, <1>23 DEF DispatcherSelect, TakeMessage, AddDestination
<1>15. CASE WriteDestination
  BY <1>15, <1>20, <1>22, <1>23 DEF WriteDestination
<1>16. CASE CloseChannel
  BY <1>16, <1>20, <1>21, <1>22, <1>23 DEF CloseChannel
<1>17. CASE Consume
  BY <1>17, <1>20, <1>21, <1>22, <1>23 DEF Consume
<1>26. CASE GetResponse
  BY <1>26, <1>20, <1>21, <1>22, <1>23 DEF GetResponse
<1>27. CASE RetriveData
  BY <1>27, <1>20, <1>21, <1>22, <1>23 DEF RetriveData
<1>28. CASE AppendToCache
  BY <1>28, <1>20, <1>22, <1>23 DEF AppendToCache
<1>18. CASE Owner
  BY <1>18, <1>21 DEF Owner
<1>19. CASE UNCHANGED vars
  BY <1>19, <1>21 DEF vars
<1> QED
  BY <1>1, <1>2, <1>3, <1>4, <1>5, <1>6, <1>7, <1>8, <1>9, <1>10, <1>11, <1>12,
     <1>13, <1>14, <1>15, <1>16, <1>17, <1>18, <1>19, <1>24, <1>25, <1>26, <1>27, <1>28 DEF Next

(* The client counts the pings of a peer that is there exactly, and gives   *)
(* it up only at the limit, whatever the limit and the order of steps, as   *)
(* long as the peer sends no more pongs than it was sent pings.             *)
THEOREM PeerKept == Spec => []HonestPeerKept
<1>1. TInv /\ Exact => HonestPeerKept
  <2> SUFFICES ASSUME TInv, Exact PROVE HonestPeerKept
    OBVIOUS
  <2>1. owed \in Int /\ PongsOnWire \in Nat
    <3>1. wire \in Seq(Beat \cup Message) /\ Pong \in Beat \cup Message
      BY DEF TInv, ClientTypeOK, Beat
    <3>2. Cardinality(PongPlaces(wire)) \in Nat
      BY <3>1, PongsAppended
    <3> QED
      BY <3>2 DEF TInv, ClientTypeOK, PongsOnWire, PongPlaces
  <2>2. CASE pc["reader"] = "pong"
    BY <2>1, <2>2 DEF Exact, Due, HonestPeerKept
  <2>3. CASE pc["reader"] # "pong"
    BY <2>1, <2>3 DEF Exact, Due, HonestPeerKept
  <2> QED
    BY <2>2, <2>3
<1> QED
  BY TypeInvariance, InitExact, NextExact, <1>1, PTL DEF Spec

-----------------------------------------------------------------------------
(* The stream, stage by stage from the consumer to the reader.              *)
ToConsumer == got \o dest
ToDispatcher == ToConsumer \o held["dispatcher"]
ToSource == ToDispatcher \o source
ToCache == ToSource \o held["cache"]
ToPipeline == ToCache \o pipeline

LEMMA ArrivedStages == Arrived = ToPipeline \o held["reader"]
  BY DEF Arrived, ToPipeline, ToCache, ToSource, ToDispatcher, ToConsumer

LEMMA StageTypes ==
  ASSUME TInv
  PROVE  /\ got \in Seq(Message) /\ dest \in Seq(Message) /\ source \in Seq(Message)
         /\ pipeline \in Seq(Message) /\ held["reader"] \in Seq(Message)
         /\ held["cache"] \in Seq(Message) /\ held["dispatcher"] \in Seq(Message)
         /\ ToConsumer \in Seq(Message) /\ ToDispatcher \in Seq(Message)
         /\ ToSource \in Seq(Message) /\ ToCache \in Seq(Message)
         /\ ToPipeline \in Seq(Message) /\ Arrived \in Seq(Message)
<1>1. /\ got \in Seq(Message) /\ dest \in Seq(Message) /\ source \in Seq(Message)
      /\ pipeline \in Seq(Message) /\ held["reader"] \in Seq(Message)
      /\ held["cache"] \in Seq(Message) /\ held["dispatcher"] \in Seq(Message)
  BY DEF TInv, ClientTypeOK, Goroutine
<1>2. \A p, q \in Seq(Message) : p \o q \in Seq(Message)
  BY QueueTypes
<1>3. ToConsumer \in Seq(Message)
  BY <1>1, <1>2 DEF ToConsumer
<1>4. ToDispatcher \in Seq(Message)
  BY <1>1, <1>2, <1>3 DEF ToDispatcher
<1>5. ToSource \in Seq(Message)
  BY <1>1, <1>2, <1>4 DEF ToSource
<1>6. ToCache \in Seq(Message)
  BY <1>1, <1>2, <1>5 DEF ToCache
<1>7. ToPipeline \in Seq(Message)
  BY <1>1, <1>2, <1>6 DEF ToPipeline
<1>8. Arrived \in Seq(Message)
  BY <1>1, <1>2, <1>7, ArrivedStages
<1> QED
  BY <1>1, <1>3, <1>4, <1>5, <1>6, <1>7, <1>8

(* A message that goes from one stage to the next changes neither's sum.    *)
LEMMA PassedOn ==
  ASSUME NEW S, NEW p \in Seq(S), NEW q \in Seq(S)
  PROVE  /\ p \o <<>> = p
         /\ q # <<>> => /\ (p \o <<Head(q)>>) \o Tail(q) = (p \o <<>>) \o q
                        /\ Append(p, Head(q)) \o Tail(q) = p \o q
<1>1. p \o <<>> = p
  OBVIOUS
<1>2. ASSUME q # <<>> PROVE Append(p, Head(q)) \o Tail(q) = p \o q
  BY <1>2, SMTT(30)
<1>3. ASSUME q # <<>> PROVE p \o <<Head(q)>> = Append(p, Head(q))
  <2>1. Head(q) \in S
    BY <1>3
  <2> QED
    BY <2>1, AppendIsConcat
<1> QED
  BY <1>1, <1>2, <1>3

LEMMA Concatenated ==
  ASSUME NEW S, NEW p \in Seq(S), NEW q \in Seq(S)
  PROVE  /\ Len(p) \in Nat /\ DOMAIN p = 1..Len(p)
         /\ Len(q) \in Nat /\ DOMAIN q = 1..Len(q)
         /\ Len(p \o q) = Len(p) + Len(q) /\ DOMAIN (p \o q) = 1..(Len(p) + Len(q))
         /\ \A i \in 1..Len(p) : (p \o q)[i] = p[i]
         /\ \A i \in 1..Len(q) : (p \o q)[Len(p) + i] = q[i]
  OBVIOUS

LEMMA FollowPrefix ==
  ASSUME NEW S, NEW p \in Seq(S), NEW q \in Seq(S), NEW n \in Nat, FollowOn(p \o q, n)
  PROVE  FollowOn(p, n)
<1>1. /\ DOMAIN p = 1..Len(p) /\ DOMAIN (p \o q) = 1..(Len(p) + Len(q))
      /\ \A i \in 1..Len(p) : (p \o q)[i] = p[i]
      /\ Len(p) \in Nat /\ Len(q) \in Nat
  BY Concatenated
<1>2. \A i \in 1..Len(p) : i \in 1..(Len(p) + Len(q))
  BY <1>1
<1> QED
  BY <1>1, <1>2 DEF FollowOn

LEMMA FollowNext ==
  ASSUME NEW p \in Seq(Message), NEW m \in Message, NEW n \in Nat, FollowOn(p, n),
         m = n + Len(p) + 1
  PROVE  FollowOn(p \o <<m>>, n) /\ Len(p \o <<m>>) = Len(p) + 1
<1>1. p \o <<m>> = Append(p, m)
  BY AppendIsConcat
<1>2. /\ DOMAIN p = 1..Len(p) /\ Len(p) \in Nat
      /\ DOMAIN Append(p, m) = 1..(Len(p) + 1) /\ Len(Append(p, m)) = Len(p) + 1
      /\ \A i \in 1..Len(p) : Append(p, m)[i] = p[i]
      /\ Append(p, m)[Len(p) + 1] = m
  OBVIOUS
<1>3. \A i \in 1..(Len(p) + 1) : i \in 1..Len(p) \/ i = Len(p) + 1
  BY <1>2
<1>4. n + (Len(p) + 1) = m
  BY <1>2
<1>5. ASSUME NEW i \in 1..(Len(p) + 1) PROVE Append(p, m)[i] = n + i
  <2>1. CASE i \in 1..Len(p)
    BY <1>2, <2>1 DEF FollowOn
  <2>2. CASE i = Len(p) + 1
    BY <1>2, <1>4, <2>2
  <2> QED
    BY <1>3, <2>1, <2>2
<1> QED
  BY <1>1, <1>2, <1>5 DEF FollowOn

LEMMA FollowRest ==
  ASSUME NEW p \in Seq(Message), NEW q \in Seq(Message), NEW n \in Nat, FollowOn(p \o q, n)
  PROVE  FollowOn(q, n + Len(p))
<1>1. /\ DOMAIN q = 1..Len(q) /\ DOMAIN (p \o q) = 1..(Len(p) + Len(q))
      /\ \A i \in 1..Len(q) : (p \o q)[Len(p) + i] = q[i]
      /\ Len(p) \in Nat /\ Len(q) \in Nat
  BY Concatenated
<1>2. \A i \in 1..Len(q) : /\ Len(p) + i \in 1..(Len(p) + Len(q))
                          /\ n + (Len(p) + i) = (n + Len(p)) + i
  BY <1>1
<1> QED
  BY <1>1, <1>2 DEF FollowOn

-----------------------------------------------------------------------------
(* Until the dispatcher has handled the breakpoint nothing has reached the  *)
(* consumer, and what is ahead of the breakpoint is in the source.          *)
Registering ==
    /\ pc["consumer"] \in {"get", "send"} => destination = "none"
    /\ destination = "asked" => ahead <= Len(source)
    /\ destination \in {"none", "asked"} => got = <<>> /\ dest = <<>>
    /\ TooEarly \in 0..unheard

(* The message before the first that has arrived and not been dispatched to *)
(* nobody.                                                                  *)
Base == unheard - TooEarly

LEMMA EarlyCases ==
  TooEarly = IF destination = "none" THEN Len(held["dispatcher"]) + Len(source)
             ELSE IF destination = "asked" THEN Len(held["dispatcher"]) + ahead ELSE 0
  BY DEF TooEarly

LEMMA InitRegistering == Init => Registering
<1> SUFFICES ASSUME Init PROVE Registering
  OBVIOUS
<1>1. held["dispatcher"] = <<>> /\ source = <<>> /\ destination = "none" /\ unheard = 0
  BY DEF Init, Goroutine
<1>2. TooEarly = 0
  BY <1>1, EarlyCases
<1> QED
  BY <1>1, <1>2 DEF Init, Registering

(* A step of the dispatcher that writes a message to nobody.                *)
Dropping ==
    /\ destination \in {"none", "asked"}
    /\ pc["dispatcher"] = "write" /\ pc'["dispatcher"] # "write"

LEMMA NextRegistering ==
  ASSUME TInv, TInv', Registering, [Next]_vars
  PROVE  Registering' /\ Base' = IF Dropping THEN Base + 1 ELSE Base
<1> DEFINE Goal == Registering' /\ Base' = IF Dropping THEN Base + 1 ELSE Base
<1> SUFFICES Goal
  OBVIOUS
<1>t. /\ pc \in [Goroutine -> Place] /\ held \in [Goroutine -> Seq(Message)]
      /\ {"reader", "pinger", "heartbeat", "cache", "dispatcher", "consumer"} = Goroutine
      /\ Len(source) \in Nat /\ Len(held["dispatcher"]) \in Nat
      /\ ahead \in Nat /\ unheard \in Nat /\ ahead' \in Nat /\ unheard' \in Nat
      /\ source \in Seq(Message)
  <2>1. held["dispatcher"] \in Seq(Message) /\ source \in Seq(Message)
    BY DEF TInv, ClientTypeOK, Goroutine
  <2> QED
    BY <2>1, LenProperties DEF TInv, ClientTypeOK, Goroutine
<1>e. TooEarly' = IF destination' = "none" THEN Len(held'["dispatcher"]) + Len(source')
                  ELSE IF destination' = "asked" THEN Len(held'["dispatcher"]) + ahead' ELSE 0
  BY DEF TooEarly
<1>f. TooEarly \in 0..unheard /\ TooEarly \in Nat /\ Base \in Nat
  BY <1>t DEF Registering, Base
<1>a. ASSUME UNCHANGED <<destination, ahead, unheard, got, dest, source>>,
             held'["dispatcher"] = held["dispatcher"], pc'["dispatcher"] = pc["dispatcher"],
             pc'["consumer"] = pc["consumer"] \/ pc'["consumer"] \notin {"get", "send"}
                                              \/ destination = "none"
      PROVE  Goal
  <2>1. TooEarly' = TooEarly
    BY <1>a, <1>e, EarlyCases
  <2> QED
    BY <1>a, <2>1 DEF Registering, Base, Dropping
<1> HIDE DEF Goal
<1> USE DEF peerVars, hbVars, dataVars, dstVars, At, Goto, Hold, Panic
<1>1. CASE PeerSends
  BY <1>1, <1>a DEF PeerSends
<1>2. CASE PeerLost
  BY <1>2, <1>a DEF PeerLost
<1>3. CASE messageHandler
  BY <1>3, <1>a, <1>t DEF messageHandler
<1>4. CASE readMessage
  BY <1>4, <1>a, <1>t DEF readMessage
<1>5. CASE readError
  BY <1>5, <1>a, <1>t DEF readError
<1>6. CASE AppendInput
  BY <1>6, <1>a, <1>t DEF AppendInput
<1>7. CASE GetDefaultChannel
  BY <1>7, <1>a, <1>t DEF GetDefaultChannel
<1>8. ASSUME NEW g \in Publisher, CheckClosed(g) PROVE Goal
  <2>1. g \in {"reader", "cache"}
    BY DEF Publisher
  <2> QED
    BY <1>8, <1>a, <1>t, <2>1 DEF CheckClosed
<1>9. ASSUME NEW g \in Publisher, SendSource(g) PROVE Goal
  <2>1. g \in {"reader", "cache"}
    BY DEF Publisher
  <2>2. CASE Panic("closedSource")
    BY <1>a, <2>2
  <2>3. CASE /\ source' = source \o held[g] /\ pc[g] = "send"
             /\ unheard' = IF destination = "none" THEN unheard + 1 ELSE unheard
             /\ pc' = [pc EXCEPT ![g] = "select"] /\ held' = [held EXCEPT ![g] = <<>>]
             /\ UNCHANGED <<destination, ahead, got, dest>>
    <3>1. held[g] \in Seq(Message) /\ Len(held[g]) = 1
      BY <1>t, <2>1, <2>3 DEF TInv, Hands, Holding
    <3>2. Len(source') = Len(source) + 1
      <4>1. \A h \in Seq(Message) : Len(source \o h) = Len(source) + Len(h)
        BY <1>t, Concatenated
      <4> QED
        BY <2>3, <3>1, <4>1
    <3>3. /\ held'["dispatcher"] = held["dispatcher"] /\ pc'["dispatcher"] = pc["dispatcher"]
          /\ pc'["consumer"] = pc["consumer"]
      BY <1>t, <2>1, <2>3
    <3>4. CASE destination = "none"
      <4>1. TooEarly' = TooEarly + 1
        <5>1. TooEarly = Len(held["dispatcher"]) + Len(source)
          BY <3>4, EarlyCases
        <5>2. TooEarly' = Len(held["dispatcher"]) + (Len(source) + 1)
          BY <1>e, <2>3, <3>2, <3>3, <3>4
        <5>3. \A k, l \in Nat : k + (l + 1) = (k + l) + 1
          OBVIOUS
        <5> QED
          BY <1>t, <5>1, <5>2, <5>3, Zenon
      <4>2. TooEarly' \in 0..unheard' /\ Base' = Base
        BY <1>f, <1>t, <2>3, <3>4, <4>1 DEF Base
      <4> QED
        BY <2>3, <3>3, <3>4, <4>2 DEF Registering, Goal, Dropping
    <3>5. CASE destination # "none"
      <4>1. TooEarly' = TooEarly
        BY <1>e, <2>3, <3>3, <3>5, EarlyCases
      <4>2. destination = "asked" => ahead <= Len(source')
        BY <1>t, <3>2 DEF Registering
      <4> QED
        BY <2>3, <3>3, <3>5, <4>1, <4>2 DEF Registering, Goal, Dropping, Base
    <3> QED
      BY <3>4, <3>5
  <2> QED
    BY <1>9, <2>2, <2>3 DEF SendSource
<1>10. CASE Tick
  BY <1>10, <1>a, <1>t DEF Tick
<1>25. CASE TimerOrContext
  BY <1>25, <1>a, <1>t DEF TimerOrContext
<1>11. CASE SendPing
  BY <1>11, <1>a, <1>t DEF SendPing, WritePing, WriteFails, HandlerGoes
<1>12. CASE ReceivePong
  BY <1>12, <1>a, <1>t DEF ReceivePong, HandlerGoes
<1>24. CASE ReceivePing
  BY <1>24, <1>a, <1>t DEF ReceivePing, WritePing, WriteFails, HandlerGoes
<1>13. CASE CacheSelect
  BY <1>13, <1>a, <1>t DEF CacheSelect
<1>14. CASE DispatcherSelect
  <2>1. pc["dispatcher"] = "select" /\ held["dispatcher"] = <<>> /\ Len(held["dispatcher"]) = 0
    BY <1>14 DEF DispatcherSelect, TInv, Hands, Holding
  <2>2. pc'["consumer"] = pc["consumer"] /\ UNCHANGED <<unheard, got, dest>> /\ ~Dropping
    BY <1>14, <1>t, <2>1 DEF DispatcherSelect, TakeMessage, AddDestination, Dropping
  <2>3. CASE TakeMessage
    <3>1. /\ source # <<>> /\ source' = Tail(source) /\ UNCHANGED destination
          /\ held'["dispatcher"] = <<Head(source)>>
          /\ destination = "asked" => ahead # 0 /\ ahead' = ahead - 1
      BY <1>t, <2>3 DEF TakeMessage
    <3>2. Len(source) # 0 /\ Len(source') = Len(source) - 1 /\ Len(held'["dispatcher"]) = 1
      BY <1>t, <3>1
    <3>3. TooEarly' = TooEarly
      <4>1. CASE destination = "none"
        <5>1. TooEarly = 0 + Len(source) /\ TooEarly' = 1 + (Len(source) - 1)
          BY <1>e, <2>1, <3>1, <3>2, <4>1, EarlyCases
        <5> QED
          BY <1>t, <5>1
      <4>2. CASE destination = "asked"
        <5>1. TooEarly = 0 + ahead /\ TooEarly' = 1 + (ahead - 1)
          BY <1>e, <2>1, <3>1, <3>2, <4>2, EarlyCases
        <5> QED
          BY <1>t, <5>1
      <4>3. CASE destination \notin {"none", "asked"}
        BY <1>e, <3>1, <4>3, EarlyCases
      <4> QED
        BY <4>1, <4>2, <4>3
    <3>4. destination = "asked" => ahead' <= Len(source')
      BY <1>t, <3>1, <3>2 DEF Registering
    <3> QED
      BY <2>2, <3>1, <3>3, <3>4 DEF Registering, Goal, Base
  <2>4. CASE AddDestination
    <3>1. TooEarly = 0 /\ TooEarly' = 0 /\ destination' = "open" /\ destination = "asked"
      BY <1>e, <1>t, <2>1, <2>4, EarlyCases DEF AddDestination
    <3> QED
      BY <1>f, <2>2, <3>1 DEF Registering, Goal, Base
  <2>5. CASE /\ pc' = [pc EXCEPT !["dispatcher"] = "close"]
             /\ UNCHANGED <<held, source, destination, ahead>>
    <3>1. TooEarly' = TooEarly
      BY <1>e, <2>5, EarlyCases
    <3> QED
      BY <2>2, <2>5, <3>1 DEF Registering, Goal, Base
  <2> QED
    BY <1>14, <2>3, <2>4, <2>5 DEF DispatcherSelect
<1>15. CASE WriteDestination
  <2>1. /\ pc["dispatcher"] = "write" /\ Len(held["dispatcher"]) = 1
        /\ pc'["dispatcher"] = "select" /\ pc'["consumer"] = pc["consumer"]
        /\ held'["dispatcher"] = <<>> /\ Len(held'["dispatcher"]) = 0
        /\ UNCHANGED <<source, ahead, unheard, got>>
    BY <1>15, <1>t DEF WriteDestination, TInv, Hands, Holding
  <2>2. CASE destination \in {"none", "asked"}
    <3>1. UNCHANGED <<dest, destination>> /\ Dropping
      BY <1>15, <2>1, <2>2 DEF WriteDestination, Dropping
    <3>2. TooEarly' = TooEarly - 1 /\ TooEarly \in Nat \ {0}
      BY <1>e, <1>t, <2>1, <2>2, <3>1, EarlyCases
    <3>3. TooEarly' \in 0..unheard' /\ Base' = Base + 1
      BY <1>f, <1>t, <2>1, <3>2 DEF Base
    <3> QED
      BY <2>1, <2>2, <3>1, <3>3 DEF Registering, Goal
  <2>3. CASE destination \notin {"none", "asked"}
    <3>1. destination' \in {"open", "closed"} /\ ~Dropping
      BY <1>15, <2>3 DEF WriteDestination, Dropping, TInv, ClientTypeOK
    <3>2. TooEarly' = 0 /\ TooEarly = 0
      BY <1>e, <2>3, <3>1, EarlyCases
    <3>3. pc["consumer"] \notin {"get", "send"}
      BY <2>3 DEF Registering
    <3> QED
      BY <1>f, <1>t, <2>1, <3>1, <3>2, <3>3 DEF Registering, Goal, Base
  <2> QED
    BY <2>2, <2>3
<1>16. CASE CloseChannel
  <2>1. /\ pc["dispatcher"] = "close" /\ pc'["consumer"] = pc["consumer"]
        /\ UNCHANGED <<source, ahead, unheard, got, dest, held>>
        /\ destination' = destination \/ (destination = "open" /\ destination' = "closed")
    BY <1>16, <1>t DEF CloseChannel
  <2>2. TooEarly' = TooEarly
    BY <1>e, <2>1, EarlyCases
  <2> QED
    BY <2>1, <2>2 DEF Registering, Goal, Base, Dropping
<1>17. CASE Consume
  <2>1. /\ pc["consumer"] = "select" /\ pc'["consumer"] \notin {"get", "send"}
        /\ pc'["dispatcher"] = pc["dispatcher"]
        /\ UNCHANGED <<source, ahead, unheard, destination, held>>
    BY <1>17, <1>t DEF Consume
  <2>2. TooEarly' = TooEarly
    BY <1>e, <2>1, EarlyCases
  <2>3. destination \in {"none", "asked"} => UNCHANGED <<got, dest>>
    BY <1>17 DEF Consume, Registering
  <2> QED
    BY <2>1, <2>2, <2>3 DEF Registering, Goal, Base, Dropping
<1>26. CASE GetResponse
  <2>1. destination = "none"
    BY <1>26 DEF GetResponse, Registering
  <2> QED
    BY <1>26, <1>a, <1>t, <2>1 DEF GetResponse
<1>27. CASE RetriveData
  <2>1. pc["consumer"] = "send" /\ destination = "none"
    BY <1>27 DEF RetriveData, Registering
  <2>2. CASE Panic("closedSource")
    BY <1>a, <2>2
  <2>3. CASE /\ destination' = "asked" /\ ahead' = Len(source)
             /\ pc' = [pc EXCEPT !["consumer"] = "select"]
             /\ UNCHANGED <<held, source, dest, got, unheard>>
    <3>1. TooEarly' = TooEarly
      BY <1>e, <2>1, <2>3, EarlyCases
    <3>2. pc'["consumer"] = "select" /\ pc'["dispatcher"] = pc["dispatcher"]
      BY <1>t, <2>3
    <3> QED
      BY <1>t, <2>1, <2>3, <3>1, <3>2 DEF Registering, Goal, Base, Dropping
  <2> QED
    BY <1>27, <2>2, <2>3 DEF RetriveData
<1>28. CASE AppendToCache
  <2>1. pc'["consumer"] \notin {"get", "send"}
    BY <1>28, <1>t DEF AppendToCache
  <2> QED
    BY <1>28, <1>a, <1>t, <2>1 DEF AppendToCache
<1>18. CASE Owner
  BY <1>18, <1>a DEF Owner
<1>19. CASE UNCHANGED vars
  BY <1>19, <1>a DEF vars
<1> QED
  BY <1>1, <1>2, <1>3, <1>4, <1>5, <1>6, <1>7, <1>8, <1>9, <1>10, <1>11, <1>12,
     <1>13, <1>14, <1>15, <1>16, <1>17, <1>18, <1>19, <1>24, <1>25, <1>26, <1>27, <1>28 DEF Next

LEMMA Registration == Spec => []Registering
<1>1. TInv /\ TInv' /\ Registering /\ [Next]_vars => Registering'
  BY NextRegistering
<1> QED
  BY TypeInvariance, InitRegistering, <1>1, PTL DEF Spec

(* The wire carries the messages after the n-th, in order.                  *)
WireFrom(n) ==
    /\ n <= sent
    /\ {wire[i] : i \in DOMAIN wire} \ Beat = (n + 1)..sent
    /\ \A i, j \in DOMAIN wire :
          i < j /\ wire[i] \notin Beat /\ wire[j] \notin Beat => wire[i] < wire[j]

Flowing == channel # "closed" /\ destination # "closed"

Stream ==
    /\ FollowOn(ToConsumer, unheard)
    /\ Flowing => FollowOn(Arrived, Base) /\ WireFrom(Base + Len(Arrived))

LEMMA StreamIsWhole == Stream => NothingLost
<1> SUFFICES ASSUME Stream, Flowing PROVE NothingLost
  BY DEF Flowing, NothingLost
<1>1. FollowOn(Arrived, unheard - TooEarly) /\ WireFrom(unheard - TooEarly + Len(Arrived))
  BY DEF Stream, Base
<1>2. \A x, y : {x, y} \cap Beat = {} => x \notin Beat /\ y \notin Beat
  OBVIOUS
<1> QED
  BY <1>1, <1>2 DEF NothingLost, WireFrom

LEMMA InitStream == Init => Stream
<1> SUFFICES ASSUME Init PROVE Stream
  OBVIOUS
<1>1. \A g \in Goroutine : held[g] = <<>>
  BY DEF Init
<1>2. ToConsumer = <<>> /\ Arrived = <<>> /\ TooEarly = 0
  BY <1>1, EarlyCases DEF Init, ToConsumer, Arrived, Goroutine
<1>3. WireFrom(0)
  BY DEF Init, WireFrom
<1>4. Base = 0 /\ Base + Len(Arrived) = 0
  BY <1>2 DEF Init, Base
<1>5. \A n \in Nat : FollowOn(<<>>, n)
  BY DEF FollowOn
<1> QED
  BY <1>2, <1>3, <1>4, <1>5 DEF Stream, Init

LEMMA WireReceived ==
  ASSUME NEW T, wire \in Seq(T), wire # <<>>, NEW n \in Nat, WireFrom(n),
         sent \in Nat, wire' = Tail(wire), UNCHANGED sent
  PROVE  /\ Head(wire) \in Beat => WireFrom(n)'
         /\ Head(wire) \notin Beat => Head(wire) = n + 1 /\ WireFrom(n + 1)'
<1>1. /\ Len(wire) \in Nat \ {0} /\ DOMAIN wire = 1..Len(wire)
      /\ DOMAIN Tail(wire) = 1..(Len(wire) - 1)
      /\ \A i \in 1..(Len(wire) - 1) : Tail(wire)[i] = wire[i + 1]
      /\ Head(wire) = wire[1]
  OBVIOUS
<1>2. {wire[i] : i \in DOMAIN wire} = {wire[1]} \cup {wire'[i] : i \in DOMAIN wire'}
  <2>1. \A i \in DOMAIN wire : i # 1 => i - 1 \in DOMAIN wire' /\ wire'[i - 1] = wire[i]
    <3>1. \A i \in DOMAIN wire : i # 1 => i - 1 \in 1..(Len(wire) - 1) /\ (i - 1) + 1 = i
      BY <1>1
    <3> QED
      BY <1>1, <3>1
  <2>2. \A i \in DOMAIN wire' : i + 1 \in DOMAIN wire /\ wire'[i] = wire[i + 1]
    BY <1>1
  <2>3. 1 \in DOMAIN wire
    BY <1>1
  <2>4. ASSUME NEW x, x \in {wire[i] : i \in DOMAIN wire}
        PROVE  x \in {wire[1]} \cup {wire'[i] : i \in DOMAIN wire'}
    <3>1. PICK i \in DOMAIN wire : x = wire[i]
      BY <2>4
    <3>2. CASE i = 1
      BY <3>1, <3>2
    <3>3. CASE i # 1
      BY <2>1, <3>1, <3>3
    <3> QED
      BY <3>2, <3>3
  <2>5. ASSUME NEW x, x \in {wire[1]} \cup {wire'[i] : i \in DOMAIN wire'}
        PROVE  x \in {wire[i] : i \in DOMAIN wire}
    <3>1. CASE x = wire[1]
      BY <2>3, <3>1
    <3>2. CASE x # wire[1]
      <4>1. PICK i \in DOMAIN wire' : x = wire'[i]
        BY <2>5, <3>2
      <4> QED
        BY <2>2, <4>1
    <3> QED
      BY <3>1, <3>2
  <2> QED
    BY <2>4, <2>5
<1>3. \A i, j \in DOMAIN wire' :
        i < j /\ wire'[i] \notin Beat /\ wire'[j] \notin Beat => wire'[i] < wire'[j]
  <2>1. \A i \in DOMAIN wire' : i \in Int /\ i + 1 \in DOMAIN wire /\ wire'[i] = wire[i + 1]
    BY <1>1
  <2>2. \A i, j \in DOMAIN wire' : i < j => i + 1 < j + 1
    BY <2>1
  <2> QED
    BY <2>1, <2>2 DEF WireFrom
<1>4. ASSUME Head(wire) \in Beat PROVE WireFrom(n)'
  BY <1>1, <1>2, <1>3, <1>4 DEF WireFrom
<1>5. ASSUME Head(wire) \notin Beat PROVE Head(wire) = n + 1 /\ WireFrom(n + 1)'
  <2>1. wire[1] \in (n + 1)..sent
    BY <1>1, <1>2, <1>5 DEF WireFrom
  <2>2. \A i \in DOMAIN wire : i # 1 /\ wire[i] \notin Beat => wire[1] < wire[i]
    <3>1. \A i \in DOMAIN wire : i # 1 => 1 < i
      BY <1>1
    <3>2. 1 \in DOMAIN wire /\ wire[1] \notin Beat
      BY <1>1, <1>5
    <3> QED
      BY <3>1, <3>2 DEF WireFrom
  <2>3. wire[1] = n + 1
    <3>1. n + 1 \in (n + 1)..sent
      BY <2>1
    <3>2. PICK i \in DOMAIN wire : wire[i] = n + 1 /\ wire[i] \notin Beat
      BY <3>1 DEF WireFrom
    <3> QED
      BY <2>1, <2>2, <3>2
  <2>4. {wire'[i] : i \in DOMAIN wire'} \ Beat = (n + 2)..sent
    <3>1. \A i \in DOMAIN wire' : wire'[i] \notin Beat => n + 1 < wire'[i]
      <4>1. \A i \in DOMAIN wire' : i + 1 \in DOMAIN wire /\ i + 1 # 1 /\ wire'[i] = wire[i + 1]
        BY <1>1
      <4> QED
        BY <2>2, <2>3, <4>1
    <3>2. n + 1 \notin {wire'[i] : i \in DOMAIN wire'} \ Beat
      BY <3>1
    <3>3. {wire'[i] : i \in DOMAIN wire'} \ Beat = ((n + 1)..sent) \ {n + 1}
      BY <1>2, <1>5, <2>3, <3>2 DEF WireFrom
    <3>4. ((n + 1)..sent) \ {n + 1} = (n + 2)..sent
      OBVIOUS
    <3> QED
      BY <3>3, <3>4
  <2>5. n + 1 <= sent' /\ (n + 1) + 1 = n + 2
    BY <2>1, <2>3
  <2> QED
    BY <1>1, <1>3, <2>3, <2>4, <2>5 DEF WireFrom
<1> QED
  BY <1>4, <1>5

LEMMA WireSent ==
  ASSUME NEW T, wire \in Seq(T), sent \in Nat, NEW n \in Nat, WireFrom(n),
         NEW m \in T, wire' = Append(wire, m),
         (m \in Beat /\ sent' = sent) \/ (m = sent + 1 /\ sent' = sent + 1)
  PROVE  WireFrom(n)'
<1>1. /\ Len(wire) \in Nat /\ DOMAIN wire = 1..Len(wire)
      /\ DOMAIN wire' = 1..(Len(wire) + 1)
      /\ \A i \in 1..Len(wire) : wire'[i] = wire[i]
      /\ wire'[Len(wire) + 1] = m
  OBVIOUS
<1>2. {wire'[i] : i \in DOMAIN wire'} = {wire[i] : i \in DOMAIN wire} \cup {m}
  <2>1. \A i \in DOMAIN wire' : IF i \in DOMAIN wire THEN wire'[i] = wire[i] ELSE wire'[i] = m
    BY <1>1
  <2>2. DOMAIN wire \subseteq DOMAIN wire' /\ Len(wire) + 1 \in DOMAIN wire'
    BY <1>1
  <2> QED
    BY <1>1, <2>1, <2>2
<1>3. {wire'[i] : i \in DOMAIN wire'} \ Beat = (n + 1)..sent'
  <2>1. CASE m \in Beat /\ sent' = sent
    BY <1>2, <2>1 DEF WireFrom
  <2>2. CASE m = sent + 1 /\ sent' = sent + 1
    <3>1. (n + 1)..sent' = ((n + 1)..sent) \cup {m}
      BY <2>2 DEF WireFrom
    <3>2. m \notin Beat
      BY <2>2 DEF Beat, Ping, Pong
    <3> QED
      BY <1>2, <3>1, <3>2 DEF WireFrom
  <2> QED
    BY <2>1, <2>2
<1>4. ASSUME NEW i \in DOMAIN wire', NEW j \in DOMAIN wire',
             i < j, wire'[i] \notin Beat, wire'[j] \notin Beat
      PROVE  wire'[i] < wire'[j]
  <2>1. i \in DOMAIN wire /\ wire'[i] = wire[i]
    BY <1>1, <1>4
  <2>2. CASE j \in DOMAIN wire
    BY <1>1, <1>4, <2>1, <2>2 DEF WireFrom
  <2>3. CASE j \notin DOMAIN wire
    <3>1. wire'[j] = m /\ m = sent + 1
      BY <1>1, <1>4, <2>3
    <3>2. wire[i] \in (n + 1)..sent
      BY <1>4, <2>1 DEF WireFrom
    <3> QED
      BY <2>1, <3>1, <3>2
  <2> QED
    BY <2>2, <2>3
<1>5. n <= sent'
  BY DEF WireFrom
<1> QED
  BY <1>3, <1>4, <1>5 DEF WireFrom

(* What does not change below a stage does not change at it.                *)
LEMMA StagesUp ==
  /\ UNCHANGED <<got, dest>> => UNCHANGED ToConsumer
  /\ UNCHANGED <<ToConsumer, held["dispatcher"]>> => UNCHANGED ToDispatcher
  /\ UNCHANGED <<ToDispatcher, source>> => UNCHANGED ToSource
  /\ UNCHANGED <<ToSource, held["cache"]>> => UNCHANGED ToCache
  /\ UNCHANGED <<ToCache, pipeline>> => UNCHANGED ToPipeline
  /\ UNCHANGED <<ToPipeline, held["reader"]>> => UNCHANGED Arrived
<1>1. UNCHANGED <<got, dest>> => UNCHANGED ToConsumer
  BY DEF ToConsumer
<1>2. UNCHANGED <<ToConsumer, held["dispatcher"]>> => UNCHANGED ToDispatcher
  BY DEF ToDispatcher
<1>3. UNCHANGED <<ToDispatcher, source>> => UNCHANGED ToSource
  BY DEF ToSource
<1>4. UNCHANGED <<ToSource, held["cache"]>> => UNCHANGED ToCache
  BY DEF ToCache
<1>5. UNCHANGED <<ToCache, pipeline>> => UNCHANGED ToPipeline
  BY DEF ToPipeline
<1>6. UNCHANGED <<ToPipeline, held["reader"]>> => UNCHANGED Arrived
  <2>1. Arrived' = ToPipeline' \o held'["reader"]
    BY DEF Arrived, ToPipeline, ToCache, ToSource, ToDispatcher, ToConsumer
  <2> QED
    BY <2>1, ArrivedStages
<1> QED
  BY <1>1, <1>2, <1>3, <1>4, <1>5, <1>6

Joins(p, q, h) == (p \o (q \o h)) \o <<>> = (p \o q) \o h

LEMMA AllJoin == \A p, q, h \in Seq(Message) : Joins(p, q, h)
  BY SMTT(30) DEF Joins

LEMMA StageJoins ==
  ASSUME TInv
  PROVE  /\ Joins(got, dest, held["dispatcher"])
         /\ Joins(ToDispatcher, source, held["cache"])
         /\ Joins(ToDispatcher, source, held["reader"])
         /\ Joins(ToCache, pipeline, held["reader"])
  BY StageTypes, AllJoin

Associates(x, y, z) == (x \o y) \o z = x \o (y \o z)

LEMMA AllAssociate == \A x, y, z \in Seq(Message) : Associates(x, y, z)
  BY SMTT(60) DEF Associates

(* The brackets of five lists, moved to the right.                          *)
Regrouped(d, s, c, p, h) ==
    (((d \o s) \o c) \o p) \o h = d \o (((s \o c) \o p) \o h)

LEMMA Regroup ==
  ASSUME NEW d \in Seq(Message), NEW s \in Seq(Message), NEW c \in Seq(Message),
         NEW p \in Seq(Message), NEW h \in Seq(Message)
  PROVE  Regrouped(d, s, c, p, h)
<1>1. s \o c \in Seq(Message)
  BY QueueTypes
<1>2. (s \o c) \o p \in Seq(Message)
  BY <1>1, QueueTypes
<1>3. /\ Associates(d, s, c)
      /\ Associates(d, s \o c, p)
      /\ Associates(d, (s \o c) \o p, h)
  BY <1>1, <1>2, AllAssociate
<1>4. (d \o s) \o c = d \o (s \o c)
  BY ONLY <1>3, ZenonT(60) DEF Associates
<1>5. (d \o (s \o c)) \o p = d \o ((s \o c) \o p)
  BY ONLY <1>3, ZenonT(60) DEF Associates
<1>6. (d \o ((s \o c) \o p)) \o h = d \o (((s \o c) \o p) \o h)
  BY ONLY <1>3, ZenonT(60) DEF Associates
<1> QED
  BY ONLY <1>4, <1>5, <1>6, ZenonT(60) DEF Regrouped

(* A message written to nobody is the first of those that have arrived.     *)
LEMMA FirstArrived ==
  ASSUME TInv, TInv', got = <<>>, dest = <<>>, held'["dispatcher"] = <<>>,
         UNCHANGED <<got, dest, source, pipeline, held["cache"], held["reader"]>>
  PROVE  Arrived = held["dispatcher"] \o Arrived'
<1>1. /\ source \in Seq(Message) /\ pipeline \in Seq(Message) /\ held["reader"] \in Seq(Message)
      /\ held["cache"] \in Seq(Message) /\ held["dispatcher"] \in Seq(Message)
  BY StageTypes
<1>2. \A q \in Seq(Message) : <<>> \o q = q /\ (<<>> \o <<>>) \o q = q
  OBVIOUS
<1>3. Arrived = (((held["dispatcher"] \o source) \o held["cache"]) \o pipeline) \o held["reader"]
  <2>1. ToDispatcher = held["dispatcher"]
    BY <1>1, <1>2 DEF ToDispatcher, ToConsumer
  <2> QED
    BY <2>1, ArrivedStages DEF ToPipeline, ToCache, ToSource
<1>4. Arrived' = ((source \o held["cache"]) \o pipeline) \o held["reader"]
  <2>1. (got' \o dest') \o held'["dispatcher"] = <<>>
    OBVIOUS
  <2>2. ((got' \o dest') \o held'["dispatcher"]) \o source' = source
    BY <1>1, <1>2, <2>1
  <2> QED
    BY <2>2 DEF Arrived
<1>5. Regrouped(held["dispatcher"], source, held["cache"], pipeline, held["reader"])
  BY <1>1, Regroup
<1> QED
  BY ONLY <1>3, <1>4, <1>5, ZenonT(60) DEF Regrouped

LEMMA StaysClosed ==
  ASSUME TInv, Registering, [Next]_vars
  PROVE  Flowing' => Flowing
<1> SUFFICES /\ channel = "closed" => channel' = "closed"
             /\ destination = "closed" => destination' = "closed"
  BY DEF Flowing
<1> USE DEF Panic, dataVars, dstVars
<1>1. CASE PeerSends \/ PeerLost \/ messageHandler \/ readMessage \/ readError \/ Owner
           \/ UNCHANGED vars
  BY <1>1 DEF PeerSends, PeerLost, messageHandler, readMessage, readError, Owner, vars
<1>2. CASE AppendInput \/ GetDefaultChannel \/ \E g \in Publisher : CheckClosed(g) \/ SendSource(g)
  BY <1>2 DEF AppendInput, GetDefaultChannel, CheckClosed, SendSource
<1>3. CASE Tick \/ TimerOrContext \/ SendPing \/ ReceivePong \/ ReceivePing
  BY <1>3 DEF Tick, TimerOrContext, SendPing, ReceivePong, ReceivePing, WritePing
<1>4. CASE CacheSelect \/ Consume \/ AppendToCache \/ GetResponse
  BY <1>4 DEF CacheSelect, Consume, AppendToCache, GetResponse
<1>5. CASE DispatcherSelect
  BY <1>5 DEF DispatcherSelect, TakeMessage, AddDestination
<1>6. CASE WriteDestination \/ CloseChannel
  BY <1>6 DEF WriteDestination, CloseChannel
<1>7. CASE RetriveData
  BY <1>7 DEF RetriveData, Registering, At
<1> QED
  BY <1>1, <1>2, <1>3, <1>4, <1>5, <1>6, <1>7 DEF Next

LEMMA StreamNext ==
  ASSUME FollowOn(ToConsumer', unheard'), NEW n \in Nat,
         Flowing' => FollowOn(Arrived', Base') /\ WireFrom(n)' /\ n = Base' + Len(Arrived')
  PROVE  Stream'
<1>1. FollowOn(ToConsumer, unheard)'
  BY DEF FollowOn
<1>2. ASSUME Flowing' PROVE FollowOn(Arrived, Base)' /\ WireFrom(Base + Len(Arrived))'
  BY <1>2 DEF FollowOn, WireFrom
<1> QED
  BY <1>1, <1>2 DEF Stream

LEMMA NextStream ==
  ASSUME TInv, TInv', Registering, Registering', Stream, [Next]_vars
  PROVE  Stream'
<1>r. /\ Base' = IF Dropping THEN Base + 1 ELSE Base
      /\ Base \in Nat /\ unheard \in Nat /\ unheard' \in Nat
  <2>1. Base \in Nat
    BY DEF Base, Registering, TInv, ClientTypeOK
  <2> QED
    BY <2>1, NextRegistering DEF TInv, ClientTypeOK
<1>s. \A n \in Nat : FollowOn(<<>>, n)
  BY DEF FollowOn
<1>k. Flowing' => Flowing
  BY StaysClosed
<1>h. held'["dispatcher"] = held["dispatcher"] => ~Dropping
  BY DEF Dropping, TInv, Hands, Holding
<1>l. Len(Arrived) \in Nat /\ Len(Arrived') \in Nat /\ Arrived' \in Seq(Message)
  <2>1. Arrived \in Seq(Message)
    BY StageTypes
  <2>2. Arrived' \in Seq(Message)
    <3>1. /\ got' \in Seq(Message) /\ dest' \in Seq(Message) /\ source' \in Seq(Message)
          /\ pipeline' \in Seq(Message) /\ held'["reader"] \in Seq(Message)
          /\ held'["cache"] \in Seq(Message) /\ held'["dispatcher"] \in Seq(Message)
      BY DEF TInv, ClientTypeOK, Goroutine
    <3>2. \A p, q \in Seq(Message) : p \o q \in Seq(Message)
      BY QueueTypes
    <3> QED
      BY <3>1, <3>2 DEF Arrived
  <2> QED
    BY <2>1, <2>2, LenProperties
<1>a. ASSUME UNCHANGED ToConsumer, UNCHANGED unheard \/ ToConsumer = <<>>,
             UNCHANGED Arrived \/ ~Flowing', UNCHANGED <<wire, sent>>,
             ~Dropping \/ ~Flowing'
      PROVE  Stream'
  <2>1. FollowOn(ToConsumer', unheard')
    BY <1>a, <1>r, <1>s DEF Stream
  <2>2. PICK n \in Nat : n = Base + Len(Arrived)
    BY <1>l, <1>r
  <2>3. ASSUME Flowing' PROVE FollowOn(Arrived', Base') /\ WireFrom(n)' /\ n = Base' + Len(Arrived')
    <3>1. Base' = Base /\ Arrived' = Arrived
      BY <1>a, <1>r, <2>3
    <3>2. FollowOn(Arrived, Base) /\ WireFrom(n)
      BY <1>k, <2>2, <2>3 DEF Stream
    <3> QED
      BY <1>a, <2>2, <3>1, <3>2 DEF WireFrom
  <2> QED
    BY <2>1, <2>3, StreamNext
<1>b. ASSUME UNCHANGED <<got, dest, held, source, pipeline, wire, sent, unheard>>
      PROVE  Stream'
  <2>1. UNCHANGED <<ToConsumer, Arrived>>
    BY <1>b, StagesUp
  <2> QED
    BY <1>b, <1>h, <2>1, <1>a
<1>c. held \in [Goroutine -> Seq(Message)] /\ {"reader", "cache", "dispatcher"} \subseteq Goroutine
  BY DEF TInv, ClientTypeOK, Goroutine
<1>d. \A p \in Seq(Message) : p \o <<>> = p
  BY PassedOn
<1>f. /\ (got \o (dest \o held["dispatcher"])) \o <<>> = (got \o dest) \o held["dispatcher"]
      /\ (ToDispatcher \o (source \o held["cache"])) \o <<>>
           = (ToDispatcher \o source) \o held["cache"]
      /\ (ToDispatcher \o (source \o held["reader"])) \o <<>>
           = (ToDispatcher \o source) \o held["reader"]
      /\ (ToCache \o (pipeline \o held["reader"])) \o <<>>
           = (ToCache \o pipeline) \o held["reader"]
  BY StageJoins DEF Joins
<1>g. \A p, q \in Seq(Message) :
        q # <<>> => /\ (p \o <<Head(q)>>) \o Tail(q) = (p \o <<>>) \o q
                    /\ Append(p, Head(q)) \o Tail(q) = p \o q
  BY PassedOn
<1>e. /\ got \in Seq(Message) /\ dest \in Seq(Message) /\ source \in Seq(Message)
      /\ pipeline \in Seq(Message) /\ held["reader"] \in Seq(Message)
      /\ held["cache"] \in Seq(Message) /\ held["dispatcher"] \in Seq(Message)
      /\ ToConsumer \in Seq(Message) /\ ToDispatcher \in Seq(Message)
      /\ ToSource \in Seq(Message) /\ ToCache \in Seq(Message)
  BY StageTypes
<1> USE DEF peerVars, hbVars, dataVars, dstVars, At, Goto, Hold, Panic
<1>1. CASE PeerSends
  <2>1. UNCHANGED <<ToConsumer, Arrived, Base, unheard>>
    BY <1>1, <1>h, <1>r, StagesUp DEF PeerSends
  <2>2. ASSUME Flowing' PROVE WireFrom(Base + Len(Arrived))'
    <3>1. wire \in Seq(Beat \cup Message) /\ sent \in Nat /\ MaxData \in Nat
      BY DEF TInv, ClientTypeOK
    <3>2. \E m \in Beat \cup Message :
            /\ wire' = Append(wire, m)
            /\ (m \in Beat /\ sent' = sent) \/ (m = sent + 1 /\ sent' = sent + 1)
      <4>1. sent < MaxData => sent + 1 \in Message
        BY <3>1 DEF Message
      <4>2. \/ sent < MaxData /\ sent' = sent + 1 /\ wire' = Append(wire, sent + 1)
            \/ sent' = sent /\ wire' = Append(wire, Ping)
            \/ sent' = sent /\ wire' = Append(wire, Pong)
        BY <1>1 DEF PeerSends
      <4> QED
        BY <4>1, <4>2 DEF Beat
    <3>3. PICK n \in Nat : n = Base + Len(Arrived) /\ WireFrom(n)
      BY <1>k, <1>l, <1>r, <2>2 DEF Stream
    <3>4. WireFrom(n)'
      BY <3>1, <3>2, <3>3, WireSent
    <3> QED
      BY <2>1, <3>3, <3>4 DEF WireFrom
  <2> QED
    BY <1>k, <2>1, <2>2 DEF Stream, FollowOn
<1>4. CASE readMessage
  <2>1. /\ UNCHANGED <<got, dest, source, pipeline, sent, unheard>>
        /\ UNCHANGED <<held["cache"], held["dispatcher"]>>
        /\ held["reader"] = <<>>
        /\ wire # <<>> /\ wire' = Tail(wire)
        /\ \/ Head(wire) \in Beat /\ UNCHANGED held
           \/ Head(wire) \notin Beat /\ held'["reader"] = <<Head(wire)>>
    BY <1>4, <1>c DEF readMessage, TInv, Hands, Holding, Beat
  <2>2. UNCHANGED <<ToConsumer, ToPipeline, Base>>
    BY <1>h, <1>r, <2>1, StagesUp
  <2>3. CASE Flowing'
    <3>1. wire \in Seq(Beat \cup Message) /\ sent \in Nat /\ Head(wire) \in Beat \cup Message
      <4>1. wire \in Seq(Beat \cup Message) /\ sent \in 0..MaxData
        BY DEF TInv, ClientTypeOK
      <4>2. Head(wire) \in Beat \cup Message
        BY <2>1, <4>1
      <4> QED
        BY <4>1, <4>2
    <3>2. PICK n \in Nat : n = Base + Len(Arrived) /\ WireFrom(n)
      BY <1>k, <1>l, <1>r, <2>3 DEF Stream
    <3>3. /\ Head(wire) \in Beat => WireFrom(n)'
          /\ Head(wire) \notin Beat => Head(wire) = n + 1 /\ WireFrom(n + 1)'
      BY <2>1, <3>1, <3>2, WireReceived
    <3>4. FollowOn(Arrived, Base)
      BY <1>k, <2>3 DEF Stream
    <3>5. CASE Head(wire) \in Beat
      <4>1. UNCHANGED Arrived
        BY <2>1, <2>2, <3>5, StagesUp
      <4> QED
        BY <2>1, <2>2, <3>2, <3>3, <3>4, <3>5, <4>1 DEF Stream, WireFrom, FollowOn
    <3>6. CASE Head(wire) \notin Beat
      <4>1. Arrived = ToPipeline /\ ToPipeline \in Seq(Message)
        BY <2>1, StageTypes, ArrivedStages, <1>d
      <4>2. Arrived' = ToPipeline \o <<Head(wire)>>
        <5>1. Arrived' = ToPipeline' \o held'["reader"]
          BY ArrivedStages DEF Arrived, ToPipeline, ToCache, ToSource, ToDispatcher, ToConsumer
        <5> QED
          BY <2>1, <2>2, <3>6, <5>1
      <4>3. FollowOn(Arrived', Base) /\ Len(Arrived') = Len(Arrived) + 1
        <5>1. FollowOn(ToPipeline, Base) /\ Head(wire) \in Message
          BY <3>1, <3>4, <3>6, <4>1
        <5>2. Head(wire) = Base + Len(ToPipeline) + 1
          BY <3>2, <3>3, <3>6, <4>1
        <5>3. FollowOn(ToPipeline \o <<Head(wire)>>, Base) /\ Len(ToPipeline \o <<Head(wire)>>) = Len(ToPipeline) + 1
          BY <1>r, <4>1, <5>1, <5>2, FollowNext
        <5> QED
          BY <4>1, <4>2, <5>3
      <4>4. Base' + Len(Arrived') = n + 1
        BY <1>l, <1>r, <2>2, <3>2, <4>3
      <4>5. WireFrom(n + 1)'
        BY <3>3, <3>6
      <4>6. n + 1 \in Nat /\ FollowOn(ToConsumer', unheard')
        BY <2>1, <2>2 DEF Stream
      <4>7. FollowOn(Arrived', Base')
        BY <2>2, <4>3
      <4> QED
        BY <4>4, <4>5, <4>6, <4>7, StreamNext
    <3> QED
      BY <3>5, <3>6
  <2> QED
    BY <2>1, <2>2, <2>3 DEF Stream, FollowOn
<1>6. CASE AppendInput
  <2>1. /\ UNCHANGED <<got, dest, source, unheard, wire, sent>>
        /\ UNCHANGED <<held["cache"], held["dispatcher"]>>
        /\ held'["reader"] = <<>> /\ pipeline' = pipeline \o held["reader"]
    BY <1>6, <1>c DEF AppendInput
  <2>2. UNCHANGED <<ToConsumer, ToCache>>
    BY <2>1, StagesUp
  <2>3. Arrived' = (ToCache \o (pipeline \o held["reader"])) \o <<>>
    BY <2>1, <2>2 DEF Arrived, ToPipeline, ToCache, ToSource, ToDispatcher, ToConsumer
  <2>4. Arrived = (ToCache \o pipeline) \o held["reader"]
    BY ArrivedStages DEF ToPipeline
  <2>5. UNCHANGED Arrived
    BY <1>f, <2>3, <2>4, Zenon
  <2> QED
    BY <1>a, <1>h, <2>1, <2>2, <2>5
<1>8. ASSUME NEW g \in Publisher, CheckClosed(g) PROVE Stream'
  <2>1. UNCHANGED <<got, dest, wire, sent, unheard>>
    BY <1>8 DEF CheckClosed
  <2>2. UNCHANGED <<held, source, pipeline>> \/ ~Flowing'
    BY <1>8 DEF CheckClosed, Flowing
  <2>3. UNCHANGED ToConsumer
    BY <2>1, StagesUp
  <2> QED
    BY <1>a, <1>b, <2>1, <2>2, <2>3
<1>9. ASSUME NEW g \in Publisher, SendSource(g) PROVE Stream'
  <2>1. CASE UNCHANGED <<got, dest, held, source, pipeline, unheard, wire, sent>>
    BY <1>b, <2>1
  <2>2. CASE /\ source' = source \o held[g] /\ held' = [held EXCEPT ![g] = <<>>]
             /\ UNCHANGED <<got, dest, pipeline, wire, sent>>
             /\ destination # "none" => UNCHANGED unheard
             /\ pc[g] = "send"
    <3>0. UNCHANGED unheard \/ ToConsumer = <<>>
      BY <1>d, <2>2 DEF Registering, ToConsumer
    <3>1. held'["dispatcher"] = held["dispatcher"] /\ held'[g] = <<>>
      BY <1>c, <2>2 DEF Publisher
    <3>2. UNCHANGED <<ToConsumer, ToDispatcher>>
      BY <2>2, <3>1, StagesUp
    <3>3. ToSource' = ToDispatcher \o (source \o held[g])
      BY <2>2, <3>2 DEF ToSource
    <3>4. CASE g = "cache"
      <4>1. ToCache' = (ToDispatcher \o (source \o held["cache"])) \o <<>>
        BY <3>1, <3>3, <3>4 DEF ToCache
      <4>2. UNCHANGED ToCache
        <5>1. ToCache = (ToDispatcher \o source) \o held["cache"]
          BY DEF ToCache, ToSource
        <5> QED
          BY <1>f, <4>1, <5>1, Zenon
      <4>3. held'["reader"] = held["reader"]
        BY <1>c, <2>2, <3>4
      <4> QED
        BY <1>a, <1>h, <2>2, <3>0, <3>1, <3>2, <4>2, <4>3, StagesUp
    <3>5. CASE g = "reader"
      <4>1. pipeline = <<>> /\ held["cache"] = <<>> /\ held'["cache"] = <<>>
        BY <1>c, <2>2, <3>5 DEF TInv, Bypassed, Hands, Holding
      <4>2. ToSource' \in Seq(Message) /\ ToDispatcher \in Seq(Message)
            /\ source \in Seq(Message) /\ held["reader"] \in Seq(Message)
            /\ ToSource \in Seq(Message)
        <5>1. \A p, q \in Seq(Message) : p \o q \in Seq(Message)
          BY QueueTypes
        <5> QED
          BY <3>3, <3>5, <5>1, StageTypes
      <4>3. ToPipeline' = ToSource' /\ ToPipeline = ToSource
        <5>1. ToCache' = ToSource' \o <<>> /\ ToCache = ToSource \o <<>>
          BY <4>1 DEF ToCache
        <5>2. ToCache' = ToSource' /\ ToCache = ToSource
          BY <4>2, <5>1, <1>d
        <5>3. ToPipeline' = ToCache' \o <<>> /\ ToPipeline = ToCache \o <<>>
          BY <2>2, <4>1 DEF ToPipeline
        <5> QED
          BY <4>2, <5>2, <5>3, <1>d
      <4>4. Arrived' = (ToDispatcher \o (source \o held["reader"])) \o <<>>
        <5>1. Arrived' = ToPipeline' \o held'["reader"]
          BY DEF Arrived, ToPipeline, ToCache, ToSource, ToDispatcher, ToConsumer
        <5> QED
          BY <3>1, <3>3, <3>5, <4>3, <5>1
      <4>5. Arrived = (ToDispatcher \o source) \o held["reader"]
        BY <4>3, ArrivedStages DEF ToSource
      <4>6. UNCHANGED Arrived
        BY <1>f, <4>4, <4>5, Zenon
      <4> QED
        BY <1>a, <1>h, <2>2, <3>0, <3>1, <3>2, <4>6
    <3> QED
      BY <3>4, <3>5 DEF Publisher
  <2> QED
    BY <1>9, <2>1, <2>2 DEF SendSource
<1>24. CASE ReceivePing
  BY <1>24, <1>b DEF ReceivePing, WritePing, WriteFails
<1>25. CASE TimerOrContext
  BY <1>25, <1>b DEF TimerOrContext
<1>13. CASE CacheSelect
  <2>1. CASE UNCHANGED <<got, dest, held, source, pipeline, unheard, wire, sent>>
    BY <1>b, <2>1
  <2>2. CASE /\ pipeline # <<>> /\ pipeline' = Tail(pipeline) /\ pc["cache"] = "select"
             /\ held' = [held EXCEPT !["cache"] = <<Head(pipeline)>>]
             /\ UNCHANGED <<got, dest, source, unheard, wire, sent>>
    <3>1. /\ held["cache"] = <<>> /\ held'["cache"] = <<Head(pipeline)>>
          /\ held'["dispatcher"] = held["dispatcher"] /\ held'["reader"] = held["reader"]
      BY <1>c, <2>2 DEF TInv, Hands, Holding
    <3>2. UNCHANGED <<ToConsumer, ToSource>>
      BY <2>2, <3>1, StagesUp
    <3>3. /\ ToPipeline' = (ToSource \o <<Head(pipeline)>>) \o Tail(pipeline)
          /\ ToPipeline = (ToSource \o <<>>) \o pipeline
      BY <2>2, <3>1, <3>2 DEF ToPipeline, ToCache
    <3>4. UNCHANGED ToPipeline
      BY <1>g, <1>e, <2>2, <3>3, Zenon
    <3> QED
      BY <1>a, <1>h, <2>2, <3>1, <3>2, <3>4, StagesUp
  <2> QED
    BY <1>13, <2>1, <2>2 DEF CacheSelect
<1>14. CASE DispatcherSelect
  <2>1. CASE UNCHANGED <<got, dest, held, source, pipeline, unheard, wire, sent>>
    BY <1>b, <2>1
  <2>2. CASE /\ source # <<>> /\ source' = Tail(source) /\ pc["dispatcher"] = "select"
             /\ held' = [held EXCEPT !["dispatcher"] = <<Head(source)>>]
             /\ UNCHANGED <<got, dest, pipeline, unheard, wire, sent>>
    <3>1. /\ held["dispatcher"] = <<>> /\ held'["dispatcher"] = <<Head(source)>>
          /\ held'["cache"] = held["cache"] /\ held'["reader"] = held["reader"]
      BY <1>c, <2>2 DEF TInv, Hands, Holding
    <3>2. UNCHANGED ToConsumer
      BY <2>2, StagesUp
    <3>3. /\ ToSource' = (ToConsumer \o <<Head(source)>>) \o Tail(source)
          /\ ToSource = (ToConsumer \o <<>>) \o source
      BY <2>2, <3>1, <3>2 DEF ToSource, ToDispatcher
    <3>4. UNCHANGED ToSource
      BY <1>g, <1>e, <2>2, <3>3, Zenon
    <3> QED
      BY <1>a, <2>2, <3>1, <3>2, <3>4, StagesUp DEF Dropping
  <2> QED
    BY <1>14, <2>1, <2>2 DEF DispatcherSelect, TakeMessage, AddDestination
<1>15. CASE WriteDestination
  <2>1. /\ held' = [held EXCEPT !["dispatcher"] = <<>>]
        /\ UNCHANGED <<got, source, pipeline, wire, sent, unheard>>
        /\ held'["cache"] = held["cache"] /\ held'["reader"] = held["reader"]
        /\ held'["dispatcher"] = <<>>
        /\ pc["dispatcher"] = "write" /\ pc'["dispatcher"] # "write"
        /\ Len(held["dispatcher"]) = 1
    BY <1>15, <1>c DEF WriteDestination, TInv, ClientTypeOK, Hands, Holding
  <2>2. CASE UNCHANGED dest /\ ~Flowing'
    <3>1. UNCHANGED ToConsumer
      BY <2>1, <2>2, StagesUp
    <3> QED
      BY <1>a, <2>1, <2>2, <3>1
  <2>4. CASE UNCHANGED dest /\ destination \in {"none", "asked"}
    <3>1. got = <<>> /\ dest = <<>> /\ Base' = Base + 1
      BY <1>r, <2>1, <2>4 DEF Registering, Dropping
    <3>2. Arrived = held["dispatcher"] \o Arrived'
      <4>1. UNCHANGED <<got, dest, source, pipeline, held["cache"], held["reader"]>>
        BY <2>1, <2>4
      <4> QED
        BY <2>1, <3>1, <4>1, FirstArrived
    <3>3. UNCHANGED ToConsumer
      BY <2>1, <2>4, StagesUp
    <3>4. CASE Flowing'
      <4>1. FollowOn(Arrived, Base) /\ WireFrom(Base + Len(Arrived))
        BY <1>k, <3>4 DEF Stream
      <4>2. Arrived' \in Seq(Message) /\ held["dispatcher"] \in Seq(Message)
        BY <1>e, <1>l
      <4>3. FollowOn(Arrived', Base + Len(held["dispatcher"]))
        BY <1>r, <3>2, <4>1, <4>2, FollowRest
      <4>4. Len(Arrived) = Len(held["dispatcher"]) + Len(Arrived')
        BY <3>2, <4>2, Concatenated
      <4>5. Base' = Base + Len(held["dispatcher"])
        BY <2>1, <3>1
      <4>6. Base' + Len(Arrived') = Base + Len(Arrived)
        BY <1>l, <1>r, <2>1, <4>4, <4>5
      <4>7. PICK n \in Nat : n = Base + Len(Arrived) /\ WireFrom(n)'
        <5>1. PICK n \in Nat : n = Base + Len(Arrived) /\ WireFrom(n)
          BY <1>l, <1>r, <4>1
        <5> QED
          BY <2>1, <5>1 DEF WireFrom
      <4>8. FollowOn(Arrived', Base')
        BY <4>3, <4>5
      <4>9. FollowOn(ToConsumer', unheard')
        BY <2>1, <3>3 DEF Stream
      <4> QED
        BY <4>6, <4>7, <4>8, <4>9, StreamNext
    <3> QED
      BY <2>1, <3>3, <3>4 DEF Stream, FollowOn
  <2>3. CASE destination = "open" /\ dest' = dest \o held["dispatcher"] /\ UNCHANGED destination
    <3>1. /\ ToDispatcher' = (got \o (dest \o held["dispatcher"])) \o <<>>
          /\ ToDispatcher = (got \o dest) \o held["dispatcher"]
          /\ ToConsumer' = got \o (dest \o held["dispatcher"])
      BY <2>1, <2>3 DEF ToDispatcher, ToConsumer
    <3>2. UNCHANGED ToDispatcher /\ ToConsumer' = ToDispatcher
      <4>1. got \o (dest \o held["dispatcher"]) \in Seq(Message)
        <5>1. \A p, q \in Seq(Message) : p \o q \in Seq(Message)
          BY QueueTypes
        <5> QED
          BY <5>1, StageTypes
      <4> QED
        <5>1. (got \o (dest \o held["dispatcher"])) \o <<>> = got \o (dest \o held["dispatcher"])
          BY <1>d, <4>1
        <5>2. (got \o (dest \o held["dispatcher"])) \o <<>> = (got \o dest) \o held["dispatcher"]
          BY <1>f
        <5> QED
          BY <3>1, <5>1, <5>2, Zenon
    <3>3. UNCHANGED Arrived
      BY <2>1, <3>2, StagesUp
    <3>4. Base = unheard /\ Base' = Base
      BY <1>r, <2>3, EarlyCases DEF Base, Dropping
    <3>5. CASE Flowing'
      <4>1. FollowOn(Arrived, Base) /\ WireFrom(Base + Len(Arrived))
        BY <1>k, <3>5 DEF Stream
      <4>2. FollowOn(ToPipeline, Base)
        BY <1>r, <4>1, StageTypes, ArrivedStages, FollowPrefix
      <4>3. FollowOn(ToCache, Base)
        BY <1>r, <4>2, StageTypes, FollowPrefix DEF ToPipeline
      <4>4. FollowOn(ToSource, Base)
        BY <1>r, <4>3, StageTypes, FollowPrefix DEF ToCache
      <4>5. FollowOn(ToDispatcher, Base)
        BY <1>r, <4>4, StageTypes, FollowPrefix DEF ToSource
      <4>6. FollowOn(ToConsumer', unheard')
        BY <2>1, <3>2, <3>4, <4>5
      <4> QED
        BY <2>1, <3>3, <3>4, <4>1, <4>6 DEF Stream, WireFrom, FollowOn
    <3>6. CASE ~Flowing'
      <4>1. ~Flowing /\ channel = "closed"
        BY <1>15, <2>3, <3>6 DEF Flowing, WriteDestination
      <4> QED
        BY <1>15, <2>1, <4>1 DEF TInv, Ending
    <3> QED
      BY <3>5, <3>6
  <2> QED
    BY <1>15, <2>2, <2>3, <2>4 DEF WriteDestination, Flowing, TInv, ClientTypeOK
<1>16. CASE CloseChannel
  <2>1. UNCHANGED <<got, dest, held, source, pipeline, wire, sent, unheard>>
    BY <1>16 DEF CloseChannel
  <2> QED
    BY <1>b, <2>1
<1>17. CASE Consume
  <2>1. UNCHANGED <<held, source, pipeline, wire, sent, unheard>>
    BY <1>17 DEF Consume
  <2>2. CASE UNCHANGED <<got, dest>>
    BY <1>b, <2>1, <2>2
  <2>3. CASE dest # <<>> /\ got' = Append(got, Head(dest)) /\ dest' = Tail(dest)
    <3>1. UNCHANGED ToConsumer
      <4>1. ToConsumer' = Append(got, Head(dest)) \o Tail(dest)
        BY <2>3 DEF ToConsumer
      <4> QED
        <5>1. Append(got, Head(dest)) \o Tail(dest) = got \o dest
          BY <1>e, <1>g, <2>3, Zenon
        <5> QED
          BY <4>1, <5>1, Zenon DEF ToConsumer
    <3> QED
      BY <1>a, <1>h, <2>1, <3>1, StagesUp
  <2> QED
    BY <1>17, <2>2, <2>3 DEF Consume
<1>2. CASE PeerLost
  BY <1>2, <1>b DEF PeerLost
<1>3. CASE messageHandler
  BY <1>3, <1>b DEF messageHandler
<1>5. CASE readError
  BY <1>5, <1>b DEF readError
<1>7. CASE GetDefaultChannel
  <2>1. UNCHANGED dataVars /\ UNCHANGED peerVars
    BY <1>7 DEF GetDefaultChannel
  <2> QED
    BY <1>b, <2>1
<1>10. CASE Tick
  BY <1>10, <1>b DEF Tick
<1>11. CASE SendPing
  BY <1>11, <1>b DEF SendPing, WritePing, WriteFails
<1>12. CASE ReceivePong
  BY <1>12, <1>b DEF ReceivePong
<1>26. CASE GetResponse
  BY <1>26, <1>b DEF GetResponse
<1>27. CASE RetriveData
  BY <1>27, <1>b DEF RetriveData
<1>28. CASE AppendToCache
  BY <1>28, <1>b DEF AppendToCache
<1>18. CASE Owner
  BY <1>18, <1>b DEF Owner
<1>19. CASE UNCHANGED vars
  BY <1>19, <1>b DEF vars
<1> QED
  BY <1>1, <1>2, <1>3, <1>4, <1>5, <1>6, <1>7, <1>8, <1>9, <1>10, <1>11, <1>12,
     <1>13, <1>14, <1>15, <1>16, <1>17, <1>18, <1>19, <1>24, <1>25, <1>26, <1>27, <1>28 DEF Next

LEMMA StreamInvariance == Spec => []Stream
<1>1. TInv /\ TInv' /\ Registering /\ Registering' /\ Stream /\ [Next]_vars => Stream'
  BY NextStream
<1> QED
  BY TypeInvariance, Registration, InitStream, <1>1, PTL DEF Spec

(* For any capacities, and wherever among the messages the consumer's       *)
(* breakpoint comes, the queues and goroutines of a client neither lose nor *)
(* reorder a message published behind it while the destination is open.     *)
THEOREM WholeStream == Spec => []NothingLost
  BY StreamInvariance, StreamIsWhole, PTL

(* What the consumer gets begins with the first message published after its *)
(* breakpoint and has no gap and no repetition, ever.                       *)
THEOREM Ungapped == Spec => []NoGap
<1>1. TInv /\ Stream => NoGap
  <2> SUFFICES ASSUME TInv, Stream PROVE FollowOn(got, unheard)
    BY DEF NoGap
  <2>1. got \in Seq(Message) /\ dest \in Seq(Message) /\ unheard \in Nat
    BY DEF TInv, ClientTypeOK
  <2> QED
    BY <2>1, FollowPrefix DEF Stream, ToConsumer
<1> QED
  BY TypeInvariance, StreamInvariance, <1>1, PTL
=============================================================================

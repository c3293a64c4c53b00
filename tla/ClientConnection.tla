-------------------------- MODULE ClientConnection --------------------------
(***************************************************************************)
(* One connection of the client (client/client.go) with one topic, from the *)
(* moment it is made until its goroutines have ended: the message handler,  *)
(* the pinger and the heartbeat handler, the topic's cache and dispatcher,  *)
(* the consumer of the topic and the owner, who ends the context when the   *)
(* client says it is closed and then connects again.  The message handler   *)
(* is started before the consumer asks for the topic (GetResponse): what is *)
(* published until then nobody receives.                                    *)
(*                                                                          *)
(*   wire --> reader --> pipeline --> cache --> source --> dispatcher       *)
(*                                      --> destination --> consumer        *)
(*                                                                          *)
(* The example client uses the cache (its consumer is filter.go, its owner  *)
(* main.go); the server's upstream has it disabled: its reader publishes to *)
(* the channel itself (consumer and owner are mock/upstream.go).            *)
(*                                                                          *)
(* The peer answers pings, sends them, and may send a pong that nobody has  *)
(* asked for.  A panic ends the process.  The answers to subscriptions are  *)
(* left out (one that fails takes the topic away again), and so is the      *)
(* owner who ends the whole program (deadline, interrupt).                  *)
(***************************************************************************)
EXTENDS Integers, SequencesExt

CONSTANTS HeartbeatFailCount,
          PipeCap, SourceCap, DestCap,  \* capacities (1000 in the source)
          WireCap,                      \* bound: messages on the wire
          MaxData,                      \* bound: messages the peer sends
          MaxUnasked                    \* bound: pongs the peer is ahead of its pings

ASSUME FailCountAssumption == HeartbeatFailCount \in Nat \ {0}
ASSUME ClientCapAssumption ==
    {PipeCap, SourceCap, DestCap, WireCap} \subseteq Nat \ {0} /\ {MaxData, MaxUnasked} \subseteq Nat

Goroutine == {"reader", "pinger", "heartbeat", "cache", "dispatcher", "consumer"}
Place == {"select", "read", "ping", "pong", "handle", "publish", "send", "get",
          "append", "stuck", "write", "close", "done"}

(* The k-th message is k.                                                   *)
Ping == -1
Pong == 0
Beat == {Ping, Pong}
Message == 1..MaxData

VARIABLES
    disableCache,
    reversHeartbeat,         \* the server pings, not the client
    pc,                      \* where each goroutine is, "done" when it has ended
    peer,                    \* "up" or "lost"
    sent, owed, wire,        \* messages sent, pings less pongs, the wire
    hbCounter,
    closeFlag,               \* Closed() is signalled
    ctx,                     \* the context is cancelled
    held,                    \* the message a goroutine holds, as a list
    pipeline, source, dest,
    channel,                 \* "open", "closing" (source closed), "closed"
    destination,             \* "none", "asked" (its breakpoint is in the source),
                             \* "open" (in the dispatcher's map), "closed"
    ahead,                   \* messages in front of that breakpoint
    unheard,                 \* messages published before the consumer asked
    got,                     \* what the consumer has received
    panicked

cfgVars == <<disableCache, reversHeartbeat>>
peerVars == <<peer, sent, owed, wire>>
hbVars == <<hbCounter, closeFlag>>
dstVars == <<destination, ahead, unheard>>
dataVars == <<held, pipeline, source, dest, channel, dstVars, got>>
vars == <<cfgVars, pc, peerVars, hbVars, ctx, dataVars, panicked>>

Init ==
    /\ disableCache \in BOOLEAN /\ reversHeartbeat \in BOOLEAN
    /\ pc = [g \in Goroutine |-> IF g = "consumer" THEN "get" ELSE "select"]
    /\ peer = "up" /\ sent = 0 /\ owed = 0 /\ wire = <<>>
    /\ hbCounter = 0 /\ closeFlag = FALSE
    /\ ctx = FALSE
    /\ held = [g \in Goroutine |-> <<>>]
    /\ pipeline = <<>> /\ source = <<>> /\ dest = <<>>
    /\ channel = "open" /\ destination = "none" /\ ahead = 0 /\ unheard = 0
    /\ got = <<>>
    /\ panicked = "no"

Running == panicked = "no"
At(g, place) == Running /\ pc[g] = place
Goto(g, place) == pc' = [pc EXCEPT ![g] = place]
Hold(g, list) == held' = [held EXCEPT ![g] = list]
Panic(why) ==
    /\ panicked' = why
    /\ UNCHANGED <<cfgVars, pc, peerVars, hbVars, ctx, dataVars>>

-----------------------------------------------------------------------------
(* The peer.                                                                *)
PeerSends ==
    /\ Running /\ peer = "up" /\ Len(wire) < WireCap
    /\ \/ /\ sent < MaxData
          /\ sent' = sent + 1
          /\ wire' = Append(wire, sent')
          /\ UNCHANGED owed
       \/ /\ wire' = Append(wire, Ping)
          /\ UNCHANGED <<sent, owed>>
       \/ /\ owed > -MaxUnasked
          /\ owed' = owed - 1
          /\ wire' = Append(wire, Pong)
          /\ UNCHANGED sent
    /\ UNCHANGED <<cfgVars, pc, peer, hbVars, ctx, dataVars, panicked>>

(* It is not heard of any more, or the connection is broken: a read then    *)
(* waits or fails, and a write fails or goes unnoticed.                     *)
PeerLost ==
    /\ Running /\ peer = "up"
    /\ peer' = "lost"
    /\ UNCHANGED <<cfgVars, pc, sent, owed, wire, hbVars, ctx, dataVars, panicked>>

-----------------------------------------------------------------------------
(* messageHandler: the context is looked at before a message is read, never *)
(* while readMessage waits or goes from one heartbeat to the next.          *)
messageHandler ==
    /\ At("reader", "select")
    /\ Goto("reader", IF ctx THEN "done" ELSE "read")
    /\ UNCHANGED <<cfgVars, peerVars, hbVars, ctx, dataVars, panicked>>

readMessage ==
    /\ At("reader", "read")
    /\ wire # <<>>
    /\ wire' = Tail(wire)
    /\ \/ Head(wire) = Ping /\ Goto("reader", "ping") /\ UNCHANGED held
       \/ Head(wire) = Pong /\ Goto("reader", "pong") /\ UNCHANGED held
       \/ Head(wire) \notin Beat /\ Goto("reader", "handle") /\ Hold("reader", <<Head(wire)>>)
    /\ UNCHANGED <<cfgVars, peer, sent, owed, hbVars, ctx, pipeline, source, dest,
                   channel, dstVars, got, panicked>>

readError ==
    /\ At("reader", "read")
    /\ peer = "lost"
    /\ closeFlag' = TRUE
    /\ Goto("reader", "done")
    /\ UNCHANGED <<cfgVars, peerVars, hbCounter, ctx, dataVars, panicked>>

\* Mutant: a message that finds the pipeline full is dropped.
AppendInputOrDrop ==
    /\ At("reader", "handle") /\ ~disableCache
    /\ pipeline' = IF Len(pipeline) < PipeCap THEN pipeline \o held["reader"] ELSE pipeline
    /\ Hold("reader", <<>>)
    /\ Goto("reader", "select")
    /\ UNCHANGED <<cfgVars, peerVars, hbVars, ctx,
                   source, dest, channel, dstVars, got, panicked>>

(* handleInsMsg, handleTdMsg, handleMblMsg: append to the cache's pipeline  *)
(* or, without the cache, publish to its default channel, which is nil once *)
(* the cache's goroutine has ended.                                         *)
AppendInput ==
    /\ At("reader", "handle") /\ ~disableCache
    /\ Len(pipeline) < PipeCap
    /\ pipeline' = pipeline \o held["reader"]
    /\ Hold("reader", <<>>)
    /\ Goto("reader", "select")
    /\ UNCHANGED <<cfgVars, peerVars, hbVars, ctx,
                   source, dest, channel, dstVars, got, panicked>>

GetDefaultChannel ==
    /\ At("reader", "handle") /\ disableCache
    /\ \/ pc["cache"] = "done" /\ Panic("nilChannel")
       \/ /\ pc["cache"] # "done"
          /\ Goto("reader", "publish")
          /\ UNCHANGED <<cfgVars, peerVars, hbVars, ctx, dataVars, panicked>>

(* PublishData looks at IsClosed, then sends; the send to a closed channel  *)
(* panics, also when it was already waiting for room.                       *)
CheckClosed(g) ==
    /\ At(g, "publish")
    /\ \/ channel = "closed" /\ Goto(g, "select") /\ Hold(g, <<>>)
       \/ channel # "closed" /\ Goto(g, "send") /\ UNCHANGED held
    /\ UNCHANGED <<cfgVars, peerVars, hbVars, ctx,
                   pipeline, source, dest, channel, dstVars, got, panicked>>

SourceFull ==
    Len(source) + (IF destination = "asked" THEN 1 ELSE 0) >= SourceCap

SendSource(g) ==
    /\ At(g, "send")
    /\ \/ channel # "open" /\ Panic("closedSource")
       \/ /\ channel = "open"
          /\ ~SourceFull
          /\ source' = source \o held[g]
          /\ unheard' = IF destination = "none" THEN unheard + 1 ELSE unheard
          /\ Hold(g, <<>>)
          /\ Goto(g, "select")
          /\ UNCHANGED <<cfgVars, peerVars, hbVars, ctx, pipeline, dest, channel,
                         destination, ahead, got, panicked>>

Publisher == {"reader", "cache"}

-----------------------------------------------------------------------------
(* heartbeatHandler.  heartbeatChan has no buffer: a ping or a pong is      *)
(* handled in the step that sends it.  Once the handler has returned nobody *)
(* receives from it.                                                        *)
Tick ==
    /\ At("pinger", "select") /\ ~reversHeartbeat
    /\ \/ Goto("pinger", "send")
       \/ ctx /\ Goto("pinger", "done")
    /\ UNCHANGED <<cfgVars, peerVars, hbVars, ctx, dataVars, panicked>>

(* The timer of the reversed heartbeat: every message read sets it anew, so *)
(* it expires when none comes, and when the reader cannot get to the next.  *)
TimerOrContext ==
    /\ At("pinger", "select") /\ reversHeartbeat
    /\ \/ /\ pc["reader"] # "read" \/ wire = <<>>
          /\ closeFlag' = TRUE
       \/ ctx /\ UNCHANGED closeFlag
    /\ Goto("pinger", "done")
    /\ UNCHANGED <<cfgVars, peerVars, hbCounter, ctx, dataVars, panicked>>

\* Mutant: one failure more than configured.
MissMatchLate(count) == count > HeartbeatFailCount \/ count < 0

MissMatch(count) == count >= HeartbeatFailCount \/ count < 0

\* Mutant: only pings are counted.
CountPings(value) ==
    /\ hbCounter' = IF value > 0 THEN hbCounter + value ELSE hbCounter
    /\ closeFlag' = (closeFlag \/ MissMatch(hbCounter'))

\* Mutant: the handler gives up without closing the client.
CountSilently(value) == hbCounter' = hbCounter + value /\ UNCHANGED closeFlag

(* The counter after a ping (1) or a pong (-1).                             *)
Count(value) ==
    /\ hbCounter' = hbCounter + value
    /\ closeFlag' = (closeFlag \/ MissMatch(hbCounter'))

(* Where the sender of the heartbeat goes, and the handler with it.         *)
HandlerGoes(g, place) ==
    pc' = [pc EXCEPT ![g] = place,
                     !["heartbeat"] = IF MissMatch(hbCounter') THEN "done" ELSE "select"]

WriteFails(g, place) ==
    /\ peer = "lost"
    /\ closeFlag' = TRUE
    /\ pc' = [pc EXCEPT ![g] = place, !["heartbeat"] = "done"]
    /\ UNCHANGED <<owed, hbCounter>>

(* A ping of the ticker, or one from the peer (the handler cannot tell them *)
(* apart), makes the handler write a ping and count it.                     *)
WritePing(g, place) ==
    /\ \/ owed' = owed + 1 /\ Count(1) /\ HandlerGoes(g, place)
       \/ WriteFails(g, place)
    /\ UNCHANGED <<cfgVars, peer, sent, wire, ctx, dataVars, panicked>>

SendPing ==
    /\ At("pinger", "send") /\ At("heartbeat", "select")
    /\ WritePing("pinger", "select")

ReceivePong ==
    /\ At("reader", "pong") /\ At("heartbeat", "select")
    /\ Count(-1)
    /\ HandlerGoes("reader", "read")
    /\ UNCHANGED <<cfgVars, peerVars, ctx, dataVars, panicked>>

(* With the reversed heartbeat a ping is answered and not counted.          *)
ReceivePing ==
    /\ At("reader", "ping") /\ At("heartbeat", "select")
    /\ \/ ~reversHeartbeat /\ WritePing("reader", "read")
       \/ /\ reversHeartbeat
          /\ \/ Goto("reader", "read") /\ UNCHANGED <<closeFlag, owed, hbCounter>>
             \/ WriteFails("reader", "read")
          /\ UNCHANGED <<cfgVars, peer, sent, wire, ctx, dataVars, panicked>>

-----------------------------------------------------------------------------
(* The cache's goroutine.  When a message and the end of the context are    *)
(* both there select takes either.                                          *)
CacheSelect ==
    /\ At("cache", "select")
    /\ \/ /\ pipeline # <<>>
          /\ Hold("cache", <<Head(pipeline)>>)
          /\ pipeline' = Tail(pipeline)
          /\ Goto("cache", "publish")
       \/ /\ ctx
          /\ Goto("cache", "done")
          /\ UNCHANGED <<held, pipeline>>
    /\ UNCHANGED <<cfgVars, peerVars, hbVars, ctx,
                   source, dest, channel, dstVars, got, panicked>>

(* The dispatcher takes what is at the head of the source: a message, or    *)
(* the breakpoint, which puts the destination into its map.                 *)
TakeMessage ==
    /\ source # <<>> /\ ~(destination = "asked" /\ ahead = 0)
    /\ Hold("dispatcher", <<Head(source)>>)
    /\ source' = Tail(source)
    /\ ahead' = IF destination = "asked" THEN ahead - 1 ELSE ahead
    /\ Goto("dispatcher", "write")
    /\ UNCHANGED destination

AddDestination ==
    /\ destination = "asked" /\ ahead = 0
    /\ destination' = "open"
    /\ UNCHANGED <<pc, held, source, ahead>>

\* Mutant: the dispatcher ends with the client, before its owner ends the context.
DispatcherSelectEager ==
    /\ At("dispatcher", "select")
    /\ \/ TakeMessage
       \/ AddDestination
       \/ /\ ctx \/ closeFlag
          /\ Goto("dispatcher", "close")
          /\ UNCHANGED <<held, source, destination, ahead>>
    /\ UNCHANGED <<cfgVars, peerVars, hbVars, ctx, pipeline, dest, channel, unheard, got,
                   panicked>>

DispatcherSelect ==
    /\ At("dispatcher", "select")
    /\ \/ TakeMessage
       \/ AddDestination
       \/ /\ ctx
          /\ Goto("dispatcher", "close")
          /\ UNCHANGED <<held, source, destination, ahead>>
    /\ UNCHANGED <<cfgVars, peerVars, hbVars, ctx, pipeline, dest, channel, unheard, got,
                   panicked>>

\* Mutant: the dispatcher waits for room in the destination, whatever it takes.
WriteDestinationWaits ==
    /\ At("dispatcher", "write")
    /\ destination = "open" => Len(dest) < DestCap
    /\ dest' = IF destination = "open" THEN dest \o held["dispatcher"] ELSE dest
    /\ UNCHANGED destination
    /\ Hold("dispatcher", <<>>)
    /\ Goto("dispatcher", "select")
    /\ UNCHANGED <<cfgVars, peerVars, hbVars, ctx, pipeline, source, channel,
                   ahead, unheard, got, panicked>>

(* The message is written, or the destination closed after three seconds;   *)
(* one that is not in the map, not yet or not any more, gets nothing.       *)
WriteDestination ==
    /\ At("dispatcher", "write")
    /\ \/ /\ destination = "open" /\ Len(dest) < DestCap
          /\ dest' = dest \o held["dispatcher"]
          /\ UNCHANGED destination
       \/ /\ destination = "open" /\ Len(dest) >= DestCap
          /\ destination' = "closed"
          /\ UNCHANGED dest
       \/ destination # "open" /\ UNCHANGED <<dest, destination>>
    /\ Hold("dispatcher", <<>>)
    /\ Goto("dispatcher", "select")
    /\ UNCHANGED <<cfgVars, peerVars, hbVars, ctx, pipeline, source, channel,
                   ahead, unheard, got, panicked>>

(* Close: the source is closed before IsClosed is set, then the             *)
(* destinations in the map.                                                 *)
CloseChannel ==
    /\ At("dispatcher", "close")
    /\ \/ /\ channel = "open"
          /\ channel' = "closing"
          /\ UNCHANGED <<pc, destination>>
       \/ /\ channel = "closing"
          /\ channel' = "closed"
          /\ destination' = IF destination = "open" THEN "closed" ELSE destination
          /\ Goto("dispatcher", "done")
    /\ UNCHANGED <<cfgVars, peerVars, hbVars, ctx, held, pipeline, source, dest,
                   ahead, unheard, got, panicked>>

-----------------------------------------------------------------------------
(* The consumer first gets its destination.  GetResponse panics like the    *)
(* reader on the nil channel of a cache that has ended; RetriveData returns *)
(* nil, on which one waits for ever, if the channel is closed, and sends    *)
(* its breakpoint into the source otherwise.                                *)
GetResponse ==
    /\ At("consumer", "get")
    /\ \/ pc["cache"] = "done" /\ Panic("nilChannel")
       \/ /\ pc["cache"] # "done"
          /\ Goto("consumer", IF channel = "closed" THEN "select" ELSE "send")
          /\ UNCHANGED <<cfgVars, peerVars, hbVars, ctx, dataVars, panicked>>

\* Mutant: RetriveData writes the dispatcher's map itself, behind its back.
RetriveDataAtOnce ==
    /\ At("consumer", "send")
    /\ channel = "open"
    /\ destination' = "open"
    /\ Goto("consumer", "select")
    /\ UNCHANGED <<cfgVars, peerVars, hbVars, ctx, held, pipeline, source, dest, channel,
                   ahead, unheard, got, panicked>>

RetriveData ==
    /\ At("consumer", "send")
    /\ \/ channel # "open" /\ Panic("closedSource")
       \/ /\ channel = "open"
          /\ ~SourceFull
          /\ destination' = "asked"
          /\ ahead' = Len(source)
          /\ Goto("consumer", "select")
          /\ UNCHANGED <<cfgVars, peerVars, hbVars, ctx, held, pipeline, source, dest,
                         channel, unheard, got, panicked>>

(* It ends with the context or when its destination is closed and empty;    *)
(* the upstream's consumer then ends the context too, and appends what it   *)
(* receives to the server's cache, for ever if that is stuck.               *)
Consume ==
    /\ At("consumer", "select")
    /\ \/ /\ dest # <<>>
          /\ got' = Append(got, Head(dest))
          /\ dest' = Tail(dest)
          /\ Goto("consumer", IF disableCache THEN "append" ELSE "select")
          /\ UNCHANGED ctx
       \/ /\ dest = <<>> /\ destination = "closed"
          /\ ctx' = (ctx \/ disableCache)
          /\ Goto("consumer", "done")
          /\ UNCHANGED <<got, dest>>
       \/ /\ ctx
          /\ Goto("consumer", "done")
          /\ UNCHANGED <<got, dest, ctx>>
    /\ UNCHANGED <<cfgVars, peerVars, hbVars, held, pipeline, source, channel, dstVars, panicked>>

(* The append returns, or never does: the dispatcher of a reader that has   *)
(* gone may have blocked the server's cache (ServerStream).                 *)
AppendToCache ==
    /\ At("consumer", "append")
    /\ Goto("consumer", "select") \/ Goto("consumer", "stuck")
    /\ UNCHANGED <<cfgVars, peerVars, hbVars, ctx, dataVars, panicked>>

(* The owner ends the context of a closed client and connects again.  The   *)
(* example client's owner is busy with GetResponse first (main.go:306-308). *)
Owner ==
    /\ Running /\ closeFlag /\ ~ctx
    /\ disableCache \/ pc["consumer"] \notin {"get", "send"}
    /\ ctx' = TRUE
    /\ UNCHANGED <<cfgVars, pc, peerVars, hbVars, dataVars, panicked>>

-----------------------------------------------------------------------------
Reader == messageHandler \/ readMessage \/ AppendInput \/ GetDefaultChannel

Next ==
    \/ PeerSends \/ PeerLost
    \/ messageHandler \/ readMessage \/ readError \/ AppendInput \/ GetDefaultChannel
    \/ \E g \in Publisher : CheckClosed(g) \/ SendSource(g)
    \/ Tick \/ TimerOrContext \/ SendPing \/ ReceivePong \/ ReceivePing
    \/ CacheSelect
    \/ DispatcherSelect \/ WriteDestination \/ CloseChannel
    \/ GetResponse \/ RetriveData \/ Consume \/ AppendToCache
    \/ Owner

Spec == Init /\ [][Next]_vars

(* Every goroutine that can run does and time passes; the peer owes nothing *)
(* and a lost one need not make a read fail.                                *)
(* The end of the context is there at once, the next tick only later: the   *)
(* pinger does not choose its ticker for ever.                              *)
Fairness ==
    /\ WF_vars(Reader)
    /\ \A g \in Publisher : WF_vars(CheckClosed(g) \/ SendSource(g))
    /\ WF_vars(Tick) /\ SF_vars(Tick /\ pc'["pinger"] = "done")
    /\ WF_vars(TimerOrContext)
    /\ WF_vars(SendPing) /\ WF_vars(ReceivePong) /\ WF_vars(ReceivePing)
    /\ WF_vars(CacheSelect)
    /\ WF_vars(DispatcherSelect \/ WriteDestination \/ CloseChannel)
    /\ WF_vars(GetResponse \/ RetriveData \/ Consume \/ AppendToCache)
    /\ WF_vars(Owner)

FairSpec == Spec /\ Fairness

-----------------------------------------------------------------------------
(* Every variable has its type; in particular the heartbeat counter never   *)
(* goes past HeartbeatFailCount, at which the handler returns.              *)
ClientTypeOK ==
    /\ disableCache \in BOOLEAN /\ reversHeartbeat \in BOOLEAN
    /\ pc \in [Goroutine -> Place]
    /\ peer \in {"up", "lost"}
    /\ sent \in 0..MaxData /\ owed \in Int
    /\ wire \in Seq(Beat \cup Message)
    /\ hbCounter \in -1..HeartbeatFailCount
    /\ closeFlag \in BOOLEAN /\ ctx \in BOOLEAN
    /\ held \in [Goroutine -> Seq(Message)]
    /\ pipeline \in Seq(Message) /\ source \in Seq(Message) /\ dest \in Seq(Message)
    /\ channel \in {"open", "closing", "closed"}
    /\ destination \in {"none", "asked", "open", "closed"}
    /\ ahead \in Nat /\ unheard \in Nat
    /\ got \in Seq(Message)
    /\ panicked \in {"no", "nilChannel", "closedSource"}

(* What the reader has taken from the wire and the dispatcher has not       *)
(* dispatched to nobody, from the consumer back to the reader.              *)
Arrived ==
    got \o dest \o held["dispatcher"] \o source \o held["cache"] \o pipeline
        \o held["reader"]

(* How many of them are published but will be dispatched before the         *)
(* consumer's destination is in the map.                                    *)
TooEarly ==
    CASE destination = "none"  -> Len(held["dispatcher"]) + Len(source)
      [] destination = "asked" -> Len(held["dispatcher"]) + ahead
      [] OTHER                 -> 0

(* What the consumer gets is the messages from the first one on that was    *)
(* published after its breakpoint, which RetriveData has sent.              *)
FollowOn(list, n) == \A i \in DOMAIN list : list[i] = n + i

(* Unless the channel or the destination is closed every message published  *)
(* after the consumer has asked, and every message on the way there, is in  *)
(* one place, and in order: the queues and the goroutines hold the first of *)
(* them between them, the wire the rest.  Only what was published before it *)
(* asked (client.go:252 starts the reader, client.go:315 asks) is lost.     *)
NothingLost ==
    channel # "closed" /\ destination # "closed" =>
        LET last == unheard - TooEarly + Len(Arrived)
        IN  /\ FollowOn(Arrived, unheard - TooEarly)
            /\ last <= sent
            /\ {wire[i] : i \in DOMAIN wire} \ Beat = (last + 1)..sent
            /\ \A i, j \in DOMAIN wire :
                  i < j /\ {wire[i], wire[j]} \cap Beat = {} => wire[i] < wire[j]

(* Whatever happens, the consumer begins with the first message published   *)
(* after its breakpoint and never gets one twice, or one whose predecessor  *)
(* it has not got.                                                          *)
NoGap == FollowOn(got, unheard)

PongsOnWire == Cardinality({i \in DOMAIN wire : wire[i] = Pong})

(* The counter is the number of pings whose pongs have not been handled,    *)
(* over the wire, the reader and the handler, also if the peer sends pings  *)
(* of its own.  So a peer that is there is given up only after              *)
(* HeartbeatFailCount pings without an answer, or when it has sent more     *)
(* pongs than it was sent pings.  (With the reversed heartbeat pings are    *)
(* not counted.)                                                            *)
HonestPeerKept ==
    peer = "up" /\ ~reversHeartbeat =>
        /\ pc["heartbeat"] # "done" =>
              hbCounter = owed + PongsOnWire + (IF pc["reader"] = "pong" THEN 1 ELSE 0)
        /\ closeFlag => hbCounter = HeartbeatFailCount \/ owed < 0

(* Nothing panics before the context has ended: while the connection lives  *)
(* nobody finds the channel closed or nil.  Afterwards they can: a          *)
(* publisher, or RetriveData, between its look at IsClosed and its send     *)
(* does not see Close, and GetDefaultChannel returns nil once the cache's   *)
(* goroutine has ended.                                                     *)
SafeWhileOpen == ~ctx => Running

(* A peer that has fallen silent or whose connection is broken is noticed   *)
(* even if no read and no write ever fails: the heartbeat handler gives up  *)
(* or the timer expires, and the client says that it is closed.             *)
DeadPeerDetected == peer = "lost" ~> closeFlag \/ ctx \/ ~Running

(* When the client says that it is closed its owner learns of it, even      *)
(* while it still waits for GetResponse, and the topic's stream is taken    *)
(* down: the cache's goroutine and the dispatcher, which may be writing to  *)
(* a full destination that nobody reads any more, end, and so does the      *)
(* consumer unless the server's cache has stuck it.  Nothing is claimed of  *)
(* the reader, the pinger and the heartbeat handler, which may stay behind. *)
StreamEnds ==
    closeFlag \/ ctx ~>
        \/ /\ ctx /\ pc["cache"] = "done" /\ pc["dispatcher"] = "done"
           /\ pc["consumer"] \in {"done", "stuck"}
        \/ ~Running
=============================================================================

# Formal model of wstester

wstester is a websocket market-data server and client written in Go. The server
keeps the order book, the last trades and the instruments of one symbol, takes
them from an upstream server with the client of the same repository, and
publishes them to any number of websocket sessions. This directory holds TLA+
modules for its core, TLC configurations that model-check them on small
instances, and proofs checked by TLAPS.

## 1. The system

| component | source | state | operations |
|---|---|---|---|
| sorted price ladders | `utils/common.go` | none | search, add, remove in a sorted list |
| order book cache (`MBLCache`) | `utils/cache_mbl.go`, `utils/set_float.go` | two ladders, price map, two quotes | partial, delete, insert, update, merge of a second partial, snapshot, publication at depth 0 and 25 |
| trade cache | `utils/cache_trade.go` | list of trades | partial, insert, snapshot |
| instrument cache | `utils/cache_instrument.go` | instruments, price lists | partial, update, snapshot |
| table cache | `utils/cache.go` | pipeline, ready/closed flags | start, stop, append, take a snapshot |
| response channel (`rspChannel`) | `utils/channel.go` | source queue, destinations, timer | publish, retrieve, shut down, dispatch, close |
| server | `server/server.go` | clients, caches | upgrade, request loop, subscribe |
| session | `server/session.go` | send queue, heartbeat queue, cleanup function, context | read, write, send loop, heartbeat, close |
| upstream | `mock/upstream.go` | one client at a time | connect, forward to the caches, reconnect |
| client | `client/client.go` | websocket, caches, subscriptions, counters | subscribe, connect, message loop, heartbeat, close |
| example client | `examples/client/main.go` | counters and context of the reconnect loop | connect, back off, end on a signal or a deadline |

How they interact. Every cache is a goroutine that takes one input at a time
from its *pipeline*; an input is a message or a *breakpoint*, a function that
runs in that goroutine (a snapshot is one). What it publishes goes to the
*source* of a response channel, whose *dispatcher*, another goroutine, hands it
out to the *destinations*. Adding and removing a destination are breakpoints of
the dispatcher. A subscription of the server is a *forwarder* goroutine that
reads one destination and writes to its session; the session's *sender* writes
to the websocket. All of these queues are bounded Go channels. The caches get
their input from the upstream's goroutine, which reads the destinations of the
client's own caches.

What is hard: five goroutines and three queues lie between a message of the
upstream and a client; a snapshot has to fall at the right place of a stream it
is not part of; a slow client must not hold up the others; a session may close at
any moment of this; the upstream's connection is lost and comes back with a book
that has changed; a list of orders may fail in the middle. `PROJECT.json` lists
the hazards at their lines with the properties that watch them.

What makes each component correct:

- ladders: the place returned is the place of the price, no index is out of range, the loop ends;
- order book: ladders, map and quotes agree; the book is the upstream's, also after a reconnection; a subscriber that applies what it is sent has the same book; no panic without a cause that is known;
- trades: a snapshot is always the last `maxTradeLen` trades, and a subscriber knows them too;
- instruments: the cache has the upstream's instrument, and a subscriber gets it from a snapshot that is encoded long after it was taken;
- channel, server and session: every subscriber gets one stretch of the stream that contains its snapshot; no Go channel is closed twice or written after its close; a client that reads keeps up; closing a session ends, gives its destination back and takes it out of the server's clients, if it was counted among them; a peer that is there is kept, one that is not is closed;
- client: from the moment the consumer has asked for its topic nothing is lost or doubled between the wire and the consumer, an honest peer is kept and a dead one noticed, and the stream of a connection (cache, dispatcher, consumer) ends with it;
- reconnect loops: a lost connection is made again, not too soon, and limit, deadline and interrupt end the program.

## 2. Modules

| module | models | kind |
|---|---|---|
| `PriceLadder` | the functions on sorted lists, by what they return | operators |
| `PriceAddLoop` | `UniPriceAdd`, one iteration of the bisection per step | algorithm |
| `OrderBook` | `MBLCache` under any messages | state machine |
| `BookFeed` | `OrderBook` composed with an upstream that may lose its connection | composition |
| `TradeWindow` | what the trade topic promises: the last `maxTradeLen` trades | abstract specification |
| `TradeCache` | `TradeCache`, and its refinement mapping to `TradeWindow` | state machine |
| `InstrumentCache`, `MCInstrumentCache` | the instrument cache with its upstream and one subscriber; an upstream for it | state machine, model values |
| `TableCache` | `tableCache` and `rspChannel`: pipeline, cache goroutine, source, dispatcher | state machine |
| `ServerStream`, `MCServerStream` | `TableCache` composed with forwarders and closing sessions; an instance of it | composition, model values |
| `Session` | one session: handler, heartbeat loop, sender, forwarder, `Close` | state machine |
| `ClientConnection` | one connection of the client: message handler, heartbeat, cache, dispatcher, consumer, owner | state machine |
| `ReconnectLoop` | the loops of the example client and of the upstream over connections | state machine |
| `PriceAddLoopProofs`, `TradeCacheProofs`, `InstrumentCacheProofs`, `ServerStreamProofs`, `SessionProofs`, `ClientConnectionProofs`, `ReconnectLoopProofs` | theorems about the module they are named after | proofs |
| `BookFeedProofs` | theorems about `OrderBook`, and on top of them about `BookFeed` | proofs |

How they fit together. `TableCache` leaves out what a message says, which is the
subject of the three caches, and these leave out the queues, which lose and
reorder nothing by `GaplessStream`. `ServerStream` has the end of a session as
one step at any moment; `Session` says when it comes. `ClientConnection` is one
round of `ReconnectLoop`, which keeps of it that a client says it is closed, or
no longer will.

### Ladders

`PriceLadder` gives `UniPriceSearch`, `UniPriceAdd` and `UniPriceRemove` as
operators that return what the Go functions return; Go's indices start from 0.
The source writes each function twice, for ascending and descending lists;
`Before` is the one difference. `UniPriceAdd`'s bisection is not trusted:
`PriceAddLoop` runs it and `ReturnsRank` compares the result with the operator.

### Order book

`OrderBook`'s variables are the fields of `MBLCache` (`prices` holds `askPrices`
and `bidPrices`, `quote` both quotes) and the locals of `applyData` and
`handlePartial` while they run. A list is applied one order per step, because an
error or a panic can leave it half applied. Each handler has its disjuncts:
an error before the change, a panic, the change with or without an error after
it. A panic sets `panicked`, and nothing happens any more; the Go program ends
there.

| action | code |
|---|---|
| `ReceiveList`, `handleDelete`, `handleInsert`, `handleUpdate`, `dispatchRsp` | `handleInput` and `applyData` on a list |
| `FirstPartial` | `handlePartial` on an empty cache |
| `MergePartial`, `MergeInsert`, `MergeUpdate` | `handlePartial` on a cached book; between them its lists go through the actions above |
| `Subscribe` | registration and snapshot of one subscriber per stream |

A price is an integer and a level a side and a size: symbols and order
identifiers are left out (an identifier that does not fit is only logged).
The previous best quote and `IsQuoteChange` are left out: they feed a debug
line. Left out is what is logged as invalid and skipped: an order of neither side and
a list with an unknown action (`cache_mbl.go:293`, `460`, `506`, `541`). A partial
arrives sorted, the highest price first: the code neither sorts it nor looks
(`cache_mbl.go:311-325`), and one that is not would leave the ladders out of order
from the start. Publication is immediate: that queues between cache and subscriber lose
and reorder nothing is `ServerStream`'s subject. A limit other than the one of
`NewDepthChannel(25)` is never used, so there is one limited stream.

`BookFeed` adds the upstream: a partial per connection, then lists that describe
what its book did. It never sends a list that does not describe a change of its
book, and its book is never crossed. `Reconnect` changes up to `MaxDrift` levels
unseen. `EarlyDelta` is a list that comes before the partial of its connection,
which this repository's own server can send when servers are cascaded
(it registers a destination before it asks for the snapshot), and which the cache gets
when the partial was published before the upstream asked for the topic (see the client
connection below). Here a partial still comes before such a connection is lost.
Such a list may be
meant for a book the cache does not have. `early` counts them and is never reset,
because what they leave behind outlives the partial: a deletion that names the other
side than the map takes the level out of the map and leaves its price on the ladder,
where a later insertion puts it again. `UniPriceAdd` asks for a list of unique prices;
on others it still keeps the order, with the price where `PriceLadder!UniPriceAdd`
says, in one case three times. `BookConsistent`, `QuoteIsTop` and the views of the
limited stream are claimed as long as there has been no early list; `LevelsAreListed`,
`TracksUpstream` and `FullViewExact` hold after them too.

`missed` is a history variable: the streams whose subscriber has been kept from a
change. `CutShort` puts a stream there when a list ends in an error with orders
applied that are not published, `NamesOtherSide` when an early update changes a level
of the map's side and is published with the other, `MakesUpDeleted` the limited stream
when a list deletes two levels of a side. The view properties hold for everybody else;
without early lists nothing is kept from the full stream (`FullViewExact`).

### Table cache, channel, server

`TableCache` has one action per step of the two goroutines that another
goroutine can tell apart: a receive (`handleInput`, `takeInput`), a blocking
send (`PublishData`, `Write`), the wait on a full destination (`Block`), the
timer. A message is the number of messages before it, a snapshot the number of
messages it contains. The time-out is 3 s; it can pass only while the dispatcher
is blocked, and its value, once sent, stays in the timer's channel until it is
read (`Reset` does not take it back), so a timeout may compete with room that
has just been made. The timer made after a timeout is lost, as in the code. The
cache has one channel; `MBLCache` has one for each depth and publishes to them one
after the other in one goroutine (`cache_mbl.go:119-133`), so that one blocked
dispatcher holds up both streams of the order book.

`ServerStream` adds the forwarder of every subscription, step by step, and
`Close` of a session with its cleanup function. A session's sender is one flag:
it runs until it sees the end of the context. A slow client is one whose writes
need not happen. A session may be closed at any moment, as by a read error, a
lost heartbeat or a failed write. Its `status` tells a `Close` that returned from
its cleanup function ("cleaned") from one that found none ("closed"): that is what
becomes of a session closed before `SetCleanup`, and the function of a
first subscription is overwritten by that of a second.

### Session

`Session` is a session from the upgrade to its removal from the server's clients.
Neither of its Go channels has a buffer, so a send is a step of both its ends
(`Meet`). `pc` has the place of each goroutine.

| action | code |
|---|---|
| `Send`, `WriteMessage`, `SenderEnds` | `WriteTextMessage`, `WriteJSONMessage` and `sendMessageLoop`, with the `errChan` that welcome and heartbeats wait for |
| `incClients`, `ReadMessage`, `decClients` | `wsUpgrader` and its request loop |
| `ReceivePing`, `CountPing`, `ReceivePong`, `Tick` | `heartbeatLoop`; `Tick` is the ticker when the server pings, else the timer |
| `Close`, `CloseConn` | `Close`, in any goroutine: the first runs it, the others wait for it |
| `Forward` | the forwarder, as far as it competes for the sender |
| `PeerSends`, `PeerLost` | the client at the other end (external) |

A peer is "up", "rude" (it has sent a pong nobody asked for), "silent", "stalled"
(it does not read either) or "gone". A write to a stalled peer waits until the
connection is closed, one to a peer that has gone may go unnoticed. The timer
does not run out on a peer that is up. A peer may ping a server that pings itself
(`session.go:177-182`): the server then sends, and counts, one ping more.

`returned` says that `incClients` has returned a session. After a welcome that
failed it returns nil, the handler panics on it, net/http recovers, and the deferred
`decClients` takes nothing off (`server.go:99-102`); `clients` goes up and down by
one, so that a decrement for a session that was never counted would be seen.

### Client connection

`ClientConnection` is a connection with one topic, from `Connect` until its
goroutines have ended. `pc` says where each of the six goroutines is: one step
is a receive, a blocking send, or a look at a flag that another goroutine
writes. In particular `PublishData` is two steps, `CheckClosed` and `SendSource`,
and `Close` is two, closing the source and setting `IsClosed`.

| action | code |
|---|---|
| `messageHandler`, `readMessage`, `readError`, `AppendInput`, `GetDefaultChannel` | the reader: `messageHandler`, `readMessage`, `handleInsMsg`/`handleTdMsg`/`handleMblMsg` |
| `GetResponse`, `RetriveData` | the consumer asks for its topic: `client.go:308-320`, `channel.go:139-152` |
| `Tick`, `SendPing`, `ReceivePong` | the pinger and `heartbeatHandler`; `heartbeatChan` has no buffer, so sending and handling are one step |
| `ReceivePing` | a ping of the peer: answered with `reversHeartbeat`, else taken for one of the ticker's, so that one more is written and counted |
| `TimerOrContext` | the timer of `reversHeartbeat`, which every message sets anew |
| `CacheSelect`, `CheckClosed`, `SendSource` | the cache's goroutine and `PublishData` |
| `DispatcherSelect`, `WriteDestination`, `CloseChannel` | the dispatcher of the default channel; it takes a message (`TakeMessage`) or runs the breakpoint (`AddDestination`) |
| `Consume`, `AppendToCache`, `Owner` | `filter.go` and `main.go` with the cache, `mock/upstream.go` without it (`disableCache`) |
| `PeerSends`, `PeerLost` | the server at the other end (external): sends, pings, answers pings, pongs unasked, falls silent, breaks off |

The consumer asks late. `Connect` starts the reader (`client.go:252-255`), and
`GetResponse` is called only after it has returned, by the owner (`main.go:306-308`)
or by a goroutine of its own (`upstream.go:37-40`); the destination comes into the
dispatcher's map when the dispatcher has come to the breakpoint that `RetriveData`
has queued in the source. What was published before goes to nobody: `destination`
is "none", then "asked" with `ahead` messages in front of the breakpoint, then
"open". `unheard` counts what was published until the consumer asked. So the first
partial of a topic can be lost, and with it, for the upstream, the book of that
connection. `NothingLost` and `NoGap` say that nothing else is: the consumer begins
with message `unheard + 1` and misses none from there. The owner of the example
client looks at `Closed()` only when `GetResponse` has returned.

A select with several ready cases takes any of them. A write to a connection that
has gone may fail or go unnoticed. The cache publishes one message for each it is
given; what it does with it is the caches' subject. The upstream's consumer appends
what it receives to the server's cache, which may be stuck for ever (`server_wedged`):
`AppendToCache` may never return. A panic ends the process. Left out: several topics;
the answers to subscriptions, of which a failed one takes the topic out of the map
`SubscribedTopics`, which `GetResponse` reads without a lock (`client.go:309`, `470`);
and the owner who ends the whole program, at its deadline or by an interrupt.

`StreamEnds` says what ends with a connection: the cache's goroutine, the dispatcher
and the consumer. These may stay behind, and it claims nothing of them:
`heartbeatHandler`, which ranges over a channel nobody closes; a pinger or a reader
that sends to it after the handler has returned; a reader that waits for a connection
nobody closes, or in `Append` to the full pipeline of a cache that has ended; a reader
whose server goes on pinging, because `readMessage` does not look at the context; and
a consumer that is stuck in the server's cache.

### Reconnect loops

`ReconnectLoop` has both loops. `owner = "client"` is `main` of the example client:
backoff, limit of failures, deadline and interrupt. `owner = "upstream"` is
`mock/upstream.go`, which sleeps for a fixed time, never gives up and looks only at
`Closed()`. Time passes in slots of half a `reconnectDelay`, so that a backoff of
`2^c - 1` slots is the code's. Only the context of the current round is kept: a
`continue` after a failed `Connect` leaves the old one, and the caches made for it,
running (`main.go:303`), where nothing looks at it again. `deaf` says that the reader has ended after its context: the client will then not
say that it is closed.

### Instruments

`InstrumentCache` has one instrument of eight fields in four groups, of which
`handleUpdate` looks at some (`Gate`) before it takes over the group. A field an
update does not give is zero. A partial or a snapshot is published as a pointer,
so `heap` holds every instrument there has been and the last is the one that the
cache goes on changing; `Receive` follows the pointer when the message is
encoded. `stale` and `untold` are history variables: the fields of which the cache,
or the subscriber, has missed the last word for a reason that `Missed` and `Unsaid`
name (a group that is not opened, a field set to zero, a list whose flag is that
of its last item, a later partial that is not published). `CacheTracks` and
`ViewTracks` say that every other field is right. They make the claim of
`README.md:85`, that the cache only drops what brings no change, precise.
`wapPriceList` is never used. Without a partial every item is an error and only
logged (`PartialMissing`). An item of another symbol is such an error in the middle
of a list: it changes nothing, but the flag of the list is that of its last item
(`cache_instrument.go:181`), so a list that ends with one is not published. The model
has it as an item that gives no field, which does the same.

### Trades

`TradeCache` is sequential: one message is one step. `TradeWindow` says what a
subscriber is promised and does not know of the cut; the refinement mapping is
`window <- LastN(historyTrade, maxTradeLen)`.

## 3. Runs

| run | question | instance |
|---|---|---|
| `price_add` | does the bisection stay inside the list, end and return the right place? | every sorted list of up to 6 of 7 prices, repeats included, both directions |
| `book_feed` | do map, ladders and quotes agree, and has the limited subscriber the best levels and no others? | 4 prices, 2 sizes, limit 1, the limited stream, lists of up to 2 orders, 2 levels of drift, no early lists |
| `book_resync` | does a merge restore the book however it was damaged, what is left on the ladders, and who is still told? | 3 prices, 2 of them may drift at a time, 2 early lists of up to 2 orders, the full stream |
| `trade_cache` | does the trade cache refine the window? | window of 2, lists of up to 3 trades |
| `instrument_cache` | do cache and subscriber have the instrument, apart from the named fields? | 17 messages, 4 updates, 2 partials, price lists of 2, 2 messages on the way |
| `server_stream` | is the stream gapless, its cleanup complete and the server live with one slow session that may be closed? | 2 sessions, all queues of 1, 2 messages |
| `session` | is an honest peer kept, a dead one closed, and does a closed session leave? | both heartbeats, 3 missing pongs |
| `client_connection` | is nothing lost from registration on, an honest peer kept, a dead one noticed, and does the stream end? | both heartbeats, with and without cache, 2 messages, 1 unasked pong, all queues and the wire of 1, 2 missing pongs |
| `reconnect_loop` | does the loop go on, keep its distance and give up? | limits none, 0 and 2, deadlines none and 3 slots, backoff up to 7 slots |
| `reconnect_deadline`, `server_wedged`, `book_side_change` | statements of the repository that the code does not keep | as above |

Why these bounds. Queues of capacity 1 are full and empty in every combination;
larger ones only delay the blocking. Two messages and two snapshots fill a
pipeline, a source and a destination of 1 and overflow them. A
window of the bisection needs 3 elements to be halved and 6 for two halvings to
either side. Four prices leave a side with three levels against a limit of one,
which is the smallest ladder where a level can move over the limit from either
side; a list of two orders is the smallest that can fail in the middle or make up
a level it deletes itself. One level of drift already exercises every branch of the merge,
and two let its delete, insert and update lists come together. In `book_resync` two
levels drift at a time, and two early lists, which the cache may apply, apply in part or refuse, come on top, so that all
three prices may differ when the partial arrives; three prices let one change sides
between two that do not, and two early lists can leave a price on a ladder and put
it there again. `book_side_change` has all three drift. Two messages in the client fill
any one of its queues of 1 while the next waits before it, because a goroutine
behind the queue may simply be slow, and let one go to nobody and the next to the
consumer; for more of them there is the proof. A wire of
1 does not restrict the peer, since what is behind it counts as not yet sent. Two
missing pongs are the least that let one pong come late without the peer being
given up, and one unasked pong is enough to take the counter below zero; three in `session` leave room for the pong that overtakes the count of
its ping. Four updates change an instrument, leave one field behind, and change it
again around a snapshot and a second partial; a queue of 2 holds a pointer with an
update behind it. A limit of 2 failures and a deadline of 3 slots, between the
second backoff and the third, can each come first. A trade history of at most 6
with lists of 3 is cut at every remainder.

The runs do not check for deadlock where the process may really stop: after a
panic, when it has exited, or when nothing is fed, subscribed or connected any
more. `price_add` and `trade_cache` check it.

Fairness (`ServerStream!Fairness`): weak fairness of every goroutine's step,
because the Go scheduler runs what can run, and of the timer, because time
passes. `ClientConnection!Fairness` is the same for the goroutines of a client,
with strong fairness of one choice: a pinger whose context has ended sees that
before its next tick, some seconds later, again and again. `Session!Fairness` has
strong fairness of the sends: a Go channel keeps its waiting senders in a queue
and serves them in turn, so a goroutine is not passed over for ever by the others.
`ReconnectLoop!Fairness`: the loop takes the step it can, a dial ends and time
passes. The peers owe nothing, not even an answer; nothing obliges the upstream to
send, a client to subscribe, a session to close, a slow client to read, a dial to
succeed or a user to interrupt. `price_add` has weak fairness of a sequential loop.

### What the runs show to be wrong

Three runs end in a violation of something the repository says of itself;
`PROJECT.json` "findings" quotes the lines.

1. `book_side_change`: `Join` does not intersect, so the merge of a new partial
   reads a deleted map entry when a price has changed sides: nil dereference.
2. `server_wedged`: after a first timeout in a round the dispatcher has no timer.
   Two clients that subscribe to a busy topic fill up while their snapshots are
   queued; the second blocks the dispatcher for ever, and the topic with it.
3. `reconnect_deadline`: every round starts the deadline again with a new context,
   so a client that keeps losing its connection runs past it for ever.

Other places where the code does less than one might expect are exceptions that
a property of a passing run states exactly, so that it says nothing less of every
other case:

| exception | where |
|---|---|
| a list that fails half way is applied and not published | `FullViewExact`, `missed` |
| the limited stream publishes a made-up level after its deletion | `DepthViewExact`, `missed` |
| fields the instrument cache ignores, zeroes or does not publish | `CacheTracks`, `ViewTracks` |
| panics of the order book | `PanicHasCause` lists the causes |
| a second full destination at one message stops the dispatcher | `ReaderKeepsUp` and `CloseReturns`, `Wedged` |
| a cleanup function that comes after `Close` or is overwritten | `CleanupDone` |
| a write has no deadline: a peer that does not read holds up the pings that would notice it | `DeadPeerClosed`, `Clogged` |
| a handler waits to send to a heartbeat loop or a sender that has ended | `ClosedLeaves`, `Stranded` |
| what is published before the consumer has asked for its topic goes to nobody | `NothingLost`, `NoGap`, `unheard` |
| the upstream waits for a client whose consumer has ended the context | `Reconnects` |
| only failures in a row are counted | `GivesUp` |

One more statement of the repository is not kept, without a run of its own: the
comment "gracefully quit heartbeatHandler and other goroutine" (`main.go:317`), where
the end of the context is all that is done. Its end reaches the pinger, the reader,
the cache and the dispatcher at their selects; `heartbeatHandler` has no select and
stays in its range for ever, in every round (`client.go:353`), and the goroutines
listed under *Client connection* may stay with it. `ClientConnection` has
all of this, and no property says otherwise: with `At("heartbeat", "done")` added to
the conjuncts of `StreamEnds` TLC finds the counterexample.

An interrupt while the client dials is lost, `sigChan` having no buffer; no
property asks for more than that one in the two selects ends the program.
The panics of a client connection that ends are modelled,
but no statement of the repository excludes them: a publisher that has looked at
`IsClosed` before `Close` sends to a closed channel (`channel.go:106`), and without
the cache `GetDefaultChannel` is nil once the cache's goroutine has ended
(`cache.go:240`). `SafeWhileOpen` says that neither happens while the connection
lives, and `DeadPeerDetected` and `StreamEnds` except a process that has panicked.

## 4. Proofs

| theorem | statement | from |
|---|---|---|
| `PriceAddLoopProofs!AddReturnsRank` | `Spec => []ReturnsRank` | `PriceAssumption`, `MaxLenAssumption` |
| `PriceAddLoopProofs!AddIndexInRange` | `Spec => []IndexInRange` | the same |
| `BookFeedProofs!TypeCorrect` | `Spec => []TypeOK` | prices are a finite set of integers, sizes positive, limit positive |
| `BookFeedProofs!BookStaysConsistent` | `FeedSpec => []BookConsistent` | the same, and `MaxBatch \in Nat` |
| `BookFeedProofs!QuoteStaysTop` | `FeedSpec => []QuoteIsTop` | the same |
| `BookFeedProofs!LevelsStayListed` | `FeedSpec => []LevelsAreListed` | the same |
| `BookFeedProofs!UpstreamTracked` | `FeedSpec => []TracksUpstream` | the same |
| `BookFeedProofs!FullViewStaysExact` | `FeedSpec => []FullViewExact` | the same |
| `BookFeedProofs!DepthViewStaysCovered` | `FeedSpec => []DepthViewCovers` | the same |
| `BookFeedProofs!DepthViewStaysExact` | `FeedSpec => []DepthViewExact` | the same |
| `BookFeedProofs!PanicsHaveCause` | `FeedSpec => []PanicHasCause` | the same |
| `BookFeedProofs!FeedImplementsCache` | `FeedSpec => Spec` | the same |
| `BookFeedProofs!FeedTypeCorrect` | `FeedSpec => []TypeOK` | the same |
| `TradeCacheProofs!ViewFollows` | `Spec => [](TypeOK /\ ViewIsSnapshot)` | `maxTradeLen > 0`, `maxMultiple >= 2` |
| `TradeCacheProofs!TypeCorrect` | `Spec => []TypeOK` | the same |
| `TradeCacheProofs!Refinement` | `Spec => KeepsWindow` | the same |
| `InstrumentCacheProofs!TypeCorrect` | `Spec => []InstrumentTypeOK` | messages are non-empty lists of items, `PriceCap > 0` |
| `InstrumentCacheProofs!Tracks` | `Spec => []CacheTracks` | the same |
| `InstrumentCacheProofs!ViewFollows` | `Spec => []ViewTracks` | the same |
| `ServerStreamProofs!NoSecondClose` | `Spec => []NeverClosedTwice` | `SessionAssumption`, `NoneAssumption` |
| `ServerStreamProofs!Stretch` | `Spec => []GaplessStream` | the same |
| `ServerStreamProofs!CloseCleans` | `Spec => []CleanupDone` | the same |
| `ServerStreamProofs!TypeCorrect` | `Spec => []TypeOK` | the same, `CapAssumption`, `MaxDataAssumption` |
| `SessionProofs!TypeCorrect` | `Spec => []SessionTypeOK` | `HeartbeatFailCount > 0` |
| `SessionProofs!Kept` | `Spec => []HonestPeerKept` | the same |
| `ClientConnectionProofs!TypeCorrect` | `Spec => []ClientTypeOK` | `HeartbeatFailCount > 0`, capacities positive |
| `ClientConnectionProofs!SafeOpen` | `Spec => []SafeWhileOpen` | the same |
| `ClientConnectionProofs!PeerKept` | `Spec => []HonestPeerKept` | the same |
| `ClientConnectionProofs!WholeStream` | `Spec => []NothingLost` | the same |
| `ClientConnectionProofs!Ungapped` | `Spec => []NoGap` | the same |
| `ReconnectLoopProofs!TypeCorrect` | `Spec => []LoopTypeOK` | flags are natural numbers, `FailCap` beyond what is compared |
| `ReconnectLoopProofs!DialsWait` | `Spec => []DialsSpaced` | the same |

*Bisection.* The invariant is `IInv`: the types, `WindowBrackets` and the two
results. `ReturnsRank` alone is not inductive: while the loop runs it says
nothing. `WindowBrackets` says why halving is allowed, and `RankAtBoundary` turns
"the left neighbour stands before the price and the right one after it" into the
rank, a cardinality, without induction: the indices before the boundary are an
interval.

*Order book.* `TypeOK` is inductive as it stands, but only because it keeps
`makeup` and `delta` in `Seq(Order)`: `GetOrderOnDepth` must never collect an
empty level, and the merge must never list a price the map does not have. These
are the two places where the code has a nil order, and the proof cites their
guards. The theorem is about `OrderBook!Spec`, where any message may come at any
time, so it covers every upstream.

*Order book and upstream.* None of the properties is inductive: that the ladders
agree with the map is kept only by orders that fit the book, and that the orders fit
is kept only because the book is the upstream's. `FeedInv` ties them together with one
idea: a list *leads* from a book to another (`Leads`) when its orders are about
different levels, each as its action needs it (`Fits`), and give exactly the other
book. `OnTheWay` says that what is left of the list leads from the map to a book c,
and that the whole list leads there from the subscriber's book; `Target` says which
book c is: the upstream's, or during a merge one of the two books between its
lists. `LeadsOn` is the step of one order, `ApplyLeads` the subscriber's,
`ListLeads` builds a list from a set whatever its order. `DeleteKeeps`,
`InsertKeeps` and `UpdateKeeps` are the ladder's side of it: `RankIsBoundary` makes
the rank, a cardinality, a place in the list, and from it follow what removing
and adding a price do to the set of prices and to the last of them, the quote. An error
half way cannot occur, so `missed` stays empty for the full stream; a panic is
traced through `OnTheWay` and `Target` to the book the upstream had. `FeedInv` needs
that no list has come early: it is kept by `OnTime`, `early = 0 => FeedInv`.

*Early lists.* After one the orders need not fit, so of all this only what the merge needs
is left, and that is a second invariant, `EarlyInv`, kept by every step of every feed.
`Listed` has the ladders sorted and complete, not exact: `SortedFinds`, `AddSorted`
and `RemoveSorted` are the ladder operations on lists that repeat prices, and
`DeleteOutcome`, `InsertOutcome` and `UpdateOutcome` say that an order panics, ends the
list without fitting the map, is applied, or updates a level of the other side.
A price that is left on a ladder stops the process at the next merge when the map has
no level for it; when the map has one on the other side, the merge may delete that
level. So `EarlyTarget` asks only that the map keeps no level that the partial has not,
and a level that is then missing is read, and stops the process, before anything
is inserted. Once the partial is being merged its lists lead the map to the
upstream's book as before (`EarlyProgress`). A list before the partial leads nowhere;
what still holds is that the subscriber's book with the whole list is the map
with the rest of it (`HalfSent`), because no price comes twice in a list
(`Apart`, `ApplyRest`), and that breaks only where `missed` says so.
`UpstreamTracked` follows from `EarlyInv` alone, `FullViewStaysExact` and
`PanicsHaveCause` from both invariants. What an early list leaves on a ladder may bite
many messages and several connections later, so no bound on the run would show that
the list of causes is complete; this proof does.

*Limited stream.* That is an invariant on top of `FeedInv`, with its hypothesis. `DepthViewCovers` speaks
of an idle cache, `DepthInv` of the lists that are still being collected: what the
subscriber will have when they are published (`Seen`) has every one of the best
levels of the book as it is between two orders. For that the collected lists must
fit the book (`Collected`): a level that has been made up is that of the book as long as
the book has one, an insertion pushes out only what the book keeps. `TopRemoved` and
`TopInserted` say what removing or adding a price at a place of a ladder does to its best
`Limit` prices: nothing below the limit, above it one price, and which, comes in
or goes out. `DeleteMoves`, `InsertMoves` and `UpdateMoves` join this to what
`Collect` appends, and `DeleteDepth`, `InsertDepth` and `UpdateDepth` go through
the prices. That nothing else is in the subscriber's book (`OnlyTop`) fails in one
place of this proof: a second deletion of a side may take a level that has been made up for
the first, and the made-up list is published last. There the hypothesis is that
no list has done so (`Twice`, `missed`).

*Trades.* `HalfIsEnough` is the arithmetic of the code's constants: a list is cut
to `maxTradeLen * maxMultiple / 2` and a multiple of at least 2 leaves
`maxTradeLen`; for a multiple of 1 the theorem is false. `TrimProperties` turns it
into "`Trim` does not change the last `maxTradeLen`", `LastNOfConcat` is the
window's own step.

*Instruments.* The loop of `handleUpdate` is a recursive function, `applyData`, and what
the theorems say of it is proved by induction over the list: `NatSetInduction` is
induction for the elements of a set (the library's theorem has an operator for a
parameter), `LoopRuns` is the function's equation, `LoopTracks` its invariant. That says
that after k items the cache differs in stale fields only from `Upto`, the upstream's
instrument after k items, which `MergeIsUpto` and `UptoStep` derive from `Merge`, the
non-recursive last word on each field. `ViewTracks` is not inductive: it says nothing
while messages are on their way. `ViewInv` says that for every field that is not untold
the last message of the queue that tells of it has the upstream's value, or points to the
instrument the cache is still changing (`Knows`); if there is none the subscriber has it already.
A pointer that is followed late is the case where `CacheTracks` is needed.
`UnpublishedSaysNothing` is the filter: a list whose flag stays down, apart from
what `Unsaid` names, repeats what the upstream has said before.

*No second close.* `NeverClosedTwice` is not inductive, because the destination
that comes into the map next might already be closed. `IInv` adds `NewOnce`: what
is queued for addition is queued once, is open, and belongs to a reader that has
begun; and `Round`: what is left to visit and what has been closed in a round are
parts of the map.

*One stretch.* `GInv` gives every place along the source a *level*, the number of
messages a snapshot would contain there (`SourceLevels`). It goes up by one with
each message, ends at what the cache has applied (`LastLevel`), and begins with
what the dispatcher has come to; every destination in the map holds that level,
or one message less if the dispatcher still has to visit it (`SeenLevel`). The
levels are a function whose existence is the invariant; each step of cache,
publisher or dispatcher names the next one.

*Cleanup.* A removal runs when all that is before it in the source has run, so
`CInv` says that the addition of a reader comes before its removal (`Ordered`), and
that a reader which has begun and is in no map is on its way (`OnItsWay`). Then the
removal finds its destination in the map, or closed by a timeout, and `GoneStays`
keeps it so.

*Types of the stream.* `TypeOK` is not inductive: nothing in it says that a snapshot is
asked for and a destination added by a reader, nor that the cache applies no more than
was fed. `TInv` adds `Numbered`: the messages in the pipeline are numbered upwards from
what the cache has applied to what was fed. That additions are readers' comes from `IInv`.

*Session.* `IInv` adds to the counter's equation that a loop which has not given up
is below its limit (`Counting`), that a heartbeat held by the sender is waited for
(`Taken`), and that nobody stands before `Close` for another reason while the peer
is there (`NoneCloses`).

*Client.* Three layers, each on top of the one before. `TInv` has the types, the places
of each goroutine, that it holds exactly one message between taking and passing it
on (`Hands`), and that channel and cache end only after the context (`Ending`), from
which `SafeWhileOpen` follows. `Exact` is the equation of the counter with `Due`, the
pings whose pongs the client has not read, and `PongsAppended`/`PongsReceived` are its
two lemmas about cardinalities. `Stream` says that what has arrived is one stretch, which
begins where what goes to nobody ends (`Base`), and that the wire holds exactly the
messages behind it, in order (`WireFrom`). A step moves a message from one stage to
the next; `PassedOn` and `StageJoins` show once, for any two neighbouring stages, that their
concatenation does not change, and `FollowRest` and `FirstArrived` what it is without
the first message, when the dispatcher has written that to nobody. `Registering` says
that nothing is in the destination, or at the consumer, before the breakpoint has run, and
that no more messages are in front of it than the source holds. When the destination is
closed messages are no longer passed on; what the consumer has and what the destination
still holds stays one stretch from `unheard` on, which is the other half of `Stream` and
gives `Ungapped`.

*Reconnect loops.* `DialsSpaced` is not inductive: `Waited` says that what has passed of
a backoff and what is left of it make at least the backoff, while the loop waits.
`Shifted`, 1 << c, is a recursive function on all natural numbers; `ShiftedDef` shows by
induction that such a function exists, and `ShiftedGrows` that it is positive and
monotonic, so that a capped count gives a bound on every wait.

Only model-checked: all liveness, which is outside the prover's reach. `TypeOK` and `WindowBrackets` of `PriceAddLoop` are parts of its proved invariant.

## 5. Not modelled

- `Stop` of a cache has no caller. `Close` of a channel and the end of a context are
  in `ClientConnection` only: in the server they happen when the process ends.
- `childChannels` (`Connect`, `Disconnect`, `dispatchSubChannels`): no caller;
  the loop over them is empty.
- The client's `Subscribe` while connected and `UnSubscribe`: no caller; both programs
  subscribe before they connect. Authentication of the server: a stub.
- SQL filter, configuration, signature, logging, message models, mock trades:
  sequential data handling or I/O, no control of their own.
- Data races on `IsClosed` are interleavings (`CheckClosed`, `CloseChannel`), and so is
  that on `cleanupFn` (`SetCleanup`, `Close`). `IsReady` is set just after the goroutine it
  speaks of has been started: a context that ends within that instant is not modelled.
  The server's map of clients is written without a lock: the Go runtime may stop the process, but nothing reads
  the map, so there is no other outcome to give it. A level of the order book is a
  value, so an update of an order that a queued snapshot points to is not seen;
  `InstrumentCache` does model that for the cache where it matters more.

What a continuation would take up first: pointers for the levels of a queued snapshot, and a
refinement of one abstract connection, open until closed once, by both `Session`
and `ClientConnection`.

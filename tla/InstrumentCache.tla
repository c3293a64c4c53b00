--------------------------- MODULE InstrumentCache ---------------------------
(***************************************************************************)
(* The instrument cache (utils/cache_instrument.go) with one instrument,    *)
(* its upstream and one subscriber.                                         *)
(*                                                                          *)
(* An update gives some fields; the others are zero, as if they had been    *)
(* given as zero.  The cache takes over a group of fields when the fields   *)
(* it looks at are positive, and publishes the message when that changes    *)
(* something.  What is published is the message, with all its fields; a     *)
(* partial and a snapshot are published as a pointer to the instrument that *)
(* the cache goes on changing.                                              *)
(*                                                                          *)
(* The cache's goroutine and its channel are the subject of TableCache:     *)
(* here a message is handled and published, or a snapshot taken, in a step. *)
(***************************************************************************)
EXTENDS Integers, SequencesExt

CONSTANTS Messages,   \* updates of the upstream, lists of items
          Partials,   \* the instrument it may begin with
          PriceCap,   \* maxInsLength * maxMultiple
          QueueCap,   \* bound: messages the subscriber has not received
          MaxPartials,\* bound: connections of the upstream
          MaxUpdates  \* bound: updates it sends

(* Fair price and basis and the mark price of the day before; volumes,      *)
(* turnovers and ticks of the last price; the funding timestamp with its    *)
(* rate.                                                                    *)
Field == {"ind", "mark", "fair", "bid", "ask", "last", "volume", "funding"}
Item == [Field -> Int]

Groups == {{"ind", "mark", "fair"}, {"bid", "ask"}, {"last", "volume"}, {"funding"}}
GroupOf(f) == CHOOSE g \in Groups : f \in g

ASSUME InstrumentAssumption ==
    /\ Messages \subseteq Seq(Item) /\ <<>> \notin Messages
    /\ Partials \subseteq Item
    /\ PriceCap \in Nat \ {0} /\ {QueueCap, MaxPartials, MaxUpdates} \subseteq Nat

VARIABLES
    truth,   \* the upstream's instrument
    sent,    \* updates it has sent
    heap,    \* the instruments of the partials; the last is the cache's
    prices,  \* length of indicativePriceList, and of markPriceList
    joined,  \* the subscriber's destination is in the channel's map: "no",
             \* "added", "asked" (a snapshot has been taken for it)
    queue,   \* messages it has not received
    view,    \* the instrument as it has received it
    stale,   \* fields of which the cache has missed the last word
    untold   \* fields of which the subscriber is not told the last word

cacheVars == <<heap, prices>>
vars == <<truth, sent, cacheVars, joined, queue, view, stale, untold>>

Nothing == [f \in Field |-> 0]

Init ==
    /\ truth = Nothing /\ sent = 0 /\ heap = <<>> /\ prices = 0
    /\ joined = "no" /\ queue = <<>> /\ view = Nothing
    /\ stale = {} /\ untold = Field

Given(item) == {f \in Field : item[f] # 0}
AllGiven(list) == UNION {Given(list[i]) : i \in DOMAIN list}

(* What a list says on top of an instrument, to whoever takes it as it is:  *)
(* its last word on each field.                                             *)
Merge(ins, list) ==
    [f \in Field |->
        LET given == {i \in DOMAIN list : list[i][f] # 0}
        IN  IF given = {} THEN ins[f] ELSE list[Max(given)][f]]

-----------------------------------------------------------------------------
(* handleUpdate.                                                            *)
Gate(g) == g \cap {"ind", "mark", "bid", "last", "funding"}
Open(item, g) == \A f \in Gate(g) : item[f] > 0

\* Mutant: one of the two prices is enough.
AppliedLoosely(ins, item) ==
    [f \in Field |-> IF \E h \in Gate(GroupOf(f)) : item[h] > 0 THEN item[f] ELSE ins[f]]

Applied(ins, item) ==
    [f \in Field |-> IF Open(item, GroupOf(f)) THEN item[f] ELSE ins[f]]

\* Mutant: the ask is not looked at when the bid is the same.
ChangedBid(ins, item) ==
    \E g \in Groups :
        /\ Open(item, g)
        /\ g \cap {"last", "funding"} # {}
            \/ \E f \in g \cap {"ind", "mark", "bid"} : ins[f] # item[f]

Changed(ins, item) ==
    \E g \in Groups :
        /\ Open(item, g)
        /\ g \cap {"last", "funding"} # {}
            \/ \E f \in g \cap {"ind", "mark", "bid", "ask"} : ins[f] # item[f]

\* Mutant: the lists are never cut.
applyInsPriceForever(n, item) == IF Open(item, GroupOf("mark")) THEN n + 1 ELSE n

(* A list that has grown past its bound keeps half of it.                   *)
applyInsPrice(n, item) ==
    IF ~Open(item, GroupOf("mark")) THEN n
    ELSE IF n + 1 > PriceCap THEN PriceCap \div 2 ELSE n + 1

(* What an item leaves the cache wrong about: fields it gives to a closed   *)
(* group, fields of an open group that it does not give and so sets to zero.*)
Missed(fields, item) ==
    {f \in Field : IF Open(item, GroupOf(f)) THEN item[f] = 0
                   ELSE item[f] # 0 \/ f \in fields}

(* One item after the other: the cache before the first, and after each.    *)
Cache == [ins |-> Last(heap), prices |-> prices, stale |-> stale]

handleItem(c, item) ==
    [ins |-> Applied(c.ins, item),
     prices |-> applyInsPrice(c.prices, item),
     stale |-> Missed(c.stale, item)]

applyData(c, list) ==
    LET after[k \in 0..Len(list)] ==
            IF k = 0 THEN c ELSE handleItem(after[k - 1], list[k])
    IN  after

-----------------------------------------------------------------------------
(* Publishing, with what the subscriber is then told of.                    *)
Delta(list) == [kind |-> "delta", list |-> list, obj |-> 0]
Pointer(k) == [kind |-> "full", list |-> <<>>, obj |-> k]

PublishData(msg) ==
    queue' = IF joined # "no" THEN Append(queue, msg) ELSE queue

(* A partial replaces the instrument; only the first is published.          *)
handlePartial ==
    /\ Len(heap) < MaxPartials /\ Len(queue) < QueueCap
    /\ \E ins \in Partials :
          truth' = ins /\ heap' = Append(heap, ins)
    /\ stale' = {}
    /\ \/ heap = <<>> /\ PublishData(Pointer(1)) /\ untold' = IF joined # "no" THEN {} ELSE Field
       \/ heap # <<>> /\ UNCHANGED queue /\ untold' = Field
    /\ UNCHANGED <<sent, prices, joined, view>>

(* A list that is not published leaves the subscriber without what the      *)
(* items before the last say, and without what the last says and does not   *)
(* compare, or compares with a field of the cache that is wrong.            *)
Unsaid(list, before) ==
    AllGiven(Front(list))
      \cup {f \in Given(Last(list)) :
              \/ ~Open(Last(list), GroupOf(f))
              \/ f \notin {"ind", "mark", "bid", "ask"}
              \/ f \in before.stale}

(* The flag of a list is that of its last item, also if that is of another  *)
(* symbol, an error that is logged.  Such an item changes nothing here: it  *)
(* is one that gives no field.                                              *)
handleUpdate ==
    /\ heap # <<>> /\ Len(queue) < QueueCap
    /\ sent < MaxUpdates /\ sent' = sent + 1
    /\ \E list \in Messages :
          LET caches == applyData(Cache, list)
              before == caches[Len(list) - 1]
              after == caches[Len(list)]
          IN  /\ truth' = Merge(truth, list)
              /\ heap' = [heap EXCEPT ![Len(heap)] = after.ins]
              /\ prices' = after.prices
              /\ stale' = after.stale
              /\ \/ /\ Changed(before.ins, Last(list))
                    /\ PublishData(Delta(list))
                    /\ untold' = IF joined # "no" THEN untold \ AllGiven(list) ELSE Field
                 \/ /\ ~Changed(before.ins, Last(list))
                    /\ untold' = untold \cup Unsaid(list, before)
                    /\ UNCHANGED queue
    /\ UNCHANGED <<joined, view>>

(* Without a partial every item is an error: it is logged, nothing changes  *)
(* and nothing is published.                                                *)
PartialMissing ==
    /\ heap = <<>>
    /\ sent < MaxUpdates /\ sent' = sent + 1
    /\ \E list \in Messages : truth' = Merge(truth, list)
    /\ UNCHANGED <<cacheVars, joined, queue, view, stale, untold>>

-----------------------------------------------------------------------------
(* The subscriber: its destination is added, then a snapshot is taken.      *)
Join ==
    /\ joined = "no"
    /\ joined' = "added"
    /\ UNCHANGED <<truth, sent, cacheVars, queue, view, stale, untold>>

snapshot ==
    /\ joined = "added" /\ heap # <<>> /\ Len(queue) < QueueCap
    /\ joined' = "asked"
    /\ PublishData(Pointer(Len(heap)))
    /\ untold' = stale
    /\ UNCHANGED <<truth, sent, cacheVars, view, stale>>

(* A pointer is followed when the message is encoded.                       *)
Receive ==
    /\ queue # <<>>
    /\ queue' = Tail(queue)
    /\ LET msg == Head(queue)
       IN  \/ /\ msg.kind = "full"
              /\ view' = heap[msg.obj]
              /\ untold' = IF msg.obj = Len(heap) THEN untold \cup stale ELSE untold
           \/ /\ msg.kind = "delta"
              /\ view' = Merge(view, msg.list)
              /\ UNCHANGED untold
    /\ UNCHANGED <<truth, sent, cacheVars, joined, stale>>

-----------------------------------------------------------------------------
Next == handlePartial \/ handleUpdate \/ PartialMissing \/ Join \/ snapshot \/ Receive

Spec == Init /\ [][Next]_vars

-----------------------------------------------------------------------------
(* Every variable has its type; the price lists do not grow past their      *)
(* bound.                                                                   *)
InstrumentTypeOK ==
    /\ sent \in Nat
    /\ truth \in Item /\ heap \in Seq(Item) /\ view \in Item
    /\ prices \in 0..PriceCap
    /\ joined \in {"no", "added", "asked"}
    /\ \A i \in DOMAIN queue : queue[i].obj \in 0..Len(heap)
    /\ stale \subseteq Field /\ untold \subseteq Field

(* The cache has the upstream's instrument, apart from fields whose last    *)
(* word came in an update without the field that opens their group, and     *)
(* fields that an update without them has set to zero.                      *)
CacheTracks ==
    heap # <<>> => \A f \in Field \ stale : Last(heap)[f] = truth[f]

(* Filtering drops duplicates only: a subscriber who has received all that  *)
(* was published to it has the upstream's instrument, with its snapshot     *)
(* taken at any time and read at any later one.  The exceptions are the     *)
(* partial of a later connection, an unpublished list of several items, and *)
(* what handleUpdate takes no notice of.                                    *)
ViewTracks ==
    joined # "no" /\ queue = <<>> => \A f \in Field \ untold : view[f] = truth[f]
=============================================================================

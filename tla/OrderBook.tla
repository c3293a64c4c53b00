------------------------------ MODULE OrderBook ------------------------------
(***************************************************************************)
(* MBLCache (utils/cache_mbl.go): the server's copy of one order book and   *)
(* the two streams it publishes, orderBookL2 (depth 0, every level) and the *)
(* depth-limited orderBookL2_25 (depth Limit, the best Limit levels a side).*)
(*                                                                          *)
(* The cache is one goroutine that takes one message at a time from its     *)
(* pipeline.  A message is a `partial` (the whole book) or a list of orders *)
(* to delete, insert or update; the list is applied one order per step, so  *)
(* that an error or a panic can leave it half applied, and published when   *)
(* it is all applied.  A second partial is merged: its difference to the    *)
(* cached book is applied as a delete, an insert and an update list.        *)
(*                                                                          *)
(* `view` is what a subscriber of a stream has assembled from the snapshot  *)
(* it was given and the messages published since.                           *)
(*                                                                          *)
(* This module accepts any well-formed message at any time, and BookFeed    *)
(* composes it with the upstream the server is connected to.  Left out are  *)
(* the messages that are logged as invalid: an order of neither side and a  *)
(* list with an unknown action (cache_mbl.go:293, 460, 506, 541).           *)
(***************************************************************************)
EXTENDS PriceLadder

CONSTANTS Price,    \* prices of the instrument
          Size,     \* order sizes
          Limit,    \* depth of the limited stream (25 in server.go:389)
          Streams,  \* the depths of the streams that get a subscriber
          MaxBatch  \* bound: orders in one incoming list

ASSUME PriceAssumption == Price \subseteq Int /\ IsFiniteSet(Price)
ASSUME SizeAssumption == Size \subseteq Nat \ {0}
ASSUME LimitAssumption == Limit \in Nat \ {0}
ASSUME MaxBatchAssumption == MaxBatch \in Nat

Side == {"Buy", "Sell"}
Depth == {0, Limit}
ASSUME StreamsAssumption == Streams \subseteq Depth

Action == {"delete", "insert", "update"}

(* A level of a book, or none at that price; an order of a message.         *)
NoLevel == [side |-> "None", size |-> 0]
Level == [side : Side, size : Size]
Book == [Price -> Level \cup {NoLevel}]
Order == [price : Price, side : Side, size : Size]

OrderAt(book, p) == [price |-> p, side |-> book[p].side, size |-> book[p].size]
LevelOf(ord) == [side |-> ord.side, size |-> ord.size]
Levels(book) == {p \in Price : book[p] # NoLevel}
Orders(book) == {OrderAt(book, p) : p \in Levels(book)}
EmptyBook == [p \in Price |-> NoLevel]
PricesOf(book, s) == {p \in Price : book[p].side = s}

(* The lists that hold the elements of S: in any order (a Go map is read in *)
(* a random one), or in the order of a partial, the highest price first.    *)
AnyOrder(S) ==
    {f \in [1..Cardinality(S) -> S] : \A i, j \in DOMAIN f : i # j => f[i] # f[j]}
PriceOrder(S) ==
    {f \in [1..Cardinality(S) -> S] :
        \A i, j \in DOMAIN f : i < j => f[i].price > f[j].price}

VARIABLES
    prices,   \* askPrices ("Sell", descending) and bidPrices ("Buy", ascending)
    l2Cache,  \* price -> level
    inited,   \* l2Cache has been made: writing to it does not panic
    quote,    \* askQuote and bidQuote: best price and size of a side
    pc,       \* "idle", "apply" (in applyData), "merge" (in handlePartial)
    action,   \* the list being applied: its action and orders,
    data,
    todo,     \*   the orders not yet applied,
    delta,    \*   what the limited stream will be sent,
    makeup,   \*   and the opposite list that keeps it Limit levels deep
    merge,    \* the partial being merged
    joined,   \* does the stream have a subscriber, since when
    view,     \* the subscriber's book
    panicked  \* the panic that ended the process, "no" while it runs

book == <<prices, l2Cache, inited, quote>>
job == <<action, data, todo, delta, makeup>>
subs == <<joined, view>>
vars == <<book, pc, job, merge, subs, panicked>>

NoMerge == [phase |-> "none", partial |-> EmptyBook,
            origin |-> [s \in Side |-> {}], updates |-> {}]

Init ==
    /\ prices = [s \in Side |-> <<>>]
    /\ l2Cache = EmptyBook
    /\ inited = FALSE
    /\ quote = [s \in Side |-> [price |-> 0, size |-> 0]]
    /\ pc = "idle"
    /\ action = "update" /\ data = <<>> /\ todo = <<>>
    /\ delta = <<>> /\ makeup = <<>>
    /\ merge = NoMerge
    /\ joined = [d \in Depth |-> "no"]
    /\ view = [d \in Depth |-> EmptyBook]
    /\ panicked = "no"

Running == panicked = "no"

-----------------------------------------------------------------------------
(* Helpers of the handlers.                                                 *)

Descending(s) == s = "Sell"

\* Mutants: the fields swapped; the far end of the ladder.
BestOfSwapped(ladder, cache) ==
    [price |-> cache[Last(ladder)].size, size |-> Last(ladder)]
BestOfHead(ladder, cache) ==
    [price |-> Head(ladder), size |-> cache[Head(ladder)].size]

BestOf(ladder, cache) ==
    [price |-> Last(ladder), size |-> cache[Last(ladder)].size]

\* Mutant: one level further in.
GetOrderOffByOne(ladder, cache, depth) ==
    IF depth >= Len(ladder) THEN <<>>
    ELSE LET p == ladder[Len(ladder) - depth]
         IN  IF cache[p] = NoLevel THEN <<>> ELSE <<OrderAt(cache, p)>>

(* The order on a depth of a ladder (1: the best), as a list of at most one.*)
GetOrderOnDepth(ladder, cache, depth) ==
    IF depth > Len(ladder) THEN <<>>
    ELSE LET p == ladder[Len(ladder) + 1 - depth]
         IN  IF cache[p] = NoLevel THEN <<>> ELSE <<OrderAt(cache, p)>>

(* The levels of a snapshot: those among the best `depth` of their side,    *)
(* all of them for depth 0.                                                 *)
TopPrices(s, depth) ==
    LET len == Len(prices[s])
    IN  {prices[s][i] : i \in {j \in 1..len : depth = 0 \/ j > len - depth}}

snapshot(depth) ==
    [p \in Price |->
        IF \E s \in Side : p \in TopPrices(s, depth) THEN l2Cache[p] ELSE NoLevel]

(* A subscriber applies a published list to its book.                       *)
Apply(b, act, list) ==
    [p \in Price |->
        LET mine == {i \in DOMAIN list : list[i].price = p}
        IN  CASE mine = {} -> b[p]
              [] mine # {} /\ act = "delete" -> NoLevel
              [] mine # {} /\ act = "update" /\ b[p] = NoLevel -> NoLevel
              [] OTHER -> LevelOf(list[CHOOSE i \in mine : TRUE])]

Panic(why) ==
    /\ panicked' = why
    /\ UNCHANGED <<book, pc, job, merge, subs>>

-----------------------------------------------------------------------------
(* applyData: one order of the list per step.                               *)

Start(act, list) ==
    /\ action' = act /\ data' = list /\ todo' = list
    /\ delta' = <<>> /\ makeup' = <<>>

(* The list is done with, applied or not; the lists are locals of the call. *)
Leave ==
    /\ pc' = IF merge.phase = "none" THEN "idle" ELSE "merge"
    /\ Start("update", <<>>)

(* An error: the orders applied so far stay applied, none is published.     *)
Abort == Leave /\ UNCHANGED <<merge, subs, panicked>>

\* Mutant: what an insertion pushes over the edge is not deleted.
CollectDeletes(ord, depth, at) ==
    /\ todo' = Tail(todo)
    /\ IF depth <= Limit
         THEN /\ delta' = Append(delta, ord)
              /\ makeup' = IF action # "delete" THEN makeup
                           ELSE makeup \o
                                GetOrderOnDepth(prices'[ord.side], l2Cache', at)
         ELSE UNCHANGED <<delta, makeup>>
    /\ UNCHANGED <<pc, action, data, merge, subs, panicked>>

(* An order that is applied goes to the limited stream if it is deep enough *)
(* in, with the level `at` that its insertion or deletion has moved over    *)
(* the edge.                                                                *)
Collect(ord, depth, at) ==
    /\ todo' = Tail(todo)
    /\ IF depth <= Limit
         THEN /\ delta' = Append(delta, ord)
              /\ makeup' = IF action = "update" THEN makeup
                           ELSE makeup \o
                                GetOrderOnDepth(prices'[ord.side], l2Cache', at)
         ELSE UNCHANGED <<delta, makeup>>
    /\ UNCHANGED <<pc, action, data, merge, subs, panicked>>

Applying(act) == Running /\ pc = "apply" /\ action = act /\ todo # <<>>

(* handleDelete.  The quote moves to the next level when the best one goes; *)
(* the level is taken out of the map even when the ladder does not have it. *)
handleDelete ==
    /\ Applying("delete")
    /\ LET ord == Head(todo)
           removed == UniPriceRemove(prices[ord.side], ord.price, Descending(ord.side))
           depth == Len(prices[ord.side]) - removed.idx
       IN  \/ /\ l2Cache[ord.price] = NoLevel
              /\ Abort
              /\ UNCHANGED book
           \/ /\ l2Cache[ord.price] # NoLevel
              /\ depth = 1 /\ removed.rtn = <<>>
              /\ Panic("emptySide")
           \/ /\ l2Cache[ord.price] # NoLevel
              /\ depth = 1 /\ removed.rtn # <<>>
              /\ l2Cache[Last(removed.rtn)] = NoLevel
              /\ Panic("nilOrder")
           \/ /\ l2Cache[ord.price] # NoLevel
              /\ depth = 1 => removed.rtn # <<>> /\ l2Cache[Last(removed.rtn)] # NoLevel
              /\ prices' = [prices EXCEPT ![ord.side] = removed.rtn]
              /\ quote' = IF depth = 1
                            THEN [quote EXCEPT ![ord.side] = BestOf(removed.rtn, l2Cache)]
                            ELSE quote
              /\ l2Cache' = [l2Cache EXCEPT ![ord.price] = NoLevel]
              /\ UNCHANGED inited
              /\ IF removed.idx < 0 THEN Abort ELSE Collect(ord, depth, Limit)

(* handleInsert.  Before the first partial there is no map to store into.   *)
handleInsert ==
    /\ Applying("insert")
    /\ LET ord == Head(todo)
           added == UniPriceAdd(prices[ord.side], ord.price, Descending(ord.side))
           depth == Len(added.rtn) - added.idx
       IN  \/ /\ l2Cache[ord.price] # NoLevel
              /\ Abort
              /\ UNCHANGED book
           \/ /\ l2Cache[ord.price] = NoLevel
              /\ ~inited
              /\ Panic("nilMap")
           \/ /\ l2Cache[ord.price] = NoLevel
              /\ inited
              /\ prices' = [prices EXCEPT ![ord.side] = added.rtn]
              /\ quote' = IF depth = 1
                            THEN [quote EXCEPT ![ord.side] =
                                     [price |-> ord.price, size |-> ord.size]]
                            ELSE quote
              /\ l2Cache' = [l2Cache EXCEPT ![ord.price] = LevelOf(ord)]
              /\ UNCHANGED inited
              /\ Collect(ord, depth, Limit + 1)

(* handleUpdate.                                                            *)
handleUpdate ==
    /\ Applying("update")
    /\ LET ord == Head(todo)
           idx == UniPriceSearch(prices[ord.side], ord.price, Descending(ord.side))
           depth == Len(prices[ord.side]) - idx
       IN  \/ /\ l2Cache[ord.price] = NoLevel
              /\ Abort
              /\ UNCHANGED book
           \/ /\ l2Cache[ord.price] # NoLevel
              /\ quote' = IF depth = 1
                            THEN [quote EXCEPT ![ord.side].size = ord.size]
                            ELSE quote
              /\ UNCHANGED <<prices, inited>>
              /\ \/ idx < 0 /\ Abort /\ UNCHANGED l2Cache
                 \/ /\ idx >= 0
                    /\ l2Cache' = [l2Cache EXCEPT ![ord.price].size = ord.size]
                    /\ Collect(ord, depth, Limit)

(* dispatchRsp: the whole list to depth 0, the collected lists to Limit.    *)
Opposite(act) == IF act = "delete" THEN "insert" ELSE "delete"

\* Mutant: the collected lists go to every stream.
PublishedLimited(d) ==
    Apply(Apply(view[d], action, delta), Opposite(action), makeup)

Published(d) ==
    IF d = 0 THEN Apply(view[d], action, data)
    ELSE Apply(Apply(view[d], action, delta), Opposite(action), makeup)

dispatchRsp ==
    /\ Running /\ pc = "apply" /\ todo = <<>>
    /\ view' = [d \in Depth |-> IF joined[d] = "no" THEN view[d] ELSE Published(d)]
    /\ Leave
    /\ UNCHANGED <<book, merge, joined, panicked>>

-----------------------------------------------------------------------------
(* handleInput with a delete, insert or update list.                        *)
ReceiveList(act, list) ==
    /\ Running /\ pc = "idle"
    /\ pc' = "apply"
    /\ Start(act, list)
    /\ UNCHANGED <<book, merge, subs, panicked>>

(* handlePartial on an empty cache: the ladders are the partial's own order *)
(* (asks as they come, bids reversed) and only depth 0 is sent the partial. *)
(* The code neither sorts the partial nor looks whether it is sorted, which *)
(* is taken for granted here: the highest price comes first, on both sides, *)
(* as in the partials that a server of this repository sends.               *)
FirstPartial(partial) ==
    /\ Running /\ pc = "idle"
    /\ Levels(l2Cache) = {}
    /\ \/ /\ \E s \in Side : PricesOf(partial, s) = {}
          /\ Panic("emptySide")
       \/ /\ \A s \in Side : PricesOf(partial, s) # {}
          /\ \E asks \in AnyOrder(PricesOf(partial, "Sell")),
                bids \in AnyOrder(PricesOf(partial, "Buy")) :
                /\ Ladder(asks, TRUE) /\ Ladder(bids, FALSE)
                /\ prices' = [s \in Side |-> IF s = "Sell" THEN asks ELSE bids]
                /\ quote' = [s \in Side |-> BestOf(prices'[s], partial)]
          /\ l2Cache' = partial
          /\ inited' = TRUE
          /\ view' = [view EXCEPT ![0] = IF joined[0] = "no" THEN @ ELSE partial]
          /\ UNCHANGED <<pc, job, merge, joined, panicked>>

\* Mutants: the operands exchanged; nothing in common.
SubExchanged(S, T) == T \ S
JoinNothing(S, T) == {}

(* The set operations of utils/set_float.go.  Join does not return the      *)
(* elements that both sets have: it removes from the copy of its receiver   *)
(* only what the receiver does not have.                                    *)
Sub(S, T) == S \ {k \in T : k \in S}
Join(S, T) == S \ {k \in T : k \notin S}

(* handlePartial on a cached book: what the new partial no longer has is    *)
(* deleted first.  A price the ladder has and the map has not is a nil      *)
(* order in that list: its first use panics, before anything is published.  *)
MergePartial(partial) ==
    /\ Running /\ pc = "idle"
    /\ Levels(l2Cache) # {}
    /\ LET origin == [s \in Side |-> Range(prices[s])]
           gone == UNION {Sub(origin[s], PricesOf(partial, s)) : s \in Side}
       IN  \/ /\ gone \subseteq Levels(l2Cache)
              /\ \E list \in AnyOrder({OrderAt(l2Cache, p) : p \in gone}) :
                    /\ Start("delete", list)
                    /\ pc' = IF list = <<>> THEN "merge" ELSE "apply"
              /\ merge' = [phase |-> "delete", partial |-> partial,
                           origin |-> origin, updates |-> {}]
              /\ UNCHANGED <<book, subs, panicked>>
           \/ /\ ~(gone \subseteq Levels(l2Cache))
              /\ Panic("nilOrder")

(* The partial is compared with the book after the deletions: the new       *)
(* prices are inserted, then those whose size differs updated.  The map is  *)
(* read at every price of an update set.                                    *)
MergeInsert ==
    /\ Running /\ pc = "merge" /\ merge.phase = "delete"
    /\ LET added == UNION {Sub(PricesOf(merge.partial, s), merge.origin[s]) : s \in Side}
           kept == UNION {Join(merge.origin[s], PricesOf(merge.partial, s)) : s \in Side}
           read == kept \cap Levels(merge.partial)
           inserts == {OrderAt(merge.partial, p) : p \in added}
           updates == {OrderAt(merge.partial, p) :
                          p \in {q \in read : l2Cache[q].size # merge.partial[q].size}}
       IN  \/ /\ read \subseteq Levels(l2Cache)
              /\ \E list \in PriceOrder(inserts) :
                    /\ Start("insert", list)
                    /\ pc' = IF list = <<>> THEN "merge" ELSE "apply"
              /\ merge' = [merge EXCEPT !.phase = "insert", !.updates = updates]
              /\ UNCHANGED <<book, subs, panicked>>
           \/ /\ ~(read \subseteq Levels(l2Cache))
              /\ Panic("nilOrder")

MergeUpdate ==
    /\ Running /\ pc = "merge" /\ merge.phase = "insert"
    /\ \E list \in PriceOrder(merge.updates) :
          /\ Start("update", list)
          /\ pc' = IF list = <<>> THEN "idle" ELSE "apply"
    /\ merge' = NoMerge
    /\ UNCHANGED <<book, subs, panicked>>

-----------------------------------------------------------------------------
(* A client subscribes (server.go:229-232): it is registered on the stream  *)
(* and given a snapshot, taken between two messages.  Whoever joins the     *)
(* limited stream before the first partial gets an empty snapshot and not   *)
(* that partial, which goes to depth 0 only.                                *)
Subscribe(d) ==
    /\ Running /\ pc = "idle"
    /\ joined[d] = "no"
    /\ joined' = [joined EXCEPT ![d] = IF inited \/ d = 0 THEN "yes" ELSE "early"]
    /\ view' = [view EXCEPT ![d] = snapshot(d)]
    /\ UNCHANGED <<book, pc, job, merge, panicked>>

Internal ==
    \/ handleDelete \/ handleInsert \/ handleUpdate \/ dispatchRsp
    \/ MergeInsert \/ MergeUpdate

Next ==
    \/ Internal
    \/ \E d \in Streams : Subscribe(d)
    \/ \E partial \in Book : FirstPartial(partial) \/ MergePartial(partial)
    \/ \E act \in Action, n \in 1..MaxBatch : \E list \in [1..n -> Order] :
          ReceiveList(act, list)

Spec == Init /\ [][Next]_vars

-----------------------------------------------------------------------------
(* The shape of the cache whatever the messages say.                        *)
TypeOK ==
    /\ prices \in [Side -> Seq(Price)]
    /\ l2Cache \in Book
    /\ inited \in BOOLEAN
    /\ quote \in [Side -> [price : Price \cup {0}, size : Size \cup {0}]]
    /\ pc \in {"idle", "apply", "merge"}
    /\ action \in Action
    /\ data \in Seq(Order) /\ todo \in Seq(Order)
    /\ delta \in Seq(Order) /\ makeup \in Seq(Order)
    /\ merge \in [phase : {"none", "delete", "insert"}, partial : Book,
                  origin : [Side -> SUBSET Price], updates : SUBSET Order]
    /\ IsFiniteSet(merge.updates)
    /\ joined \in [Depth -> {"no", "early", "yes"}]
    /\ view \in [Depth -> Book]
    /\ panicked \in {"no", "emptySide", "nilMap", "nilOrder"}
=============================================================================

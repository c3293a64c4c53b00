------------------------------- MODULE BookFeed -------------------------------
(***************************************************************************)
(* The order book cache fed by the upstream (mock.Upstream): an exchange    *)
(* that publishes its book as one partial per connection and then lists of  *)
(* changes.  The connection may be lost; the upstream goes on changing and  *)
(* the next connection begins with a new partial, merged into the old book. *)
(*                                                                          *)
(* A list may arrive before the partial of its connection: the server of    *)
(* this repository registers a subscriber before it takes its snapshot      *)
(* (server.go:229-232), and servers are meant to be cascaded; and the       *)
(* upstream asks for the order book after its reader has started            *)
(* (upstream.go:40), so that a partial published before goes to nobody and  *)
(* the lists that follow come without it.  Here a partial still comes before*)
(* such a connection is lost.                                               *)
(*                                                                          *)
(* The messages in flight are left out: the exchange changes when its       *)
(* message is taken from the pipeline, which is a queue.                    *)
(***************************************************************************)
EXTENDS OrderBook

CONSTANTS MaxDrift,  \* bound: levels that differ after a lost connection
          MaxEarly   \* bound: lists that come before a partial

ASSUME DriftAssumption == MaxDrift \in Nat /\ MaxEarly \in Nat

VARIABLES exch,   \* the book of the exchange
          synced, \* the partial of this connection has been received
          early,  \* lists that came before the partial of their connection
          missed  \* streams whose subscriber is no longer sent all changes

feedVars == <<vars, exch, synced, early, missed>>

(* A book that can be observed: every bid below every ask.                  *)
Uncrossed(b) == \A p \in PricesOf(b, "Buy"), q \in PricesOf(b, "Sell") : p < q

(* Sets of levels one list, or a lost connection, may change; the book with *)
(* those levels changed.                                                    *)
UpTo(n, S) == {T \in SUBSET S : T # {} /\ Cardinality(T) <= n}
With(b, new) == [p \in Price |-> IF p \in DOMAIN new THEN new[p] ELSE b[p]]

FeedInit ==
    /\ Init
    /\ exch \in {b \in Book : Uncrossed(b)}
    /\ synced = FALSE
    /\ early = 0
    /\ missed = {}

Partial ==
    /\ ~synced
    /\ synced' = TRUE
    /\ FirstPartial(exch) \/ MergePartial(exch)
    /\ UNCHANGED <<exch, early, missed>>

(* The exchange changes the levels `new` and says so in one list.           *)
Send(act, new) ==
    /\ exch' = With(exch, new)
    /\ Uncrossed(exch')
    /\ \E list \in AnyOrder({OrderAt(IF act = "delete" THEN exch ELSE exch', p) :
                                p \in DOMAIN new}) :
          ReceiveList(act, list)

List ==
    \/ \E T \in UpTo(MaxBatch, Levels(exch)) :
          Send("delete", [p \in T |-> NoLevel])
    \/ \E T \in UpTo(MaxBatch, Price \ Levels(exch)) :
          \E new \in [T -> Level] : Send("insert", new)
    \/ \E T \in UpTo(MaxBatch, Levels(exch)) :
          \E sizes \in [T -> Size] :
             /\ \A p \in T : sizes[p] # exch[p].size
             /\ Send("update", [p \in T |-> [side |-> exch[p].side, size |-> sizes[p]]])

Delta == synced /\ List /\ UNCHANGED <<synced, early, missed>>

EarlyDelta ==
    /\ ~synced /\ early < MaxEarly
    /\ List
    /\ early' = early + 1
    /\ UNCHANGED <<synced, missed>>

Reconnect ==
    /\ Running /\ pc = "idle"
    /\ synced
    /\ synced' = FALSE
    /\ \E T \in {{}} \cup UpTo(MaxDrift, Price) :
          \E new \in [T -> Level \cup {NoLevel}] : exch' = With(exch, new)
    /\ Uncrossed(exch')
    /\ UNCHANGED <<vars, early, missed>>

(* What a step of the cache keeps from its subscribers: an error part of    *)
(* the way through a list leaves its first orders, or half of the one that  *)
(* failed, applied and unpublished (cache_mbl.go:244-246); a list that      *)
(* deletes two levels of a side may publish the second as a level that has  *)
(* moved up into the limit, after its deletion (cache_mbl.go:253); an early *)
(* update may name the other side than the map, which keeps its own         *)
(* (cache_mbl.go:548), while the ladder of that side still lists the price. *)
CutShort ==
    /\ pc = "apply" /\ todo # <<>> /\ pc' # "apply"
    /\ Len(todo) < Len(data) \/ l2Cache' # l2Cache

MakesUpDeleted ==
    /\ pc = "apply" /\ todo = <<>> /\ action = "delete"
    /\ \E i, j \in DOMAIN delta : i # j /\ delta[i].side = delta[j].side

NamesOtherSide ==
    /\ pc = "apply" /\ pc' = "apply" /\ action = "update"
    /\ l2Cache[Head(todo).price].side # Head(todo).side

Misses ==
    missed' = missed \cup {d \in Depth : /\ joined[d] # "no"
                                         /\ \/ CutShort \/ NamesOtherSide
                                            \/ d # 0 /\ MakesUpDeleted}

(* A step of the cache alone.                                               *)
Cache(step) == step /\ Misses /\ UNCHANGED <<exch, synced, early>>

FeedNext ==
    \/ Partial
    \/ Delta
    \/ EarlyDelta
    \/ Reconnect
    \/ Cache(handleDelete) \/ Cache(handleInsert) \/ Cache(handleUpdate)
    \/ Cache(dispatchRsp) \/ Cache(MergeInsert) \/ Cache(MergeUpdate)
    \/ \E d \in Streams : Cache(Subscribe(d))

FeedSpec == FeedInit /\ [][FeedNext]_feedVars

-----------------------------------------------------------------------------
(* The cache's two copies of the book agree: a price is on the ladder of a  *)
(* side exactly when the map holds a level of that side, and the ladders    *)
(* are sorted.  It holds between any two orders of a list, where an error   *)
(* would leave them.                                                        *)
BookConsistent ==
    (Running /\ early = 0) => \A s \in Side :
        /\ Ladder(prices[s], Descending(s))
        /\ Range(prices[s]) = PricesOf(l2Cache, s)

(* Lists that come early may leave a ladder with prices that the map has no *)
(* longer, and with one price several times, but never out of order, and a  *)
(* level of the map is always on its ladder.                                *)
LevelsAreListed ==
    Running => \A s \in Side :
        /\ SortedList(prices[s], Descending(s))
        /\ PricesOf(l2Cache, s) \subseteq Range(prices[s])

(* The quote is the lowest ask or the highest bid of the map, after every   *)
(* order; a side that has been cached is never empty.                       *)
QuoteIsTop ==
    (Running /\ inited /\ early = 0) => \A s \in Side :
        /\ PricesOf(l2Cache, s) # {}
        /\ LET best == IF s = "Sell" THEN Min(PricesOf(l2Cache, s))
                                     ELSE Max(PricesOf(l2Cache, s))
           IN  quote[s] = [price |-> best, size |-> l2Cache[best].size]

(* Once a partial has been merged, however far the book had drifted and     *)
(* whatever early lists did to it, the map is the upstream's book whenever  *)
(* the cache is idle.                                                       *)
TracksUpstream == (Running /\ pc = "idle" /\ synced) => l2Cache = exch

(* A subscriber of orderBookL2 that applies what it is sent has the cached  *)
(* book whenever the cache is idle, and nothing is kept from it as long as  *)
(* every connection begins with its partial.                                *)
FullViewExact ==
    /\ early = 0 => 0 \notin missed
    /\ (Running /\ pc = "idle" /\ joined[0] # "no" /\ 0 \notin missed)
          => view[0] = l2Cache

(* A subscriber of the limited stream that joined after the first partial   *)
(* has every one of the best Limit levels of each side, with its size.      *)
DepthViewCovers ==
    (Running /\ early = 0 /\ pc = "idle" /\ joined[Limit] = "yes") =>
        \A s \in Side : \A p \in TopPrices(s, Limit) : view[Limit][p] = l2Cache[p]

(* ... and no other level, until a list deletes two of them: what has       *)
(* fallen below the limit, or out of the book, has been deleted.            *)
DepthViewExact ==
    (Running /\ early = 0 /\ pc = "idle" /\ joined[Limit] = "yes" /\ Limit \notin missed)
        => view[Limit] = snapshot(Limit)

(* A new partial is merged without reading a level the map no longer has.   *)
NoNilOrder == panicked # "nilOrder"

(* The process panics in no other case than these: the upstream's side is   *)
(* empty, or a new partial shares no price with a side of the cached book;  *)
(* a list inserts before the first partial; a price changed sides while the *)
(* connection was lost; or a list came before the partial and was applied   *)
(* to a book it was not meant for.                                          *)
PanicHasCause ==
    /\ panicked = "emptySide" =>
         \/ \E s \in Side : PricesOf(exch, s) = {}
         \/ /\ merge.phase = "delete"
            /\ \E s \in Side : PricesOf(merge.partial, s) \cap merge.origin[s] = {}
         \/ early > 0
    /\ panicked = "nilMap" => ~inited /\ early > 0
    /\ panicked = "nilOrder" =>
         \/ \E s \in Side : merge.origin[s] \cap (Levels(exch) \ PricesOf(exch, s)) # {}
         \/ early > 0
=============================================================================

----------------------------- MODULE TradeCache -----------------------------
(***************************************************************************)
(* TradeCache (utils/cache_trade.go): the trades of the upstream, kept in a *)
(* list that is cut to half its bound when it gets longer than that, and    *)
(* the one stream, trade, it publishes.  One message is one step: the cache *)
(* is one goroutine, and what it publishes is queued before it takes the    *)
(* next message.                                                            *)
(***************************************************************************)
EXTENDS Integers, SequencesExt

CONSTANTS Trade,        \* the trades
          maxTradeLen,  \* trades in a snapshot (200 in the source)
          maxMultiple,  \* times that many are kept (3 in cache.go:13)
          MaxBatch      \* bound: trades in one message

ASSUME LenAssumption == maxTradeLen \in Nat \ {0} /\ MaxBatch \in Nat
ASSUME MultipleAssumption == maxMultiple \in Nat /\ maxMultiple >= 2

VARIABLES historyTrade,
          joined, \* the subscriber: "no", "yes", "stale" when a partial was
                  \* kept from it
          view    \* the last maxTradeLen trades it knows of

vars == <<historyTrade, joined, view>>

MinOf(i, j) == IF i <= j THEN i ELSE j
LastN(s, n) == SubSeq(s, Len(s) - MinOf(Len(s), n) + 1, Len(s))
Lists == UNION {[1..n -> Trade] : n \in 0..MaxBatch}

Init == historyTrade = <<>> /\ joined = "no" /\ view = <<>>

-----------------------------------------------------------------------------
(* The last maxTradeLen trades, no more than depth if there is one.         *)
snapshot(depth) ==
    LastN(historyTrade, IF depth < 1 THEN maxTradeLen ELSE MinOf(maxTradeLen, depth))

\* Mutants: cut one step late, and cut too short.
TrimLate(h) ==
    IF Len(h) > maxTradeLen * maxMultiple + 1
    THEN SubSeq(h, Len(h) - (maxTradeLen * maxMultiple) \div 2 + 1, Len(h))
    ELSE h
TrimShort(h) ==
    IF Len(h) > maxTradeLen * maxMultiple
    THEN SubSeq(h, Len(h) - maxTradeLen \div 2 + 1, Len(h))
    ELSE h

(* Cut to the last maxTradeLen*maxMultiple/2 when longer than twice that.   *)
Trim(h) ==
    IF Len(h) > maxTradeLen * maxMultiple
    THEN SubSeq(h, Len(h) - (maxTradeLen * maxMultiple) \div 2 + 1, Len(h))
    ELSE h

(* applyData with an insert: always published.                              *)
Insert(list) ==
    /\ historyTrade' = Trim(historyTrade \o list)
    /\ view' = IF joined = "no" THEN view ELSE LastN(view \o list, maxTradeLen)
    /\ UNCHANGED joined

\* Mutant: a first partial is not published either.
PartialAlwaysKept(list) ==
    /\ historyTrade' = list
    /\ UNCHANGED <<joined, view>>

(* ... with a partial: it replaces the list and is published only when that *)
(* was empty.  A later one, that of a new connection, is kept from the      *)
(* subscriber, with the trades of the time between.                         *)
Partial(list) ==
    /\ historyTrade' = list
    /\ \/ /\ Len(historyTrade) < 1
          /\ view' = IF joined = "no" THEN view ELSE LastN(list, maxTradeLen)
          /\ joined' = IF joined = "no" THEN "no" ELSE "yes"
       \/ /\ Len(historyTrade) >= 1
          /\ joined' = IF joined = "no" THEN "no" ELSE "stale"
          /\ UNCHANGED view

(* A client subscribes (server.go:229-232); the topic has no depth.         *)
Subscribe ==
    /\ joined = "no"
    /\ joined' = "yes"
    /\ view' = snapshot(0)
    /\ UNCHANGED historyTrade

Next == Subscribe \/ \E list \in Lists : Insert(list) \/ Partial(list)

Spec == Init /\ [][Next]_vars

-----------------------------------------------------------------------------
(* The list stays bounded however long a connection lasts.                  *)
MaxHistory ==
    IF MaxBatch > maxTradeLen * maxMultiple THEN MaxBatch
    ELSE maxTradeLen * maxMultiple

TypeOK ==
    /\ historyTrade \in Seq(Trade) /\ Len(historyTrade) <= MaxHistory
    /\ joined \in {"no", "yes", "stale"}
    /\ view \in Seq(Trade)

(* A subscriber that has missed no partial knows the same last trades as    *)
(* somebody who asks for a snapshot now.                                    *)
ViewIsSnapshot == joined = "yes" => view = snapshot(0)

(* The cache keeps its promise: cutting the list never reaches the trades a *)
(* snapshot shows.                                                          *)
Window == INSTANCE TradeWindow WITH window <- LastN(historyTrade, maxTradeLen)
KeepsWindow == Window!WSpec
=============================================================================

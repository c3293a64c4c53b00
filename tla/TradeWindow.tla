---------------------------- MODULE TradeWindow ----------------------------
(***************************************************************************)
(* What the trade topic promises its subscribers: the last maxTradeLen      *)
(* trades of the upstream, whatever the cache keeps to provide them.        *)
(***************************************************************************)
EXTENDS Integers, Sequences

CONSTANTS Trade, maxTradeLen, MaxBatch

VARIABLES window,  \* the last trades
          joined,  \* is there a subscriber: "no", "yes", or "stale" when it
                   \* has missed a partial
          view     \* the last trades as the subscriber knows them

wvars == <<window, joined, view>>

MinOf(i, j) == IF i <= j THEN i ELSE j
LastN(s, n) == SubSeq(s, Len(s) - MinOf(Len(s), n) + 1, Len(s))

(* The lists one message can carry.                                         *)
Lists == UNION {[1..n -> Trade] : n \in 0..MaxBatch}

WInit == window = <<>> /\ joined = "no" /\ view = <<>>

(* The subscriber starts with the window.                                   *)
WSubscribe ==
    /\ joined = "no"
    /\ joined' = "yes"
    /\ view' = window
    /\ UNCHANGED window

(* Trades are added to what the topic and the subscriber know.              *)
WInsert(list) ==
    /\ window' = LastN(window \o list, maxTradeLen)
    /\ view' = IF joined = "no" THEN view ELSE LastN(view \o list, maxTradeLen)
    /\ UNCHANGED joined

(* A new partial replaces the window; a subscriber hears of it only when    *)
(* there was nothing before it.                                             *)
WPartial(list) ==
    /\ window' = LastN(list, maxTradeLen)
    /\ \/ /\ window = <<>>
          /\ view' = IF joined = "no" THEN view ELSE LastN(list, maxTradeLen)
          /\ joined' = IF joined = "no" THEN "no" ELSE "yes"
       \/ /\ window # <<>>
          /\ joined' = IF joined = "no" THEN "no" ELSE "stale"
          /\ UNCHANGED view

WNext == WSubscribe \/ \E list \in Lists : WInsert(list) \/ WPartial(list)

WSpec == WInit /\ [][WNext]_wvars
=============================================================================

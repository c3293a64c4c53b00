---------------------------- MODULE PriceLadder ----------------------------
(***************************************************************************)
(* The sorted price lists of utils/common.go.  A ladder is a sequence of   *)
(* distinct prices, a sorted list may repeat one.  `reverse` says which     *)
(* way it is sorted (TRUE: from the highest price down, the ask side;       *)
(* FALSE: from the lowest price up, the bid side), so the best price of     *)
(* either side is the LAST element.                                         *)
(* Indices returned to the callers are Go's, counted from 0.               *)
(***************************************************************************)
EXTENDS Integers, SequencesExt

(* The order of a ladder: p stands to the left of q.  The functions of the  *)
(* source hold the same code twice, with < and > exchanged.                 *)
Before(p, q, reverse) == IF reverse THEN p > q ELSE p < q

Ladder(list, reverse) ==
    \A i, j \in DOMAIN list : i < j => Before(list[i], list[j], reverse)
SortedList(list, reverse) ==
    \A i, j \in DOMAIN list : i < j => ~Before(list[j], list[i], reverse)

(* How many prices of the list stand to the left of price: what both the    *)
(* bisection of UniPriceAdd and sort.Search look for.                       *)
Rank(list, price, reverse) ==
    Cardinality({i \in DOMAIN list : Before(list[i], price, reverse)})

(* The index of price in the list, -1 when it is not there.                 *)
UniPriceSearch(list, price, reverse) ==
    LET idx == Rank(list, price, reverse)
    IN  IF idx < Len(list) /\ list[idx + 1] = price THEN idx ELSE -1

\* Mutant: spliced in before its left neighbour.
UniPriceAddLeft(list, price, reverse) ==
    LET idx == Rank(list, price, reverse)
    IN  [idx |-> idx, rtn |-> InsertAt(list, IF idx = 0 THEN 1 ELSE idx, price)]

(* The index where price goes and the list that holds it.  A price that the *)
(* list begins with is put behind its first copy; when it is the only one,  *)
(* the window of the bisection has one element, which is left of the new    *)
(* one and right of it.  The bisection is modelled step by step in          *)
(* PriceAddLoop.                                                            *)
UniPriceAdd(list, price, reverse) ==
    LET idx == IF list # <<>> /\ list[1] = price THEN 1
               ELSE Rank(list, price, reverse)
    IN  [idx |-> idx,
         rtn |-> IF Len(list) = 1 /\ list[1] = price
                   THEN list \o <<price>> \o list
                 ELSE InsertAt(list, idx + 1, price)]

UniPriceRemove(list, price, reverse) ==
    LET idx == UniPriceSearch(list, price, reverse)
    IN  [idx |-> idx,
         rtn |-> IF idx < 0 THEN list ELSE RemoveAt(list, idx + 1)]
=============================================================================

---------------------------- MODULE PriceAddLoop ----------------------------
(***************************************************************************)
(* The search of UniPriceAdd (utils/common.go), one iteration per step, run *)
(* once on every sorted list.  PriceLadder states what the call returns;    *)
(* this module shows that the loop returns it, that it never reads outside  *)
(* the list and that it ends.                                               *)
(*                                                                          *)
(* The comment on the function requires a list of unique prices, and        *)
(* handleInsert (cache_mbl.go:474) refuses a price that the map has.  But a *)
(* deletion that names the wrong side leaves a price on the ladder that the *)
(* map has no longer (cache_mbl.go:463-467), so lists that hold the price   *)
(* already, and lists that repeat one, are covered too.                     *)
(***************************************************************************)
EXTENDS PriceLadder

CONSTANTS Price,    \* the prices a list is made of
          MaxLen    \* bound: the longest list

ASSUME PriceAssumption == Price \subseteq Int
ASSUME MaxLenAssumption == MaxLen \in Nat

VARIABLES priceList, price, reverse,  \* the arguments
          start, end,                 \* the window of the bisection
          idx, rtn,                   \* the results
          pc

vars == <<priceList, price, reverse, start, end, idx, rtn, pc>>
args == <<priceList, price, reverse>>

Lists == UNION {[1..n -> Price] : n \in 0..MaxLen}

Init ==
    /\ reverse \in BOOLEAN
    /\ priceList \in {l \in Lists : SortedList(l, reverse)}
    /\ price \in Price
    /\ start = 0
    /\ end = Len(priceList) - 1
    /\ idx = -1
    /\ rtn = <<>>
    /\ pc = "enter"

-----------------------------------------------------------------------------
(* The element at a Go index.                                               *)
At(i) == priceList[i + 1]

(* `return` with the price spliced in at Go index i.                        *)
ReturnAt(i) ==
    /\ idx' = i
    /\ rtn' = InsertAt(priceList, i + 1, price)
    /\ pc' = "done"
    /\ UNCHANGED <<args, start, end>>

(* The cases tried before the loop: an empty list, an end of the list.      *)
AddToEmpty == pc = "enter" /\ Len(priceList) < 1 /\ ReturnAt(0)

AddAtHead ==
    /\ pc = "enter"
    /\ Len(priceList) >= 1
    /\ Before(price, At(start), reverse)
    /\ ReturnAt(start)

AddAtTail ==
    /\ pc = "enter"
    /\ Len(priceList) >= 1
    /\ Before(At(end), price, reverse)
    /\ ReturnAt(end + 1)

EnterLoop ==
    /\ pc = "enter"
    /\ Len(priceList) >= 1
    /\ ~Before(price, At(start), reverse)
    /\ ~Before(At(end), price, reverse)
    /\ pc' = "loop"
    /\ UNCHANGED <<args, start, end, idx, rtn>>

-----------------------------------------------------------------------------
\* Mutant: the window may shrink to one element.
NarrowToOne == end - start <= 0

Narrow == end - start <= 1
mid == (end - start) \div 2 + start

(* The parts of the list are cut at the two ends of the window.             *)
AddInNarrowWindow ==
    /\ pc = "loop" /\ Narrow
    /\ idx' = start + 1
    /\ rtn' = SubSeq(priceList, 1, start + 1) \o <<price>>
                 \o SubSeq(priceList, end + 1, Len(priceList))
    /\ pc' = "done"
    /\ UNCHANGED <<args, start, end>>

\* Mutants: the wrong neighbour; the window that is not narrowed.
SearchRightBeforeMid ==
    /\ pc = "loop"
    /\ ~Narrow
    /\ Before(At(mid), price, reverse)
    /\ \/ /\ Before(price, At(mid + 1), reverse)
          /\ ReturnAt(mid)
       \/ /\ ~Before(price, At(mid + 1), reverse)
          /\ start' = mid
          /\ UNCHANGED <<args, end, idx, rtn, pc>>

SearchRightForever ==
    /\ pc = "loop"
    /\ ~Narrow
    /\ Before(At(mid), price, reverse)
    /\ \/ /\ Before(price, At(mid + 1), reverse)
          /\ ReturnAt(mid + 1)
       \/ /\ ~Before(price, At(mid + 1), reverse)
          /\ UNCHANGED vars

(* The price goes right of mid: next to it, or somewhere in the right half. *)
SearchRight ==
    /\ pc = "loop"
    /\ ~Narrow
    /\ Before(At(mid), price, reverse)
    /\ \/ /\ Before(price, At(mid + 1), reverse)
          /\ ReturnAt(mid + 1)
       \/ /\ ~Before(price, At(mid + 1), reverse)
          /\ start' = mid
          /\ UNCHANGED <<args, end, idx, rtn, pc>>

SearchLeft ==
    /\ pc = "loop"
    /\ ~Narrow
    /\ ~Before(At(mid), price, reverse)
    /\ \/ /\ Before(At(mid - 1), price, reverse)
          /\ ReturnAt(mid)
       \/ /\ ~Before(At(mid - 1), price, reverse)
          /\ end' = mid
          /\ UNCHANGED <<args, start, idx, rtn, pc>>

Done == pc = "done" /\ UNCHANGED vars

Next ==
    \/ AddToEmpty \/ AddAtHead \/ AddAtTail \/ EnterLoop
    \/ AddInNarrowWindow \/ SearchRight \/ SearchLeft
    \/ Done

Spec == Init /\ [][Next]_vars

(* A sequential loop: nothing but its own steps can hold it up.             *)
FairSpec == Spec /\ WF_vars(Next)

-----------------------------------------------------------------------------
(* The arguments never change and the window stays inside the list.        *)
TypeOK ==
    /\ reverse \in BOOLEAN
    /\ priceList \in Seq(Price) /\ SortedList(priceList, reverse)
    /\ price \in Price
    /\ start \in Nat
    /\ end \in -1..(Len(priceList) - 1)
    /\ idx \in -1..Len(priceList)
    /\ rtn \in Seq(Price)
    /\ pc \in {"enter", "loop", "done"}

(* In the loop the price is inside the window, not equal to its left end    *)
(* once that has moved: this is why the loop may halve the window and what  *)
(* its last two elements say about the answer.                              *)
WindowBrackets ==
    /\ pc = "enter" => start = 0 /\ end = Len(priceList) - 1
    /\ pc = "loop" =>
           /\ start < end \/ (start = 0 /\ end = 0 /\ Len(priceList) = 1)
           /\ Before(At(start), price, reverse) \/ (start = 0 /\ At(0) = price)
           /\ ~Before(At(end), price, reverse)

(* An iteration reads priceList[mid], [mid+1] and [mid-1]: all three exist, *)
(* so UniPriceAdd cannot panic with an index out of range.                  *)
IndexInRange ==
    (pc = "loop" /\ ~Narrow) =>
        {mid - 1, mid, mid + 1} \subseteq 0..(Len(priceList) - 1)

(* What the call returns is what every caller in cache_mbl.go relies on:    *)
(* the index is the price's place in the ladder.                            *)
ReturnsRank ==
    pc = "done" => [idx |-> idx, rtn |-> rtn] = UniPriceAdd(priceList, price, reverse)

(* The for loop without a condition ends on every input.                    *)
Terminates == <>(pc = "done")

=============================================================================

------------------------- MODULE PriceAddLoopProofs -------------------------
(***************************************************************************)
(* UniPriceAdd's bisection returns the price's place, for every list of     *)
(* integer prices, of any length and in either order.                       *)
(***************************************************************************)
EXTENDS PriceAddLoop, FiniteSetTheorems, SequenceTheorems, TLAPS

(* Prices on one side of a place are all on that side: Rank counts the      *)
(* prefix that stands before the price.                                     *)
LEMMA RankAtBoundary ==
    ASSUME NEW list \in Seq(Int), NEW p \in Int, NEW r \in BOOLEAN,
           SortedList(list, r),
           NEW k \in 0..Len(list),
           k > 0 => Before(list[k], p, r),
           k < Len(list) => ~Before(list[k + 1], p, r)
    PROVE  /\ Rank(list, p, r) = k
           /\ k > 0 => list # <<>> /\ list[1] # p
<1>1. ASSUME NEW i \in DOMAIN list
      PROVE  Before(list[i], p, r) <=> i \in 1..k
  <2>1. CASE i < k
    BY <2>1 DEF SortedList, Before
  <2>2. CASE i = k \/ i = k + 1
    BY <2>2
  <2>3. CASE i > k + 1
    BY <2>3 DEF SortedList, Before
  <2>. QED  BY <2>1, <2>2, <2>3
<1>2. {i \in DOMAIN list : Before(list[i], p, r)} = 1..k
  BY <1>1
<1>3. Cardinality(1..k) = k
  BY FS_Interval
<1>4. k > 0 => list # <<>> /\ list[1] # p
  BY <1>1 DEF Before
<1>. QED  BY <1>2, <1>3, <1>4 DEF Rank

(* Splicing a price in at a place of the list gives a list of prices.       *)
LEMMA InsertAtType ==
    ASSUME NEW S, NEW list \in Seq(S), NEW p \in S, NEW i \in 0..Len(list)
    PROVE  InsertAt(list, i + 1, p) \in Seq(S)
<1>1. SubSeq(list, 1, i) \in Seq(S) /\ SubSeq(list, i + 1, Len(list)) \in Seq(S)
  OBVIOUS
<1>. QED  BY <1>1 DEF InsertAt

-----------------------------------------------------------------------------
(* The inductive invariant: the window brackets the price and what has been *)
(* returned is the price's place.                                           *)
IInv == TypeOK /\ WindowBrackets /\ ReturnsRank

LEMMA ArgsAreInts == IInv => priceList \in Seq(Int) /\ price \in Int
<1>. SUFFICES ASSUME IInv PROVE priceList \in Seq(Int) /\ price \in Int
  OBVIOUS
<1>1. priceList \in Seq(Price) /\ price \in Price
  BY DEF IInv, TypeOK
<1>2. price \in Int
  BY <1>1, PriceAssumption
<1>. QED  BY <1>1, <1>2, PriceAssumption, SeqMonotonic

(* The call is over with what UniPriceAdd returns.                          *)
LEMMA Returned ==
    ASSUME IInv, idx' \in 0..Len(priceList), rtn' \in Seq(Price), pc' = "done",
           UNCHANGED <<args, start, end>>,
           [idx |-> idx', rtn |-> rtn'] = UniPriceAdd(priceList, price, reverse)
    PROVE  IInv'
<1>1. TypeOK'
  BY DEF IInv, TypeOK, args
<1>2. WindowBrackets'
  BY DEF WindowBrackets
<1>3. ReturnsRank'
  BY DEF ReturnsRank, args
<1>. QED  BY <1>1, <1>2, <1>3 DEF IInv

(* A return at a place with smaller prices left and the others right of it, *)
(* which is not the head of a list that begins with the price.              *)
LEMMA ReturnCorrect ==
    ASSUME IInv, NEW i \in 0..Len(priceList), ReturnAt(i),
           i > 0 => Before(priceList[i], price, reverse),
           i < Len(priceList) => ~Before(priceList[i + 1], price, reverse),
           i = 0 => priceList = <<>> \/ priceList[1] # price
    PROVE  IInv'
<1>1. priceList \in Seq(Int) /\ price \in Int
  BY ArgsAreInts
<1>2. /\ Rank(priceList, price, reverse) = i
      /\ i > 0 => priceList # <<>> /\ priceList[1] # price
  BY <1>1, RankAtBoundary DEF IInv, TypeOK
<1>3. InsertAt(priceList, i + 1, price) \in Seq(Price)
  BY InsertAtType DEF IInv, TypeOK
<1>4. ~(Len(priceList) = 1 /\ priceList[1] = price)
  BY <1>2
<1>5. UniPriceAdd(priceList, price, reverse)
        = [idx |-> i, rtn |-> InsertAt(priceList, i + 1, price)]
  BY <1>2, <1>4 DEF UniPriceAdd
<1>. QED  BY <1>3, <1>5, Returned DEF ReturnAt

(* The list with the price behind its k + 1 first elements.                 *)
LEMMA Spliced ==
    ASSUME NEW list, NEW p, NEW k \in Int
    PROVE  InsertAt(list, k + 2, p)
             = SubSeq(list, 1, k + 1) \o <<p>> \o SubSeq(list, k + 2, Len(list))
<1>. DEFINE at == k + 2
<1>1. at - 1 = k + 1
  OBVIOUS
<1>. HIDE DEF at
<1>2. InsertAt(list, at, p)
        = SubSeq(list, 1, k + 1) \o <<p>> \o SubSeq(list, at, Len(list))
  BY <1>1 DEF InsertAt
<1>. QED  BY <1>2 DEF at

LEMMA LongerThanOne ==
    ASSUME NEW n \in Nat, NEW k \in Nat, k + 2 <= n
    PROVE  n # 1 /\ n # 0
  OBVIOUS

LEMMA WholeList ==
    ASSUME NEW S, NEW list \in Seq(S)
    PROVE  SubSeq(list, 1, Len(list)) = list
  BY SubSeqProperties

(* The return from a window of two elements or one.                         *)
LEMMA NarrowCorrect ==
    ASSUME IInv, AddInNarrowWindow
    PROVE  IInv'
<1>. DEFINE spliced == SubSeq(priceList, 1, start + 1) \o <<price>>
                         \o SubSeq(priceList, end + 1, Len(priceList))
<1>1. /\ priceList \in Seq(Int) /\ price \in Int /\ reverse \in BOOLEAN
      /\ priceList \in Seq(Price) /\ price \in Price /\ SortedList(priceList, reverse)
      /\ Len(priceList) \in Nat /\ start \in Nat
      /\ end \in Int /\ end <= Len(priceList) - 1
  BY ArgsAreInts DEF IInv, TypeOK
<1>2. /\ end - start <= 1
      /\ start < end \/ (start = 0 /\ end = 0 /\ Len(priceList) = 1)
      /\ Before(At(start), price, reverse) \/ (start = 0 /\ At(0) = price)
      /\ ~Before(At(end), price, reverse)
  BY DEF AddInNarrowWindow, Narrow, IInv, WindowBrackets
<1>3. /\ idx' = start + 1 /\ rtn' = spliced
      /\ pc' = "done" /\ UNCHANGED <<args, start, end>>
  BY DEF AddInNarrowWindow
<1>4. SUFFICES /\ start + 1 <= Len(priceList) /\ spliced \in Seq(Price)
               /\ UniPriceAdd(priceList, price, reverse)
                    = [idx |-> start + 1, rtn |-> spliced]
  BY <1>1, <1>3, Returned
<1>5. CASE start < end
  <2>1. end = start + 1 /\ start + 2 <= Len(priceList)
    BY <1>1, <1>2, <1>5
  <2>2. spliced = InsertAt(priceList, start + 2, price)
    <3>1. end + 1 = start + 2 /\ start \in Int
      BY <1>1, <2>1
    <3>2. InsertAt(priceList, start + 2, price)
            = SubSeq(priceList, 1, start + 1) \o <<price>>
                \o SubSeq(priceList, start + 2, Len(priceList))
      BY <3>1, Spliced
    <3>. QED  BY <3>1, <3>2, Zenon
  <2>3. spliced \in Seq(Price)
    <3>1. start + 1 \in 0..Len(priceList) /\ start + 1 + 1 = start + 2
      BY <1>1, <2>1
    <3>. HIDE DEF spliced
    <3>. QED  BY <1>1, <2>2, <3>1, InsertAtType
  <2>4. Len(priceList) # 1 /\ priceList # <<>>
    <3>1. Len(priceList) # 1 /\ Len(priceList) # 0
      BY <1>1, <2>1, LongerThanOne
    <3>. QED  BY <3>1
  <2>5. priceList[1] = price \/ Rank(priceList, price, reverse) = start + 1
    <3>1. CASE Before(At(start), price, reverse)
      <4>1. /\ Before(priceList[start + 1], price, reverse)
            /\ ~Before(priceList[start + 1 + 1], price, reverse)
        BY <1>1, <1>2, <2>1, <3>1 DEF At
      <4>. QED  BY <1>1, <2>1, <4>1, RankAtBoundary
    <3>2. CASE start = 0 /\ At(0) = price
      BY <3>2 DEF At
    <3>. QED  BY <1>2, <3>1, <3>2
  <2>6. priceList[1] = price => start = 0
    <3>1. CASE Before(At(start), price, reverse)
      <4>1. Before(priceList[start + 1], price, reverse)
        BY <3>1 DEF At
      <4>. QED  BY <1>1, <2>1, <4>1 DEF SortedList, Before
    <3>. QED  BY <1>2, <3>1
  <2>7. IF priceList # <<>> /\ priceList[1] = price THEN start = 0
        ELSE Rank(priceList, price, reverse) = start + 1
    BY <2>4, <2>5, <2>6
  <2>. HIDE DEF spliced
  <2>8. start = 0 => start + 1 = 1
    OBVIOUS
  <2>9. start + 1 + 1 = start + 2
    BY <1>1
  <2>. QED  BY <1>1, <2>1, <2>2, <2>3, <2>4, <2>7, <2>8, <2>9 DEF UniPriceAdd
<1>6. CASE start = 0 /\ end = 0 /\ Len(priceList) = 1
  <2>1. priceList[1] = price /\ priceList # <<>>
    BY <1>1, <1>2, <1>6 DEF At
  <2>2. start + 1 = 1 /\ end + 1 = 1 /\ start + 1 = Len(priceList)
    BY <1>6
  <2>3. spliced = priceList \o <<price>> \o priceList
    BY <1>1, <2>2, WholeList
  <2>4. spliced \in Seq(Price)
    <3>1. <<price>> \in Seq(Price)
      BY <1>1
    <3>2. priceList \o <<price>> \in Seq(Price)
      BY <1>1, <3>1, ConcatProperties
    <3>. QED  BY <1>1, <2>3, <3>2, ConcatProperties
  <2>. HIDE DEF spliced
  <2>. QED  BY <1>1, <1>6, <2>1, <2>2, <2>3, <2>4 DEF UniPriceAdd
<1>. QED  BY <1>2, <1>5, <1>6

(* Two different prices stand in one order.                                 *)
LEMMA TotalOrder ==
    ASSUME IInv, NEW i \in 0..(Len(priceList) - 1)
    PROVE  /\ At(i) \in Int /\ price \in Int /\ reverse \in BOOLEAN
           /\ Before(At(i), price, reverse) => ~Before(price, At(i), reverse)
           /\ At(i) # price =>
                 (Before(At(i), price, reverse) <=> ~Before(price, At(i), reverse))
           /\ ~Before(price, price, reverse)
<1>1. At(i) \in Int /\ price \in Int /\ reverse \in BOOLEAN
  BY ArgsAreInts DEF IInv, TypeOK, At
<1>. QED  BY <1>1 DEF Before

LEMMA InitIInv == Init => IInv
<1>. SUFFICES ASSUME Init PROVE IInv
  OBVIOUS
<1>1. priceList \in Seq(Price) /\ SortedList(priceList, reverse)
  BY DEF Init, Lists
<1>2. TypeOK
  BY <1>1 DEF Init, TypeOK
<1>. QED  BY <1>2 DEF Init, IInv, WindowBrackets, ReturnsRank

LEMMA NextIInv == IInv /\ [Next]_vars => IInv'
<1>. SUFFICES ASSUME IInv, [Next]_vars PROVE IInv'
  OBVIOUS
<1>0. /\ Len(priceList) \in Nat /\ start \in Int /\ end \in Int
      /\ end <= Len(priceList) - 1 /\ start \in Nat
      /\ Len(priceList) = 0 => priceList = <<>>
  BY DEF IInv, TypeOK
<1>1. CASE AddToEmpty
  BY <1>0, <1>1, ReturnCorrect DEF AddToEmpty
<1>2. CASE AddAtHead
  <2>1. start = 0 /\ Len(priceList) >= 1
    BY <1>2 DEF AddAtHead, IInv, WindowBrackets
  <2>2. ~Before(priceList[1], price, reverse) /\ priceList[1] # price
    BY <1>2, <2>1, TotalOrder DEF AddAtHead, At
  <2>. QED  BY <1>0, <1>2, <2>1, <2>2, ReturnCorrect DEF AddAtHead
<1>3. CASE AddAtTail
  <2>1. end = Len(priceList) - 1 /\ Len(priceList) >= 1
    BY <1>3 DEF AddAtTail, IInv, WindowBrackets
  <2>2. Before(priceList[end + 1], price, reverse)
    BY <1>3 DEF AddAtTail, At
  <2>. QED  BY <1>0, <1>3, <2>1, <2>2, ReturnCorrect DEF AddAtTail
<1>4. CASE EnterLoop
  <2>1. /\ start = 0 /\ end = Len(priceList) - 1 /\ Len(priceList) >= 1
        /\ ~Before(price, At(0), reverse)
        /\ ~Before(At(end), price, reverse)
    BY <1>4 DEF EnterLoop, IInv, WindowBrackets
  <2>2. Before(At(0), price, reverse) \/ At(0) = price
    BY <1>0, <2>1, TotalOrder
  <2>3. start < end \/ (start = 0 /\ end = 0 /\ Len(priceList) = 1)
    BY <1>0, <2>1
  <2>4. WindowBrackets'
    BY <1>0, <1>4, <2>1, <2>2, <2>3 DEF EnterLoop, WindowBrackets, args, At
  <2>. QED  BY <1>4, <2>4 DEF EnterLoop, IInv, TypeOK, ReturnsRank, args
<1>5. CASE AddInNarrowWindow
  BY <1>5, NarrowCorrect
<1>6. ASSUME pc = "loop", ~Narrow
      PROVE  /\ mid \in Nat /\ start < mid /\ mid < end
             /\ mid - 1 \in Nat /\ mid + 1 <= Len(priceList) - 1
  BY <1>0, <1>6 DEF Narrow, mid
<1>7. CASE SearchRight
  <2>1. pc = "loop" /\ ~Narrow /\ Before(At(mid), price, reverse)
    BY <1>7 DEF SearchRight
  <2>2. CASE Before(price, At(mid + 1), reverse) /\ ReturnAt(mid + 1)
    <3>1. mid + 1 \in 0..(Len(priceList) - 1)
      BY <1>0, <1>6, <2>1
    <3>2. ~Before(At(mid + 1), price, reverse)
      BY <2>2, <3>1, TotalOrder
    <3>3. mid + 1 + 1 = mid + 2 /\ mid + 1 \in Nat
      BY <1>6, <2>1
    <3>4. ~Before(priceList[mid + 2], price, reverse)
      BY <3>2, <3>3 DEF At
    <3>. QED  BY <1>0, <1>6, <2>1, <2>2, <3>3, <3>4, ReturnCorrect, SMTT(30) DEF At
  <2>3. CASE start' = mid /\ UNCHANGED <<args, end, idx, rtn, pc>>
    <3>1. WindowBrackets'
      BY <1>6, <2>1, <2>3 DEF IInv, WindowBrackets, args, At
    <3>2. TypeOK'
      BY <1>6, <2>1, <2>3 DEF IInv, TypeOK, args
    <3>. QED  BY <2>1, <2>3, <3>1, <3>2 DEF IInv, ReturnsRank
  <2>. QED  BY <1>7, <2>2, <2>3 DEF SearchRight
<1>8. CASE SearchLeft
  <2>1. pc = "loop" /\ ~Narrow /\ ~Before(At(mid), price, reverse)
    BY <1>8 DEF SearchLeft
  <2>2. CASE Before(At(mid - 1), price, reverse) /\ ReturnAt(mid)
    BY <1>0, <1>6, <2>1, <2>2, ReturnCorrect, SMTT(30) DEF At
  <2>3. CASE end' = mid /\ UNCHANGED <<args, start, idx, rtn, pc>>
    <3>1. WindowBrackets'
      BY <1>6, <2>1, <2>3 DEF IInv, WindowBrackets, args, At
    <3>2. TypeOK'
      BY <1>0, <1>6, <2>1, <2>3 DEF IInv, TypeOK, args
    <3>. QED  BY <2>1, <2>3, <3>1, <3>2 DEF IInv, ReturnsRank
  <2>. QED  BY <1>8, <2>2, <2>3 DEF SearchLeft
<1>9. CASE UNCHANGED vars
  BY <1>9 DEF vars, IInv, TypeOK, WindowBrackets, ReturnsRank, At
<1>. QED
  BY <1>1, <1>2, <1>3, <1>4, <1>5, <1>7, <1>8, <1>9 DEF Next, Done

-----------------------------------------------------------------------------
THEOREM Invariance == Spec => []IInv
  BY InitIInv, NextIInv, PTL DEF Spec

(* The index UniPriceAdd returns is the price's rank in the ladder and the  *)
(* list it returns is the ladder with the price spliced in there.           *)
THEOREM AddReturnsRank == Spec => []ReturnsRank
<1>1. IInv => ReturnsRank
  BY DEF IInv
<1>. QED  BY <1>1, Invariance, PTL

(* No iteration of the bisection reads outside the price list.              *)
THEOREM AddIndexInRange == Spec => []IndexInRange
<1>1. IInv => IndexInRange
  BY DEF IInv, TypeOK, WindowBrackets, IndexInRange, Narrow, mid
<1>. QED  BY <1>1, Invariance, PTL
=============================================================================

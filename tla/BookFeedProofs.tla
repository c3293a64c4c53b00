---------------------------- MODULE BookFeedProofs ----------------------------
(***************************************************************************)
(* Proofs about the order book cache fed by an upstream that may lose its   *)
(* connection, for any prices, sizes, depth and lengths of lists, any       *)
(* drift, and any number of lists that come before a partial.               *)
(*                                                                          *)
(* As long as every connection begins with its partial (early = 0), FeedInv *)
(* says that the ladders, the map and the quotes agree after every order,   *)
(* and DepthInv that a subscriber of the limited stream has the best        *)
(* levels.  EarlyInv, at the end of the module, is what is left after early *)
(* lists, however many: the ladders list every level of the map, the map is *)
(* the upstream's book whenever the cache is idle with its partial, and a   *)
(* subscriber of the full stream has it unless it has missed a change.      *)
(* A panic has one of the named causes in either case.                      *)
(*                                                                          *)
(* The types are kept whatever messages OrderBook is sent, and the feed     *)
(* implements OrderBook.                                                    *)
(***************************************************************************)
EXTENDS BookFeed, FiniteSetTheorems, SequenceTheorems, TLAPS

-----------------------------------------------------------------------------
(* What the ladder operations return.                                       *)

LEMMA CardinalityUpTo ==
    ASSUME NEW k \in Nat
    PROVE  IsFiniteSet(1..k) /\ Cardinality(1..k) = k
  BY FS_Interval

LEMMA RankType ==
    ASSUME NEW list \in Seq(Price), NEW p, NEW r
    PROVE  Rank(list, p, r) \in 0..Len(list)
<1>. DEFINE S == {i \in DOMAIN list : Before(list[i], p, r)}
<1>1. S \subseteq 1..Len(list)
  OBVIOUS
<1>2. IsFiniteSet(1..Len(list)) /\ Cardinality(1..Len(list)) = Len(list)
  BY CardinalityUpTo
<1>3. IsFiniteSet(S) /\ Cardinality(S) <= Len(list)
  BY <1>1, <1>2, FS_Subset
<1>4. Cardinality(S) \in Nat
  BY <1>3, FS_CardinalityType
<1>. QED  BY <1>3, <1>4 DEF Rank

LEMMA SearchType ==
    ASSUME NEW list \in Seq(Price), NEW p, NEW r
    PROVE  UniPriceSearch(list, p, r) \in -1..(Len(list) - 1)
  BY RankType DEF UniPriceSearch

LEMMA RemoveType ==
    ASSUME NEW list \in Seq(Price), NEW p, NEW r
    PROVE  /\ UniPriceRemove(list, p, r).idx \in -1..(Len(list) - 1)
           /\ UniPriceRemove(list, p, r).rtn \in Seq(Price)
<1>. DEFINE idx == UniPriceSearch(list, p, r)
<1>1. idx \in -1..(Len(list) - 1)
  BY SearchType
<1>2. ASSUME idx >= 0 PROVE RemoveAt(list, idx + 1) \in Seq(Price)
  <2>1. SubSeq(list, 1, idx) \in Seq(Price)
    BY <1>1, <1>2, SubSeqProperties
  <2>2. SubSeq(list, idx + 2, Len(list)) \in Seq(Price)
    BY <1>1, <1>2, SubSeqProperties
  <2>3. idx + 1 - 1 = idx /\ idx + 1 + 1 = idx + 2
    BY <1>1
  <2>. QED  BY <2>1, <2>2, <2>3, ConcatProperties DEF RemoveAt
<1>. HIDE DEF idx
<1>3. UniPriceRemove(list, p, r) =
        [idx |-> idx, rtn |-> IF idx < 0 THEN list ELSE RemoveAt(list, idx + 1)]
  BY DEF UniPriceRemove, idx
<1>. QED  BY <1>1, <1>2, <1>3

LEMMA InsertAtType ==
    ASSUME NEW list \in Seq(Price), NEW p \in Price, NEW k \in 0..Len(list)
    PROVE  InsertAt(list, k + 1, p) \in Seq(Price)
<1>1. SubSeq(list, 1, k) \in Seq(Price)
  BY SubSeqProperties
<1>2. SubSeq(list, k + 1, Len(list)) \in Seq(Price)
  BY SubSeqProperties
<1>3. k + 1 - 1 = k /\ <<p>> \in Seq(Price)
  OBVIOUS
<1>. QED  BY <1>1, <1>2, <1>3, ConcatProperties DEF InsertAt

(* The two ways a price is added, and the one for a price that is not there.*)
LEMMA AddCases ==
    ASSUME NEW list \in Seq(Price), NEW p \in Price, NEW r,
           NEW added, added = UniPriceAdd(list, p, r)
    PROVE  \/ /\ Len(list) = 1 /\ list[1] = p
              /\ added = [idx |-> 1, rtn |-> list \o <<p>> \o list]
           \/ \E k \in 0..Len(list) :
                 /\ k = Rank(list, p, r) \/ (k = 1 /\ list[1] = p)
                 /\ added = [idx |-> k, rtn |-> InsertAt(list, k + 1, p)]
<1>. DEFINE k == Rank(list, p, r)
<1>1. k \in 0..Len(list)
  BY RankType
<1>2. list # <<>> => 1 \in 0..Len(list)
  OBVIOUS
<1>3. Len(list) = 1 => list # <<>>
  OBVIOUS
<1>. HIDE DEF k
<1>4. CASE Len(list) = 1 /\ list[1] = p
  BY <1>3, <1>4 DEF UniPriceAdd
<1>5. CASE ~(Len(list) = 1 /\ list[1] = p) /\ list # <<>> /\ list[1] = p
  <2>1. added = [idx |-> 1, rtn |-> InsertAt(list, 1 + 1, p)]
    BY <1>5 DEF UniPriceAdd
  <2>. QED  BY <1>2, <1>5, <2>1
<1>6. CASE ~(list # <<>> /\ list[1] = p)
  <2>1. added = [idx |-> k, rtn |-> InsertAt(list, k + 1, p)]
    BY <1>3, <1>6 DEF UniPriceAdd, k
  <2>. QED  BY <1>1, <2>1 DEF k
<1>. QED  BY <1>4, <1>5, <1>6

LEMMA AddFresh ==
    ASSUME NEW list \in Seq(Price), NEW p \in Price, NEW r, p \notin Range(list)
    PROVE  UniPriceAdd(list, p, r)
             = [idx |-> Rank(list, p, r), rtn |-> InsertAt(list, Rank(list, p, r) + 1, p)]
<1>1. list # <<>> => list[1] # p
  BY DEF Range
<1>2. Len(list) = 1 => list # <<>>
  OBVIOUS
<1>. QED  BY <1>1, <1>2 DEF UniPriceAdd

LEMMA AddType ==
    ASSUME NEW list \in Seq(Price), NEW p \in Price, NEW r
    PROVE  /\ UniPriceAdd(list, p, r).idx \in 0..Len(list)
           /\ UniPriceAdd(list, p, r).rtn \in Seq(Price)
<1>. DEFINE added == UniPriceAdd(list, p, r)
<1>1. CASE Len(list) = 1 /\ added = [idx |-> 1, rtn |-> list \o <<p>> \o list]
  <2>1. <<p>> \in Seq(Price)
    OBVIOUS
  <2>2. list \o <<p>> \in Seq(Price)
    BY <2>1, ConcatProperties
  <2>3. list \o <<p>> \o list \in Seq(Price)
    BY <2>2, ConcatProperties
  <2>. HIDE DEF added
  <2>4. added.idx \in 0..Len(list) /\ added.rtn \in Seq(Price)
    BY <1>1, <2>3
  <2>. QED  BY <2>4 DEF added
<1>2. ASSUME NEW k \in 0..Len(list), added = [idx |-> k, rtn |-> InsertAt(list, k + 1, p)]
      PROVE  added.idx \in 0..Len(list) /\ added.rtn \in Seq(Price)
  <2>. HIDE DEF added
  <2>. QED  BY <1>2, InsertAtType
<1>. QED  BY <1>1, <1>2, AddCases

-----------------------------------------------------------------------------
(* What the other helpers return.                                           *)

LEMMA DepthType == 0 \in Depth /\ Limit \in Depth
  BY DEF Depth

LEMMA LevelTypes ==
    ASSUME NEW b \in Book, NEW p \in Levels(b)
    PROVE  b[p] \in Level /\ OrderAt(b, p) \in Order
<1>1. b[p] \in Level /\ p \in Price
  BY DEF Levels, Book
<1>. QED  BY <1>1 DEF OrderAt, Order, Level

LEMMA SizeType ==
    ASSUME NEW b \in Book, NEW p \in Price
    PROVE  b[p].size \in Size \cup {0}
<1>1. b[p] \in Level \/ b[p] = NoLevel
  BY DEF Book
<1>. QED  BY <1>1 DEF Level, NoLevel

LEMMA BestOfType ==
    ASSUME NEW list \in Seq(Price), list # <<>>, NEW b \in Book
    PROVE  BestOf(list, b) \in [price : Price \cup {0}, size : Size \cup {0}]
<1>1. Last(list) \in Price
  BY DEF Last
<1>. QED  BY <1>1, SizeType DEF BestOf

LEMMA OnDepthType ==
    ASSUME NEW list \in Seq(Price), NEW b \in Book, NEW n \in Nat \ {0}
    PROVE  GetOrderOnDepth(list, b, n) \in Seq(Order)
<1>1. CASE n > Len(list)
  BY <1>1 DEF GetOrderOnDepth
<1>2. CASE n <= Len(list)
  <2>. DEFINE p == list[Len(list) + 1 - n]
  <2>1. p \in Price
    BY <1>2
  <2>2. CASE b[p] = NoLevel
    BY <1>2, <2>2 DEF GetOrderOnDepth
  <2>3. CASE b[p] # NoLevel
    <3>1. OrderAt(b, p) \in Order
      BY <2>1, <2>3, LevelTypes DEF Levels
    <3>2. GetOrderOnDepth(list, b, n) = <<OrderAt(b, p)>>
      BY <1>2, <2>3 DEF GetOrderOnDepth
    <3>. QED  BY <3>1, <3>2
  <2>. QED  BY <2>2, <2>3
<1>. QED  BY <1>1, <1>2

LEMMA ApplyType ==
    ASSUME NEW b \in Book, NEW act, NEW list \in Seq(Order)
    PROVE  Apply(b, act, list) \in Book
<1>. SUFFICES ASSUME NEW p \in Price
              PROVE  Apply(b, act, list)[p] \in Level \cup {NoLevel}
  BY DEF Book, Apply
<1>. DEFINE mine == {i \in DOMAIN list : list[i].price = p}
            last == CHOOSE i \in mine : TRUE
<1>1. ASSUME mine # {} PROVE LevelOf(list[last]) \in Level
  <2>1. last \in mine
    BY <1>1
  <2>2. list[last] \in Order
    BY <2>1
  <2>. QED  BY <2>2 DEF LevelOf, Order, Level
<1>2. b[p] \in Level \cup {NoLevel}
  BY DEF Book
<1>3. Apply(b, act, list)[p] =
        CASE mine = {} -> b[p]
          [] mine # {} /\ act = "delete" -> NoLevel
          [] mine # {} /\ act = "update" /\ b[p] = NoLevel -> NoLevel
          [] OTHER -> LevelOf(list[last])
  BY DEF Apply
<1>. HIDE DEF mine, last
<1>. QED  BY <1>1, <1>2, <1>3

LEMMA SnapshotType ==
    ASSUME l2Cache \in Book, NEW d
    PROVE  snapshot(d) \in Book
  BY DEF snapshot, Book

(* A list of the elements of a finite set is a sequence of them.            *)
LEMMA OrderingType ==
    ASSUME NEW S, IsFiniteSet(S), NEW T, S \subseteq T
    PROVE  AnyOrder(S) \subseteq Seq(T) /\ PriceOrder(S) \subseteq Seq(T)
<1>1. Cardinality(S) \in Nat
  BY FS_CardinalityType
<1>2. \A f \in [1..Cardinality(S) -> S] : f \in Seq(T)
  BY <1>1
<1>. QED  BY <1>2 DEF AnyOrder, PriceOrder

LEMMA OrdersFinite ==
    ASSUME NEW b, NEW S \in SUBSET Price
    PROVE  IsFiniteSet({OrderAt(b, p) : p \in S})
<1>1. IsFiniteSet(S)
  BY PriceAssumption, FS_Subset
<1>. DEFINE T == {OrderAt(b, p) : p \in S}
            f == [p \in S |-> OrderAt(b, p)]
<1>2. f \in Surjection(S, T)
  BY DEF Surjection
<1>. QED  BY <1>1, <1>2, FS_Surjection

LEMMA EmptyBookType == EmptyBook \in Book
  BY DEF EmptyBook, Book

LEMMA NoMergeType ==
    /\ NoMerge \in [phase : {"none", "delete", "insert"}, partial : Book,
                    origin : [Side -> SUBSET Price], updates : SUBSET Order]
    /\ IsFiniteSet(NoMerge.updates)
  BY EmptyBookType, FS_EmptySet DEF NoMerge

-----------------------------------------------------------------------------
(* The type invariant, one lemma per action.  The four groups of variables  *)
(* are typed apart, because most steps leave all but one of them alone.     *)

BookTypes ==
    /\ prices \in [Side -> Seq(Price)]
    /\ l2Cache \in Book
    /\ inited \in BOOLEAN
    /\ quote \in [Side -> [price : Price \cup {0}, size : Size \cup {0}]]
JobTypes ==
    /\ pc \in {"idle", "apply", "merge"}
    /\ action \in Action
    /\ data \in Seq(Order) /\ todo \in Seq(Order)
    /\ delta \in Seq(Order) /\ makeup \in Seq(Order)
MergeTypes ==
    /\ merge \in [phase : {"none", "delete", "insert"}, partial : Book,
                  origin : [Side -> SUBSET Price], updates : SUBSET Order]
    /\ IsFiniteSet(merge.updates)
SubsTypes ==
    /\ joined \in [Depth -> {"no", "early", "yes"}]
    /\ view \in [Depth -> Book]
PanicType == panicked \in {"no", "emptySide", "nilMap", "nilOrder"}

LEMMA TypeParts ==
    TypeOK <=> BookTypes /\ JobTypes /\ MergeTypes /\ SubsTypes /\ PanicType
  BY DEF TypeOK, BookTypes, JobTypes, MergeTypes, SubsTypes, PanicType

LEMMA InitType == Init => TypeOK
<1>. SUFFICES ASSUME Init PROVE TypeOK
  OBVIOUS
<1>1. BookTypes
  <2>1. prices \in [Side -> Seq(Price)]
    BY DEF Init
  <2>. QED  BY <2>1, EmptyBookType DEF Init, BookTypes
<1>2. JobTypes
  BY DEF Init, JobTypes, Action
<1>3. MergeTypes
  BY NoMergeType DEF Init, MergeTypes
<1>4. SubsTypes /\ PanicType
  BY EmptyBookType DEF Init, SubsTypes, PanicType
<1>. QED  BY <1>1, <1>2, <1>3, <1>4, TypeParts

LEMMA PanicStep ==
    ASSUME TypeOK, NEW why \in {"emptySide", "nilMap", "nilOrder"}, Panic(why)
    PROVE  TypeOK'
  BY DEF TypeOK, Panic, book, job, subs

LEMMA StartType ==
    ASSUME NEW act \in Action, NEW list \in Seq(Order), Start(act, list),
           pc' \in {"idle", "apply", "merge"}
    PROVE  JobTypes'
  BY DEF Start, JobTypes

LEMMA AbortStep ==
    ASSUME TypeOK, BookTypes', Abort
    PROVE  TypeOK'
<1>1. Start("update", <<>>) /\ pc' \in {"idle", "apply", "merge"}
  BY DEF Abort, Leave
<1>2. JobTypes'
  <2>1. "update" \in Action /\ <<>> \in Seq(Order)
    BY DEF Action
  <2>. QED  BY <1>1, <2>1, StartType
<1>3. MergeTypes' /\ SubsTypes' /\ PanicType'
  BY DEF TypeOK, Abort, MergeTypes, SubsTypes, PanicType, subs
<1>. QED  BY <1>2, <1>3 DEF TypeOK, BookTypes, JobTypes, MergeTypes, SubsTypes, PanicType

LEMMA CollectStep ==
    ASSUME TypeOK, BookTypes', todo # <<>>,
           NEW depth, NEW at \in Nat \ {0}, Collect(Head(todo), depth, at)
    PROVE  TypeOK'
<1>. DEFINE ord == Head(todo)
            pushed == GetOrderOnDepth(prices'[ord.side], l2Cache', at)
<1>1. ord \in Order /\ Tail(todo) \in Seq(Order)
  BY DEF TypeOK
<1>2. prices'[ord.side] \in Seq(Price) /\ l2Cache' \in Book
  BY <1>1 DEF BookTypes, Order
<1>3. pushed \in Seq(Order)
  BY <1>2, OnDepthType
<1>4. makeup \o pushed \in Seq(Order)
  BY <1>3, ConcatProperties DEF TypeOK
<1>5. Append(delta, ord) \in Seq(Order)
  BY <1>1 DEF TypeOK
<1>. HIDE DEF pushed
<1>6. JobTypes'
  BY <1>1, <1>4, <1>5 DEF Collect, TypeOK, JobTypes, pushed
<1>7. MergeTypes' /\ SubsTypes' /\ PanicType'
  BY DEF TypeOK, Collect, MergeTypes, SubsTypes, PanicType, subs
<1>. QED  BY <1>6, <1>7 DEF TypeOK, BookTypes, JobTypes, MergeTypes, SubsTypes, PanicType

LEMMA BookUnchanged == TypeOK /\ UNCHANGED book => BookTypes'
  BY DEF TypeOK, BookTypes, book

LEMMA DeleteType == TypeOK /\ handleDelete => TypeOK'
<1>. SUFFICES ASSUME TypeOK, handleDelete PROVE TypeOK'
  OBVIOUS
<1>. DEFINE ord == Head(todo)
            removed == UniPriceRemove(prices[ord.side], ord.price, Descending(ord.side))
            depth == Len(prices[ord.side]) - removed.idx
<1>1. todo # <<>> /\ ord \in Order
  BY DEF handleDelete, Applying, TypeOK
<1>2. ord.side \in Side /\ ord.price \in Price /\ prices[ord.side] \in Seq(Price)
  BY <1>1 DEF Order, TypeOK
<1>3. removed.rtn \in Seq(Price)
  BY <1>2, RemoveType
<1>. HIDE DEF removed, depth
<1>4. CASE Abort /\ UNCHANGED book
  BY <1>4, BookUnchanged, AbortStep
<1>5. CASE Panic("emptySide") \/ Panic("nilOrder")
  BY <1>5, PanicStep
<1>6. CASE /\ depth = 1 => removed.rtn # <<>> /\ l2Cache[Last(removed.rtn)] # NoLevel
           /\ prices' = [prices EXCEPT ![ord.side] = removed.rtn]
           /\ quote' = IF depth = 1
                         THEN [quote EXCEPT ![ord.side] = BestOf(removed.rtn, l2Cache)]
                         ELSE quote
           /\ l2Cache' = [l2Cache EXCEPT ![ord.price] = NoLevel]
           /\ UNCHANGED inited
           /\ IF removed.idx < 0 THEN Abort ELSE Collect(ord, depth, Limit)
  <2>1. prices' \in [Side -> Seq(Price)]
    BY <1>2, <1>3, <1>6 DEF TypeOK
  <2>2. l2Cache' \in Book
    BY <1>2, <1>6 DEF TypeOK, Book
  <2>3. depth = 1 =>
          BestOf(removed.rtn, l2Cache) \in [price : Price \cup {0}, size : Size \cup {0}]
    BY <1>3, <1>6, BestOfType DEF TypeOK
  <2>4. quote' \in [Side -> [price : Price \cup {0}, size : Size \cup {0}]]
    BY <1>2, <1>6, <2>3 DEF TypeOK
  <2>5. BookTypes'
    BY <1>6, <2>1, <2>2, <2>4 DEF BookTypes, TypeOK
  <2>. QED  BY <1>1, <1>6, <2>5, AbortStep, CollectStep, LimitAssumption
<1>. QED  BY <1>4, <1>5, <1>6 DEF handleDelete, removed, depth

LEMMA InsertType == TypeOK /\ handleInsert => TypeOK'
<1>. SUFFICES ASSUME TypeOK, handleInsert PROVE TypeOK'
  OBVIOUS
<1>. DEFINE ord == Head(todo)
            added == UniPriceAdd(prices[ord.side], ord.price, Descending(ord.side))
            depth == Len(added.rtn) - added.idx
<1>1. todo # <<>> /\ ord \in Order
  BY DEF handleInsert, Applying, TypeOK
<1>2. /\ ord.side \in Side /\ ord.price \in Price /\ ord.size \in Size
      /\ prices[ord.side] \in Seq(Price)
  BY <1>1 DEF Order, TypeOK
<1>3. added.rtn \in Seq(Price)
  BY <1>2, AddType
<1>. HIDE DEF added, depth
<1>4. CASE Abort /\ UNCHANGED book
  BY <1>4, BookUnchanged, AbortStep
<1>5. CASE Panic("nilMap")
  BY <1>5, PanicStep
<1>6. CASE /\ prices' = [prices EXCEPT ![ord.side] = added.rtn]
           /\ quote' = IF depth = 1
                         THEN [quote EXCEPT ![ord.side] =
                                  [price |-> ord.price, size |-> ord.size]]
                         ELSE quote
           /\ l2Cache' = [l2Cache EXCEPT ![ord.price] = LevelOf(ord)]
           /\ UNCHANGED inited
           /\ Collect(ord, depth, Limit + 1)
  <2>1. prices' \in [Side -> Seq(Price)]
    BY <1>2, <1>3, <1>6 DEF TypeOK
  <2>2. l2Cache' \in Book
    <3>1. LevelOf(ord) \in Level
      BY <1>2 DEF LevelOf, Level
    <3>. QED  BY <1>2, <1>6, <3>1 DEF TypeOK, Book
  <2>3. quote' \in [Side -> [price : Price \cup {0}, size : Size \cup {0}]]
    BY <1>2, <1>6 DEF TypeOK
  <2>4. BookTypes'
    BY <1>6, <2>1, <2>2, <2>3 DEF BookTypes, TypeOK
  <2>5. Limit + 1 \in Nat \ {0}
    BY LimitAssumption
  <2>. QED  BY <1>1, <1>6, <2>4, <2>5, CollectStep
<1>. QED  BY <1>4, <1>5, <1>6 DEF handleInsert, added, depth

LEMMA UpdateType == TypeOK /\ handleUpdate => TypeOK'
<1>. SUFFICES ASSUME TypeOK, handleUpdate PROVE TypeOK'
  OBVIOUS
<1>. DEFINE ord == Head(todo)
            idx == UniPriceSearch(prices[ord.side], ord.price, Descending(ord.side))
            depth == Len(prices[ord.side]) - idx
<1>1. todo # <<>> /\ ord \in Order
  BY DEF handleUpdate, Applying, TypeOK
<1>2. ord.side \in Side /\ ord.price \in Price /\ ord.size \in Size
  BY <1>1 DEF Order
<1>. HIDE DEF idx, depth
<1>3. CASE Abort /\ UNCHANGED book
  BY <1>3, BookUnchanged, AbortStep
<1>4. CASE /\ l2Cache[ord.price] # NoLevel
           /\ quote' = IF depth = 1
                         THEN [quote EXCEPT ![ord.side].size = ord.size]
                         ELSE quote
           /\ UNCHANGED <<prices, inited>>
           /\ \/ idx < 0 /\ Abort /\ UNCHANGED l2Cache
              \/ /\ idx >= 0
                 /\ l2Cache' = [l2Cache EXCEPT ![ord.price].size = ord.size]
                 /\ Collect(ord, depth, Limit)
  <2>1. quote' \in [Side -> [price : Price \cup {0}, size : Size \cup {0}]]
    <3>1. quote[ord.side] \in [price : Price \cup {0}, size : Size \cup {0}]
      BY <1>2 DEF TypeOK
    <3>2. [quote[ord.side] EXCEPT !.size = ord.size]
             \in [price : Price \cup {0}, size : Size \cup {0}]
      BY <1>2, <3>1
    <3>. QED  BY <1>2, <1>4, <3>2 DEF TypeOK
  <2>2. [l2Cache EXCEPT ![ord.price].size = ord.size] \in Book
    <3>1. l2Cache[ord.price] \in Level
      BY <1>2, <1>4 DEF TypeOK, Book
    <3>2. [l2Cache[ord.price] EXCEPT !.size = ord.size] \in Level
      BY <1>2, <3>1 DEF Level
    <3>. QED  BY <1>2, <3>2 DEF TypeOK, Book
  <2>3. BookTypes'
    BY <1>4, <2>1, <2>2 DEF BookTypes, TypeOK
  <2>. QED  BY <1>1, <1>4, <2>3, AbortStep, CollectStep, LimitAssumption
<1>. QED  BY <1>3, <1>4 DEF handleUpdate, idx, depth

LEMMA DispatchType == TypeOK /\ dispatchRsp => TypeOK'
<1>. SUFFICES ASSUME TypeOK, dispatchRsp PROVE TypeOK'
  OBVIOUS
<1>1. \A d \in Depth : Published(d) \in Book
  <2>. TAKE d \in Depth
  <2>1. view[d] \in Book
    BY DEF TypeOK
  <2>. QED  BY <2>1, ApplyType DEF Published, TypeOK
<1>2. SubsTypes'
  BY <1>1 DEF dispatchRsp, TypeOK, SubsTypes
<1>3. JobTypes'
  <2>1. "update" \in Action /\ <<>> \in Seq(Order)
    BY DEF Action
  <2>2. Start("update", <<>>) /\ pc' \in {"idle", "apply", "merge"}
    BY DEF dispatchRsp, Leave
  <2>. QED  BY <2>1, <2>2, StartType
<1>4. BookTypes' /\ MergeTypes' /\ PanicType'
  BY DEF dispatchRsp, TypeOK, BookTypes, MergeTypes, PanicType, book
<1>. QED  BY <1>2, <1>3, <1>4 DEF TypeOK, BookTypes, JobTypes, MergeTypes, SubsTypes, PanicType

LEMMA SubscribeType == TypeOK /\ (\E d \in Streams : Subscribe(d)) => TypeOK'
<1>. SUFFICES ASSUME TypeOK, NEW d \in Streams, Subscribe(d) PROVE TypeOK'
  OBVIOUS
<1>1. SubsTypes'
  <2>1. snapshot(d) \in Book
    BY SnapshotType DEF TypeOK
  <2>. QED  BY <2>1, StreamsAssumption DEF Subscribe, TypeOK, SubsTypes
<1>2. BookTypes' /\ JobTypes' /\ MergeTypes' /\ PanicType'
  BY DEF Subscribe, TypeOK, BookTypes, JobTypes, MergeTypes, PanicType, book, job
<1>. QED  BY <1>1, <1>2 DEF TypeOK, BookTypes, JobTypes, MergeTypes, SubsTypes, PanicType

LEMMA ReceiveListType ==
    ASSUME TypeOK, NEW act \in Action, NEW list \in Seq(Order), ReceiveList(act, list)
    PROVE  TypeOK'
<1>1. JobTypes'
  BY StartType DEF ReceiveList
<1>2. BookTypes' /\ MergeTypes' /\ SubsTypes' /\ PanicType'
  BY DEF ReceiveList, TypeOK, BookTypes, MergeTypes, SubsTypes, PanicType, book, subs
<1>. QED  BY <1>1, <1>2 DEF TypeOK, BookTypes, JobTypes, MergeTypes, SubsTypes, PanicType

-----------------------------------------------------------------------------
(* Partials.                                                                *)

LEMMA FirstPartialType ==
    ASSUME TypeOK, NEW partial \in Book, FirstPartial(partial)
    PROVE  TypeOK'
<1>1. CASE Panic("emptySide")
  BY <1>1, PanicStep
<1>2. ASSUME \A s \in Side : PricesOf(partial, s) # {},
             NEW asks \in AnyOrder(PricesOf(partial, "Sell")),
             NEW bids \in AnyOrder(PricesOf(partial, "Buy")),
             prices' = [s \in Side |-> IF s = "Sell" THEN asks ELSE bids],
             quote' = [s \in Side |-> BestOf(prices'[s], partial)],
             l2Cache' = partial, inited' = TRUE,
             view' = [view EXCEPT ![0] = IF joined[0] = "no" THEN @ ELSE partial],
             UNCHANGED <<pc, job, merge, joined, panicked>>
      PROVE  TypeOK'
  <2>1. \A s \in Side : PricesOf(partial, s) \subseteq Price /\ IsFiniteSet(PricesOf(partial, s))
    BY PriceAssumption, FS_Subset DEF PricesOf
  <2>2. asks \in Seq(Price) /\ bids \in Seq(Price)
    BY <2>1, OrderingType DEF Side
  <2>3. asks # <<>> /\ bids # <<>>
    <3>1. \A s \in Side : Cardinality(PricesOf(partial, s)) # 0
      BY <1>2, <2>1, FS_EmptySet
    <3>2. \A s \in Side : Cardinality(PricesOf(partial, s)) \in Nat
      BY <2>1, FS_CardinalityType
    <3>3. DOMAIN asks # {} /\ DOMAIN bids # {}
      BY <1>2, <3>1, <3>2 DEF AnyOrder, Side
    <3>. QED  BY <3>3
  <2>4. prices' \in [Side -> Seq(Price)]
    BY <1>2, <2>2
  <2>5. \A s \in Side : prices'[s] \in Seq(Price) /\ prices'[s] # <<>>
    BY <1>2, <2>2, <2>3
  <2>6. quote' \in [Side -> [price : Price \cup {0}, size : Size \cup {0}]]
    BY <1>2, <2>5, BestOfType
  <2>7. BookTypes'
    BY <1>2, <2>4, <2>6 DEF BookTypes
  <2>8. SubsTypes'
    BY <1>2, DepthType DEF TypeOK, SubsTypes
  <2>9. JobTypes' /\ MergeTypes' /\ PanicType'
    BY <1>2 DEF TypeOK, JobTypes, MergeTypes, PanicType, job
  <2>. QED  BY <2>7, <2>8, <2>9
            DEF TypeOK, BookTypes, JobTypes, MergeTypes, SubsTypes, PanicType
<1>. QED  BY <1>1, <1>2 DEF FirstPartial

(* A list of the levels of a set of prices of a book.                       *)
LEMMA ListType ==
    ASSUME NEW b \in Book, NEW S \in SUBSET Levels(b)
    PROVE  /\ AnyOrder({OrderAt(b, p) : p \in S}) \subseteq Seq(Order)
           /\ PriceOrder({OrderAt(b, p) : p \in S}) \subseteq Seq(Order)
<1>1. S \subseteq Price
  BY DEF Levels
<1>2. IsFiniteSet({OrderAt(b, p) : p \in S})
  BY <1>1, OrdersFinite
<1>3. {OrderAt(b, p) : p \in S} \subseteq Order
  BY LevelTypes
<1>. QED  BY <1>2, <1>3, OrderingType

LEMMA MergePartialType ==
    ASSUME TypeOK, NEW partial \in Book, MergePartial(partial)
    PROVE  TypeOK'
<1>. DEFINE origin == [s \in Side |-> Range(prices[s])]
            gone == UNION {Sub(origin[s], PricesOf(partial, s)) : s \in Side}
<1>1. CASE Panic("nilOrder")
  BY <1>1, PanicStep
<1>2. ASSUME gone \subseteq Levels(l2Cache),
             NEW list \in AnyOrder({OrderAt(l2Cache, p) : p \in gone}),
             Start("delete", list),
             pc' = IF list = <<>> THEN "merge" ELSE "apply",
             merge' = [phase |-> "delete", partial |-> partial,
                       origin |-> origin, updates |-> {}],
             UNCHANGED <<book, subs, panicked>>
      PROVE  TypeOK'
  <2>1. list \in Seq(Order) /\ "delete" \in Action
    BY <1>2, ListType DEF TypeOK, Action
  <2>2. JobTypes'
    BY <1>2, <2>1, StartType
  <2>3. origin \in [Side -> SUBSET Price]
    BY DEF TypeOK, Range
  <2>4. MergeTypes'
    BY <1>2, <2>3, FS_EmptySet DEF MergeTypes
  <2>5. BookTypes' /\ SubsTypes' /\ PanicType'
    BY <1>2 DEF TypeOK, BookTypes, SubsTypes, PanicType, book, subs
  <2>. QED  BY <2>2, <2>4, <2>5
            DEF TypeOK, BookTypes, JobTypes, MergeTypes, SubsTypes, PanicType
<1>. QED  BY <1>1, <1>2 DEF MergePartial

LEMMA MergeInsertType == TypeOK /\ MergeInsert => TypeOK'
<1>. SUFFICES ASSUME TypeOK, MergeInsert PROVE TypeOK'
  OBVIOUS
<1>. DEFINE added == UNION {Sub(PricesOf(merge.partial, s), merge.origin[s]) : s \in Side}
            kept == UNION {Join(merge.origin[s], PricesOf(merge.partial, s)) : s \in Side}
            read == kept \cap Levels(merge.partial)
            differ == {q \in read : l2Cache[q].size # merge.partial[q].size}
            inserts == {OrderAt(merge.partial, p) : p \in added}
            updates == {OrderAt(merge.partial, p) : p \in differ}
<1>1. merge.partial \in Book
  BY DEF TypeOK
<1>2. added \subseteq Levels(merge.partial) /\ differ \subseteq Levels(merge.partial)
  BY DEF Sub, PricesOf, Levels, NoLevel, Side
<1>3. PriceOrder(inserts) \subseteq Seq(Order)
  BY <1>1, <1>2, ListType
<1>4. updates \subseteq Order /\ IsFiniteSet(updates)
  <2>1. differ \subseteq Price
    BY <1>2 DEF Levels
  <2>. QED  BY <1>1, <1>2, <2>1, LevelTypes, OrdersFinite
<1>. HIDE DEF added, differ, inserts, updates
<1>5. CASE Panic("nilOrder")
  BY <1>5, PanicStep
<1>6. ASSUME NEW list \in PriceOrder(inserts),
             Start("insert", list),
             pc' = IF list = <<>> THEN "merge" ELSE "apply",
             merge' = [merge EXCEPT !.phase = "insert", !.updates = updates],
             UNCHANGED <<book, subs, panicked>>
      PROVE  TypeOK'
  <2>1. list \in Seq(Order) /\ "insert" \in Action
    BY <1>3 DEF Action
  <2>2. JobTypes'
    BY <1>6, <2>1, StartType
  <2>3. MergeTypes'
    BY <1>4, <1>6 DEF TypeOK, MergeTypes
  <2>4. BookTypes' /\ SubsTypes' /\ PanicType'
    BY <1>6 DEF TypeOK, BookTypes, SubsTypes, PanicType, book, subs
  <2>. QED  BY <2>2, <2>3, <2>4
            DEF TypeOK, BookTypes, JobTypes, MergeTypes, SubsTypes, PanicType
<1>. QED  BY <1>5, <1>6 DEF MergeInsert, added, differ, inserts, updates

LEMMA MergeUpdateType == TypeOK /\ MergeUpdate => TypeOK'
<1>. SUFFICES ASSUME TypeOK, MergeUpdate PROVE TypeOK'
  OBVIOUS
<1>1. PICK list \in PriceOrder(merge.updates) :
            Start("update", list) /\ pc' = IF list = <<>> THEN "idle" ELSE "apply"
  BY DEF MergeUpdate
<1>2. list \in Seq(Order) /\ "update" \in Action
  BY OrderingType DEF TypeOK, Action
<1>3. JobTypes'
  BY <1>1, <1>2, StartType
<1>4. MergeTypes'
  BY NoMergeType DEF MergeUpdate, MergeTypes
<1>5. BookTypes' /\ SubsTypes' /\ PanicType'
  BY DEF MergeUpdate, TypeOK, BookTypes, SubsTypes, PanicType, book, subs
<1>. QED  BY <1>3, <1>4, <1>5
          DEF TypeOK, BookTypes, JobTypes, MergeTypes, SubsTypes, PanicType

-----------------------------------------------------------------------------
LEMMA NextType == TypeOK /\ [Next]_vars => TypeOK'
<1>. SUFFICES ASSUME TypeOK, [Next]_vars PROVE TypeOK'
  OBVIOUS
<1>1. CASE Internal
  BY <1>1, DeleteType, InsertType, UpdateType, DispatchType, MergeInsertType,
     MergeUpdateType DEF Internal
<1>2. CASE \E d \in Streams : Subscribe(d)
  BY <1>2, SubscribeType
<1>3. CASE \E partial \in Book : FirstPartial(partial) \/ MergePartial(partial)
  BY <1>3, FirstPartialType, MergePartialType
<1>4. CASE \E act \in Action, n \in 1..MaxBatch : \E list \in [1..n -> Order] :
              ReceiveList(act, list)
  <2>1. PICK act \in Action, n \in 1..MaxBatch :
              \E list \in [1..n -> Order] : ReceiveList(act, list)
    BY <1>4
  <2>2. PICK list \in [1..n -> Order] : ReceiveList(act, list)
    BY <2>1
  <2>3. list \in Seq(Order)
    BY <2>2, MaxBatchAssumption
  <2>. QED  BY <2>2, <2>3, ReceiveListType
<1>5. CASE UNCHANGED vars
  BY <1>5 DEF vars, book, job, subs, TypeOK
<1>. QED  BY <1>1, <1>2, <1>3, <1>4, <1>5 DEF Next

(* Whatever lists and partials the cache is sent, in any order, its ladders *)
(* hold prices, its map levels, its subscribers' books levels, and what it  *)
(* is about to publish is a list of orders (applyData, handlePartial).      *)
THEOREM TypeCorrect == Spec => []TypeOK
  BY InitType, NextType, PTL DEF Spec

-----------------------------------------------------------------------------
(* Ladders.                                                                 *)

LEMMA PriceIsInt == \A p \in Price : p \in Int
  BY PriceAssumption

LEMMA LadderIsSorted ==
    ASSUME NEW list \in Seq(Price), NEW r \in BOOLEAN, Ladder(list, r)
    PROVE  SortedList(list, r)
<1>. SUFFICES ASSUME NEW i \in DOMAIN list, NEW j \in DOMAIN list, i < j
              PROVE  ~Before(list[j], list[i], r)
  BY DEF SortedList
<1>1. list[i] \in Int /\ list[j] \in Int
  BY PriceIsInt
<1>. QED  BY <1>1 DEF Ladder, Before

(* The prices before a price are a prefix of the list, so the rank is where *)
(* that prefix ends.                                                        *)
LEMMA RankIsBoundary ==
    ASSUME NEW list \in Seq(Price), NEW p \in Price, NEW r \in BOOLEAN,
           SortedList(list, r)
    PROVE  /\ Rank(list, p, r) \in 0..Len(list)
           /\ \A i \in 1..Len(list) : Before(list[i], p, r) <=> i <= Rank(list, p, r)
<1>. DEFINE S == {i \in DOMAIN list : Before(list[i], p, r)}
            c == Cardinality(S)
<1>1. S \subseteq 1..Len(list)
  OBVIOUS
<1>2. IsFiniteSet(S) /\ c \in Nat /\ c <= Len(list)
  <2>1. IsFiniteSet(1..Len(list)) /\ Cardinality(1..Len(list)) = Len(list)
    BY CardinalityUpTo
  <2>. QED  BY <1>1, <2>1, FS_Subset, FS_CardinalityType
<1>3. ASSUME NEW i \in S PROVE 1..i \subseteq S
  <2>1. i \in 1..Len(list) /\ list[i] \in Int /\ p \in Int
    BY <1>1, <1>3, PriceIsInt
  <2>. SUFFICES ASSUME NEW j \in 1..i PROVE j \in S
    OBVIOUS
  <2>2. j \in 1..Len(list) /\ list[j] \in Int
    <3>1. i \in Nat /\ i <= Len(list) /\ Len(list) \in Nat
      BY <2>1
    <3>2. j \in 1..Len(list)
      BY <3>1
    <3>3. list[j] \in Price
      BY <3>2
    <3>. QED  BY <3>2, <3>3, PriceIsInt
  <2>3. j < i => ~Before(list[i], list[j], r)
    BY <2>1, <2>2 DEF SortedList
  <2>4. Before(list[j], p, r)
    BY <1>3, <2>1, <2>2, <2>3 DEF Before
  <2>. QED  BY <2>2, <2>4
<1>4. S \subseteq 1..c
  <2>. SUFFICES ASSUME NEW i \in S PROVE i \in 1..c
    OBVIOUS
  <2>1. i \in 1..Len(list)
    BY <1>1
  <2>2. Cardinality(1..i) = i
    BY <2>1, CardinalityUpTo
  <2>3. Cardinality(1..i) <= c
    BY <1>2, <1>3, FS_Subset
  <2>. QED  BY <1>2, <2>1, <2>2, <2>3
<1>5. S = 1..c
  <2>1. IsFiniteSet(1..c) /\ Cardinality(1..c) = c
    BY <1>2, CardinalityUpTo
  <2>. QED  BY <1>4, <2>1, FS_Subset
<1>6. Rank(list, p, r) = c
  BY DEF Rank
<1>7. \A i \in 1..Len(list) : Before(list[i], p, r) <=> i \in S
  OBVIOUS
<1>. HIDE DEF S, c
<1>. QED  BY <1>2, <1>5, <1>6, <1>7

(* A price of the ladder is found at its place.                             *)
LEMMA SearchFinds ==
    ASSUME NEW list \in Seq(Price), NEW r \in BOOLEAN, Ladder(list, r),
           NEW j \in 1..Len(list)
    PROVE  UniPriceSearch(list, list[j], r) = j - 1
<1>1. \A i \in 1..Len(list) : list[i] \in Int
  BY PriceIsInt
<1>2. \A i \in 1..Len(list) : Before(list[i], list[j], r) <=> i < j
  BY <1>1 DEF Ladder, Before
<1>. DEFINE k == Rank(list, list[j], r)
<1>3. k \in 0..Len(list) /\ \A i \in 1..Len(list) : Before(list[i], list[j], r) <=> i <= k
  BY RankIsBoundary, LadderIsSorted
<1>. HIDE DEF k
<1>4. ~(j <= k)
  BY <1>2, <1>3
<1>5. k < j - 1 => j - 1 \in 1..Len(list) /\ j - 1 <= k
  BY <1>2, <1>3
<1>6. k = j - 1
  BY <1>3, <1>4, <1>5
<1>. QED  BY <1>6 DEF UniPriceSearch, k

LEMMA RemovedList ==
    ASSUME NEW list \in Seq(Price), NEW j \in 1..Len(list)
    PROVE  /\ RemoveAt(list, j) \in Seq(Price)
           /\ Len(RemoveAt(list, j)) = Len(list) - 1
           /\ \A i \in 1..(Len(list) - 1) :
                 RemoveAt(list, j)[i] = IF i < j THEN list[i] ELSE list[i + 1]
<1>. DEFINE a == SubSeq(list, 1, j - 1)
            b == SubSeq(list, j + 1, Len(list))
<1>1. a \in Seq(Price) /\ Len(a) = j - 1 /\ \A i \in 1..(j - 1) : a[i] = list[i]
  BY SubSeqProperties
<1>2. b \in Seq(Price) /\ Len(b) = Len(list) - j /\ \A i \in 1..(Len(list) - j) : b[i] = list[j + i]
  BY SubSeqProperties
<1>. HIDE DEF a, b
<1>3. /\ a \o b \in Seq(Price) /\ Len(a \o b) = Len(a) + Len(b)
      /\ \A i \in 1..(Len(a) + Len(b)) :
            (a \o b)[i] = IF i <= Len(a) THEN a[i] ELSE b[i - Len(a)]
  BY <1>1, <1>2, ConcatProperties
<1>4. RemoveAt(list, j) = a \o b
  BY DEF RemoveAt, a, b
<1>0. Len(list) \in Nat /\ j \in Nat
  OBVIOUS
<1>5. ASSUME NEW i \in 1..(Len(list) - 1)
      PROVE  (a \o b)[i] = IF i < j THEN list[i] ELSE list[i + 1]
  <2>1. CASE i < j
    BY <1>1, <1>2, <1>3, <2>1
  <2>2. CASE ~(i < j)
    <3>1. i - (j - 1) \in 1..(Len(list) - j) /\ j + (i - (j - 1)) = i + 1
      BY <2>2
    <3>2. (a \o b)[i] = b[i - (j - 1)]
      BY <1>1, <1>2, <1>3, <2>2
    <3>. QED  BY <1>2, <2>2, <3>1, <3>2
  <2>. QED  BY <2>1, <2>2
<1>6. Len(a \o b) = Len(list) - 1
  BY <1>0, <1>1, <1>2, <1>3
<1>. QED  BY <1>3, <1>4, <1>5, <1>6

LEMMA InsertedList ==
    ASSUME NEW list \in Seq(Price), NEW p \in Price, NEW k \in 0..Len(list)
    PROVE  /\ InsertAt(list, k + 1, p) \in Seq(Price)
           /\ Len(InsertAt(list, k + 1, p)) = Len(list) + 1
           /\ \A i \in 1..(Len(list) + 1) :
                 InsertAt(list, k + 1, p)[i] =
                   IF i <= k THEN list[i] ELSE IF i = k + 1 THEN p ELSE list[i - 1]
<1>. DEFINE a == SubSeq(list, 1, k)
            b == SubSeq(list, k + 1, Len(list))
            m == a \o <<p>>
<1>1. a \in Seq(Price) /\ Len(a) = k /\ \A i \in 1..k : a[i] = list[i]
  BY SubSeqProperties
<1>2. b \in Seq(Price) /\ Len(b) = Len(list) - k /\ \A i \in 1..(Len(list) - k) : b[i] = list[k + i]
  BY SubSeqProperties
<1>3. InsertAt(list, k + 1, p) = m \o b
  <2>1. (k + 1) - 1 = k
    OBVIOUS
  <2>2. InsertAt(list, k + 1, p) = SubSeq(list, 1, (k + 1) - 1) \o <<p>> \o b
    BY DEF InsertAt
  <2>. QED  BY <2>1, <2>2
<1>. HIDE DEF a, b
<1>4. /\ m \in Seq(Price) /\ Len(m) = k + 1
      /\ \A i \in 1..(k + 1) : m[i] = IF i <= k THEN list[i] ELSE p
  BY <1>1
<1>. HIDE DEF m
<1>5. /\ m \o b \in Seq(Price) /\ Len(m \o b) = Len(m) + Len(b)
      /\ \A i \in 1..(Len(m) + Len(b)) :
            (m \o b)[i] = IF i <= Len(m) THEN m[i] ELSE b[i - Len(m)]
  BY <1>2, <1>4, ConcatProperties
<1>0. Len(list) \in Nat /\ k \in Nat
  OBVIOUS
<1>6. ASSUME NEW i \in 1..(Len(list) + 1)
      PROVE  (m \o b)[i] = IF i <= k THEN list[i] ELSE IF i = k + 1 THEN p ELSE list[i - 1]
  <2>1. CASE i <= k + 1
    BY <1>2, <1>4, <1>5, <2>1
  <2>2. CASE ~(i <= k + 1)
    <3>1. i - (k + 1) \in 1..(Len(list) - k) /\ k + (i - (k + 1)) = i - 1
      BY <2>2
    <3>2. (m \o b)[i] = b[i - (k + 1)]
      BY <1>2, <1>4, <1>5, <2>2
    <3>. QED  BY <1>2, <2>2, <3>1, <3>2
  <2>. QED  BY <2>1, <2>2
<1>7. Len(m \o b) = Len(list) + 1
  BY <1>0, <1>2, <1>4, <1>5
<1>. QED  BY <1>3, <1>5, <1>6, <1>7

(* Removing a price of a ladder leaves the ladder of the others.            *)
LEMMA RemoveFinds ==
    ASSUME NEW list \in Seq(Price), NEW r \in BOOLEAN, Ladder(list, r),
           NEW j \in 1..Len(list),
           NEW removed, removed = UniPriceRemove(list, list[j], r)
    PROVE  /\ removed.idx = j - 1
           /\ removed.rtn \in Seq(Price) /\ Len(removed.rtn) = Len(list) - 1
           /\ Ladder(removed.rtn, r)
           /\ Range(removed.rtn) = Range(list) \ {list[j]}
           /\ j < Len(list) => removed.rtn # <<>> /\ Last(removed.rtn) = Last(list)
<1>. DEFINE new == RemoveAt(list, j)
<1>1. UniPriceSearch(list, list[j], r) = j - 1
  BY SearchFinds
<1>2. removed = [idx |-> j - 1, rtn |-> new]
  <2>1. j - 1 >= 0 /\ j - 1 + 1 = j
    OBVIOUS
  <2>. QED  BY <1>1, <2>1 DEF UniPriceRemove
<1>3. /\ new \in Seq(Price) /\ Len(new) = Len(list) - 1
      /\ \A i \in 1..(Len(list) - 1) : new[i] = IF i < j THEN list[i] ELSE list[i + 1]
  BY RemovedList
<1>. HIDE DEF new
<1>4. \A i \in 1..Len(list) : list[i] \in Int
  BY PriceIsInt
<1>0. Len(list) \in Nat /\ Len(new) \in Nat /\ DOMAIN new = 1..(Len(list) - 1)
      /\ DOMAIN list = 1..Len(list)
  BY <1>3
<1>5. Ladder(new, r)
  <2>. SUFFICES ASSUME NEW i \in 1..(Len(list) - 1), NEW m \in 1..(Len(list) - 1), i < m
                PROVE  Before(new[i], new[m], r)
    BY <1>0 DEF Ladder
  <2>. DEFINE at(n) == IF n < j THEN n ELSE n + 1
  <2>1. at(i) \in 1..Len(list) /\ at(m) \in 1..Len(list) /\ at(i) < at(m)
    BY <1>0
  <2>2. new[i] = list[at(i)] /\ new[m] = list[at(m)]
    BY <1>3
  <2>. HIDE DEF at
  <2>3. Before(list[at(i)], list[at(m)], r)
    BY <1>0, <2>1 DEF Ladder
  <2>. QED  BY <2>2, <2>3
<1>6. Range(new) = Range(list) \ {list[j]}
  <2>1. ASSUME NEW i \in 1..(Len(list) - 1) PROVE new[i] \in Range(list) \ {list[j]}
    <3>. DEFINE m == IF i < j THEN i ELSE i + 1
    <3>1. m \in 1..Len(list) /\ (m < j \/ j < m)
      BY <1>0
    <3>2. new[i] = list[m]
      BY <1>3
    <3>. HIDE DEF m
    <3>3. list[m] # list[j]
      <4>1. Before(list[m], list[j], r) \/ Before(list[j], list[m], r)
        BY <1>0, <3>1 DEF Ladder
      <4>2. list[m] \in Int /\ list[j] \in Int
        BY <1>4, <3>1
      <4>. QED  BY <4>1, <4>2 DEF Before
    <3>. QED  BY <1>0, <3>1, <3>2, <3>3 DEF Range
  <2>2. ASSUME NEW i \in 1..Len(list), list[i] # list[j] PROVE list[i] \in Range(new)
    <3>1. CASE i < j
      BY <1>3, <3>1 DEF Range
    <3>2. CASE i > j
      <4>1. i - 1 \in 1..(Len(list) - 1) /\ ~(i - 1 < j) /\ (i - 1) + 1 = i
        BY <3>2
      <4>2. new[i - 1] = list[i]
        BY <1>3, <4>1
      <4>. QED  BY <1>0, <4>1, <4>2 DEF Range
    <3>. QED  BY <2>2, <3>1, <3>2
  <2>. QED  BY <1>3, <2>1, <2>2 DEF Range
<1>7. j < Len(list) => new # <<>> /\ Last(new) = Last(list)
  BY <1>3 DEF Last
<1>. QED  BY <1>2, <1>3, <1>5, <1>6, <1>7

(* Adding a price that a ladder has not gives the ladder with it.           *)
LEMMA AddPlaces ==
    ASSUME NEW list \in Seq(Price), NEW p \in Price, NEW r \in BOOLEAN, Ladder(list, r),
           p \notin Range(list),
           NEW added, added = UniPriceAdd(list, p, r)
    PROVE  /\ added.idx \in 0..Len(list)
           /\ added.rtn \in Seq(Price) /\ Len(added.rtn) = Len(list) + 1
           /\ Ladder(added.rtn, r)
           /\ Range(added.rtn) = Range(list) \cup {p}
           /\ Last(added.rtn) = IF added.idx = Len(list) THEN p ELSE Last(list)
<1>. DEFINE k == Rank(list, p, r)
            new == InsertAt(list, k + 1, p)
<1>1. k \in 0..Len(list) /\ \A i \in 1..Len(list) : Before(list[i], p, r) <=> i <= k
  BY RankIsBoundary, LadderIsSorted
<1>2. added = [idx |-> k, rtn |-> new]
  BY AddFresh
<1>. HIDE DEF k
<1>3. /\ new \in Seq(Price) /\ Len(new) = Len(list) + 1
      /\ \A i \in 1..(Len(list) + 1) :
            new[i] = IF i <= k THEN list[i] ELSE IF i = k + 1 THEN p ELSE list[i - 1]
  BY <1>1, InsertedList
<1>. HIDE DEF new
<1>4. p \in Int /\ \A i \in 1..Len(list) : list[i] \in Int /\ list[i] # p
  BY PriceIsInt DEF Range
<1>5. \A i \in 1..Len(list) : i > k => Before(p, list[i], r)
  BY <1>1, <1>4 DEF Before
<1>6. Ladder(new, r)
  <2>. SUFFICES ASSUME NEW i \in 1..(Len(list) + 1), NEW j \in 1..(Len(list) + 1), i < j
                PROVE  Before(new[i], new[j], r)
    BY <1>3 DEF Ladder
  <2>1. CASE j <= k
    BY <1>1, <1>3, <2>1 DEF Ladder
  <2>2. CASE j = k + 1
    <3>1. i \in 1..Len(list) /\ i <= k /\ new[i] = list[i] /\ new[j] = p
      BY <1>1, <1>3, <2>2
    <3>. QED  BY <1>1, <3>1
  <2>3. CASE j > k + 1 /\ i = k + 1
    <3>1. j - 1 \in 1..Len(list) /\ j - 1 > k /\ new[i] = p /\ new[j] = list[j - 1]
      BY <1>1, <1>3, <2>3
    <3>. QED  BY <1>5, <3>1
  <2>4. CASE j > k + 1 /\ i <= k
    <3>1. new[i] = list[i] /\ new[j] = list[j - 1] /\ i < j - 1
          /\ i \in 1..Len(list) /\ j - 1 \in 1..Len(list)
      BY <1>1, <1>3, <2>4
    <3>. QED  BY <3>1 DEF Ladder
  <2>5. CASE i > k + 1
    <3>1. new[i] = list[i - 1] /\ new[j] = list[j - 1] /\ i - 1 < j - 1
          /\ i - 1 \in 1..Len(list) /\ j - 1 \in 1..Len(list)
      BY <1>1, <1>3, <2>5
    <3>. QED  BY <3>1 DEF Ladder
  <2>. QED  BY <1>1, <2>1, <2>2, <2>3, <2>4, <2>5
<1>7. Range(new) = Range(list) \cup {p}
  <2>1. ASSUME NEW i \in 1..(Len(list) + 1) PROVE new[i] \in Range(list) \cup {p}
    BY <1>1, <1>3 DEF Range
  <2>2. p \in Range(new)
    <3>1. k + 1 \in 1..(Len(list) + 1) /\ new[k + 1] = p
      BY <1>1, <1>3
    <3>. QED  BY <1>3, <3>1 DEF Range
  <2>3. ASSUME NEW i \in 1..Len(list) PROVE list[i] \in Range(new)
    <3>1. CASE i <= k
      <4>1. new[i] = list[i] /\ i \in DOMAIN new
        BY <1>3, <3>1
      <4>. QED  BY <4>1 DEF Range
    <3>2. CASE i > k
      <4>1. i + 1 \in 1..(Len(list) + 1) /\ ~(i + 1 <= k) /\ i + 1 # k + 1 /\ (i + 1) - 1 = i
        BY <1>1, <3>2
      <4>2. new[i + 1] = list[i] /\ i + 1 \in DOMAIN new
        BY <1>3, <4>1
      <4>. QED  BY <4>2 DEF Range
    <3>. QED  BY <1>1, <3>1, <3>2
  <2>4. DOMAIN new = 1..(Len(list) + 1) /\ DOMAIN list = 1..Len(list)
    BY <1>3
  <2>5. Range(new) \subseteq Range(list) \cup {p}
    BY <2>1, <2>4 DEF Range
  <2>6. Range(list) \subseteq Range(new)
    BY <2>3, <2>4 DEF Range
  <2>. QED  BY <2>2, <2>5, <2>6
<1>8. Last(new) = IF k = Len(list) THEN p ELSE Last(list)
  <2>1. Last(new) = new[Len(list) + 1]
    BY <1>3 DEF Last
  <2>2. k # Len(list) => /\ Len(list) + 1 - 1 = Len(list)
                         /\ ~(Len(list) + 1 <= k) /\ Len(list) + 1 # k + 1
    BY <1>1
  <2>. QED  BY <1>1, <1>3, <2>1, <2>2 DEF Last
<1>. QED  BY <1>1, <1>2, <1>3, <1>6, <1>7, <1>8

-----------------------------------------------------------------------------
(* Lists.                                                                   *)

(* A list of the elements of a finite set has each of them, once.           *)
LEMMA OrderingCovers ==
    ASSUME NEW S, IsFiniteSet(S),
           NEW list \in [1..Cardinality(S) -> S],
           \A i, j \in DOMAIN list : i # j => list[i] # list[j]
    PROVE  \A x \in S : \E i \in DOMAIN list : list[i] = x
<1>. DEFINE n == Cardinality(S)
<1>1. n \in Nat
  BY FS_CardinalityType
<1>2. Cardinality(1..n) = n
  BY <1>1, CardinalityUpTo
<1>3. list \in Injection(1..n, S)
  BY DEF Injection, IsInjective
<1>. HIDE DEF n
<1>4. list \in Surjection(1..n, S)
  BY <1>2, <1>3, FS_Injection DEF n
<1>. QED  BY <1>4 DEF Surjection

LEMMA PriceOrderIsOrder ==
    ASSUME NEW S, \A o \in S : o.price \in Int, IsFiniteSet(S)
    PROVE  PriceOrder(S) \subseteq AnyOrder(S)
<1>. SUFFICES ASSUME NEW f \in PriceOrder(S),
                     NEW i \in DOMAIN f, NEW j \in DOMAIN f, i # j, f[i] = f[j]
              PROVE  FALSE
  BY DEF PriceOrder, AnyOrder
<1>1. Cardinality(S) \in Nat
  BY FS_CardinalityType
<1>2. i \in Int /\ j \in Int /\ f[i].price \in Int
  BY <1>1 DEF PriceOrder
<1>3. i < j \/ j < i
  BY <1>2
<1>4. \A k, m \in DOMAIN f : k < m => f[k].price > f[m].price
  BY DEF PriceOrder
<1>5. f[i].price > f[i].price
  BY <1>3, <1>4
<1>. QED  BY <1>2, <1>5

-----------------------------------------------------------------------------
(* What an order does to a book: the level it is about (Fits), and what its *)
(* price has afterwards (Gives).  A list leads from a book b to a book c    *)
(* when its orders are about different levels of b and make it c.           *)
Fits(act, ord, b) ==
    IF act = "insert" THEN b[ord.price] = NoLevel ELSE b[ord.price].side = ord.side
Gives(act, ord) == IF act = "delete" THEN NoLevel ELSE LevelOf(ord)

Leads(act, list, b, c) ==
    /\ \A i, j \in DOMAIN list : i # j => list[i].price # list[j].price
    /\ \A i \in DOMAIN list :
          Fits(act, list[i], b) /\ c[list[i].price] = Gives(act, list[i])
    /\ \A p \in Price : (\A i \in DOMAIN list : list[i].price # p) => c[p] = b[p]

LEMMA LevelIsSide ==
    ASSUME NEW b \in Book, NEW p \in Price
    PROVE  /\ b[p].side \in Side <=> b[p] # NoLevel
           /\ b[p] # NoLevel => b[p] = [side |-> b[p].side, size |-> b[p].size]
<1>1. b[p] \in Level \/ b[p] = NoLevel
  BY DEF Book
<1>. QED  BY <1>1 DEF Level, NoLevel, Side

LEMMA BookEquality ==
    ASSUME NEW b \in Book, NEW c \in Book, \A p \in Price : b[p] = c[p]
    PROVE  b = c
  BY DEF Book

LEMMA LeadsNowhere ==
    ASSUME NEW b \in Book, NEW c \in Book, NEW act, Leads(act, <<>>, b, c)
    PROVE  b = c
  BY BookEquality DEF Leads

LEMMA LeadsOn ==
    ASSUME NEW b \in Book, NEW c \in Book, NEW act, NEW list \in Seq(Order), list # <<>>,
           Leads(act, list, b, c),
           NEW d \in Book, d = [b EXCEPT ![Head(list).price] = Gives(act, Head(list))]
    PROVE  Fits(act, Head(list), b) /\ Leads(act, Tail(list), d, c)
<1>. DEFINE n == Len(list)
            rest == Tail(list)
<1>1. n \in Nat /\ n > 0 /\ DOMAIN list = 1..n /\ Head(list) = list[1]
  OBVIOUS
<1>2. /\ DOMAIN rest = 1..(n - 1)
      /\ \A i \in 1..(n - 1) : rest[i] = list[i + 1] /\ i + 1 \in 1..n /\ i + 1 # 1
  BY <1>1
<1>3. \A i \in 1..n : list[i].price \in Price
  <2>1. \A i \in 1..n : list[i] \in Order
    OBVIOUS
  <2>. QED  BY <2>1 DEF Order
<1>. HIDE DEF n, rest
<1>4. \A i, j \in DOMAIN rest : i # j => rest[i].price # rest[j].price
  <2>. SUFFICES ASSUME NEW i \in 1..(n - 1), NEW j \in 1..(n - 1), i # j
                PROVE  rest[i].price # rest[j].price
    BY <1>2
  <2>1. i + 1 # j + 1
    BY <1>1
  <2>. QED  BY <1>1, <1>2, <2>1 DEF Leads
<1>5. ASSUME NEW i \in DOMAIN rest
      PROVE  Fits(act, rest[i], d) /\ c[rest[i].price] = Gives(act, rest[i])
  <2>1. /\ rest[i] = list[i + 1] /\ i + 1 \in DOMAIN list /\ 1 \in DOMAIN list
        /\ rest[i].price # Head(list).price /\ rest[i].price \in Price
    BY <1>1, <1>2, <1>3 DEF Leads
  <2>2. d[rest[i].price] = b[rest[i].price]
    BY <2>1 DEF Book
  <2>. QED  BY <2>1, <2>2 DEF Leads, Fits
<1>6. ASSUME NEW p \in Price, \A i \in DOMAIN rest : rest[i].price # p PROVE c[p] = d[p]
  <2>1. CASE p = Head(list).price
    BY <1>1, <2>1 DEF Leads, Book
  <2>2. CASE p # Head(list).price
    <3>1. ASSUME NEW i \in 1..n PROVE list[i].price # p
      <4>1. CASE i = 1
        BY <1>1, <2>2, <4>1
      <4>2. CASE i # 1
        <5>1. i - 1 \in 1..(n - 1) /\ (i - 1) + 1 = i
          BY <1>1, <4>2
        <5>. QED  BY <1>2, <1>6, <5>1
      <4>. QED  BY <4>1, <4>2
    <3>2. c[p] = b[p]
      BY <1>1, <3>1 DEF Leads
    <3>. QED  BY <2>2, <3>2 DEF Book
  <2>. QED  BY <2>1, <2>2
<1>7. Fits(act, Head(list), b)
  BY <1>1 DEF Leads
<1>. QED  BY <1>4, <1>5, <1>6, <1>7 DEF Leads, rest

(* A subscriber that applies a list that leads to c has c.                  *)
LEMMA ApplyLeads ==
    ASSUME NEW b \in Book, NEW c \in Book, NEW act \in Action, NEW list \in Seq(Order),
           Leads(act, list, b, c)
    PROVE  Apply(b, act, list) = c
<1>1. Apply(b, act, list) \in Book
  BY ApplyType
<1>. SUFFICES ASSUME NEW p \in Price PROVE Apply(b, act, list)[p] = c[p]
  BY <1>1, BookEquality
<1>. DEFINE mine == {i \in DOMAIN list : list[i].price = p}
            at == CHOOSE i \in mine : TRUE
<1>2. Apply(b, act, list)[p] =
        CASE mine = {} -> b[p]
          [] mine # {} /\ act = "delete" -> NoLevel
          [] mine # {} /\ act = "update" /\ b[p] = NoLevel -> NoLevel
          [] OTHER -> LevelOf(list[at])
  BY DEF Apply
<1>3. CASE mine = {}
  BY <1>2, <1>3 DEF Leads
<1>4. CASE mine # {}
  <2>1. at \in DOMAIN list /\ list[at].price = p
    BY <1>4
  <2>2. list[at].side \in Side
    <3>1. list[at] \in Order
      BY <2>1
    <3>. QED  BY <3>1 DEF Order
  <2>. HIDE DEF at, mine
  <2>3. c[p] = Gives(act, list[at]) /\ Fits(act, list[at], b)
    BY <2>1 DEF Leads
  <2>4. act = "update" => b[p] # NoLevel
    BY <2>1, <2>2, <2>3, LevelIsSide DEF Fits
  <2>5. act = "delete" => c[p] = NoLevel
    BY <2>3 DEF Gives
  <2>6. act # "delete" => c[p] = LevelOf(list[at])
    BY <2>3 DEF Gives
  <2>. QED  BY <1>2, <1>4, <2>4, <2>5, <2>6
<1>. QED  BY <1>3, <1>4

(* A list of the orders of `src` at the prices T leads from b to c if each  *)
(* of them does so at its price and the books agree elsewhere.              *)
LEMMA ListLeads ==
    ASSUME NEW b \in Book, NEW c \in Book, NEW src, NEW act, NEW T \in SUBSET Price,
           NEW list \in AnyOrder({OrderAt(src, p) : p \in T}),
           \A p \in T : /\ Fits(act, OrderAt(src, p), b)
                        /\ c[p] = Gives(act, OrderAt(src, p)),
           \A p \in Price \ T : c[p] = b[p]
    PROVE  Leads(act, list, b, c)
<1>. DEFINE S == {OrderAt(src, p) : p \in T}
<1>1. IsFiniteSet(S)
  BY OrdersFinite
<1>2. \A i \in DOMAIN list : \E p \in T : list[i] = OrderAt(src, p)
  BY DEF AnyOrder
<1>3. \A p \in T : \E i \in DOMAIN list : list[i] = OrderAt(src, p)
  <2>1. /\ list \in [1..Cardinality(S) -> S]
        /\ \A i, j \in DOMAIN list : i # j => list[i] # list[j]
    BY DEF AnyOrder
  <2>2. \A x \in S : \E i \in DOMAIN list : list[i] = x
    <3>. HIDE DEF S
    <3>. QED  BY ONLY <1>1, <2>1, OrderingCovers
  <2>. QED  BY <2>2
<1>4. \A i, j \in DOMAIN list : i # j => list[i] # list[j]
  BY DEF AnyOrder
<1>5. \A p \in T : OrderAt(src, p).price = p
  BY DEF OrderAt
<1>. HIDE DEF S
<1>6. \A i, j \in DOMAIN list : i # j => list[i].price # list[j].price
  BY <1>2, <1>4, <1>5
<1>7. \A i \in DOMAIN list :
          Fits(act, list[i], b) /\ c[list[i].price] = Gives(act, list[i])
  BY <1>2, <1>5
<1>8. \A p \in Price : (\A i \in DOMAIN list : list[i].price # p) => c[p] = b[p]
  BY <1>3, <1>5
<1>. QED  BY <1>6, <1>7, <1>8 DEF Leads

-----------------------------------------------------------------------------
(* The ladders, the map and the quotes, and what one order does to them.    *)

Sides ==
    \A s \in Side : /\ Ladder(prices[s], Descending(s))
                    /\ Range(prices[s]) = PricesOf(l2Cache, s)

Quotes ==
    IF inited THEN \A s \in Side : /\ prices[s] # <<>>
                                   /\ quote[s] = BestOf(prices[s], l2Cache)
              ELSE Levels(l2Cache) = {}

(* The order has been applied and collected.                                *)
Applied(act, ord) ==
    /\ l2Cache' = [l2Cache EXCEPT ![ord.price] = Gives(act, ord)]
    /\ todo' = Tail(todo)
    /\ UNCHANGED <<inited, pc, action, data, merge, joined, view, panicked>>

LEMMA LadderPlace ==
    ASSUME TypeOK, Sides, NEW s \in Side, NEW p \in Price, l2Cache[p].side = s
    PROVE  /\ l2Cache[p] # NoLevel
           /\ Len(prices[s]) \in Nat
           /\ \E j \in 1..Len(prices[s]) : prices[s][j] = p
<1>1. p \in Range(prices[s])
  BY DEF Sides, PricesOf
<1>2. prices[s] \in Seq(Price)
  BY DEF TypeOK
<1>. QED  BY <1>1, <1>2 DEF Range, NoLevel, Side

LEMMA LastOnLadder ==
    ASSUME TypeOK, Sides, NEW s \in Side, prices[s] # <<>>
    PROVE  Last(prices[s]) \in Price /\ l2Cache[Last(prices[s])].side = s
<1>1. prices[s] \in Seq(Price)
  BY DEF TypeOK
<1>2. Last(prices[s]) \in Range(prices[s])
  BY <1>1 DEF Last, Range
<1>. QED  BY <1>2 DEF Sides, PricesOf

LEMMA DeleteKeeps ==
    ASSUME TypeOK, Sides, Quotes, inited, handleDelete, Fits("delete", Head(todo), l2Cache)
    PROVE  \/ /\ Panic("emptySide")
              /\ PricesOf(l2Cache, Head(todo).side) = {Head(todo).price}
           \/ Sides' /\ Quotes' /\ Applied("delete", Head(todo))
<1>. DEFINE ord == Head(todo)
            list == prices[ord.side]
            removed == UniPriceRemove(list, ord.price, Descending(ord.side))
            depth == Len(list) - removed.idx
<1>1. todo # <<>> /\ ord \in Order
  BY DEF handleDelete, Applying, TypeOK
<1>2. /\ ord.side \in Side /\ ord.price \in Price /\ list \in Seq(Price)
      /\ l2Cache[ord.price].side = ord.side
  BY <1>1 DEF Order, TypeOK, Fits
<1>3. l2Cache[ord.price] # NoLevel /\ Len(list) \in Nat
      /\ \E j \in 1..Len(list) : list[j] = ord.price
  BY <1>2, LadderPlace
<1>4. PICK j \in 1..Len(list) : list[j] = ord.price
  BY <1>3
<1>5. Ladder(list, Descending(ord.side)) /\ Range(list) = PricesOf(l2Cache, ord.side)
  BY <1>2 DEF Sides
<1>6. /\ removed.idx = j - 1
      /\ removed.rtn \in Seq(Price) /\ Len(removed.rtn) = Len(list) - 1
      /\ Ladder(removed.rtn, Descending(ord.side))
      /\ Range(removed.rtn) = Range(list) \ {ord.price}
      /\ j < Len(list) => removed.rtn # <<>> /\ Last(removed.rtn) = Last(list)
  <2>1. Descending(ord.side) \in BOOLEAN
    BY DEF Descending
  <2>2. removed = UniPriceRemove(list, list[j], Descending(ord.side))
    BY <1>4
  <2>3. list \in Seq(Price) /\ Ladder(list, Descending(ord.side))
    BY <1>2, <1>5
  <2>. HIDE DEF removed, list, ord, depth
  <2>4. /\ removed.idx = j - 1
        /\ removed.rtn \in Seq(Price) /\ Len(removed.rtn) = Len(list) - 1
        /\ Ladder(removed.rtn, Descending(ord.side))
        /\ Range(removed.rtn) = Range(list) \ {list[j]}
        /\ j < Len(list) => removed.rtn # <<>> /\ Last(removed.rtn) = Last(list)
    BY ONLY <1>4, <2>1, <2>2, <2>3, RemoveFinds, SMTT(30)
  <2>. QED  BY <1>4, <2>4
<1>7. depth = Len(list) - j + 1
  BY <1>3, <1>6
<1>. HIDE DEF removed, depth
<1>8. depth = 1 <=> j = Len(list)
  BY <1>3, <1>7
<1>9. CASE Panic("emptySide") /\ removed.rtn = <<>>
  <2>1. Range(removed.rtn) = {}
    BY <1>9 DEF Range
  <2>2. ord.price \in Range(list)
    BY <1>2, <1>5 DEF PricesOf
  <2>. QED  BY <1>5, <1>6, <1>9, <2>1, <2>2
<1>10. ASSUME removed.rtn # <<>>
       PROVE  /\ Last(removed.rtn) \in Range(list) \ {ord.price}
              /\ l2Cache[Last(removed.rtn)] # NoLevel
  <2>1. Last(removed.rtn) \in Range(removed.rtn)
    BY <1>6, <1>10 DEF Last, Range
  <2>2. l2Cache[Last(removed.rtn)].side \in Side
    BY <1>2, <1>5, <1>6, <2>1 DEF PricesOf
  <2>. QED  BY <1>6, <2>1, <2>2 DEF NoLevel, Side
<1>11. CASE /\ depth = 1 => removed.rtn # <<>> /\ l2Cache[Last(removed.rtn)] # NoLevel
            /\ prices' = [prices EXCEPT ![ord.side] = removed.rtn]
            /\ quote' = IF depth = 1
                          THEN [quote EXCEPT ![ord.side] = BestOf(removed.rtn, l2Cache)]
                          ELSE quote
            /\ l2Cache' = [l2Cache EXCEPT ![ord.price] = NoLevel]
            /\ UNCHANGED inited
            /\ IF removed.idx < 0 THEN Abort ELSE Collect(ord, depth, Limit)
  <2>1. Collect(ord, depth, Limit)
    BY <1>6, <1>11
  <2>2. Applied("delete", ord)
    BY <1>11, <2>1 DEF Applied, Collect, Gives, subs
  <2>3. \A q \in Price : l2Cache'[q] = IF q = ord.price THEN NoLevel ELSE l2Cache[q]
    BY <1>2, <1>11 DEF TypeOK, Book
  <2>4. \A s \in Side : prices'[s] = IF s = ord.side THEN removed.rtn ELSE prices[s]
    BY <1>2, <1>11 DEF TypeOK
  <2>5. ASSUME NEW s \in Side PROVE PricesOf(l2Cache', s) = PricesOf(l2Cache, s) \ {ord.price}
    BY <2>3, <2>5 DEF PricesOf, NoLevel, Side
  <2>6. \A s \in Side : s # ord.side => ord.price \notin PricesOf(l2Cache, s)
    BY <1>2 DEF PricesOf
  <2>7. Sides'
    <3>. SUFFICES ASSUME NEW s \in Side
                  PROVE  /\ Ladder(prices'[s], Descending(s))
                         /\ Range(prices'[s]) = PricesOf(l2Cache', s)
      BY DEF Sides
    <3>1. CASE s = ord.side
      BY <1>5, <1>6, <2>4, <2>5, <3>1
    <3>2. CASE s # ord.side
      BY <2>4, <2>5, <2>6, <3>2 DEF Sides
    <3>. QED  BY <3>1, <3>2
  <2>8. removed.rtn # <<>>
    BY <1>6, <1>8, <1>11
  <2>9. ASSUME NEW s \in Side, s # ord.side
        PROVE  BestOf(prices[s], l2Cache') = BestOf(prices[s], l2Cache)
    <3>1. Last(prices[s]) \in Price /\ l2Cache[Last(prices[s])].side = s
      BY LastOnLadder DEF Quotes
    <3>2. Last(prices[s]) # ord.price
      BY <1>2, <2>9, <3>1
    <3>. QED  BY <2>3, <3>1, <3>2 DEF BestOf
  <2>10. BestOf(removed.rtn, l2Cache') = BestOf(removed.rtn, l2Cache)
    <3>1. Last(removed.rtn) \in Price /\ Last(removed.rtn) # ord.price
      BY <1>5, <1>10, <2>8 DEF PricesOf
    <3>. QED  BY <2>3, <3>1 DEF BestOf
  <2>11. quote'[ord.side] = BestOf(removed.rtn, l2Cache)
    <3>1. CASE depth = 1
      BY <1>2, <1>11, <3>1 DEF TypeOK
    <3>2. CASE depth # 1
      <4>1. j < Len(list)
        BY <1>3, <1>8, <3>2
      <4>2. quote[ord.side] = BestOf(list, l2Cache)
        BY <1>2 DEF Quotes
      <4>. QED  BY <1>6, <1>11, <3>2, <4>1, <4>2 DEF BestOf
    <3>. QED  BY <3>1, <3>2
  <2>12. \A s \in Side : s # ord.side => quote'[s] = quote[s]
    BY <1>2, <1>11 DEF TypeOK
  <2>13. Quotes'
    <3>. SUFFICES ASSUME NEW s \in Side
                  PROVE  prices'[s] # <<>> /\ quote'[s] = BestOf(prices'[s], l2Cache')
      BY <1>11 DEF Quotes
    <3>1. CASE s = ord.side
      BY <2>4, <2>8, <2>10, <2>11, <3>1
    <3>2. CASE s # ord.side
      BY <2>4, <2>9, <2>12, <3>2 DEF Quotes
    <3>. QED  BY <3>1, <3>2
  <2>. QED  BY <2>2, <2>7, <2>13
<1>. QED  BY <1>3, <1>9, <1>10, <1>11 DEF handleDelete, removed, depth

LEMMA InsertKeeps ==
    ASSUME TypeOK, Sides, Quotes, inited, handleInsert, Fits("insert", Head(todo), l2Cache)
    PROVE  Sides' /\ Quotes' /\ Applied("insert", Head(todo))
<1>. DEFINE ord == Head(todo)
            list == prices[ord.side]
            added == UniPriceAdd(list, ord.price, Descending(ord.side))
            depth == Len(added.rtn) - added.idx
<1>1. todo # <<>> /\ ord \in Order
  BY DEF handleInsert, Applying, TypeOK
<1>2. /\ ord.side \in Side /\ ord.price \in Price /\ list \in Seq(Price)
      /\ l2Cache[ord.price] = NoLevel
  BY <1>1 DEF Order, TypeOK, Fits
<1>3. /\ Ladder(list, Descending(ord.side)) /\ Range(list) = PricesOf(l2Cache, ord.side)
      /\ Descending(ord.side) \in BOOLEAN /\ Len(list) \in Nat
  BY <1>2 DEF Sides, Descending
<1>4. \A s \in Side : ord.price \notin PricesOf(l2Cache, s)
  BY <1>2 DEF PricesOf, NoLevel, Side
<1>5. /\ added.idx \in 0..Len(list)
      /\ added.rtn \in Seq(Price) /\ Len(added.rtn) = Len(list) + 1
      /\ Ladder(added.rtn, Descending(ord.side))
      /\ Range(added.rtn) = Range(list) \cup {ord.price}
      /\ Last(added.rtn) = IF added.idx = Len(list) THEN ord.price ELSE Last(list)
  <2>1. ord.price \notin Range(list)
    BY <1>2, <1>3, <1>4
  <2>2. added = UniPriceAdd(list, ord.price, Descending(ord.side))
    OBVIOUS
  <2>. HIDE DEF added, list, ord, depth
  <2>. QED  BY ONLY <1>2, <1>3, <2>1, <2>2, AddPlaces, SMTT(30)
<1>6. depth = 1 <=> added.idx = Len(list)
  <2>. HIDE DEF added, list
  <2>. QED  BY <1>3, <1>5
<1>. HIDE DEF added, depth
<1>7. /\ prices' = [prices EXCEPT ![ord.side] = added.rtn]
      /\ quote' = IF depth = 1
                    THEN [quote EXCEPT ![ord.side] =
                             [price |-> ord.price, size |-> ord.size]]
                    ELSE quote
      /\ l2Cache' = [l2Cache EXCEPT ![ord.price] = LevelOf(ord)]
      /\ UNCHANGED inited
      /\ Collect(ord, depth, Limit + 1)
  BY <1>2 DEF handleInsert, added, depth
<1>8. Applied("insert", ord)
  BY <1>7 DEF Applied, Collect, Gives, subs
<1>9. \A q \in Price : l2Cache'[q] = IF q = ord.price THEN LevelOf(ord) ELSE l2Cache[q]
  BY <1>2, <1>7 DEF TypeOK, Book
<1>10. \A s \in Side : prices'[s] = IF s = ord.side THEN added.rtn ELSE prices[s]
  BY <1>2, <1>7 DEF TypeOK
<1>11. LevelOf(ord).side = ord.side /\ LevelOf(ord).size = ord.size
  BY DEF LevelOf
<1>12. ASSUME NEW s \in Side
       PROVE  PricesOf(l2Cache', s) =
                IF s = ord.side THEN PricesOf(l2Cache, s) \cup {ord.price}
                                ELSE PricesOf(l2Cache, s)
  BY <1>2, <1>4, <1>9, <1>11 DEF PricesOf
<1>13. Sides'
  <2>. SUFFICES ASSUME NEW s \in Side
                PROVE  /\ Ladder(prices'[s], Descending(s))
                       /\ Range(prices'[s]) = PricesOf(l2Cache', s)
    BY DEF Sides
  <2>1. CASE s = ord.side
    BY <1>3, <1>5, <1>10, <1>12, <2>1
  <2>2. CASE s # ord.side
    BY <1>10, <1>12, <2>2 DEF Sides
  <2>. QED  BY <2>1, <2>2
<1>14. ASSUME NEW s \in Side
       PROVE  BestOf(prices[s], l2Cache') = BestOf(prices[s], l2Cache)
  <2>1. Last(prices[s]) \in Price /\ l2Cache[Last(prices[s])].side = s
    BY LastOnLadder DEF Quotes
  <2>2. Last(prices[s]) # ord.price
    BY <1>2, <2>1 DEF NoLevel, Side
  <2>. QED  BY <1>9, <2>1, <2>2 DEF BestOf
<1>15. added.rtn # <<>>
  BY <1>3, <1>5
<1>16. quote'[ord.side] = BestOf(added.rtn, l2Cache')
  <2>1. CASE depth = 1
    <3>1. Last(added.rtn) = ord.price
      BY <1>5, <1>6, <2>1
    <3>2. quote'[ord.side] = [price |-> ord.price, size |-> ord.size]
      BY <1>2, <1>7, <2>1 DEF TypeOK
    <3>. QED  BY <1>2, <1>9, <1>11, <3>1, <3>2 DEF BestOf
  <2>2. CASE depth # 1
    <3>1. Last(added.rtn) = Last(list)
      BY <1>5, <1>6, <2>2
    <3>2. quote'[ord.side] = BestOf(list, l2Cache)
      BY <1>2, <1>7, <2>2 DEF Quotes
    <3>. QED  BY <1>2, <1>14, <3>1, <3>2 DEF BestOf
  <2>. QED  BY <2>1, <2>2
<1>17. \A s \in Side : s # ord.side => quote'[s] = quote[s]
  BY <1>2, <1>7 DEF TypeOK
<1>18. Quotes'
  <2>. SUFFICES ASSUME NEW s \in Side
                PROVE  prices'[s] # <<>> /\ quote'[s] = BestOf(prices'[s], l2Cache')
    BY <1>7 DEF Quotes
  <2>1. CASE s = ord.side
    BY <1>10, <1>15, <1>16, <2>1
  <2>2. CASE s # ord.side
    BY <1>10, <1>14, <1>17, <2>2 DEF Quotes
  <2>. QED  BY <2>1, <2>2
<1>. QED  BY <1>8, <1>13, <1>18

LEMMA UpdateKeeps ==
    ASSUME TypeOK, Sides, Quotes, inited, handleUpdate, Fits("update", Head(todo), l2Cache)
    PROVE  Sides' /\ Quotes' /\ Applied("update", Head(todo))
<1>. DEFINE ord == Head(todo)
            list == prices[ord.side]
            idx == UniPriceSearch(list, ord.price, Descending(ord.side))
            depth == Len(list) - idx
<1>1. todo # <<>> /\ ord \in Order
  BY DEF handleUpdate, Applying, TypeOK
<1>2. /\ ord.side \in Side /\ ord.price \in Price /\ ord.size \in Size
      /\ list \in Seq(Price) /\ l2Cache[ord.price].side = ord.side
  BY <1>1 DEF Order, TypeOK, Fits
<1>3. l2Cache[ord.price] # NoLevel /\ Len(list) \in Nat
      /\ \E j \in 1..Len(list) : list[j] = ord.price
  BY <1>2, LadderPlace
<1>4. PICK j \in 1..Len(list) : list[j] = ord.price
  BY <1>3
<1>5. Ladder(list, Descending(ord.side)) /\ Descending(ord.side) \in BOOLEAN
  BY <1>2 DEF Sides, Descending
<1>6. idx = j - 1
  <2>1. idx = UniPriceSearch(list, list[j], Descending(ord.side))
    BY <1>4
  <2>. HIDE DEF idx, list, ord, depth
  <2>. QED  BY ONLY <1>2, <1>4, <1>5, <2>1, SearchFinds
<1>7. depth = 1 <=> j = Len(list)
  <2>. HIDE DEF idx, list
  <2>. QED  BY <1>3, <1>6
<1>8. ~(idx < 0)
  BY <1>6
<1>. HIDE DEF idx, depth
<1>9. /\ quote' = IF depth = 1
                    THEN [quote EXCEPT ![ord.side].size = ord.size]
                    ELSE quote
      /\ UNCHANGED <<prices, inited>>
      /\ l2Cache' = [l2Cache EXCEPT ![ord.price].size = ord.size]
      /\ Collect(ord, depth, Limit)
  BY <1>3, <1>8 DEF handleUpdate, idx, depth
<1>10. [l2Cache[ord.price] EXCEPT !.size = ord.size] = LevelOf(ord)
  <2>1. l2Cache[ord.price] = [side |-> ord.side, size |-> l2Cache[ord.price].size]
    BY <1>2, <1>3, LevelIsSide DEF TypeOK
  <2>. QED  BY <2>1 DEF LevelOf
<1>11. l2Cache' = [l2Cache EXCEPT ![ord.price] = LevelOf(ord)]
  BY <1>9, <1>10
<1>12. Applied("update", ord)
  BY <1>9, <1>11 DEF Applied, Collect, Gives, subs
<1>13. \A q \in Price : l2Cache'[q] = IF q = ord.price THEN LevelOf(ord) ELSE l2Cache[q]
  BY <1>2, <1>11 DEF TypeOK, Book
<1>14. LevelOf(ord).side = ord.side /\ LevelOf(ord).size = ord.size
  BY DEF LevelOf
<1>15. \A s \in Side : PricesOf(l2Cache', s) = PricesOf(l2Cache, s)
  BY <1>2, <1>13, <1>14 DEF PricesOf
<1>16. Sides'
  BY <1>9, <1>15 DEF Sides
<1>17. Quotes'
  <2>. SUFFICES ASSUME NEW s \in Side
                PROVE  quote'[s] = BestOf(prices[s], l2Cache')
    BY <1>9 DEF Quotes
  <2>1. Last(prices[s]) \in Price /\ l2Cache[Last(prices[s])].side = s
    BY LastOnLadder DEF Quotes
  <2>2. quote[s] = BestOf(prices[s], l2Cache)
    BY DEF Quotes
  <2>3. CASE s = ord.side /\ depth = 1
    <3>1. Last(prices[s]) = ord.price
      BY <1>4, <1>7, <2>3 DEF Last
    <3>2. quote'[s] = [quote[s] EXCEPT !.size = ord.size]
      BY <1>2, <1>9, <2>3 DEF TypeOK
    <3>3. quote'[s] = [price |-> ord.price, size |-> ord.size]
      BY <2>2, <3>1, <3>2 DEF BestOf
    <3>. QED  BY <1>2, <1>13, <1>14, <3>1, <3>3 DEF BestOf
  <2>4. CASE ~(s = ord.side /\ depth = 1)
    <3>1. quote'[s] = quote[s]
      BY <1>2, <1>9, <2>4 DEF TypeOK
    <3>2. Last(prices[s]) # ord.price
      <4>1. CASE s # ord.side
        BY <1>2, <2>1, <4>1
      <4>2. CASE s = ord.side
        <5>1. j < Len(list) /\ Last(list) = list[Len(list)] /\ Len(list) \in DOMAIN list
          BY <1>2, <1>3, <1>7, <2>4, <4>2 DEF Last
        <5>2. Before(list[j], list[Len(list)], Descending(ord.side))
          BY <1>2, <1>5, <5>1 DEF Ladder
        <5>3. list[j] \in Int
          BY <1>2, <1>4, PriceIsInt
        <5>. QED  BY <1>4, <4>2, <5>1, <5>2, <5>3 DEF Before
      <4>. QED  BY <4>1, <4>2
    <3>. QED  BY <1>13, <2>1, <2>2, <3>1, <3>2 DEF BestOf
  <2>. QED  BY <2>3, <2>4
<1>. QED  BY <1>12, <1>16, <1>17

-----------------------------------------------------------------------------
(* The inductive invariant.  Target says what book the list being applied   *)
(* makes: the upstream's, or while a partial is merged the book between two *)
(* of its lists: what the old book and the partial have on the same side,   *)
(* then the partial's prices with the old sizes of those still to update.   *)

(* What c still lacks of the upstream's book is in the merge's updates.     *)
ToUpdate(c) ==
    /\ \A p \in Price : c[p] = exch[p] \/ OrderAt(exch, p) \in merge.updates
    /\ \A o \in merge.updates : \E p \in Levels(exch) :
          o = OrderAt(exch, p) /\ c[p].side = exch[p].side

Target(c) ==
    /\ merge.phase = "none" => c = exch
    /\ merge.phase = "delete" =>
          \A p \in Price, s \in Side :
             c[p].side = s <=> p \in merge.origin[s] /\ exch[p].side = s
    /\ merge.phase = "insert" => ToUpdate(c)

Flow ==
    /\ pc = "idle" => merge.phase = "none"
    /\ pc = "merge" => merge.phase # "none"
    /\ pc # "idle" => synced
    /\ synced => inited
    /\ merge.phase # "none" => merge.partial = exch
    /\ pc = "apply" /\ merge.phase # "none" => action = merge.phase

OnTheWay(c) ==
    /\ Target(c)
    /\ Leads(action, todo, l2Cache, c)
    /\ joined[0] # "no" => Leads(action, data, view[0], c)

Progress ==
    /\ pc = "idle" /\ synced => l2Cache = exch
    /\ pc = "merge" => Target(l2Cache)
    /\ pc = "apply" => \E c \in Book : OnTheWay(c)
    /\ pc # "apply" /\ joined[0] # "no" => view[0] = l2Cache

FeedTypes == exch \in Book /\ synced \in BOOLEAN /\ early = 0 /\ 0 \notin missed

FeedInv ==
    /\ TypeOK
    /\ FeedTypes
    /\ Running => Sides /\ Quotes /\ Flow /\ Progress
    /\ PanicHasCause

LEMMA FeedInitInv == FeedInit => FeedInv
<1>. SUFFICES ASSUME FeedInit PROVE FeedInv
  OBVIOUS
<1>1. TypeOK
  BY InitType DEF FeedInit
<1>2. FeedTypes
  BY DEF FeedInit, FeedTypes
<1>3. Sides
  BY DEF FeedInit, Init, Sides, Ladder, Range, PricesOf, EmptyBook, NoLevel, Side
<1>4. Quotes
  BY DEF FeedInit, Init, Quotes, Levels, EmptyBook
<1>5. Flow
  BY DEF FeedInit, Init, Flow, NoMerge
<1>6. Progress
  BY DepthType DEF FeedInit, Init, Progress
<1>7. PanicHasCause
  BY DEF FeedInit, Init, PanicHasCause
<1>. QED  BY <1>1, <1>2, <1>3, <1>4, <1>5, <1>6, <1>7 DEF FeedInv

LEMMA NothingMissed ==
    ASSUME FeedTypes, Misses, UNCHANGED <<exch, synced, early>>,
           pc = "apply" /\ todo # <<>> => pc' = "apply",
           ~NamesOtherSide
    PROVE  FeedTypes'
  BY DEF FeedTypes, Misses, CutShort

(* Starting a list that leads to c: the cache and its subscriber have the   *)
(* same book before it.                                                     *)
LEMMA StartLeads ==
    ASSUME FeedInv, Running, pc # "apply", NEW act, NEW list, NEW c \in Book,
           Start(act, list), Leads(act, list, l2Cache, c), Target(c)',
           UNCHANGED <<l2Cache, joined, view>>,
           pc' = "apply" \/ list = <<>>,
           pc' = "merge" => merge'.phase # "none",
           pc' = "idle" => merge'.phase = "none"
    PROVE  Progress'
<1>1. joined[0] # "no" => view[0] = l2Cache
  BY DEF FeedInv, Progress
<1>2. pc' = "apply" => OnTheWay(c)'
  BY <1>1 DEF OnTheWay, Start
<1>3. list = <<>> => l2Cache = c
  BY LeadsNowhere DEF FeedInv, TypeOK
<1>4. pc' = "idle" => l2Cache' = exch'
  BY <1>3 DEF Target, ToUpdate
<1>5. pc' = "merge" => Target(l2Cache)'
  <2>. SUFFICES ASSUME pc' = "merge" PROVE Target(l2Cache)'
    OBVIOUS
  <2>1. c = l2Cache'
    BY <1>3
  <2>. QED  BY <2>1 DEF Target, ToUpdate
<1>. QED  BY <1>1, <1>2, <1>4, <1>5 DEF Progress

-----------------------------------------------------------------------------
(* The steps of applyData.                                                  *)

LEMMA OrderFits ==
    ASSUME FeedInv, Running, pc = "apply", todo # <<>>
    PROVE  /\ Sides /\ Quotes /\ inited
           /\ \E c \in Book : OnTheWay(c) /\ Fits(action, Head(todo), l2Cache)
<1>1. PICK c \in Book : OnTheWay(c)
  BY DEF FeedInv, Progress
<1>2. l2Cache \in Book /\ todo \in Seq(Order) /\ action \in Action
  BY DEF FeedInv, TypeOK
<1>3. Leads(action, todo, l2Cache, c)
  BY <1>1 DEF OnTheWay
<1>4. Fits(action, Head(todo), l2Cache)
  <2>1. 1 \in DOMAIN todo /\ Head(todo) = todo[1]
    BY <1>2
  <2>. QED  BY <1>3, <2>1 DEF Leads
<1>. QED  BY <1>1, <1>4 DEF FeedInv, Flow

LEMMA AppliedStep ==
    ASSUME FeedInv, Running, pc = "apply", todo # <<>>, TypeOK', Sides', Quotes',
           Applied(action, Head(todo)), Misses, UNCHANGED <<exch, synced, early>>
    PROVE  FeedInv'
<1>1. PICK c \in Book : OnTheWay(c)
  BY DEF FeedInv, Progress
<1>2. Leads(action, Tail(todo), l2Cache', c)
  <2>1. l2Cache \in Book /\ l2Cache' \in Book /\ todo \in Seq(Order)
    BY DEF FeedInv, TypeOK
  <2>. QED  BY <1>1, <2>1, LeadsOn DEF OnTheWay, Applied
<1>3. OnTheWay(c)'
  BY <1>1, <1>2 DEF OnTheWay, Applied, Target, ToUpdate
<1>4. Progress'
  BY <1>3 DEF Progress, Applied
<1>5. Flow'
  BY DEF FeedInv, Flow, Applied
<1>6. FeedTypes'
  <2>1. Fits(action, Head(todo), l2Cache)
    <3>1. todo \in Seq(Order) /\ 1 \in DOMAIN todo /\ Head(todo) = todo[1]
      BY DEF FeedInv, TypeOK
    <3>. QED  BY <1>1, <3>1 DEF OnTheWay, Leads
  <2>2. ~NamesOtherSide
    BY <2>1 DEF Fits, NamesOtherSide
  <2>. QED  BY <2>2, NothingMissed DEF FeedInv, Applied
<1>7. PanicHasCause'
  BY DEF Applied, Running, PanicHasCause
<1>. QED  BY <1>4, <1>5, <1>6, <1>7 DEF FeedInv

LEMMA DeleteStep == FeedInv /\ Cache(handleDelete) => FeedInv'
<1>. SUFFICES ASSUME FeedInv, Cache(handleDelete) PROVE FeedInv'
  OBVIOUS
<1>1. /\ handleDelete /\ Misses /\ UNCHANGED <<exch, synced, early>>
      /\ Running /\ pc = "apply" /\ action = "delete" /\ todo # <<>>
  BY DEF Cache, handleDelete, Applying
<1>2. PICK c \in Book : OnTheWay(c) /\ Fits(action, Head(todo), l2Cache)
  BY <1>1, OrderFits
<1>3. TypeOK'
  BY <1>1, DeleteType DEF FeedInv
<1>4. TypeOK /\ Sides /\ Quotes /\ inited
  BY <1>1, OrderFits DEF FeedInv
<1>5. CASE Sides' /\ Quotes' /\ Applied("delete", Head(todo))
  BY <1>1, <1>3, <1>5, AppliedStep
<1>6. CASE /\ Panic("emptySide")
           /\ PricesOf(l2Cache, Head(todo).side) = {Head(todo).price}
  <2>. DEFINE s == Head(todo).side
  <2>1. todo \in Seq(Order) /\ 1 \in DOMAIN todo /\ Head(todo) = todo[1] /\ s \in Side
    <3>1. todo \in Seq(Order) /\ 1 \in DOMAIN todo /\ Head(todo) = todo[1]
      BY <1>1 DEF FeedInv, TypeOK
    <3>2. todo[1] \in Order
      BY <3>1
    <3>. QED  BY <3>1, <3>2 DEF Order
  <2>. HIDE DEF s
  <2>2. ASSUME NEW p \in Price, c[p].side = s PROVE FALSE
    <3>1. Leads("delete", todo, l2Cache, c)
      BY <1>1, <1>2 DEF OnTheWay
    <3>2. c[p] # NoLevel
      BY <2>1, <2>2 DEF NoLevel, Side
    <3>3. \A i \in DOMAIN todo : todo[i].price # p
      BY <3>1, <3>2 DEF Leads, Gives
    <3>4. l2Cache[p].side = s
      BY <2>2, <3>1, <3>3 DEF Leads
    <3>5. p = todo[1].price
      BY <1>6, <2>1, <3>4 DEF PricesOf, s
    <3>. QED  BY <2>1, <3>3, <3>5
  <2>3. Flow /\ Target(c) /\ merge.phase \in {"none", "delete", "insert"}
    BY <1>1, <1>2 DEF FeedInv, OnTheWay, TypeOK
  <2>4. merge.phase # "insert"
    BY <1>1, <2>3 DEF Flow
  <2>5. merge.phase = "none" => PricesOf(exch, s) = {}
    BY <2>2, <2>3 DEF Target, ToUpdate, PricesOf
  <2>6. merge.phase = "delete" => PricesOf(merge.partial, s) \cap merge.origin[s] = {}
    BY <2>1, <2>2, <2>3 DEF Target, ToUpdate, PricesOf, Flow
  <2>7. PanicHasCause'
    BY <1>1, <1>6, <2>1, <2>3, <2>4, <2>5, <2>6 DEF Panic, PanicHasCause
  <2>8. FeedTypes'
    BY <1>1, <1>6, NothingMissed DEF FeedInv, Panic, NamesOtherSide
  <2>9. ~Running'
    BY <1>6 DEF Panic, Running
  <2>. QED  BY <1>3, <2>7, <2>8, <2>9 DEF FeedInv
<1>. QED  BY <1>1, <1>2, <1>4, <1>5, <1>6, DeleteKeeps

LEMMA InsertStep == FeedInv /\ Cache(handleInsert) => FeedInv'
<1>. SUFFICES ASSUME FeedInv, Cache(handleInsert) PROVE FeedInv'
  OBVIOUS
<1>1. /\ handleInsert /\ Misses /\ UNCHANGED <<exch, synced, early>>
      /\ Running /\ pc = "apply" /\ action = "insert" /\ todo # <<>>
  BY DEF Cache, handleInsert, Applying
<1>2. TypeOK'
  BY <1>1, InsertType DEF FeedInv
<1>3. TypeOK /\ Sides /\ Quotes /\ inited /\ Fits(action, Head(todo), l2Cache)
  BY <1>1, OrderFits DEF FeedInv
<1>. QED  BY <1>1, <1>2, <1>3, InsertKeeps, AppliedStep

LEMMA UpdateStep == FeedInv /\ Cache(handleUpdate) => FeedInv'
<1>. SUFFICES ASSUME FeedInv, Cache(handleUpdate) PROVE FeedInv'
  OBVIOUS
<1>1. /\ handleUpdate /\ Misses /\ UNCHANGED <<exch, synced, early>>
      /\ Running /\ pc = "apply" /\ action = "update" /\ todo # <<>>
  BY DEF Cache, handleUpdate, Applying
<1>2. TypeOK'
  BY <1>1, UpdateType DEF FeedInv
<1>3. TypeOK /\ Sides /\ Quotes /\ inited /\ Fits(action, Head(todo), l2Cache)
  BY <1>1, OrderFits DEF FeedInv
<1>. QED  BY <1>1, <1>2, <1>3, UpdateKeeps, AppliedStep

LEMMA DispatchStep == FeedInv /\ Cache(dispatchRsp) => FeedInv'
<1>. SUFFICES ASSUME FeedInv, Cache(dispatchRsp) PROVE FeedInv'
  OBVIOUS
<1>1. /\ dispatchRsp /\ Misses /\ UNCHANGED <<exch, synced, early>>
      /\ Running /\ pc = "apply" /\ todo = <<>>
      /\ UNCHANGED <<book, merge, joined, panicked>>
  BY DEF Cache, dispatchRsp
<1>2. TypeOK /\ TypeOK' /\ Sides /\ Quotes /\ Flow /\ Progress
  BY <1>1, DispatchType DEF FeedInv
<1>3. PICK c \in Book : OnTheWay(c)
  BY <1>1, <1>2 DEF Progress
<1>4. l2Cache = c
  BY <1>1, <1>2, <1>3, LeadsNowhere DEF OnTheWay, TypeOK
<1>5. joined[0] # "no" => view'[0] = c
  <2>. SUFFICES ASSUME joined[0] # "no" PROVE view'[0] = c
    OBVIOUS
  <2>1. view'[0] = Apply(view[0], action, data)
    BY <1>1, DepthType DEF dispatchRsp, Published
  <2>2. view[0] \in Book /\ action \in Action /\ data \in Seq(Order)
    BY <1>2, DepthType DEF TypeOK
  <2>. QED  BY <1>3, <2>1, <2>2, ApplyLeads DEF OnTheWay
<1>6. Target(l2Cache)
  BY <1>3, <1>4 DEF OnTheWay
<1>7. pc' = IF merge.phase = "none" THEN "idle" ELSE "merge"
  BY <1>1 DEF dispatchRsp, Leave
<1>8. Progress'
  BY <1>1, <1>4, <1>5, <1>6, <1>7 DEF Progress, Target, ToUpdate, book
<1>9. Flow'
  BY <1>1, <1>2, <1>7 DEF Flow, book
<1>10. Sides' /\ Quotes'
  BY <1>1, <1>2 DEF Sides, Quotes, book
<1>11. FeedTypes'
  BY <1>1, <1>7, NothingMissed DEF FeedInv, NamesOtherSide
<1>12. PanicHasCause'
  BY <1>1 DEF Running, PanicHasCause
<1>. QED  BY <1>2, <1>8, <1>9, <1>10, <1>11, <1>12 DEF FeedInv

-----------------------------------------------------------------------------
(* The steps of handlePartial.                                              *)

LEMMA MergeInsertStep == FeedInv /\ Cache(MergeInsert) => FeedInv'
<1>. SUFFICES ASSUME FeedInv, Cache(MergeInsert) PROVE FeedInv'
  OBVIOUS
<1>1. /\ MergeInsert /\ Misses /\ UNCHANGED <<exch, synced, early>>
      /\ Running /\ pc = "merge" /\ merge.phase = "delete"
  BY DEF Cache, MergeInsert
<1>2. /\ TypeOK /\ TypeOK' /\ Sides /\ Quotes /\ Flow /\ Progress
      /\ Target(l2Cache) /\ merge.partial = exch
      /\ l2Cache \in Book /\ exch \in Book
  BY <1>1, MergeInsertType DEF FeedInv, Progress, Flow, TypeOK, FeedTypes
<1>. DEFINE origin == merge.origin
            added == UNION {Sub(PricesOf(merge.partial, s), origin[s]) : s \in Side}
            kept == UNION {Join(origin[s], PricesOf(merge.partial, s)) : s \in Side}
            read == kept \cap Levels(merge.partial)
            differ == {q \in read : l2Cache[q].size # merge.partial[q].size}
            inserts == {OrderAt(merge.partial, p) : p \in added}
            updates == {OrderAt(merge.partial, p) : p \in differ}
            grown == [p \in Price |-> IF p \in added THEN exch[p] ELSE l2Cache[p]]
<1>3. added = {p \in Price : \E s \in Side : exch[p].side = s /\ p \notin origin[s]}
  BY <1>2 DEF Sub, PricesOf
<1>4. kept = UNION {origin[s] : s \in Side}
  BY DEF Join
<1>5. \A p \in Price, s \in Side :
          l2Cache[p].side = s <=> p \in origin[s] /\ exch[p].side = s
  BY <1>1, <1>2 DEF Target, ToUpdate
<1>6. grown \in Book
  BY <1>2 DEF Book
<1>7. PICK c \in Book : \A p \in Price : c[p] = IF p \in added THEN exch[p] ELSE l2Cache[p]
  BY <1>6
<1>8. added \in SUBSET Price /\ inserts = {OrderAt(exch, p) : p \in added}
      /\ updates = {OrderAt(exch, p) : p \in differ}
  BY <1>2, <1>3
<1>. HIDE DEF added, kept, differ, inserts, updates, grown
<1>9. ASSUME NEW p \in added
      PROVE  l2Cache[p] = NoLevel /\ exch[p] # NoLevel /\ c[p] = exch[p]
  <2>1. p \in Price /\ exch[p].side \in Side /\ p \notin origin[exch[p].side]
    BY <1>3
  <2>2. l2Cache[p].side \notin Side
    BY <1>5, <2>1
  <2>. QED  BY <1>2, <1>7, <2>1, <2>2, LevelIsSide
<1>10. CASE Panic("nilOrder") /\ ~(read \subseteq Levels(l2Cache))
  <2>1. PICK p \in read : p \notin Levels(l2Cache)
    BY <1>10
  <2>2. PICK s \in Side : p \in origin[s]
    BY <1>4, <2>1
  <2>3. p \in Price /\ p \in Levels(exch) /\ l2Cache[p] = NoLevel
    BY <1>2, <2>1 DEF Levels
  <2>4. exch[p].side # s
    BY <1>5, <2>2, <2>3 DEF NoLevel, Side
  <2>5. p \in origin[s] \cap (Levels(exch) \ PricesOf(exch, s))
    BY <2>2, <2>3, <2>4 DEF PricesOf
  <2>6. PanicHasCause'
    BY <1>1, <1>10, <2>5 DEF Panic, PanicHasCause
  <2>7. FeedTypes'
    BY <1>1, NothingMissed DEF FeedInv, NamesOtherSide
  <2>8. ~Running'
    BY <1>10 DEF Panic, Running
  <2>. QED  BY <1>2, <2>6, <2>7, <2>8 DEF FeedInv
<1>11. ASSUME read \subseteq Levels(l2Cache),
              NEW list \in PriceOrder(inserts),
              Start("insert", list),
              pc' = IF list = <<>> THEN "merge" ELSE "apply",
              merge' = [merge EXCEPT !.phase = "insert", !.updates = updates],
              UNCHANGED <<book, subs, panicked>>
       PROVE  FeedInv'
  <2>1. list \in AnyOrder({OrderAt(exch, p) : p \in added})
    <3>1. \A o \in inserts : o.price \in Int
      BY <1>8, PriceIsInt DEF OrderAt
    <3>2. IsFiniteSet(inserts)
      BY <1>8, OrdersFinite
    <3>. QED  BY <1>8, <1>11, <3>1, <3>2, PriceOrderIsOrder
  <2>2. Leads("insert", list, l2Cache, c)
    <3>1. ASSUME NEW p \in added
          PROVE  /\ Fits("insert", OrderAt(exch, p), l2Cache)
                 /\ c[p] = Gives("insert", OrderAt(exch, p))
      <4>1. p \in Price
        BY <1>8
      <4>2. Gives("insert", OrderAt(exch, p)) = [side |-> exch[p].side, size |-> exch[p].size]
        BY DEF Gives, LevelOf, OrderAt
      <4>. QED  BY <1>2, <1>9, <4>1, <4>2, LevelIsSide DEF Fits, OrderAt
    <3>2. \A p \in Price \ added : c[p] = l2Cache[p]
      BY <1>7
    <3>. QED  BY <1>2, <1>6, <1>8, <2>1, <3>1, <3>2, ListLeads
  <2>3. merge'.phase = "insert" /\ merge'.updates = updates /\ merge'.partial = merge.partial
    BY <1>2, <1>11 DEF TypeOK
  <2>4. ASSUME NEW p \in Price PROVE c[p] = exch[p] \/ OrderAt(exch, p) \in updates
    <3>1. CASE p \in added
      BY <1>9, <3>1
    <3>2. CASE p \notin added /\ exch[p] = NoLevel
      <4>1. l2Cache[p].side \notin Side
        BY <1>5, <3>2 DEF NoLevel, Side
      <4>. QED  BY <1>2, <1>7, <3>2, <4>1, LevelIsSide
    <3>3. CASE p \notin added /\ exch[p] # NoLevel
      <4>1. exch[p].side \in Side /\ p \in origin[exch[p].side]
        BY <1>2, <1>3, <3>3, LevelIsSide
      <4>2. l2Cache[p].side = exch[p].side
        BY <1>5, <4>1
      <4>3. p \in read
        BY <1>2, <1>4, <3>3, <4>1 DEF Levels
      <4>4. CASE l2Cache[p].size = exch[p].size
        <5>1. l2Cache[p] # NoLevel
          BY <1>11, <4>3 DEF Levels
        <5>. QED  BY <1>2, <1>7, <3>3, <4>2, <4>4, <5>1, LevelIsSide
      <4>5. CASE l2Cache[p].size # exch[p].size
        BY <1>2, <1>8, <4>3, <4>5 DEF differ
      <4>. QED  BY <4>4, <4>5
    <3>. QED  BY <3>1, <3>2, <3>3
  <2>5. ASSUME NEW o \in updates
        PROVE  \E p \in Levels(exch) : o = OrderAt(exch, p) /\ c[p].side = exch[p].side
    <3>1. PICK p \in differ : o = OrderAt(exch, p)
      BY <1>8
    <3>2. p \in Levels(exch) /\ p \in Levels(l2Cache) /\ p \in Price
      BY <1>2, <1>11 DEF differ, Levels
    <3>3. l2Cache[p].side = exch[p].side
      BY <1>2, <1>5, <3>2, LevelIsSide DEF Levels
    <3>4. c[p] = l2Cache[p]
      BY <1>7, <1>9, <3>2 DEF Levels
    <3>. QED  BY <3>1, <3>2, <3>3, <3>4
  <2>6. Target(c)'
    BY <1>1, <2>3, <2>4, <2>5 DEF Target, ToUpdate
  <2>7. Progress'
    BY <1>1, <1>11, <2>2, <2>3, <2>6, StartLeads DEF book, subs
  <2>8. Flow'
    BY <1>1, <1>2, <1>11, <2>3 DEF Flow, Start, book
  <2>9. Sides' /\ Quotes'
    BY <1>2, <1>11 DEF Sides, Quotes, book
  <2>10. FeedTypes'
    BY <1>1, NothingMissed DEF FeedInv, NamesOtherSide
  <2>11. PanicHasCause'
    BY <1>1, <1>11 DEF Running, PanicHasCause
  <2>. QED  BY <1>2, <2>7, <2>8, <2>9, <2>10, <2>11 DEF FeedInv
<1>. QED  BY <1>1, <1>10, <1>11 DEF MergeInsert, added, kept, differ, inserts, updates

(* The updates still to be sent make the map the upstream's book.           *)
LEMMA UpdatesLead ==
    ASSUME TypeOK, l2Cache \in Book, exch \in Book, ToUpdate(l2Cache),
           NEW list \in PriceOrder(merge.updates)
    PROVE  Leads("update", list, l2Cache, exch)
<1>. DEFINE T == {p \in Levels(exch) : OrderAt(exch, p) \in merge.updates}
<1>1. T \in SUBSET Price /\ \A p \in T : p \in Levels(exch)
  BY DEF Levels
<1>2. merge.updates = {OrderAt(exch, p) : p \in T}
  BY DEF ToUpdate
<1>3. list \in AnyOrder({OrderAt(exch, p) : p \in T})
  <2>1. ASSUME NEW o \in merge.updates PROVE o.price \in Int
    <3>1. PICK p \in T : o = OrderAt(exch, p)
      BY <1>2
    <3>2. o.price = p /\ p \in Price
      BY <1>1, <3>1 DEF OrderAt
    <3>. QED  BY <3>2, PriceIsInt
  <2>2. IsFiniteSet(merge.updates)
    BY DEF TypeOK
  <2>. QED  BY <1>2, <2>1, <2>2, PriceOrderIsOrder
<1>4. ASSUME NEW p \in T
      PROVE  /\ Fits("update", OrderAt(exch, p), l2Cache)
             /\ exch[p] = Gives("update", OrderAt(exch, p))
  <2>1. PICK q \in Levels(exch) : OrderAt(exch, p) = OrderAt(exch, q)
                                  /\ l2Cache[q].side = exch[q].side
    BY DEF ToUpdate
  <2>2. OrderAt(exch, p).price = p /\ OrderAt(exch, q).price = q
    BY DEF OrderAt
  <2>3. p = q
    BY <2>1, <2>2
  <2>4. p \in Price /\ exch[p] # NoLevel
    BY DEF Levels
  <2>5. Gives("update", OrderAt(exch, p)) = [side |-> exch[p].side, size |-> exch[p].size]
    BY DEF Gives, LevelOf, OrderAt
  <2>. QED  BY <2>1, <2>3, <2>4, <2>5, LevelIsSide DEF Fits, OrderAt
<1>5. ASSUME NEW p \in Price \ T PROVE exch[p] = l2Cache[p]
  <2>1. CASE OrderAt(exch, p) \in merge.updates
    <3>1. PICK q \in Levels(exch) : OrderAt(exch, p) = OrderAt(exch, q)
      BY <2>1 DEF ToUpdate
    <3>2. OrderAt(exch, p).price = p /\ OrderAt(exch, q).price = q
      BY DEF OrderAt
    <3>3. p \in T
      BY <2>1, <3>1, <3>2
    <3>. QED  BY <3>3
  <2>2. CASE OrderAt(exch, p) \notin merge.updates
    BY <2>2 DEF ToUpdate
  <2>. QED  BY <2>1, <2>2
<1>. HIDE DEF T
<1>. QED  BY <1>1, <1>3, <1>4, <1>5, ListLeads

LEMMA MergeUpdateStep == FeedInv /\ Cache(MergeUpdate) => FeedInv'
<1>. SUFFICES ASSUME FeedInv, Cache(MergeUpdate) PROVE FeedInv'
  OBVIOUS
<1>1. /\ MergeUpdate /\ Misses /\ UNCHANGED <<exch, synced, early>>
      /\ Running /\ pc = "merge" /\ merge.phase = "insert"
      /\ merge' = NoMerge /\ UNCHANGED <<book, subs, panicked>>
  BY DEF Cache, MergeUpdate
<1>2. /\ TypeOK /\ TypeOK' /\ Sides /\ Quotes /\ Flow /\ Target(l2Cache)
      /\ l2Cache \in Book /\ exch \in Book
  BY <1>1, MergeUpdateType DEF FeedInv, Progress, TypeOK, FeedTypes
<1>3. PICK list \in PriceOrder(merge.updates) :
            Start("update", list) /\ pc' = IF list = <<>> THEN "idle" ELSE "apply"
  BY <1>1 DEF MergeUpdate
<1>4. Leads("update", list, l2Cache, exch)
  BY <1>1, <1>2, UpdatesLead DEF Target
<1>5. NoMerge.phase = "none"
  BY DEF NoMerge
<1>6. Target(exch)'
  BY <1>1, <1>5 DEF Target, ToUpdate
<1>7. Progress'
  <2>. DEFINE c == exch
  <2>1. /\ c \in Book /\ Leads("update", list, l2Cache, c) /\ pc # "apply"
        /\ UNCHANGED <<l2Cache, joined, view>>
        /\ (pc' = "apply" \/ list = <<>>) /\ pc' # "merge" /\ merge'.phase = "none"
    BY <1>1, <1>2, <1>3, <1>4, <1>5 DEF book, subs
  <2>2. joined[0] # "no" => view[0] = l2Cache
    BY <1>1 DEF FeedInv, Progress
  <2>3. list = <<>> => l2Cache = exch
    BY <1>2, <1>4, LeadsNowhere
  <2>4. pc' = "apply" => OnTheWay(exch)'
    BY <1>1, <1>3, <1>4, <1>6, <2>1, <2>2 DEF OnTheWay, Start
  <2>5. exch' \in Book
    BY <1>1, <1>2
  <2>6. pc' = "apply" => \E d \in Book : OnTheWay(d)'
    BY <2>4, <2>5
  <2>. QED  BY <1>1, <1>3, <2>1, <2>2, <2>3, <2>6 DEF Progress
<1>8. Flow'
  BY <1>1, <1>2, <1>3, <1>5 DEF Flow, book
<1>9. Sides' /\ Quotes'
  BY <1>1, <1>2 DEF Sides, Quotes, book
<1>10. FeedTypes'
  BY <1>1, NothingMissed DEF FeedInv, NamesOtherSide
<1>11. PanicHasCause'
  BY <1>1 DEF Running, PanicHasCause
<1>. QED  BY <1>2, <1>7, <1>8, <1>9, <1>10, <1>11 DEF FeedInv

LEMMA OrderOfSide ==
    ASSUME NEW b, NEW s, NEW list \in AnyOrder(PricesOf(b, s))
    PROVE  Range(list) = PricesOf(b, s)
<1>1. IsFiniteSet(PricesOf(b, s))
  BY PriceAssumption, FS_Subset DEF PricesOf
<1>2. /\ list \in [1..Cardinality(PricesOf(b, s)) -> PricesOf(b, s)]
      /\ \A i, j \in DOMAIN list : i # j => list[i] # list[j]
  BY DEF AnyOrder
<1>3. \A p \in PricesOf(b, s) : \E i \in DOMAIN list : list[i] = p
  BY <1>1, <1>2, OrderingCovers
<1>. QED  BY <1>2, <1>3 DEF Range

LEMMA FirstPartialStep ==
    ASSUME FeedInv, FirstPartial(exch), synced' = TRUE, UNCHANGED <<exch, early, missed>>
    PROVE  FeedInv'
<1>1. /\ Running /\ pc = "idle" /\ TypeOK /\ TypeOK' /\ FeedTypes' /\ Flow /\ Progress
      /\ exch \in Book
  BY FirstPartialType DEF FirstPartial, FeedInv, FeedTypes
<1>2. CASE Panic("emptySide") /\ \E s \in Side : PricesOf(exch, s) = {}
  <2>1. PanicHasCause' /\ ~Running'
    BY <1>2 DEF Panic, PanicHasCause, Running
  <2>. QED  BY <1>1, <2>1 DEF FeedInv
<1>3. ASSUME \A s \in Side : PricesOf(exch, s) # {},
             NEW asks \in AnyOrder(PricesOf(exch, "Sell")),
             NEW bids \in AnyOrder(PricesOf(exch, "Buy")),
             Ladder(asks, TRUE), Ladder(bids, FALSE),
             prices' = [s \in Side |-> IF s = "Sell" THEN asks ELSE bids],
             quote' = [s \in Side |-> BestOf(prices'[s], exch)],
             l2Cache' = exch, inited' = TRUE,
             view' = [view EXCEPT ![0] = IF joined[0] = "no" THEN @ ELSE exch],
             UNCHANGED <<pc, job, merge, joined, panicked>>
      PROVE  FeedInv'
  <2>1. ASSUME NEW s \in Side, NEW list \in AnyOrder(PricesOf(exch, s))
        PROVE  Range(list) = PricesOf(exch, s) /\ list # <<>>
    <3>1. Range(list) = PricesOf(exch, s)
      BY OrderOfSide
    <3>2. list # <<>>
      BY <1>3, <3>1 DEF Range
    <3>. QED  BY <3>1, <3>2
  <2>2. ASSUME NEW s \in Side
        PROVE  /\ Ladder(prices'[s], Descending(s))
               /\ Range(prices'[s]) = PricesOf(exch, s)
               /\ prices'[s] # <<>>
    <3>1. CASE s = "Sell"
      BY <1>3, <2>1, <3>1 DEF Descending
    <3>2. CASE s = "Buy"
      BY <1>3, <2>1, <3>2 DEF Descending
    <3>. QED  BY <3>1, <3>2 DEF Side
  <2>3. Sides'
    BY <1>3, <2>2 DEF Sides
  <2>4. Quotes'
    BY <1>3, <2>2 DEF Quotes
  <2>5. Flow'
    BY <1>1, <1>3 DEF Flow
  <2>6. joined[0] # "no" => view'[0] = exch
    BY <1>1, <1>3, DepthType DEF TypeOK
  <2>7. Progress'
    BY <1>1, <1>3, <2>6 DEF Progress
  <2>8. PanicHasCause'
    BY <1>1, <1>3 DEF Running, PanicHasCause
  <2>. QED  BY <1>1, <2>3, <2>4, <2>5, <2>7, <2>8 DEF FeedInv
<1>. QED  BY <1>2, <1>3 DEF FirstPartial

LEMMA MergePartialStep ==
    ASSUME FeedInv, MergePartial(exch), synced' = TRUE, UNCHANGED <<exch, early, missed>>
    PROVE  FeedInv'
<1>1. /\ Running /\ pc = "idle" /\ TypeOK /\ TypeOK' /\ FeedTypes'
      /\ Sides /\ Quotes /\ Flow /\ Progress
      /\ exch \in Book /\ l2Cache \in Book /\ Levels(l2Cache) # {}
  BY MergePartialType DEF MergePartial, FeedInv, FeedTypes, TypeOK
<1>. DEFINE origin == [s \in Side |-> Range(prices[s])]
            gone == UNION {Sub(origin[s], PricesOf(exch, s)) : s \in Side}
            kept == [p \in Price |-> IF p \in gone THEN NoLevel ELSE l2Cache[p]]
<1>2. \A s \in Side : origin[s] = PricesOf(l2Cache, s)
  BY <1>1 DEF Sides
<1>3. gone = {p \in Price : \E s \in Side : l2Cache[p].side = s /\ exch[p].side # s}
  <2>1. \A s \in Side : Sub(origin[s], PricesOf(exch, s)) =
                          {p \in Price : l2Cache[p].side = s /\ exch[p].side # s}
    BY <1>2 DEF Sub, PricesOf
  <2>. HIDE DEF origin
  <2>. QED  BY <2>1
<1>4. gone \subseteq Levels(l2Cache)
  BY <1>1, <1>3, LevelIsSide DEF Levels
<1>5. kept \in Book
  BY <1>1 DEF Book
<1>6. PICK c \in Book : \A p \in Price : c[p] = IF p \in gone THEN NoLevel ELSE l2Cache[p]
  BY <1>5
<1>7. PICK list \in AnyOrder({OrderAt(l2Cache, p) : p \in gone}) :
            /\ Start("delete", list)
            /\ pc' = IF list = <<>> THEN "merge" ELSE "apply"
  BY <1>4 DEF MergePartial
<1>8. /\ merge' = [phase |-> "delete", partial |-> exch, origin |-> origin, updates |-> {}]
      /\ UNCHANGED <<book, subs, panicked>>
  BY <1>4 DEF MergePartial
<1>. HIDE DEF origin, gone, kept
<1>9. Leads("delete", list, l2Cache, c)
  <2>1. ASSUME NEW p \in gone
        PROVE  /\ Fits("delete", OrderAt(l2Cache, p), l2Cache)
               /\ c[p] = Gives("delete", OrderAt(l2Cache, p))
    BY <1>3, <1>6 DEF Fits, Gives, OrderAt
  <2>2. \A p \in Price \ gone : c[p] = l2Cache[p]
    BY <1>6
  <2>3. gone \in SUBSET Price
    BY <1>3
  <2>. QED  BY <1>1, <1>7, <2>1, <2>2, <2>3, ListLeads
<1>10. merge'.phase = "delete" /\ merge'.origin = origin /\ merge'.partial = exch
  BY <1>8
<1>11. Target(c)'
  <2>1. ASSUME NEW p \in Price, NEW s \in Side
        PROVE  c[p].side = s <=> p \in origin[s] /\ exch[p].side = s
    <3>1. p \in origin[s] <=> l2Cache[p].side = s
      BY <1>2 DEF PricesOf
    <3>2. c[p] = IF p \in gone THEN NoLevel ELSE l2Cache[p]
      BY <1>6
    <3>. QED  BY <1>3, <3>1, <3>2 DEF NoLevel, Side
  <2>2. exch' = exch
    OBVIOUS
  <2>. QED  BY <1>10, <2>1, <2>2 DEF Target, ToUpdate
<1>12. Progress'
  BY <1>1, <1>7, <1>8, <1>9, <1>10, <1>11, StartLeads DEF book, subs
<1>13. Flow'
  <2>1. inited
    BY <1>1 DEF Quotes
  <2>. QED  BY <1>1, <1>7, <1>8, <1>10, <2>1 DEF Flow, Start, book
<1>14. Sides' /\ Quotes'
  BY <1>1, <1>8 DEF Sides, Quotes, book
<1>15. PanicHasCause'
  BY <1>1, <1>8 DEF Running, PanicHasCause
<1>. QED  BY <1>1, <1>12, <1>13, <1>14, <1>15 DEF FeedInv

LEMMA PartialStep == FeedInv /\ Partial => FeedInv'
  BY FirstPartialStep, MergePartialStep DEF Partial

-----------------------------------------------------------------------------
(* The steps of the upstream, and a subscription.                           *)

LEMMA WithType ==
    ASSUME NEW b \in Book, NEW T \in SUBSET Price, NEW new \in [T -> Level \cup {NoLevel}]
    PROVE  /\ With(b, new) \in Book
           /\ \A p \in T : With(b, new)[p] = new[p]
           /\ \A p \in Price \ T : With(b, new)[p] = b[p]
  BY DEF With, Book

(* A list of the upstream's changes leads from its book to its new one.     *)
ChangesReceived ==
    \E act \in Action, list \in Seq(Order) :
       Leads(act, list, exch, exch') /\ ReceiveList(act, list)

LEMMA ListLeadsOn ==
    ASSUME exch \in Book, List
    PROVE  exch' \in Book /\ ChangesReceived
<1>1. ASSUME NEW act \in Action, NEW T \in SUBSET Price,
             NEW new \in [T -> Level \cup {NoLevel}], Send(act, new),
             act = "delete" => T \subseteq Levels(exch),
             act # "delete" => T \subseteq Levels(exch'),
             \A p \in T :
                LET ord == OrderAt(IF act = "delete" THEN exch ELSE exch', p)
                IN  exch' = With(exch, new)
                      => Fits(act, ord, exch) /\ new[p] = Gives(act, ord)
      PROVE  exch' \in Book /\ ChangesReceived
  <2>1. exch' = With(exch, new) /\ DOMAIN new = T
    BY <1>1 DEF Send
  <2>2. /\ exch' \in Book
        /\ \A p \in T : exch'[p] = new[p]
        /\ \A p \in Price \ T : exch'[p] = exch[p]
    BY <2>1, WithType
  <2>3. PICK src \in Book : src = IF act = "delete" THEN exch ELSE exch'
    BY <2>2
  <2>4. PICK list \in AnyOrder({OrderAt(src, p) : p \in T}) : ReceiveList(act, list)
    BY <1>1, <2>1, <2>3 DEF Send
  <2>5. \A p \in T : /\ Fits(act, OrderAt(src, p), exch)
                     /\ exch'[p] = Gives(act, OrderAt(src, p))
    BY <1>1, <2>1, <2>2, <2>3
  <2>6. Leads(act, list, exch, exch')
    BY <2>2, <2>4, <2>5, ListLeads
  <2>7. list \in Seq(Order)
    <3>1. T \in SUBSET Levels(src)
      BY <1>1, <2>2, <2>3
    <3>. QED  BY <2>3, <2>4, <3>1, ListType
  <2>. QED  BY <1>1, <2>2, <2>4, <2>6, <2>7 DEF ChangesReceived
<1>2. ASSUME NEW T \in SUBSET Price, T \subseteq Levels(exch),
             Send("delete", [p \in T |-> NoLevel])
      PROVE  exch' \in Book /\ ChangesReceived
  <2>. DEFINE new == [p \in T |-> NoLevel]
  <2>1. new \in [T -> Level \cup {NoLevel}]
    OBVIOUS
  <2>2. \A p \in T : /\ Fits("delete", OrderAt(exch, p), exch)
                     /\ new[p] = Gives("delete", OrderAt(exch, p))
    BY DEF Fits, Gives, OrderAt
  <2>3. "delete" \in Action
    BY DEF Action
  <2>. HIDE DEF new
  <2>. QED  BY <1>1, <1>2, <2>1, <2>2, <2>3 DEF new
<1>3. ASSUME NEW T \in SUBSET Price, T \cap Levels(exch) = {},
             NEW new \in [T -> Level], Send("insert", new)
      PROVE  exch' \in Book /\ ChangesReceived
  <2>1. new \in [T -> Level \cup {NoLevel}] /\ "insert" \in Action
    BY DEF Action
  <2>2. exch' = With(exch, new)
    BY <1>3 DEF Send
  <2>3. exch' \in Book /\ \A p \in T : exch'[p] = new[p]
    BY <2>1, <2>2, WithType
  <2>4. ASSUME NEW p \in T
        PROVE  /\ Fits("insert", OrderAt(exch', p), exch)
               /\ new[p] = Gives("insert", OrderAt(exch', p))
               /\ p \in Levels(exch')
    <3>1. p \in Price /\ exch[p] = NoLevel
      BY <1>3 DEF Levels
    <3>2. new[p] \in Level /\ exch'[p] = new[p]
      BY <2>3
    <3>3. exch'[p] # NoLevel
      BY <3>2 DEF Level, NoLevel, Side
    <3>4. Gives("insert", OrderAt(exch', p)) = [side |-> exch'[p].side, size |-> exch'[p].size]
      BY DEF Gives, LevelOf, OrderAt
    <3>. QED  BY <2>3, <3>1, <3>2, <3>3, <3>4, LevelIsSide DEF Fits, OrderAt, Levels
  <2>. QED  BY <1>1, <1>3, <2>1, <2>4
<1>4. ASSUME NEW T \in SUBSET Price, T \subseteq Levels(exch),
             NEW sizes \in [T -> Size],
             Send("update", [p \in T |-> [side |-> exch[p].side, size |-> sizes[p]]])
      PROVE  exch' \in Book /\ ChangesReceived
  <2>. DEFINE new == [p \in T |-> [side |-> exch[p].side, size |-> sizes[p]]]
  <2>1. "update" \in Action
    BY DEF Action
  <2>2. \A p \in T : exch[p].side \in Side
    BY <1>4, LevelIsSide DEF Levels
  <2>3. \A p \in T : new[p] \in Level
    BY <2>2 DEF Level
  <2>4. new \in [T -> Level \cup {NoLevel}]
    BY <2>3
  <2>5. \A p \in T : new[p] = [side |-> exch[p].side, size |-> sizes[p]]
    OBVIOUS
  <2>. HIDE DEF new
  <2>6. Send("update", new)
    BY <1>4 DEF new
  <2>7. exch' = With(exch, new)
    BY <2>6 DEF Send
  <2>8. exch' \in Book /\ \A p \in T : exch'[p] = new[p]
    BY <2>4, <2>7, WithType
  <2>9. ASSUME NEW p \in T
        PROVE  /\ Fits("update", OrderAt(exch', p), exch)
               /\ new[p] = Gives("update", OrderAt(exch', p))
               /\ p \in Levels(exch')
    <3>1. Gives("update", OrderAt(exch', p)) = [side |-> exch'[p].side, size |-> exch'[p].size]
      BY DEF Gives, LevelOf, OrderAt
    <3>2. exch'[p] = [side |-> exch[p].side, size |-> sizes[p]] /\ exch'[p] = new[p]
      BY <2>5, <2>8
    <3>3. exch'[p] # NoLevel
      BY <2>2, <3>2 DEF NoLevel, Side
    <3>. QED  BY <3>1, <3>2, <3>3 DEF Fits, OrderAt, Levels
  <2>. QED  BY <1>1, <2>1, <2>4, <2>6, <2>9
<1>5. \A n \in Nat, S \in SUBSET Price : \A T \in UpTo(n, S) : T \in SUBSET Price /\ T \subseteq S
  BY DEF UpTo
<1>6. Levels(exch) \in SUBSET Price /\ Price \ Levels(exch) \in SUBSET Price
  BY DEF Levels
<1>7. \A T : T \subseteq Price \ Levels(exch) => T \cap Levels(exch) = {}
  OBVIOUS
<1>8. CASE \E T \in UpTo(MaxBatch, Levels(exch)) : Send("delete", [p \in T |-> NoLevel])
  BY <1>2, <1>5, <1>6, <1>8, MaxBatchAssumption
<1>9. CASE \E T \in UpTo(MaxBatch, Price \ Levels(exch)) :
               \E new \in [T -> Level] : Send("insert", new)
  <2>1. PICK T \in UpTo(MaxBatch, Price \ Levels(exch)) :
                \E new \in [T -> Level] : Send("insert", new)
    BY <1>9
  <2>2. T \in SUBSET Price /\ T \cap Levels(exch) = {}
    BY <1>5, <1>6, <1>7, MaxBatchAssumption
  <2>. QED  BY <1>3, <2>1, <2>2
<1>10. CASE \E T \in UpTo(MaxBatch, Levels(exch)) :
               \E sizes \in [T -> Size] :
                  /\ \A p \in T : sizes[p] # exch[p].size
                  /\ Send("update", [p \in T |-> [side |-> exch[p].side, size |-> sizes[p]]])
  <2>1. PICK T \in UpTo(MaxBatch, Levels(exch)) :
                \E sizes \in [T -> Size] :
                   Send("update", [p \in T |-> [side |-> exch[p].side, size |-> sizes[p]]])
    BY <1>10
  <2>2. T \in SUBSET Price /\ T \subseteq Levels(exch)
    BY <1>5, <1>6, MaxBatchAssumption
  <2>. QED  BY <1>4, <2>1, <2>2
<1>. QED  BY <1>8, <1>9, <1>10 DEF List

(* A list of the changes of the upstream, when the cache has its book.      *)
LEMMA SendStep ==
    ASSUME FeedInv, Running, pc = "idle", synced, NEW act \in Action, NEW list \in Seq(Order),
           exch' \in Book, Leads(act, list, exch, exch'),
           ReceiveList(act, list), UNCHANGED <<synced, early, missed>>
    PROVE  FeedInv'
<1>1. /\ TypeOK /\ TypeOK' /\ FeedTypes' /\ Sides /\ Quotes /\ Flow /\ Progress
      /\ l2Cache = exch /\ merge.phase = "none"
  BY ReceiveListType DEF FeedInv, FeedTypes, Progress, Flow
<1>2. PICK c \in Book : c = exch'
  OBVIOUS
<1>3. Target(c)'
  BY <1>1, <1>2 DEF Target, ToUpdate, ReceiveList
<1>4. Leads(act, list, l2Cache, c)
  BY <1>1, <1>2
<1>5. Start(act, list) /\ pc' = "apply" /\ UNCHANGED <<book, merge, subs, panicked>>
  BY DEF ReceiveList
<1>6. Progress'
  BY <1>3, <1>4, <1>5, StartLeads DEF book, subs
<1>7. Flow'
  BY <1>1, <1>5 DEF Flow, book
<1>8. Sides' /\ Quotes'
  BY <1>1, <1>5 DEF Sides, Quotes, book
<1>9. PanicHasCause'
  BY <1>5 DEF Running, PanicHasCause
<1>. QED  BY <1>1, <1>6, <1>7, <1>8, <1>9 DEF FeedInv

LEMMA DeltaStep == FeedInv /\ Delta => FeedInv'
<1>. SUFFICES ASSUME FeedInv, Delta PROVE FeedInv'
  OBVIOUS
<1>1. synced /\ List /\ UNCHANGED <<synced, early, missed>> /\ exch \in Book
  BY DEF Delta, FeedInv, FeedTypes
<1>2. exch' \in Book
  BY <1>1, ListLeadsOn
<1>3. PICK act \in Action, list \in Seq(Order) :
            Leads(act, list, exch, exch') /\ ReceiveList(act, list)
  BY <1>1, ListLeadsOn DEF ChangesReceived
<1>4. Running /\ pc = "idle"
  BY <1>3 DEF ReceiveList
<1>. QED  BY <1>1, <1>2, <1>3, <1>4, SendStep

LEMMA ReconnectStep == FeedInv /\ Reconnect => FeedInv'
<1>. SUFFICES ASSUME FeedInv, Reconnect PROVE FeedInv'
  OBVIOUS
<1>1. /\ Running /\ pc = "idle" /\ synced' = FALSE /\ early' = early
      /\ UNCHANGED <<vars, missed>> /\ exch \in Book
  BY DEF Reconnect, FeedInv, FeedTypes
<1>2. exch' \in Book
  <2>1. PICK T \in {{}} \cup UpTo(MaxDrift, Price) :
              \E new \in [T -> Level \cup {NoLevel}] : exch' = With(exch, new)
    BY DEF Reconnect
  <2>2. T \in SUBSET Price
    BY DEF UpTo
  <2>. QED  BY <1>1, <2>1, <2>2, WithType
<1>3. TypeOK' /\ FeedTypes' /\ PanicHasCause'
  BY <1>1, <1>2 DEF FeedInv, TypeOK, FeedTypes, PanicHasCause, Running, vars, book, job, subs
<1>4. Sides' /\ Quotes'
  BY <1>1 DEF FeedInv, Sides, Quotes, vars, book
<1>5. Flow' /\ Progress'
  BY <1>1 DEF FeedInv, Flow, Progress, vars, book, job, subs
<1>. QED  BY <1>3, <1>4, <1>5 DEF FeedInv

LEMMA FullSnapshot ==
    ASSUME TypeOK, \A s \in Side : PricesOf(l2Cache, s) \subseteq Range(prices[s])
    PROVE  snapshot(0) = l2Cache
<1>1. snapshot(0) \in Book /\ l2Cache \in Book
  BY SnapshotType DEF TypeOK
<1>. SUFFICES ASSUME NEW p \in Price PROVE snapshot(0)[p] = l2Cache[p]
  BY <1>1, BookEquality
<1>2. CASE l2Cache[p] = NoLevel
  BY <1>2 DEF snapshot
<1>3. CASE l2Cache[p] # NoLevel
  <2>1. PICK s \in Side : l2Cache[p].side = s
    BY <1>1, <1>3, LevelIsSide
  <2>2. PICK j \in 1..Len(prices[s]) : prices[s][j] = p
    <3>1. p \in Range(prices[s]) /\ prices[s] \in Seq(Price)
      BY <2>1 DEF PricesOf, TypeOK
    <3>. QED  BY <3>1 DEF Range
  <2>3. p \in TopPrices(s, 0)
    BY <2>2 DEF TopPrices
  <2>. QED  BY <2>3 DEF snapshot
<1>. QED  BY <1>2, <1>3

LEMMA SubscribeStep == FeedInv /\ (\E d \in Streams : Cache(Subscribe(d))) => FeedInv'
<1>. SUFFICES ASSUME FeedInv, NEW d \in Streams, Cache(Subscribe(d)) PROVE FeedInv'
  OBVIOUS
<1>1. /\ Subscribe(d) /\ Misses /\ UNCHANGED <<exch, synced, early>>
      /\ Running /\ pc = "idle" /\ UNCHANGED <<book, pc, job, merge, panicked>>
  BY DEF Cache, Subscribe
<1>2. TypeOK /\ TypeOK' /\ Sides /\ Quotes /\ Flow /\ Progress
  BY <1>1, SubscribeType DEF FeedInv
<1>3. joined'[0] # "no" => view'[0] = l2Cache
  <2>1. CASE d = 0
    <3>1. view'[0] = snapshot(0)
      BY <1>1, <1>2, <2>1, DepthType DEF Subscribe, TypeOK
    <3>2. \A s \in Side : PricesOf(l2Cache, s) \subseteq Range(prices[s])
      BY <1>2 DEF Sides
    <3>. QED  BY <1>2, <3>1, <3>2, FullSnapshot
  <2>2. CASE d # 0
    <3>1. view'[0] = view[0] /\ joined'[0] = joined[0]
      BY <1>1, <1>2, <2>2, DepthType DEF Subscribe, TypeOK
    <3>. QED  BY <1>1, <1>2, <3>1 DEF Progress
  <2>. QED  BY <2>1, <2>2
<1>4. Progress'
  BY <1>1, <1>2, <1>3 DEF Progress, book
<1>5. Flow'
  BY <1>1, <1>2 DEF Flow, book, job
<1>6. Sides' /\ Quotes'
  BY <1>1, <1>2 DEF Sides, Quotes, book
<1>7. FeedTypes'
  BY <1>1, NothingMissed DEF FeedInv, NamesOtherSide
<1>8. PanicHasCause'
  BY <1>1 DEF Running, PanicHasCause
<1>. QED  BY <1>2, <1>4, <1>5, <1>6, <1>7, <1>8 DEF FeedInv

-----------------------------------------------------------------------------
LEMMA FeedNextInv == FeedInv /\ [FeedNext]_feedVars /\ early' = 0 => FeedInv'
<1>. SUFFICES ASSUME FeedInv, [FeedNext]_feedVars, early' = 0 PROVE FeedInv'
  OBVIOUS
<1>1. ~EarlyDelta
  BY DEF EarlyDelta, FeedInv, FeedTypes
<1>2. CASE UNCHANGED feedVars
  <2>1. TypeOK' /\ FeedTypes' /\ PanicHasCause'
    BY <1>2 DEF FeedInv, TypeOK, FeedTypes, PanicHasCause, feedVars, vars, book, job, subs
  <2>2. Running => Sides' /\ Quotes'
    BY <1>2 DEF FeedInv, Sides, Quotes, feedVars, vars, book
  <2>3. Running => Flow' /\ Progress'
    BY <1>2 DEF FeedInv, Flow, Progress, OnTheWay, Target, ToUpdate, feedVars, vars, book, job, subs
  <2>4. Running' = Running
    BY <1>2 DEF Running, feedVars, vars
  <2>. QED  BY <2>1, <2>2, <2>3, <2>4 DEF FeedInv
<1>. QED  BY <1>1, <1>2, PartialStep, DeltaStep, ReconnectStep, DeleteStep, InsertStep,
             UpdateStep, DispatchStep, MergeInsertStep, MergeUpdateStep, SubscribeStep
          DEF FeedNext

(* FeedInv holds until a list comes before its partial, and early says so.  *)
OnTime == early \in Nat /\ (early = 0 => FeedInv)

LEMMA EarlyGrows ==
    ASSUME early \in Nat, [FeedNext]_feedVars
    PROVE  early' \in Nat /\ (early' = 0 => early = 0)
<1>1. early' = early \/ early' = early + 1
  BY DEF FeedNext, Partial, Delta, EarlyDelta, Reconnect, Cache, feedVars
<1>. QED  BY <1>1

LEMMA OnTimeHolds == FeedSpec => []OnTime
<1>1. FeedInit => OnTime
  BY FeedInitInv DEF OnTime, FeedInit
<1>2. OnTime /\ [FeedNext]_feedVars => OnTime'
  BY FeedNextInv, EarlyGrows DEF OnTime
<1>. QED  BY <1>1, <1>2, PTL DEF FeedSpec

-----------------------------------------------------------------------------
(* The greatest and the least price are those at the end of a ladder.       *)
LEMMA LastIsBest ==
    ASSUME NEW list \in Seq(Price), list # <<>>, NEW r \in BOOLEAN, Ladder(list, r)
    PROVE  Last(list) = IF r THEN Min(Range(list)) ELSE Max(Range(list))
<1>. DEFINE S == Range(list)
            n == Len(list)
            best == list[n]
<1>1. n \in 1..Len(list) /\ best \in S /\ Last(list) = best
  BY DEF Last, Range
<1>2. \A i \in 1..n : list[i] \in Int
  BY PriceIsInt
<1>3. \A q \in S : q \in Int
  BY <1>2 DEF Range
<1>4. \A q \in S : q = best \/ Before(q, best, r)
  <2>1. \A i \in 1..n : i = n \/ i < n
    BY <1>1
  <2>. QED  BY <1>1, <2>1 DEF Ladder, Range
<1>. HIDE DEF S, n, best
<1>5. CASE r
  <2>1. \A q \in S : best <= q
    BY <1>1, <1>3, <1>4, <1>5 DEF Before
  <2>2. \A x \in S : (\A q \in S : x <= q) => x = best
    BY <1>1, <1>3, <2>1
  <2>3. Min(S) = best
    BY <1>1, <2>1, <2>2 DEF Min
  <2>. QED  BY <1>1, <1>5, <2>3 DEF S
<1>6. CASE ~r
  <2>1. \A q \in S : q <= best
    BY <1>1, <1>3, <1>4, <1>6 DEF Before
  <2>2. \A x \in S : (\A q \in S : q <= x) => x = best
    BY <1>1, <1>3, <2>1
  <2>3. Max(S) = best
    BY <1>1, <2>1, <2>2 DEF Max
  <2>. QED  BY <1>1, <1>6, <2>3 DEF S
<1>. QED  BY <1>5, <1>6

LEMMA QuoteFromLadder == OnTime => QuoteIsTop
<1>. SUFFICES ASSUME FeedInv, Running, inited, NEW s \in Side
              PROVE  /\ PricesOf(l2Cache, s) # {}
                     /\ LET best == IF s = "Sell" THEN Min(PricesOf(l2Cache, s))
                                                  ELSE Max(PricesOf(l2Cache, s))
                        IN  quote[s] = [price |-> best, size |-> l2Cache[best].size]
  BY DEF QuoteIsTop, OnTime
<1>1. /\ prices[s] \in Seq(Price) /\ prices[s] # <<>>
      /\ quote[s] = BestOf(prices[s], l2Cache)
      /\ Ladder(prices[s], Descending(s))
      /\ Range(prices[s]) = PricesOf(l2Cache, s)
  BY DEF FeedInv, TypeOK, Sides, Quotes
<1>2. PricesOf(l2Cache, s) # {}
  <2>1. Last(prices[s]) \in Range(prices[s])
    BY <1>1 DEF Last, Range
  <2>. QED  BY <1>1, <2>1
<1>3. Last(prices[s]) = IF Descending(s) THEN Min(PricesOf(l2Cache, s))
                                         ELSE Max(PricesOf(l2Cache, s))
  <2>1. Descending(s) \in BOOLEAN
    BY DEF Descending
  <2>2. Last(prices[s]) = IF Descending(s) THEN Min(Range(prices[s])) ELSE Max(Range(prices[s]))
    BY <1>1, <2>1, LastIsBest
  <2>. QED  BY <1>1, <2>2
<1>. QED  BY <1>1, <1>2, <1>3 DEF BestOf, Descending

-----------------------------------------------------------------------------
(* As long as every connection begins with its partial, between any two     *)
(* orders of any list each ladder is sorted and has exactly the prices of   *)
(* its side in the map (handleDelete, handleInsert, handlePartial).         *)
THEOREM BookStaysConsistent == FeedSpec => []BookConsistent
<1>1. OnTime => BookConsistent
  BY DEF OnTime, FeedInv, Sides, BookConsistent
<1>. QED  BY <1>1, OnTimeHolds, PTL

(* ... and the quotes are the lowest ask and the highest bid of the map,    *)
(* with their sizes, though they are only ever moved by one order.          *)
THEOREM QuoteStaysTop == FeedSpec => []QuoteIsTop
  BY QuoteFromLadder, OnTimeHolds, PTL

-----------------------------------------------------------------------------
(* The limited stream.  The best Limit prices of a ladder, and what removing *)
(* or adding a price does to them.                                          *)
Top(list) == {list[i] : i \in {j \in 1..Len(list) : j > Len(list) - Limit}}

LEMMA LadderDistinct ==
    ASSUME NEW list \in Seq(Price), NEW r \in BOOLEAN, Ladder(list, r),
           NEW i \in 1..Len(list), NEW j \in 1..Len(list), list[i] = list[j]
    PROVE  i = j
<1>1. list[i] \in Int /\ list[j] \in Int
  BY PriceIsInt
<1>2. ~Before(list[i], list[j], r) /\ ~Before(list[j], list[i], r)
  BY <1>1 DEF Before
<1>3. ~(i < j) /\ ~(j < i)
  BY <1>2 DEF Ladder
<1>. QED  BY <1>3

(* Removing at j, at depth Len(list) + 1 - j: below the limit nothing       *)
(* changes; above it at most the price now on depth Limit comes in.         *)
LEMMA TopRemoved ==
    ASSUME NEW list \in Seq(Price), NEW j \in 1..Len(list),
           NEW new, new = RemoveAt(list, j)
    PROVE  /\ Len(list) - j + 1 > Limit => Top(new) = Top(list)
           /\ Len(list) - j + 1 <= Limit =>
                /\ Top(list) \ {list[j]} \subseteq Top(new)
                /\ \A p \in Top(new) : \/ p \in Top(list)
                                       \/ /\ Limit <= Len(new)
                                          /\ p = new[Len(new) + 1 - Limit]
<1>0. Len(list) \in Nat
  OBVIOUS
<1>1. /\ Len(new) = Len(list) - 1 /\ Len(list) \in Nat
      /\ \A i \in 1..(Len(list) - 1) : new[i] = IF i < j THEN list[i] ELSE list[i + 1]
  BY <1>0, RemovedList
<1>2. ASSUME Len(list) - j + 1 > Limit PROVE Top(new) = Top(list)
  <2>1. ASSUME NEW i \in 1..Len(new), i > Len(new) - Limit PROVE new[i] \in Top(list)
    <3>1. i + 1 \in 1..Len(list) /\ i + 1 > Len(list) - Limit /\ new[i] = list[i + 1]
      BY <1>1, <1>2, <2>1, LimitAssumption
    <3>. QED  BY <3>1 DEF Top
  <2>2. ASSUME NEW i \in 1..Len(list), i > Len(list) - Limit PROVE list[i] \in Top(new)
    <3>1. i - 1 \in 1..Len(new) /\ i - 1 > Len(new) - Limit /\ new[i - 1] = list[i]
      BY <1>1, <1>2, <2>2, LimitAssumption
    <3>. QED  BY <3>1 DEF Top
  <2>. QED  BY <2>1, <2>2 DEF Top
<1>3. ASSUME Len(list) - j + 1 <= Limit,
             NEW i \in 1..Len(list), i > Len(list) - Limit, list[i] # list[j]
      PROVE  list[i] \in Top(new)
  <2>1. CASE i < j
    <3>1. i \in 1..Len(new) /\ i > Len(new) - Limit /\ new[i] = list[i]
      BY <1>1, <1>3, <2>1, LimitAssumption
    <3>. QED  BY <3>1 DEF Top
  <2>2. CASE i > j
    <3>1. i - 1 \in 1..Len(new) /\ i - 1 > Len(new) - Limit /\ new[i - 1] = list[i]
      BY <1>1, <1>3, <2>2, LimitAssumption
    <3>. QED  BY <3>1 DEF Top
  <2>. QED  BY <1>3, <2>1, <2>2
<1>4. ASSUME Len(list) - j + 1 <= Limit, NEW i \in 1..Len(new), i > Len(new) - Limit
      PROVE  \/ new[i] \in Top(list)
             \/ Limit <= Len(new) /\ i = Len(new) + 1 - Limit
  <2>1. CASE i = Len(new) + 1 - Limit
    BY <1>1, <1>4, <2>1, LimitAssumption
  <2>2. CASE i # Len(new) + 1 - Limit
    <3>0. i \in Int /\ Len(new) \in Int /\ Len(list) \in Int /\ Limit \in Int
      BY <1>0, <1>1, LimitAssumption
    <3>2. i \in 1..Len(list) /\ i + 1 \in 1..Len(list)
      BY <1>1, <1>4, <3>0
    <3>3. i > Len(new) - Limit /\ i # Len(new) + 1 - Limit /\ Len(new) = Len(list) - 1
      BY <1>1, <1>4, <2>2
    <3>4. i > Len(list) - Limit /\ i + 1 > Len(list) - Limit
      BY <3>0, <3>3
    <3>5. new[i] = list[i] \/ new[i] = list[i + 1]
      BY <1>1
    <3>. QED  BY <3>2, <3>4, <3>5 DEF Top
  <2>. QED  BY <2>1, <2>2
<1>. QED  BY <1>2, <1>3, <1>4 DEF Top

(* Adding at k + 1, at depth Len(new) - k: below the limit nothing changes; *)
(* above it the price now on depth Limit + 1, and no other, goes out.       *)
LEMMA TopInserted ==
    ASSUME NEW list \in Seq(Price), NEW p \in Price, NEW k \in 0..Len(list),
           NEW new, new = InsertAt(list, k + 1, p)
    PROVE  /\ Len(new) - k > Limit => Top(new) = Top(list)
           /\ Len(new) - k <= Limit =>
                /\ p \in Top(new) /\ Top(new) \subseteq Top(list) \cup {p}
                /\ \A q \in Top(list) : \/ q \in Top(new)
                                        \/ /\ Limit + 1 <= Len(new)
                                           /\ q = new[Len(new) + 1 - (Limit + 1)]
<1>0. Len(list) \in Nat
  OBVIOUS
<1>1. /\ Len(new) = Len(list) + 1 /\ Len(list) \in Nat
      /\ \A i \in 1..(Len(list) + 1) :
            new[i] = IF i <= k THEN list[i] ELSE IF i = k + 1 THEN p ELSE list[i - 1]
  BY <1>0, InsertedList
<1>2. ASSUME Len(new) - k > Limit PROVE Top(new) = Top(list)
  <2>1. ASSUME NEW i \in 1..Len(new), i > Len(new) - Limit PROVE new[i] \in Top(list)
    <3>1. i - 1 \in 1..Len(list) /\ i - 1 > Len(list) - Limit /\ new[i] = list[i - 1]
      BY <1>1, <1>2, <2>1, LimitAssumption
    <3>. QED  BY <3>1 DEF Top
  <2>2. ASSUME NEW i \in 1..Len(list), i > Len(list) - Limit PROVE list[i] \in Top(new)
    <3>0. i \in Int /\ k \in Int /\ Len(new) \in Int /\ Len(list) \in Int /\ Limit \in Int
      BY <1>0, <1>1, LimitAssumption
    <3>1. i + 1 \in 1..Len(new) /\ i + 1 > Len(new) - Limit /\ ~(i + 1 <= k)
          /\ i + 1 # k + 1 /\ (i + 1) - 1 = i
      BY <1>1, <1>2, <2>2, <3>0
    <3>2. new[i + 1] = list[i]
      BY <1>1, <3>1
    <3>. QED  BY <3>1, <3>2 DEF Top
  <2>. QED  BY <2>1, <2>2 DEF Top
<1>3. ASSUME Len(new) - k <= Limit PROVE p \in Top(new)
  <2>1. k + 1 \in 1..Len(new) /\ k + 1 > Len(new) - Limit /\ new[k + 1] = p
    BY <1>1, <1>3, LimitAssumption
  <2>. QED  BY <2>1 DEF Top
<1>4. ASSUME Len(new) - k <= Limit, NEW i \in 1..Len(new), i > Len(new) - Limit
      PROVE  new[i] \in Top(list) \cup {p}
  <2>1. CASE i <= k
    <3>1. i \in 1..Len(list) /\ i > Len(list) - Limit /\ new[i] = list[i]
      BY <1>1, <1>4, <2>1, LimitAssumption
    <3>. QED  BY <3>1 DEF Top
  <2>2. CASE i > k + 1
    <3>1. i - 1 \in 1..Len(list) /\ i - 1 > Len(list) - Limit /\ new[i] = list[i - 1]
      BY <1>1, <1>4, <2>2, LimitAssumption
    <3>. QED  BY <3>1 DEF Top
  <2>. QED  BY <1>1, <2>1, <2>2
<1>5. ASSUME Len(new) - k <= Limit, NEW i \in 1..Len(list), i > Len(list) - Limit
      PROVE  \/ list[i] \in Top(new)
             \/ /\ Limit + 1 <= Len(new)
                /\ list[i] = new[Len(new) + 1 - (Limit + 1)]
  <2>1. CASE i > k
    <3>1. i + 1 \in 1..Len(new) /\ i + 1 > Len(new) - Limit /\ new[i + 1] = list[i]
      BY <1>1, <1>5, <2>1, LimitAssumption
    <3>. QED  BY <3>1 DEF Top
  <2>2. CASE i <= k /\ i > Len(new) - Limit
    <3>1. i \in 1..Len(new) /\ new[i] = list[i]
      BY <1>1, <2>2
    <3>. QED  BY <2>2, <3>1 DEF Top
  <2>3. CASE i <= k /\ ~(i > Len(new) - Limit)
    <3>1. i = Len(new) + 1 - (Limit + 1) /\ new[i] = list[i] /\ Limit + 1 <= Len(new)
      BY <1>1, <1>5, <2>3, LimitAssumption
    <3>. QED  BY <3>1
  <2>. QED  BY <2>1, <2>2, <2>3
<1>. QED  BY <1>2, <1>3, <1>4, <1>5 DEF Top

(* What a subscriber makes of a list, price by price.                       *)
Has(list, p) == \E i \in DOMAIN list : list[i].price = p

LEMMA ApplyAt ==
    ASSUME NEW b \in Book, NEW act \in Action, NEW list \in Seq(Order), NEW p \in Price
    PROVE  /\ ~Has(list, p) => Apply(b, act, list)[p] = b[p]
           /\ Has(list, p) /\ act = "delete" => Apply(b, act, list)[p] = NoLevel
           /\ Has(list, p) /\ act = "update" /\ b[p] = NoLevel =>
                 Apply(b, act, list)[p] = NoLevel
           /\ Has(list, p) /\ act # "delete" /\ (act = "update" => b[p] # NoLevel) =>
                 \E i \in DOMAIN list : /\ list[i].price = p
                                       /\ Apply(b, act, list)[p] = LevelOf(list[i])
<1>. DEFINE mine == {i \in DOMAIN list : list[i].price = p}
            at == CHOOSE i \in mine : TRUE
<1>1. Apply(b, act, list)[p] =
        CASE mine = {} -> b[p]
          [] mine # {} /\ act = "delete" -> NoLevel
          [] mine # {} /\ act = "update" /\ b[p] = NoLevel -> NoLevel
          [] OTHER -> LevelOf(list[at])
  BY DEF Apply
<1>2. Has(list, p) <=> mine # {}
  BY DEF Has
<1>3. mine # {} => at \in DOMAIN list /\ list[at].price = p
  OBVIOUS
<1>. HIDE DEF mine, at
<1>4. ~Has(list, p) => Apply(b, act, list)[p] = b[p]
  BY <1>1, <1>2
<1>5. Has(list, p) /\ act = "delete" => Apply(b, act, list)[p] = NoLevel
  BY <1>1, <1>2
<1>6. Has(list, p) /\ act = "update" /\ b[p] = NoLevel =>
         Apply(b, act, list)[p] = NoLevel
  BY <1>1, <1>2
<1>7. Has(list, p) /\ act # "delete" /\ (act = "update" => b[p] # NoLevel) =>
         Apply(b, act, list)[p] = LevelOf(list[at])
  BY <1>1, <1>2
<1>. QED  BY <1>2, <1>3, <1>4, <1>5, <1>6, <1>7

(* ... of a list of deletions, whatever the book.                           *)
LEMMA DeleteAt ==
    ASSUME NEW b \in Book, NEW list \in Seq(Order), NEW p \in Price
    PROVE  Apply(b, "delete", list)[p] = IF Has(list, p) THEN NoLevel ELSE b[p]
<1>1. "delete" \in Action
  BY DEF Action
<1>. QED  BY <1>1, ApplyAt

(* An order more at the end of a list.                                      *)
LEMMA HasAppend ==
    ASSUME NEW list \in Seq(Order), NEW ord \in Order, NEW p
    PROVE  /\ Append(list, ord) \in Seq(Order)
           /\ Has(Append(list, ord), p) <=> Has(list, p) \/ ord.price = p
           /\ \A i \in DOMAIN Append(list, ord) :
                 \/ i \in DOMAIN list /\ Append(list, ord)[i] = list[i]
                 \/ i = Len(list) + 1 /\ Append(list, ord)[i] = ord
           /\ \A i \in DOMAIN list :
                 i \in DOMAIN Append(list, ord) /\ Append(list, ord)[i] = list[i]
           /\ Len(list) + 1 \in DOMAIN Append(list, ord)
           /\ Append(list, ord)[Len(list) + 1] = ord /\ Len(list) + 1 \notin DOMAIN list
<1>. DEFINE new == Append(list, ord)
            n == Len(list)
<1>1. /\ new \in Seq(Order) /\ DOMAIN new = 1..(n + 1) /\ DOMAIN list = 1..n /\ n \in Nat
      /\ new[n + 1] = ord /\ \A i \in 1..n : new[i] = list[i]
  OBVIOUS
<1>. HIDE DEF new, n
<1>2. ASSUME NEW i \in DOMAIN new
      PROVE  \/ i \in DOMAIN list /\ new[i] = list[i]
             \/ i = n + 1 /\ new[i] = ord
  <2>1. i \in 1..n \/ i = n + 1
    BY <1>1
  <2>. QED  BY <1>1, <2>1
<1>3. /\ \A i \in DOMAIN list : i \in DOMAIN new /\ new[i] = list[i]
      /\ n + 1 \in DOMAIN new /\ new[n + 1] = ord /\ n + 1 \notin DOMAIN list
  BY <1>1
<1>4. Has(new, p) <=> Has(list, p) \/ ord.price = p
  BY <1>2, <1>3 DEF Has
<1>. QED  BY <1>1, <1>2, <1>3, <1>4 DEF new, n

(* GetOrderOnDepth gives one order, of the price on that depth, or none.    *)
LEMMA OnDepthIs ==
    ASSUME NEW list \in Seq(Price), NEW b \in Book, NEW at \in Nat \ {0},
           \A q \in Range(list) : b[q] # NoLevel
    PROVE  \/ at > Len(list) /\ GetOrderOnDepth(list, b, at) = <<>>
           \/ /\ at <= Len(list) /\ list[Len(list) + 1 - at] \in Range(list)
              /\ GetOrderOnDepth(list, b, at) = <<OrderAt(b, list[Len(list) + 1 - at])>>
<1>1. CASE at > Len(list)
  BY <1>1 DEF GetOrderOnDepth
<1>2. CASE at <= Len(list)
  <2>1. Len(list) + 1 - at \in 1..Len(list)
    BY <1>2
  <2>2. list[Len(list) + 1 - at] \in Range(list)
    BY <2>1 DEF Range
  <2>. QED  BY <1>2, <2>2 DEF GetOrderOnDepth
<1>. QED  BY <1>1, <1>2

-----------------------------------------------------------------------------
(* What the subscriber of the limited stream has, or will have when what    *)
(* has been collected of a list so far is published, has the best levels of *)
(* the book as it is (Covers), and no others (OnlyTop) unless a list has    *)
(* deleted two levels of a side.                                            *)
Pub(v, act, gone, made) == Apply(Apply(v, act, gone), Opposite(act), made)

Seen == Pub(view[Limit], action, delta, makeup)

Twice(list) == \E i, j \in DOMAIN list : i # j /\ list[i].side = list[j].side

Covers(v) == \A s \in Side : \A p \in TopPrices(s, Limit) : v[p] = l2Cache[p]

OnlyTop(v) ==
    \A p \in Price : (\A s \in Side : p \notin TopPrices(s, Limit)) => v[p] = NoLevel

(* The collected lists fit the book: a level made up for a deletion is that *)
(* of the book as long as it has one, and a level inserted or updated that  *)
(* of the book; a level is updated once.                                    *)
Collected ==
    /\ action = "delete" => \A i \in DOMAIN makeup :
          /\ l2Cache[makeup[i].price] # NoLevel =>
                l2Cache[makeup[i].price] = LevelOf(makeup[i])
          /\ \E j \in DOMAIN delta : delta[j].side = makeup[i].side
    /\ action # "delete" => \A i \in DOMAIN delta :
          l2Cache[delta[i].price] = LevelOf(delta[i])
    /\ action = "insert" => \A i \in DOMAIN makeup : l2Cache[makeup[i].price] # NoLevel
    /\ action = "update" =>
          /\ makeup = <<>>
          /\ \A i \in DOMAIN delta, j \in DOMAIN todo : delta[i].price # todo[j].price

DepthJob ==
    /\ Collected
    /\ Covers(Seen)
    /\ Limit \notin missed /\ ~(action = "delete" /\ Twice(delta)) => OnlyTop(Seen)

DepthInv ==
    Running /\ joined[Limit] = "yes" =>
        /\ inited
        /\ pc = "apply" => DepthJob
        /\ pc # "apply" => /\ Covers(view[Limit])
                           /\ Limit \notin missed => OnlyTop(view[Limit])

LEMMA PubDelete ==
    ASSUME NEW v \in Book, NEW gone \in Seq(Order), NEW made \in Seq(Order), NEW p \in Price
    PROVE  /\ ~Has(made, p) =>
                 Pub(v, "delete", gone, made)[p] = IF Has(gone, p) THEN NoLevel ELSE v[p]
           /\ Has(made, p) =>
                 \E i \in DOMAIN made : /\ made[i].price = p
                                       /\ Pub(v, "delete", gone, made)[p] = LevelOf(made[i])
<1>. DEFINE w == Apply(v, "delete", gone)
<1>1. "delete" \in Action /\ "insert" \in Action /\ Opposite("delete") = "insert"
  BY DEF Action, Opposite
<1>2. w \in Book /\ w[p] = IF Has(gone, p) THEN NoLevel ELSE v[p]
  BY <1>1, ApplyType, ApplyAt
<1>3. Pub(v, "delete", gone, made) = Apply(w, "insert", made)
  BY <1>1 DEF Pub
<1>. HIDE DEF w
<1>. QED  BY <1>1, <1>2, <1>3, ApplyAt

LEMMA PubInsert ==
    ASSUME NEW v \in Book, NEW new \in Seq(Order), NEW out \in Seq(Order), NEW p \in Price
    PROVE  /\ Has(out, p) => Pub(v, "insert", new, out)[p] = NoLevel
           /\ ~Has(out, p) /\ ~Has(new, p) => Pub(v, "insert", new, out)[p] = v[p]
           /\ ~Has(out, p) /\ Has(new, p) =>
                 \E i \in DOMAIN new : /\ new[i].price = p
                                      /\ Pub(v, "insert", new, out)[p] = LevelOf(new[i])
<1>. DEFINE w == Apply(v, "insert", new)
<1>1. "delete" \in Action /\ "insert" \in Action /\ Opposite("insert") = "delete"
  BY DEF Action, Opposite
<1>2. /\ w \in Book
      /\ ~Has(new, p) => w[p] = v[p]
      /\ Has(new, p) => \E i \in DOMAIN new : new[i].price = p /\ w[p] = LevelOf(new[i])
  BY <1>1, ApplyType, ApplyAt
<1>3. Pub(v, "insert", new, out) = Apply(w, "delete", out)
  BY <1>1 DEF Pub
<1>. HIDE DEF w
<1>4. Apply(w, "delete", out)[p] = IF Has(out, p) THEN NoLevel ELSE w[p]
  BY <1>2, DeleteAt
<1>. QED  BY <1>2, <1>3, <1>4

LEMMA PubUpdate ==
    ASSUME NEW v \in Book, NEW new \in Seq(Order), NEW p \in Price
    PROVE  /\ ~Has(new, p) => Pub(v, "update", new, <<>>)[p] = v[p]
           /\ v[p] = NoLevel => Pub(v, "update", new, <<>>)[p] = NoLevel
           /\ Has(new, p) /\ v[p] # NoLevel =>
                 \E i \in DOMAIN new : /\ new[i].price = p
                                      /\ Pub(v, "update", new, <<>>)[p] = LevelOf(new[i])
<1>. DEFINE w == Apply(v, "update", new)
<1>1. "delete" \in Action /\ "update" \in Action /\ Opposite("update") = "delete"
      /\ <<>> \in Seq(Order) /\ ~Has(<<>>, p)
  BY DEF Action, Opposite, Has
<1>2. /\ w \in Book
      /\ ~Has(new, p) => w[p] = v[p]
      /\ v[p] = NoLevel => w[p] = NoLevel
      /\ Has(new, p) /\ v[p] # NoLevel =>
            \E i \in DOMAIN new : new[i].price = p /\ w[p] = LevelOf(new[i])
  BY <1>1, ApplyType, ApplyAt
<1>3. Pub(v, "update", new, <<>>) = Apply(w, "delete", <<>>)
  BY <1>1 DEF Pub
<1>. HIDE DEF w
<1>4. Apply(w, "delete", <<>>)[p] = w[p]
  BY <1>1, <1>2, DeleteAt
<1>. QED  BY <1>2, <1>3, <1>4

(* Before anything has been collected.                                      *)
LEMMA PubNothing ==
    ASSUME NEW v \in Book, NEW act \in Action
    PROVE  Pub(v, act, <<>>, <<>>) = v
<1>1. <<>> \in Seq(Order) /\ \A p : ~Has(<<>>, p)
  BY DEF Has
<1>2. act \in Action /\ Opposite(act) \in Action
  BY DEF Action, Opposite
<1>3. Apply(v, act, <<>>) \in Book /\ \A p \in Price : Apply(v, act, <<>>)[p] = v[p]
  BY <1>1, <1>2, ApplyType, ApplyAt
<1>4. Apply(v, act, <<>>) = v
  BY <1>3, BookEquality
<1>5. Apply(v, Opposite(act), <<>>) \in Book
      /\ \A p \in Price : Apply(v, Opposite(act), <<>>)[p] = v[p]
  BY <1>1, <1>2, ApplyType, ApplyAt
<1>6. Apply(v, Opposite(act), <<>>) = v
  BY <1>5, BookEquality
<1>. QED  BY <1>4, <1>6 DEF Pub

LEMMA LevelOfType ==
    ASSUME NEW ord \in Order
    PROVE  /\ LevelOf(ord) # NoLevel /\ LevelOf(ord).side = ord.side /\ ord.side \in Side
           /\ ord.price \in Price
  BY DEF LevelOf, NoLevel, Order, Side
-----------------------------------------------------------------------------
(* One order of a list: what becomes of its ladder, and on what depth it    *)
(* is collected.                                                            *)
LEMMA DeleteCollects ==
    ASSUME TypeOK, Sides, Quotes, inited, handleDelete, Fits("delete", Head(todo), l2Cache),
           Running'
    PROVE  \E j \in 1..Len(prices[Head(todo).side]) :
              /\ prices[Head(todo).side][j] = Head(todo).price
              /\ prices' = [prices EXCEPT ![Head(todo).side] =
                               RemoveAt(prices[Head(todo).side], j)]
              /\ Collect(Head(todo), Len(prices[Head(todo).side]) - j + 1, Limit)
<1>. DEFINE ord == Head(todo)
            list == prices[ord.side]
            removed == UniPriceRemove(list, ord.price, Descending(ord.side))
            depth == Len(list) - removed.idx
<1>1. todo # <<>> /\ ord \in Order
  BY DEF handleDelete, Applying, TypeOK
<1>2. /\ ord.side \in Side /\ ord.price \in Price /\ list \in Seq(Price)
      /\ l2Cache[ord.price].side = ord.side
  BY <1>1 DEF Order, TypeOK, Fits
<1>3. l2Cache[ord.price] # NoLevel /\ Len(list) \in Nat
      /\ \E j \in 1..Len(list) : list[j] = ord.price
  BY <1>2, LadderPlace
<1>4. PICK j \in 1..Len(list) : list[j] = ord.price
  BY <1>3
<1>5. Ladder(list, Descending(ord.side)) /\ Descending(ord.side) \in BOOLEAN
  BY <1>2 DEF Sides, Descending
<1>6. UniPriceSearch(list, ord.price, Descending(ord.side)) = j - 1
  <2>. HIDE DEF list, ord
  <2>. QED  BY ONLY <1>2, <1>4, <1>5, SearchFinds
<1>7. removed = [idx |-> j - 1, rtn |-> RemoveAt(list, j)]
  <2>1. ~(j - 1 < 0) /\ j - 1 + 1 = j
    OBVIOUS
  <2>. QED  BY <1>6, <2>1 DEF UniPriceRemove
<1>8. /\ removed.idx = j - 1 /\ ~(removed.idx < 0) /\ removed.rtn = RemoveAt(list, j)
      /\ depth = Len(list) - j + 1
  <2>1. removed.idx = j - 1 /\ removed.rtn = RemoveAt(list, j)
    BY <1>7
  <2>. HIDE DEF removed, list
  <2>. QED  BY <1>3, <2>1
<1>. HIDE DEF removed, depth
<1>9. /\ prices' = [prices EXCEPT ![ord.side] = removed.rtn]
      /\ Collect(ord, depth, Limit)
  <2>1. \A why : Panic(why) => why = panicked'
    BY DEF Panic
  <2>2. ~Panic("emptySide") /\ ~Panic("nilOrder")
    BY <2>1 DEF Running
  <2>. QED  BY <1>3, <1>8, <2>2 DEF handleDelete, removed, depth
<1>. QED  BY <1>4, <1>8, <1>9

LEMMA InsertCollects ==
    ASSUME TypeOK, Sides, Quotes, inited, handleInsert, Fits("insert", Head(todo), l2Cache)
    PROVE  \E k \in 0..Len(prices[Head(todo).side]) :
              /\ prices' = [prices EXCEPT ![Head(todo).side] =
                               InsertAt(prices[Head(todo).side], k + 1, Head(todo).price)]
              /\ Collect(Head(todo), Len(prices[Head(todo).side]) + 1 - k, Limit + 1)
<1>. DEFINE ord == Head(todo)
            list == prices[ord.side]
            k == Rank(list, ord.price, Descending(ord.side))
            added == UniPriceAdd(list, ord.price, Descending(ord.side))
            depth == Len(added.rtn) - added.idx
<1>1. todo # <<>> /\ ord \in Order
  BY DEF handleInsert, Applying, TypeOK
<1>2. /\ ord.side \in Side /\ ord.price \in Price /\ list \in Seq(Price)
      /\ l2Cache[ord.price] = NoLevel
  BY <1>1 DEF Order, TypeOK, Fits
<1>3. k \in 0..Len(list)
  BY <1>2, RankType
<1>4. added.idx = k /\ added.rtn = InsertAt(list, k + 1, ord.price)
  <2>1. ord.price \notin Range(list)
    BY <1>2 DEF Sides, PricesOf, NoLevel, Side
  <2>. HIDE DEF list, ord
  <2>. QED  BY <1>2, <2>1, AddFresh
<1>5. Len(added.rtn) = Len(list) + 1
  <2>. HIDE DEF k, added, list, ord
  <2>. QED  BY <1>2, <1>3, <1>4, InsertedList
<1>6. depth = Len(list) + 1 - k
  <2>1. Len(list) \in Nat /\ k \in Int
    BY <1>2, <1>3
  <2>. HIDE DEF k, added, list
  <2>. QED  BY <1>4, <1>5, <2>1
<1>. HIDE DEF added, depth, k
<1>7. /\ prices' = [prices EXCEPT ![ord.side] = added.rtn]
      /\ Collect(ord, depth, Limit + 1)
  BY <1>2 DEF handleInsert, added, depth
<1>. QED  BY <1>3, <1>4, <1>6, <1>7

LEMMA UpdateCollects ==
    ASSUME TypeOK, Sides, Quotes, inited, handleUpdate, Fits("update", Head(todo), l2Cache)
    PROVE  \E j \in 1..Len(prices[Head(todo).side]) :
              /\ prices[Head(todo).side][j] = Head(todo).price
              /\ UNCHANGED prices
              /\ Collect(Head(todo), Len(prices[Head(todo).side]) - j + 1, Limit)
<1>. DEFINE ord == Head(todo)
            list == prices[ord.side]
            idx == UniPriceSearch(list, ord.price, Descending(ord.side))
            depth == Len(list) - idx
<1>1. todo # <<>> /\ ord \in Order
  BY DEF handleUpdate, Applying, TypeOK
<1>2. /\ ord.side \in Side /\ ord.price \in Price /\ list \in Seq(Price)
      /\ l2Cache[ord.price].side = ord.side
  BY <1>1 DEF Order, TypeOK, Fits
<1>3. l2Cache[ord.price] # NoLevel /\ Len(list) \in Nat
      /\ \E j \in 1..Len(list) : list[j] = ord.price
  BY <1>2, LadderPlace
<1>4. PICK j \in 1..Len(list) : list[j] = ord.price
  BY <1>3
<1>5. Ladder(list, Descending(ord.side)) /\ Descending(ord.side) \in BOOLEAN
  BY <1>2 DEF Sides, Descending
<1>6. idx = j - 1
  <2>1. idx = UniPriceSearch(list, list[j], Descending(ord.side))
    BY <1>4
  <2>. HIDE DEF idx, list, ord, depth
  <2>. QED  BY ONLY <1>2, <1>4, <1>5, <2>1, SearchFinds
<1>7. ~(idx < 0) /\ depth = Len(list) - j + 1
  <2>. HIDE DEF idx, list
  <2>. QED  BY <1>3, <1>6
<1>. HIDE DEF idx, depth
<1>8. UNCHANGED prices /\ Collect(ord, depth, Limit)
  BY <1>3, <1>7 DEF handleUpdate, idx, depth
<1>. QED  BY <1>4, <1>7, <1>8
-----------------------------------------------------------------------------
(* One order of a list and the best levels.  Either it is below the limit,  *)
(* and neither they nor the collected lists change; or it is collected, and *)
(* at most one level m comes in from below or goes out.                     *)
LEMMA TopsAre ==
    /\ \A s : TopPrices(s, Limit) = Top(prices[s])
    /\ \A s : TopPrices(s, Limit)' = Top(prices'[s])
  BY LimitAssumption DEF TopPrices, Top

LEMMA TopHasLevel ==
    ASSUME TypeOK, Sides, NEW s \in Side, NEW p \in TopPrices(s, Limit)
    PROVE  p \in Price /\ l2Cache[p].side = s /\ l2Cache[p] # NoLevel
<1>1. p \in Range(prices[s])
  BY DEF TopPrices, Range
<1>2. p \in PricesOf(l2Cache, s)
  BY <1>1 DEF Sides
<1>. QED  BY <1>2 DEF PricesOf, NoLevel, Side

LEMMA PrimedTop ==
    ASSUME TypeOK', Sides', NEW s \in Side, NEW p \in TopPrices(s, Limit)'
    PROVE  p \in Price /\ l2Cache'[p].side = s /\ l2Cache'[p] # NoLevel
<1>1. p \in Range(prices'[s])
  BY DEF TopPrices, Range
<1>2. p \in PricesOf(l2Cache', s)
  BY <1>1 DEF Sides
<1>. QED  BY <1>2 DEF PricesOf, NoLevel, Side

(* Below the limit.                                                         *)
Below(p) == /\ UNCHANGED <<delta, makeup>>
            /\ \A s \in Side : /\ TopPrices(s, Limit)' = TopPrices(s, Limit)
                               /\ p \notin TopPrices(s, Limit)

LEMMA HiddenPrice ==
    ASSUME NEW list \in Seq(Price), NEW r \in BOOLEAN, Ladder(list, r),
           NEW j \in 1..Len(list), Len(list) - j + 1 > Limit
    PROVE  list[j] \notin Top(list)
<1>. SUFFICES ASSUME NEW i \in 1..Len(list), i > Len(list) - Limit, list[i] = list[j]
              PROVE  FALSE
  BY DEF Top
<1>1. i = j
  BY LadderDistinct
<1>. QED  BY <1>1, LimitAssumption

LEMMA DeleteMoves ==
    ASSUME TypeOK, TypeOK', Sides, Sides', Quotes, inited, handleDelete,
           Fits("delete", Head(todo), l2Cache), Running',
           NEW ord, ord = Head(todo)
    PROVE  \/ Below(ord.price)
           \/ /\ delta' = Append(delta, ord)
              /\ \A s \in Side :
                    TopPrices(s, Limit) \ {ord.price} \subseteq TopPrices(s, Limit)'
              /\ \/ /\ UNCHANGED makeup
                    /\ \A s \in Side : TopPrices(s, Limit)' \subseteq TopPrices(s, Limit)
                 \/ \E m \in TopPrices(ord.side, Limit)' :
                       /\ makeup' = makeup \o <<OrderAt(l2Cache', m)>>
                       /\ \A s \in Side : TopPrices(s, Limit)' \subseteq
                                             TopPrices(s, Limit) \cup {m}
<1>. DEFINE side == ord.side
            list == prices[side]
            new == prices'[side]
            at == Len(new) + 1 - Limit
<1>1. todo # <<>> /\ ord \in Order /\ action = "delete"
  BY DEF handleDelete, Applying, TypeOK
<1>2. /\ side \in Side /\ ord.price \in Price
      /\ list \in Seq(Price) /\ new \in Seq(Price) /\ l2Cache' \in Book
      /\ Ladder(list, Descending(side)) /\ Descending(side) \in BOOLEAN
      /\ l2Cache[ord.price].side = ord.side
  BY <1>1 DEF Order, TypeOK, Sides, Descending, Fits
<1>3. PICK j \in 1..Len(list) :
              /\ list[j] = ord.price
              /\ prices' = [prices EXCEPT ![side] = RemoveAt(list, j)]
              /\ Collect(ord, Len(list) - j + 1, Limit)
  BY DeleteCollects
<1>4. new = RemoveAt(list, j) /\ \A s \in Side : s # side => prices'[s] = prices[s]
  BY <1>2, <1>3 DEF TypeOK
<1>5. \A s \in Side : s # side => TopPrices(s, Limit)' = TopPrices(s, Limit)
  BY <1>4, TopsAre
<1>6. /\ Len(list) - j + 1 > Limit => Top(new) = Top(list)
      /\ Len(list) - j + 1 <= Limit =>
           /\ Top(list) \ {ord.price} \subseteq Top(new)
           /\ \A p \in Top(new) : \/ p \in Top(list)
                                  \/ /\ Limit <= Len(new)
                                     /\ p = new[at]
  <2>. HIDE DEF list, new
  <2>. QED  BY ONLY <1>2, <1>3, <1>4, TopRemoved DEF at
<1>7. \A q \in Range(new) : l2Cache'[q] # NoLevel
  BY <1>2 DEF Sides, PricesOf, NoLevel, Side
<1>8. CASE Len(list) - j + 1 > Limit
  <2>1. UNCHANGED <<delta, makeup>>
    BY <1>3, <1>8, LimitAssumption DEF Collect
  <2>2. ord.price \notin Top(list)
    <3>. HIDE DEF list
    <3>. QED  BY <1>2, <1>3, <1>8, HiddenPrice
  <2>3. \A s \in Side : s # side => ord.price \notin TopPrices(s, Limit)
    BY <1>2, TopHasLevel
  <2>. QED  BY <1>5, <1>6, <1>8, <2>1, <2>2, <2>3, TopsAre DEF Below
<1>9. CASE ~(Len(list) - j + 1 > Limit)
  <2>1. /\ delta' = Append(delta, ord)
        /\ makeup' = makeup \o GetOrderOnDepth(new, l2Cache', Limit)
        /\ Len(list) - j + 1 <= Limit
    BY <1>1, <1>3, <1>9, LimitAssumption DEF Collect
  <2>2. \A s \in Side : TopPrices(s, Limit) \ {ord.price} \subseteq TopPrices(s, Limit)'
    BY <1>2, <1>5, <1>6, <2>1, TopsAre
  <2>. HIDE DEF new
  <2>3. \/ Limit > Len(new) /\ GetOrderOnDepth(new, l2Cache', Limit) = <<>>
        \/ /\ Limit <= Len(new) /\ new[at] \in Range(new)
           /\ GetOrderOnDepth(new, l2Cache', Limit) = <<OrderAt(l2Cache', new[at])>>
    BY <1>2, <1>7, OnDepthIs, LimitAssumption
  <2>4. CASE Limit > Len(new) /\ GetOrderOnDepth(new, l2Cache', Limit) = <<>>
    <3>1. makeup' = makeup
      BY <2>1, <2>4, ConcatProperties DEF TypeOK
    <3>2. ~(Limit <= Len(new))
      BY <1>2, <2>4, LimitAssumption
    <3>3. \A s \in Side : TopPrices(s, Limit)' \subseteq TopPrices(s, Limit)
      BY <1>5, <1>6, <2>1, <3>2, TopsAre DEF new
    <3>. QED  BY <2>1, <2>2, <3>1, <3>3
  <2>5. CASE /\ Limit <= Len(new) /\ new[at] \in Range(new)
             /\ GetOrderOnDepth(new, l2Cache', Limit) = <<OrderAt(l2Cache', new[at])>>
    <3>1. at \in 1..Len(new) /\ at > Len(new) - Limit
      BY <1>2, <2>5, LimitAssumption
    <3>2. new[at] \in TopPrices(side, Limit)'
      <4>1. new[at] \in Top(new)
        BY <3>1 DEF Top
      <4>. QED  BY <4>1, TopsAre DEF new
    <3>3. \A s \in Side : TopPrices(s, Limit)' \subseteq TopPrices(s, Limit) \cup {new[at]}
      BY <1>5, <1>6, <2>1, TopsAre DEF new
    <3>. QED  BY <2>1, <2>2, <2>5, <3>2, <3>3
  <2>. QED  BY <2>3, <2>4, <2>5
<1>. QED  BY <1>8, <1>9

LEMMA InsertMoves ==
    ASSUME TypeOK, TypeOK', Sides, Sides', Quotes, inited, handleInsert,
           Fits("insert", Head(todo), l2Cache),
           NEW ord, ord = Head(todo)
    PROVE  \/ Below(ord.price)
           \/ /\ delta' = Append(delta, ord)
              /\ ord.price \in TopPrices(ord.side, Limit)'
              /\ \A s \in Side : TopPrices(s, Limit)' \subseteq
                                    TopPrices(s, Limit) \cup {ord.price}
              /\ \/ /\ UNCHANGED makeup
                    /\ \A s \in Side : TopPrices(s, Limit) \subseteq TopPrices(s, Limit)'
                 \/ \E m \in Price :
                       /\ makeup' = makeup \o <<OrderAt(l2Cache', m)>>
                       /\ l2Cache'[m] # NoLevel
                       /\ \A s \in Side :
                             /\ m \notin TopPrices(s, Limit)'
                             /\ TopPrices(s, Limit) \subseteq TopPrices(s, Limit)' \cup {m}
<1>. DEFINE side == ord.side
            list == prices[side]
            new == prices'[side]
            at == Len(new) + 1 - (Limit + 1)
<1>1. todo # <<>> /\ ord \in Order /\ action = "insert"
  BY DEF handleInsert, Applying, TypeOK
<1>2. /\ side \in Side /\ ord.price \in Price
      /\ list \in Seq(Price) /\ new \in Seq(Price) /\ l2Cache' \in Book
      /\ Ladder(new, Descending(side)) /\ Descending(side) \in BOOLEAN
      /\ l2Cache[ord.price] = NoLevel
  BY <1>1 DEF Order, TypeOK, Sides, Descending, Fits
<1>3. PICK k \in 0..Len(list) :
              /\ prices' = [prices EXCEPT ![side] = InsertAt(list, k + 1, ord.price)]
              /\ Collect(ord, Len(list) + 1 - k, Limit + 1)
  BY InsertCollects
<1>4. new = InsertAt(list, k + 1, ord.price)
      /\ \A s \in Side : s # side => prices'[s] = prices[s]
  BY <1>2, <1>3 DEF TypeOK
<1>5. \A s \in Side : s # side => TopPrices(s, Limit)' = TopPrices(s, Limit)
  BY <1>4, TopsAre
<1>6. /\ Len(new) = Len(list) + 1
      /\ Len(new) - k > Limit => Top(new) = Top(list)
      /\ Len(new) - k <= Limit =>
           /\ ord.price \in Top(new) /\ Top(new) \subseteq Top(list) \cup {ord.price}
           /\ \A q \in Top(list) : \/ q \in Top(new)
                                   \/ /\ Limit + 1 <= Len(new)
                                      /\ q = new[at]
  <2>. HIDE DEF list, new
  <2>1. Len(new) = Len(list) + 1
    BY ONLY <1>2, <1>3, <1>4, InsertedList
  <2>. QED  BY ONLY <1>2, <1>3, <1>4, <2>1, TopInserted DEF at
<1>7. \A q \in Range(new) : q \in Price /\ l2Cache'[q] # NoLevel /\ l2Cache'[q].side = side
  BY <1>2 DEF Sides, PricesOf, NoLevel, Side
<1>8. CASE Len(new) - k > Limit
  <2>1. UNCHANGED <<delta, makeup>>
    BY <1>3, <1>6, <1>8, LimitAssumption DEF Collect
  <2>2. \A s \in Side : ord.price \notin TopPrices(s, Limit)
    BY <1>2, TopHasLevel
  <2>. QED  BY <1>5, <1>6, <1>8, <2>1, <2>2, TopsAre DEF Below
<1>9. CASE ~(Len(new) - k > Limit)
  <2>0. Len(new) - k <= Limit /\ Len(list) + 1 - k <= Limit
    <3>. HIDE DEF new, list
    <3>. QED  BY <1>2, <1>3, <1>6, <1>9, LimitAssumption
  <2>1. /\ delta' = Append(delta, ord)
        /\ makeup' = makeup \o GetOrderOnDepth(new, l2Cache', Limit + 1)
    BY <1>1, <1>3, <2>0 DEF Collect
  <2>2. /\ ord.price \in TopPrices(side, Limit)'
        /\ \A s \in Side : TopPrices(s, Limit)' \subseteq TopPrices(s, Limit) \cup {ord.price}
    <3>1. ord.price \in Top(new) /\ Top(new) \subseteq Top(list) \cup {ord.price}
      BY <1>6, <2>0
    <3>2. TopPrices(side, Limit)' = Top(new) /\ TopPrices(side, Limit) = Top(list)
      BY TopsAre
    <3>. QED  BY <1>5, <3>1, <3>2
  <2>. HIDE DEF new
  <2>3. \/ Limit + 1 > Len(new) /\ GetOrderOnDepth(new, l2Cache', Limit + 1) = <<>>
        \/ /\ Limit + 1 <= Len(new) /\ new[at] \in Range(new)
           /\ GetOrderOnDepth(new, l2Cache', Limit + 1) = <<OrderAt(l2Cache', new[at])>>
    <3>1. Limit + 1 \in Nat \ {0}
      BY LimitAssumption
    <3>. QED  BY <1>2, <1>7, <3>1, OnDepthIs
  <2>4. CASE Limit + 1 > Len(new) /\ GetOrderOnDepth(new, l2Cache', Limit + 1) = <<>>
    <3>1. makeup' = makeup
      BY <2>1, <2>4, ConcatProperties DEF TypeOK
    <3>2. ~(Limit + 1 <= Len(new))
      <4>1. Len(new) \in Nat
        BY <1>2
      <4>. HIDE DEF at
      <4>. QED  BY ONLY <4>1, <2>4, LimitAssumption
    <3>3. \A s \in Side : TopPrices(s, Limit) \subseteq TopPrices(s, Limit)'
      BY <1>5, <1>6, <2>0, <3>2, TopsAre DEF new
    <3>. QED  BY <2>1, <2>2, <3>1, <3>3
  <2>5. CASE /\ Limit + 1 <= Len(new) /\ new[at] \in Range(new)
             /\ GetOrderOnDepth(new, l2Cache', Limit + 1) = <<OrderAt(l2Cache', new[at])>>
    <3>1. at \in 1..Len(new) /\ Len(new) - at + 1 > Limit
      BY <1>2, <2>5, LimitAssumption
    <3>. HIDE DEF at
    <3>2. new[at] \notin TopPrices(side, Limit)'
      <4>1. new[at] \notin Top(new)
        BY <1>2, <3>1, HiddenPrice
      <4>. QED  BY <4>1, TopsAre DEF new
    <3>3. \A s \in Side : s # side => new[at] \notin TopPrices(s, Limit)'
      <4>1. \A s \in Side : \A p \in TopPrices(s, Limit)' : l2Cache'[p].side = s
        BY PrimedTop
      <4>. QED  BY <1>7, <2>5, <4>1
    <3>4. \A s \in Side : TopPrices(s, Limit) \subseteq TopPrices(s, Limit)' \cup {new[at]}
      BY <1>5, <1>6, <2>0, TopsAre DEF new
    <3>5. new[at] \in Price /\ l2Cache'[new[at]] # NoLevel
      BY <1>7, <2>5
    <3>6. \A s \in Side : new[at] \notin TopPrices(s, Limit)'
      BY <3>2, <3>3
    <3>. QED  BY <2>1, <2>2, <2>5, <3>4, <3>5, <3>6
  <2>. QED  BY <2>3, <2>4, <2>5
<1>. QED  BY <1>8, <1>9

LEMMA UpdateMoves ==
    ASSUME TypeOK, Sides, Quotes, inited, handleUpdate, Fits("update", Head(todo), l2Cache),
           NEW ord, ord = Head(todo)
    PROVE  /\ \A s \in Side : TopPrices(s, Limit)' = TopPrices(s, Limit)
           /\ \/ Below(ord.price)
              \/ /\ delta' = Append(delta, ord) /\ UNCHANGED makeup
                 /\ ord.price \in TopPrices(ord.side, Limit)
<1>. DEFINE side == ord.side
            list == prices[side]
<1>1. todo # <<>> /\ ord \in Order /\ action = "update"
  BY DEF handleUpdate, Applying, TypeOK
<1>2. /\ side \in Side /\ ord.price \in Price /\ list \in Seq(Price)
      /\ Ladder(list, Descending(side)) /\ Descending(side) \in BOOLEAN
      /\ l2Cache[ord.price].side = ord.side
  BY <1>1 DEF Order, TypeOK, Sides, Descending, Fits
<1>3. PICK j \in 1..Len(list) :
              /\ list[j] = ord.price
              /\ UNCHANGED prices
              /\ Collect(ord, Len(list) - j + 1, Limit)
  BY UpdateCollects
<1>4. \A s \in Side : TopPrices(s, Limit)' = TopPrices(s, Limit)
  BY <1>3, TopsAre
<1>5. CASE Len(list) - j + 1 > Limit
  <2>1. UNCHANGED <<delta, makeup>>
    BY <1>3, <1>5, LimitAssumption DEF Collect
  <2>2. ord.price \notin Top(list)
    <3>. HIDE DEF list
    <3>. QED  BY <1>2, <1>3, <1>5, HiddenPrice
  <2>3. \A s \in Side : s # side => ord.price \notin TopPrices(s, Limit)
    BY <1>2, TopHasLevel
  <2>. QED  BY <1>4, <2>1, <2>2, <2>3, TopsAre DEF Below
<1>6. CASE ~(Len(list) - j + 1 > Limit)
  <2>1. delta' = Append(delta, ord) /\ UNCHANGED makeup
    BY <1>1, <1>3, <1>6, LimitAssumption DEF Collect
  <2>2. j > Len(list) - Limit
    <3>. HIDE DEF list
    <3>. QED  BY <1>2, <1>3, <1>6, LimitAssumption
  <2>3. ord.price \in Top(list)
    BY <1>3, <2>2 DEF Top
  <2>. QED  BY <1>4, <2>1, <2>3, TopsAre
<1>. QED  BY <1>5, <1>6
-----------------------------------------------------------------------------
(* One order of a list and what the subscriber will have.                   *)

(* What a list leaves of the book, but for the price of the order.          *)
LEMMA OrderChanges ==
    ASSUME TypeOK, NEW act \in Action, NEW ord, ord = Head(todo), todo # <<>>,
           Applied(act, ord), Fits(act, ord, l2Cache)
    PROVE  /\ ord \in Order /\ ord.price \in Price /\ ord.side \in Side
           /\ \A q \in Price : q # ord.price => l2Cache'[q] = l2Cache[q]
           /\ l2Cache'[ord.price] = Gives(act, ord)
           /\ act = "insert" => l2Cache[ord.price] = NoLevel
           /\ act # "insert" => /\ l2Cache[ord.price].side = ord.side
                                /\ l2Cache[ord.price] # NoLevel
           /\ view' = view /\ action' = action /\ todo' = Tail(todo)
<1>1. ord \in Order /\ ord.price \in Price /\ ord.side \in Side
  <2>1. ord \in Order
    BY DEF TypeOK
  <2>. QED  BY <2>1 DEF Order
<1>2. \A q \in Price : l2Cache'[q] = IF q = ord.price THEN Gives(act, ord) ELSE l2Cache[q]
  BY <1>1 DEF Applied, TypeOK, Book
<1>3. act # "insert" => l2Cache[ord.price].side = ord.side /\ l2Cache[ord.price] # NoLevel
  BY <1>1 DEF Fits, NoLevel, Side
<1>. QED  BY <1>1, <1>2, <1>3 DEF Applied, Fits

(* The step as the subscriber sees it, price by price.                      *)
LEMMA SeenTypes ==
    ASSUME TypeOK
    PROVE  /\ view[Limit] \in Book /\ delta \in Seq(Order) /\ makeup \in Seq(Order)
           /\ \A i \in DOMAIN delta : delta[i] \in Order
           /\ \A i \in DOMAIN makeup : makeup[i] \in Order
<1>1. view[Limit] \in Book /\ delta \in Seq(Order) /\ makeup \in Seq(Order)
  BY DepthType DEF TypeOK
<1>. QED  BY <1>1

LEMMA DeleteDepth ==
    ASSUME TypeOK, TypeOK', Sides, Sides', Quotes, inited, handleDelete, Running',
           Fits("delete", Head(todo), l2Cache), Applied("delete", Head(todo)),
           DepthJob, Limit \in missed => Limit \in missed'
    PROVE  DepthJob'
<1>1. PICK ord : ord = Head(todo)
  OBVIOUS
<1>2. action = "delete" /\ todo # <<>> /\ "delete" \in Action
  BY DEF handleDelete, Applying, Action
<1>3. /\ ord \in Order /\ ord.price \in Price /\ ord.side \in Side
      /\ \A q \in Price : q # ord.price => l2Cache'[q] = l2Cache[q]
      /\ l2Cache'[ord.price] = NoLevel
      /\ l2Cache[ord.price].side = ord.side /\ l2Cache[ord.price] # NoLevel
      /\ view' = view /\ action' = "delete"
  BY <1>1, <1>2, OrderChanges DEF Gives
<1>4. PICK v \in Book : v = view[Limit]
  BY SeenTypes
<1>5. /\ delta \in Seq(Order) /\ makeup \in Seq(Order)
      /\ delta' \in Seq(Order) /\ makeup' \in Seq(Order)
      /\ \A i \in DOMAIN makeup : makeup[i].price \in Price /\ LevelOf(makeup[i]) # NoLevel
                                  /\ LevelOf(makeup[i]).side = makeup[i].side
  <2>1. \A i \in DOMAIN makeup : makeup[i] \in Order
    BY SeenTypes
  <2>. QED  BY <2>1, LevelOfType DEF TypeOK
<1>6. Seen = Pub(v, "delete", delta, makeup) /\ Seen' = Pub(v, "delete", delta', makeup')
  BY <1>2, <1>3, <1>4 DEF Seen
<1>7. ASSUME NEW q \in Price
      PROVE  /\ ~Has(makeup, q) => Seen[q] = IF Has(delta, q) THEN NoLevel ELSE v[q]
             /\ Has(makeup, q) =>
                   \E i \in DOMAIN makeup : makeup[i].price = q /\ Seen[q] = LevelOf(makeup[i])
  BY <1>5, <1>6, PubDelete
<1>8. ASSUME NEW q \in Price
      PROVE  /\ ~Has(makeup', q) => Seen'[q] = IF Has(delta', q) THEN NoLevel ELSE v[q]
             /\ Has(makeup', q) =>
                   \E i \in DOMAIN makeup' :
                      makeup'[i].price = q /\ Seen'[q] = LevelOf(makeup'[i])
  BY <1>5, <1>6, PubDelete
<1>9. \A s \in Side : \A p \in TopPrices(s, Limit)' :
          /\ p \in Price /\ l2Cache'[p].side = s /\ l2Cache'[p] # NoLevel /\ p # ord.price
  BY <1>3, PrimedTop
<1>10. /\ Collected
       /\ \A s \in Side : \A p \in TopPrices(s, Limit) : Seen[p] = l2Cache[p]
       /\ Limit \notin missed /\ ~Twice(delta) =>
             \A p \in Price : (\A s \in Side : p \notin TopPrices(s, Limit)) => Seen[p] = NoLevel
  BY <1>2 DEF DepthJob, Covers, OnlyTop
<1>11. \A i \in DOMAIN makeup :
          /\ l2Cache[makeup[i].price] # NoLevel =>
                l2Cache[makeup[i].price] = LevelOf(makeup[i])
          /\ \E j \in DOMAIN delta : delta[j].side = makeup[i].side
  BY <1>2, <1>10 DEF Collected
<1>12. SUFFICES
         /\ \A i \in DOMAIN makeup' :
               /\ l2Cache'[makeup'[i].price] # NoLevel =>
                     l2Cache'[makeup'[i].price] = LevelOf(makeup'[i])
               /\ \E j \in DOMAIN delta' : delta'[j].side = makeup'[i].side
         /\ \A s \in Side : \A p \in TopPrices(s, Limit)' : Seen'[p] = l2Cache'[p]
         /\ Limit \notin missed' /\ ~Twice(delta') =>
               \A p \in Price : (\A s \in Side : p \notin TopPrices(s, Limit)')
                                   => Seen'[p] = NoLevel
  BY <1>3 DEF DepthJob, Collected, Covers, OnlyTop
<1>13. CASE Below(ord.price)
  <2>1. /\ delta' = delta /\ makeup' = makeup
        /\ \A s \in Side : /\ TopPrices(s, Limit)' = TopPrices(s, Limit)
                           /\ ord.price \notin TopPrices(s, Limit)
    BY <1>13 DEF Below
  <2>2. Seen' = Seen /\ Twice(delta') = Twice(delta)
    BY <1>6, <2>1 DEF Twice
  <2>3. \A i \in DOMAIN makeup :
          l2Cache'[makeup[i].price] # NoLevel => l2Cache'[makeup[i].price] = LevelOf(makeup[i])
    BY <1>3, <1>5, <1>11
  <2>. QED  BY <1>3, <1>9, <1>10, <1>11, <2>1, <2>2, <2>3
<1>14. ASSUME delta' = Append(delta, ord),
              \A s \in Side : TopPrices(s, Limit) \ {ord.price} \subseteq TopPrices(s, Limit)',
              \/ /\ UNCHANGED makeup
                 /\ \A s \in Side : TopPrices(s, Limit)' \subseteq TopPrices(s, Limit)
              \/ \E m \in TopPrices(ord.side, Limit)' :
                    /\ makeup' = makeup \o <<OrderAt(l2Cache', m)>>
                    /\ \A s \in Side : TopPrices(s, Limit)' \subseteq
                                          TopPrices(s, Limit) \cup {m}
       PROVE  /\ \A i \in DOMAIN makeup' :
                    /\ l2Cache'[makeup'[i].price] # NoLevel =>
                          l2Cache'[makeup'[i].price] = LevelOf(makeup'[i])
                    /\ \E j \in DOMAIN delta' : delta'[j].side = makeup'[i].side
              /\ \A s \in Side : \A p \in TopPrices(s, Limit)' : Seen'[p] = l2Cache'[p]
              /\ Limit \notin missed' /\ ~Twice(delta') =>
                    \A p \in Price : (\A s \in Side : p \notin TopPrices(s, Limit)')
                                        => Seen'[p] = NoLevel
  <2>1. /\ \A q : Has(delta', q) <=> Has(delta, q) \/ ord.price = q
        /\ \A i \in DOMAIN delta : i \in DOMAIN delta' /\ delta'[i] = delta[i]
        /\ Len(delta) + 1 \in DOMAIN delta' /\ delta'[Len(delta) + 1] = ord
        /\ Len(delta) + 1 \notin DOMAIN delta
    BY <1>3, <1>5, <1>14, HasAppend
  (* A level made up is a level that has come in.                          *)
  <2>2. /\ \A i \in DOMAIN makeup' :
              \/ i \in DOMAIN makeup /\ makeup'[i] = makeup[i]
              \/ \E m \in TopPrices(ord.side, Limit)' : makeup'[i] = OrderAt(l2Cache', m)
        /\ \A i \in DOMAIN makeup : i \in DOMAIN makeup' /\ makeup'[i] = makeup[i]
        /\ \A s \in Side : \A p \in TopPrices(s, Limit)' :
              p \notin TopPrices(s, Limit) => Has(makeup', p)
    <3>1. CASE /\ UNCHANGED makeup
               /\ \A s \in Side : TopPrices(s, Limit)' \subseteq TopPrices(s, Limit)
      BY <3>1
    <3>2. CASE \E m \in TopPrices(ord.side, Limit)' :
                  /\ makeup' = makeup \o <<OrderAt(l2Cache', m)>>
                  /\ \A s \in Side : TopPrices(s, Limit)' \subseteq TopPrices(s, Limit) \cup {m}
      <4>1. PICK m \in TopPrices(ord.side, Limit)' :
                  /\ makeup' = makeup \o <<OrderAt(l2Cache', m)>>
                  /\ \A s \in Side : TopPrices(s, Limit)' \subseteq TopPrices(s, Limit) \cup {m}
        BY <3>2
      <4>2. PICK o : o = OrderAt(l2Cache', m)
        OBVIOUS
      <4>3. o \in Order /\ o.price = m
        <5>1. m \in Levels(l2Cache') /\ l2Cache' \in Book
          BY <1>3, <1>9, <4>1 DEF Levels, TypeOK
        <5>. QED  BY <4>2, <5>1, LevelTypes DEF OrderAt
      <4>4. makeup' = Append(makeup, o)
        BY <1>5, <4>1, <4>2, <4>3
      <4>5. /\ \A q : Has(makeup', q) <=> Has(makeup, q) \/ q = m
            /\ \A i \in DOMAIN makeup' : \/ i \in DOMAIN makeup /\ makeup'[i] = makeup[i]
                                         \/ makeup'[i] = o
            /\ \A i \in DOMAIN makeup : i \in DOMAIN makeup' /\ makeup'[i] = makeup[i]
        BY <1>5, <4>3, <4>4, HasAppend
      <4>. QED  BY <4>1, <4>2, <4>5
    <3>. QED  BY <1>14, <3>1, <3>2
  <2>3. ASSUME NEW m \in TopPrices(ord.side, Limit)'
        PROVE  /\ OrderAt(l2Cache', m).price = m /\ OrderAt(l2Cache', m).side = ord.side
               /\ l2Cache'[m] = LevelOf(OrderAt(l2Cache', m)) /\ m \in Price /\ m # ord.price
    <3>1. m \in Price /\ l2Cache'[m].side = ord.side /\ l2Cache'[m] # NoLevel /\ m # ord.price
      BY <1>3, <1>9
    <3>2. l2Cache' \in Book
      BY DEF TypeOK
    <3>. QED  BY <3>1, <3>2, LevelIsSide DEF OrderAt, LevelOf
  <2>4. ASSUME NEW i \in DOMAIN makeup'
        PROVE  /\ l2Cache'[makeup'[i].price] # NoLevel =>
                     l2Cache'[makeup'[i].price] = LevelOf(makeup'[i])
               /\ \E j \in DOMAIN delta' : delta'[j].side = makeup'[i].side
    <3>1. CASE i \in DOMAIN makeup /\ makeup'[i] = makeup[i]
      <4>1. l2Cache'[makeup[i].price] # NoLevel =>
               l2Cache'[makeup[i].price] = LevelOf(makeup[i])
        BY <1>3, <1>5, <1>11, <3>1
      <4>2. PICK j \in DOMAIN delta : delta[j].side = makeup[i].side
        BY <1>11, <3>1
      <4>3. j \in DOMAIN delta' /\ delta'[j].side = makeup'[i].side
        BY <2>1, <3>1, <4>2
      <4>. QED  BY <3>1, <4>1, <4>3
    <3>2. CASE \E m \in TopPrices(ord.side, Limit)' : makeup'[i] = OrderAt(l2Cache', m)
      BY <2>1, <2>3, <3>2
    <3>. QED  BY <2>2, <3>1, <3>2
  <2>5. ASSUME NEW q \in Price, q # ord.price, ~Has(makeup', q)
        PROVE  Seen'[q] = Seen[q]
    <3>1. ~Has(makeup, q)
      BY <2>2, <2>5 DEF Has
    <3>2. Has(delta', q) <=> Has(delta, q)
      BY <2>1, <2>5
    <3>. QED  BY <1>7, <1>8, <2>5, <3>1, <3>2
  <2>6. ASSUME NEW s \in Side, NEW p \in TopPrices(s, Limit)' PROVE Seen'[p] = l2Cache'[p]
    <3>1. p \in Price /\ p # ord.price /\ l2Cache'[p] # NoLevel /\ l2Cache'[p] = l2Cache[p]
      BY <1>3, <1>9
    <3>2. CASE Has(makeup', p)
      BY <1>8, <2>4, <3>1, <3>2
    <3>3. CASE ~Has(makeup', p)
      <4>1. p \in TopPrices(s, Limit)
        BY <2>2, <3>3
      <4>. QED  BY <1>10, <2>5, <3>1, <3>3, <4>1
    <3>. QED  BY <3>2, <3>3
  <2>7. ASSUME Limit \notin missed', ~Twice(delta'), NEW p \in Price,
               \A s \in Side : p \notin TopPrices(s, Limit)'
        PROVE  Seen'[p] = NoLevel
    <3>1. Limit \notin missed /\ ~Twice(delta)
      BY <2>1, <2>7 DEF Twice
    <3>2. CASE p = ord.price
      <4>1. ASSUME Has(makeup', p) PROVE FALSE
        <5>1. PICK i \in DOMAIN makeup' : makeup'[i].price = p
          BY <4>1 DEF Has
        <5>2. i \in DOMAIN makeup /\ makeup[i].price = p
          BY <2>2, <2>3, <3>2, <5>1
        <5>3. makeup[i].side = ord.side
          BY <1>3, <1>5, <1>11, <3>2, <5>2
        <5>4. PICK j \in DOMAIN delta : delta[j].side = ord.side
          BY <1>11, <5>2, <5>3
        <5>5. j \in DOMAIN delta' /\ delta'[j].side = ord.side /\ j # Len(delta) + 1
          BY <2>1, <5>4
        <5>. QED  BY <2>1, <2>7, <5>5 DEF Twice
      <4>2. Has(delta', p)
        BY <2>1, <3>2
      <4>. QED  BY <1>8, <4>1, <4>2
    <3>3. CASE p # ord.price
      <4>1. \A s \in Side : p \notin TopPrices(s, Limit)
        BY <1>14, <2>7, <3>3
      <4>2. Seen[p] = NoLevel
        BY <1>10, <3>1, <4>1
      <4>3. ASSUME Has(makeup', p) PROVE FALSE
        <5>1. PICK i \in DOMAIN makeup' : makeup'[i].price = p
          BY <4>3 DEF Has
        <5>2. i \in DOMAIN makeup /\ makeup[i].price = p
          BY <1>3, <2>2, <2>3, <2>7, <5>1
        <5>3. Has(makeup, p)
          BY <5>2 DEF Has
        <5>. QED  BY <1>5, <1>7, <4>2, <5>3
      <4>. QED  BY <2>5, <3>3, <4>2, <4>3
    <3>. QED  BY <3>2, <3>3
  <2>. QED  BY <2>4, <2>6, <2>7
<1>15. Fits("delete", ord, l2Cache)
  BY <1>1
<1>. QED  BY <1>1, <1>13, <1>14, <1>15, DeleteMoves

LEMMA InsertDepth ==
    ASSUME TypeOK, TypeOK', Sides, Sides', Quotes, inited, handleInsert,
           Fits("insert", Head(todo), l2Cache), Applied("insert", Head(todo)),
           DepthJob, Limit \in missed => Limit \in missed'
    PROVE  DepthJob'
<1>1. PICK ord : ord = Head(todo)
  OBVIOUS
<1>2. action = "insert" /\ todo # <<>> /\ "insert" \in Action
  BY DEF handleInsert, Applying, Action
<1>3. /\ ord \in Order /\ ord.price \in Price /\ ord.side \in Side
      /\ \A q \in Price : q # ord.price => l2Cache'[q] = l2Cache[q]
      /\ l2Cache'[ord.price] = LevelOf(ord)
      /\ l2Cache[ord.price] = NoLevel
      /\ view' = view /\ action' = "insert"
  BY <1>1, <1>2, OrderChanges DEF Gives
<1>4. PICK v \in Book : v = view[Limit]
  BY SeenTypes
<1>5. /\ delta \in Seq(Order) /\ makeup \in Seq(Order)
      /\ delta' \in Seq(Order) /\ makeup' \in Seq(Order)
      /\ \A i \in DOMAIN delta : delta[i].price \in Price /\ LevelOf(delta[i]) # NoLevel
      /\ \A i \in DOMAIN makeup : makeup[i].price \in Price
      /\ LevelOf(ord) # NoLevel
  <2>1. /\ \A i \in DOMAIN delta : delta[i] \in Order
        /\ \A i \in DOMAIN makeup : makeup[i] \in Order
    BY SeenTypes
  <2>. QED  BY <1>3, <2>1, LevelOfType DEF TypeOK
<1>6. Seen = Pub(v, "insert", delta, makeup) /\ Seen' = Pub(v, "insert", delta', makeup')
  BY <1>2, <1>3, <1>4 DEF Seen
<1>7. ASSUME NEW q \in Price
      PROVE  /\ Has(makeup, q) => Seen[q] = NoLevel
             /\ ~Has(makeup, q) /\ ~Has(delta, q) => Seen[q] = v[q]
             /\ ~Has(makeup, q) /\ Has(delta, q) =>
                   \E i \in DOMAIN delta : delta[i].price = q /\ Seen[q] = LevelOf(delta[i])
  BY <1>5, <1>6, PubInsert
<1>8. ASSUME NEW q \in Price
      PROVE  /\ Has(makeup', q) => Seen'[q] = NoLevel
             /\ ~Has(makeup', q) /\ ~Has(delta', q) => Seen'[q] = v[q]
             /\ ~Has(makeup', q) /\ Has(delta', q) =>
                   \E i \in DOMAIN delta' :
                      delta'[i].price = q /\ Seen'[q] = LevelOf(delta'[i])
  BY <1>5, <1>6, PubInsert
<1>9. \A s \in Side : \A p \in TopPrices(s, Limit) :
          p \in Price /\ l2Cache[p].side = s /\ l2Cache[p] # NoLevel /\ p # ord.price
  BY <1>3, TopHasLevel
<1>10. /\ \A i \in DOMAIN delta : l2Cache[delta[i].price] = LevelOf(delta[i])
       /\ \A i \in DOMAIN makeup : l2Cache[makeup[i].price] # NoLevel
       /\ \A s \in Side : \A p \in TopPrices(s, Limit) : Seen[p] = l2Cache[p]
       /\ Limit \notin missed =>
             \A p \in Price : (\A s \in Side : p \notin TopPrices(s, Limit)) => Seen[p] = NoLevel
  BY <1>2 DEF DepthJob, Collected, Covers, OnlyTop
<1>11. ~Has(makeup, ord.price) /\ ~Has(delta, ord.price)
  BY <1>3, <1>5, <1>10 DEF Has
<1>12. SUFFICES
         /\ \A i \in DOMAIN delta' : l2Cache'[delta'[i].price] = LevelOf(delta'[i])
         /\ \A i \in DOMAIN makeup' : l2Cache'[makeup'[i].price] # NoLevel
         /\ \A s \in Side : \A p \in TopPrices(s, Limit)' : Seen'[p] = l2Cache'[p]
         /\ Limit \notin missed' =>
               \A p \in Price : (\A s \in Side : p \notin TopPrices(s, Limit)')
                                   => Seen'[p] = NoLevel
  BY <1>3 DEF DepthJob, Collected, Covers, OnlyTop
<1>13. /\ \A i \in DOMAIN delta : l2Cache'[delta[i].price] = LevelOf(delta[i])
       /\ \A i \in DOMAIN makeup : l2Cache'[makeup[i].price] # NoLevel
  <2>1. ASSUME NEW i \in DOMAIN delta
        PROVE  l2Cache'[delta[i].price] = LevelOf(delta[i])
    <3>1. /\ delta[i].price \in Price /\ delta[i].price # ord.price
          /\ l2Cache[delta[i].price] = LevelOf(delta[i])
      BY <1>5, <1>10, <1>11 DEF Has
    <3>. QED  BY <1>3, <3>1
  <2>2. ASSUME NEW i \in DOMAIN makeup
        PROVE  l2Cache'[makeup[i].price] # NoLevel
    <3>1. /\ makeup[i].price \in Price /\ makeup[i].price # ord.price
          /\ l2Cache[makeup[i].price] # NoLevel
      BY <1>5, <1>10, <1>11 DEF Has
    <3>. QED  BY <1>3, <3>1
  <2>. QED  BY <2>1, <2>2
<1>14. CASE Below(ord.price)
  <2>1. /\ delta' = delta /\ makeup' = makeup
        /\ \A s \in Side : TopPrices(s, Limit)' = TopPrices(s, Limit)
    BY <1>14 DEF Below
  <2>2. Seen' = Seen
    BY <1>6, <2>1
  <2>. QED  BY <1>3, <1>9, <1>10, <1>13, <2>1, <2>2
<1>15. ASSUME delta' = Append(delta, ord),
              ord.price \in TopPrices(ord.side, Limit)',
              \A s \in Side : TopPrices(s, Limit)' \subseteq
                                 TopPrices(s, Limit) \cup {ord.price},
              \/ /\ UNCHANGED makeup
                 /\ \A s \in Side : TopPrices(s, Limit) \subseteq TopPrices(s, Limit)'
              \/ \E m \in Price :
                    /\ makeup' = makeup \o <<OrderAt(l2Cache', m)>>
                    /\ l2Cache'[m] # NoLevel
                    /\ \A s \in Side :
                          /\ m \notin TopPrices(s, Limit)'
                          /\ TopPrices(s, Limit) \subseteq TopPrices(s, Limit)' \cup {m}
       PROVE  /\ \A i \in DOMAIN delta' : l2Cache'[delta'[i].price] = LevelOf(delta'[i])
              /\ \A i \in DOMAIN makeup' : l2Cache'[makeup'[i].price] # NoLevel
              /\ \A s \in Side : \A p \in TopPrices(s, Limit)' : Seen'[p] = l2Cache'[p]
              /\ Limit \notin missed' =>
                    \A p \in Price : (\A s \in Side : p \notin TopPrices(s, Limit)')
                                        => Seen'[p] = NoLevel
  <2>1. /\ \A q : Has(delta', q) <=> Has(delta, q) \/ ord.price = q
        /\ \A i \in DOMAIN delta' : \/ i \in DOMAIN delta /\ delta'[i] = delta[i]
                                    \/ delta'[i] = ord
    BY <1>3, <1>5, <1>15, HasAppend
  (* A level deleted has gone out, and is none that has stayed or come in.  *)
  <2>2. /\ \A i \in DOMAIN makeup' : l2Cache'[makeup'[i].price] # NoLevel
        /\ \A q : Has(makeup, q) => Has(makeup', q)
        /\ \A q : Has(makeup', q) => \/ Has(makeup, q)
                                     \/ \A s \in Side : q \notin TopPrices(s, Limit)'
        /\ \A s \in Side : \A p \in TopPrices(s, Limit) :
              p \notin TopPrices(s, Limit)' => Has(makeup', p)
    <3>1. CASE /\ UNCHANGED makeup
               /\ \A s \in Side : TopPrices(s, Limit) \subseteq TopPrices(s, Limit)'
      BY <1>13, <3>1
    <3>2. CASE \E m \in Price :
                  /\ makeup' = makeup \o <<OrderAt(l2Cache', m)>>
                  /\ l2Cache'[m] # NoLevel
                  /\ \A s \in Side :
                        /\ m \notin TopPrices(s, Limit)'
                        /\ TopPrices(s, Limit) \subseteq TopPrices(s, Limit)' \cup {m}
      <4>1. PICK m \in Price :
                  /\ makeup' = makeup \o <<OrderAt(l2Cache', m)>>
                  /\ l2Cache'[m] # NoLevel
                  /\ \A s \in Side :
                        /\ m \notin TopPrices(s, Limit)'
                        /\ TopPrices(s, Limit) \subseteq TopPrices(s, Limit)' \cup {m}
        BY <3>2
      <4>2. PICK o : o = OrderAt(l2Cache', m)
        OBVIOUS
      <4>3. o \in Order /\ o.price = m
        <5>1. m \in Levels(l2Cache') /\ l2Cache' \in Book
          BY <4>1 DEF Levels, TypeOK
        <5>. QED  BY <4>2, <5>1, LevelTypes DEF OrderAt
      <4>4. makeup' = Append(makeup, o)
        BY <1>5, <4>1, <4>2, <4>3
      <4>5. /\ \A q : Has(makeup', q) <=> Has(makeup, q) \/ q = m
            /\ \A i \in DOMAIN makeup' : \/ i \in DOMAIN makeup /\ makeup'[i] = makeup[i]
                                         \/ makeup'[i] = o
        BY <1>5, <4>3, <4>4, HasAppend
      <4>. QED  BY <1>13, <4>1, <4>3, <4>5
    <3>. QED  BY <1>15, <3>1, <3>2
  <2>3. \A i \in DOMAIN delta' : l2Cache'[delta'[i].price] = LevelOf(delta'[i])
    BY <1>3, <1>13, <2>1
  <2>4. ASSUME NEW q \in Price, ~Has(makeup', q), ~Has(delta', q) PROVE Seen'[q] = Seen[q]
    BY <1>7, <1>8, <2>1, <2>2, <2>4
  <2>5. ASSUME NEW s \in Side, NEW p \in TopPrices(s, Limit)' PROVE Seen'[p] = l2Cache'[p]
    <3>1. p \in Price
      BY PrimedTop
    <3>2. p = ord.price \/ p \in TopPrices(s, Limit)
      BY <1>15, <2>5
    <3>3. ~Has(makeup, p)
      BY <1>7, <1>9, <1>10, <1>11, <3>1, <3>2
    <3>4. ~Has(makeup', p)
      BY <2>2, <2>5, <3>3
    <3>5. CASE Has(delta', p)
      BY <1>8, <2>3, <3>1, <3>4, <3>5
    <3>6. CASE ~Has(delta', p)
      <4>1. p # ord.price /\ p \in TopPrices(s, Limit)
        BY <2>1, <3>2, <3>6
      <4>. QED  BY <1>3, <1>10, <2>4, <3>1, <3>4, <3>6, <4>1
    <3>. QED  BY <3>5, <3>6
  <2>6. ASSUME Limit \notin missed', NEW p \in Price,
               \A s \in Side : p \notin TopPrices(s, Limit)'
        PROVE  Seen'[p] = NoLevel
    <3>1. CASE Has(makeup', p)
      BY <1>8, <3>1
    <3>2. CASE ~Has(makeup', p)
      <4>1. \A s \in Side : p \notin TopPrices(s, Limit)
        BY <2>2, <2>6, <3>2
      <4>2. Seen[p] = NoLevel
        BY <1>10, <2>6, <4>1
      <4>3. ~Has(makeup, p) /\ p # ord.price
        BY <1>3, <1>15, <2>2, <2>6, <3>2
      <4>4. ~Has(delta, p)
        BY <1>5, <1>7, <4>2, <4>3
      <4>. QED  BY <2>1, <2>4, <3>2, <4>2, <4>3, <4>4
    <3>. QED  BY <3>1, <3>2
  <2>. QED  BY <2>2, <2>3, <2>5, <2>6
<1>16. Fits("insert", ord, l2Cache)
  BY <1>1
<1>. QED  BY <1>1, <1>14, <1>15, <1>16, InsertMoves

LEMMA UpdateDepth ==
    ASSUME TypeOK, TypeOK', Sides, Sides', Quotes, inited, handleUpdate,
           Fits("update", Head(todo), l2Cache), Applied("update", Head(todo)),
           \A i, j \in DOMAIN todo : i # j => todo[i].price # todo[j].price,
           DepthJob, Limit \in missed => Limit \in missed'
    PROVE  DepthJob'
<1>1. PICK ord : ord = Head(todo)
  OBVIOUS
<1>2. action = "update" /\ todo # <<>> /\ "update" \in Action
  BY DEF handleUpdate, Applying, Action
<1>3. /\ ord \in Order /\ ord.price \in Price /\ ord.side \in Side
      /\ \A q \in Price : q # ord.price => l2Cache'[q] = l2Cache[q]
      /\ l2Cache'[ord.price] = LevelOf(ord)
      /\ view' = view /\ action' = "update" /\ todo' = Tail(todo)
  BY <1>1, <1>2, OrderChanges DEF Gives
<1>4. PICK v \in Book : v = view[Limit]
  BY SeenTypes
<1>5. /\ delta \in Seq(Order) /\ delta' \in Seq(Order) /\ LevelOf(ord) # NoLevel
      /\ \A i \in DOMAIN delta : delta[i].price \in Price /\ LevelOf(delta[i]) # NoLevel
  <2>1. \A i \in DOMAIN delta : delta[i] \in Order
    BY SeenTypes
  <2>. QED  BY <1>3, <2>1, LevelOfType DEF TypeOK
<1>6. /\ makeup = <<>>
      /\ \A i \in DOMAIN delta : l2Cache[delta[i].price] = LevelOf(delta[i])
      /\ \A i \in DOMAIN delta, j \in DOMAIN todo : delta[i].price # todo[j].price
      /\ \A s \in Side : \A p \in TopPrices(s, Limit) : Seen[p] = l2Cache[p]
      /\ Limit \notin missed =>
            \A p \in Price : (\A s \in Side : p \notin TopPrices(s, Limit)) => Seen[p] = NoLevel
  BY <1>2 DEF DepthJob, Collected, Covers, OnlyTop
<1>7. /\ \A s \in Side : TopPrices(s, Limit)' = TopPrices(s, Limit)
      /\ \/ Below(ord.price)
         \/ /\ delta' = Append(delta, ord) /\ makeup' = <<>>
            /\ ord.price \in TopPrices(ord.side, Limit)
  BY <1>1, <1>6, UpdateMoves
<1>8. makeup' = <<>>
  BY <1>6, <1>7 DEF Below
<1>9. Seen = Pub(v, "update", delta, <<>>) /\ Seen' = Pub(v, "update", delta', <<>>)
  BY <1>2, <1>3, <1>4, <1>6, <1>8 DEF Seen
<1>10. \A s \in Side : \A p \in TopPrices(s, Limit) : p \in Price /\ l2Cache[p] # NoLevel
  BY TopHasLevel
<1>11. /\ 1 \in DOMAIN todo /\ ord = todo[1]
       /\ \A j \in DOMAIN Tail(todo) : /\ j + 1 \in DOMAIN todo /\ j + 1 # 1
                                       /\ Tail(todo)[j] = todo[j + 1]
  <2>1. todo \in Seq(Order) /\ todo # <<>>
    BY <1>2 DEF TypeOK
  <2>. QED  BY <1>1, <2>1
<1>12. SUFFICES
         /\ \A i \in DOMAIN delta' : l2Cache'[delta'[i].price] = LevelOf(delta'[i])
         /\ \A i \in DOMAIN delta', j \in DOMAIN Tail(todo) :
               delta'[i].price # Tail(todo)[j].price
         /\ \A s \in Side : \A p \in TopPrices(s, Limit) : Seen'[p] = l2Cache'[p]
         /\ Limit \notin missed' =>
               \A p \in Price : (\A s \in Side : p \notin TopPrices(s, Limit))
                                   => Seen'[p] = NoLevel
  BY <1>3, <1>7, <1>8 DEF DepthJob, Collected, Covers, OnlyTop
<1>13. /\ \A i \in DOMAIN delta : l2Cache'[delta[i].price] = LevelOf(delta[i])
       /\ \A i \in DOMAIN delta, j \in DOMAIN Tail(todo) :
             delta[i].price # Tail(todo)[j].price
       /\ \A j \in DOMAIN Tail(todo) : ord.price # Tail(todo)[j].price
  BY <1>3, <1>5, <1>6, <1>11
<1>14. CASE Below(ord.price)
  <2>1. delta' = delta /\ \A s \in Side : ord.price \notin TopPrices(s, Limit)
    BY <1>14 DEF Below
  <2>2. Seen' = Seen
    BY <1>9, <2>1
  <2>. QED  BY <1>3, <1>6, <1>10, <1>13, <2>1, <2>2
<1>15. CASE delta' = Append(delta, ord) /\ ord.price \in TopPrices(ord.side, Limit)
  <2>1. /\ \A q : Has(delta', q) <=> Has(delta, q) \/ ord.price = q
        /\ \A i \in DOMAIN delta' : \/ i \in DOMAIN delta /\ delta'[i] = delta[i]
                                    \/ delta'[i] = ord
    BY <1>3, <1>5, <1>15, HasAppend
  <2>2. \A i \in DOMAIN delta' : l2Cache'[delta'[i].price] = LevelOf(delta'[i])
    BY <1>3, <1>13, <2>1
  <2>3. \A i \in DOMAIN delta', j \in DOMAIN Tail(todo) :
           delta'[i].price # Tail(todo)[j].price
    BY <1>13, <2>1
  <2>4. ASSUME NEW q \in Price
        PROVE  /\ ~Has(delta, q) => Seen[q] = v[q]
               /\ v[q] = NoLevel => Seen[q] = NoLevel
               /\ Has(delta, q) /\ v[q] # NoLevel =>
                     \E i \in DOMAIN delta : delta[i].price = q /\ Seen[q] = LevelOf(delta[i])
    BY <1>5, <1>9, PubUpdate
  <2>5. ASSUME NEW q \in Price
        PROVE  /\ ~Has(delta', q) => Seen'[q] = v[q]
               /\ v[q] = NoLevel => Seen'[q] = NoLevel
               /\ Has(delta', q) /\ v[q] # NoLevel =>
                     \E i \in DOMAIN delta' :
                        delta'[i].price = q /\ Seen'[q] = LevelOf(delta'[i])
    BY <1>5, <1>9, PubUpdate
  <2>6. ASSUME NEW s \in Side, NEW p \in TopPrices(s, Limit) PROVE Seen'[p] = l2Cache'[p]
    <3>1. p \in Price /\ Seen[p] = l2Cache[p] /\ v[p] # NoLevel
      BY <1>6, <1>10, <2>4
    <3>2. CASE Has(delta', p)
      BY <2>2, <2>5, <3>1, <3>2
    <3>3. CASE ~Has(delta', p)
      BY <1>3, <2>1, <2>4, <2>5, <3>1, <3>3
    <3>. QED  BY <3>2, <3>3
  <2>7. ASSUME Limit \notin missed', NEW p \in Price,
               \A s \in Side : p \notin TopPrices(s, Limit)
        PROVE  Seen'[p] = NoLevel
    <3>1. Seen[p] = NoLevel
      BY <1>6, <2>7
    <3>2. v[p] = NoLevel
      BY <1>5, <2>4, <3>1
    <3>. QED  BY <2>5, <3>2
  <2>. QED  BY <2>2, <2>3, <2>6, <2>7
<1>. QED  BY <1>7, <1>14, <1>15
-----------------------------------------------------------------------------
(* DepthInv is kept by every step.                                          *)

LEMMA DepthUnchanged ==
    ASSUME DepthInv, UNCHANGED vars, Limit \in missed => Limit \in missed'
    PROVE  DepthInv'
<1>1. /\ \A s : TopPrices(s, Limit)' = TopPrices(s, Limit)
      /\ l2Cache' = l2Cache /\ view' = view /\ delta' = delta /\ makeup' = makeup
      /\ todo' = todo /\ action' = action /\ pc' = pc /\ joined' = joined
      /\ inited' = inited /\ panicked' = panicked
  BY TopsAre DEF vars, book, job, subs
<1>2. Seen' = Seen
  BY <1>1 DEF Seen
<1>. QED  BY <1>1, <1>2
          DEF DepthInv, DepthJob, Collected, Covers, OnlyTop, Twice, Running

LEMMA MissedStay == Misses => (Limit \in missed => Limit \in missed')
  BY DEF Misses

(* The start of a list: nothing has been collected.                         *)
LEMMA StartDepth ==
    ASSUME FeedInv, DepthInv, NEW act \in Action, NEW list, Start(act, list),
           pc # "apply", UNCHANGED <<book, subs, panicked>>,
           Limit \in missed => Limit \in missed'
    PROVE  DepthInv'
<1>. SUFFICES ASSUME Running', joined'[Limit] = "yes" PROVE DepthInv'
  BY DEF DepthInv
<1>1. /\ \A s : TopPrices(s, Limit)' = TopPrices(s, Limit)
      /\ l2Cache' = l2Cache /\ view' = view /\ joined' = joined /\ inited' = inited
      /\ delta' = <<>> /\ makeup' = <<>> /\ action' = act /\ panicked' = panicked
  BY TopsAre DEF book, subs, Start
<1>2. /\ inited /\ Covers(view[Limit])
      /\ Limit \notin missed => OnlyTop(view[Limit])
  BY <1>1 DEF DepthInv, Running
<1>3. Seen' = view[Limit]
  <2>1. view[Limit] \in Book
    BY SeenTypes DEF FeedInv
  <2>. QED  BY <1>1, <2>1, PubNothing DEF Seen
<1>4. Collected'
  BY <1>1 DEF Collected
<1>5. Covers(Seen)' /\ Covers(view[Limit])'
  BY <1>1, <1>2, <1>3 DEF Covers
<1>6. Limit \notin missed' => OnlyTop(Seen)' /\ OnlyTop(view[Limit])'
  BY <1>1, <1>2, <1>3 DEF OnlyTop
<1>. QED  BY <1>1, <1>2, <1>4, <1>5, <1>6 DEF DepthInv, DepthJob

(* The orders of a list.                                                    *)
LEMMA OrderDepth ==
    ASSUME FeedInv, FeedInv', DepthInv,
           Cache(handleDelete) \/ Cache(handleInsert) \/ Cache(handleUpdate)
    PROVE  DepthInv'
<1>. SUFFICES ASSUME Running', joined'[Limit] = "yes" PROVE DepthInv'
  BY DEF DepthInv
<1>1. /\ handleDelete \/ handleInsert \/ handleUpdate
      /\ Running /\ pc = "apply" /\ todo # <<>> /\ Misses
  BY DEF Cache, handleDelete, handleInsert, handleUpdate, Applying
<1>2. /\ TypeOK /\ TypeOK' /\ Sides /\ Sides' /\ Quotes /\ inited
      /\ Fits(action, Head(todo), l2Cache)
  BY <1>1, OrderFits DEF FeedInv
<1>3. \A i, j \in DOMAIN todo : i # j => todo[i].price # todo[j].price
  BY <1>1 DEF FeedInv, Progress, OnTheWay, Leads
<1>4. Limit \in missed => Limit \in missed'
  BY <1>1, MissedStay
<1>5. ASSUME NEW act \in Action, Applied(act, Head(todo)), DepthJob => DepthJob'
      PROVE  DepthInv'
  <2>1. joined' = joined /\ pc' = "apply" /\ inited'
    BY <1>1, <1>2, <1>5 DEF Applied
  <2>. QED  BY <1>1, <1>5, <2>1 DEF DepthInv
<1>6. "delete" \in Action /\ "insert" \in Action /\ "update" \in Action
  BY DEF Action
<1>7. CASE handleDelete
  <2>1. action = "delete" /\ ~Panic("emptySide")
    BY <1>7 DEF handleDelete, Applying, Running, Panic
  <2>2. Applied("delete", Head(todo))
    BY <1>2, <1>7, <2>1, DeleteKeeps
  <2>. QED  BY <1>2, <1>4, <1>5, <1>6, <1>7, <2>1, <2>2, DeleteDepth
<1>8. CASE handleInsert
  <2>1. action = "insert"
    BY <1>8 DEF handleInsert, Applying
  <2>2. Applied("insert", Head(todo))
    BY <1>2, <1>8, <2>1, InsertKeeps
  <2>. QED  BY <1>2, <1>4, <1>5, <1>6, <1>8, <2>1, <2>2, InsertDepth
<1>9. CASE handleUpdate
  <2>1. action = "update"
    BY <1>9 DEF handleUpdate, Applying
  <2>2. Applied("update", Head(todo))
    BY <1>2, <1>9, <2>1, UpdateKeeps
  <2>. QED  BY <1>2, <1>3, <1>4, <1>5, <1>6, <1>9, <2>1, <2>2, UpdateDepth
<1>. QED  BY <1>1, <1>7, <1>8, <1>9

(* What has been collected is published.                                    *)
LEMMA DispatchDepth == FeedInv /\ DepthInv /\ Cache(dispatchRsp) => DepthInv'
<1>. SUFFICES ASSUME FeedInv, DepthInv, Cache(dispatchRsp), Running', joined'[Limit] = "yes"
              PROVE  DepthInv'
  BY DEF DepthInv
<1>1. /\ dispatchRsp /\ Misses /\ Running /\ pc = "apply" /\ todo = <<>>
      /\ UNCHANGED <<book, merge, joined, panicked>> /\ pc' # "apply"
  BY DEF Cache, dispatchRsp, Leave
<1>2. /\ \A s : TopPrices(s, Limit)' = TopPrices(s, Limit)
      /\ l2Cache' = l2Cache /\ joined' = joined /\ inited' = inited
  BY <1>1, TopsAre DEF book
<1>3. inited /\ DepthJob
  BY <1>1, <1>2 DEF DepthInv
<1>4. view'[Limit] = Seen
  <2>1. Limit \in Depth /\ Limit # 0
    BY DepthType, LimitAssumption
  <2>. QED  BY <1>1, <1>2, <2>1 DEF dispatchRsp, Published, Seen, Pub
<1>5. Covers(view[Limit])'
  BY <1>2, <1>3, <1>4 DEF DepthJob, Covers
<1>6. ASSUME Limit \notin missed' PROVE OnlyTop(view[Limit])'
  <2>1. Limit \notin missed /\ ~MakesUpDeleted
    BY <1>1, <1>2, <1>6, DepthType, LimitAssumption DEF Misses
  <2>2. ~(action = "delete" /\ Twice(delta))
    BY <1>1, <2>1 DEF MakesUpDeleted, Twice
  <2>3. OnlyTop(Seen)
    BY <1>3, <2>1, <2>2 DEF DepthJob
  <2>. QED  BY <1>2, <1>4, <2>3 DEF OnlyTop
<1>. QED  BY <1>1, <1>2, <1>3, <1>5, <1>6 DEF DepthInv

(* A cache that has been filled never is empty again.                       *)
LEMMA NeverEmptied ==
    ASSUME FeedInv, Running, inited
    PROVE  Levels(l2Cache) # {}
<1>1. TypeOK /\ Sides /\ Quotes /\ "Buy" \in Side /\ prices["Buy"] # <<>>
  BY DEF FeedInv, Quotes, Side
<1>2. Last(prices["Buy"]) \in Price /\ l2Cache[Last(prices["Buy"])].side = "Buy"
  BY <1>1, LastOnLadder
<1>. QED  BY <1>1, <1>2 DEF Levels, NoLevel

LEMMA PartialDepth == FeedInv /\ DepthInv /\ Partial => DepthInv'
<1>. SUFFICES ASSUME FeedInv, DepthInv, Partial, Running', joined'[Limit] = "yes"
              PROVE  DepthInv'
  BY DEF DepthInv
<1>1. CASE FirstPartial(exch)
  <2>1. Running /\ Levels(l2Cache) = {} /\ joined' = joined
    BY <1>1 DEF FirstPartial, Panic, subs
  <2>2. inited
    BY <2>1 DEF DepthInv
  <2>. QED  BY <2>1, <2>2, NeverEmptied
<1>2. CASE MergePartial(exch)
  <2>1. ~Panic("nilOrder")
    BY DEF Panic, Running
  <2>2. PICK list : Start("delete", list)
    BY <1>2, <2>1 DEF MergePartial
  <2>3. /\ pc # "apply" /\ UNCHANGED <<book, subs, panicked>>
        /\ missed' = missed /\ "delete" \in Action
    BY <1>2, <2>1 DEF MergePartial, Partial, Action
  <2>. QED  BY <2>2, <2>3, StartDepth
<1>. QED  BY <1>1, <1>2 DEF Partial

LEMMA MergeDepth ==
    ASSUME FeedInv, DepthInv, Cache(MergeInsert) \/ Cache(MergeUpdate)
    PROVE  DepthInv'
<1>. SUFFICES ASSUME Running', joined'[Limit] = "yes" PROVE DepthInv'
  BY DEF DepthInv
<1>1. /\ MergeInsert \/ MergeUpdate
      /\ Limit \in missed => Limit \in missed'
      /\ ~Panic("nilOrder") /\ "insert" \in Action /\ "update" \in Action
  BY MissedStay DEF Cache, Panic, Running, Action
<1>2. CASE MergeInsert
  <2>1. PICK list : Start("insert", list)
    BY <1>1, <1>2 DEF MergeInsert
  <2>2. pc # "apply" /\ UNCHANGED <<book, subs, panicked>>
    BY <1>1, <1>2 DEF MergeInsert
  <2>. QED  BY <1>1, <2>1, <2>2, StartDepth
<1>3. CASE MergeUpdate
  <2>1. PICK list : Start("update", list)
    BY <1>3 DEF MergeUpdate
  <2>2. pc # "apply" /\ UNCHANGED <<book, subs, panicked>>
    BY <1>3 DEF MergeUpdate
  <2>. QED  BY <1>1, <2>1, <2>2, StartDepth
<1>. QED  BY <1>1, <1>2, <1>3

LEMMA DeltaDepth == FeedInv /\ DepthInv /\ Delta => DepthInv'
<1>. SUFFICES ASSUME FeedInv, DepthInv, Delta PROVE DepthInv'
  OBVIOUS
<1>1. ASSUME NEW act \in Action, NEW new, Send(act, new) PROVE DepthInv'
  <2>1. PICK list : ReceiveList(act, list)
    BY <1>1 DEF Send
  <2>2. /\ Start(act, list) /\ pc # "apply" /\ UNCHANGED <<book, subs, panicked>>
        /\ missed' = missed
    BY <2>1 DEF ReceiveList, Delta
  <2>. QED  BY <2>2, StartDepth
<1>2. \E act \in Action : \E new : Send(act, new)
  <2>1. "delete" \in Action /\ "insert" \in Action /\ "update" \in Action
    BY DEF Action
  <2>. QED  BY <2>1 DEF Delta, List
<1>. QED  BY <1>1, <1>2

(* A subscription: the snapshot has the best levels, and no others.         *)
LEMMA SnapshotDepth ==
    ASSUME TypeOK
    PROVE  Covers(snapshot(Limit)) /\ OnlyTop(snapshot(Limit))
<1>1. ASSUME NEW s \in Side, NEW p \in TopPrices(s, Limit)
      PROVE  snapshot(Limit)[p] = l2Cache[p]
  <2>1. p \in Price
    <3>1. prices[s] \in Seq(Price)
      BY DEF TypeOK
    <3>. QED  BY <3>1 DEF TopPrices
  <2>. QED  BY <2>1 DEF snapshot
<1>. QED  BY <1>1 DEF Covers, OnlyTop, snapshot

LEMMA SubscribeDepth ==
    FeedInv /\ DepthInv /\ (\E d \in Streams : Cache(Subscribe(d))) => DepthInv'
<1>. SUFFICES ASSUME FeedInv, DepthInv, NEW d \in Streams, Cache(Subscribe(d)),
                     Running', joined'[Limit] = "yes"
              PROVE  DepthInv'
  BY DEF DepthInv
<1>1. /\ Subscribe(d) /\ Running /\ pc = "idle" /\ pc' = "idle"
      /\ Limit \in missed => Limit \in missed'
      /\ UNCHANGED <<book, pc, job, merge, panicked>>
  BY MissedStay DEF Cache, Subscribe
<1>2. /\ \A s : TopPrices(s, Limit)' = TopPrices(s, Limit)
      /\ l2Cache' = l2Cache /\ inited' = inited
  BY <1>1, TopsAre DEF book
<1>3. joined \in [Depth -> {"no", "early", "yes"}] /\ view \in [Depth -> Book]
      /\ Limit \in Depth /\ Limit # 0
  BY DepthType, LimitAssumption DEF FeedInv, TypeOK
<1>4. CASE d = Limit
  <2>1. inited /\ view'[Limit] = snapshot(Limit)
    BY <1>1, <1>3, <1>4 DEF Subscribe
  <2>2. Covers(view[Limit])' /\ OnlyTop(view[Limit])'
    BY <1>2, <2>1, SnapshotDepth DEF Covers, OnlyTop, FeedInv
  <2>. QED  BY <1>1, <1>2, <2>1, <2>2 DEF DepthInv
<1>5. CASE d # Limit
  <2>1. joined'[Limit] = joined[Limit] /\ view'[Limit] = view[Limit]
    BY <1>1, <1>3, <1>5 DEF Subscribe
  <2>2. /\ inited /\ Covers(view[Limit])
        /\ Limit \notin missed => OnlyTop(view[Limit])
    BY <1>1, <2>1 DEF DepthInv
  <2>3. Covers(view[Limit])' /\ (Limit \notin missed' => OnlyTop(view[Limit])')
    BY <1>1, <1>2, <2>1, <2>2 DEF Covers, OnlyTop
  <2>. QED  BY <1>1, <1>2, <2>2, <2>3 DEF DepthInv
<1>. QED  BY <1>4, <1>5

LEMMA DepthNextInv == FeedInv /\ FeedInv' /\ DepthInv /\ [FeedNext]_feedVars => DepthInv'
<1>. SUFFICES ASSUME FeedInv, FeedInv', DepthInv, [FeedNext]_feedVars PROVE DepthInv'
  OBVIOUS
<1>1. ~EarlyDelta
  BY DEF EarlyDelta, FeedInv, FeedTypes
<1>2. CASE Reconnect \/ UNCHANGED feedVars
  <2>1. UNCHANGED vars /\ missed' = missed
    BY <1>2 DEF Reconnect, feedVars
  <2>. QED  BY <2>1, DepthUnchanged
<1>. QED  BY <1>1, <1>2, PartialDepth, DeltaDepth, OrderDepth, DispatchDepth, MergeDepth,
             SubscribeDepth DEF FeedNext

LEMMA DepthInvHolds == FeedSpec => [](OnTime /\ (early = 0 => DepthInv))
<1>1. FeedInit => OnTime /\ (early = 0 => DepthInv)
  <2>1. FeedInit => joined[Limit] = "no"
    BY DepthType DEF FeedInit, Init
  <2>2. FeedInit => OnTime
    BY FeedInitInv DEF OnTime, FeedInit
  <2>. QED  BY <2>1, <2>2 DEF DepthInv
<1>2. OnTime /\ (early = 0 => DepthInv) /\ [FeedNext]_feedVars
        => (OnTime /\ (early = 0 => DepthInv))'
  BY FeedNextInv, EarlyGrows, DepthNextInv DEF OnTime
<1>. QED  BY <1>1, <1>2, PTL DEF FeedSpec

(* As long as every connection begins with its partial, a subscriber of     *)
(* orderBookL2_25 that joined after the first has each of the best Limit    *)
(* levels with its size, whatever is deleted, inserted, updated and merged: *)
(* what comes in from below the limit is sent with what has made room for   *)
(* it (GetOrderOnDepth).                                                    *)
THEOREM DepthViewStaysCovered == FeedSpec => []DepthViewCovers
<1>1. OnTime /\ (early = 0 => DepthInv) => DepthViewCovers
  BY DEF DepthInv, DepthViewCovers, Covers
<1>. QED  BY <1>1, DepthInvHolds, PTL

(* ... and no other, until a list deletes two levels of a side: what falls  *)
(* below the limit is deleted from it (applyData, dispatchRsp).             *)
THEOREM DepthViewStaysExact == FeedSpec => []DepthViewExact
<1>1. OnTime /\ (early = 0 => DepthInv) => DepthViewExact
  <2>. SUFFICES ASSUME FeedInv, DepthInv, Running, pc = "idle", joined[Limit] = "yes",
                       Limit \notin missed
                PROVE  view[Limit] = snapshot(Limit)
    BY DEF DepthViewExact, OnTime
  <2>1. view[Limit] \in Book /\ snapshot(Limit) \in Book
    BY SeenTypes, SnapshotType DEF FeedInv, TypeOK
  <2>2. Covers(view[Limit]) /\ OnlyTop(view[Limit])
    BY DEF DepthInv
  <2>3. ASSUME NEW p \in Price PROVE view[Limit][p] = snapshot(Limit)[p]
    BY <2>2, SnapshotDepth DEF Covers, OnlyTop, FeedInv
  <2>. QED  BY <2>1, <2>3, BookEquality
<1>. QED  BY <1>1, DepthInvHolds, PTL

-----------------------------------------------------------------------------
(* The upstream sends nothing but what any upstream might: the feed, early  *)
(* lists included, is a behaviour of the order book cache.                  *)

(* A list of changes is a list of at most MaxBatch orders.                  *)
LEMMA ChangesAreOrders ==
    ASSUME NEW src \in Book, NEW T \in UpTo(MaxBatch, Price), T \subseteq Levels(src),
           NEW list \in AnyOrder({OrderAt(src, p) : p \in T})
    PROVE  \E n \in 1..MaxBatch : list \in [1..n -> Order]
<1>. DEFINE S == {OrderAt(src, p) : p \in T}
            at == [p \in T |-> OrderAt(src, p)]
<1>1. T \subseteq Price /\ T # {} /\ Cardinality(T) <= MaxBatch
  BY DEF UpTo
<1>2. IsFiniteSet(T)
  BY <1>1, PriceAssumption, FS_Subset
<1>3. at \in Surjection(T, S)
  BY DEF Surjection
<1>4. IsFiniteSet(S) /\ Cardinality(S) <= Cardinality(T)
  <2>. HIDE DEF S, at
  <2>. QED  BY <1>2, <1>3, FS_Surjection
<1>5. S # {} /\ S \subseteq Order
  BY <1>1, LevelTypes
<1>6. list \in [1..Cardinality(S) -> S]
  BY DEF AnyOrder
<1>. HIDE DEF S
<1>7. Cardinality(S) \in Nat /\ Cardinality(T) \in Nat /\ Cardinality(S) # 0
  BY <1>2, <1>4, <1>5, FS_CardinalityType, FS_EmptySet
<1>8. Cardinality(S) \in 1..MaxBatch
  BY <1>1, <1>4, <1>7, MaxBatchAssumption
<1>9. list \in [1..Cardinality(S) -> Order]
  BY <1>5, <1>6
<1>. QED  BY <1>8, <1>9

LEMMA ListIsReceived ==
    ASSUME exch \in Book, List
    PROVE  exch' \in Book /\ Next
<1>1. ASSUME NEW act \in Action, NEW T \in UpTo(MaxBatch, Price),
             NEW new \in [T -> Level \cup {NoLevel}], Send(act, new),
             act = "delete" => T \subseteq Levels(exch),
             act # "delete" => new \in [T -> Level]
      PROVE  exch' \in Book /\ Next
  <2>1. T \in SUBSET Price /\ DOMAIN new = T /\ exch' = With(exch, new)
    BY <1>1 DEF UpTo, Send
  <2>2. exch' \in Book /\ \A p \in T : exch'[p] = new[p]
    BY <2>1, WithType
  <2>3. PICK src \in Book : src = IF act = "delete" THEN exch ELSE exch'
    BY <2>2
  <2>4. T \subseteq Levels(src)
    <3>1. CASE act = "delete"
      BY <1>1, <2>3, <3>1
    <3>2. CASE act # "delete"
      <4>1. \A p \in T : new[p] # NoLevel
        BY <1>1, <3>2 DEF Level, NoLevel, Side
      <4>. QED  BY <2>1, <2>2, <2>3, <3>2, <4>1 DEF Levels
    <3>. QED  BY <3>1, <3>2
  <2>5. PICK list \in AnyOrder({OrderAt(src, p) : p \in T}) : ReceiveList(act, list)
    BY <1>1, <2>1, <2>3 DEF Send
  <2>6. \E n \in 1..MaxBatch : list \in [1..n -> Order]
    BY <2>4, ChangesAreOrders
  <2>. QED  BY <2>2, <2>5, <2>6 DEF Next
<1>2. \A S \in SUBSET Price : UpTo(MaxBatch, S) \subseteq UpTo(MaxBatch, Price)
                              /\ \A T \in UpTo(MaxBatch, S) : T \subseteq S
  BY DEF UpTo
<1>3. Levels(exch) \in SUBSET Price /\ Price \ Levels(exch) \in SUBSET Price
      /\ "delete" \in Action /\ "insert" \in Action /\ "update" \in Action
  BY DEF Levels, Action
<1>4. ASSUME NEW T \in UpTo(MaxBatch, Levels(exch)), Send("delete", [p \in T |-> NoLevel])
      PROVE  exch' \in Book /\ Next
  <2>1. [p \in T |-> NoLevel] \in [T -> Level \cup {NoLevel}]
    OBVIOUS
  <2>. QED  BY <1>1, <1>2, <1>3, <1>4, <2>1
<1>5. ASSUME NEW T \in UpTo(MaxBatch, Price \ Levels(exch)), NEW new \in [T -> Level],
             Send("insert", new)
      PROVE  exch' \in Book /\ Next
  <2>1. new \in [T -> Level \cup {NoLevel}]
    OBVIOUS
  <2>. QED  BY <1>1, <1>2, <1>3, <1>5, <2>1
<1>6. ASSUME NEW T \in UpTo(MaxBatch, Levels(exch)), NEW sizes \in [T -> Size],
             Send("update", [p \in T |-> [side |-> exch[p].side, size |-> sizes[p]]])
      PROVE  exch' \in Book /\ Next
  <2>. DEFINE new == [p \in T |-> [side |-> exch[p].side, size |-> sizes[p]]]
  <2>1. \A p \in T : exch[p].side \in Side
    <3>1. T \subseteq Levels(exch)
      BY <1>2, <1>3
    <3>. QED  BY <3>1, LevelIsSide DEF Levels
  <2>2. new \in [T -> Level] /\ new \in [T -> Level \cup {NoLevel}]
    BY <2>1 DEF Level
  <2>. HIDE DEF new
  <2>3. Send("update", new)
    BY <1>6 DEF new
  <2>4. T \in UpTo(MaxBatch, Price)
    BY <1>2, <1>3
  <2>. QED  BY <1>1, <1>3, <2>2, <2>3, <2>4
<1>. QED  BY <1>4, <1>5, <1>6 DEF List

LEMMA FeedStepIsStep == exch \in Book /\ [FeedNext]_feedVars => exch' \in Book /\ [Next]_vars
<1>. SUFFICES ASSUME exch \in Book, [FeedNext]_feedVars PROVE exch' \in Book /\ [Next]_vars
  OBVIOUS
<1>1. CASE Partial
  BY <1>1 DEF Partial, Next
<1>2. CASE Delta \/ EarlyDelta
  BY <1>2, ListIsReceived DEF Delta, EarlyDelta
<1>3. CASE Reconnect
  <2>1. PICK T \in {{}} \cup UpTo(MaxDrift, Price) :
              \E new \in [T -> Level \cup {NoLevel}] : exch' = With(exch, new)
    BY <1>3 DEF Reconnect
  <2>2. T \in SUBSET Price
    BY DEF UpTo
  <2>3. exch' \in Book
    BY <2>1, <2>2, WithType
  <2>. QED  BY <1>3, <2>3 DEF Reconnect
<1>4. CASE \/ Cache(handleDelete) \/ Cache(handleInsert) \/ Cache(handleUpdate)
           \/ Cache(dispatchRsp) \/ Cache(MergeInsert) \/ Cache(MergeUpdate)
           \/ \E d \in Streams : Cache(Subscribe(d))
  BY <1>4 DEF Cache, Next, Internal
<1>5. CASE UNCHANGED feedVars
  BY <1>5 DEF feedVars
<1>. QED  BY <1>1, <1>2, <1>3, <1>4, <1>5 DEF FeedNext

ExchIsBook == exch \in Book

(* Every step of the upstream and of a lost connection is a step of the     *)
(* cache for some message, or leaves the cache alone (handleInput).         *)
THEOREM FeedImplementsCache == FeedSpec => Spec
<1>1. FeedInit => Init /\ ExchIsBook
  BY DEF FeedInit, ExchIsBook
<1>2. ExchIsBook /\ [FeedNext]_feedVars => ExchIsBook'
  BY FeedStepIsStep DEF ExchIsBook
<1>3. ExchIsBook /\ [FeedNext]_feedVars => [Next]_vars
  BY FeedStepIsStep DEF ExchIsBook
<1>. QED  BY <1>1, <1>2, <1>3, PTL DEF FeedSpec, Spec

(* The ladders, the map and the published lists keep their shape, also when *)
(* lists arrive before the partial of their connection (applyData).         *)
THEOREM FeedTypeCorrect == FeedSpec => []TypeOK
  BY FeedImplementsCache, TypeCorrect, PTL
-----------------------------------------------------------------------------
(* Early lists.  They may name a side the map does not have the price on,   *)
(* and leave prices on a ladder that the map has not, or twice.  What the   *)
(* ladder operations still do then.                                         *)

LEMMA SortedFinds ==
    ASSUME NEW list \in Seq(Price), NEW r \in BOOLEAN, SortedList(list, r),
           NEW p \in Price
    PROVE  p \in Range(list) => UniPriceSearch(list, p, r) >= 0
<1>. SUFFICES ASSUME NEW j \in 1..Len(list), list[j] = p
              PROVE  UniPriceSearch(list, p, r) >= 0
  BY DEF Range
<1>1. p \in Int /\ \A i \in 1..Len(list) : list[i] \in Int
  BY PriceIsInt
<1>. DEFINE k == Rank(list, p, r)
<1>2. k \in 0..Len(list) /\ \A i \in 1..Len(list) : Before(list[i], p, r) <=> i <= k
  BY RankIsBoundary
<1>. HIDE DEF k
<1>3. ~Before(list[j], p, r)
  BY <1>1 DEF Before
<1>4. k < j /\ k + 1 \in 1..Len(list)
  BY <1>2, <1>3
<1>5. ~Before(list[k + 1], p, r)
  BY <1>2, <1>4
<1>6. k + 1 < j => ~Before(p, list[k + 1], r)
  BY <1>4 DEF SortedList
<1>7. list[k + 1] = p
  <2>1. CASE k + 1 = j
    BY <2>1
  <2>2. CASE k + 1 < j
    <3>1. list[k + 1] \in Int
      BY <1>1, <1>4
    <3>. QED  BY <1>1, <1>5, <1>6, <2>2, <3>1 DEF Before
  <2>. QED  BY <1>2, <1>4, <2>1, <2>2
<1>. QED  BY <1>2, <1>4, <1>7 DEF UniPriceSearch, k

LEMMA RemoveSorted ==
    ASSUME NEW list \in Seq(Price), NEW r \in BOOLEAN, SortedList(list, r),
           NEW p \in Price,
           NEW removed, removed = UniPriceRemove(list, p, r)
    PROVE  /\ SortedList(removed.rtn, r)
           /\ Range(list) \ {p} \subseteq Range(removed.rtn)
           /\ p \in Range(list) => removed.idx >= 0
<1>. DEFINE idx == UniPriceSearch(list, p, r)
            new == RemoveAt(list, idx + 1)
<1>1. removed = [idx |-> idx, rtn |-> IF idx < 0 THEN list ELSE new]
  BY DEF UniPriceRemove
<1>2. idx \in -1..(Len(list) - 1) /\ (p \in Range(list) => idx >= 0)
  BY SearchType, SortedFinds
<1>3. idx >= 0 => list[idx + 1] = p
  BY <1>2 DEF UniPriceSearch
<1>. HIDE DEF idx
<1>4. CASE idx < 0
  BY <1>1, <1>2, <1>4
<1>5. CASE ~(idx < 0)
  <2>. DEFINE j == idx + 1
              at(n) == IF n < j THEN n ELSE n + 1
  <2>1. j \in 1..Len(list) /\ Len(list) \in Nat
    BY <1>2, <1>5
  <2>2. /\ new \in Seq(Price) /\ Len(new) = Len(list) - 1
        /\ \A i \in 1..(Len(list) - 1) : new[i] = IF i < j THEN list[i] ELSE list[i + 1]
    BY <2>1, RemovedList
  <2>. HIDE DEF new
  <2>3. DOMAIN new = 1..(Len(list) - 1) /\ DOMAIN list = 1..Len(list)
    BY <2>1, <2>2
  <2>4. \A i \in 1..(Len(list) - 1) : new[i] = list[at(i)] /\ at(i) \in 1..Len(list)
    BY <2>1, <2>2
  <2>5. SortedList(new, r)
    <3>. SUFFICES ASSUME NEW i \in 1..(Len(list) - 1), NEW m \in 1..(Len(list) - 1), i < m
                  PROVE  ~Before(new[m], new[i], r)
      BY <2>3 DEF SortedList
    <3>1. at(i) < at(m)
      BY <2>1
    <3>. HIDE DEF at
    <3>. QED  BY <2>3, <2>4, <3>1 DEF SortedList
  <2>6. ASSUME NEW i \in 1..Len(list), list[i] # p PROVE list[i] \in Range(new)
    <3>0. i # j
      BY <1>3, <1>5, <2>6, <1>2
    <3>1. CASE i < j
      <4>1. i \in DOMAIN new /\ new[i] = list[i]
        BY <2>1, <2>2, <2>3, <3>1
      <4>. QED  BY <4>1 DEF Range
    <3>2. CASE i > j
      <4>1. i - 1 \in DOMAIN new /\ ~(i - 1 < j) /\ (i - 1) + 1 = i
        BY <2>1, <2>3, <3>2
      <4>2. new[i - 1] = list[i]
        BY <2>2, <2>3, <4>1
      <4>. QED  BY <4>1, <4>2 DEF Range
    <3>. QED  BY <2>1, <3>0, <3>1, <3>2
  <2>7. Range(list) \ {p} \subseteq Range(new)
    BY <2>3, <2>6 DEF Range
  <2>. QED  BY <1>1, <1>2, <1>5, <2>5, <2>7
<1>. QED  BY <1>4, <1>5

(* The price goes where no price right of it stands before it, and none     *)
(* left of it after it.                                                     *)
LEMMA InsertSorted ==
    ASSUME NEW list \in Seq(Price), NEW r \in BOOLEAN, SortedList(list, r),
           NEW p \in Price, NEW k \in 0..Len(list),
           \A i \in 1..Len(list) : IF i <= k THEN ~Before(p, list[i], r)
                                             ELSE ~Before(list[i], p, r)
    PROVE  /\ SortedList(InsertAt(list, k + 1, p), r)
           /\ Range(list) \cup {p} \subseteq Range(InsertAt(list, k + 1, p))
<1>. DEFINE new == InsertAt(list, k + 1, p)
<1>1. /\ new \in Seq(Price) /\ Len(new) = Len(list) + 1
      /\ \A i \in 1..(Len(list) + 1) :
            new[i] = IF i <= k THEN list[i] ELSE IF i = k + 1 THEN p ELSE list[i - 1]
  BY InsertedList
<1>. HIDE DEF new
<1>2. k \in Nat /\ Len(list) \in Nat /\ DOMAIN new = 1..(Len(list) + 1)
      /\ DOMAIN list = 1..Len(list)
  BY <1>1
<1>3. SortedList(new, r)
  <2>. SUFFICES ASSUME NEW i \in 1..(Len(list) + 1), NEW j \in 1..(Len(list) + 1), i < j
                PROVE  ~Before(new[j], new[i], r)
    BY <1>2 DEF SortedList
  <2>1. CASE j <= k
    <3>1. i \in 1..Len(list) /\ j \in 1..Len(list) /\ new[i] = list[i] /\ new[j] = list[j]
      BY <1>1, <1>2, <2>1
    <3>. QED  BY <1>2, <3>1 DEF SortedList
  <2>2. CASE j = k + 1
    <3>1. i \in 1..Len(list) /\ i <= k /\ new[i] = list[i] /\ new[j] = p
      BY <1>1, <1>2, <2>2
    <3>. QED  BY <3>1
  <2>3. CASE j > k + 1 /\ i = k + 1
    <3>1. j - 1 \in 1..Len(list) /\ ~(j - 1 <= k) /\ new[i] = p /\ new[j] = list[j - 1]
      BY <1>1, <1>2, <2>3
    <3>. QED  BY <3>1
  <2>4. CASE j > k + 1 /\ i <= k
    <3>1. new[i] = list[i] /\ new[j] = list[j - 1] /\ i < j - 1
          /\ i \in 1..Len(list) /\ j - 1 \in 1..Len(list)
      BY <1>1, <1>2, <2>4
    <3>. QED  BY <1>2, <3>1 DEF SortedList
  <2>5. CASE i > k + 1
    <3>1. new[i] = list[i - 1] /\ new[j] = list[j - 1] /\ i - 1 < j - 1
          /\ i - 1 \in 1..Len(list) /\ j - 1 \in 1..Len(list)
      BY <1>1, <1>2, <2>5
    <3>. QED  BY <1>2, <3>1 DEF SortedList
  <2>. QED  BY <1>2, <2>1, <2>2, <2>3, <2>4, <2>5
<1>4. p \in Range(new)
  <2>1. k + 1 \in DOMAIN new /\ new[k + 1] = p
    BY <1>1, <1>2
  <2>. QED  BY <2>1 DEF Range
<1>5. ASSUME NEW i \in 1..Len(list) PROVE list[i] \in Range(new)
  <2>1. CASE i <= k
    <3>1. i \in DOMAIN new /\ new[i] = list[i]
      BY <1>1, <1>2, <2>1
    <3>. QED  BY <3>1 DEF Range
  <2>2. CASE i > k
    <3>1. i + 1 \in DOMAIN new /\ ~(i + 1 <= k) /\ i + 1 # k + 1 /\ (i + 1) - 1 = i
      BY <1>2, <2>2
    <3>2. new[i + 1] = list[i]
      BY <1>1, <1>2, <3>1
    <3>. QED  BY <3>1, <3>2 DEF Range
  <2>. QED  BY <1>2, <2>1, <2>2
<1>6. Range(list) \subseteq Range(new)
  BY <1>2, <1>5 DEF Range
<1>. QED  BY <1>3, <1>4, <1>6 DEF new

LEMMA JoinedList ==
    ASSUME NEW a \in Seq(Price), NEW b \in Seq(Price)
    PROVE  /\ a \o b \in Seq(Price) /\ Len(a \o b) = Len(a) + Len(b)
           /\ \A i \in 1..(Len(a) + Len(b)) :
                 (a \o b)[i] = IF i <= Len(a) THEN a[i] ELSE b[i - Len(a)]
  BY ConcatProperties

LEMMA AddSorted ==
    ASSUME NEW list \in Seq(Price), NEW r \in BOOLEAN, SortedList(list, r),
           NEW p \in Price,
           NEW added, added = UniPriceAdd(list, p, r)
    PROVE  /\ SortedList(added.rtn, r)
           /\ Range(list) \cup {p} \subseteq Range(added.rtn)
<1>1. p \in Int /\ \A i \in 1..Len(list) : list[i] \in Int
  BY PriceIsInt
<1>2. CASE /\ Len(list) = 1 /\ list[1] = p
           /\ added = [idx |-> 1, rtn |-> list \o <<p>> \o list]
  <2>. DEFINE one == <<p>>
              two == list \o one
              new == two \o list
  <2>1. one \in Seq(Price) /\ Len(one) = 1 /\ \A i \in 1..Len(one) : one[i] = p
    OBVIOUS
  <2>0. \A i \in 1..Len(list) : list[i] = p
    BY <1>2
  <2>. HIDE DEF one
  <2>2. /\ two \in Seq(Price) /\ Len(two) = Len(list) + Len(one)
        /\ \A i \in 1..(Len(list) + Len(one)) :
              two[i] = IF i <= Len(list) THEN list[i] ELSE one[i - Len(list)]
    BY <2>1, JoinedList
  <2>3. \A i \in 1..Len(two) : two[i] = p
    <3>1. \A i \in 1..Len(two) : i <= Len(list) \/ i - Len(list) \in 1..Len(one)
      BY <2>1, <2>2
    <3>. QED  BY <2>0, <2>1, <2>2, <3>1
  <2>. HIDE DEF two
  <2>4. /\ new \in Seq(Price) /\ Len(new) = Len(two) + Len(list)
        /\ \A i \in 1..(Len(two) + Len(list)) :
              new[i] = IF i <= Len(two) THEN two[i] ELSE list[i - Len(two)]
    BY <2>2, JoinedList
  <2>. HIDE DEF new
  <2>5. \A i \in 1..Len(new) : new[i] = p
    <3>1. \A i \in 1..Len(new) : i <= Len(two) \/ i - Len(two) \in 1..Len(list)
      BY <2>2, <2>4
    <3>. QED  BY <2>0, <2>2, <2>3, <2>4, <3>1
  <2>6. DOMAIN new = 1..Len(new) /\ Len(new) \in Nat /\ Len(new) >= 1
    BY <1>2, <2>1, <2>2, <2>4
  <2>7. SortedList(new, r)
    BY <1>1, <2>5, <2>6 DEF SortedList, Before
  <2>8. Range(list) \cup {p} \subseteq Range(new)
    <3>1. p \in Range(new)
      BY <2>5, <2>6 DEF Range
    <3>. QED  BY <2>0, <3>1 DEF Range
  <2>9. added.rtn = new
    BY <1>2 DEF new, two, one
  <2>. QED  BY <2>7, <2>8, <2>9
<1>3. ASSUME NEW k \in 0..Len(list), k = Rank(list, p, r) \/ (k = 1 /\ list[1] = p),
             added = [idx |-> k, rtn |-> InsertAt(list, k + 1, p)]
      PROVE  /\ SortedList(added.rtn, r)
             /\ Range(list) \cup {p} \subseteq Range(added.rtn)
  <2>1. ASSUME NEW i \in 1..Len(list)
        PROVE  IF i <= k THEN ~Before(p, list[i], r) ELSE ~Before(list[i], p, r)
    <3>1. CASE k = Rank(list, p, r)
      <4>1. Before(list[i], p, r) <=> i <= k
        BY <3>1, RankIsBoundary
      <4>. QED  BY <1>1, <4>1 DEF Before
    <3>2. CASE k = 1 /\ list[1] = p
      <4>1. CASE i = 1
        BY <1>1, <3>2, <4>1 DEF Before
      <4>2. CASE i # 1
        <5>1. 1 \in DOMAIN list /\ i \in DOMAIN list /\ 1 < i /\ ~(i <= k)
          BY <3>2, <4>2
        <5>2. ~Before(list[i], list[1], r)
          BY <5>1 DEF SortedList
        <5>. QED  BY <3>2, <5>1, <5>2
      <4>. QED  BY <4>1, <4>2
    <3>. QED  BY <1>3, <3>1, <3>2
  <2>2. /\ SortedList(InsertAt(list, k + 1, p), r)
        /\ Range(list) \cup {p} \subseteq Range(InsertAt(list, k + 1, p))
    BY <2>1, InsertSorted
  <2>. QED  BY <1>3, <2>2
<1>. QED  BY <1>2, <1>3, AddCases

-----------------------------------------------------------------------------
(* What holds of the ladders and the map whatever lists come early, and     *)
(* what one order does then: it panics; it fails, and leaves the list; or   *)
(* it is applied, an update perhaps to the level of the other side.         *)

Listed ==
    \A s \in Side : /\ SortedList(prices[s], Descending(s))
                    /\ PricesOf(l2Cache, s) \subseteq Range(prices[s])

AppliedOtherSide(ord) ==
    /\ action = "update" /\ l2Cache[ord.price].side # ord.side
    /\ todo' = Tail(todo)
    /\ UNCHANGED <<inited, pc, action, data, merge, joined, view, panicked>>

OrderOutcome ==
    \/ \E why \in {"emptySide", "nilOrder", "nilMap"} :
          Panic(why) /\ (why = "nilMap" => ~inited)
    \/ /\ Listed' /\ Abort /\ UNCHANGED inited
       /\ ~Fits(action, Head(todo), l2Cache)
    \/ /\ Listed'
       /\ Applied(action, Head(todo)) \/ AppliedOtherSide(Head(todo))

(* The map is changed at one price, which is on the ladder it belongs to.   *)
LEMMA ListedStep ==
    ASSUME TypeOK, Listed, NEW s \in Side, NEW p \in Price, NEW lvl \in Level \cup {NoLevel},
           NEW list \in Seq(Price),
           prices' = [prices EXCEPT ![s] = list],
           l2Cache' = [l2Cache EXCEPT ![p] = lvl],
           SortedList(list, Descending(s)),
           Range(prices[s]) \ {p} \subseteq Range(list),
           lvl = NoLevel \/ (lvl.side = s /\ p \in Range(list))
    PROVE  Listed'
<1>. SUFFICES ASSUME NEW t \in Side
              PROVE  /\ SortedList(prices'[t], Descending(t))
                     /\ PricesOf(l2Cache', t) \subseteq Range(prices'[t])
  BY DEF Listed
<1>1. prices'[t] = IF t = s THEN list ELSE prices[t]
  BY DEF TypeOK
<1>2. \A q \in Price : l2Cache'[q] = IF q = p THEN lvl ELSE l2Cache[q]
  BY DEF TypeOK, Book
<1>3. SortedList(prices'[t], Descending(t))
  BY <1>1 DEF Listed
<1>4. ASSUME NEW q \in Price, l2Cache'[q].side = t PROVE q \in Range(prices'[t])
  <2>1. CASE q # p
    BY <1>1, <1>2, <1>4, <2>1 DEF Listed, PricesOf
  <2>2. CASE q = p
    <3>1. lvl.side = t /\ lvl # NoLevel
      BY <1>2, <1>4, <2>2 DEF NoLevel, Side
    <3>. QED  BY <1>1, <2>2, <3>1
  <2>. QED  BY <2>1, <2>2
<1>. QED  BY <1>3, <1>4 DEF PricesOf

LEMMA DeleteOutcome == TypeOK /\ Listed /\ handleDelete => OrderOutcome
<1>. SUFFICES ASSUME TypeOK, Listed, handleDelete PROVE OrderOutcome
  OBVIOUS
<1>. DEFINE ord == Head(todo)
            list == prices[ord.side]
            removed == UniPriceRemove(list, ord.price, Descending(ord.side))
            depth == Len(list) - removed.idx
<1>1. todo # <<>> /\ ord \in Order /\ action = "delete"
  BY DEF handleDelete, Applying, TypeOK
<1>2. /\ ord.side \in Side /\ ord.price \in Price /\ list \in Seq(Price)
      /\ Descending(ord.side) \in BOOLEAN
  BY <1>1 DEF Order, TypeOK, Descending
<1>3. /\ SortedList(removed.rtn, Descending(ord.side)) /\ removed.rtn \in Seq(Price)
      /\ Range(list) \ {ord.price} \subseteq Range(removed.rtn)
      /\ ord.price \in Range(list) => removed.idx >= 0
      /\ removed.idx \in Int
  <2>1. SortedList(list, Descending(ord.side))
    BY <1>2 DEF Listed
  <2>2. removed = UniPriceRemove(list, ord.price, Descending(ord.side))
    OBVIOUS
  <2>3. removed.rtn \in Seq(Price) /\ removed.idx \in Int
    <3>. HIDE DEF list, ord
    <3>. QED  BY <1>2, RemoveType
  <2>. HIDE DEF removed, list, ord, depth
  <2>4. /\ SortedList(removed.rtn, Descending(ord.side))
        /\ Range(list) \ {ord.price} \subseteq Range(removed.rtn)
        /\ ord.price \in Range(list) => removed.idx >= 0
    BY ONLY <1>2, <2>1, <2>2, RemoveSorted
  <2>. QED  BY <2>3, <2>4
<1>4. l2Cache[ord.price].side = ord.side => ord.price \in Range(list)
  BY <1>2 DEF Listed, PricesOf
<1>. HIDE DEF removed, depth
<1>5. CASE l2Cache[ord.price] = NoLevel /\ Abort /\ UNCHANGED book
  <2>1. Listed' /\ UNCHANGED inited
    BY <1>5 DEF Listed, book
  <2>2. ~Fits(action, ord, l2Cache)
    BY <1>1, <1>2, <1>5 DEF Fits, NoLevel, Side
  <2>. QED  BY <1>5, <2>1, <2>2 DEF OrderOutcome
<1>6. CASE Panic("emptySide") \/ Panic("nilOrder")
  BY <1>6 DEF OrderOutcome
<1>7. CASE /\ prices' = [prices EXCEPT ![ord.side] = removed.rtn]
           /\ l2Cache' = [l2Cache EXCEPT ![ord.price] = NoLevel]
           /\ UNCHANGED inited
           /\ IF removed.idx < 0 THEN Abort ELSE Collect(ord, depth, Limit)
  <2>1. Listed'
    <3>2. /\ prices' = [prices EXCEPT ![ord.side] = removed.rtn]
          /\ l2Cache' = [l2Cache EXCEPT ![ord.price] = NoLevel]
          /\ Range(prices[ord.side]) \ {ord.price} \subseteq Range(removed.rtn)
      BY <1>3, <1>7
    <3>3. NoLevel \in Level \cup {NoLevel} /\ ord.side \in Side /\ ord.price \in Price
      BY <1>2
    <3>. HIDE DEF ord, list
    <3>. QED  BY <1>3, <3>2, <3>3, ListedStep
  <2>2. CASE removed.idx < 0
    <3>1. ~Fits(action, ord, l2Cache)
      BY <1>1, <1>3, <1>4, <2>2 DEF Fits
    <3>. QED  BY <1>7, <2>1, <2>2, <3>1 DEF OrderOutcome
  <2>3. CASE ~(removed.idx < 0)
    <3>1. Collect(ord, depth, Limit)
      BY <1>7, <2>3
    <3>2. Applied(action, ord)
      BY <1>1, <1>7, <3>1 DEF Applied, Collect, Gives, subs
    <3>. QED  BY <2>1, <3>2 DEF OrderOutcome
  <2>. QED  BY <2>2, <2>3
<1>. QED  BY <1>5, <1>6, <1>7 DEF handleDelete, removed, depth

LEMMA InsertOutcome == TypeOK /\ Listed /\ handleInsert => OrderOutcome
<1>. SUFFICES ASSUME TypeOK, Listed, handleInsert PROVE OrderOutcome
  OBVIOUS
<1>. DEFINE ord == Head(todo)
            list == prices[ord.side]
            added == UniPriceAdd(list, ord.price, Descending(ord.side))
            depth == Len(added.rtn) - added.idx
<1>1. todo # <<>> /\ ord \in Order /\ action = "insert"
  BY DEF handleInsert, Applying, TypeOK
<1>2. /\ ord.side \in Side /\ ord.price \in Price /\ ord.size \in Size /\ list \in Seq(Price)
      /\ Descending(ord.side) \in BOOLEAN
  BY <1>1 DEF Order, TypeOK, Descending
<1>3. /\ SortedList(added.rtn, Descending(ord.side)) /\ added.rtn \in Seq(Price)
      /\ Range(list) \cup {ord.price} \subseteq Range(added.rtn)
  <2>1. SortedList(list, Descending(ord.side))
    BY <1>2 DEF Listed
  <2>2. added = UniPriceAdd(list, ord.price, Descending(ord.side))
    OBVIOUS
  <2>3. added.rtn \in Seq(Price)
    <3>. HIDE DEF list, ord
    <3>. QED  BY <1>2, AddType
  <2>. HIDE DEF added, list, ord, depth
  <2>4. /\ SortedList(added.rtn, Descending(ord.side))
        /\ Range(list) \cup {ord.price} \subseteq Range(added.rtn)
    BY ONLY <1>2, <2>1, <2>2, AddSorted
  <2>. QED  BY <2>3, <2>4
<1>. HIDE DEF added, depth
<1>4. CASE l2Cache[ord.price] # NoLevel /\ Abort /\ UNCHANGED book
  <2>1. Listed' /\ UNCHANGED inited
    BY <1>4 DEF Listed, book
  <2>2. ~Fits(action, ord, l2Cache)
    BY <1>1, <1>4 DEF Fits
  <2>. QED  BY <1>4, <2>1, <2>2 DEF OrderOutcome
<1>5. CASE ~inited /\ Panic("nilMap")
  BY <1>5 DEF OrderOutcome
<1>6. CASE /\ l2Cache[ord.price] = NoLevel
           /\ prices' = [prices EXCEPT ![ord.side] = added.rtn]
           /\ l2Cache' = [l2Cache EXCEPT ![ord.price] = LevelOf(ord)]
           /\ UNCHANGED inited
           /\ Collect(ord, depth, Limit + 1)
  <2>1. LevelOf(ord) \in Level /\ LevelOf(ord).side = ord.side
    BY <1>2 DEF LevelOf, Level
  <2>2. Listed'
    <3>1. LevelOf(ord).side = ord.side /\ ord.price \in Range(added.rtn)
      BY <1>3, <2>1
    <3>2. /\ prices' = [prices EXCEPT ![ord.side] = added.rtn]
          /\ l2Cache' = [l2Cache EXCEPT ![ord.price] = LevelOf(ord)]
          /\ Range(prices[ord.side]) \ {ord.price} \subseteq Range(added.rtn)
      BY <1>3, <1>6
    <3>3. LevelOf(ord) \in Level \cup {NoLevel} /\ ord.side \in Side /\ ord.price \in Price
      BY <1>2, <2>1
    <3>. HIDE DEF ord, list
    <3>. QED  BY <1>3, <3>1, <3>2, <3>3, ListedStep
  <2>3. Applied(action, ord)
    BY <1>1, <1>6 DEF Applied, Collect, Gives, subs
  <2>. QED  BY <2>2, <2>3 DEF OrderOutcome
<1>. QED  BY <1>4, <1>5, <1>6 DEF handleInsert, added, depth

LEMMA UpdateOutcome == TypeOK /\ Listed /\ handleUpdate => OrderOutcome
<1>. SUFFICES ASSUME TypeOK, Listed, handleUpdate PROVE OrderOutcome
  OBVIOUS
<1>. DEFINE ord == Head(todo)
            list == prices[ord.side]
            idx == UniPriceSearch(list, ord.price, Descending(ord.side))
            depth == Len(list) - idx
            lvl == [l2Cache[ord.price] EXCEPT !.size = ord.size]
<1>1. todo # <<>> /\ ord \in Order /\ action = "update"
  BY DEF handleUpdate, Applying, TypeOK
<1>2. /\ ord.side \in Side /\ ord.price \in Price /\ ord.size \in Size /\ list \in Seq(Price)
      /\ Descending(ord.side) \in BOOLEAN /\ l2Cache \in Book
  BY <1>1 DEF Order, TypeOK, Descending
<1>3. l2Cache[ord.price].side = ord.side => idx >= 0
  <2>1. l2Cache[ord.price].side = ord.side => ord.price \in Range(list)
    BY <1>2 DEF Listed, PricesOf
  <2>2. SortedList(list, Descending(ord.side))
    BY <1>2 DEF Listed
  <2>3. idx = UniPriceSearch(list, ord.price, Descending(ord.side))
    OBVIOUS
  <2>. HIDE DEF idx, list, ord, depth
  <2>4. ord.price \in Range(list) => idx >= 0
    BY ONLY <1>2, <2>2, <2>3, SortedFinds
  <2>. QED  BY <2>1, <2>4
<1>4. idx \in Int
  <2>. HIDE DEF list, ord
  <2>. QED  BY <1>2, SearchType
<1>. HIDE DEF idx, depth
<1>5. CASE l2Cache[ord.price] = NoLevel /\ Abort /\ UNCHANGED book
  <2>1. Listed' /\ UNCHANGED inited
    BY <1>5 DEF Listed, book
  <2>2. ~Fits(action, ord, l2Cache)
    BY <1>1, <1>2, <1>5 DEF Fits, NoLevel, Side
  <2>. QED  BY <1>5, <2>1, <2>2 DEF OrderOutcome
<1>6. CASE idx < 0 /\ Abort /\ UNCHANGED <<prices, inited, l2Cache>>
  <2>1. Listed'
    BY <1>6 DEF Listed
  <2>2. ~Fits(action, ord, l2Cache)
    BY <1>1, <1>3, <1>4, <1>6 DEF Fits
  <2>. QED  BY <1>6, <2>1, <2>2 DEF OrderOutcome
<1>7. CASE /\ l2Cache[ord.price] # NoLevel
           /\ UNCHANGED <<prices, inited>>
           /\ l2Cache' = [l2Cache EXCEPT ![ord.price] = lvl]
           /\ Collect(ord, depth, Limit)
  <2>1. /\ l2Cache[ord.price].side \in Side
        /\ lvl = [side |-> l2Cache[ord.price].side, size |-> ord.size]
    <3>1. /\ l2Cache[ord.price].side \in Side
          /\ l2Cache[ord.price] = [side |-> l2Cache[ord.price].side,
                                   size |-> l2Cache[ord.price].size]
      BY <1>2, <1>7, LevelIsSide
    <3>. QED  BY <3>1
  <2>. HIDE DEF lvl
  <2>2. Listed'
    <3>1. \A q \in Price : l2Cache'[q] = IF q = ord.price THEN lvl ELSE l2Cache[q]
      BY <1>2, <1>7 DEF Book
    <3>2. \A q \in Price : l2Cache'[q].side = l2Cache[q].side
      BY <1>2, <2>1, <3>1
    <3>3. \A s \in Side : PricesOf(l2Cache', s) = PricesOf(l2Cache, s)
      BY <3>2 DEF PricesOf
    <3>. QED  BY <1>7, <3>3 DEF Listed
  <2>3. CASE l2Cache[ord.price].side = ord.side
    <3>1. lvl = Gives(action, ord)
      BY <1>1, <2>1, <2>3 DEF Gives, LevelOf
    <3>2. Applied(action, ord)
      BY <1>1, <1>7, <3>1 DEF Applied, Collect, subs
    <3>. QED  BY <2>2, <3>2 DEF OrderOutcome
  <2>4. CASE l2Cache[ord.price].side # ord.side
    <3>1. AppliedOtherSide(ord)
      BY <1>1, <1>7, <2>4 DEF AppliedOtherSide, Collect, subs
    <3>. QED  BY <2>2, <3>1 DEF OrderOutcome
  <2>. QED  BY <2>3, <2>4
<1>8. l2Cache' = [l2Cache EXCEPT ![ord.price].size = ord.size]
        => l2Cache' = [l2Cache EXCEPT ![ord.price] = lvl]
  OBVIOUS
<1>. QED  BY <1>5, <1>6, <1>7, <1>8 DEF handleUpdate, idx, depth

-----------------------------------------------------------------------------
(* The invariant that early lists leave.  Until a partial has been merged   *)
(* nothing is said of the map; from then on the lists applied make it the   *)
(* upstream's.  EarlyTarget is Target without what a price left on a ladder *)
(* disturbs: the map has no level that the old ladders or the partial has   *)
(* not.  A subscriber that has not missed a change makes of its book and    *)
(* the whole list what the cache makes of its own and the rest.             *)

EarlyTarget(c) ==
    /\ merge.phase = "none" => c = exch
    /\ merge.phase = "delete" =>
          \A p \in Price, s \in Side :
             c[p].side = s => p \in merge.origin[s] /\ exch[p].side = s
    /\ merge.phase = "insert" => ToUpdate(c)

EarlyFlow ==
    /\ pc = "idle" => merge.phase = "none"
    /\ pc = "merge" => merge.phase # "none"
    /\ merge.phase # "none" => synced /\ merge.partial = exch

EarlyProgress ==
    /\ pc = "idle" /\ synced => l2Cache = exch
    /\ pc = "merge" => EarlyTarget(l2Cache)
    /\ pc = "apply" /\ synced =>
          \E c \in Book : EarlyTarget(c) /\ Leads(action, todo, l2Cache, c)

Apart(list) == \A i, j \in DOMAIN list : i # j => list[i].price # list[j].price

HalfSent(b) ==
    /\ Apart(todo)
    /\ Apply(b, action, data) = Apply(l2Cache, action, todo)
    /\ Len(todo) <= Len(data)
    /\ Len(todo) = Len(data) => b = l2Cache

EarlyView ==
    joined[0] # "no" /\ 0 \notin missed =>
       IF pc = "apply" THEN HalfSent(view[0]) ELSE view[0] = l2Cache

EarlyInv ==
    /\ Running => Listed /\ EarlyFlow /\ EarlyProgress /\ EarlyView
    /\ panicked = "nilMap" => ~inited

EarlyTypes == TypeOK /\ exch \in Book

LEMMA EarlyInitInv == FeedInit => EarlyInv
<1>. SUFFICES ASSUME FeedInit PROVE EarlyInv
  OBVIOUS
<1>1. Listed
  BY DEF FeedInit, Init, Listed, SortedList, PricesOf, EmptyBook, NoLevel, Side
<1>2. EarlyFlow /\ EarlyProgress
  BY DEF FeedInit, Init, EarlyFlow, EarlyProgress, NoMerge
<1>3. EarlyView
  BY DepthType DEF FeedInit, Init, EarlyView
<1>. QED  BY <1>1, <1>2, <1>3 DEF EarlyInv, FeedInit, Init

LEMMA MissedGrow == Misses => missed \subseteq missed'
  BY DEF Misses

LEMMA ApplyNothing ==
    ASSUME NEW b \in Book, NEW act \in Action
    PROVE  Apply(b, act, <<>>) = b
<1>. DEFINE none == <<>>
<1>1. none \in Seq(Order) /\ DOMAIN none = {}
  OBVIOUS
<1>. HIDE DEF none
<1>2. Apply(b, act, none) \in Book
  BY <1>1, ApplyType
<1>3. ASSUME NEW p \in Price PROVE Apply(b, act, none)[p] = b[p]
  <2>1. ~Has(none, p)
    BY <1>1 DEF Has
  <2>. QED  BY <1>1, <2>1, ApplyAt
<1>4. Apply(b, act, none) = b
  BY <1>2, <1>3, BookEquality
<1>. QED  BY <1>4 DEF none

(* Applying the first order of a list and then the rest is applying the     *)
(* list, when its orders are about different prices.                        *)
IsRest(list, rest) ==
    /\ \A i \in DOMAIN rest : \E j \in DOMAIN list : j # 1 /\ rest[i] = list[j]
    /\ \A j \in DOMAIN list : j = 1 \/ \E i \in DOMAIN rest : rest[i] = list[j]

Replaced(b, act, ord, d) ==
    \A p \in Price : d[p] = IF p = ord.price THEN Gives(act, ord) ELSE b[p]

LEMMA ApplyRest ==
    ASSUME NEW b \in Book, NEW d \in Book, NEW act \in Action,
           NEW list \in Seq(Order), NEW rest \in Seq(Order), NEW ord \in Order,
           1 \in DOMAIN list, list[1] = ord, Apart(list), IsRest(list, rest),
           act = "update" => b[ord.price].side = ord.side,
           Replaced(b, act, ord, d)
    PROVE  Apply(b, act, list) = Apply(d, act, rest)
<1>0. \A p \in Price : d[p] = IF p = ord.price THEN Gives(act, ord) ELSE b[p]
  BY DEF Replaced
<1>1. ASSUME NEW p \in Price PROVE Apply(b, act, list)[p] = Apply(d, act, rest)[p]
  <2>1. CASE p = ord.price
    <3>1. ~Has(rest, p)
      <4>. SUFFICES ASSUME NEW i \in DOMAIN rest, rest[i].price = p PROVE FALSE
        BY DEF Has
      <4>1. PICK j \in DOMAIN list : j # 1 /\ rest[i] = list[j]
        BY DEF IsRest
      <4>. QED  BY <2>1, <4>1 DEF Apart
    <3>2. Apply(d, act, rest)[p] = Gives(act, ord)
      BY <1>0, <2>1, <3>1, ApplyAt
    <3>3. \A i \in DOMAIN list : list[i].price = p => i = 1
      BY <2>1 DEF Apart
    <3>4. Has(list, p)
      BY <2>1 DEF Has
    <3>5. act = "update" => b[p] # NoLevel
      BY <2>1 DEF Order, NoLevel, Side
    <3>6. act = "delete" => Apply(b, act, list)[p] = NoLevel
      BY <3>4, ApplyAt
    <3>7. act # "delete" => Apply(b, act, list)[p] = LevelOf(ord)
      BY <3>3, <3>4, <3>5, ApplyAt
    <3>. QED  BY <3>2, <3>6, <3>7 DEF Gives
  <2>2. CASE p # ord.price
    <3>1. d[p] = b[p]
      BY <1>0, <2>2
    <3>2. Has(list, p) => Has(rest, p)
      <4>. SUFFICES ASSUME NEW j \in DOMAIN list, list[j].price = p PROVE Has(rest, p)
        BY DEF Has
      <4>1. PICK i \in DOMAIN rest : rest[i] = list[j]
        BY <2>2 DEF IsRest
      <4>. QED  BY <4>1 DEF Has
    <3>3. Has(rest, p) => Has(list, p)
      BY DEF Has, IsRest
    <3>4. CASE ~Has(list, p)
      BY <3>1, <3>3, <3>4, ApplyAt
    <3>5. CASE Has(list, p) /\ (act = "delete" \/ (act = "update" /\ b[p] = NoLevel))
      <4>1. Apply(b, act, list)[p] = NoLevel
        BY <3>5, ApplyAt
      <4>2. Apply(d, act, rest)[p] = NoLevel
        BY <3>1, <3>2, <3>5, ApplyAt
      <4>. QED  BY <4>1, <4>2
    <3>6. CASE Has(list, p) /\ act # "delete" /\ (act = "update" => b[p] # NoLevel)
      <4>1. PICK i \in DOMAIN list : list[i].price = p
                                     /\ Apply(b, act, list)[p] = LevelOf(list[i])
        BY <3>6, ApplyAt
      <4>2. PICK j \in DOMAIN rest : rest[j].price = p
                                     /\ Apply(d, act, rest)[p] = LevelOf(rest[j])
        BY <3>1, <3>2, <3>6, ApplyAt
      <4>3. PICK k \in DOMAIN list : rest[j] = list[k]
        BY DEF IsRest
      <4>4. i = k
        BY <4>1, <4>2, <4>3 DEF Apart
      <4>. QED  BY <4>1, <4>2, <4>3, <4>4
    <3>. QED  BY <3>4, <3>5, <3>6
  <2>. QED  BY <2>1, <2>2
<1>2. Apply(b, act, list) \in Book /\ Apply(d, act, rest) \in Book
  BY ApplyType
<1>. QED  BY <1>1, <1>2, BookEquality

LEMMA ApplyHead ==
    ASSUME NEW b \in Book, NEW act \in Action, NEW list \in Seq(Order), list # <<>>,
           Apart(list), act = "update" => b[Head(list).price].side = Head(list).side,
           NEW d \in Book, d = [b EXCEPT ![Head(list).price] = Gives(act, Head(list))]
    PROVE  /\ Apply(b, act, list) = Apply(d, act, Tail(list))
           /\ Apart(Tail(list))
<1>. DEFINE n == Len(list)
            rest == Tail(list)
            ord == Head(list)
<1>1. n \in Nat /\ n > 0 /\ DOMAIN list = 1..n /\ ord = list[1] /\ 1 \in 1..n
      /\ rest \in Seq(Order) /\ ord \in Order
  OBVIOUS
<1>2. /\ DOMAIN rest = 1..(n - 1)
      /\ \A i \in 1..(n - 1) : rest[i] = list[i + 1] /\ i + 1 \in 1..n /\ i + 1 # 1
  BY <1>1
<1>3. Replaced(b, act, ord, d)
  BY <1>1 DEF Book, Replaced
<1>. HIDE DEF n, rest, ord
<1>4. \A j \in 1..n : j = 1 \/ \E i \in 1..(n - 1) : rest[i] = list[j]
  <2>1. \A j \in 1..n : j = 1 \/ (j - 1 \in 1..(n - 1) /\ (j - 1) + 1 = j)
    BY <1>1
  <2>. QED  BY <1>2, <2>1
<1>5. \A i \in 1..(n - 1) : \E j \in 1..n : j # 1 /\ rest[i] = list[j]
  BY <1>2
<1>6. act = "update" => b[ord.price].side = ord.side
  BY DEF ord
<1>7. Apart(rest)
  <2>. SUFFICES ASSUME NEW i \in 1..(n - 1), NEW j \in 1..(n - 1), i # j
                PROVE  rest[i].price # rest[j].price
    BY <1>2 DEF Apart
  <2>1. i + 1 # j + 1
    BY <1>1
  <2>. QED  BY <1>1, <1>2, <2>1 DEF Apart
<1>8. Apply(b, act, list) = Apply(d, act, rest)
  <2>1. list \in Seq(Order) /\ Apart(list)
    OBVIOUS
  <2>2. 1 \in DOMAIN list /\ list[1] = ord /\ ord \in Order /\ rest \in Seq(Order)
    BY <1>1
  <2>3. IsRest(list, rest)
    BY <1>1, <1>2, <1>4, <1>5 DEF IsRest
  <2>. QED  BY ONLY b \in Book, d \in Book, act \in Action, <1>3, <1>6, <2>1, <2>2, <2>3,
               ApplyRest
<1>. QED  BY <1>7, <1>8 DEF rest

(* One order of a list.                                                     *)
LEMMA EarlyOrder ==
    ASSUME EarlyTypes, EarlyTypes', EarlyInv, Running, pc = "apply", todo # <<>>,
           OrderOutcome, Misses, UNCHANGED <<exch, synced, early>>
    PROVE  EarlyInv'
<1>0. /\ todo \in Seq(Order) /\ data \in Seq(Order) /\ action \in Action
      /\ l2Cache \in Book /\ l2Cache' \in Book /\ view[0] \in Book
      /\ Listed /\ EarlyFlow /\ EarlyProgress /\ EarlyView /\ missed \subseteq missed'
  BY DepthType, MissedGrow DEF EarlyTypes, TypeOK, EarlyInv
<1>1. todo[1] = Head(todo) /\ 1 \in DOMAIN todo /\ Len(Tail(todo)) < Len(todo)
      /\ Len(Tail(todo)) \in Nat /\ Len(todo) \in Nat /\ Len(data) \in Nat
  BY <1>0
<1>2. ASSUME synced
      PROVE  \E c \in Book : /\ EarlyTarget(c) /\ Leads(action, todo, l2Cache, c)
                             /\ Fits(action, Head(todo), l2Cache)
  <2>1. PICK c \in Book : EarlyTarget(c) /\ Leads(action, todo, l2Cache, c)
    BY <1>0, <1>2 DEF EarlyProgress
  <2>. QED  BY <1>1, <2>1 DEF Leads
<1>3. ~synced => merge.phase = "none"
  BY <1>0 DEF EarlyFlow
<1>4. ASSUME NEW why \in {"emptySide", "nilOrder", "nilMap"}, Panic(why),
             why = "nilMap" => ~inited
      PROVE  EarlyInv'
  BY <1>4 DEF Panic, book, EarlyInv, Running
<1>5. CASE /\ Listed' /\ Abort /\ UNCHANGED inited
           /\ ~Fits(action, Head(todo), l2Cache)
  <2>1. ~synced /\ merge.phase = "none"
    BY <1>2, <1>3, <1>5
  <2>2. pc' = "idle" /\ UNCHANGED <<merge, joined, view, panicked>>
    BY <1>5, <2>1 DEF Abort, Leave, subs
  <2>3. EarlyFlow' /\ EarlyProgress'
    BY <2>1, <2>2 DEF EarlyFlow, EarlyProgress
  <2>4. EarlyView'
    <3>. SUFFICES ASSUME joined[0] # "no", 0 \notin missed' PROVE view[0] = l2Cache'
      BY <2>2 DEF EarlyView
    <3>1. ~CutShort /\ HalfSent(view[0])
      BY <1>0, DepthType DEF Misses, EarlyView
    <3>2. ~(Len(todo) < Len(data)) /\ l2Cache' = l2Cache
      BY <2>2, <3>1 DEF CutShort
    <3>. QED  BY <1>1, <3>1, <3>2 DEF HalfSent
  <2>. QED  BY <1>5, <2>2, <2>3, <2>4 DEF EarlyInv, Running
<1>6. CASE Listed' /\ Applied(action, Head(todo))
  <2>1. /\ UNCHANGED <<inited, pc, action, data, merge, joined, view, panicked>>
        /\ l2Cache' = [l2Cache EXCEPT ![Head(todo).price] = Gives(action, Head(todo))]
        /\ todo' = Tail(todo)
    BY <1>6 DEF Applied
  <2>2. EarlyFlow'
    BY <1>0, <2>1 DEF EarlyFlow
  <2>3. EarlyProgress'
    <3>1. ASSUME synced
          PROVE  \E c \in Book : EarlyTarget(c)' /\ Leads(action, todo, l2Cache, c)'
      <4>1. PICK c \in Book : EarlyTarget(c) /\ Leads(action, todo, l2Cache, c)
        BY <1>2, <3>1
      <4>2. Leads(action, Tail(todo), l2Cache', c)
        BY <1>0, <2>1, <4>1, LeadsOn
      <4>3. EarlyTarget(c)'
        BY <2>1, <4>1 DEF EarlyTarget, ToUpdate
      <4>. QED  BY <2>1, <4>2, <4>3
    <3>. QED  BY <2>1, <3>1 DEF EarlyProgress
  <2>4. EarlyView'
    <3>. SUFFICES ASSUME joined[0] # "no", 0 \notin missed' PROVE HalfSent(view[0])'
      BY <2>1 DEF EarlyView
    <3>1. ~NamesOtherSide /\ HalfSent(view[0])
      BY <1>0, DepthType DEF Misses, EarlyView
    <3>2. action = "update" => l2Cache[Head(todo).price].side = Head(todo).side
      BY <2>1, <3>1 DEF NamesOtherSide
    <3>3. /\ Apply(l2Cache, action, todo) = Apply(l2Cache', action, Tail(todo))
          /\ Apart(Tail(todo))
      BY <1>0, <2>1, <3>1, <3>2, ApplyHead DEF HalfSent
    <3>. QED  BY <1>1, <2>1, <3>1, <3>3 DEF HalfSent
  <2>. QED  BY <1>6, <2>1, <2>2, <2>3, <2>4 DEF EarlyInv, Running
<1>7. CASE Listed' /\ AppliedOtherSide(Head(todo))
  <2>1. /\ UNCHANGED <<inited, pc, action, data, merge, joined, view, panicked>>
        /\ action = "update" /\ l2Cache[Head(todo).price].side # Head(todo).side
    BY <1>7 DEF AppliedOtherSide
  <2>2. ~synced
    BY <1>2, <2>1 DEF Fits
  <2>3. EarlyFlow' /\ EarlyProgress'
    BY <1>0, <2>1, <2>2 DEF EarlyFlow, EarlyProgress
  <2>4. NamesOtherSide
    BY <2>1 DEF NamesOtherSide
  <2>5. joined[0] # "no" => 0 \in missed'
    BY <2>4, DepthType DEF Misses
  <2>6. EarlyView'
    BY <2>1, <2>5 DEF EarlyView
  <2>. QED  BY <1>7, <2>1, <2>3, <2>6 DEF EarlyInv, Running
<1>. QED  BY <1>4, <1>5, <1>6, <1>7 DEF OrderOutcome

LEMMA EarlyDispatch ==
    ASSUME EarlyTypes, EarlyInv, dispatchRsp, Misses, UNCHANGED <<exch, synced, early>>
    PROVE  EarlyInv'
<1>1. /\ Running /\ pc = "apply" /\ todo = <<>> /\ UNCHANGED <<book, merge, joined, panicked>>
      /\ pc' = IF merge.phase = "none" THEN "idle" ELSE "merge"
  BY DEF dispatchRsp, Leave
<1>2. /\ data \in Seq(Order) /\ action \in Action
      /\ l2Cache \in Book /\ view[0] \in Book
      /\ Listed /\ EarlyFlow /\ EarlyProgress /\ EarlyView /\ missed \subseteq missed'
  BY <1>1, DepthType, MissedGrow DEF EarlyTypes, TypeOK, EarlyInv
<1>3. Listed' /\ EarlyFlow'
  BY <1>1, <1>2 DEF Listed, EarlyFlow, book
<1>4. synced => EarlyTarget(l2Cache)
  <2>. SUFFICES ASSUME synced PROVE EarlyTarget(l2Cache)
    OBVIOUS
  <2>1. PICK c \in Book : EarlyTarget(c) /\ Leads(action, todo, l2Cache, c)
    BY <1>1, <1>2 DEF EarlyProgress
  <2>2. l2Cache = c
    BY <1>1, <1>2, <2>1, LeadsNowhere
  <2>. QED  BY <2>1, <2>2
<1>5. EarlyProgress'
  <2>1. merge.phase # "none" => synced
    BY <1>2 DEF EarlyFlow
  <2>. QED  BY <1>1, <1>4, <2>1 DEF EarlyProgress, EarlyTarget, ToUpdate, book
<1>6. EarlyView'
  <2>. SUFFICES ASSUME joined[0] # "no", 0 \notin missed' PROVE view'[0] = l2Cache
    BY <1>1 DEF EarlyView, book
  <2>1. HalfSent(view[0])
    BY <1>1, <1>2 DEF EarlyView
  <2>2. view'[0] = Apply(view[0], action, data)
    BY DepthType DEF dispatchRsp, Published
  <2>3. Apply(l2Cache, action, <<>>) = l2Cache
    BY <1>2, ApplyNothing
  <2>. QED  BY <1>1, <2>1, <2>2, <2>3 DEF HalfSent
<1>. QED  BY <1>1, <1>3, <1>5, <1>6 DEF EarlyInv, Running, book

(* Starting a list: the subscriber has the map before it, and once the      *)
(* partial has come the list leads to its target.                           *)
LEMMA EarlyStart ==
    ASSUME EarlyTypes, EarlyInv, Running, pc # "apply",
           NEW act, NEW list, NEW c \in Book,
           Start(act, list), Apart(list),
           synced' => Leads(act, list, l2Cache, c) /\ EarlyTarget(c)',
           UNCHANGED <<l2Cache, joined, view>>, missed \subseteq missed',
           pc' = "apply" \/ (list = <<>> /\ synced'),
           pc' = "idle" => merge'.phase = "none"
    PROVE  EarlyProgress' /\ EarlyView'
<1>1. joined[0] # "no" /\ 0 \notin missed => view[0] = l2Cache
  BY DEF EarlyInv, EarlyView
<1>2. list = <<>> /\ synced' => l2Cache = c
  <2>1. l2Cache \in Book
    BY DEF EarlyTypes, TypeOK
  <2>. QED  BY <2>1, LeadsNowhere
<1>3. EarlyProgress'
  <2>1. CASE pc' = "apply"
    <3>1. synced' => EarlyTarget(c)' /\ Leads(action, todo, l2Cache, c)'
      BY DEF Start
    <3>. QED  BY <2>1, <3>1 DEF EarlyProgress
  <2>2. CASE pc' # "apply"
    <3>1. l2Cache' = c /\ EarlyTarget(c)'
      BY <1>2, <2>2
    <3>2. EarlyTarget(l2Cache)'
      BY <3>1 DEF EarlyTarget, ToUpdate
    <3>3. pc' = "idle" => l2Cache' = exch'
      BY <3>2 DEF EarlyTarget, ToUpdate
    <3>. QED  BY <2>2, <3>2, <3>3 DEF EarlyProgress
  <2>. QED  BY <2>1, <2>2
<1>4. EarlyView'
  <2>. SUFFICES ASSUME joined'[0] # "no", 0 \notin missed'
                PROVE  IF pc' = "apply" THEN HalfSent(view[0])' ELSE view'[0] = l2Cache'
    BY DEF EarlyView
  <2>1. view[0] = l2Cache
    BY <1>1
  <2>2. data' = list /\ todo' = list /\ action' = act
    BY DEF Start
  <2>3. Len(list) <= Len(list)
    <3>1. todo' \in Seq(Order) => Len(list) <= Len(list)
      BY <2>2
    <3>. QED  BY <3>1
  <2>. QED  BY <2>1, <2>2, <2>3 DEF HalfSent
<1>. QED  BY <1>3, <1>4

LEMMA EarlyMergeInsert ==
    ASSUME EarlyTypes, EarlyTypes', EarlyInv, MergeInsert, Misses,
           UNCHANGED <<exch, synced, early>>
    PROVE  EarlyInv'
<1>1. Running /\ pc = "merge" /\ merge.phase = "delete" /\ missed \subseteq missed'
  BY MissedGrow DEF MergeInsert
<1>2. /\ TypeOK /\ Listed /\ EarlyFlow /\ EarlyTarget(l2Cache) /\ merge.partial = exch /\ synced
      /\ l2Cache \in Book /\ exch \in Book
  BY <1>1 DEF EarlyInv, EarlyTypes, EarlyProgress, EarlyFlow, TypeOK
<1>. DEFINE origin == merge.origin
            added == UNION {Sub(PricesOf(merge.partial, s), origin[s]) : s \in Side}
            kept == UNION {Join(origin[s], PricesOf(merge.partial, s)) : s \in Side}
            read == kept \cap Levels(merge.partial)
            differ == {q \in read : l2Cache[q].size # merge.partial[q].size}
            inserts == {OrderAt(merge.partial, p) : p \in added}
            updates == {OrderAt(merge.partial, p) : p \in differ}
            grown == [p \in Price |-> IF p \in added THEN exch[p] ELSE l2Cache[p]]
<1>3. added = {p \in Price : \E s \in Side : exch[p].side = s /\ p \notin origin[s]}
  BY <1>2 DEF Sub, PricesOf
<1>4. kept = UNION {origin[s] : s \in Side}
  BY DEF Join
<1>5. \A p \in Price, s \in Side :
          l2Cache[p].side = s => p \in origin[s] /\ exch[p].side = s
  BY <1>1, <1>2 DEF EarlyTarget, ToUpdate
<1>6. grown \in Book
  BY <1>2 DEF Book
<1>7. PICK c \in Book : \A p \in Price : c[p] = IF p \in added THEN exch[p] ELSE l2Cache[p]
  BY <1>6
<1>8. added \in SUBSET Price /\ inserts = {OrderAt(exch, p) : p \in added}
      /\ updates = {OrderAt(exch, p) : p \in differ}
  BY <1>2, <1>3
<1>. HIDE DEF added, kept, differ, inserts, updates, grown
<1>9. ASSUME NEW p \in added
      PROVE  l2Cache[p] = NoLevel /\ exch[p] # NoLevel /\ c[p] = exch[p]
  <2>1. p \in Price /\ exch[p].side \in Side /\ p \notin origin[exch[p].side]
    BY <1>3
  <2>2. l2Cache[p].side \notin Side
    BY <1>5, <2>1
  <2>. QED  BY <1>2, <1>7, <2>1, <2>2, LevelIsSide
<1>10. CASE Panic("nilOrder")
  BY <1>10 DEF Panic, EarlyInv, Running
<1>11. ASSUME read \subseteq Levels(l2Cache),
              NEW list \in PriceOrder(inserts),
              Start("insert", list),
              pc' = IF list = <<>> THEN "merge" ELSE "apply",
              merge' = [merge EXCEPT !.phase = "insert", !.updates = updates],
              UNCHANGED <<book, subs, panicked>>
       PROVE  EarlyInv'
  <2>1. list \in AnyOrder({OrderAt(exch, p) : p \in added})
    <3>1. \A o \in inserts : o.price \in Int
      BY <1>8, PriceIsInt DEF OrderAt
    <3>2. IsFiniteSet(inserts)
      BY <1>8, OrdersFinite
    <3>. QED  BY <1>8, <1>11, <3>1, <3>2, PriceOrderIsOrder
  <2>2. Leads("insert", list, l2Cache, c)
    <3>1. ASSUME NEW p \in added
          PROVE  /\ Fits("insert", OrderAt(exch, p), l2Cache)
                 /\ c[p] = Gives("insert", OrderAt(exch, p))
      <4>1. p \in Price
        BY <1>8
      <4>2. Gives("insert", OrderAt(exch, p)) = [side |-> exch[p].side, size |-> exch[p].size]
        BY DEF Gives, LevelOf, OrderAt
      <4>. QED  BY <1>2, <1>9, <4>1, <4>2, LevelIsSide DEF Fits, OrderAt
    <3>2. \A p \in Price \ added : c[p] = l2Cache[p]
      BY <1>7
    <3>. QED  BY <1>2, <1>6, <1>8, <2>1, <3>1, <3>2, ListLeads
  <2>3. merge'.phase = "insert" /\ merge'.updates = updates /\ merge'.partial = merge.partial
    BY <1>2, <1>11 DEF TypeOK
  <2>4. ASSUME NEW p \in Price PROVE c[p] = exch[p] \/ OrderAt(exch, p) \in updates
    <3>1. CASE p \in added
      BY <1>9, <3>1
    <3>2. CASE p \notin added /\ l2Cache[p] = NoLevel
      <4>1. CASE exch[p] = NoLevel
        BY <1>7, <3>2, <4>1
      <4>2. CASE exch[p] # NoLevel
        <5>1. exch[p].side \in Side /\ p \in origin[exch[p].side]
          BY <1>2, <1>3, <3>2, <4>2, LevelIsSide
        <5>2. p \in read
          BY <1>2, <1>4, <4>2, <5>1 DEF Levels
        <5>. QED  BY <1>11, <3>2, <5>2 DEF Levels
      <4>. QED  BY <4>1, <4>2
    <3>3. CASE p \notin added /\ l2Cache[p] # NoLevel
      <4>1. l2Cache[p].side \in Side
        BY <1>2, <3>3, LevelIsSide
      <4>2. p \in origin[l2Cache[p].side] /\ exch[p].side = l2Cache[p].side
        BY <1>5, <4>1
      <4>3. exch[p] # NoLevel
        BY <1>2, <4>1, <4>2, LevelIsSide
      <4>4. p \in read
        BY <1>2, <1>4, <4>1, <4>2, <4>3 DEF Levels
      <4>5. CASE l2Cache[p].size = exch[p].size
        BY <1>2, <1>7, <3>3, <4>2, <4>3, <4>5, LevelIsSide
      <4>6. CASE l2Cache[p].size # exch[p].size
        BY <1>2, <1>8, <4>4, <4>6 DEF differ
      <4>. QED  BY <4>5, <4>6
    <3>. QED  BY <3>1, <3>2, <3>3
  <2>5. ASSUME NEW o \in updates
        PROVE  \E p \in Levels(exch) : o = OrderAt(exch, p) /\ c[p].side = exch[p].side
    <3>1. PICK p \in differ : o = OrderAt(exch, p)
      BY <1>8
    <3>2. p \in Levels(exch) /\ p \in Levels(l2Cache) /\ p \in Price
      BY <1>2, <1>11 DEF differ, Levels
    <3>3. l2Cache[p].side = exch[p].side
      BY <1>2, <1>5, <3>2, LevelIsSide DEF Levels
    <3>4. c[p] = l2Cache[p]
      BY <1>7, <1>9, <3>2 DEF Levels
    <3>. QED  BY <3>1, <3>2, <3>3, <3>4
  <2>6. EarlyTarget(c)'
    BY <1>1, <1>2, <2>3, <2>4, <2>5 DEF EarlyTarget, ToUpdate
  <2>7. EarlyProgress' /\ EarlyView'
    <3>1. Apart(list)
      BY <2>2 DEF Leads, Apart
    <3>. QED  BY <1>1, <1>2, <1>11, <2>2, <2>3, <2>6, <3>1, EarlyStart DEF book, subs
  <2>8. EarlyFlow'
    BY <1>1, <1>2, <1>11, <2>3 DEF EarlyFlow
  <2>9. Listed'
    BY <1>2, <1>11 DEF Listed, book
  <2>. QED  BY <1>1, <1>11, <2>7, <2>8, <2>9 DEF EarlyInv, Running
<1>. QED  BY <1>1, <1>10, <1>11 DEF MergeInsert, added, kept, differ, inserts, updates

LEMMA EarlyMergeUpdate ==
    ASSUME EarlyTypes, EarlyTypes', EarlyInv, MergeUpdate, Misses,
           UNCHANGED <<exch, synced, early>>
    PROVE  EarlyInv'
<1>1. /\ Running /\ pc = "merge" /\ merge.phase = "insert"
      /\ merge' = NoMerge /\ UNCHANGED <<book, subs, panicked>> /\ missed \subseteq missed'
  BY MissedGrow DEF MergeUpdate
<1>2. /\ TypeOK /\ Listed /\ EarlyFlow /\ EarlyTarget(l2Cache) /\ synced
      /\ l2Cache \in Book /\ exch \in Book
  BY <1>1 DEF EarlyInv, EarlyTypes, EarlyProgress, EarlyFlow, TypeOK
<1>3. PICK list \in PriceOrder(merge.updates) :
            Start("update", list) /\ pc' = IF list = <<>> THEN "idle" ELSE "apply"
  BY <1>1 DEF MergeUpdate
<1>4. Leads("update", list, l2Cache, exch)
  BY <1>1, <1>2, UpdatesLead DEF EarlyTarget, ToUpdate
<1>5. NoMerge.phase = "none"
  BY DEF NoMerge
<1>6. EarlyTarget(exch)'
  BY <1>1, <1>5 DEF EarlyTarget, ToUpdate
<1>7. EarlyProgress' /\ EarlyView'
  <2>1. Apart(list)
    BY <1>4 DEF Leads, Apart
  <2>2. PICK c \in Book : c = exch
    BY <1>2
  <2>3. EarlyTarget(c)'
    BY <1>6, <2>2 DEF EarlyTarget, ToUpdate
  <2>. QED  BY <1>1, <1>2, <1>3, <1>4, <1>5, <2>1, <2>2, <2>3, EarlyStart DEF book, subs
<1>8. EarlyFlow' /\ Listed'
  BY <1>1, <1>2, <1>3, <1>5 DEF EarlyFlow, Listed, book
<1>. QED  BY <1>1, <1>7, <1>8 DEF EarlyInv, Running

LEMMA EarlyFirstPartial ==
    ASSUME EarlyTypes, EarlyTypes', EarlyInv, FirstPartial(exch), synced' = TRUE,
           UNCHANGED <<exch, early, missed>>
    PROVE  EarlyInv'
<1>1. Running /\ pc = "idle" /\ TypeOK /\ EarlyFlow /\ EarlyView /\ exch \in Book
  BY DEF FirstPartial, EarlyTypes, EarlyInv
<1>2. CASE Panic("emptySide")
  BY <1>2 DEF Panic, EarlyInv, Running
<1>3. ASSUME NEW asks \in AnyOrder(PricesOf(exch, "Sell")),
             NEW bids \in AnyOrder(PricesOf(exch, "Buy")),
             Ladder(asks, TRUE), Ladder(bids, FALSE),
             prices' = [s \in Side |-> IF s = "Sell" THEN asks ELSE bids],
             l2Cache' = exch, inited' = TRUE,
             view' = [view EXCEPT ![0] = IF joined[0] = "no" THEN @ ELSE exch],
             UNCHANGED <<pc, job, merge, joined, panicked>>
      PROVE  EarlyInv'
  <2>1. ASSUME NEW s \in Side, NEW list \in AnyOrder(PricesOf(exch, s))
        PROVE  Range(list) = PricesOf(exch, s)
    BY OrderOfSide
  <2>2. \A s \in Side : prices'[s] \in Seq(Price)
    BY DEF EarlyTypes, TypeOK
  <2>3. ASSUME NEW s \in Side
        PROVE  /\ SortedList(prices'[s], Descending(s))
               /\ PricesOf(l2Cache', s) \subseteq Range(prices'[s])
    <3>1. CASE s = "Sell"
      <4>1. prices'[s] = asks /\ Descending(s) = TRUE
        BY <1>3, <3>1 DEF Descending
      <4>2. asks \in Seq(Price)
        BY <2>2, <4>1
      <4>3. Range(asks) = PricesOf(exch, s)
        BY <2>1, <3>1
      <4>. QED  BY <1>3, <4>1, <4>2, <4>3, LadderIsSorted
    <3>2. CASE s = "Buy"
      <4>1. prices'[s] = bids /\ Descending(s) = FALSE
        BY <1>3, <3>2 DEF Descending
      <4>2. bids \in Seq(Price)
        BY <2>2, <4>1
      <4>3. Range(bids) = PricesOf(exch, s)
        BY <2>1, <3>2
      <4>. QED  BY <1>3, <4>1, <4>2, <4>3, LadderIsSorted
    <3>. QED  BY <3>1, <3>2 DEF Side
  <2>4. Listed'
    BY <2>3 DEF Listed
  <2>5. EarlyFlow' /\ EarlyProgress'
    BY <1>1, <1>3 DEF EarlyFlow, EarlyProgress
  <2>6. joined[0] # "no" => view'[0] = exch
    BY <1>1, <1>3, DepthType DEF TypeOK
  <2>7. EarlyView'
    BY <1>1, <1>3, <2>6 DEF EarlyView
  <2>. QED  BY <1>1, <1>3, <2>4, <2>5, <2>7 DEF EarlyInv, Running
<1>. QED  BY <1>2, <1>3 DEF FirstPartial

LEMMA EarlyMergePartial ==
    ASSUME EarlyTypes, EarlyInv, MergePartial(exch), synced' = TRUE,
           UNCHANGED <<exch, early, missed>>
    PROVE  EarlyInv'
<1>1. /\ Running /\ pc = "idle" /\ TypeOK /\ Listed /\ EarlyFlow
      /\ exch \in Book /\ l2Cache \in Book
  BY DEF MergePartial, EarlyInv, EarlyTypes, TypeOK
<1>. DEFINE origin == [s \in Side |-> Range(prices[s])]
            gone == UNION {Sub(origin[s], PricesOf(exch, s)) : s \in Side}
            kept == [p \in Price |-> IF p \in gone THEN NoLevel ELSE l2Cache[p]]
<1>2. \A s \in Side : PricesOf(l2Cache, s) \subseteq origin[s]
  BY <1>1 DEF Listed
<1>3. \A s \in Side : \A p \in origin[s] : p \notin PricesOf(exch, s) => p \in gone
  BY DEF Sub
<1>4. kept \in Book
  BY <1>1 DEF Book
<1>5. PICK c \in Book : \A p \in Price : c[p] = IF p \in gone THEN NoLevel ELSE l2Cache[p]
  BY <1>4
<1>6. CASE Panic("nilOrder")
  BY <1>6 DEF Panic, EarlyInv, Running
<1>7. ASSUME gone \subseteq Levels(l2Cache),
             NEW list \in AnyOrder({OrderAt(l2Cache, p) : p \in gone}),
             Start("delete", list),
             pc' = IF list = <<>> THEN "merge" ELSE "apply",
             merge' = [phase |-> "delete", partial |-> exch,
                       origin |-> origin, updates |-> {}],
             UNCHANGED <<book, subs, panicked>>
      PROVE  EarlyInv'
  <2>. HIDE DEF origin, gone, kept
  <2>1. Leads("delete", list, l2Cache, c)
    <3>1. ASSUME NEW p \in gone
          PROVE  /\ Fits("delete", OrderAt(l2Cache, p), l2Cache)
                 /\ c[p] = Gives("delete", OrderAt(l2Cache, p))
      BY <1>5, <1>7 DEF Fits, Gives, OrderAt, Levels
    <3>2. \A p \in Price \ gone : c[p] = l2Cache[p]
      BY <1>5
    <3>3. gone \in SUBSET Price
      BY <1>7 DEF Levels
    <3>. QED  BY <1>1, <1>7, <3>1, <3>2, <3>3, ListLeads
  <2>2. merge'.phase = "delete" /\ merge'.origin = origin /\ merge'.partial = exch
    BY <1>7
  <2>3. EarlyTarget(c)'
    <3>1. ASSUME NEW p \in Price, NEW s \in Side, c[p].side = s
          PROVE  p \in origin[s] /\ exch[p].side = s
      <4>1. p \notin gone /\ l2Cache[p].side = s
        BY <1>5, <3>1 DEF NoLevel, Side
      <4>2. p \in origin[s]
        BY <1>2, <4>1 DEF PricesOf
      <4>3. p \in PricesOf(exch, s)
        BY <1>3, <4>1, <4>2
      <4>. QED  BY <4>2, <4>3 DEF PricesOf
    <3>. QED  BY <2>2, <3>1 DEF EarlyTarget, ToUpdate
  <2>4. EarlyProgress' /\ EarlyView'
    <3>1. Apart(list)
      BY <2>1 DEF Leads, Apart
    <3>. QED  BY <1>1, <1>7, <2>1, <2>2, <2>3, <3>1, EarlyStart DEF book, subs
  <2>5. EarlyFlow'
    BY <1>7, <2>2 DEF EarlyFlow
  <2>6. Listed'
    BY <1>1, <1>7 DEF Listed, book
  <2>. QED  BY <1>1, <1>7, <2>4, <2>5, <2>6 DEF EarlyInv, Running
<1>. QED  BY <1>6, <1>7 DEF MergePartial

(* A list of the upstream's changes, before or after its partial.           *)
LEMMA EarlyList ==
    ASSUME EarlyTypes, EarlyInv, List, UNCHANGED <<synced, missed>>
    PROVE  EarlyInv'
<1>1. exch' \in Book
  BY ListLeadsOn DEF EarlyTypes
<1>2. PICK act \in Action, list \in Seq(Order) :
            Leads(act, list, exch, exch') /\ ReceiveList(act, list)
  BY ListLeadsOn DEF EarlyTypes, ChangesReceived
<1>3. /\ Running /\ pc = "idle" /\ pc' = "apply" /\ Start(act, list)
      /\ UNCHANGED <<book, merge, subs, panicked>>
  BY <1>2 DEF ReceiveList
<1>4. Listed /\ EarlyFlow /\ EarlyProgress
  BY <1>3 DEF EarlyInv
<1>5. merge.phase = "none" /\ (synced => l2Cache = exch)
  BY <1>3, <1>4 DEF EarlyFlow, EarlyProgress
<1>6. PICK c \in Book : c = exch'
  BY <1>1
<1>7. synced => Leads(act, list, l2Cache, c)
  BY <1>2, <1>5, <1>6
<1>8. EarlyTarget(c)'
  BY <1>3, <1>5, <1>6 DEF EarlyTarget
<1>9. Apart(list)
  BY <1>2 DEF Leads, Apart
<1>10. EarlyProgress' /\ EarlyView'
  <2>1. /\ pc # "apply" /\ UNCHANGED <<l2Cache, joined, view>> /\ missed \subseteq missed'
        /\ (pc' = "apply" \/ (list = <<>> /\ synced')) /\ (pc' = "idle" => merge'.phase = "none")
    BY <1>3 DEF book, subs
  <2>2. synced' => Leads(act, list, l2Cache, c) /\ EarlyTarget(c)'
    BY <1>7, <1>8
  <2>. QED  BY <1>3, <1>9, <2>1, <2>2, EarlyStart
<1>11. EarlyFlow' /\ Listed'
  BY <1>3, <1>4, <1>5 DEF EarlyFlow, Listed, book
<1>. QED  BY <1>3, <1>10, <1>11 DEF EarlyInv, Running

LEMMA EarlyReconnect ==
    ASSUME EarlyInv, Reconnect
    PROVE  EarlyInv'
<1>1. Running /\ pc = "idle" /\ synced' = FALSE /\ UNCHANGED <<vars, missed>>
  BY DEF Reconnect
<1>2. Listed /\ EarlyFlow /\ EarlyView
  BY <1>1 DEF EarlyInv
<1>3. Listed'
  BY <1>1, <1>2 DEF Listed, vars, book
<1>4. EarlyFlow' /\ EarlyProgress'
  BY <1>1, <1>2 DEF EarlyFlow, EarlyProgress, vars
<1>5. EarlyView'
  BY <1>1, <1>2 DEF EarlyView, vars, book, subs
<1>. QED  BY <1>1, <1>3, <1>4, <1>5 DEF EarlyInv, Running, vars

LEMMA EarlySubscribe ==
    ASSUME EarlyTypes, EarlyInv, NEW d \in Streams, Subscribe(d), Misses,
           UNCHANGED <<exch, synced, early>>
    PROVE  EarlyInv'
<1>1. /\ Running /\ pc = "idle" /\ UNCHANGED <<book, pc, job, merge, panicked>>
      /\ missed \subseteq missed' /\ TypeOK
  BY MissedGrow DEF Subscribe, EarlyTypes
<1>2. Listed /\ EarlyFlow /\ EarlyProgress /\ EarlyView
  BY <1>1 DEF EarlyInv
<1>3. joined'[0] # "no" /\ 0 \notin missed' => view'[0] = l2Cache
  <2>1. CASE d = 0
    <3>1. view'[0] = snapshot(0)
      BY <1>1, <2>1, DepthType DEF Subscribe, TypeOK
    <3>2. \A s \in Side : PricesOf(l2Cache, s) \subseteq Range(prices[s])
      BY <1>2 DEF Listed
    <3>. QED  BY <1>1, <3>1, <3>2, FullSnapshot
  <2>2. CASE d # 0
    <3>1. view'[0] = view[0] /\ joined'[0] = joined[0]
      BY <1>1, <2>2, DepthType DEF Subscribe, TypeOK
    <3>. QED  BY <1>1, <1>2, <3>1 DEF EarlyView
  <2>. QED  BY <2>1, <2>2
<1>4. EarlyView'
  BY <1>1, <1>3 DEF EarlyView, book
<1>5. EarlyFlow' /\ EarlyProgress' /\ Listed'
  BY <1>1, <1>2 DEF EarlyFlow, EarlyProgress, Listed, book
<1>. QED  BY <1>1, <1>4, <1>5 DEF EarlyInv, Running, book

LEMMA EarlyNextInv ==
    ASSUME EarlyTypes, EarlyTypes', EarlyInv, [FeedNext]_feedVars
    PROVE  EarlyInv'
<1>1. CASE Partial
  BY <1>1, EarlyFirstPartial, EarlyMergePartial DEF Partial
<1>2. CASE Delta \/ EarlyDelta
  BY <1>2, EarlyList DEF Delta, EarlyDelta
<1>3. CASE Reconnect
  BY <1>3, EarlyReconnect
<1>4. ASSUME Misses, UNCHANGED <<exch, synced, early>>,
             handleDelete \/ handleInsert \/ handleUpdate
      PROVE  EarlyInv'
  <2>1. Running /\ pc = "apply" /\ todo # <<>>
    BY <1>4 DEF handleDelete, handleInsert, handleUpdate, Applying
  <2>2. TypeOK /\ Listed
    BY <2>1 DEF EarlyInv, EarlyTypes
  <2>3. OrderOutcome
    BY <1>4, <2>2, DeleteOutcome, InsertOutcome, UpdateOutcome
  <2>. QED  BY <1>4, <2>1, <2>3, EarlyOrder
<1>5. CASE Cache(handleDelete) \/ Cache(handleInsert) \/ Cache(handleUpdate)
  BY <1>4, <1>5 DEF Cache
<1>6. CASE Cache(dispatchRsp) \/ Cache(MergeInsert) \/ Cache(MergeUpdate)
  BY <1>6, EarlyDispatch, EarlyMergeInsert, EarlyMergeUpdate DEF Cache
<1>7. CASE \E d \in Streams : Cache(Subscribe(d))
  BY <1>7, EarlySubscribe DEF Cache
<1>8. CASE UNCHANGED feedVars
  <2>1. UNCHANGED <<vars, exch, synced, missed>>
    BY <1>8 DEF feedVars
  <2>2. Running => Listed' /\ EarlyFlow'
    BY <2>1 DEF EarlyInv, Listed, EarlyFlow, vars, book
  <2>3. Running => EarlyProgress' /\ EarlyView'
    BY <2>1 DEF EarlyInv, EarlyProgress, EarlyTarget, ToUpdate, EarlyView, HalfSent,
                vars, book, job, subs
  <2>. QED  BY <2>1, <2>2, <2>3 DEF EarlyInv, Running, vars, book
<1>. QED  BY <1>1, <1>2, <1>3, <1>5, <1>6, <1>7, <1>8 DEF FeedNext

LEMMA EarlyInvHolds == FeedSpec => []EarlyInv
<1>1. FeedInit => EarlyTypes /\ EarlyInv
  BY InitType, EarlyInitInv DEF FeedInit, EarlyTypes
<1>2. EarlyTypes /\ [FeedNext]_feedVars => EarlyTypes'
  BY FeedStepIsStep, NextType DEF EarlyTypes
<1>3. EarlyTypes /\ EarlyInv /\ [FeedNext]_feedVars => EarlyTypes' /\ EarlyInv'
  BY <1>2, EarlyNextInv
<1>. QED  BY <1>1, <1>3, PTL DEF FeedSpec

-----------------------------------------------------------------------------
(* Whatever lists come early, a ladder is never out of order, and no level  *)
(* of the map is missing from its ladder (UniPriceAdd, UniPriceRemove).     *)
THEOREM LevelsStayListed == FeedSpec => []LevelsAreListed
<1>1. EarlyInv => LevelsAreListed
  BY DEF EarlyInv, Listed, LevelsAreListed
<1>. QED  BY <1>1, EarlyInvHolds, PTL

(* Once the partial of a connection has been merged, the map is the         *)
(* upstream's book whenever the cache is idle (handlePartial).              *)
THEOREM UpstreamTracked == FeedSpec => []TracksUpstream
<1>1. EarlyInv => TracksUpstream
  BY DEF EarlyInv, EarlyProgress, TracksUpstream
<1>. QED  BY <1>1, EarlyInvHolds, PTL

(* A subscriber of orderBookL2 that has not missed a change has the cached  *)
(* book whenever the cache is idle, and while every connection begins with  *)
(* its partial no change is kept from it (dispatchRsp, handlePartial).      *)
THEOREM FullViewStaysExact == FeedSpec => []FullViewExact
<1>1. OnTime /\ EarlyInv => FullViewExact
  BY DEF OnTime, FeedInv, FeedTypes, EarlyInv, EarlyView, FullViewExact
<1>. QED  BY <1>1, OnTimeHolds, EarlyInvHolds, PTL

(* The process panics for no other reason than an upstream with an empty    *)
(* side, a partial that shares no price with a side of the cached book, a   *)
(* price that has changed sides, or a list that came before its partial     *)
(* (handleDelete, handleInsert, handlePartial).                             *)
THEOREM PanicsHaveCause == FeedSpec => []PanicHasCause
<1>1. OnTime /\ EarlyInv => PanicHasCause
  <2>. SUFFICES ASSUME OnTime, EarlyInv PROVE PanicHasCause
    OBVIOUS
  <2>1. CASE early = 0
    BY <2>1 DEF OnTime, FeedInv
  <2>2. CASE early # 0
    <3>1. early > 0
      BY <2>2 DEF OnTime
    <3>. QED  BY <3>1 DEF EarlyInv, PanicHasCause
  <2>. QED  BY <2>1, <2>2
<1>. QED  BY <1>1, OnTimeHolds, EarlyInvHolds, PTL
=============================================================================

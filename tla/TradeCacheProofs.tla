-------------------------- MODULE TradeCacheProofs --------------------------
(***************************************************************************)
(* TradeCache implements TradeWindow, for every maxTradeLen and every       *)
(* maxMultiple of at least 2.                                               *)
(***************************************************************************)
EXTENDS TradeCache, SequenceTheorems, TLAPS

(* What LastN returns.                                                      *)
LEMMA LastNProperties ==
    ASSUME NEW s \in Seq(Trade), NEW n \in Nat
    PROVE  /\ LastN(s, n) \in Seq(Trade)
           /\ Len(LastN(s, n)) = MinOf(Len(s), n)
           /\ \A i \in 1..MinOf(Len(s), n) :
                 LastN(s, n)[i] = s[Len(s) - MinOf(Len(s), n) + i]
<1> DEFINE m == Len(s) - MinOf(Len(s), n) + 1
<1>0. Len(s) \in Nat
    BY LenProperties
<1>1. m \in 1..(Len(s) + 1) /\ Len(s) \in Nat
  <2>1. MinOf(Len(s), n) \in 0..Len(s)
      BY <1>0 DEF MinOf
  <2> QED BY <1>0, <2>1
<1>2. \A i \in m..Len(s) : s[i] \in Trade
    BY <1>1, ElementOfSeq
<1>3. /\ SubSeq(s, m, Len(s)) \in Seq(Trade)
      /\ Len(SubSeq(s, m, Len(s))) = IF m <= Len(s) THEN Len(s) - m + 1 ELSE 0
      /\ \A i \in 1..(Len(s) - m + 1) : SubSeq(s, m, Len(s))[i] = s[m + i - 1]
  <2> HIDE DEF m
  <2> QED BY <1>1, <1>2, SubSeqProperties
<1>4. MinOf(Len(s), n) \in 0..Len(s)
    BY <1>1 DEF MinOf
<1>5. LastN(s, n) = SubSeq(s, m, Len(s))
    BY DEF LastN
<1>6. Len(s) - m + 1 = MinOf(Len(s), n)
    BY <1>1, <1>4
<1>7. \A i \in 1..MinOf(Len(s), n) : m + i - 1 = Len(s) - MinOf(Len(s), n) + i
    BY <1>1, <1>4
<1> HIDE DEF m
<1> QED BY <1>1, <1>3, <1>4, <1>5, <1>6, <1>7

(* Two sequences with the same elements are the same.                       *)
LEMMA SameElements ==
    ASSUME NEW s \in Seq(Trade), NEW t \in Seq(Trade), Len(s) = Len(t),
           \A i \in 1..Len(s) : s[i] = t[i]
    PROVE  s = t
BY SeqEqual

(* Trades forgotten before a message are forgotten after it.                *)
LEMMA LastNOfConcat ==
    ASSUME NEW s \in Seq(Trade), NEW t \in Seq(Trade), NEW n \in Nat
    PROVE  LastN(LastN(s, n) \o t, n) = LastN(s \o t, n)
<1> DEFINE l == LastN(s, n)
<1>1. /\ l \in Seq(Trade) /\ Len(l) = MinOf(Len(s), n)
      /\ \A i \in 1..MinOf(Len(s), n) : l[i] = s[Len(s) - MinOf(Len(s), n) + i]
    BY LastNProperties
<1> HIDE DEF l
<1> DEFINE st == s \o t
           lt == l \o t
<1>2. /\ st \in Seq(Trade) /\ Len(st) = Len(s) + Len(t)
      /\ \A i \in 1..Len(st) : st[i] = IF i <= Len(s) THEN s[i] ELSE t[i - Len(s)]
    BY ConcatProperties
<1>3. /\ lt \in Seq(Trade) /\ Len(lt) = Len(l) + Len(t)
      /\ \A i \in 1..Len(lt) : lt[i] = IF i <= Len(l) THEN l[i] ELSE t[i - Len(l)]
  <2>1. l \in Seq(Trade)
      BY <1>1
  <2> QED BY <2>1, ConcatProperties
<1> HIDE DEF st, lt
<1> DEFINE a == LastN(lt, n)
           b == LastN(st, n)
           k == MinOf(Len(st), n)
<1>4. /\ a \in Seq(Trade) /\ Len(a) = MinOf(Len(lt), n)
      /\ \A i \in 1..MinOf(Len(lt), n) : a[i] = lt[Len(lt) - MinOf(Len(lt), n) + i]
  <2>1. lt \in Seq(Trade)
      BY <1>3
  <2> QED BY <2>1, LastNProperties
<1>5. /\ b \in Seq(Trade) /\ Len(b) = k
      /\ \A i \in 1..k : b[i] = st[Len(st) - k + i]
  <2>1. st \in Seq(Trade)
      BY <1>2
  <2> QED BY <2>1, LastNProperties
<1> HIDE DEF a, b
<1>6. /\ Len(s) \in Nat /\ Len(t) \in Nat /\ Len(l) \in Nat
      /\ Len(st) = Len(s) + Len(t) /\ Len(lt) = Len(l) + Len(t)
    BY <1>1, <1>2, <1>3, LenProperties
<1>7. MinOf(Len(lt), n) = k
    BY <1>1, <1>6 DEF MinOf
<1>8. /\ k \in Nat /\ k <= Len(st) /\ k <= Len(lt)
      /\ Len(l) <= Len(s) /\ (Len(l) = Len(s) \/ k <= Len(l))
    BY <1>1, <1>6 DEF MinOf
<1> HIDE DEF k
<1>9. ASSUME NEW i \in 1..k PROVE a[i] = b[i]
  <2> DEFINE x == Len(lt) - k + i
             y == Len(st) - k + i
  <2>1. /\ x \in 1..Len(lt) /\ y \in 1..Len(st)
        /\ x - Len(l) = y - Len(s) /\ y = Len(s) - Len(l) + x
        /\ x <= Len(l) <=> y <= Len(s)
      BY <1>6, <1>8
  <2>2. a[i] = lt[x] /\ b[i] = st[y]
      BY <1>4, <1>5, <1>7
  <2> HIDE DEF x, y
  <2>3. CASE x <= Len(l)
    <3>1. lt[x] = l[x] /\ st[y] = s[y]
        BY <1>2, <1>3, <2>1, <2>3
    <3>2. x \in 1..MinOf(Len(s), n)
        BY <1>1, <1>6, <2>1, <2>3
    <3>3. l[x] = s[y]
        BY <1>1, <2>1, <3>2
    <3> QED BY <2>2, <3>1, <3>3
  <2>4. CASE ~(x <= Len(l))
    <3>1. lt[x] = t[x - Len(l)] /\ st[y] = t[y - Len(s)]
        BY <1>2, <1>3, <2>1, <2>4
    <3> QED BY <2>1, <2>2, <3>1
  <2> QED BY <2>3, <2>4
<1>10. a = b
    BY <1>4, <1>5, <1>7, <1>9, SameElements
<1> QED BY <1>10 DEF a, b, l, st, lt

(* Half of what is kept is no less than what a snapshot shows.              *)
LEMMA HalfIsEnough ==
    /\ maxTradeLen * maxMultiple \in Nat
    /\ (maxTradeLen * maxMultiple) \div 2 \in maxTradeLen..(maxTradeLen * maxMultiple)
<1>1. maxTradeLen \in Nat /\ maxMultiple \in Nat /\ maxMultiple >= 2
    BY LenAssumption, MultipleAssumption
<1> DEFINE k == maxTradeLen * maxMultiple
<1>2. k \in Nat /\ k >= 2 * maxTradeLen
    BY <1>1, Z3
<1> HIDE DEF k
<1>3. k \div 2 \in maxTradeLen..k
    BY <1>1, <1>2
<1> QED BY <1>2, <1>3 DEF k

(* Cutting the list leaves a sequence of bounded length that ends alike.    *)
LEMMA TrimProperties ==
    ASSUME NEW s \in Seq(Trade)
    PROVE  /\ Trim(s) \in Seq(Trade)
           /\ Len(Trim(s)) <= maxTradeLen * maxMultiple
           /\ s # <<>> => Trim(s) # <<>>
           /\ LastN(Trim(s), maxTradeLen) = LastN(s, maxTradeLen)
<1> DEFINE k == maxTradeLen * maxMultiple
           h == k \div 2
           m == Len(s) - h + 1
<1>1. maxTradeLen \in Nat /\ maxTradeLen >= 1 /\ k \in Nat /\ h \in maxTradeLen..k
    BY HalfIsEnough, LenAssumption
<1>2. Len(s) \in Nat
    BY LenProperties
<1>3. CASE ~(Len(s) > k)
  <2>1. Trim(s) = s
      BY <1>3 DEF Trim
  <2> QED BY <1>1, <1>2, <1>3, <2>1
<1>4. CASE Len(s) > k
  <2>1. Trim(s) = SubSeq(s, m, Len(s))
      BY <1>4 DEF Trim
  <2> HIDE DEF h, k
  <2>2. m \in 1..Len(s) /\ Len(s) - m + 1 = h
      BY <1>1, <1>2, <1>4
  <2>3. \A i \in m..Len(s) : s[i] \in Trade
      BY <2>2, <1>2, ElementOfSeq
  <2> HIDE DEF m
  <2>4. /\ Trim(s) \in Seq(Trade) /\ Len(Trim(s)) = h
        /\ \A i \in 1..h : Trim(s)[i] = s[m + i - 1]
      BY <1>2, <2>1, <2>2, <2>3, SubSeqProperties
  <2> DEFINE a == LastN(Trim(s), maxTradeLen)
             b == LastN(s, maxTradeLen)
  <2>5. MinOf(Len(s), maxTradeLen) = maxTradeLen /\ MinOf(h, maxTradeLen) = maxTradeLen
      BY <1>1, <1>2, <1>4 DEF MinOf
  <2>6. /\ a \in Seq(Trade) /\ Len(a) = maxTradeLen
        /\ \A i \in 1..maxTradeLen : a[i] = Trim(s)[h - maxTradeLen + i]
    <3>1. maxTradeLen \in Nat /\ Trim(s) \in Seq(Trade) /\ Len(Trim(s)) = h
        BY <1>1, <2>4
    <3>2. /\ LastN(Trim(s), maxTradeLen) \in Seq(Trade)
          /\ Len(LastN(Trim(s), maxTradeLen)) = MinOf(Len(Trim(s)), maxTradeLen)
          /\ \A i \in 1..MinOf(Len(Trim(s)), maxTradeLen) :
                LastN(Trim(s), maxTradeLen)[i] =
                    Trim(s)[Len(Trim(s)) - MinOf(Len(Trim(s)), maxTradeLen) + i]
        BY <3>1, LastNProperties
    <3> QED BY <3>1, <3>2, <2>5 DEF a
  <2>7. /\ b \in Seq(Trade) /\ Len(b) = maxTradeLen
        /\ \A i \in 1..maxTradeLen : b[i] = s[Len(s) - maxTradeLen + i]
    <3>1. /\ LastN(s, maxTradeLen) \in Seq(Trade)
          /\ Len(LastN(s, maxTradeLen)) = MinOf(Len(s), maxTradeLen)
          /\ \A i \in 1..MinOf(Len(s), maxTradeLen) :
                LastN(s, maxTradeLen)[i] = s[Len(s) - MinOf(Len(s), maxTradeLen) + i]
        BY <1>1, LastNProperties
    <3> QED BY <3>1, <2>5 DEF b
  <2> HIDE DEF a, b
  <2>8. \A i \in 1..maxTradeLen : a[i] = b[i]
    <3> TAKE i \in 1..maxTradeLen
    <3>1. h - maxTradeLen + i \in 1..h
        BY <1>1
    <3>2. m + (h - maxTradeLen + i) - 1 = Len(s) - maxTradeLen + i
        BY <1>1, <1>2, <2>2
    <3>3. Trim(s)[h - maxTradeLen + i] = s[m + (h - maxTradeLen + i) - 1]
        BY <2>4, <3>1
    <3> QED BY <2>6, <2>7, <3>2, <3>3
  <2>9. a = b
      BY <2>6, <2>7, <2>8, SameElements
  <2>10. Trim(s) # <<>>
      BY <1>1, <2>4
  <2> QED BY <1>1, <2>4, <2>9, <2>10 DEF a, b, k
<1> QED BY <1>3, <1>4

-----------------------------------------------------------------------------
(* The lists of messages are lists of trades.                               *)
LEMMA ListsAreSequences ==
    ASSUME NEW list \in Lists
    PROVE  list \in Seq(Trade) /\ Len(list) \in Nat /\ Len(list) <= MaxBatch
<1>1. PICK n \in 0..MaxBatch : list \in [1..n -> Trade]
    BY DEF Lists
<1>2. n \in Nat /\ n <= MaxBatch
    BY LenAssumption
<1> QED BY <1>1, <1>2

LEMMA InitialState == Init => TypeOK /\ ViewIsSnapshot
<1> SUFFICES ASSUME Init PROVE TypeOK /\ ViewIsSnapshot
    OBVIOUS
<1>1. <<>> \in Seq(Trade) /\ Len(<<>>) = 0
    OBVIOUS
<1>2. MaxHistory \in Nat
    BY HalfIsEnough, LenAssumption DEF MaxHistory
<1> QED BY <1>1, <1>2 DEF Init, TypeOK, ViewIsSnapshot

(* A message keeps what the list and the subscriber's view have in common.  *)
LEMMA InsertKeepsWindow ==
    ASSUME NEW h \in Seq(Trade), NEW list \in Seq(Trade)
    PROVE  LastN(Trim(h \o list), maxTradeLen)
               = LastN(LastN(h, maxTradeLen) \o list, maxTradeLen)
<1>1. maxTradeLen \in Nat /\ h \o list \in Seq(Trade)
    BY LenAssumption
<1>2. LastN(Trim(h \o list), maxTradeLen) = LastN(h \o list, maxTradeLen)
    BY <1>1, TrimProperties
<1> QED BY <1>1, <1>2, LastNOfConcat

LEMMA Step == TypeOK /\ ViewIsSnapshot /\ [Next]_vars => TypeOK' /\ ViewIsSnapshot'
<1> SUFFICES ASSUME TypeOK, ViewIsSnapshot, [Next]_vars
             PROVE  TypeOK' /\ ViewIsSnapshot'
    OBVIOUS
<1>1. /\ maxTradeLen \in Nat /\ MaxBatch \in Nat
      /\ maxTradeLen * maxMultiple \in Nat
      /\ maxTradeLen * maxMultiple <= MaxHistory /\ MaxBatch <= MaxHistory
      /\ MaxHistory \in Nat
    BY HalfIsEnough, LenAssumption DEF MaxHistory
<1>2. snapshot(0) = LastN(historyTrade, maxTradeLen)
    BY DEF snapshot
<1>3. snapshot(0)' = LastN(historyTrade', maxTradeLen)
    BY DEF snapshot
<1>4. CASE Subscribe
  <2>1. LastN(historyTrade, maxTradeLen) \in Seq(Trade)
      BY <1>1, LastNProperties DEF TypeOK
  <2> QED BY <1>2, <1>3, <1>4, <2>1 DEF Subscribe, TypeOK, ViewIsSnapshot
<1>5. ASSUME NEW list \in Lists, Insert(list)
      PROVE  TypeOK' /\ ViewIsSnapshot'
  <2>1. list \in Seq(Trade) /\ historyTrade \o list \in Seq(Trade)
        /\ view \o list \in Seq(Trade)
      BY ListsAreSequences DEF TypeOK
  <2>2. /\ historyTrade' \in Seq(Trade)
        /\ Len(historyTrade') <= maxTradeLen * maxMultiple
        /\ Len(historyTrade') \in Nat
      BY <1>5, <2>1, TrimProperties, LenProperties DEF Insert
  <2>3. view' \in Seq(Trade)
      BY <1>1, <1>5, <2>1, LastNProperties DEF Insert, TypeOK
  <2>4. TypeOK'
      BY <1>1, <1>5, <2>2, <2>3 DEF Insert, TypeOK, MaxHistory
  <2>5. LastN(historyTrade', maxTradeLen)
            = LastN(LastN(historyTrade, maxTradeLen) \o list, maxTradeLen)
      BY <1>5, <2>1, InsertKeepsWindow DEF Insert, TypeOK
  <2>6. ViewIsSnapshot'
      BY <1>2, <1>3, <1>5, <2>5 DEF Insert, ViewIsSnapshot
  <2> QED BY <2>4, <2>6
<1>6. ASSUME NEW list \in Lists, Partial(list)
      PROVE  TypeOK' /\ ViewIsSnapshot'
  <2>1. list \in Seq(Trade) /\ Len(list) \in Nat /\ Len(list) <= MaxHistory
      BY <1>1, ListsAreSequences
  <2>2. LastN(list, maxTradeLen) \in Seq(Trade)
      BY <1>1, <2>1, LastNProperties
  <2>3. TypeOK'
      BY <1>6, <2>1, <2>2 DEF Partial, TypeOK, MaxHistory
  <2>4. ViewIsSnapshot'
      BY <1>3, <1>6 DEF Partial, ViewIsSnapshot, TypeOK
  <2> QED BY <2>3, <2>4
<1>7. CASE UNCHANGED vars
    BY <1>2, <1>3, <1>7 DEF vars, TypeOK, ViewIsSnapshot, MaxHistory
<1> QED BY <1>4, <1>5, <1>6, <1>7 DEF Next

(* The list is bounded, and a subscriber that has missed no partial knows   *)
(* the trades a snapshot would show: applyData (cache_trade.go:61-91) never *)
(* cuts into them.                                                          *)
THEOREM ViewFollows == Spec => [](TypeOK /\ ViewIsSnapshot)
<1> QED BY InitialState, Step, PTL DEF Spec

(* In particular the list never holds more than maxTradeLen times the       *)
(* multiple of trades, or one incoming list if that is longer (applyData).  *)
THEOREM TypeCorrect == Spec => []TypeOK
<1> QED BY ViewFollows, PTL

-----------------------------------------------------------------------------
(* Lists and the last trades mean the same in both specifications.          *)
LEMMA SameOperators ==
    /\ Window!Lists = Lists
    /\ \A s, n : Window!LastN(s, n) = LastN(s, n)
BY DEF Window!Lists, Lists, Window!LastN, LastN, Window!MinOf, MinOf

LEMMA WindowInit == Init => Window!WInit
<1> SUFFICES ASSUME Init PROVE Window!WInit
    OBVIOUS
<1>1. <<>> \in Seq(Trade) /\ Len(<<>>) = 0 /\ maxTradeLen \in Nat
    BY LenAssumption
<1>2. LastN(<<>>, maxTradeLen) \in Seq(Trade) /\ Len(LastN(<<>>, maxTradeLen)) = 0
  <2>1. MinOf(0, maxTradeLen) = 0
      BY <1>1 DEF MinOf
  <2> QED BY <1>1, <2>1, LastNProperties
<1>3. LastN(<<>>, maxTradeLen) = <<>>
    BY <1>2, EmptySeq
<1> QED BY <1>3 DEF Init, Window!WInit

LEMMA WindowStep ==
    TypeOK /\ ViewIsSnapshot /\ [Next]_vars => [Window!WNext]_(Window!wvars)
<1> SUFFICES ASSUME TypeOK, ViewIsSnapshot, [Next]_vars
             PROVE  [Window!WNext]_(Window!wvars)
    OBVIOUS
<1>1. maxTradeLen \in Nat /\ maxTradeLen >= 1 /\ historyTrade \in Seq(Trade)
    BY LenAssumption DEF TypeOK
<1>2. CASE Subscribe
    BY <1>2 DEF Subscribe, snapshot, Window!WNext, Window!WSubscribe
<1>3. ASSUME NEW list \in Lists, Insert(list)
      PROVE  Window!WInsert(list)
  <2>1. list \in Seq(Trade)
      BY ListsAreSequences
  <2>2. LastN(historyTrade', maxTradeLen)
            = LastN(LastN(historyTrade, maxTradeLen) \o list, maxTradeLen)
      BY <1>1, <1>3, <2>1, InsertKeepsWindow DEF Insert
  <2> QED BY <1>3, <2>2, SameOperators DEF Insert, Window!WInsert
<1>4. ASSUME NEW list \in Lists, Partial(list)
      PROVE  Window!WPartial(list)
  <2>1. /\ Len(historyTrade) \in Nat
        /\ LastN(historyTrade, maxTradeLen) \in Seq(Trade)
        /\ Len(LastN(historyTrade, maxTradeLen)) = MinOf(Len(historyTrade), maxTradeLen)
    <3>1. Len(historyTrade) \in Nat
        BY <1>1, LenProperties
    <3> QED BY <1>1, <3>1, LastNProperties
  <2>2. LastN(historyTrade, maxTradeLen) = <<>> <=> Len(historyTrade) < 1
    <3>1. MinOf(Len(historyTrade), maxTradeLen) = 0 <=> Len(historyTrade) < 1
        BY <1>1, <2>1 DEF MinOf
    <3>2. LastN(historyTrade, maxTradeLen) = <<>>
              <=> Len(LastN(historyTrade, maxTradeLen)) = 0
      <4> DEFINE l == LastN(historyTrade, maxTradeLen)
      <4>1. l \in Seq(Trade)
          BY <2>1
      <4> HIDE DEF l
      <4>2. l = <<>> <=> Len(l) = 0
          BY <4>1, EmptySeq
      <4> QED BY <4>2 DEF l
    <3> QED BY <2>1, <3>1, <3>2
  <2> QED BY <1>4, <2>2, SameOperators DEF Partial, Window!WPartial
<1>5. CASE UNCHANGED vars
    BY <1>5 DEF vars, Window!wvars
<1> QED BY <1>2, <1>3, <1>4, <1>5, SameOperators DEF Next, Window!WNext

(* TradeCache keeps the promise of TradeWindow: whatever it cuts from its   *)
(* list, a snapshot and the stream show the last maxTradeLen trades.        *)
THEOREM Refinement == Spec => KeepsWindow
<1> QED BY InitialState, Step, WindowInit, WindowStep, PTL
        DEF Spec, KeepsWindow, Window!WSpec
=============================================================================

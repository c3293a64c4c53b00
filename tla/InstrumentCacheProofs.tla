------------------------ MODULE InstrumentCacheProofs ------------------------
(***************************************************************************)
(* Proofs about InstrumentCache, for any instruments and any lists of any   *)
(* length: the cache differs from the upstream, and a subscriber from the   *)
(* upstream, in the fields that are said of them and in no other.           *)
(***************************************************************************)
EXTENDS InstrumentCache, SequenceTheorems, WellFoundedInduction, TLAPS

USE InstrumentAssumption

-----------------------------------------------------------------------------
(* Induction, for the elements of a set: the library's theorem is about an  *)
(* operator.                                                                *)
LEMMA NatSetInduction ==
  ASSUME NEW S, 0 \in S, \A n \in Nat : n \in S => n + 1 \in S
  PROVE  Nat \subseteq S
<1>. DEFINE R == OpToRel(<, Nat)
            T == Nat \ S
<1>. SUFFICES ASSUME T # {} PROVE FALSE
  OBVIOUS
<1>1. IsWellFoundedOn(R, Nat)
  BY NatLessThanWellFounded
<1>2. T \subseteq Nat
  OBVIOUS
<1>3. \A x, y \in Nat : x < y => <<x, y>> \in R
  BY DEF OpToRel
<1>. HIDE DEF R
<1>4. PICK x \in T : \A y \in T : ~ (<<y, x>> \in R)
  BY <1>1, <1>2, WFMin
<1>5. x \in Nat /\ x # 0 /\ x \notin S
  OBVIOUS
<1>6. x - 1 \in Nat /\ x - 1 < x /\ x = (x - 1) + 1
  BY <1>5
<1>7. <<x - 1, x>> \in R
  BY <1>3, <1>5, <1>6
<1>8. x - 1 \notin T
  BY <1>4, <1>7
<1>9. x - 1 \in S
  BY <1>6, <1>8
<1>. QED  BY <1>5, <1>6, <1>9

-----------------------------------------------------------------------------
(* The loop of applyData over a list.                                       *)

LEMMA GroupFacts == \A f \in Field : GroupOf(f) \in Groups /\ f \in GroupOf(f)
<1>. SUFFICES ASSUME NEW f \in Field PROVE GroupOf(f) \in Groups /\ f \in GroupOf(f)
  OBVIOUS
<1>1. \E g \in Groups : f \in g
  BY DEF Field, Groups
<1>. QED  BY <1>1 DEF GroupOf

CacheType == [ins : Item, prices : 0..PriceCap, stale : SUBSET Field]

LEMMA ItemKeepsTypes ==
  ASSUME NEW c \in CacheType, NEW item \in Item
  PROVE  handleItem(c, item) \in CacheType
<1>1. c.ins \in Item /\ c.prices \in 0..PriceCap
  BY DEF CacheType
<1>2. Applied(c.ins, item) \in Item
  BY <1>1 DEF Applied, Item
<1>3. applyInsPrice(c.prices, item) \in 0..PriceCap
  <2>1. PriceCap \div 2 \in 0..PriceCap
    OBVIOUS
  <2>. QED  BY <1>1, <2>1 DEF applyInsPrice
<1>4. Missed(c.stale, item) \subseteq Field
  BY DEF Missed
<1>. QED  BY <1>2, <1>3, <1>4 DEF handleItem, CacheType

(* The loop runs to the end of the list, item after item.                   *)
Runs(g, c, list, n) == g[0] = c /\ \A k \in 1..n : g[k] = handleItem(g[k - 1], list[k])

LEMMA LoopRuns ==
  ASSUME NEW c \in CacheType, NEW list \in Seq(Item)
  PROVE  Runs(applyData(c, list), c, list, Len(list))
<1>. DEFINE D == 0..Len(list)
            S == {n \in Nat : n <= Len(list) =>
                     \E g \in [D -> CacheType] : Runs(g, c, list, n)}
<1>0. Len(list) \in Nat
  OBVIOUS
<1>1. 0 \in S
  <2>1. [k \in D |-> c] \in [D -> CacheType] /\ [k \in D |-> c][0] = c
    BY <1>0
  <2>2. Runs([k \in D |-> c], c, list, 0)
    BY <2>1 DEF Runs
  <2>. QED  BY <2>1, <2>2
<1>2. ASSUME NEW n \in Nat, n \in S PROVE n + 1 \in S
  <2>. SUFFICES ASSUME n + 1 <= Len(list)
                PROVE  \E g \in [D -> CacheType] : Runs(g, c, list, n + 1)
    OBVIOUS
  <2>1. PICK g \in [D -> CacheType] : Runs(g, c, list, n)
    BY <1>0, <1>2
  <2>. DEFINE h == [g EXCEPT ![n + 1] = handleItem(g[n], list[n + 1])]
  <2>2. n \in D /\ n + 1 \in D /\ n + 1 \in 1..Len(list)
    BY <1>0
  <2>3. g[n] \in CacheType /\ list[n + 1] \in Item
    BY <2>2
  <2>4. handleItem(g[n], list[n + 1]) \in CacheType
    BY <2>3, ItemKeepsTypes
  <2>5. /\ h \in [D -> CacheType] /\ h[n + 1] = handleItem(g[n], list[n + 1])
        /\ \A k \in 0..n : h[k] = g[k]
    BY <1>0, <2>2, <2>4
  <2>. HIDE DEF h
  <2>6. h[0] = c
    BY <2>1, <2>5 DEF Runs
  <2>7. ASSUME NEW k \in 1..(n + 1) PROVE h[k] = handleItem(h[k - 1], list[k])
    <3>1. CASE k = n + 1
      BY <2>5, <3>1
    <3>2. CASE k \in 1..n
      <4>1. g[k] = handleItem(g[k - 1], list[k]) /\ k \in 0..n /\ k - 1 \in 0..n
        BY <2>1, <3>2 DEF Runs
      <4>. QED  BY <2>5, <4>1
    <3>. QED  BY <3>1, <3>2
  <2>8. Runs(h, c, list, n + 1)
    BY <2>6, <2>7 DEF Runs
  <2>. QED  BY <2>5, <2>8
<1>. HIDE DEF S
<1>3. Nat \subseteq S
  BY <1>1, <1>2, NatSetInduction
<1>4. PICK g \in [D -> CacheType] : Runs(g, c, list, Len(list))
  BY <1>0, <1>3 DEF S
<1>. DEFINE F(f) == [k \in D |-> IF k = 0 THEN c ELSE handleItem(f[k - 1], list[k])]
<1>5. g = F(g)
  <2>1. ASSUME NEW k \in D
        PROVE  g[k] = IF k = 0 THEN c ELSE handleItem(g[k - 1], list[k])
    <3>1. k = 0 \/ k \in 1..Len(list)
      BY <1>0
    <3>. QED  BY <1>4, <3>1 DEF Runs
  <2>. QED  BY <2>1
<1>6. applyData(c, list) = CHOOSE f : f = F(f)
  BY DEF applyData
<1>. DEFINE a == applyData(c, list)
<1>. HIDE DEF F
<1>7. a = F(a)
  BY <1>5, <1>6
<1>. HIDE DEF a
<1>8. \A k \in D : a[k] = IF k = 0 THEN c ELSE handleItem(a[k - 1], list[k])
  BY <1>7 DEF F
<1>9. 0 \in D /\ \A k \in 1..Len(list) : k \in D /\ k # 0
  BY <1>0
<1>10. Runs(a, c, list, Len(list))
  BY <1>8, <1>9 DEF Runs
<1>. QED  BY <1>10 DEF a

-----------------------------------------------------------------------------
(* What a list says: its last word on each field.                           *)

LEMMA LargestExists ==
  ASSUME NEW n \in Nat, NEW T \in SUBSET (1..n), T # {}
  PROVE  \E x \in T : \A y \in T : x >= y
<1>. DEFINE S == {m \in Nat : \A U \in SUBSET (1..m) :
                     U # {} => \E x \in U : \A y \in U : x >= y}
<1>1. 0 \in S
  <2>1. 1..0 = {}
    OBVIOUS
  <2>. QED  BY <2>1
<1>2. ASSUME NEW m \in Nat, m \in S PROVE m + 1 \in S
  <2>. SUFFICES ASSUME NEW U \in SUBSET (1..(m + 1)), U # {}
                PROVE  \E x \in U : \A y \in U : x >= y
    OBVIOUS
  <2>1. CASE m + 1 \in U
    BY <2>1
  <2>2. CASE m + 1 \notin U
    <3>1. U \in SUBSET (1..m)
      BY <2>2
    <3>. QED  BY <1>2, <3>1
  <2>. QED  BY <2>1, <2>2
<1>. HIDE DEF S
<1>3. Nat \subseteq S
  BY <1>1, <1>2, NatSetInduction
<1>. QED  BY <1>3 DEF S

LEMMA LargestIs ==
  ASSUME NEW n \in Nat, NEW T \in SUBSET (1..n), NEW x \in T, \A y \in T : x >= y
  PROVE  Max(T) = x
<1>. DEFINE m == Max(T)
<1>1. m \in T /\ \A y \in T : m >= y
  BY DEF Max
<1>. HIDE DEF m
<1>2. m \in Nat /\ x \in Nat
  BY <1>1
<1>3. m >= x /\ x >= m
  BY <1>1
<1>4. m = x
  BY <1>2, <1>3
<1>. QED  BY <1>4 DEF m

(* Merge up to an index of the list.                                        *)
GivenUpto(list, k, f) == {i \in 1..k : list[i][f] # 0}

Upto(ins, list, k) ==
    [f \in Field |-> IF GivenUpto(list, k, f) = {} THEN ins[f]
                     ELSE list[Max(GivenUpto(list, k, f))][f]]

LEMMA MergeIsUpto ==
  ASSUME NEW ins, NEW list \in Seq(Item)
  PROVE  Merge(ins, list) = Upto(ins, list, Len(list))
<1>1. DOMAIN list = 1..Len(list)
  OBVIOUS
<1>. QED  BY <1>1 DEF Merge, Upto, GivenUpto

LEMMA UptoStart ==
  ASSUME NEW ins \in Item, NEW list
  PROVE  Upto(ins, list, 0) = ins
<1>1. \A f \in Field : GivenUpto(list, 0, f) = {}
  BY DEF GivenUpto
<1>. QED  BY <1>1 DEF Upto, Item

LEMMA UptoStep ==
  ASSUME NEW ins, NEW list, NEW k \in Nat \ {0}, NEW f \in Field
  PROVE  Upto(ins, list, k)[f] =
            IF list[k][f] # 0 THEN list[k][f] ELSE Upto(ins, list, k - 1)[f]
<1>1. CASE list[k][f] # 0
  <2>1. k \in GivenUpto(list, k, f) /\ \A y \in GivenUpto(list, k, f) : k >= y
    BY <1>1 DEF GivenUpto
  <2>2. GivenUpto(list, k, f) \in SUBSET (1..k)
    BY DEF GivenUpto
  <2>3. Max(GivenUpto(list, k, f)) = k
    BY <2>1, <2>2, LargestIs
  <2>. QED  BY <1>1, <2>1, <2>3 DEF Upto
<1>2. CASE list[k][f] = 0
  <2>1. GivenUpto(list, k, f) = GivenUpto(list, k - 1, f)
    BY <1>2 DEF GivenUpto
  <2>. QED  BY <1>2, <2>1 DEF Upto
<1>. QED  BY <1>1, <1>2

LEMMA UptoType ==
  ASSUME NEW ins \in Item, NEW list \in Seq(Item), NEW k \in 0..Len(list)
  PROVE  Upto(ins, list, k) \in Item
<1>. SUFFICES ASSUME NEW f \in Field PROVE Upto(ins, list, k)[f] \in Int
  BY DEF Upto, Item
<1>1. CASE GivenUpto(list, k, f) = {}
  BY <1>1 DEF Upto, Item
<1>2. CASE GivenUpto(list, k, f) # {}
  <2>1. GivenUpto(list, k, f) \in SUBSET (1..k) /\ k \in Nat
    BY DEF GivenUpto
  <2>2. PICK x \in GivenUpto(list, k, f) : \A y \in GivenUpto(list, k, f) : x >= y
    BY <1>2, <2>1, LargestExists
  <2>3. Max(GivenUpto(list, k, f)) = x
    BY <2>1, <2>2, LargestIs
  <2>4. x \in 1..Len(list)
    BY <2>1
  <2>5. list[x] \in Item
    BY <2>4
  <2>. QED  BY <1>2, <2>3, <2>5 DEF Upto, Item
<1>. QED  BY <1>1, <1>2

LEMMA MergeType ==
  ASSUME NEW ins \in Item, NEW list \in Seq(Item)
  PROVE  Merge(ins, list) \in Item
BY MergeIsUpto, UptoType, Len(list) \in 0..Len(list)

(* A field that the list does not give keeps its value; of one that it      *)
(* gives the list has the last word, whatever the instrument.               *)
LEMMA MergeUngiven ==
  ASSUME NEW ins \in Item, NEW list \in Seq(Item), NEW f \in Field \ AllGiven(list)
  PROVE  Merge(ins, list)[f] = ins[f]
<1>1. {i \in DOMAIN list : list[i][f] # 0} = {}
  BY DEF AllGiven, Given
<1>. QED  BY <1>1 DEF Merge

LEMMA MergeGiven ==
  ASSUME NEW v, NEW w, NEW list \in Seq(Item), NEW f \in Field, f \in AllGiven(list)
  PROVE  Merge(v, list)[f] = Merge(w, list)[f]
<1>1. {i \in DOMAIN list : list[i][f] # 0} # {}
  BY DEF AllGiven, Given
<1>. QED  BY <1>1 DEF Merge

-----------------------------------------------------------------------------
(* The cache after each item, against the upstream's instrument: they       *)
(* differ in fields of stale only.                                          *)
Agrees(c, ins) == \A f \in Field \ c.stale : c.ins[f] = ins[f]

LEMMA ItemTracks ==
  ASSUME NEW c \in CacheType, NEW ins \in Item, NEW item \in Item, NEW said \in Item,
         Agrees(c, ins),
         \A f \in Field : said[f] = IF item[f] # 0 THEN item[f] ELSE ins[f]
  PROVE  Agrees(handleItem(c, item), said)
<1>. SUFFICES ASSUME NEW f \in Field, f \notin Missed(c.stale, item)
              PROVE  Applied(c.ins, item)[f] = said[f]
  BY DEF Agrees, handleItem
<1>1. CASE Open(item, GroupOf(f))
  BY <1>1 DEF Missed, Applied
<1>2. CASE ~Open(item, GroupOf(f))
  <2>1. item[f] = 0 /\ f \notin c.stale
    BY <1>2 DEF Missed
  <2>. QED  BY <1>2, <2>1 DEF Applied, Agrees
<1>. QED  BY <1>1, <1>2

LEMMA LoopTracks ==
  ASSUME NEW c \in CacheType, NEW list \in Seq(Item), NEW ins \in Item,
         NEW k \in 0..Len(list)
  PROVE  /\ applyData(c, list)[k] \in CacheType
         /\ Agrees(c, ins) => Agrees(applyData(c, list)[k], Upto(ins, list, k))
<1>. DEFINE a == applyData(c, list)
            S == {n \in Nat : n <= Len(list) =>
                     /\ a[n] \in CacheType
                     /\ Agrees(c, ins) => Agrees(a[n], Upto(ins, list, n))}
<1>0. Len(list) \in Nat
  OBVIOUS
<1>1. Runs(a, c, list, Len(list))
  BY LoopRuns
<1>. HIDE DEF a
<1>2. 0 \in S
  BY <1>1, UptoStart DEF Runs
<1>3. ASSUME NEW n \in Nat, n \in S PROVE n + 1 \in S
  <2>. SUFFICES ASSUME n + 1 <= Len(list)
                PROVE  /\ a[n + 1] \in CacheType
                       /\ Agrees(c, ins) => Agrees(a[n + 1], Upto(ins, list, n + 1))
    OBVIOUS
  <2>1. a[n] \in CacheType /\ (Agrees(c, ins) => Agrees(a[n], Upto(ins, list, n)))
    BY <1>0, <1>3
  <2>2. n + 1 \in 1..Len(list) /\ (n + 1) - 1 = n /\ n \in 0..Len(list)
        /\ n + 1 \in 0..Len(list) /\ n + 1 \in Nat \ {0}
    BY <1>0
  <2>3. a[n + 1] = handleItem(a[n], list[n + 1])
    BY <1>1, <2>2 DEF Runs
  <2>4. list[n + 1] \in Item
    BY <2>2
  <2>5. Upto(ins, list, n) \in Item /\ Upto(ins, list, n + 1) \in Item
    BY <2>2, UptoType
  <2>6. \A f \in Field : Upto(ins, list, n + 1)[f] =
           IF list[n + 1][f] # 0 THEN list[n + 1][f] ELSE Upto(ins, list, n)[f]
    <3>1. \A f \in Field : Upto(ins, list, n + 1)[f] =
             IF list[n + 1][f] # 0 THEN list[n + 1][f] ELSE Upto(ins, list, (n + 1) - 1)[f]
      BY <2>2, UptoStep
    <3>. QED  BY <2>2, <3>1
  <2>7. Agrees(c, ins) => Agrees(a[n + 1], Upto(ins, list, n + 1))
    BY <2>1, <2>3, <2>4, <2>5, <2>6, ItemTracks
  <2>. QED  BY <2>1, <2>3, <2>4, <2>7, ItemKeepsTypes
<1>. HIDE DEF S
<1>4. Nat \subseteq S
  BY <1>2, <1>3, NatSetInduction
<1>5. k \in S /\ k <= Len(list)
  BY <1>0, <1>4
<1>. QED  BY <1>5 DEF S, a

(* Before the last item, with the items before it.                          *)
LEMMA LastWord ==
  ASSUME NEW ins \in Item, NEW list \in Seq(Item), list # <<>>, NEW f \in Field
  PROVE  /\ Len(list) \in Nat \ {0} /\ Last(list) \in Item
         /\ Merge(ins, list)[f] = IF Last(list)[f] # 0 THEN Last(list)[f]
                                  ELSE Upto(ins, list, Len(list) - 1)[f]
         /\ f \notin AllGiven(Front(list)) => Upto(ins, list, Len(list) - 1)[f] = ins[f]
         /\ f \in AllGiven(list) => f \in AllGiven(Front(list)) \/ f \in Given(Last(list))
<1>1. Len(list) \in Nat \ {0}
  OBVIOUS
<1>2. Last(list) = list[Len(list)] /\ Last(list) \in Item
  BY <1>1 DEF Last
<1>3. Merge(ins, list)[f] = IF Last(list)[f] # 0 THEN Last(list)[f]
                            ELSE Upto(ins, list, Len(list) - 1)[f]
  BY <1>1, <1>2, MergeIsUpto, UptoStep
<1>4. /\ DOMAIN Front(list) = 1..(Len(list) - 1)
      /\ \A i \in 1..(Len(list) - 1) : Front(list)[i] = list[i]
  BY <1>1 DEF Front
<1>5. ASSUME f \notin AllGiven(Front(list))
      PROVE  Upto(ins, list, Len(list) - 1)[f] = ins[f]
  <2>1. GivenUpto(list, Len(list) - 1, f) = {}
    BY <1>4, <1>5 DEF GivenUpto, AllGiven, Given
  <2>. QED  BY <2>1 DEF Upto
<1>6. ASSUME f \in AllGiven(list), f \notin Given(Last(list))
      PROVE  f \in AllGiven(Front(list))
  <2>1. PICK i \in DOMAIN list : f \in Given(list[i])
    BY <1>6 DEF AllGiven
  <2>2. i \in 1..(Len(list) - 1)
    BY <1>1, <1>2, <1>6, <2>1
  <2>. QED  BY <1>4, <2>1, <2>2 DEF AllGiven
<1>. QED  BY <1>1, <1>2, <1>3, <1>5, <1>6

(* An unpublished list whose last word on a field is not counted as unsaid  *)
(* has not changed it.                                                      *)
LEMMA UnpublishedSaysNothing ==
  ASSUME NEW ins \in Item, NEW list \in Seq(Item), list # <<>>,
         NEW before \in CacheType, Agrees(before, Upto(ins, list, Len(list) - 1)),
         ~Changed(before.ins, Last(list)),
         NEW f \in Field, f \notin Unsaid(list, before)
  PROVE  Merge(ins, list)[f] = ins[f]
<1>1. CASE f \notin AllGiven(list)
  BY <1>1, MergeUngiven
<1>2. CASE f \in AllGiven(list)
  <2>1. f \notin AllGiven(Front(list)) /\ f \in Given(Last(list))
    BY <1>2, LastWord DEF Unsaid
  <2>2. /\ Open(Last(list), GroupOf(f)) /\ f \notin before.stale
        /\ f \in {"ind", "mark", "bid", "ask"}
    BY <2>1 DEF Unsaid
  <2>3. before.ins[f] = Last(list)[f]
    <3>1. GroupOf(f) \in Groups /\ f \in GroupOf(f) \cap {"ind", "mark", "bid", "ask"}
      BY <2>2, GroupFacts
    <3>. QED  BY <2>2, <3>1 DEF Changed
  <2>4. before.ins[f] = ins[f]
    BY <2>1, <2>2, LastWord DEF Agrees
  <2>5. Merge(ins, list)[f] = Last(list)[f]
    BY <2>1, LastWord DEF Given
  <2>. QED  BY <2>3, <2>4, <2>5
<1>. QED  BY <1>1, <1>2

-----------------------------------------------------------------------------
(* The invariants of the specification.                                     *)
Message == [kind : {"full", "delta"}, list : Seq(Item), obj : Nat]

(* Messages that may be in the queue when there are n instruments.          *)
Possible(q, n) ==
    /\ q \in Seq(Message)
    /\ \A i \in 1..Len(q) :
          q[i].obj \in 0..n /\ (q[i].kind = "full" => q[i].obj # 0)

QueueTypeOK == Possible(queue, Len(heap))

LEMMA SendingKeeps ==
  ASSUME NEW m \in Nat, NEW n \in Nat, m <= n, NEW q, Possible(q, m),
         NEW msg \in Message, msg.obj \in 0..n, msg.kind = "full" => msg.obj # 0
  PROVE  Possible(q, n) /\ Possible(Append(q, msg), n)
<1>1. Possible(q, n)
  BY DEF Possible
<1>2. /\ Append(q, msg) \in Seq(Message) /\ Len(Append(q, msg)) = Len(q) + 1
      /\ Len(q) \in Nat
      /\ \A i \in 1..(Len(q) + 1) : Append(q, msg)[i] = IF i <= Len(q) THEN q[i] ELSE msg
  BY DEF Possible
<1>3. ASSUME NEW i \in 1..(Len(q) + 1)
      PROVE  /\ Append(q, msg)[i].obj \in 0..n
             /\ Append(q, msg)[i].kind = "full" => Append(q, msg)[i].obj # 0
  <2>1. CASE i <= Len(q)
    BY <1>1, <1>2, <2>1 DEF Possible
  <2>2. CASE ~(i <= Len(q))
    BY <1>2, <2>2
  <2>. QED  BY <2>1, <2>2
<1>. QED  BY <1>1, <1>2, <1>3 DEF Possible

TypeInv == InstrumentTypeOK /\ QueueTypeOK

LEMMA NothingType == Nothing \in Item
BY DEF Nothing, Item

(* Cache, and the caches of handleUpdate, have their types.                 *)
LEMMA CachesTypes ==
  ASSUME TypeInv, heap # <<>>, NEW list \in Messages
  PROVE  /\ Cache \in CacheType
         /\ list \in Seq(Item) /\ list # <<>>
         /\ applyData(Cache, list)[Len(list) - 1] \in CacheType
         /\ applyData(Cache, list)[Len(list)] \in CacheType
<1>1. Cache \in CacheType
  BY DEF TypeInv, InstrumentTypeOK, Cache, CacheType, Last
<1>2. list \in Seq(Item) /\ list # <<>>
  BY DEF InstrumentAssumption
<1>3. \A k \in 0..Len(list) : applyData(Cache, list)[k] \in CacheType
  BY <1>1, <1>2, NothingType, LoopTracks
<1>. QED  BY <1>1, <1>2, <1>3

THEOREM TypeInvariance == Spec => []TypeInv
<1>1. Init => TypeInv
  BY NothingType DEF Init, TypeInv, InstrumentTypeOK, QueueTypeOK, Possible
<1>2. TypeInv /\ [Next]_vars => TypeInv'
  <2>. SUFFICES ASSUME TypeInv, [Next]_vars PROVE TypeInv'
    OBVIOUS
  <2>. USE DEF TypeInv
  <2>1. CASE handlePartial
    <3>1. PICK ins \in Partials : truth' = ins /\ heap' = Append(heap, ins)
      BY <2>1 DEF handlePartial
    <3>2. ins \in Item /\ heap \in Seq(Item)
      BY DEF InstrumentTypeOK
    <3>3. heap' \in Seq(Item) /\ Len(heap') = Len(heap) + 1 /\ Len(heap) \in Nat
      BY <3>1, <3>2
    <3>4. queue' = queue \/ queue' = Append(queue, Pointer(1))
      BY <2>1 DEF handlePartial, PublishData
    <3>5. Pointer(1) \in Message /\ Pointer(1).obj = 1
      BY DEF Pointer, Message
    <3>6. QueueTypeOK'
      <4>1. Len(heap) \in Nat /\ Len(heap') \in Nat /\ Len(heap) <= Len(heap')
        BY <3>3, <3>4, <3>5
      <4>2. /\ Pointer(1) \in Message /\ Pointer(1).obj \in 0..Len(heap')
            /\ Pointer(1).kind = "full" => Pointer(1).obj # 0
        BY <3>3, <3>4, <3>5, <4>1
      <4>3. Possible(queue, Len(heap))
        BY DEF QueueTypeOK
      <4>4. Possible(queue, Len(heap')) /\ Possible(Append(queue, Pointer(1)), Len(heap'))
        BY <4>1, <4>2, <4>3, SendingKeeps
      <4>. QED  BY <3>3, <3>4, <3>5, <4>4 DEF QueueTypeOK
    <3>7. \A i \in DOMAIN queue' : queue'[i].obj \in 0..Len(heap')
      BY <3>6 DEF QueueTypeOK, Possible
    <3>. QED  BY <2>1, <3>1, <3>2, <3>3, <3>6, <3>7 DEF handlePartial, InstrumentTypeOK
  <2>2. CASE handleUpdate
    <3>. DEFINE before(list) == applyData(Cache, list)[Len(list) - 1]
                after(list) == applyData(Cache, list)[Len(list)]
    <3>1. PICK list \in Messages :
             /\ truth' = Merge(truth, list)
             /\ heap' = [heap EXCEPT ![Len(heap)] = after(list).ins]
             /\ prices' = after(list).prices
             /\ stale' = after(list).stale
             /\ \/ /\ PublishData(Delta(list))
                   /\ untold' = IF joined # "no" THEN untold \ AllGiven(list) ELSE Field
                \/ /\ untold' = untold \cup Unsaid(list, before(list))
                   /\ UNCHANGED queue
      BY <2>2 DEF handleUpdate
    <3>2. heap # <<>> /\ UNCHANGED <<joined, view>> /\ sent' = sent + 1
      BY <2>2 DEF handleUpdate
    <3>3. /\ list \in Seq(Item)
          /\ after(list) \in CacheType
      BY <3>2, CachesTypes
    <3>4. after(list).ins \in Item /\ after(list).prices \in 0..PriceCap
          /\ after(list).stale \subseteq Field
      BY <3>3 DEF CacheType
    <3>. HIDE DEF before, after
    <3>5. truth' \in Item
      BY <3>1, <3>3, MergeType DEF InstrumentTypeOK
    <3>6. heap' \in Seq(Item) /\ Len(heap') = Len(heap) /\ Len(heap) \in Nat
      <4>1. heap \in Seq(Item) /\ Len(heap) \in 1..Len(heap)
        BY <3>2 DEF InstrumentTypeOK
      <4>. QED  BY <3>1, <3>4, <4>1, ExceptSeq
    <3>7. Unsaid(list, before(list)) \subseteq Field
      BY DEF Unsaid, AllGiven, Given
    <3>8. untold' \subseteq Field
      BY <3>1, <3>7 DEF InstrumentTypeOK
    <3>9. queue' = queue \/ queue' = Append(queue, Delta(list))
      BY <3>1 DEF PublishData
    <3>10. Delta(list) \in Message /\ Delta(list).obj = 0 /\ Delta(list).kind = "delta"
      BY <3>3 DEF Delta, Message
    <3>11. QueueTypeOK'
      <4>1. Len(heap) \in Nat /\ Len(heap') \in Nat /\ Len(heap) <= Len(heap')
        BY <3>6, <3>9, <3>10
      <4>2. /\ Delta(list) \in Message /\ Delta(list).obj \in 0..Len(heap')
            /\ Delta(list).kind = "full" => Delta(list).obj # 0
        BY <3>6, <3>9, <3>10, <4>1
      <4>3. Possible(queue, Len(heap))
        BY DEF QueueTypeOK
      <4>4. Possible(queue, Len(heap')) /\ Possible(Append(queue, Delta(list)), Len(heap'))
        BY <4>1, <4>2, <4>3, SendingKeeps
      <4>. QED  BY <3>6, <3>9, <3>10, <4>4 DEF QueueTypeOK
    <3>12. \A i \in DOMAIN queue' : queue'[i].obj \in 0..Len(heap')
      BY <3>11 DEF QueueTypeOK, Possible
    <3>13. sent' \in Nat
      BY <3>2 DEF InstrumentTypeOK
    <3>. QED  BY <3>1, <3>2, <3>4, <3>5, <3>6, <3>8, <3>11, <3>12, <3>13 DEF InstrumentTypeOK
  <2>7. CASE PartialMissing
    <3>1. PICK list \in Messages : truth' = Merge(truth, list)
      BY <2>7 DEF PartialMissing
    <3>2. truth' \in Item
      BY <3>1, MergeType DEF InstrumentTypeOK, InstrumentAssumption
    <3>. QED  BY <2>7, <3>2 DEF PartialMissing, cacheVars, InstrumentTypeOK, QueueTypeOK
  <2>3. CASE Join
    BY <2>3 DEF Join, cacheVars, InstrumentTypeOK, QueueTypeOK
  <2>4. CASE snapshot
    <3>1. UNCHANGED <<truth, sent, heap, prices, view, stale>> /\ heap # <<>>
          /\ joined' = "asked" /\ untold' = stale
      BY <2>4 DEF snapshot, cacheVars
    <3>2. queue' = queue \/ queue' = Append(queue, Pointer(Len(heap)))
      BY <2>4 DEF snapshot, PublishData
    <3>3. Len(heap) \in Nat \ {0}
      BY <3>1 DEF InstrumentTypeOK
    <3>4. Pointer(Len(heap)) \in Message /\ Pointer(Len(heap)).obj = Len(heap)
      BY <3>3 DEF Pointer, Message
    <3>5. QueueTypeOK'
      <4>1. Len(heap) \in Nat /\ Len(heap') \in Nat /\ Len(heap) <= Len(heap')
        BY <3>1, <3>2, <3>3, <3>4
      <4>2. /\ Pointer(Len(heap)) \in Message /\ Pointer(Len(heap)).obj \in 0..Len(heap')
            /\ Pointer(Len(heap)).kind = "full" => Pointer(Len(heap)).obj # 0
        BY <3>1, <3>2, <3>3, <3>4, <4>1
      <4>3. Possible(queue, Len(heap))
        BY DEF QueueTypeOK
      <4>4. Possible(queue, Len(heap')) /\ Possible(Append(queue, Pointer(Len(heap))), Len(heap'))
        BY <4>1, <4>2, <4>3, SendingKeeps
      <4>. QED  BY <3>1, <3>2, <3>3, <3>4, <4>4 DEF QueueTypeOK
    <3>6. \A i \in DOMAIN queue' : queue'[i].obj \in 0..Len(heap')
      BY <3>5 DEF QueueTypeOK, Possible
    <3>. QED  BY <3>1, <3>5, <3>6 DEF InstrumentTypeOK
  <2>5. CASE Receive
    <3>1. queue # <<>> /\ queue' = Tail(queue)
          /\ UNCHANGED <<truth, sent, heap, prices, joined, stale>>
      BY <2>5 DEF Receive, cacheVars
    <3>2. queue[1] \in Message /\ Head(queue) = queue[1]
          /\ (queue[1].kind = "full" => queue[1].obj \in 1..Len(heap))
      BY <3>1 DEF QueueTypeOK, Possible
    <3>3. view' \in Item
      <4>1. CASE queue[1].kind = "full" /\ view' = heap[queue[1].obj]
        BY <3>2, <4>1 DEF InstrumentTypeOK
      <4>2. CASE view' = Merge(view, queue[1].list)
        BY <3>2, <4>2, MergeType DEF InstrumentTypeOK, Message
      <4>. QED  BY <2>5, <3>2, <4>1, <4>2 DEF Receive
    <3>4. untold' \subseteq Field
      BY <2>5 DEF Receive, InstrumentTypeOK
    <3>5. QueueTypeOK'
      BY <3>1 DEF QueueTypeOK, Possible
    <3>6. \A i \in DOMAIN queue' : queue'[i].obj \in 0..Len(heap')
      BY <3>5 DEF QueueTypeOK, Possible
    <3>. QED  BY <3>1, <3>3, <3>4, <3>5, <3>6 DEF InstrumentTypeOK
  <2>6. CASE UNCHANGED vars
    BY <2>6 DEF vars, cacheVars, InstrumentTypeOK, QueueTypeOK
  <2>. QED  BY <2>1, <2>2, <2>3, <2>4, <2>5, <2>6, <2>7 DEF Next
<1>. QED  BY <1>1, <1>2, PTL DEF Spec

(* Every variable has its type, and the price lists stay within their bound *)
(* (applyInsPrice), for lists of any length.                                *)
THEOREM TypeCorrect == Spec => []InstrumentTypeOK
<1>1. TypeInv => InstrumentTypeOK
  BY DEF TypeInv
<1>. QED  BY <1>1, TypeInvariance, PTL

-----------------------------------------------------------------------------
(* The cache and the upstream.                                              *)

(* A list that is handled: the caches before its last item and after it     *)
(* differ from what the upstream has said by then in stale fields only.     *)
LEMMA HandledTracks ==
  ASSUME TypeInv, CacheTracks, heap # <<>>, NEW list \in Messages
  PROVE  /\ Agrees(applyData(Cache, list)[Len(list) - 1], Upto(truth, list, Len(list) - 1))
         /\ Agrees(applyData(Cache, list)[Len(list)], Merge(truth, list))
<1>1. Cache \in CacheType /\ list \in Seq(Item) /\ list # <<>> /\ truth \in Item
  BY CachesTypes DEF TypeInv, InstrumentTypeOK
<1>2. Agrees(Cache, truth)
  BY DEF Agrees, Cache, CacheTracks
<1>3. Len(list) - 1 \in 0..Len(list) /\ Len(list) \in 0..Len(list)
  BY <1>1
<1>4. /\ Agrees(applyData(Cache, list)[Len(list) - 1], Upto(truth, list, Len(list) - 1))
      /\ Agrees(applyData(Cache, list)[Len(list)], Upto(truth, list, Len(list)))
  BY <1>1, <1>2, <1>3, LoopTracks
<1>. QED  BY <1>1, <1>4, MergeIsUpto

LEMMA LastOfAppend ==
  ASSUME NEW S, NEW q \in Seq(S), NEW e \in S
  PROVE  Last(Append(q, e)) = e
BY DEF Last

LEMMA TracksInit == Init => CacheTracks
BY DEF Init, CacheTracks

LEMMA TracksStep ==
  ASSUME TypeInv, CacheTracks, [Next]_vars
  PROVE  CacheTracks'
<1>1. CASE handlePartial
  <2>1. PICK ins \in Partials : truth' = ins /\ heap' = Append(heap, ins)
    BY <1>1 DEF handlePartial
  <2>2. heap \in Seq(Item) /\ ins \in Item
    BY DEF TypeInv, InstrumentTypeOK
  <2>. QED  BY <2>1, <2>2, LastOfAppend DEF CacheTracks
<1>2. CASE handleUpdate
  <2>1. PICK list \in Messages :
           /\ truth' = Merge(truth, list)
           /\ heap' = [heap EXCEPT ![Len(heap)] = applyData(Cache, list)[Len(list)].ins]
           /\ stale' = applyData(Cache, list)[Len(list)].stale
    BY <1>2 DEF handleUpdate
  <2>2. heap # <<>>
    BY <1>2 DEF handleUpdate
  <2>. DEFINE after == applyData(Cache, list)[Len(list)]
  <2>3. after \in CacheType /\ Agrees(after, Merge(truth, list))
    BY <2>2, CachesTypes, HandledTracks
  <2>4. after.ins \in Item /\ heap \in Seq(Item) /\ Len(heap) \in 1..Len(heap)
    BY <2>2, <2>3 DEF TypeInv, InstrumentTypeOK, CacheType
  <2>5. Last(heap') = after.ins
    BY <2>1, <2>4, ExceptSeq DEF Last
  <2>. HIDE DEF after
  <2>6. stale' = after.stale
    BY <2>1 DEF after
  <2>. QED  BY <2>1, <2>3, <2>5, <2>6 DEF CacheTracks, Agrees
<1>5. CASE PartialMissing
  BY <1>5 DEF PartialMissing, cacheVars, CacheTracks
<1>3. CASE Join \/ snapshot \/ Receive
  BY <1>3 DEF Join, snapshot, Receive, cacheVars, CacheTracks
<1>4. CASE UNCHANGED vars
  BY <1>4 DEF vars, cacheVars, CacheTracks
<1>. QED  BY <1>1, <1>2, <1>3, <1>4, <1>5 DEF Next

(* After any updates (handleUpdate, with items that open any of their       *)
(* groups or none) and any partials, the cache has the upstream's           *)
(* instrument but for the fields said to be stale.                          *)
THEOREM Tracks == Spec => []CacheTracks
<1>1. TypeInv /\ CacheTracks /\ [Next]_vars => CacheTracks'
  BY TracksStep
<1>. QED  BY <1>1, TracksInit, TypeInvariance, PTL DEF Spec

-----------------------------------------------------------------------------
(* The subscriber and the upstream.  A message tells of a field when the    *)
(* subscriber takes a value for it from the message; the last message of    *)
(* the queue to tell of a field has the upstream's value, or points to the  *)
(* cache's instrument, whose value is looked up when it is received.        *)
Tells(msg, f) == msg.kind = "full" \/ f \in AllGiven(msg.list)

Word(msg, f) == IF msg.kind = "full" THEN heap[msg.obj][f] ELSE Merge(Nothing, msg.list)[f]

Current(msg) == msg.kind = "full" /\ msg.obj = Len(heap)

Good(msg, f) == Current(msg) \/ Word(msg, f) = truth[f]

(* The message at i is the last one of the queue to tell of f.              *)
LastTells(i, f) ==
    /\ i \in 1..Len(queue) /\ Tells(queue[i], f)
    /\ \A j \in 1..Len(queue) : j > i => ~Tells(queue[j], f)

Untold(f) == \A j \in 1..Len(queue) : ~Tells(queue[j], f)

Knows(f) ==
    \/ Untold(f) /\ view[f] = truth[f]
    \/ \E i \in 1..Len(queue) : LastTells(i, f) /\ Good(queue[i], f)

ViewInv ==
    /\ joined = "no" => queue = <<>> /\ untold = Field
    /\ heap = <<>> => untold = Field
    /\ \A f \in Field \ untold : Knows(f)

LEMMA ViewInit == Init => ViewInv
BY DEF Init, ViewInv

(* Steps that send nothing and leave the field as it is.                    *)
LEMMA QuietKeeps ==
  ASSUME TypeInv, NEW f \in Field, Knows(f), queue' = queue, view' = view,
         truth'[f] = truth[f], Len(heap') = Len(heap),
         \A k \in 1..Len(heap) : k # Len(heap) => heap'[k] = heap[k]
  PROVE  Knows(f)'
<1>1. CASE Untold(f) /\ view[f] = truth[f]
  BY <1>1 DEF Knows, Untold, Tells
<1>2. CASE \E i \in 1..Len(queue) : LastTells(i, f) /\ Good(queue[i], f)
  <2>1. PICK i \in 1..Len(queue) : LastTells(i, f) /\ Good(queue[i], f)
    BY <1>2
  <2>2. LastTells(i, f)'
    BY <2>1 DEF LastTells, Tells
  <2>3. queue[i].kind = "full" => queue[i].obj \in 1..Len(heap)
    BY DEF TypeInv, QueueTypeOK, Possible
  <2>4. Good(queue[i], f)'
    <3>1. CASE Current(queue[i])
      BY <3>1 DEF Good, Current
    <3>2. CASE ~Current(queue[i])
      BY <2>1, <2>3, <3>2 DEF Good, Current, Word
    <3>. QED  BY <3>1, <3>2
  <2>. QED  BY <2>1, <2>2, <2>4 DEF Knows
<1>. QED  BY <1>1, <1>2 DEF Knows

(* A message is sent that tells of the field, or one that does not.         *)
LEMMA SentFacts ==
  ASSUME NEW q \in Seq(Message), NEW msg \in Message
  PROVE  /\ Len(q) \in Nat /\ Len(Append(q, msg)) = Len(q) + 1
         /\ Append(q, msg)[Len(q) + 1] = msg
         /\ \A i \in 1..Len(q) : Append(q, msg)[i] = q[i]
OBVIOUS

LEMMA SentTells ==
  ASSUME TypeInv, NEW f \in Field, NEW msg \in Message, queue' = Append(queue, msg),
         Tells(msg, f), msg.kind = "full" => msg.obj = Len(heap'),
         msg.kind # "full" => Merge(Nothing, msg.list)[f] = truth'[f]
  PROVE  Knows(f)'
<1>1. /\ Len(queue) \in Nat /\ Len(queue') = Len(queue) + 1
      /\ queue'[Len(queue) + 1] = msg
  BY SentFacts DEF TypeInv, QueueTypeOK, Possible
<1>2. Good(queue[Len(queue)], f)'
  BY <1>1 DEF Good, Current, Word
<1>3. LastTells(Len(queue), f)'
  BY <1>1 DEF LastTells
<1>4. Len(queue') \in 1..Len(queue')
  BY <1>1
<1>. QED  BY <1>2, <1>3, <1>4 DEF Knows

LEMMA SentSilent ==
  ASSUME TypeInv, NEW f \in Field, Knows(f), NEW msg \in Message, ~Tells(msg, f),
         queue' = Append(queue, msg), view' = view,
         truth'[f] = truth[f], Len(heap') = Len(heap),
         \A k \in 1..Len(heap) : k # Len(heap) => heap'[k] = heap[k]
  PROVE  Knows(f)'
<1>1. /\ Len(queue) \in Nat /\ Len(queue') = Len(queue) + 1
      /\ queue'[Len(queue) + 1] = msg
      /\ \A i \in 1..Len(queue) : queue'[i] = queue[i]
  BY SentFacts DEF TypeInv, QueueTypeOK, Possible
<1>2. CASE Untold(f) /\ view[f] = truth[f]
  <2>1. ASSUME NEW j \in 1..Len(queue') PROVE ~Tells(queue'[j], f)
    <3>1. j \in 1..Len(queue) \/ j = Len(queue) + 1
      BY <1>1
    <3>. QED  BY <1>1, <1>2, <3>1 DEF Untold
  <2>. QED  BY <1>2, <2>1 DEF Knows, Untold
<1>3. CASE \E i \in 1..Len(queue) : LastTells(i, f) /\ Good(queue[i], f)
  <2>1. PICK i \in 1..Len(queue) : LastTells(i, f) /\ Good(queue[i], f)
    BY <1>3
  <2>2. i \in 1..Len(queue') /\ queue'[i] = queue[i]
    BY <1>1
  <2>3. ASSUME NEW j \in 1..Len(queue'), j > i PROVE ~Tells(queue'[j], f)
    <3>1. j \in 1..Len(queue) \/ j = Len(queue) + 1
      BY <1>1
    <3>. QED  BY <1>1, <2>1, <2>3, <3>1 DEF LastTells
  <2>4. LastTells(i, f)'
    BY <2>1, <2>2, <2>3 DEF LastTells
  <2>5. queue[i].kind = "full" => queue[i].obj \in 1..Len(heap)
    BY DEF TypeInv, QueueTypeOK, Possible
  <2>6. Good(queue[i], f)'
    <3>1. CASE Current(queue[i])
      BY <2>2, <3>1 DEF Good, Current
    <3>2. CASE ~Current(queue[i])
      BY <2>1, <2>2, <2>5, <3>2 DEF Good, Current, Word
    <3>. QED  BY <3>1, <3>2
  <2>. QED  BY <2>2, <2>4, <2>6 DEF Knows
<1>. QED  BY <1>2, <1>3 DEF Knows

LEMMA ViewPartial ==
  ASSUME TypeInv, ViewInv, handlePartial
  PROVE  ViewInv'
<1>1. PICK ins \in Partials : truth' = ins /\ heap' = Append(heap, ins)
  BY DEF handlePartial
<1>2. UNCHANGED <<joined, view>>
  BY DEF handlePartial
<1>3. CASE queue' = queue /\ untold' = Field
  BY <1>2, <1>3 DEF ViewInv
<1>4. CASE heap = <<>> /\ PublishData(Pointer(1)) /\ untold' = IF joined # "no" THEN {} ELSE Field
  <2>1. CASE joined = "no"
    BY <1>2, <1>4, <2>1 DEF ViewInv, PublishData
  <2>2. CASE joined # "no"
    <3>1. queue' = Append(queue, Pointer(1)) /\ joined' # "no"
      BY <1>2, <1>4, <2>2 DEF PublishData
    <3>2. Len(heap') = 1
      BY <1>1, <1>4
    <3>3. Pointer(1) \in Message /\ Pointer(1).kind = "full" /\ Pointer(1).obj = 1
      BY DEF Pointer, Message
    <3>4. \A f \in Field : Knows(f)'
      BY <3>1, <3>2, <3>3, SentTells DEF Tells
    <3>5. heap' # <<>>
      BY <3>2
    <3>. QED  BY <3>1, <3>4, <3>5 DEF ViewInv
  <2>. QED  BY <2>1, <2>2
<1>. QED  BY <1>3, <1>4 DEF handlePartial

LEMMA ViewUpdate ==
  ASSUME TypeInv, CacheTracks, ViewInv, handleUpdate
  PROVE  ViewInv'
<1>. DEFINE before(l) == applyData(Cache, l)[Len(l) - 1]
            after(l) == applyData(Cache, l)[Len(l)]
<1>1. PICK list \in Messages :
         /\ truth' = Merge(truth, list)
         /\ heap' = [heap EXCEPT ![Len(heap)] = after(list).ins]
         /\ \/ /\ PublishData(Delta(list))
               /\ untold' = IF joined # "no" THEN untold \ AllGiven(list) ELSE Field
            \/ /\ ~Changed(before(list).ins, Last(list))
               /\ untold' = untold \cup Unsaid(list, before(list))
               /\ UNCHANGED queue
  BY DEF handleUpdate
<1>2. UNCHANGED <<joined, view>> /\ heap # <<>>
  BY DEF handleUpdate
<1>3. /\ list \in Seq(Item) /\ list # <<>>
      /\ before(list) \in CacheType /\ after(list) \in CacheType
      /\ Agrees(before(list), Upto(truth, list, Len(list) - 1))
  BY <1>2, CachesTypes, HandledTracks
<1>. HIDE DEF before, after
<1>4. truth \in Item /\ heap \in Seq(Item)
  BY DEF TypeInv, InstrumentTypeOK
<1>5. /\ Len(heap') = Len(heap)
      /\ \A k \in 1..Len(heap) : k # Len(heap) => heap'[k] = heap[k]
  <2>1. after(list).ins \in Item /\ Len(heap) \in 1..Len(heap)
    BY <1>2, <1>3, <1>4 DEF CacheType
  <2>. QED  BY <1>1, <1>4, <2>1, ExceptSeq
<1>9. heap' # <<>>
  BY <1>2, <1>4, <1>5
<1>6. CASE joined = "no" /\ PublishData(Delta(list)) /\ untold' = Field
  BY <1>2, <1>6 DEF PublishData, ViewInv
<1>7. CASE joined # "no" /\ PublishData(Delta(list)) /\ untold' = untold \ AllGiven(list)
  <2>1. queue' = Append(queue, Delta(list)) /\ joined' # "no"
    BY <1>2, <1>7 DEF PublishData
  <2>2. Delta(list) \in Message /\ Delta(list).kind = "delta" /\ Delta(list).list = list
    BY <1>3 DEF Delta, Message
  <2>3. ASSUME NEW f \in Field, f \in AllGiven(list) PROVE Knows(f)'
    <3>1. Merge(Nothing, list)[f] = truth'[f]
      BY <1>1, <1>3, <2>3, MergeGiven
    <3>. QED  BY <2>1, <2>2, <2>3, <3>1, SentTells DEF Tells
  <2>4. ASSUME NEW f \in Field \ untold, f \notin AllGiven(list) PROVE Knows(f)'
    <3>1. truth'[f] = truth[f]
      BY <1>1, <1>3, <1>4, <2>4, MergeUngiven
    <3>2. Knows(f) /\ ~Tells(Delta(list), f)
      BY <2>2, <2>4 DEF ViewInv, Tells
    <3>. QED  BY <1>2, <1>5, <2>1, <2>2, <3>1, <3>2, SentSilent
  <2>. QED  BY <1>7, <1>9, <2>1, <2>3, <2>4 DEF ViewInv
<1>8. CASE /\ ~Changed(before(list).ins, Last(list))
           /\ untold' = untold \cup Unsaid(list, before(list)) /\ UNCHANGED queue
  <2>1. ASSUME NEW f \in Field, f \notin untold' PROVE Knows(f)'
    <3>1. truth'[f] = truth[f]
      BY <1>1, <1>3, <1>4, <1>8, <2>1, UnpublishedSaysNothing
    <3>2. Knows(f)
      BY <1>8, <2>1 DEF ViewInv
    <3>. QED  BY <1>2, <1>5, <1>8, <3>1, <3>2, QuietKeeps
  <2>2. joined' = "no" => queue' = <<>> /\ untold' = Field
    BY <1>2, <1>8 DEF ViewInv, Unsaid, Given, AllGiven
  <2>. QED  BY <1>9, <2>1, <2>2 DEF ViewInv
<1>. QED  BY <1>1, <1>6, <1>7, <1>8

LEMMA ViewSnapshot ==
  ASSUME TypeInv, ViewInv, snapshot
  PROVE  ViewInv'
<1>1. /\ queue' = Append(queue, Pointer(Len(heap))) /\ joined' = "asked"
      /\ heap' = heap /\ heap # <<>>
  BY DEF snapshot, PublishData, cacheVars
<1>2. Len(heap) \in Nat
  BY DEF TypeInv, InstrumentTypeOK
<1>3. /\ Pointer(Len(heap)) \in Message /\ Pointer(Len(heap)).kind = "full"
      /\ Pointer(Len(heap)).obj = Len(heap')
  BY <1>1, <1>2 DEF Pointer, Message
<1>4. \A f \in Field : Knows(f)'
  BY <1>1, <1>3, SentTells DEF Tells
<1>. QED  BY <1>1, <1>4 DEF ViewInv

(* What is received is the head of the queue, and the rest moves up.        *)
LEMMA ReceivedFacts ==
  ASSUME NEW q \in Seq(Message), q # <<>>
  PROVE  /\ Len(q) \in Nat \ {0} /\ Len(Tail(q)) = Len(q) - 1 /\ Head(q) = q[1]
         /\ q[1] \in Message
         /\ \A i \in 1..(Len(q) - 1) : Tail(q)[i] = q[i + 1]
OBVIOUS

LEMMA ViewReceive ==
  ASSUME TypeInv, CacheTracks, ViewInv, Receive
  PROVE  ViewInv'
<1>. DEFINE msg == queue[1]
<1>1. /\ queue # <<>> /\ queue' = Tail(queue)
      /\ UNCHANGED <<truth, heap, joined, stale>>
  BY DEF Receive, cacheVars
<1>2. /\ Len(queue) \in Nat \ {0} /\ Len(queue') = Len(queue) - 1 /\ Head(queue) = msg
      /\ msg \in Message
      /\ \A i \in 1..(Len(queue) - 1) : queue'[i] = queue[i + 1]
  BY <1>1, ReceivedFacts DEF TypeInv, QueueTypeOK, Possible
<1>3. \/ /\ msg.kind = "full" /\ view' = heap[msg.obj]
         /\ untold' = IF msg.obj = Len(heap) THEN untold \cup stale ELSE untold
      \/ msg.kind = "delta" /\ view' = Merge(view, msg.list) /\ untold' = untold
  BY <1>2 DEF Receive
<1>4. joined # "no"
  BY <1>1 DEF ViewInv
<1>5. view \in Item /\ msg.list \in Seq(Item) /\ heap \in Seq(Item)
  BY <1>2 DEF TypeInv, InstrumentTypeOK, Message
<1>. HIDE DEF msg
<1>6. ASSUME NEW f \in Field, f \notin untold' PROVE Knows(f)'
  <2>1. Knows(f)
    BY <1>3, <1>6 DEF ViewInv
  <2>2. CASE Untold(f) /\ view[f] = truth[f]
    <3>1. ~Tells(msg, f)
      BY <1>2, <2>2 DEF Untold, msg
    <3>2. view'[f] = truth[f]
      BY <1>3, <1>5, <2>2, <3>1, MergeUngiven DEF Tells
    <3>3. ASSUME NEW j \in 1..Len(queue') PROVE ~Tells(queue'[j], f)
      <4>1. j \in 1..(Len(queue) - 1) /\ j + 1 \in 1..Len(queue)
        BY <1>2
      <4>. QED  BY <1>2, <2>2, <4>1 DEF Untold
    <3>. QED  BY <1>1, <3>2, <3>3 DEF Knows, Untold
  <2>3. CASE \E i \in 1..Len(queue) : LastTells(i, f) /\ Good(queue[i], f)
    <3>1. PICK i \in 1..Len(queue) : LastTells(i, f) /\ Good(queue[i], f)
      BY <2>3
    <3>2. ASSUME NEW j \in 1..Len(queue'), j + 1 > i PROVE ~Tells(queue'[j], f)
      <4>1. j \in 1..(Len(queue) - 1) /\ j + 1 \in 1..Len(queue)
        BY <1>2
      <4>. QED  BY <1>2, <3>1, <3>2, <4>1 DEF LastTells
    <3>3. CASE i = 1
      <4>1. Tells(msg, f) /\ Good(msg, f)
        BY <3>1, <3>3 DEF LastTells, msg
      <4>2. view'[f] = truth[f]
        <5>1. CASE msg.kind = "full" /\ msg.obj = Len(heap)
          <6>1. f \notin stale /\ view' = Last(heap)
            BY <1>3, <1>6, <5>1 DEF Last
          <6>2. heap # <<>>
            <7>1. msg.obj # 0
              BY <1>2, <5>1 DEF TypeInv, QueueTypeOK, Possible, msg
            <7>. QED  BY <5>1, <7>1
          <6>. QED  BY <6>1, <6>2 DEF CacheTracks
        <5>2. CASE msg.kind = "full" /\ msg.obj # Len(heap)
          BY <1>3, <4>1, <5>2 DEF Good, Current, Word
        <5>3. CASE msg.kind = "delta"
          <6>1. f \in AllGiven(msg.list)
            BY <4>1, <5>3 DEF Tells
          <6>2. Merge(view, msg.list)[f] = Merge(Nothing, msg.list)[f]
            BY <1>5, <6>1, MergeGiven
          <6>. QED  BY <1>3, <4>1, <5>3, <6>2 DEF Good, Current, Word
        <5>. QED  BY <1>3, <5>1, <5>2, <5>3
      <4>3. \A j \in 1..Len(queue') : j + 1 > i
        BY <3>3
      <4>. QED  BY <1>1, <3>2, <4>2, <4>3 DEF Knows, Untold
    <3>4. CASE i # 1
      <4>1. i - 1 \in 1..(Len(queue) - 1) /\ (i - 1) + 1 = i
        BY <1>2, <3>4
      <4>2. i - 1 \in 1..Len(queue') /\ queue'[i - 1] = queue[i]
        BY <1>2, <4>1
      <4>3. Good(queue[i - 1], f)'
        BY <1>1, <3>1, <4>2 DEF Good, Current, Word
      <4>4. \A j \in 1..Len(queue') : j > i - 1 => j + 1 > i
        BY <4>1
      <4>5. LastTells(i - 1, f)'
        BY <3>1, <3>2, <4>2, <4>4 DEF LastTells
      <4>. QED  BY <4>2, <4>3, <4>5 DEF Knows
    <3>. QED  BY <3>3, <3>4
  <2>. QED  BY <2>1, <2>2, <2>3 DEF Knows
<1>7. heap' = <<>> => untold' = Field
  <2>. SUFFICES ASSUME heap = <<>> PROVE untold' = Field
    BY <1>1
  <2>1. untold = Field /\ stale \subseteq Field
    BY DEF ViewInv, TypeInv, InstrumentTypeOK
  <2>. QED  BY <1>3, <2>1
<1>. QED  BY <1>1, <1>4, <1>6, <1>7 DEF ViewInv

LEMMA ViewStep ==
  ASSUME TypeInv, CacheTracks, ViewInv, [Next]_vars
  PROVE  ViewInv'
<1>1. CASE Join
  <2>1. queue = <<>> /\ queue' = queue /\ untold = Field /\ untold' = untold
        /\ joined' = "added"
    BY <1>1 DEF Join, ViewInv
  <2>. QED  BY <2>1 DEF ViewInv
<1>2. CASE UNCHANGED vars
  BY <1>2 DEF vars, cacheVars, ViewInv, Knows, Untold, LastTells, Good, Current, Word
<1>3. CASE PartialMissing
  <2>1. heap' = <<>> /\ UNCHANGED <<joined, queue, untold>> /\ untold = Field
    BY <1>3 DEF PartialMissing, cacheVars, ViewInv
  <2>. QED  BY <2>1 DEF ViewInv
<1>. QED  BY <1>1, <1>2, <1>3, ViewPartial, ViewUpdate, ViewSnapshot, ViewReceive DEF Next

(* A subscriber who has received what was published to it (PublishData with *)
(* the filter of handleUpdate, TakeSnapshot at any time, pointers followed  *)
(* as late as it likes) has the upstream's instrument in every field that   *)
(* is not said to be untold, for lists of any length.                       *)
THEOREM ViewFollows == Spec => []ViewTracks
<1>1. TypeInv /\ CacheTracks /\ ViewInv /\ [Next]_vars => ViewInv'
  BY ViewStep
<1>2. Spec => []ViewInv
  BY <1>1, ViewInit, TypeInvariance, Tracks, PTL DEF Spec
<1>3. ViewInv => ViewTracks
  <2>. SUFFICES ASSUME ViewInv, queue = <<>>, NEW f \in Field \ untold
                PROVE  view[f] = truth[f]
    BY DEF ViewTracks
  <2>1. Knows(f)
    BY DEF ViewInv
  <2>. QED  BY <2>1 DEF Knows
<1>. QED  BY <1>2, <1>3, PTL
=============================================================================

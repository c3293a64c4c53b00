------------------------- MODULE MCInstrumentCache -------------------------
(* An upstream for InstrumentCache: whole groups and parts of them, and a   *)
(* list that ends with an item of another symbol.                           *)
EXTENDS InstrumentCache, TLC

Only(pairs) == pairs @@ Nothing

Marks(v) == Only("ind" :> v @@ "mark" :> v @@ "fair" :> v)
Quote(b, a) == Only("bid" :> b @@ "ask" :> a)
Trade(v) == Only("last" :> v @@ "volume" :> v)

MCItems ==
    {Marks(1), Marks(2), Only("mark" :> 2), Only("ind" :> 1 @@ "mark" :> 1),
     Only("ind" :> 1 @@ "mark" :> 1 @@ "fair" :> 2),
     Quote(1, 1), Quote(1, 2), Quote(2, 2), Only("bid" :> 2), Only("ask" :> 1),
     Trade(2), Only("last" :> 1), Only("volume" :> 1),
     Only("funding" :> 2), Only("funding" :> -1)}

MCMessages ==
    {<<item>> : item \in MCItems}
      \cup {<<Quote(1, 2), Marks(1)>>, <<Only("ask" :> 2), Trade(1)>>,
           <<Trade(2), Nothing>>}

MCPartials == {[f \in Field |-> 1]}
=============================================================================

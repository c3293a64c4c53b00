--------------------------- MODULE MCServerStream ---------------------------
(* An instance of ServerStream: two sessions with one subscription each.    *)
EXTENDS ServerStream

CONSTANTS r1, r2, s1, s2

OneEach == (r1 :> s1) @@ (r2 :> s2)
=============================================================================

---------------------------- MODULE MCRomQueries ----------------------------
(***************************************************************************)
(* RomQueries on tables of one, two and four lengths, convex, concave,     *)
(* flat and falling.                                                       *)
(***************************************************************************)
EXTENDS RomQueries, TLC

Tables == {4 :> 6,
           2 :> 1 @@ 6 :> 9,
           2 :> 5 @@ 6 :> 5,
           2 :> 9 @@ 5 :> 4 @@ 7 :> 8,
           1 :> 2 @@ 3 :> 3 @@ 6 :> 6 @@ 8 :> 20,
           1 :> 3 @@ 3 :> 9 @@ 6 :> 12 @@ 8 :> 13}

MCConfigs == [policy : {"rom"}, perToken : {1, 3}, table : Tables]
               \cup [policy : Policies, perToken : {2}, table : {2 :> 1 @@ 6 :> 9}]
MCLengths    == 0 .. 9
MCBandwidths == -1 .. 4
=============================================================================

---------------------------- MODULE MCRouteGraph ----------------------------
EXTENDS RouteGraph

(* Profile 1 shares a provider and a route; profile 2's route 8 nests that    *)
(* route twice, once directly and once through route 9: a diamond.            *)
MCStart ==
  [profiles |-> 1 :> [name |-> "ann", default |-> None] @@ 2 :> [name |-> "bob", default |-> None],
   masks |-> <<>>,
   providers |-> 3 :> [profile |-> 1, name |-> "ann", mask |-> None, shared |-> TRUE]
              @@ 4 :> [profile |-> 2, name |-> "bob", mask |-> None, shared |-> FALSE],
   proxies |-> 5 :> [profile |-> 1, name |-> "ann"] @@ 6 :> [profile |-> 2, name |-> "bob"],
   routes |-> 7 :> [proxy |-> 5, name |-> "ann", shared |-> TRUE]
           @@ 8 :> [proxy |-> 6, name |-> "ann", shared |-> FALSE]
           @@ 9 :> [proxy |-> 6, name |-> "bob", shared |-> FALSE],
   entries |-> 11 :> [route |-> 7, provider |-> 3, target |-> None, priority |-> 1]
            @@ 12 :> [route |-> 8, provider |-> None, target |-> 7, priority |-> 1]
            @@ 13 :> [route |-> 8, provider |-> 4, target |-> None, priority |-> 2]
            @@ 14 :> [route |-> 8, provider |-> None, target |-> 9, priority |-> 3]
            @@ 15 :> [route |-> 9, provider |-> None, target |-> 7, priority |-> 1]
            @@ 16 :> [route |-> 9, provider |-> 3, target |-> None, priority |-> 2],
   usage |-> {},
   next |-> 17]

MCStrategy == 7 :> "weighted" @@ 8 :> "round_robin" @@ 9 :> "round_robin"

MCPrice == 11 :> 2 @@ 13 :> 1

MCConditions == {<<>>, 13 :> 1 @@ 16 :> 2, 11 :> 2 @@ 13 :> 1 @@ 16 :> 1}
=============================================================================

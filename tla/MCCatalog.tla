----------------------------- MODULE MCCatalog -----------------------------
EXTENDS Catalog

(* Profile 1 shares a mask, its default, a provider and a route, which its    *)
(* second route nests, and its provider leaves by another mask; profile 2     *)
(* leaves by the shared mask and chains three entries, of which one is        *)
(* profile 1's provider and one its shared route.                             *)
MCStart ==
  [profiles |-> 1 :> [name |-> "ann", default |-> 3] @@ 2 :> [name |-> "bob", default |-> 4],
   masks |-> 3 :> [profile |-> 1, name |-> "ann", shared |-> TRUE]
          @@ 18 :> [profile |-> 1, name |-> "bob", shared |-> FALSE]
          @@ 4 :> [profile |-> 2, name |-> "bob", shared |-> FALSE],
   providers |-> 5 :> [profile |-> 1, name |-> "ann", mask |-> 18, shared |-> TRUE]
              @@ 6 :> [profile |-> 2, name |-> "bob", mask |-> 3, shared |-> FALSE],
   proxies |-> 7 :> [profile |-> 1, name |-> "ann"] @@ 8 :> [profile |-> 2, name |-> "bob"],
   routes |-> 9 :> [proxy |-> 7, name |-> "ann", shared |-> TRUE]
           @@ 10 :> [proxy |-> 8, name |-> "bob", shared |-> FALSE]
           @@ 15 :> [proxy |-> 7, name |-> "bob", shared |-> FALSE],
   entries |-> 11 :> [route |-> 9, provider |-> 5, target |-> None, priority |-> 1]
            @@ 12 :> [route |-> 10, provider |-> 6, target |-> None, priority |-> 1]
            @@ 13 :> [route |-> 10, provider |-> 5, target |-> None, priority |-> 2]
            @@ 14 :> [route |-> 10, provider |-> None, target |-> 9, priority |-> 3]
            @@ 16 :> [route |-> 15, provider |-> None, target |-> 9, priority |-> 1]
            @@ 17 :> [route |-> 15, provider |-> 5, target |-> None, priority |-> 2],
   usage |-> {[profile |-> 2, entry |-> 13]},
   next |-> 19]

Good == <<Item("provider", "ann", <<NoName>>, FALSE, 0), Item("proxy", "ann", <<>>, FALSE, 0),
          Item("route", "ann", <<>>, FALSE, 0),
          Item("ref", NoName, <<"ann", "bob">>, FALSE, 0),
          Item("entry", NoName, <<"ann">>, FALSE, 1),
          Item("ref", NoName, <<"ann", "ann", "ann">>, FALSE, 2),
          Item("route", "bob", <<>>, FALSE, 0)>>

(* A provider no item declares, and a route nobody has.                       *)
BadProvider == SubSeq(Good, 1, 3) \o <<Item("entry", NoName, <<"bob">>, FALSE, 0)>>
BadRoute == SubSeq(Good, 1, 4)

MCSetups == {Good, BadProvider, BadRoute}
=============================================================================

---------------------------- MODULE MCMigration ----------------------------
EXTENDS Migration, TLC

MCTables == <<"usage_log", Entries>>

MCDeclared ==
  "usage_log" :> {"cached_prompt_tokens"} @@
  Entries :> {"target_route_id", "price_per_1m", "cooldown_until"}

(* The first is in no CREATE TABLE, like providers.masking_server_id.         *)
MCColumns == <<<<"usage_log", "mask">>, <<Entries, "price_per_1m">>, <<Entries, "cooldown_until">>>>

Row(status) == [nested |-> FALSE, status |-> status]

(* No file; a store of the first version with a status that is gone; one one  *)
(* of the last version before nested routes.                                  *)
MCFiles ==
  {[tables |-> {}, columns |-> {}, entries |-> <<>>, usage |-> {}, key |-> None],
   [tables |-> {"usage_log", Entries}, columns |-> {},
    entries |-> 1 :> Row("draining"), usage |-> {1}, key |-> "p1"],
   [tables |-> {"usage_log", Entries}, columns |-> Range(MCColumns),
    entries |-> 1 :> Row("healthy"), usage |-> {1}, key |-> "p1"]}
=============================================================================

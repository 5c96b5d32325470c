--------------------------- MODULE MCModelDownload ---------------------------
(* Constants of the download model for TLC: an MLX repository of three files,  *)
(* one of them of two blocks.                                                  *)
EXTENDS ModelDownload, TLC
CONSTANTS p1, p2, config, shard1, shard2
MlxFiles == <<config, shard1, shard2>>
MlxLength == config :> 1 @@ shard1 :> 2 @@ shard2 :> 1
(* config.json and a tokenizer or any one of the weights. *)
MlxLayouts == {{config, shard1}, {config, shard2}}
AnyPull == Permutations(Pulls)
==============================================================================

--------------------------- MODULE MCModelCatalogue ---------------------------
(* Constants of the catalogue for TLC: a repository of two GGUF files or an MLX *)
(* layout, and a tag that may change its file.                                  *)
EXTENDS ModelCatalogue
CONSTANTS h, o, q4, q8
ScoreOf == [f \in Ggufs |-> IF f = q4 THEN 80 ELSE 10]
TheAlias == [name |-> "alias", mlx |-> h, gguf |-> h, file |-> q4]
TheLayouts == {{q4, q8}, {q4}, MlxFiles}
WasLeft == {{q8}}
==============================================================================

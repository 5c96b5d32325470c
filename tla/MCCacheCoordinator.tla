------------------------- MODULE MCCacheCoordinator -------------------------
(* Constants and symmetry of the CacheCoordinator runs. *)
EXTENDS CacheCoordinator, TLC

AllFacts == {"MATERIALIZED", "WRITABLE", "PARTIAL_SUFFIX_TRIM", "COPY"}

(* The llama backend: full attention may trim and branch, a hybrid may not. *)
LlamaFull == {"PARTIAL_SUFFIX_TRIM", "PARTIAL_PREFIX_BRANCH",
              "WHOLE_STATE_COPY", "SAFE_BUSY_DONOR"}
LlamaHybrid == {"WHOLE_STATE_COPY", "SAFE_BUSY_DONOR"}

FullProfiles == {LlamaFull}
HybridProfiles == {LlamaHybrid}
FactsAll == {AllFacts}
ShortPrompts == {<<1>>, <<1, 2>>}
SiblingPrompts == {<<1, 2>>, <<1, 3>>}
OneSuffix == {<<2>>}
OneSession == {0}
EvenCheckpoints == {2}
Symmetry == Permutations(PlanIds) \cup Permutations(Namespaces)
=============================================================================

--------------------------- MODULE MCConfigReload ---------------------------
EXTENDS ConfigReload, TLC

MCSymmetry == Permutations(Provider) \cup Permutations(Llm) \cup Permutations(Request)
=============================================================================

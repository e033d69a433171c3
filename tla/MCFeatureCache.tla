--------------------------- MODULE MCFeatureCache ---------------------------
(***************************************************************************)
(* Small instances of FeatureCache.                                        *)
(***************************************************************************)
EXTENDS FeatureCache, TLC

MCSymmetry == Permutations(Thread) \cup Permutations(Feature)
=============================================================================

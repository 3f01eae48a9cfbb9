----------------------------- MODULE MCClipStore -----------------------------
(* Instances of ClipStore for TLC: two jobs in flight, an overwriting       *)
(* provider (S3) and one that hands out ids (Google Drive), two local paths *)
(* (before and after a camera rename).                                      *)
EXTENDS ClipStore, TLC

CONSTANTS S3, Drive

MCBackends == {S3, Drive}
MCOverwriting == {S3}

\* Slots, paths and Drive's ids are interchangeable.
Symmetry == Permutations(Jobs) \cup Permutations(Paths) \cup Permutations(FreshKeys)
=============================================================================

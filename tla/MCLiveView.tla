---- MODULE MCLiveView ----
EXTENDS LiveView, TLC
Symmetry == Permutations(Viewers) \cup Permutations(Cameras)
====

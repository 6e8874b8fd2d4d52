------------------------ MODULE MCClusterLifecycle ------------------------
(* Instances of ClusterLifecycle for TLC, with what setup makes of its options. *)
EXTENDS ClusterLifecycle, TLC
CONSTANTS r1, r2
TwoReleases == {r1, r2}
OneAtATime == {}
TeardownsOverlap == {"teardown"}

\* No definition tells one run, or one release, from another.
LifecycleSymmetry == Permutations(Procs) \cup Permutations(TwoReleases)
===========================================================================

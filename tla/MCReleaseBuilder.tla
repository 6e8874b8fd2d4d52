------------------------- MODULE MCReleaseBuilder -------------------------
(***************************************************************************)
(* Bounded instance of ReleaseBuilder.  The registry holds a release with a *)
(* CoreOS tag of each kind, one that is a dualstream release already and    *)
(* has them in another order, and one that cannot be extended.              *)
(***************************************************************************)
EXTENDS ReleaseBuilder, TLC

Tag(name, class) == [name |-> name, stream |-> class]
Of(p, tags) == [files |-> [origin |-> p, tags |-> tags, refs |-> 0, meta |-> 0], cvo |-> p]

SomeReleases ==
    "plain" :> Of("plain", <<Tag("other", "nil"), Tag("os", "unset"), Tag("ext", "unset"),
                             Tag("cvo", "unset")>>)
    @@ "dual" :> Of("dual", <<Tag("cvo", "unset"), Tag("ext", "unset"), Tag("os", "rhel-9"),
                              Tag("ext10", "unset"), Tag("os10", "")>>)
    @@ "bare" :> Of("bare", <<Tag("cvo", "nil")>>)
    @@ "final" :> NoRelease

\* From a release to a new pullspec or over itself, and from what another run made.
SomeRequests ==
    {[base |-> b, final |-> "final"] : b \in {"plain", "dual", "bare", "final"}}
    \cup {[base |-> b, final |-> b] : b \in {"plain", "dual"}}
    \cup {[base |-> "final", final |-> "plain"]}

RunSymmetry == Permutations(Runs)
===========================================================================

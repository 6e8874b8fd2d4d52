--------------------------- MODULE MCSetupOptions ---------------------------
(* One behaviour for each combination of options. *)
EXTENDS SetupOptions

VARIABLE opts

SetupSpec == opts \in Options /\ [][UNCHANGED opts]_opts

VariantReachesConfig == VariantIsInstalled(opts)

\* "... the program will always bring up that release": what getRelease returns is the
\* release that the .release file names.
ReleaseFileWins == ReleaseFileIsInstalled(opts)
===========================================================================

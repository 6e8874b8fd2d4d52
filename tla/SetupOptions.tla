---------------------------- MODULE SetupOptions ----------------------------
(***************************************************************************)
(* What cluster-lifecycle setup makes of its options: opts.go and getRelease *)
(* of cmd/cluster-lifecycle, the tables of internal/pkg/installconfig and of *)
(* internal/pkg/releasecontroller.  The options name a release in one of     *)
(* three ways, and the install config must suit the release they lead to.    *)
(***************************************************************************)

Kinds == {"ocp", "okd", "okd-scos"}
Arches == {"amd64", "aarch64", "arm64", "multi", "ppc64le", "s390x"}
Streams == {"ocp", "okd", "scos"}       \* what a stream's name contains
NoPayload == [kind |-> "", arch |-> ""]

\* The releases there are (external): a release controller serves those of its host.
Payloads == [kind : {"ocp"}, arch : Arches \ {"aarch64"}]
                \cup [kind : {"okd", "okd-scos"}, arch : {"amd64"}]

\* inputOpts, with what the .release file holds.
Options == [pullspec : Payloads \cup {NoPayload}, file : Payloads \cup {NoPayload},
            kind : Kinds \cup {""}, arch : Arches \cup {""}, stream : Streams,
            variant : {"", "single-node", "compact"}]

---------------------------------------------------------------------------
\* A stream must fit the kind, unless the pullspec is given and the kind inferred.
validateForSetup(o) ==
    o.pullspec = NoPayload =>
        /\ o.kind = "okd-scos" => o.stream = "scos"
        /\ o.kind = "okd" => o.stream # "scos"

\* The name of an okd-scos release contains "okd" too, so it is looked for first.
NameContains(payload, text) ==
    text = payload.kind \/ (text = "okd" /\ payload.kind = "okd-scos")
inferKindOKDFirst(payload) ==
    IF NameContains(payload, "okd") THEN "okd"
    ELSE IF NameContains(payload, "okd-scos") THEN "okd-scos" ELSE "ocp"
inferKind(payload) ==
    IF NameContains(payload, "okd-scos") THEN "okd-scos"
    ELSE IF NameContains(payload, "okd") THEN "okd" ELSE "ocp"

\* The image config of a multi-architecture release is that of its amd64 image (external).
ConfigArchitecture(payload) == IF payload.arch = "multi" THEN "amd64" ELSE payload.arch

inferArchAndKindFromPullspec(o, payload) ==
    [o EXCEPT !.arch = ConfigArchitecture(payload), !.kind = inferKind(payload)]

\* The release controllers, by kind and arch; okd and okd-scos share one.
HasController(kind, arch) ==
    \/ kind = "ocp" /\ arch \in Arches \ {"aarch64"}
    \/ kind \in {"okd", "okd-scos"} /\ arch = "amd64"

\* The latest release of a stream, if the controller has such a stream (external).
Latest(kind, arch, stream) ==
    IF kind = "ocp" THEN IF stream = "ocp" THEN [kind |-> "ocp", arch |-> arch] ELSE NoPayload
    ELSE IF stream = "okd" THEN [kind |-> "okd", arch |-> arch]
    ELSE IF stream = "scos" THEN [kind |-> "okd-scos", arch |-> arch] ELSE NoPayload

getReleaseFromController(o) ==
    IF HasController(o.kind, o.arch) THEN Latest(o.kind, o.arch, o.stream) ELSE NoPayload

\* The pullspec, else the .release file, else the controller; NoPayload is an error.
Named(o) == IF o.pullspec # NoPayload THEN o.pullspec ELSE o.file
getRelease(o) == IF Named(o) # NoPayload THEN Named(o) ELSE getReleaseFromController(o)

\* The options the rest of the setup works with.
Effective(o) ==
    IF Named(o) # NoPayload THEN inferArchAndKindFromPullspec(o, Named(o)) ELSE o

---------------------------------------------------------------------------
\* The variant is not passed on.
toInstallConfigOpts(o) == [kind |-> o.kind, arch |-> o.arch, variant |-> ""]

InstallConfigs == [kind : Kinds \cup {""}, arch : Arches \cup {""},
                   variant : {"", "single-node", "compact"}]

IsValidKindAndArch(kind, arch) ==
    \/ kind = "ocp" /\ arch \in {"amd64", "aarch64", "arm64", "multi"}
    \/ kind \in {"okd", "okd-scos"} /\ arch = "amd64"

validateVariant(c) == c.variant = "single-node" /\ c.arch \in {"amd64", "arm64", "aarch64"}

validate(c) == IsValidKindAndArch(c.kind, c.arch) /\ (c.variant # "" => validateVariant(c))

\* The file embedded for a variant and an arch, by the machines it asks for; a Go map
\* answers nil for an arch it does not have.
getSingleNodeConfig(arch) ==
    CASE arch = "amd64" -> "amd64" [] arch \in {"arm64", "aarch64"} -> "arm64" [] OTHER -> "nil"
getBaseConfig(arch) ==
    CASE arch \in {"amd64", "multi"} -> "amd64" [] arch \in {"arm64", "aarch64"} -> "arm64"
      [] OTHER -> "nil"
renderConfig(c) ==
    IF c.variant = "single-node" THEN getSingleNodeConfig(c.arch) ELSE getBaseConfig(c.arch)

\* Does a setup that is not in vacation get as far as writing install-config.yaml?
installConfigOf(o) == toInstallConfigOpts(Effective(o))
Accepted(o) ==
    validateForSetup(o) /\ getRelease(o) # NoPayload /\ validate(installConfigOf(o))

\* The machines a release can be installed on.
Machines(payload) == IF payload.arch = "multi" THEN {"amd64", "arm64"} ELSE {payload.arch}

---------------------------------------------------------------------------
\* The install config that is written is for machines the release runs on, and the cluster
\* is named for the release's kind.
Fits(o) ==
    Accepted(o) => /\ renderConfig(installConfigOf(o)) \in Machines(getRelease(o))
                   /\ installConfigOf(o).kind = getRelease(o).kind

\* ... with a .release file in the work directory, and without one.
FitsWithFile == \A o \in Options : o.file # NoPayload => Fits(o)
FitsWithoutFile == \A o \in Options : o.file = NoPayload => Fits(o)

\* Every combination of kind, arch and variant that is accepted has an embedded file:
\* validate and the two tables of files are three lists kept in step by hand.
AcceptedConfigHasFile ==
    \A c \in InstallConfigs : validate(c) => renderConfig(c) # "nil"

\* "A cluster variant to bring up": the config that is written is of the variant asked for
\* (--variant never reaches it).
VariantIsInstalled(o) == Accepted(o) => installConfigOf(o).variant = o.variant

\* "By adding a `.release` file to the working directory containing a release pullspec, the
\* program will always bring up that release" (getRelease looks at --release-pullspec first).
ReleaseFileIsInstalled(o) == (Accepted(o) /\ o.file # NoPayload) => getRelease(o) = o.file
===========================================================================

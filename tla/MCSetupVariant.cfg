\* Every combination of options.
SPECIFICATION SetupSpec
INVARIANT VariantReachesConfig

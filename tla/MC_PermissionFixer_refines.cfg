CONSTANTS
    out = out
    evidence = evidence
    manifest = manifest
    summary = summary
    log = log
    unset = unset
    none = none
    raises = raises
    Unset <- unset
    None <- none
    Raises <- raises
    EnvValues <- MC_EnvValues
    Entries <- MC_Entries
    Dirs <- MC_Dirs
    Root = out
    Parent <- MC_Parent
    Impls = {"adapter"}
    ChownMayFail = FALSE

SPECIFICATION Spec

PROPERTY
    NormalizerRefined

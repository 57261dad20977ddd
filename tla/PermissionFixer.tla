---------------------------- MODULE PermissionFixer ----------------------------
(***************************************************************************)
(* The two implementations of permission normalization, entry by entry:   *)
(*   "adapter": fix_permissions(directory) in adapter.py, which reads      *)
(*              HOST_UID/HOST_GID and parses them inside its try;          *)
(*   "helper":  PermissionFixer.fix_permissions(directory, uid, gid) in    *)
(*              fs_helpers.py, which takes the ids as arguments or parses  *)
(*              the environment before its try.                            *)
(* Both chown the directory and then every entry of a top-down os.walk,   *)
(* dirs before files of each directory, inside one try: the first chown   *)
(* that raises ends the walk.                                              *)
(***************************************************************************)
EXTENDS HolonConfig

CONSTANTS
    Entries,       \* the directory and everything under it
    Dirs,          \* the entries that are directories
    Root,          \* the directory passed in
    Parent,        \* parent directory of every entry but Root
    Impls,         \* the implementations to explore, a subset of {"adapter", "helper"}
    EnvValues,     \* what HOST_UID and HOST_GID may hold: Unset or strings
    ChownMayFail   \* os.chown can raise on an entry

ASSUME /\ Root \in Dirs /\ Dirs \subseteq Entries
       /\ Parent \in [Entries \ {Root} -> Dirs]
       /\ Impls \subseteq {"adapter", "helper"}

Children(d) == {e \in Entries \ {Root} : Parent[e] = d}

VARIABLES
    impl,     \* which implementation runs
    uidEnv,   \* HOST_UID
    gidEnv,   \* HOST_GID
    args,     \* helper only: uid and gid left None ("none") or passed in from
              \* HolonConfig.get_env_host_uid/gid ("config")
    listing,  \* the order os.scandir lists each directory in
    failing,  \* entries whose os.chown raises
    status,   \* "parse", "walk", "done" (returned) or "raised"
    pos,      \* index of the next entry of the walk
    owned,    \* entries chowned to the host ids
    warned    \* the "Warning: Failed to fix permissions" line was printed

vars == <<impl, uidEnv, gidEnv, args, listing, failing, status, pos, owned,
          warned>>

-----------------------------------------------------------------------------
(* The walk order                                                          *)

\* Fault variant: the `for d in dirs` loop is left out; only files are chowned.
RECURSIVE VisitFiles(_), VisitAllFiles(_)
VisitFiles(d) ==
    LET subdirs == SelectSeq(listing[d], LAMBDA e : e \in Dirs)
    IN  SelectSeq(listing[d], LAMBDA e : e \notin Dirs) \o VisitAllFiles(subdirs)
VisitAllFiles(ds) ==
    IF ds = <<>> THEN <<>> ELSE VisitFiles(Head(ds)) \o VisitAllFiles(Tail(ds))

WalkOrderFilesOnly == <<Root>> \o VisitFiles(Root)

\* os.walk top-down yields (root, dirs, files) for a directory before it
\* descends into each of its dirs in listing order; the loop body chowns
\* the dirs, then the files.
RECURSIVE Visit(_), VisitAll(_)
Visit(d) ==
    LET subdirs == SelectSeq(listing[d], LAMBDA e : e \in Dirs)
        leaves == SelectSeq(listing[d], LAMBDA e : e \notin Dirs)
    IN  subdirs \o leaves \o VisitAll(subdirs)
VisitAll(ds) == IF ds = <<>> THEN <<>> ELSE Visit(Head(ds)) \o VisitAll(Tail(ds))

\* os.chown(directory) first, then the walk
WalkOrder == <<Root>> \o Visit(Root)

-----------------------------------------------------------------------------
Init ==
    /\ impl \in Impls
    /\ uidEnv \in EnvValues
    /\ gidEnv \in EnvValues
    /\ args \in IF impl = "helper" THEN {"none", "config"} ELSE {"none"}
    /\ listing \in [Dirs -> UNION {SetToSeqs(Children(d)) : d \in Dirs}]
    /\ \A d \in Dirs : listing[d] \in SetToSeqs(Children(d))
    /\ failing \in IF ChownMayFail THEN SUBSET Entries ELSE {{}}
    /\ status = "parse"
    /\ pos = 1
    /\ owned = {}
    /\ warned = FALSE

\* `if uid_str` is false for None and ""
Blank(v) == v = Unset \/ v = <<>>

\* `int(uid_str) if uid_str else None`
IdFromEnv(v) ==
    CASE Blank(v)     -> None
      [] PyInt(v).ok  -> PyInt(v).val
      [] OTHER        -> Raises

\* The helper's argument: None, or what HolonConfig resolved from the variable
Arg(v) == IF args = "config" THEN GetEnvHostId(v) ELSE None

\* The uid and gid the implementation ends up with (an int, None or Raises)
Ids ==
    IF impl = "adapter"
    THEN <<IdFromEnv(uidEnv), IdFromEnv(gidEnv)>>
    ELSE <<IF Arg(uidEnv) # None THEN Arg(uidEnv) ELSE IdFromEnv(uidEnv),
           IF Arg(gidEnv) # None THEN Arg(gidEnv) ELSE IdFromEnv(gidEnv)>>

\* adapter.py: return unless both strings are non-empty; int() of either
\* raising inside the try prints the warning and returns.
ParseIdsAdapter ==
    /\ impl = "adapter" /\ status = "parse"
    /\ CASE Blank(uidEnv) \/ Blank(gidEnv) ->
              status' = "done" /\ UNCHANGED warned
         [] Raises \in {Ids[1], Ids[2]} ->
              status' = "done" /\ warned' = TRUE
         [] OTHER -> status' = "walk" /\ UNCHANGED warned
    /\ UNCHANGED <<impl, uidEnv, gidEnv, args, listing, failing, pos, owned>>

\* fs_helpers.py: an id left None is parsed from the environment before
\* the try, uid then gid; a malformed one raises ValueError to the caller.
\* A None id makes the call return.
ParseIdsHelper ==
    /\ impl = "helper" /\ status = "parse"
    /\ CASE Raises \in {Ids[1], Ids[2]} -> status' = "raised"
         [] None \in {Ids[1], Ids[2]}   -> status' = "done"
         [] OTHER                       -> status' = "walk"
    /\ UNCHANGED <<impl, uidEnv, gidEnv, args, listing, failing, pos, owned,
                   warned>>

\* os.chown accepts ids of uid_t/gid_t and -1 ("leave unchanged"); any
\* other int raises OverflowError. The upper end, 2^32 - 1, is beyond
\* TLC's integers and beyond every value of the short strings checked.
OutOfRange(n) == n < -1

\* os.chown of the next entry; an exception leaves the loops for the
\* except clause, which prints a warning and returns.
Chown ==
    /\ status = "walk"
    /\ pos <= Len(WalkOrder)
    /\ IF WalkOrder[pos] \in failing \/ OutOfRange(Ids[1]) \/ OutOfRange(Ids[2])
       THEN status' = "done" /\ warned' = TRUE /\ UNCHANGED <<pos, owned>>
       ELSE /\ owned' = owned \cup {WalkOrder[pos]}
            /\ pos' = pos + 1
            /\ UNCHANGED <<status, warned>>
    /\ UNCHANGED <<impl, uidEnv, gidEnv, args, listing, failing>>

\* os.walk is exhausted: the call returns.
WalkEnds ==
    /\ status = "walk"
    /\ pos > Len(WalkOrder)
    /\ status' = "done"
    /\ UNCHANGED <<impl, uidEnv, gidEnv, args, listing, failing, pos, owned,
                   warned>>

\* The call has returned or raised.
Returned ==
    /\ status \in {"done", "raised"}
    /\ UNCHANGED vars

Next == ParseIdsAdapter \/ ParseIdsHelper \/ Chown \/ WalkEnds \/ Returned

\* fix_permissions is one flow of control that waits for nothing: each of
\* its steps, once enabled, is taken.
Spec == Init /\ [][Next]_vars
        /\ WF_vars(ParseIdsAdapter \/ ParseIdsHelper \/ Chown \/ WalkEnds)

-----------------------------------------------------------------------------
(* Properties                                                              *)

\* The ids the call ends up with are both integers.
IdsUsable == None \notin {Ids[1], Ids[2]} /\ Raises \notin {Ids[1], Ids[2]}

\* os.chown raises on every entry for an id out of range
ChownRejectsIds == IdsUsable /\ (OutOfRange(Ids[1]) \/ OutOfRange(Ids[2]))

Normalizer == INSTANCE PermissionNormalizer
    WITH owned <- owned,
         outcome <- CASE status = "done" -> "returned"
                      [] status = "raised" -> "raised"
                      [] OTHER -> "running",
         idsValid <- IdsUsable,
         failing <- IF ChownRejectsIds THEN Entries ELSE failing

\* The walk implements spec §4.5: every entry whose own chown does not fail
\* is re-owned before the call returns, an unusable id makes it a no-op,
\* and it never raises.
NormalizerRefined == Normalizer!Spec

\* Spec §4.1: HolonConfig._int_env, which resolves the ids handed to the
\* helper and the four durations, never raises; each accessor falls back
\* to its default for an unset, empty or malformed value and otherwise
\* returns what int() denotes. Checked against the reference conversion
\* for every string of CheckStrings and for this state's HOST_UID and
\* HOST_GID.
ConfigIntsAsSpecified == CheckedStringsAgree /\ IntEnvAgreesOn({uidEnv, gidEnv})

=============================================================================

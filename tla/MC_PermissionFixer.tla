------------------------- MODULE MC_PermissionFixer -------------------------
(* /holon/output as fix_permissions meets it: the directory, its evidence *)
(* subdirectory, manifest.json and summary.md beside it, and              *)
(* evidence/execution.log below it.                                        *)
EXTENDS PermissionFixer

CONSTANTS out, evidence, manifest, summary, log, unset, none, raises

\* HOST_UID / HOST_GID: unset, empty, a uid, a uid with surrounding
\* whitespace (int() strips it), a negative int os.chown rejects, and
\* whitespace alone (truthy, but not an int)
MC_EnvValues == {unset, <<>>, <<"1">>, <<" ", "1">>, <<"-", "1", "0">>, <<" ">>}

MC_Entries == {out, evidence, manifest, summary, log}
MC_Dirs == {out, evidence}
MC_Parent == (evidence :> out) @@ (manifest :> out) @@ (summary :> out)
               @@ (log :> evidence)

=============================================================================

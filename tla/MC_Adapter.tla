----------------------------- MODULE MC_Adapter -----------------------------
(* Model-checking instance of Adapter: two workspace files that are either *)
(* absent or hold one version, one assistant text, short streams.          *)
EXTENDS Adapter, TLC

CONSTANTS f1, f2, v1, absent, t1

MC_Files == {f1, f2}
MC_Versions == {v1}
MC_Texts == {t1}

\* The two workspace files are interchangeable in every property.
MC_Symmetry == Permutations(MC_Files)

=============================================================================

------------------------- MODULE PermissionNormalizer -------------------------
(***************************************************************************)
(* What spec §4.5 promises of permission normalization, with no walk in   *)
(* it: when both host ids are usable, every entry of the tree whose own   *)
(* chown does not fail ends re-owned, one at a time and in any order, and *)
(* then the call returns; when an id is absent or unparsable the call is  *)
(* a no-op that returns. It never raises.                                  *)
(***************************************************************************)
CONSTANTS Entries   \* the directory and everything under it

VARIABLES
    owned,     \* entries re-owned to the host ids
    outcome,   \* "running" or "returned"
    idsValid,  \* both host ids are present and parse as integers
    failing    \* entries whose chown raises

absVars == <<owned, outcome, idsValid, failing>>

Init ==
    /\ owned = {}
    /\ outcome = "running"
    /\ idsValid \in BOOLEAN
    /\ failing \in SUBSET Entries

\* One entry that has not been re-owned and does not fail is re-owned.
Reown(e) ==
    /\ outcome = "running"
    /\ idsValid
    /\ e \in Entries \ (owned \cup failing)
    /\ owned' = owned \cup {e}
    /\ UNCHANGED <<outcome, idsValid, failing>>

\* The call returns: after every entry that can be re-owned is, or at once
\* when the ids are not usable.
Return ==
    /\ outcome = "running"
    /\ owned = IF idsValid THEN Entries \ failing ELSE {}
    /\ outcome' = "returned"
    /\ UNCHANGED <<owned, idsValid, failing>>

Next == (\E e \in Entries : Reown(e)) \/ Return

Spec == Init /\ [][Next]_absVars

=============================================================================

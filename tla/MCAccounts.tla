----------------------------- MODULE MCAccounts -----------------------------
EXTENDS Accounts, TLC

\* A deactivation, a reactivation, and a demotion that deactivates too.
MCPatch == {[role |-> Keep, status |-> "inactive"],
            [role |-> Keep, status |-> "active"],
            [role |-> "viewer", status |-> "inactive"]}

MCSymmetry == Permutations(User) \cup Permutations(Request) \cup Permutations(Email)
=============================================================================

--------------------------- MODULE MCOperationIntake ---------------------------
(***************************************************************************)
(* OperationIntake for TLC.  Agents, identities, nonces, meanings and      *)
(* sessions are interchangeable: no definition chooses one of them.        *)
(***************************************************************************)
EXTENDS OperationIntake, TLC

Symmetry ==
    Permutations(Agents) \cup Permutations(Identities) \cup Permutations(Nonces)
        \cup Permutations(Meanings) \cup Permutations(Sessions)

===============================================================================

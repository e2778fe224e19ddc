----------------------------- MODULE MCDesktop ------------------------------
(***************************************************************************)
(* Instances of Desktop for TLC.                                           *)
(***************************************************************************)
EXTENDS Desktop

\* Commands differ only in their names; so do accounts, passphrases and tokens.
MCSymmetry ==
    Permutations(Cmds) \cup Permutations(Accts) \cup Permutations(Passes)
        \cup Permutations(Tokens)
=============================================================================

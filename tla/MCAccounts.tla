----------------------------- MODULE MCAccounts -----------------------------
(* Instances of Accounts for TLC, with its symmetries.                      *)
EXTENDS Accounts, TLC

Symmetry == Permutations(Users) \cup Permutations(Subs) \cup
            Permutations(Emails) \cup Permutations(Workers)
=============================================================================

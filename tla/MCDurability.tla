---------------------------- MODULE MCDurability ----------------------------
(* Small instances of Durability for TLC. *)
EXTENDS Durability, TLC

\* Members, logins and the clients that only complain are interchangeable.
Interchangeable ==
    Permutations(Members) \union Permutations(Logins)
        \union Permutations(Identities \ Accused)
=============================================================================

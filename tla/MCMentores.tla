----------------------------- MODULE MCMentores -----------------------------
(***************************************************************************)
(* Instances of Mentores for TLC.                                          *)
(***************************************************************************)
EXTENDS MentoresClaims, TLC

CONSTANTS m1, m2

MCMatriculas == {m1, m2}
One          == {m1}

\* Two files in opposite orders, one with a duplicate and a malformed row.
MCFiles   == { <<m1, m2>>, <<m2, m1>>, <<m1, Malformed, m1>> }
SingleFile    == { <<m1>> }

Symmetry == Permutations(Requests)
=============================================================================

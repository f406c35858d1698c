------------------------------ MODULE MCTipos ------------------------------
(***************************************************************************)
(* Instances of Tipos for TLC.                                             *)
(***************************************************************************)
EXTENDS Tipos, TLC

\* slugify("Carta"), and slugify("Carta 2"), which is the second candidate of the
\* first.
MCSlugs      == {"carta", "carta-2", "carta-3", "carta-4", "carta-2-2", "carta-2-3", "carta-2-4"}
MCCandidates == { <<"carta", "carta-2", "carta-3", "carta-4">>,
                  <<"carta-2", "carta-2-2", "carta-2-3", "carta-2-4">> }

Symmetry == Permutations(Requests)
=============================================================================

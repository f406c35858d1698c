----------------------------- MODULE MCRespuesta -----------------------------
(***************************************************************************)
(* Instances of Respuesta for TLC.                                         *)
(***************************************************************************)
EXTENDS RespuestaClaims, TLC

CONSTANTS alumna, staff, f1

MCFolios  == {f1}
MCUsers   == {alumna, staff}
MCOwner   == [f \in MCFolios |-> alumna]
MCRolesOf == (alumna :> {"ALUMNO"}) @@ (staff :> {"CONTROL_ESCOLAR"})
MCCatalogueRoles == {"CONTROL_ESCOLAR", "DOCENTE"}

\* A comment alone, one or two files, and what the form or the service refuses:
\* nothing at all, one file too many, a forbidden extension.
Deliveries == { [files |-> 0, comentario |-> TRUE, allowed |-> TRUE],
                [files |-> 1, comentario |-> FALSE, allowed |-> TRUE],
                [files |-> 2, comentario |-> FALSE, allowed |-> TRUE] }
Refusals   == { [files |-> 0, comentario |-> FALSE, allowed |-> TRUE],
                [files |-> 3, comentario |-> FALSE, allowed |-> TRUE],
                [files |-> 1, comentario |-> FALSE, allowed |-> FALSE] }
MCPayloads == Deliveries \cup Refusals

Symmetry == Permutations(Requests) \cup Permutations(Threads)
=============================================================================

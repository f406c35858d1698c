----------------------------- MODULE MCLifecycle -----------------------------
(***************************************************************************)
(* Instances of Lifecycle for TLC: who files, who reviews, who may be both.*)
(***************************************************************************)
EXTENDS LifecycleClaims, TLC

CONSTANTS alumna, docente, staff, f1, t1

MCFolios  == {f1}
MCTipos   == {t1}
MCTipoOf  == [f \in MCFolios |-> t1]
MCUsers   == {alumna, staff}
\* The solicitante is an alumna; a docente can file, and review for the tipos
\* that name DOCENTE; the third person's token may say either of two roles.
MCOwner   == [f \in MCFolios |-> alumna]
MCRolesOf == (alumna :> {"ALUMNO"}) @@ (staff :> {"CONTROL_ESCOLAR", "ADMIN"})

\* A smaller cast where one person is on both sides of the desk: a docente who
\* files, under a tipo that may come to name DOCENTE as its responsible role.
DeskUsers   == {docente, staff}
DeskOwner   == [f \in MCFolios |-> docente]
DeskRolesOf == (docente :> {"DOCENTE"}) @@ (staff :> {"CONTROL_ESCOLAR", "ALUMNO"})

\* The catalogue moves the tipo between staff's role and one nobody here has.
MCCatalogueRoles == {"CONTROL_ESCOLAR", "DOCENTE"}

\* Requests are interchangeable: only safety is checked under this symmetry.
Symmetry == Permutations(Requests)
=============================================================================

------------------------------ MODULE MCIntake ------------------------------
(***************************************************************************)
(* Instances of Intake for TLC.                                            *)
(***************************************************************************)
EXTENDS IntakeClaims, TLC

\* The tipo as administrators would leave it: free of charge, paid with an
\* exemption for mentors, deactivated.  What is refused to a role is refused where
\* the code refuses a tipo that is not active.
Libre    == [activo |-> TRUE, admits |-> TRUE, pays |-> FALSE, exempts |-> FALSE, campos |-> 1]
DePago   == [activo |-> TRUE, admits |-> TRUE, pays |-> TRUE, exempts |-> TRUE, campos |-> 1]
Inactivo == [Libre EXCEPT !.activo = FALSE]

MCVersions == {Libre, DePago, Inactivo}

\* And as an edit of the fields would leave it: only RowRecordsWhatWasSeen tells
\* fields apart, and it needs no other edit.
OtherFields == {Libre, [Libre EXCEPT !.campos = 2]}

\* All solicitudes are of one person: who files them decides only who waits for a User
\* row, and one person's filings wait for the most.
OnePerson == [r \in Requests |-> CHOOSE u \in Users : TRUE]

MCYears    == {2026, 2027}

MCUploads == { <<>>, <<"form", "comprobante">> }

\* A bound: what becomes of files does not depend on the year and on the mails, nor
\* they on the files.  Where there are files the year does not change, and whoever
\* uploads has somebody to tell.
FilesAlone ==
  /\ clock # 2026 =>
       partial \cup final \cup logged = {} /\ \A r \in Requests : todo[r] = <<>>
  /\ \A r \in Requests :
       pc[r] = "storing" /\ todo[r] # <<>> => NewFolio(r) \in announced

Symmetry == Permutations(Requests) \cup Permutations(Threads)
=============================================================================

----------------------------- MODULE MCUsuarios -----------------------------
EXTENDS UsuariosClaims, TLC

CONSTANTS ana, beto, e1, e2, e3, v
MCMatriculas == {ana, beto}
MCTokens == { [sub |-> ana, email |-> e1, rol |-> "admin"],
              [sub |-> ana, email |-> e2, rol |-> "alumno"],
              [sub |-> beto, email |-> e1, rol |-> "docente"],
              [sub |-> beto, email |-> e3, rol |-> "visitante"] }
MCPresets == { [sub |-> ana, email |-> e2, rol |-> "alumno"] }
MCCampos == {"programa", "semestre"}
MCAnswers == { [programa |-> v, semestre |-> Vacio], [programa |-> Vacio, semestre |-> v] }
MCRequired == {"programa"}
\* Bound: after a second token has expired nothing more is looked at.
OneExpires == \A t, u \in Tokens : vigencia[t] = "expired" /\ vigencia[u] = "expired" => t = u
Symmetry == Permutations(Requests)
=============================================================================

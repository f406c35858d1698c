------------------------------- MODULE Perfil -------------------------------
(***************************************************************************)
(* The cached academic profile of each person, as the features that fill   *)
(* forms from it may assume it to behave: SIGA and the logins may add to   *)
(* it or replace a value by another at any time, but what has been learnt  *)
(* of a person is never forgotten.  Usuarios implements this; Formularios  *)
(* runs next to it.                                                        *)
(***************************************************************************)
CONSTANTS Matriculas, Campos, Valores,   \* people, profile columns, their values
          Vacio                          \* "" or NULL: no information
VARIABLE perfil

ASSUME PerfilAssumption == Vacio \notin Valores

Perfiles   == [Campos -> Valores \cup {Vacio}]
SinPerfil  == [c \in Campos |-> Vacio]
Known(p)   == {c \in Campos : p[c] # Vacio}

PerfilInit == perfil = [m \in Matriculas |-> SinPerfil]

Learn(m) ==
  \E p \in Perfiles :
    /\ Known(perfil[m]) \subseteq Known(p)
    /\ perfil' = [perfil EXCEPT ![m] = p]

PerfilSpec == PerfilInit /\ [][\E m \in Matriculas : Learn(m)]_perfil
=============================================================================

--------------------------- MODULE MCFormularios ---------------------------
EXTENDS Formularios, TLC

CONSTANTS yo, valor, opcion
MCMatriculas == {yo}
MCCampos == {"programa", "semestre"}
MCArchivos == { [ext |-> ".PDF", mb |-> 1], [ext |-> ".pdf", mb |-> 20], [ext |-> ".exe", mb |-> 1] }

Base == [field_type |-> "TEXT", required |-> TRUE, options_csv |-> <<>>,
         accepted_extensions_csv |-> <<>>, max_size_mb |-> Blanco, max_chars |-> Blanco,
         source |-> "USER_INPUT"]
\* Rows as typed, some with what another type left behind in hidden inputs.
MCEditorRows ==
  LET OfType(type) == [Base EXCEPT !.field_type = type]
      File(csv)    == [OfType("FILE") EXCEPT !.accepted_extensions_csv = csv]
  IN
  { [Base EXCEPT !.source = Blanco],
    [OfType("TEXTAREA") EXCEPT !.required = FALSE, !.max_chars = 4],
    [Base EXCEPT !.source = "USER_PROGRAMA"],
    [Base EXCEPT !.source = "USER_PROGRAMA", !.required = FALSE],
    [OfType("NUMBER") EXCEPT !.max_chars = 4, !.source = "USER_PROGRAMA"],
    [OfType("NUMBER") EXCEPT !.source = "USER_SEMESTRE"],
    [OfType("DATE") EXCEPT !.max_size_mb = 50],
    [OfType("SELECT") EXCEPT !.options_csv = <<opcion, Blanco>>],
    OfType("SELECT"),
    [File(<<".PDF">>) EXCEPT !.max_size_mb = 50, !.max_chars = 4],
    File(<<"pdf">>) }
Symmetry == Permutations(FieldIds)
=============================================================================

---------------------------- MODULE MCPlantillas ----------------------------
EXTENDS PlantillasClaims, TLC

CONSTANTS oficio, acta, s, c, campo, html, raises, unpacks, divides, shows, bad, f1, f2, f3, logo, sello
MCOldRow == [i \in {logo, sello} |-> IF i = logo THEN [slug |-> s, scope |-> Global, path |-> f1]
                                              ELSE [slug |-> s, scope |-> oficio, path |-> f2]]
MCOldPlantilla == [i \in {oficio, acta} |-> IF i = oficio THEN [html |-> html, css |-> c, activo |-> TRUE] ELSE None]
MCCampos == << [slug |-> campo, raw |-> s], [slug |-> campo, raw |-> None], [slug |-> s, raw |-> s] >>

MCRaisesOn == {<<raises, "always">>, <<unpacks, "values">>, <<divides, "no values">>, <<shows, "no image">>}

Upload == [op |-> "upload", scope |-> Global, slug |-> s, file |-> "image"]
MCJobs ==
  { Upload, [Upload EXCEPT !.scope = oficio], [Upload EXCEPT !.slug = LargeSlug],
    [Upload EXCEPT !.slug = NoSlug], [Upload EXCEPT !.file = "renamed"],
    [Upload EXCEPT !.file = "refused"] }
  \cup Deletes
  \cup [op : {"create"}, form : [html : {html, bad}, css : {c}, activo : {TRUE}]]
  \cup [op : {"save"}, id : Ids, form : [html : Htmls, css : {c}, activo : {TRUE}]]
  \cup { [op |-> "off", id |-> oficio], [op |-> "tipo"] }
  \cup [op : {"solicitud"}, role : {"ALUMNO", "ADMIN"}]
  \cup [op : {"sample"}, id : Ids]
  \cup [op : {"preview"}, draft : [html : Htmls, css : {c}, de : {oficio}], persist : {TRUE}]
  \cup { [op |-> "draft"] }
Symmetry == Permutations(Requests)
=============================================================================

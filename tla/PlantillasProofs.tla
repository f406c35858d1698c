-------------------------- MODULE PlantillasProofs --------------------------
(***************************************************************************)
(* Proofs about Plantillas, for any number of requests, images, names and  *)
(* templates.  The argument: an image can be read by a deletion only after *)
(* its upload has ended, and its bytes are written once.  So whoever       *)
(* unlinks a name that is not its image's any more was preceded there by   *)
(* another deletion, and the two of them explain every loss.               *)
(***************************************************************************)
EXTENDS Plantillas, TLAPS

USE DEF tables, files, local

\* Where a request on images may be.
OnImages == {"saving", "saved", "deleting", "read", "unlinked"}

\* r moves, and its place is the only one that changes.
Moves(r) == pc'[r] # "idle" /\ \A q \in Requests \ {r} : pc'[q] = pc[q]

\* No template parses worse than before.
NoneWorse ==
  \A p \in Ids : plantillas'[p] # None /\ plantillas'[p].html \in Malformed =>
    plantillas[p] # None /\ plantillas[p].html \in Malformed

Typed == [slug : Slugs \cup {LargeSlug}, scope : Scopes, path : Paths]

-----------------------------------------------------------------------------
(* Jobs, places, and who removes what.                                     *)

\* What is sent, by its op.
LEMMA JobTypes ==
  ASSUME NEW j \in Jobs
  PROVE  /\ j.op = "upload" => j \in Uploads
         /\ j.op = "delete" => j.id \in Images
         /\ j.op \in {"create", "save"} => j.form \in Form
         /\ j.op \in {"save", "off", "sample"} => j.id \in Ids
<1>1. j \in Uploads \/ j \in Deletes \/ j \in Edits \/ j \in Renders
  BY JobsAssumption
<1>2. CASE j \in Uploads
  BY <1>2 DEF Uploads
<1>3. CASE j \in Deletes
  BY <1>3 DEF Deletes
<1>4. CASE j \in Edits
  BY <1>4 DEF Edits
<1>5. CASE j \in Renders
  BY <1>5 DEF Renders
<1> QED
  BY <1>1, <1>2, <1>3, <1>4, <1>5

\* A job is something.
LEMMA JobsAreJobs == ASSUME NEW j \in Jobs PROVE j # None
  BY JobsAssumption

\* A request goes where it goes, and nobody else.
LEMMA GotoFacts ==
  ASSUME TypeOK, NEW r \in Requests, NEW l \in Running \cup Ended, Goto(r, l)
  PROVE  /\ pc' \in [Requests -> {"idle"} \cup Running \cup Ended]
         /\ pc'[r] = l /\ Moves(r)
  BY DEF TypeOK, Goto, Moves, Running, Ended

\* Where a request starts.
LEMMA EntryFacts ==
  ASSUME NEW op
  PROVE  /\ Entry(op) \in Running
         /\ Entry(op) \in {"saving", "deleting", "form", "page", "rendering"}
         /\ Entry(op) = "saving" => op = "upload"
         /\ Entry(op) = "deleting" => op = "delete"
         /\ Entry(op) = "page" => op = "tipo"
  BY DEF Entry, Running

\* What removes an image after a step that leaves jobs and rows alone.
LEMMA RemovesStays ==
  ASSUME UNCHANGED <<job, row>>, NEW q, NEW i
  PROVE  Removes(q, i)' <=> Removes(q, i)
  BY DEF Removes

-----------------------------------------------------------------------------
(* Types.                                                                  *)

LEMMA InitType == Init => TypeOK
  BY OldAssumption, PlantillasAssumption DEF Init, TypeOK, IsLocal, Images

LEMMA ArriveType ==
  ASSUME TypeOK, NEW r \in Requests, Arrive(r)
  PROVE  TypeOK'
<1>1. PICK j \in Jobs : job' = [job EXCEPT ![r] = j] /\ Goto(r, Entry(j.op))
      /\ \E x : page' = [page EXCEPT ![r] = x]
  BY DEF Arrive
<1>2. pc' \in [Requests -> {"idle"} \cup Running \cup Ended]
  BY <1>1, EntryFacts, GotoFacts
<1>3. IsLocal(page)'
  BY <1>1 DEF TypeOK, IsLocal
<1> QED
  BY <1>1, <1>2, <1>3 DEF Arrive, TypeOK, IsLocal

\* The job of a request that has come in.
LEMMA ItsJob ==
  ASSUME TypeOK, JobsFit, NEW r \in Requests, pc[r] # "idle"
  PROVE  job[r] \in Jobs
  BY DEF TypeOK, JobsFit

LEMMA EditType ==
  ASSUME TypeOK, JobsFit, NEW r \in Requests,
         CreatePlantilla(r) \/ UpdatePlantilla(r) \/ DeactivatePlantilla(r)
           \/ ChoosePlantilla(r) \/ SaveTipo(r)
  PROVE  /\ TypeOK' /\ Moves(r) /\ pc[r] \in {"form", "page"}
         /\ pc'[r] \in {"ok", "invalid", "notfound", "page"}
         /\ pc'[r] = "invalid" => job[r].op \in {"create", "save", "tipo"}
         /\ NoneWorse
         /\ UNCHANGED <<images, disk, job, row, listed, embedded, doc, borrador>>
<1>1. job[r] \in Jobs /\ UNCHANGED <<images, disk, job, row, listed, embedded, doc, borrador>>
  BY ItsJob DEF CreatePlantilla, UpdatePlantilla, DeactivatePlantilla, ChoosePlantilla, SaveTipo
<1>2. ASSUME NEW p \in Ids, Write(r, p), job[r].op \in {"create", "save"}, page' = page
      PROVE  TypeOK' /\ Moves(r) /\ pc'[r] \in {"ok", "invalid"}
             /\ NoneWorse
  <2>1. job[r].form \in Form
    BY <1>1, <1>2, JobTypes
  <2>2. pc' \in [Requests -> {"idle"} \cup Running \cup Ended] /\ pc'[r] \in {"ok", "invalid"} /\ Moves(r)
    BY <1>2, GotoFacts DEF Write, Ended
  <2>3. plantillas' \in [Ids -> Form \cup {None}]
    BY <1>2, <2>1 DEF Write, TypeOK
  <2>4. NoneWorse
    BY <1>2 DEF Write, Parses, TypeOK, NoneWorse
  <2> QED
    BY <1>1, <1>2, <2>2, <2>3, <2>4 DEF TypeOK, IsLocal
<1>3. CASE CreatePlantilla(r)
  BY <1>1, <1>2, <1>3 DEF CreatePlantilla
<1>4. CASE UpdatePlantilla(r)
  <2>1. job[r].id \in Ids /\ job[r].op = "save" /\ pc[r] = "form" /\ page' = page
    BY <1>1, <1>4, JobTypes DEF UpdatePlantilla
  <2>2. CASE plantillas[job[r].id] # None
    BY <1>1, <1>2, <1>4, <2>1, <2>2 DEF UpdatePlantilla
  <2>3. CASE plantillas[job[r].id] = None
    <3>1. Goto(r, "notfound") /\ plantillas' = plantillas
      BY <1>4, <2>3 DEF UpdatePlantilla
    <3>2. pc' \in [Requests -> {"idle"} \cup Running \cup Ended] /\ pc'[r] = "notfound" /\ Moves(r)
      BY <3>1, GotoFacts DEF Ended
    <3> QED
      BY <1>1, <2>1, <3>1, <3>2 DEF TypeOK, IsLocal, NoneWorse
  <2> QED
    BY <2>2, <2>3
<1>5. CASE DeactivatePlantilla(r)
  <2>1. job[r].id \in Ids /\ pc[r] = "form" /\ page' = page
    BY <1>1, <1>5, JobTypes DEF DeactivatePlantilla
  <2>2. Goto(r, "ok") \/ Goto(r, "notfound")
    BY <1>5 DEF DeactivatePlantilla
  <2>3. pc' \in [Requests -> {"idle"} \cup Running \cup Ended] /\ pc'[r] \in {"ok", "notfound"} /\ Moves(r)
    BY <2>2, GotoFacts DEF Ended
  <2>4. /\ plantillas' \in [Ids -> Form \cup {None}]
        /\ \A q \in Ids : plantillas'[q] # None =>
             plantillas[q] # None /\ plantillas'[q].html = plantillas[q].html
    <3>1. CASE plantillas[job[r].id] # None
      <4>1. plantillas[job[r].id] \in Form
        BY <2>1, <3>1 DEF TypeOK
      <4>2. PICK new : new = [plantillas[job[r].id] EXCEPT !.activo = FALSE]
        OBVIOUS
      <4>3. new \in Form /\ new.html = plantillas[job[r].id].html
        BY <4>1, <4>2 DEF Form
      <4>4. plantillas' = [plantillas EXCEPT ![job[r].id] = new]
        BY <1>5, <3>1, <4>2 DEF DeactivatePlantilla
      <4> QED
        BY <2>1, <3>1, <4>3, <4>4 DEF TypeOK
    <3>2. CASE plantillas[job[r].id] = None
      BY <1>5, <3>2 DEF DeactivatePlantilla, TypeOK
    <3> QED
      BY <3>1, <3>2
  <2> QED
    BY <1>1, <2>1, <2>3, <2>4 DEF TypeOK, IsLocal, NoneWorse
<1>6. CASE ChoosePlantilla(r)
  <2>1. pc' = pc /\ plantillas' = plantillas /\ pc[r] = "page"
    BY <1>6 DEF ChoosePlantilla
  <2>2. IsLocal(page)'
    BY <1>6 DEF ChoosePlantilla, TypeOK, IsLocal
  <2>3. Moves(r)
    BY <2>1 DEF Moves
  <2> QED
    BY <1>1, <2>1, <2>2, <2>3 DEF TypeOK, IsLocal, NoneWorse
<1>7. CASE SaveTipo(r)
  <2>1. (Goto(r, "ok") \/ Goto(r, "invalid")) /\ plantillas' = plantillas /\ page' = page /\ pc[r] = "page"
    BY <1>7 DEF SaveTipo
  <2>2. pc' \in [Requests -> {"idle"} \cup Running \cup Ended] /\ pc'[r] \in {"ok", "invalid"} /\ Moves(r)
    BY <2>1, GotoFacts DEF Ended
  <2>3. job[r].op = "tipo"
    BY <2>1 DEF JobsFit
  <2> QED
    BY <1>1, <2>1, <2>2, <2>3 DEF TypeOK, IsLocal, NoneWorse
<1> QED
  BY <1>3, <1>4, <1>5, <1>6, <1>7

\* What an upload that is accepted writes: a file nobody has, and the row for it.
LEMMA NewFile ==
  ASSUME TypeOK, JobsFit, NEW r \in Requests, SaveFile(r)
  PROVE  /\ pc[r] = "saving" /\ row[r] = None /\ job[r].op = "upload"
         /\ UNCHANGED <<images, job, plantillas, doc, page, listed, embedded>>
         /\ \/ UNCHANGED <<disk, row>> /\ Goto(r, "invalid")
            \/ \E f \in Paths, new \in Typed :
                 /\ disk[f] = None /\ disk' = [disk EXCEPT ![f] = r]
                 /\ row' = [row EXCEPT ![r] = new]
                 /\ new # None /\ new.path = f /\ Goto(r, "saved")
<1>1. /\ pc[r] = "saving" /\ row[r] = None /\ job[r].op = "upload"
      /\ UNCHANGED <<images, job, plantillas, doc, page, listed, embedded>>
  BY DEF SaveFile, JobsFit
<1>2. job[r] \in Uploads
  BY <1>1, ItsJob, JobTypes
<1>3. CASE FormAccepts(job[r]) /\ ServiceAccepts(job[r])
  <2>1. PICK f \in Paths : /\ disk[f] = None /\ disk' = [disk EXCEPT ![f] = r]
                           /\ row' = [row EXCEPT ![r] = [slug |-> job[r].slug, scope |-> job[r].scope, path |-> f]]
                           /\ Goto(r, "saved")
    BY <1>3 DEF SaveFile, FreeName
  <2>2. PICK new : new = [slug |-> job[r].slug, scope |-> job[r].scope, path |-> f]
    OBVIOUS
  <2>3. job[r].slug \in Slugs \cup {LargeSlug} /\ job[r].scope \in Scopes
    BY <1>2, <1>3 DEF Uploads, ServiceAccepts
  <2>4. new \in Typed /\ new.path = f
    BY <2>2, <2>3 DEF Typed
  <2>5. new # None
    BY <2>4, OldAssumption DEF Typed
  <2> QED
    BY <1>1, <2>1, <2>2, <2>4, <2>5
<1>4. CASE ~(FormAccepts(job[r]) /\ ServiceAccepts(job[r]))
  BY <1>1, <1>4 DEF SaveFile
<1> QED
  BY <1>3, <1>4

\* Requests on images: what they write is typed.
LEMMA ImageType ==
  ASSUME TypeOK, JobsFit, NEW r \in Requests,
         SaveFile(r) \/ InsertRow(r) \/ ReadRow(r) \/ Unlink(r) \/ DeleteRow(r)
  PROVE  TypeOK' /\ Moves(r) /\ job[r] \in Jobs
<1>1. job[r] \in Jobs
  BY ItsJob DEF SaveFile, InsertRow, ReadRow, Unlink, DeleteRow
<1>2. pc' \in [Requests -> {"idle"} \cup Running \cup Ended] /\ Moves(r)
  <2>1. PICK l \in Running \cup Ended : Goto(r, l)
    BY DEF SaveFile, InsertRow, ReadRow, Unlink, DeleteRow, Running, Ended
  <2> QED
    BY <2>1, GotoFacts
<1>3. UNCHANGED <<plantillas, job, doc, page, listed, embedded>>
  BY DEF SaveFile, InsertRow, ReadRow, Unlink, DeleteRow
<1>4. CASE SaveFile(r)
  <2>1. images' = images
    BY <1>4 DEF SaveFile
  <2>2. disk' \in [Paths -> Images \cup {None}] /\ row' \in [Requests -> Typed \cup {None}]
    <3>1. CASE UNCHANGED <<disk, row>>
      BY <3>1 DEF TypeOK, Typed
    <3>2. CASE ~UNCHANGED <<disk, row>>
      <4>1. PICK f \in Paths, new \in Typed :
              disk' = [disk EXCEPT ![f] = r] /\ row' = [row EXCEPT ![r] = new]
        BY <1>4, <3>2, NewFile
      <4> QED
        BY <4>1 DEF TypeOK, Typed, Images
    <3> QED
      BY <3>1, <3>2
  <2> QED
    BY <1>1, <1>2, <1>3, <2>1, <2>2 DEF TypeOK, IsLocal, Typed
<1>5. CASE InsertRow(r)
  <2>1. UNCHANGED <<disk, row>> /\ pc[r] = "saved"
    BY <1>5 DEF InsertRow
  <2>2. images' \in [Images -> Image \cup {None}]
    <3>1. CASE UNCHANGED images
      BY <3>1 DEF TypeOK
    <3>2. CASE ~UNCHANGED images
      <4>1. images' = [images EXCEPT ![r] = row[r]] /\ row[r].slug # LargeSlug
        BY <1>5, <3>2 DEF InsertRow, Violates
      <4>2. row[r] \in Typed
        BY <2>1 DEF JobsFit, TypeOK, Typed
      <4>3. row[r] \in Image
        BY <4>1, <4>2 DEF Typed, Image
      <4> QED
        BY <4>1, <4>3 DEF TypeOK, Images
    <3> QED
      BY <3>1, <3>2
  <2> QED
    BY <1>1, <1>2, <1>3, <2>1, <2>2 DEF TypeOK, IsLocal
<1>6. CASE ReadRow(r)
  <2>1. job[r].id \in Images
    BY <1>1, <1>6, JobTypes DEF ReadRow, JobsFit
  <2>2. images[job[r].id] \in Typed \cup {None}
    BY <2>1 DEF TypeOK, Image, Typed
  <2>3. row' \in [Requests -> Typed \cup {None}] /\ UNCHANGED <<images, disk>>
    BY <1>6, <2>2 DEF ReadRow, TypeOK, Typed
  <2> QED
    BY <1>1, <1>2, <1>3, <2>3 DEF TypeOK, IsLocal, Typed
<1>7. CASE Unlink(r) \/ DeleteRow(r)
  <2>1. disk' \in [Paths -> Images \cup {None}] /\ images' \in [Images -> Image \cup {None}] /\ row' = row
    BY <1>7 DEF Unlink, DeleteRow, TypeOK
  <2> QED
    BY <1>1, <1>2, <1>3, <2>1 DEF TypeOK, IsLocal
<1> QED
  BY <1>1, <1>2, <1>4, <1>5, <1>6, <1>7

\* Renders write nothing but their own places, and the draft of the session.
LEMMA RenderType ==
  ASSUME TypeOK, NEW r \in Requests,
         ReadTemplate(r) \/ ListImages(r) \/ (\E s \in Slugs : OpenFile(r, s))
           \/ RenderStored(r) \/ RenderPreview(r) \/ RenderDraft(r)
  PROVE  TypeOK' /\ Moves(r) /\ UNCHANGED <<plantillas, images, disk, job, row>>
         /\ pc[r] \in {"rendering", "listing", "embedding"}
         /\ pc'[r] \in {"unauthorized", "notfound", "listing", "embedding", "invalid", "error", "ok", "banner"}
<1>1. UNCHANGED <<plantillas, images, disk, job, row, page>>
      /\ pc[r] \in {"rendering", "listing", "embedding"}
  BY DEF ReadTemplate, ListImages, OpenFile, RenderStored, RenderPreview, RenderDraft, Ready
<1>2. /\ pc' \in [Requests -> {"idle"} \cup Running \cup Ended] /\ Moves(r)
      /\ pc'[r] \in {"unauthorized", "notfound", "listing", "embedding", "invalid", "error", "ok", "banner"}
  <2>1. CASE \E s \in Slugs : OpenFile(r, s)
    <3>1. pc' = pc /\ pc[r] = "embedding"
      BY <2>1 DEF OpenFile
    <3> QED
      BY <3>1 DEF Moves, TypeOK
  <2>2. CASE ~\E s \in Slugs : OpenFile(r, s)
    <3>1. PICK l \in {"unauthorized", "notfound", "listing", "embedding", "invalid", "error", "ok", "banner"} :
            Goto(r, l)
      BY <2>2 DEF ReadTemplate, ListImages, RenderStored, RenderPreview, RenderDraft
    <3>2. l \in Running \cup Ended
      BY <3>1 DEF Running, Ended
    <3> QED
      BY <3>1, <3>2, GotoFacts
  <2> QED
    BY <2>1, <2>2
<1>3. IsLocal(doc)' /\ IsLocal(listed)' /\ IsLocal(embedded)'
  BY DEF ReadTemplate, ListImages, OpenFile, RenderStored, RenderPreview, RenderDraft, TypeOK, IsLocal
<1> QED
  BY <1>1, <1>2, <1>3 DEF TypeOK, IsLocal

-----------------------------------------------------------------------------
(* Rows and files.                                                         *)

\* A step of a request that has no row of an image, and goes on without.
LEMMA QuietFiles ==
  ASSUME TypeOK, FileInv, NEW r \in Requests, Moves(r), UNCHANGED <<images, disk, row, job>>,
         pc[r] \notin {"idle", "saved", "read", "unlinked"} \cup Ended,
         pc'[r] \notin OnImages,
         pc'[r] = "page" => pc[r] = "page"
  PROVE  FileInv'
<1>1. \A q, i : Removes(q, i)' <=> Removes(q, i)
  BY RemovesStays
<1>2. \A q \in Requests : pc'[q] = pc[q] \/ (q = r /\ pc'[q] \notin OnImages)
  BY DEF Moves
<1>3. JobsFit'
  BY <1>2 DEF FileInv, JobsFit, Moves, OnImages
<1>4. \A i : Uploaded(i) => Uploaded(i)'
  BY DEF Uploaded, Moves, Ended
<1>5. RowsAreUploaded'
  BY <1>1, <1>4 DEF FileInv, RowsAreUploaded
<1>6. FilesFit'
  BY <1>2 DEF FileInv, FilesFit, OnImages, Moves
<1>7. UnlinkedIsGone'
  BY <1>2 DEF FileInv, UnlinkedIsGone, OnImages
<1>8. \A k, f : Doubled(k, f) => Doubled(k, f)'
  BY <1>1 DEF Doubled
<1>9. \A i, f : Named(i, f)' => Named(i, f)
  BY <1>2 DEF Named, OnImages
<1>10. LossesAreExplained'
  <2> SUFFICES ASSUME NEW i \in Images, NEW f \in Paths, Named(i, f), disk[f] # i
               PROVE  \/ \E q \in Requests : Removes(q, i) /\ pc'[q] \in {"unlinked", "dead"}
                      \/ \E k \in Images \ {i} : Doubled(k, f)
    BY <1>1, <1>8, <1>9 DEF LossesAreExplained
  <2>1. \A q \in Requests : pc[q] \in {"unlinked", "dead"} => pc'[q] = pc[q]
    BY <1>2 DEF OnImages, Ended
  <2> QED
    BY <2>1 DEF FileInv, LossesAreExplained
<1>11. ReadersWereFirst'
  <2> SUFFICES ASSUME NEW q \in Requests, pc'[q] = "read", disk[row[q].path] # job[q].id
               PROVE  \/ \E p \in Requests : Removes(p, job[q].id) /\ pc'[p] # "read" /\ row[p].path = row[q].path
                      \/ \E k \in Images \ {job[q].id} : Doubled(k, row[q].path)
    BY <1>1, <1>8 DEF ReadersWereFirst
  <2>1. pc[q] = "read" /\ \A p \in Requests : pc'[p] = "read" => pc[p] = "read"
    BY <1>2 DEF OnImages
  <2> QED
    BY <2>1 DEF FileInv, ReadersWereFirst
<1>12. LeftoversAreExplained'
  <2>1. \A q \in Requests : pc[q] \in {"saved", "duplicate", "error", "dead"} => pc'[q] = pc[q]
    BY <1>2 DEF OnImages, Ended
  <2> QED
    BY <2>1 DEF FileInv, LeftoversAreExplained
<1> QED
  BY <1>3, <1>5, <1>6, <1>7, <1>10, <1>11, <1>12 DEF FileInv

\* A request that comes in holds nothing yet.
LEMMA ArriveFiles ==
  ASSUME TypeOK, FileInv, NEW r \in Requests, Arrive(r)
  PROVE  FileInv' /\ Moves(r) /\ pc[r] = "idle" /\ pc'[r] \in {"saving", "deleting", "form", "page", "rendering"}
<1>1. PICK j \in Jobs : job' = [job EXCEPT ![r] = j] /\ Goto(r, Entry(j.op))
  BY DEF Arrive
<1>2. /\ UNCHANGED <<images, disk, row>> /\ pc[r] = "idle" /\ row[r] = None
      /\ job'[r] = j /\ \A q \in Requests \ {r} : job'[q] = job[q]
  BY <1>1 DEF Arrive, FileInv, JobsFit, TypeOK
<1>3. /\ pc'[r] = Entry(j.op) /\ Moves(r)
      /\ pc'[r] \in {"saving", "deleting", "form", "page", "rendering"}
  BY <1>1, EntryFacts, GotoFacts
<1>4. \A q \in Requests : \A i : Removes(q, i)' <=> Removes(q, i)
  BY <1>2 DEF Removes
<1>5. \A q \in Requests \ {r} : pc'[q] = pc[q] /\ job'[q] = job[q]
  BY <1>2, <1>3 DEF Moves
<1>6. JobsFit'
  <2>1. j # None => job'[r] # None
    BY <1>2
  <2>2. Entry(j.op) = "saving" => j.op = "upload"
    BY EntryFacts
  <2>3. Entry(j.op) = "deleting" => j.op = "delete"
    BY EntryFacts
  <2>4. Entry(j.op) = "page" => j.op = "tipo"
    BY EntryFacts
  <2>5. j # None
    BY JobsAreJobs
  <2> QED
    BY <1>2, <1>3, <1>5, <2>1, <2>2, <2>3, <2>4, <2>5 DEF FileInv, JobsFit
<1>7. \A i : Uploaded(i) => Uploaded(i)'
  BY <1>2, <1>5 DEF Uploaded
<1>8. RowsAreUploaded'
  BY <1>2, <1>4, <1>7 DEF FileInv, RowsAreUploaded
<1>9. FilesFit'
  BY <1>2, <1>5 DEF FileInv, FilesFit
<1>10. UnlinkedIsGone'
  BY <1>2, <1>3, <1>5 DEF FileInv, UnlinkedIsGone
<1>11. \A k, f : Doubled(k, f) => Doubled(k, f)'
  BY <1>2, <1>4 DEF Doubled
<1>12. \A i, f : Named(i, f)' => Named(i, f)
  BY <1>2, <1>3, <1>5 DEF Named
<1>13. LossesAreExplained'
  <2> SUFFICES ASSUME NEW i \in Images, NEW f \in Paths, Named(i, f), disk[f] # i
               PROVE  \/ \E q \in Requests : Removes(q, i) /\ pc'[q] \in {"unlinked", "dead"}
                      \/ \E k \in Images \ {i} : Doubled(k, f)
    BY <1>2, <1>4, <1>11, <1>12 DEF LossesAreExplained
  <2>1. \A q \in Requests : pc[q] \in {"unlinked", "dead"} => pc'[q] = pc[q]
    BY <1>2, <1>5
  <2> QED
    BY <2>1 DEF FileInv, LossesAreExplained
<1>14. ReadersWereFirst'
  <2> SUFFICES ASSUME NEW q \in Requests, pc'[q] = "read", disk[row[q].path] # job'[q].id
               PROVE  \/ \E p \in Requests : Removes(p, job[q].id) /\ pc'[p] # "read" /\ row[p].path = row[q].path
                      \/ \E k \in Images \ {job[q].id} : Doubled(k, row[q].path)
    BY <1>2, <1>3, <1>4, <1>5, <1>11 DEF ReadersWereFirst
  <2>1. pc[q] = "read" /\ job'[q] = job[q] /\ \A p \in Requests : pc'[p] = "read" => pc[p] = "read"
    BY <1>3, <1>5
  <2> QED
    BY <2>1 DEF FileInv, ReadersWereFirst
<1>15. LeftoversAreExplained'
  <2>1. \A q \in Requests : pc[q] \in {"saved", "duplicate", "error", "dead"} => pc'[q] = pc[q]
    BY <1>2, <1>5
  <2> QED
    BY <1>2, <2>1 DEF FileInv, LeftoversAreExplained
<1> QED
  BY <1>2, <1>3, <1>6, <1>8, <1>9, <1>10, <1>13, <1>14, <1>15 DEF FileInv

\* A worker that dies leaves what it was doing explained.
LEMMA DieFiles ==
  ASSUME TypeOK, FileInv, NEW r \in Requests, Die(r)
  PROVE  TypeOK' /\ FileInv' /\ Moves(r) /\ pc'[r] = "dead" /\ pc[r] \in Running
<1>1. UNCHANGED <<tables, files, borrador, local>> /\ Goto(r, "dead") /\ pc[r] \in Running
  BY DEF Die
<1>2. /\ pc' \in [Requests -> {"idle"} \cup Running \cup Ended]
      /\ pc'[r] = "dead" /\ Moves(r)
  BY <1>1, GotoFacts DEF Ended
<1>3. TypeOK'
  BY <1>1, <1>2 DEF TypeOK, IsLocal
<1>4. \A q, i : Removes(q, i)' <=> Removes(q, i)
  BY <1>1, RemovesStays
<1>5. \A q \in Requests \ {r} : pc'[q] = pc[q]
  BY <1>2 DEF Moves
<1>6. pc[r] \notin {"idle"} \cup Ended
  BY <1>1 DEF Running, Ended
<1>7. JobsFit'
  BY <1>1, <1>2, <1>5, <1>6 DEF FileInv, JobsFit
<1>8. \A i : Uploaded(i) => Uploaded(i)'
  BY <1>5, <1>6 DEF Uploaded, Ended
<1>9. RowsAreUploaded'
  BY <1>1, <1>4, <1>8 DEF FileInv, RowsAreUploaded
<1>10. FilesFit'
  BY <1>1, <1>2, <1>5 DEF FileInv, FilesFit
<1>11. UnlinkedIsGone'
  BY <1>1, <1>2, <1>5 DEF FileInv, UnlinkedIsGone
<1>12. \A k, f : Doubled(k, f) => Doubled(k, f)'
  BY <1>1, <1>4 DEF Doubled
<1>13. \A i, f : Named(i, f)' => Named(i, f)
  BY <1>1, <1>2, <1>5 DEF Named
<1>14. LossesAreExplained'
  <2> SUFFICES ASSUME NEW i \in Images, NEW f \in Paths, Named(i, f), disk[f] # i
               PROVE  \/ \E q \in Requests : Removes(q, i) /\ pc'[q] \in {"unlinked", "dead"}
                      \/ \E k \in Images \ {i} : Doubled(k, f)
    BY <1>1, <1>4, <1>12, <1>13 DEF LossesAreExplained
  <2>1. \A q \in Requests : pc[q] \in {"unlinked", "dead"} => pc'[q] \in {"unlinked", "dead"}
    BY <1>2, <1>5
  <2> QED
    BY <2>1 DEF FileInv, LossesAreExplained
<1>15. ReadersWereFirst'
  <2> SUFFICES ASSUME NEW q \in Requests, pc'[q] = "read", disk[row[q].path] # job[q].id
               PROVE  \/ \E p \in Requests : Removes(p, job[q].id) /\ pc'[p] # "read" /\ row[p].path = row[q].path
                      \/ \E k \in Images \ {job[q].id} : Doubled(k, row[q].path)
    BY <1>1, <1>4, <1>12 DEF ReadersWereFirst
  <2>1. pc[q] = "read" /\ \A p \in Requests : pc'[p] = "read" => pc[p] = "read"
    BY <1>2, <1>5
  <2> QED
    BY <2>1 DEF FileInv, ReadersWereFirst
<1>16. LeftoversAreExplained'
  <2>1. \A q \in Requests : pc[q] \in {"saved", "duplicate", "error", "dead"} =>
          pc'[q] \in {"saved", "duplicate", "error", "dead"}
    BY <1>2, <1>5
  <2> QED
    BY <1>1, <2>1 DEF FileInv, LeftoversAreExplained
<1> QED
  BY <1>1, <1>2, <1>3, <1>7, <1>9, <1>10, <1>11, <1>14, <1>15, <1>16 DEF FileInv

\* A file is written under a free name, for an image that nobody knows yet.
LEMMA SaveFiles ==
  ASSUME TypeOK, FileInv, NEW r \in Requests, SaveFile(r)
  PROVE  FileInv'
<1>1. /\ pc[r] = "saving" /\ row[r] = None /\ job[r].op = "upload"
      /\ UNCHANGED <<images, job>> /\ Moves(r)
  BY NewFile, ImageType DEF FileInv
<1>2. CASE UNCHANGED <<disk, row>> /\ Goto(r, "invalid")
  <2>1. pc'[r] = "invalid"
    BY <1>2, GotoFacts DEF Ended
  <2> QED
    BY <1>1, <1>2, <2>1, QuietFiles DEF OnImages, Ended
<1>3. ASSUME NEW f0 \in Paths, NEW new \in Typed,
             disk[f0] = None, disk' = [disk EXCEPT ![f0] = r], row' = [row EXCEPT ![r] = new],
             new # None, new.path = f0, Goto(r, "saved")
      PROVE  FileInv'
  <2>1. pc'[r] = "saved" /\ \A q \in Requests \ {r} : pc'[q] = pc[q]
    BY <1>1, <1>3, GotoFacts DEF Running, Moves
  <2>2. /\ row'[r] = new /\ disk'[f0] = r
        /\ \A q \in Requests \ {r} : row'[q] = row[q]
        /\ \A g \in Paths \ {f0} : disk'[g] = disk[g]
    BY <1>3 DEF TypeOK
  <2>3. \A q \in Requests : \A i : /\ Removes(q, i)' <=> Removes(q, i)
                                   /\ Removes(q, i) => q # r
    BY <1>1, <2>2 DEF Removes
  <2>4. \A i : Uploaded(i) => i # r /\ Uploaded(i)'
    BY <1>1, <2>1 DEF Uploaded
  <2>5. images[r] = None
    BY <1>1, <2>4 DEF FileInv, RowsAreUploaded, Images
  <2>6. r \in Images /\ r # None /\ \A i \in Images : i # None
    BY PlantillasAssumption DEF Images
  <2>7. JobsFit'
    BY <1>1, <1>3, <2>1, <2>2 DEF FileInv, JobsFit
  <2>8. RowsAreUploaded'
    BY <1>1, <2>2, <2>3, <2>4 DEF FileInv, RowsAreUploaded
  <2>9. \A g \in Paths : disk[g] # None => disk[g] # r
    BY <1>1 DEF FileInv, FilesFit
  <2>10. FilesFit'
    BY <1>1, <1>3, <2>1, <2>2, <2>5, <2>9 DEF FileInv, FilesFit
  <2>11. \A q \in Requests, k \in Images : Removes(q, k) => k # r
    BY <2>4 DEF FileInv, RowsAreUploaded
  <2>12. UnlinkedIsGone'
    <3> SUFFICES ASSUME NEW q \in Requests, pc'[q] = "unlinked"
                 PROVE  disk'[row'[q].path] # job[q].id
      BY <1>1 DEF UnlinkedIsGone
    <3>1. q # r /\ pc[q] = "unlinked" /\ row'[q] = row[q]
      BY <2>1, <2>2
    <3>2. job[q] \in Jobs /\ job[q].op = "delete" /\ row[q] # None
      BY <3>1, ItsJob DEF FileInv, JobsFit
    <3>3. job[q].id \in Images /\ Removes(q, job[q].id)
      BY <3>2, JobTypes, JobsAreJobs DEF Removes
    <3>4. row[q].path \in Paths
      BY <3>2 DEF TypeOK
    <3> QED
      BY <2>2, <2>11, <3>1, <3>3, <3>4 DEF FileInv, UnlinkedIsGone
  <2>13. \A k \in Images, f \in Paths : Doubled(k, f) => Doubled(k, f)'
    <3> SUFFICES ASSUME NEW k \in Images, NEW f \in Paths, Doubled(k, f)
                 PROVE  Doubled(k, f)'
      OBVIOUS
    <3>1. PICK q1, q2 \in Requests :
            q1 # q2 /\ Removes(q1, k) /\ Removes(q2, k) /\ row[q1].path = f /\ row[q2].path = f
      BY DEF Doubled
    <3>2. disk'[f] # k
      BY <2>2, <2>11, <3>1 DEF Doubled
    <3>3. row'[q1] = row[q1] /\ row'[q2] = row[q2] /\ Removes(q1, k)' /\ Removes(q2, k)'
      BY <2>2, <2>3, <3>1
    <3> QED
      BY <3>1, <3>2, <3>3 DEF Doubled
  <2>14. LossesAreExplained'
    <3> SUFFICES ASSUME NEW i \in Images, NEW f \in Paths, Named(i, f)', disk'[f] # i
                 PROVE  \/ \E q \in Requests : Removes(q, i) /\ pc'[q] \in {"unlinked", "dead"}
                        \/ \E k \in Images \ {i} : Doubled(k, f)
      BY <2>3, <2>13 DEF LossesAreExplained
    <3>1. i # r
      BY <1>1, <1>3, <2>2, <2>5 DEF Named
    <3>2. Named(i, f)
      BY <1>1, <2>1, <2>2, <3>1 DEF Named
    <3>3. disk[f] # i
      BY <1>3, <2>2, <2>6
    <3>4. \A q \in Requests : pc[q] \in {"unlinked", "dead"} => pc'[q] = pc[q]
      BY <1>1, <2>1
    <3> QED
      BY <3>2, <3>3, <3>4 DEF FileInv, LossesAreExplained
  <2>15. ReadersWereFirst'
    <3> SUFFICES ASSUME NEW q \in Requests, pc'[q] = "read", disk'[row'[q].path] # job[q].id
                 PROVE  \/ \E p \in Requests : Removes(p, job[q].id)' /\ pc'[p] # "read" /\ row'[p].path = row'[q].path
                        \/ \E k \in Images \ {job[q].id} : Doubled(k, row[q].path)'
      BY <1>1 DEF ReadersWereFirst
    <3>1. q # r /\ pc[q] = "read" /\ row'[q] = row[q]
      BY <2>1, <2>2
    <3>2. job[q] \in Jobs /\ job[q].op = "delete" /\ row[q] # None
      BY <3>1, ItsJob DEF FileInv, JobsFit
    <3>3. job[q].id \in Images /\ row[q].path \in Paths
      BY <3>2, JobTypes DEF TypeOK
    <3>4. disk[row[q].path] # job[q].id
      BY <1>3, <2>2, <2>6, <3>1, <3>3
    <3>5. CASE \E p \in Requests : Removes(p, job[q].id) /\ pc[p] # "read" /\ row[p].path = row[q].path
      BY <1>1, <2>1, <2>2, <2>3, <3>1, <3>5
    <3>6. CASE \E k \in Images \ {job[q].id} : Doubled(k, row[q].path)
      <4>1. PICK f, k : k \in Images \ {job[q].id} /\ f = row[q].path /\ Doubled(k, f)
        BY <3>6
      <4>2. Doubled(k, f)' /\ row'[q].path = f
        BY <2>13, <3>1, <3>3, <4>1
      <4> QED
        BY <1>1, <4>1, <4>2 DEF Doubled
    <3> QED
      BY <3>1, <3>4, <3>5, <3>6 DEF FileInv, ReadersWereFirst
  <2>16. LeftoversAreExplained'
    BY <1>1, <1>3, <2>1, <2>2, <2>9 DEF FileInv, LeftoversAreExplained
  <2> QED
    BY <2>7, <2>8, <2>10, <2>12, <2>14, <2>15, <2>16 DEF FileInv
<1> QED
  BY <1>2, <1>3, NewFile DEF FileInv

\* The row of a file comes when its upload ends: it names what was saved.
LEMMA InsertFiles ==
  ASSUME TypeOK, FileInv, NEW r \in Requests, InsertRow(r)
  PROVE  FileInv'
<1>1. /\ pc[r] = "saved" /\ row[r] # None /\ UNCHANGED <<disk, job, row>> /\ Moves(r)
      /\ r \in Images
  BY ImageType DEF FileInv, JobsFit, InsertRow, Images
<1>2. \A q \in Requests \ {r} : pc'[q] = pc[q]
  BY <1>1 DEF Moves
<1>3. \/ images' = images /\ pc'[r] \in {"error", "duplicate"}
      \/ images' = [images EXCEPT ![r] = row[r]] /\ pc'[r] = "ok" /\ ~Duplicate(row[r])
  <2>1. CASE images' = images /\ (Goto(r, "error") \/ Goto(r, "duplicate"))
    BY <2>1, GotoFacts DEF Ended
  <2>2. CASE images' = [images EXCEPT ![r] = row[r]] /\ Goto(r, "ok") /\ ~Duplicate(row[r])
    BY <2>2, GotoFacts DEF Ended
  <2> QED
    BY <2>1, <2>2 DEF InsertRow
<1>4. /\ pc'[r] \in {"error", "duplicate", "ok"}
      /\ \A i \in Images : i # r => images'[i] = images[i]
      /\ images'[r] # None => images'[r] = row[r] /\ pc'[r] = "ok"
      /\ pc'[r] = "ok" => images'[r] = row[r]
  <2>1. images[r] = None
    BY <1>1 DEF FileInv, RowsAreUploaded, Uploaded
  <2> QED
    BY <1>1, <1>3, <2>1 DEF TypeOK
<1>5. \A q, i : Removes(q, i)' <=> Removes(q, i)
  BY <1>1, RemovesStays
<1>6. \A i : Uploaded(i) => i # r /\ Uploaded(i)'
  BY <1>1, <1>2 DEF Uploaded
<1>7. images[r] = None /\ \A q \in Requests : ~Removes(q, r)
  BY <1>1, <1>6 DEF FileInv, RowsAreUploaded
<1>8. JobsFit'
  <2>1. job[r] # None
    BY <1>1 DEF FileInv, JobsFit
  <2> QED
    BY <1>1, <1>2, <1>4, <2>1 DEF FileInv, JobsFit
<1>9. RowsAreUploaded'
  <2>1. \A i \in Images : images'[i] # None => Uploaded(i)'
    BY <1>2, <1>4, <1>6 DEF FileInv, RowsAreUploaded, Uploaded
  <2>2. \A q \in Requests, i \in Images : Removes(q, i)' => Uploaded(i)' /\ (images'[i] # None => row'[q] = images'[i])
    BY <1>1, <1>4, <1>5, <1>6, <1>7 DEF FileInv, RowsAreUploaded
  <2>3. \A i, k \in Images : images'[i] # None /\ images'[k] # None /\ images'[i].slug = images'[k].slug
                               /\ images'[i].scope = images'[k].scope => i = k
    BY <1>1, <1>3, <1>4, <1>7 DEF FileInv, RowsAreUploaded, Duplicate, TypeOK
  <2> QED
    BY <2>1, <2>2, <2>3 DEF RowsAreUploaded
<1>10. FilesFit'
  BY <1>1, <1>2, <1>4 DEF FileInv, FilesFit, TypeOK
<1>11. UnlinkedIsGone'
  BY <1>1, <1>2, <1>4 DEF FileInv, UnlinkedIsGone
<1>12. \A k, f : Doubled(k, f) => Doubled(k, f)'
  BY <1>1, <1>5 DEF Doubled
<1>13. \A i \in Images : \A f : Named(i, f)' => Named(i, f)
  BY <1>1, <1>2, <1>4 DEF Named
<1>14. LossesAreExplained'
  <2> SUFFICES ASSUME NEW i \in Images, NEW f \in Paths, Named(i, f), disk[f] # i
               PROVE  \/ \E q \in Requests : Removes(q, i) /\ pc'[q] \in {"unlinked", "dead"}
                      \/ \E k \in Images \ {i} : Doubled(k, f)
    BY <1>1, <1>5, <1>12, <1>13 DEF LossesAreExplained
  <2>1. \A q \in Requests : pc[q] \in {"unlinked", "dead"} => pc'[q] = pc[q]
    BY <1>1, <1>2
  <2> QED
    BY <2>1 DEF FileInv, LossesAreExplained
<1>15. ReadersWereFirst'
  <2> SUFFICES ASSUME NEW q \in Requests, pc'[q] = "read", disk[row[q].path] # job[q].id
               PROVE  \/ \E p \in Requests : Removes(p, job[q].id) /\ pc'[p] # "read" /\ row[p].path = row[q].path
                      \/ \E k \in Images \ {job[q].id} : Doubled(k, row[q].path)
    BY <1>1, <1>5, <1>12 DEF ReadersWereFirst
  <2>1. pc[q] = "read" /\ \A p \in Requests : pc'[p] = "read" => pc[p] = "read"
    BY <1>2, <1>4
  <2> QED
    BY <2>1 DEF FileInv, ReadersWereFirst
<1>16. LeftoversAreExplained'
  <2> SUFFICES ASSUME NEW f \in Paths, disk[f] # None, images'[disk[f]] = None
               PROVE  disk[f] \in Requests /\ pc'[disk[f]] \in {"saved", "duplicate", "error", "dead"}
    BY <1>1 DEF LeftoversAreExplained
  <2>1. disk[f] \in Images
    BY DEF TypeOK
  <2>2. CASE disk[f] = r
    BY <1>1, <1>4, <2>2
  <2>3. CASE disk[f] # r
    <3>1. images[disk[f]] = None
      BY <1>4, <2>1, <2>3
    <3>2. disk[f] \in Requests /\ pc[disk[f]] \in {"saved", "duplicate", "error", "dead"}
      BY <3>1 DEF FileInv, LeftoversAreExplained
    <3> QED
      BY <1>2, <2>3, <3>2
  <2> QED
    BY <2>2, <2>3
<1> QED
  BY <1>8, <1>9, <1>10, <1>11, <1>14, <1>15, <1>16 DEF FileInv

\* Who reads a row whose file is not its own comes after whoever unlinked that.
LEMMA ReadFiles ==
  ASSUME TypeOK, FileInv, NEW r \in Requests, ReadRow(r)
  PROVE  FileInv'
<1>1. /\ pc[r] = "deleting" /\ row[r] = None /\ job[r].op = "delete" /\ job[r] # None
      /\ UNCHANGED <<images, disk, job>> /\ Moves(r) /\ job[r].id \in Images
      /\ row' = [row EXCEPT ![r] = images[job[r].id]]
  BY ImageType, JobTypes DEF FileInv, JobsFit, ReadRow
<1>2. CASE images[job[r].id] = None
  <2>1. Goto(r, "notfound")
    BY <1>2 DEF ReadRow
  <2>2. pc'[r] = "notfound"
    BY <2>1, GotoFacts DEF Ended
  <2>3. row' = row
    BY <1>1, <1>2 DEF TypeOK
  <2> QED
    BY <1>1, <2>2, <2>3, QuietFiles DEF OnImages, Ended
<1>3. CASE images[job[r].id] # None
  <2>1. Goto(r, "read")
    BY <1>3 DEF ReadRow
  <2>2. pc'[r] = "read" /\ \A q \in Requests \ {r} : pc'[q] = pc[q]
    BY <1>1, <2>1, GotoFacts DEF Running, Moves
  <2>3. row'[r] = images[job[r].id] /\ \A q \in Requests \ {r} : row'[q] = row[q]
    BY <1>1 DEF TypeOK
  <2>4. \A q \in Requests : \A i : Removes(q, i) => q # r /\ Removes(q, i)'
    BY <1>1, <2>3 DEF Removes
  <2>5. \A q \in Requests : \A i : Removes(q, i)' => Removes(q, i) \/ (q = r /\ i = job[r].id)
    BY <1>1, <2>3 DEF Removes
  <2>6. \A i : Uploaded(i) => Uploaded(i)'
    BY <1>1, <2>2 DEF Uploaded
  <2>7. JobsFit'
    BY <1>1, <1>3, <2>2, <2>3 DEF FileInv, JobsFit
  <2>8. RowsAreUploaded'
    <3>1. \A i \in Images : images[i] # None => Uploaded(i)'
      BY <2>6 DEF FileInv, RowsAreUploaded
    <3>2. \A q \in Requests, i \in Images : Removes(q, i)' => Uploaded(i)' /\ (images[i] # None => row'[q] = images[i])
      <4> SUFFICES ASSUME NEW q \in Requests, NEW i \in Images, Removes(q, i)'
                   PROVE  Uploaded(i)' /\ (images[i] # None => row'[q] = images[i])
        OBVIOUS
      <4>1. CASE Removes(q, i)
        BY <2>3, <2>4, <2>6, <4>1 DEF FileInv, RowsAreUploaded
      <4>2. CASE q = r /\ i = job[r].id
        BY <1>3, <2>3, <3>1, <4>2
      <4> QED
        BY <2>5, <4>1, <4>2
    <3> QED
      BY <1>1, <3>1, <3>2 DEF FileInv, RowsAreUploaded
  <2>9. \A g \in Paths : disk[g] # None => disk[g] # r
    BY <1>1 DEF FileInv, FilesFit
  <2>10. FilesFit'
    BY <1>1, <2>2, <2>3, <2>9 DEF FileInv, FilesFit
  <2>11. UnlinkedIsGone'
    BY <1>1, <2>2, <2>3 DEF FileInv, UnlinkedIsGone
  <2>12. \A k, f : Doubled(k, f) => Doubled(k, f)'
    BY <1>1, <2>3, <2>4 DEF Doubled
  <2>13. \A i, f : Named(i, f)' => Named(i, f)
    BY <1>1, <2>2, <2>3 DEF Named
  <2>14. LossesAreExplained'
    <3> SUFFICES ASSUME NEW i \in Images, NEW f \in Paths, Named(i, f), disk[f] # i
                 PROVE  \/ \E q \in Requests : Removes(q, i) /\ pc'[q] \in {"unlinked", "dead"}
                        \/ \E k \in Images \ {i} : Doubled(k, f)
      BY <1>1, <2>4, <2>12, <2>13 DEF LossesAreExplained
    <3>1. \A q \in Requests : pc[q] \in {"unlinked", "dead"} => pc'[q] = pc[q]
      BY <1>1, <2>2
    <3> QED
      BY <3>1 DEF FileInv, LossesAreExplained
  <2>15. ReadersWereFirst'
    <3> SUFFICES ASSUME NEW q \in Requests, pc'[q] = "read", disk[row'[q].path] # job[q].id
                 PROVE  \/ \E p \in Requests : Removes(p, job[q].id) /\ pc'[p] # "read" /\ row'[p].path = row'[q].path
                        \/ \E k \in Images \ {job[q].id} : Doubled(k, row'[q].path)
      BY <1>1, <2>4, <2>12 DEF ReadersWereFirst
    <3>1. CASE q = r
      <4>1. row'[r].path \in Paths
        BY <1>1, <1>3, <2>3 DEF TypeOK, Image
      <4>2. Named(job[r].id, row'[r].path) /\ disk[row'[r].path] # job[r].id
        BY <1>3, <2>3, <3>1 DEF Named
      <4>3. CASE \E k \in Images \ {job[r].id} : Doubled(k, row'[r].path)
        BY <3>1, <4>3
      <4>4. CASE \E p \in Requests : Removes(p, job[r].id) /\ pc[p] \in {"unlinked", "dead"}
        <5>1. PICK p \in Requests : Removes(p, job[r].id) /\ pc[p] \in {"unlinked", "dead"}
          BY <4>4
        <5>2. p # r /\ row'[p] = row[p] /\ pc'[p] = pc[p]
          BY <2>2, <2>3, <2>4, <5>1
        <5>3. row[p] = images[job[r].id]
          BY <1>1, <1>3, <5>1 DEF FileInv, RowsAreUploaded
        <5> QED
          BY <2>3, <3>1, <5>1, <5>2, <5>3
      <4> QED
        BY <1>1, <4>1, <4>2, <4>3, <4>4 DEF FileInv, LossesAreExplained
    <3>2. CASE q # r
      <4>1. pc[q] = "read" /\ row'[q] = row[q]
        BY <2>2, <2>3, <3>2
      <4>2. \A p \in Requests : Removes(p, job[q].id) => pc'[p] = pc[p] /\ row'[p] = row[p]
        BY <2>2, <2>3, <2>4
      <4> QED
        BY <4>1, <4>2 DEF FileInv, ReadersWereFirst
    <3> QED
      BY <3>1, <3>2
  <2>16. LeftoversAreExplained'
    BY <1>1, <2>2, <2>9 DEF FileInv, LeftoversAreExplained
  <2> QED
    BY <2>7, <2>8, <2>10, <2>11, <2>14, <2>15, <2>16 DEF FileInv
<1> QED
  BY <1>2, <1>3

\* Whoever unlinks a file of another image is the second to have read a row of
\* its own image.
LEMMA UnlinkFiles ==
  ASSUME TypeOK, FileInv, NEW r \in Requests, Unlink(r)
  PROVE  FileInv'
<1>1. /\ pc[r] = "read" /\ row[r] # None /\ job[r].op = "delete"
      /\ UNCHANGED <<images, job, row>> /\ Moves(r) /\ job[r] # None
      /\ job[r].id \in Images
  BY ImageType, JobTypes DEF FileInv, JobsFit, Unlink
<1>2. PICK f0, k0 : f0 = row[r].path /\ k0 = job[r].id
  OBVIOUS
<1>3. f0 \in Paths /\ k0 \in Images /\ Removes(r, k0) /\ disk' = [disk EXCEPT ![f0] = None]
  BY <1>1, <1>2 DEF Unlink, Removes, TypeOK
<1>4. pc'[r] = "unlinked" /\ \A q \in Requests \ {r} : pc'[q] = pc[q]
  <2>1. Goto(r, "unlinked")
    BY DEF Unlink
  <2> QED
    BY <1>1, <2>1, GotoFacts DEF Running, Moves
<1>5. disk'[f0] = None /\ (\A g \in Paths \ {f0} : disk'[g] = disk[g]) /\ \A i \in Images : i # None
  BY <1>3, PlantillasAssumption DEF TypeOK, Images
<1>6. \A q, i : Removes(q, i)' <=> Removes(q, i)
  BY <1>1, RemovesStays
<1>7. \A i : Uploaded(i) => Uploaded(i)'
  BY <1>1, <1>4 DEF Uploaded
<1>8. JobsFit'
  BY <1>1, <1>4 DEF FileInv, JobsFit
<1>9. RowsAreUploaded'
  BY <1>1, <1>6, <1>7 DEF FileInv, RowsAreUploaded
<1>10. FilesFit'
  BY <1>1, <1>4, <1>5 DEF FileInv, FilesFit
<1>11. UnlinkedIsGone'
  <2> SUFFICES ASSUME NEW q \in Requests, pc'[q] = "unlinked"
               PROVE  disk'[row[q].path] # job[q].id
    BY <1>1 DEF UnlinkedIsGone
  <2>1. CASE q = r
    BY <1>2, <1>3, <1>5, <2>1
  <2>2. CASE q # r
    <3>1. pc[q] = "unlinked"
      BY <1>4, <2>2
    <3>2. job[q] \in Jobs /\ job[q].op = "delete" /\ row[q] # None
      BY <3>1, ItsJob DEF FileInv, JobsFit
    <3>3. job[q].id \in Images /\ row[q].path \in Paths
      BY <3>2, JobTypes DEF TypeOK
    <3> QED
      BY <1>5, <3>1, <3>3 DEF FileInv, UnlinkedIsGone
  <2> QED
    BY <2>1, <2>2
<1>12. \A k \in Images, f \in Paths : Doubled(k, f) => Doubled(k, f)'
  BY <1>1, <1>5, <1>6 DEF Doubled
<1>13. \A i, f : Named(i, f)' => Named(i, f)
  BY <1>1, <1>4 DEF Named
\* The other deletion, where the file was of another image.
<1>14. ASSUME NEW m \in Images, disk[f0] = m, m # k0
       PROVE  \E k \in Images \ {m} : Doubled(k, f0)'
  <2>1. CASE \E q \in Requests : Removes(q, k0) /\ pc[q] # "read" /\ row[q].path = f0
    <3>1. PICK q \in Requests : Removes(q, k0) /\ pc[q] # "read" /\ row[q].path = f0
      BY <2>1
    <3>2. q # r
      BY <1>1, <3>1
    <3>3. Doubled(k0, f0)'
      BY <1>1, <1>2, <1>3, <1>5, <1>6, <3>1, <3>2 DEF Doubled
    <3> QED
      BY <1>3, <1>14, <3>3
  <2>2. CASE \E k \in Images \ {k0} : Doubled(k, f0)
    <3>1. PICK k \in Images : Doubled(k, f0)
      BY <2>2
    <3>2. k # m
      BY <1>14, <3>1 DEF Doubled
    <3> QED
      BY <1>3, <1>12, <3>1, <3>2
  <2> QED
    BY <1>1, <1>2, <1>14, <2>1, <2>2 DEF FileInv, ReadersWereFirst
<1>15. LossesAreExplained'
  <2> SUFFICES ASSUME NEW i \in Images, NEW f \in Paths, Named(i, f), disk'[f] # i
               PROVE  \/ \E q \in Requests : Removes(q, i) /\ pc'[q] \in {"unlinked", "dead"}
                      \/ \E k \in Images \ {i} : Doubled(k, f)'
    BY <1>6, <1>13 DEF LossesAreExplained
  <2>1. CASE disk[f] # i
    <3>1. \A q \in Requests : pc[q] \in {"unlinked", "dead"} => pc'[q] = pc[q]
      BY <1>1, <1>4
    <3> QED
      BY <1>12, <2>1, <3>1 DEF FileInv, LossesAreExplained
  <2>2. CASE disk[f] = i
    <3>1. f = f0
      BY <1>5, <2>2
    <3>2. CASE i = k0
      BY <1>3, <1>4, <3>2
    <3>3. CASE i # k0
      BY <1>14, <2>2, <3>1, <3>3
    <3> QED
      BY <3>2, <3>3
  <2> QED
    BY <2>1, <2>2
<1>16. ReadersWereFirst'
  <2> SUFFICES ASSUME NEW q \in Requests, pc'[q] = "read", disk'[row[q].path] # job[q].id
               PROVE  \/ \E p \in Requests : Removes(p, job[q].id) /\ pc'[p] # "read" /\ row[p].path = row[q].path
                      \/ \E k \in Images \ {job[q].id} : Doubled(k, row[q].path)'
    BY <1>1, <1>6 DEF ReadersWereFirst
  <2>1. q # r /\ pc[q] = "read" /\ \A p \in Requests : pc'[p] = "read" => pc[p] = "read"
    BY <1>4
  <2>2. job[q] \in Jobs /\ job[q].op = "delete" /\ row[q] # None
    BY <2>1, ItsJob DEF FileInv, JobsFit
  <2>3. job[q].id \in Images /\ row[q].path \in Paths
    BY <2>2, JobTypes DEF TypeOK
  <2>4. CASE disk[row[q].path] # job[q].id
    <3>1. CASE \E p \in Requests : Removes(p, job[q].id) /\ pc[p] # "read" /\ row[p].path = row[q].path
      BY <2>1, <3>1
    <3>2. CASE \E k \in Images \ {job[q].id} : Doubled(k, row[q].path)
      <4>1. PICK f, k : k \in Images \ {job[q].id} /\ f = row[q].path /\ Doubled(k, f)
        BY <3>2
      <4>2. Doubled(k, f)' /\ row'[q].path = f
        BY <1>1, <1>12, <2>3, <4>1
      <4> QED
        BY <1>1, <4>1, <4>2 DEF Doubled
    <3> QED
      BY <2>1, <2>4, <3>1, <3>2 DEF FileInv, ReadersWereFirst
  <2>5. CASE disk[row[q].path] = job[q].id
    <3>1. row[q].path = f0
      BY <1>5, <2>3, <2>5
    <3>2. CASE job[q].id = k0
      BY <1>2, <1>3, <1>4, <3>1, <3>2
    <3>3. CASE job[q].id # k0
      <4>1. PICK m : m = job[q].id
        OBVIOUS
      <4>2. PICK k \in Images \ {m} : Doubled(k, f0)'
        BY <1>14, <2>3, <2>5, <3>1, <3>3, <4>1
      <4> QED
        BY <1>1, <3>1, <4>1, <4>2 DEF Doubled
    <3> QED
      BY <3>2, <3>3
  <2> QED
    BY <2>4, <2>5
<1>17. LeftoversAreExplained'
  <2>1. \A q \in Requests : pc[q] \in {"saved", "duplicate", "error", "dead"} => pc'[q] = pc[q]
    BY <1>1, <1>4
  <2> QED
    BY <1>1, <1>5, <2>1 DEF FileInv, LeftoversAreExplained
<1> QED
  BY <1>8, <1>9, <1>10, <1>11, <1>15, <1>16, <1>17 DEF FileInv

\* When a row goes, no file is its image's any more.
LEMMA DeleteFiles ==
  ASSUME TypeOK, FileInv, NEW r \in Requests, DeleteRow(r)
  PROVE  FileInv'
<1>1. /\ pc[r] = "unlinked" /\ row[r] # None /\ job[r].op = "delete"
      /\ UNCHANGED <<disk, job, row>> /\ Moves(r) /\ job[r] # None
      /\ job[r].id \in Images
  BY ImageType, JobTypes DEF FileInv, JobsFit, DeleteRow
<1>2. PICK k0 : k0 = job[r].id
  OBVIOUS
<1>3. /\ k0 \in Images /\ Removes(r, k0) /\ images'[k0] = None
      /\ \A i \in Images : i # k0 => images'[i] = images[i]
  BY <1>1, <1>2 DEF DeleteRow, Removes, TypeOK
<1>4. pc'[r] = "ok" /\ \A q \in Requests \ {r} : pc'[q] = pc[q]
  <2>1. Goto(r, "ok")
    BY DEF DeleteRow
  <2> QED
    BY <1>1, <2>1, GotoFacts DEF Ended, Moves
<1>5. \A q, i : Removes(q, i)' <=> Removes(q, i)
  BY <1>1, RemovesStays
<1>6. \A i : Uploaded(i) => Uploaded(i)'
  BY <1>1, <1>4 DEF Uploaded
<1>7. \A i \in Images : images'[i] # None => images'[i] = images[i]
  BY <1>3
<1>8. JobsFit'
  BY <1>1, <1>4 DEF FileInv, JobsFit
<1>9. RowsAreUploaded'
  BY <1>1, <1>5, <1>6, <1>7 DEF FileInv, RowsAreUploaded
<1>10. FilesFit'
  BY <1>1, <1>4, <1>7 DEF FileInv, FilesFit, TypeOK
<1>11. UnlinkedIsGone'
  BY <1>1, <1>4 DEF FileInv, UnlinkedIsGone
<1>12. \A k, f : Doubled(k, f) => Doubled(k, f)'
  BY <1>1, <1>5 DEF Doubled
<1>13. \A i \in Images : \A f : Named(i, f)' => Named(i, f)
  BY <1>1, <1>4, <1>7 DEF Named
<1>14. LossesAreExplained'
  <2> SUFFICES ASSUME NEW i \in Images, NEW f \in Paths, Named(i, f)', disk[f] # i
               PROVE  \/ \E q \in Requests : Removes(q, i) /\ pc'[q] \in {"unlinked", "dead"}
                      \/ \E k \in Images \ {i} : Doubled(k, f)
    BY <1>1, <1>5, <1>12 DEF LossesAreExplained
  <2>1. Named(i, f)
    BY <1>13
  <2>2. CASE \E k \in Images \ {i} : Doubled(k, f)
    BY <2>2
  <2>3. CASE \E q \in Requests : Removes(q, i) /\ pc[q] \in {"unlinked", "dead"}
    <3>1. PICK q \in Requests : Removes(q, i) /\ pc[q] \in {"unlinked", "dead"}
      BY <2>3
    <3>2. CASE q # r
      BY <1>4, <3>1, <3>2
    <3>3. CASE q = r
      <4>1. i = k0
        BY <1>2, <3>1, <3>3 DEF Removes
      <4>2. i \in Requests /\ pc'[i] = "saved"
        BY <1>3, <4>1 DEF Named
      <4>3. pc[i] = "ok"
        BY <1>3, <4>1, <4>2 DEF FileInv, RowsAreUploaded, Uploaded
      <4> QED
        BY <1>4, <4>2, <4>3
    <3> QED
      BY <3>2, <3>3
  <2> QED
    BY <2>1, <2>2, <2>3 DEF FileInv, LossesAreExplained
<1>15. ReadersWereFirst'
  <2> SUFFICES ASSUME NEW q \in Requests, pc'[q] = "read", disk[row[q].path] # job[q].id
               PROVE  \/ \E p \in Requests : Removes(p, job[q].id) /\ pc'[p] # "read" /\ row[p].path = row[q].path
                      \/ \E k \in Images \ {job[q].id} : Doubled(k, row[q].path)
    BY <1>1, <1>5, <1>12 DEF ReadersWereFirst
  <2>1. pc[q] = "read" /\ \A p \in Requests : pc'[p] = "read" => pc[p] = "read"
    BY <1>4
  <2> QED
    BY <2>1 DEF FileInv, ReadersWereFirst
<1>16. LeftoversAreExplained'
  <2> SUFFICES ASSUME NEW f \in Paths, disk[f] # None, images'[disk[f]] = None
               PROVE  disk[f] \in Requests /\ pc'[disk[f]] \in {"saved", "duplicate", "error", "dead"}
    BY <1>1 DEF LeftoversAreExplained
  <2>1. disk[f] \in Images
    BY DEF TypeOK
  <2>2. images[disk[f]] = None
    <3> SUFFICES ASSUME images[disk[f]] # None
                 PROVE  FALSE
      OBVIOUS
    <3>1. disk[f] = k0
      BY <1>3, <2>1
    <3>2. images[k0].path = f /\ row[r] = images[k0]
      BY <1>3, <3>1 DEF FileInv, FilesFit, RowsAreUploaded
    <3> QED
      BY <1>1, <1>2, <3>1, <3>2 DEF FileInv, UnlinkedIsGone
  <2>3. disk[f] \in Requests /\ pc[disk[f]] \in {"saved", "duplicate", "error", "dead"}
    BY <2>2 DEF FileInv, LeftoversAreExplained
  <2> QED
    BY <1>1, <1>4, <2>3
<1> QED
  BY <1>8, <1>9, <1>10, <1>11, <1>14, <1>15, <1>16 DEF FileInv

\* What every step does to rows and files.
LEMMA StepFiles ==
  ASSUME TypeOK, FileInv, [Next]_vars
  PROVE  TypeOK' /\ FileInv'
<1>1. CASE UNCHANGED vars
  BY <1>1 DEF vars, TypeOK, IsLocal, FileInv, JobsFit, RowsAreUploaded, Uploaded, Removes, FilesFit,
              UnlinkedIsGone, LossesAreExplained, Named, Doubled, ReadersWereFirst, LeftoversAreExplained
<1>2. ASSUME NEW r \in Requests, Arrive(r) \/ Die(r)
      PROVE  TypeOK' /\ FileInv'
  BY <1>2, ArriveType, ArriveFiles, DieFiles
<1>3. ASSUME NEW r \in Requests,
             CreatePlantilla(r) \/ UpdatePlantilla(r) \/ DeactivatePlantilla(r)
               \/ ChoosePlantilla(r) \/ SaveTipo(r)
      PROVE  TypeOK' /\ FileInv'
  <2>1. /\ TypeOK' /\ Moves(r) /\ pc[r] \in {"form", "page"}
        /\ pc'[r] \in {"ok", "invalid", "notfound", "page"}
        /\ UNCHANGED <<images, disk, job, row>>
    BY <1>3, EditType DEF FileInv
  <2>2. pc'[r] = "page" => pc[r] = "page"
    <3>1. CASE ChoosePlantilla(r)
      BY <3>1 DEF ChoosePlantilla
    <3>2. CASE ~ChoosePlantilla(r)
      <4>1. PICK l \in {"ok", "invalid", "notfound"} : Goto(r, l)
        BY <1>3, <3>2 DEF CreatePlantilla, UpdatePlantilla, DeactivatePlantilla, SaveTipo, Write
      <4>2. pc'[r] = l
        BY <4>1, GotoFacts DEF Ended
      <4> QED
        BY <4>1, <4>2
    <3> QED
      BY <3>1, <3>2
  <2>3. FileInv'
    BY <2>1, <2>2, QuietFiles DEF OnImages, Ended
  <2> QED
    BY <2>1, <2>3
<1>4. ASSUME NEW r \in Requests,
             SaveFile(r) \/ InsertRow(r) \/ ReadRow(r) \/ Unlink(r) \/ DeleteRow(r)
      PROVE  TypeOK' /\ FileInv'
  BY <1>4, ImageType, SaveFiles, InsertFiles, ReadFiles, UnlinkFiles, DeleteFiles DEF FileInv
<1>5. ASSUME NEW r \in Requests,
             ReadTemplate(r) \/ ListImages(r) \/ (\E s \in Slugs : OpenFile(r, s))
               \/ RenderStored(r) \/ RenderPreview(r) \/ RenderDraft(r)
      PROVE  TypeOK' /\ FileInv'
  BY <1>5, RenderType, QuietFiles DEF OnImages, Ended
<1> QED
  BY <1>1, <1>2, <1>3, <1>4, <1>5 DEF Next, Step

-----------------------------------------------------------------------------
(* Renders and images.                                                     *)

\* A step that leaves the renders alone: what is taken from a name was unlinked
\* there by a deletion that has read a row with that name.
LEMMA QuietRenders ==
  ASSUME RenderInv, NEW r \in Requests, UNCHANGED <<listed, embedded>>, Moves(r),
         pc'[r] \in {"embedding"} \cup Ended \/ pc[r] \notin {"embedding"} \cup Ended,
         \A q \in Requests, k \in Images : Removes(q, k) => Removes(q, k)' /\ row'[q] = row[q],
         \A i \in Images, f \in Paths : disk[f] = i /\ disk'[f] # i =>
           \E q \in Requests, k \in Images : Removes(q, k)' /\ row'[q].path = f
  PROVE  RenderInv'
<1>1. ListedAreThere'
  <2> SUFFICES ASSUME NEW o \in Requests, NEW s \in DOMAIN listed[o],
                      disk'[listed[o][s].path] # listed[o][s].id
               PROVE  \E q \in Requests, k \in Images : Removes(q, k)' /\ row'[q].path = listed[o][s].path
    BY DEF RenderInv, ListedAreThere
  <2> QED
    BY DEF RenderInv, ListedAreThere
<1>2. RendersShowWhatTheyListed'
  <2> SUFFICES ASSUME NEW o \in Requests, NEW s \in DOMAIN embedded[o], embedded[o][s] # listed[o][s].id
               PROVE  \E q \in Requests, k \in Images : Removes(q, k)' /\ row'[q].path = listed[o][s].path
    BY DEF RendersShowWhatTheyListed
  <2> QED
    BY DEF RenderInv, RendersShowWhatTheyListed
<1> QED
  BY <1>1, <1>2 DEF RenderInv, Moves

\* The image that wins a slug is one that is there.
LEMMA WinnerFacts ==
  ASSUME FileInv, NEW p, NEW k \in Images, images[k] # None, images[k].scope \in {Global, p}
  PROVE  /\ Winner(p, images[k].slug) \in Images
         /\ images[Winner(p, images[k].slug)] # None
<1>1. PICK s : s = images[k].slug
  OBVIOUS
<1>2. \E i \in Images :
        /\ images[i] # None /\ images[i].slug = s /\ images[i].scope \in {Global, p}
        /\ \A l \in Images \ {i} : images[l] # None /\ images[l].slug = s => images[l].scope # p
  <2>1. CASE \E i \in Images : images[i] # None /\ images[i].slug = s /\ images[i].scope = p
    <3>1. PICK i \in Images : images[i] # None /\ images[i].slug = s /\ images[i].scope = p
      BY <2>1
    <3>2. \A l \in Images \ {i} : images[l] # None /\ images[l].slug = s => images[l].scope # p
      BY <3>1 DEF FileInv, RowsAreUploaded
    <3> QED
      BY <3>1, <3>2
  <2>2. CASE ~\E i \in Images : images[i] # None /\ images[i].slug = s /\ images[i].scope = p
    BY <1>1, <2>2
  <2> QED
    BY <2>1, <2>2
<1> QED
  BY <1>1, <1>2 DEF Winner

\* The file of a row that is there is its own, or a deletion knows its name.
LEMMA RowsAndReaders ==
  ASSUME TypeOK, FileInv, NEW w \in Images, images[w] # None, disk[images[w].path] # w
  PROVE  \E q \in Requests, k \in Images : Removes(q, k) /\ row[q].path = images[w].path
<1>1. images[w].path \in Paths /\ Named(w, images[w].path)
  BY DEF TypeOK, Image, Named
<1>2. CASE \E q \in Requests : Removes(q, w)
  BY <1>2 DEF FileInv, RowsAreUploaded
<1>3. CASE \E k \in Images : Doubled(k, images[w].path)
  BY <1>3 DEF Doubled
<1> QED
  BY <1>1, <1>2, <1>3 DEF FileInv, LossesAreExplained

LEMMA ListRenders ==
  ASSUME TypeOK, FileInv, RenderInv, NEW r \in Requests, ListImages(r)
  PROVE  RenderInv'
<1>1. /\ UNCHANGED <<disk, job, row, embedded>> /\ pc[r] = "listing" /\ Moves(r) /\ pc'[r] = "embedding"
  <2>1. Goto(r, "embedding")
    BY DEF ListImages
  <2> QED
    BY <2>1, GotoFacts DEF ListImages, Running
<1>2. PICK p, slugs :
        /\ slugs = {images[i].slug : i \in {k \in Images : images[k] # None /\ images[k].scope \in {Global, p}}}
        /\ listed' = [listed EXCEPT ![r] = [s \in slugs |-> [id |-> Winner(p, s),
                                                             path |-> images[Winner(p, s)].path]]]
  BY DEF ListImages
<1>3. /\ listed'[r] = [s \in slugs |-> [id |-> Winner(p, s), path |-> images[Winner(p, s)].path]]
      /\ \A q \in Requests \ {r} : listed'[q] = listed[q]
  BY <1>2 DEF TypeOK, IsLocal
<1>4. \A q, k : Removes(q, k)' <=> Removes(q, k)
  BY <1>1, RemovesStays
<1>5. DOMAIN embedded[r] = {}
  BY <1>1 DEF RenderInv, Ended
<1>6. ASSUME NEW s \in slugs
      PROVE  /\ Winner(p, s) \in Images /\ images[Winner(p, s)].path \in Paths
             /\ \/ disk[images[Winner(p, s)].path] = Winner(p, s)
                \/ \E q \in Requests, k \in Images : Removes(q, k) /\ row[q].path = images[Winner(p, s)].path
  <2>1. PICK k \in Images : images[k] # None /\ images[k].scope \in {Global, p} /\ s = images[k].slug
    BY <1>2, <1>6
  <2>2. Winner(p, s) \in Images /\ images[Winner(p, s)] # None
    BY <2>1, WinnerFacts
  <2>3. images[Winner(p, s)].path \in Paths
    BY <2>2 DEF TypeOK, Image
  <2> QED
    BY <2>2, <2>3, RowsAndReaders
<1>7. ListedAreThere'
  <2> SUFFICES ASSUME NEW o \in Requests, NEW s \in DOMAIN listed'[o]
               PROVE  /\ listed'[o][s].id \in Images /\ listed'[o][s].path \in Paths
                      /\ \/ disk[listed'[o][s].path] = listed'[o][s].id
                         \/ \E q \in Requests, k \in Images : Removes(q, k) /\ row[q].path = listed'[o][s].path
    BY <1>1, <1>4 DEF ListedAreThere
  <2>1. CASE o = r
    BY <1>3, <1>6, <2>1
  <2>2. CASE o # r
    BY <1>3, <2>2 DEF RenderInv, ListedAreThere
  <2> QED
    BY <2>1, <2>2
<1>8. RendersShowWhatTheyListed'
  <2> SUFFICES ASSUME NEW o \in Requests, NEW s \in DOMAIN embedded[o], embedded[o][s] # listed'[o][s].id
               PROVE  \E q \in Requests, k \in Images : Removes(q, k) /\ row[q].path = listed'[o][s].path
    BY <1>1, <1>4 DEF RendersShowWhatTheyListed
  <2>1. o # r
    BY <1>5
  <2> QED
    BY <1>3, <2>1 DEF RenderInv, RendersShowWhatTheyListed
<1> QED
  BY <1>1, <1>3, <1>5, <1>7, <1>8 DEF RenderInv, Moves

LEMMA OpenRenders ==
  ASSUME TypeOK, RenderInv, NEW r \in Requests, NEW s \in Slugs, OpenFile(r, s)
  PROVE  RenderInv'
<1>1. /\ UNCHANGED <<disk, job, row, listed, pc>> /\ pc[r] = "embedding"
      /\ s \in DOMAIN listed[r] \ DOMAIN embedded[r]
      /\ embedded' = [embedded EXCEPT ![r] = [t \in DOMAIN @ \cup {s} |->
                        IF t = s THEN disk[listed[r][s].path] ELSE @[t]]]
  BY DEF OpenFile
<1>2. /\ embedded'[r] = [t \in DOMAIN embedded[r] \cup {s} |->
                           IF t = s THEN disk[listed[r][s].path] ELSE embedded[r][t]]
      /\ \A q \in Requests \ {r} : embedded'[q] = embedded[q]
  BY <1>1 DEF TypeOK, IsLocal
<1>3. \A q, k : Removes(q, k)' <=> Removes(q, k)
  BY <1>1, RemovesStays
<1>4. ListedAreThere'
  BY <1>1, <1>3 DEF RenderInv, ListedAreThere
<1>5. RendersShowWhatTheyListed'
  <2> SUFFICES ASSUME NEW o \in Requests, NEW t \in DOMAIN embedded'[o], embedded'[o][t] # listed'[o][t].id
               PROVE  \E q \in Requests, k \in Images : Removes(q, k)' /\ row'[q].path = listed'[o][t].path
    BY Zenon DEF RendersShowWhatTheyListed
  <2>0. embedded'[o][t] # listed[o][t].id
    BY <1>1
  <2> DEFINE Took(q, k) == Removes(q, k) /\ row[q].path = listed[o][t].path
  <2>1. CASE o = r /\ t = s
    <3> \E q \in Requests, k \in Images : Took(q, k)
      BY <1>1, <1>2, <2>0, <2>1 DEF RenderInv, ListedAreThere
    <3> PICK q \in Requests, k \in Images : Took(q, k)
      OBVIOUS
    <3> QED
      BY <1>1, <1>3
  <2>2. CASE o # r \/ t # s
    <3>1. t \in DOMAIN embedded[o] /\ embedded'[o][t] = embedded[o][t]
      BY <1>2, <2>2
    <3> \E q \in Requests, k \in Images : Took(q, k)
      BY <2>0, <3>1 DEF RenderInv, RendersShowWhatTheyListed
    <3> PICK q \in Requests, k \in Images : Took(q, k)
      OBVIOUS
    <3> QED
      BY <1>1, <1>3
  <2> QED
    BY <2>1, <2>2
<1>6. \A q \in Requests : /\ DOMAIN embedded'[q] \subseteq DOMAIN listed[q]
                          /\ pc[q] \notin {"embedding"} \cup Ended => DOMAIN embedded'[q] = {}
  BY <1>1, <1>2 DEF RenderInv
<1> QED
  BY <1>1, <1>4, <1>5, <1>6 DEF RenderInv

LEMMA StepRenders ==
  ASSUME TypeOK, FileInv, RenderInv, [Next]_vars
  PROVE  RenderInv'
<1>1. CASE UNCHANGED vars
  BY <1>1 DEF vars, RenderInv, ListedAreThere, RendersShowWhatTheyListed, Removes
<1>2. ASSUME NEW r \in Requests, Arrive(r)
      PROVE  RenderInv'
  <2>1. /\ Moves(r) /\ pc[r] = "idle" /\ UNCHANGED <<disk, row, listed, embedded>>
        /\ row[r] = None
    BY <1>2, ArriveFiles DEF Arrive, FileInv, JobsFit
  <2>2. \A q \in Requests \ {r} : job'[q] = job[q]
    BY <1>2 DEF Arrive, TypeOK
  <2>3. \A q \in Requests, k \in Images : Removes(q, k) => Removes(q, k)' /\ row'[q] = row[q]
    BY <2>1, <2>2 DEF Removes
  <2> QED
    BY <2>1, <2>3, QuietRenders DEF Ended
<1>3. ASSUME NEW r \in Requests, Die(r)
      PROVE  RenderInv'
  <2>1. Moves(r) /\ pc'[r] = "dead" /\ UNCHANGED <<disk, job, row, listed, embedded>>
    BY <1>3, DieFiles DEF Die
  <2>2. \A q \in Requests, k \in Images : Removes(q, k) => Removes(q, k)' /\ row'[q] = row[q]
    BY <2>1, RemovesStays
  <2> QED
    BY <2>1, <2>2, QuietRenders DEF Ended
<1>4. ASSUME NEW r \in Requests,
             CreatePlantilla(r) \/ UpdatePlantilla(r) \/ DeactivatePlantilla(r)
               \/ ChoosePlantilla(r) \/ SaveTipo(r)
      PROVE  RenderInv'
  <2>1. /\ Moves(r) /\ pc[r] \in {"form", "page"}
        /\ UNCHANGED <<disk, job, row, listed, embedded>>
    BY <1>4, EditType DEF FileInv
  <2>2. \A q \in Requests, k \in Images : Removes(q, k) => Removes(q, k)' /\ row'[q] = row[q]
    BY <2>1, RemovesStays
  <2> QED
    BY <2>1, <2>2, QuietRenders DEF Ended
<1>5. ASSUME NEW r \in Requests, SaveFile(r)
      PROVE  RenderInv'
  <2>1. /\ pc[r] = "saving" /\ row[r] = None /\ UNCHANGED <<job, listed, embedded>> /\ Moves(r)
    BY <1>5, NewFile, ImageType DEF FileInv
  <2>2. \A q \in Requests \ {r} : row'[q] = row[q]
    BY <1>5, NewFile DEF FileInv, TypeOK
  <2>3. \A q \in Requests, k \in Images : Removes(q, k) => Removes(q, k)' /\ row'[q] = row[q]
    BY <2>1, <2>2 DEF Removes
  <2>4. \A i \in Images : i # None
    BY PlantillasAssumption DEF Images
  <2>5. \A f \in Paths : disk[f] # None => disk'[f] = disk[f]
    BY <1>5, NewFile DEF FileInv, TypeOK
  <2> QED
    BY <2>1, <2>3, <2>4, <2>5, QuietRenders DEF Ended
<1>6. ASSUME NEW r \in Requests, InsertRow(r) \/ DeleteRow(r)
      PROVE  RenderInv'
  <2>1. /\ Moves(r) /\ pc[r] \in {"saved", "unlinked"}
        /\ UNCHANGED <<disk, job, row, listed, embedded>>
    BY <1>6, ImageType DEF FileInv, InsertRow, DeleteRow
  <2>2. \A q \in Requests, k \in Images : Removes(q, k) => Removes(q, k)' /\ row'[q] = row[q]
    BY <2>1, RemovesStays
  <2> QED
    BY <2>1, <2>2, QuietRenders DEF Ended
<1>7. ASSUME NEW r \in Requests, ReadRow(r)
      PROVE  RenderInv'
  <2>1. /\ Moves(r) /\ pc[r] = "deleting" /\ row[r] = None
        /\ UNCHANGED <<disk, job, listed, embedded>>
    BY <1>7, ImageType DEF FileInv, JobsFit, ReadRow
  <2>2. \A q \in Requests \ {r} : row'[q] = row[q]
    BY <1>7 DEF ReadRow, TypeOK
  <2>3. \A q \in Requests, k \in Images : Removes(q, k) => Removes(q, k)' /\ row'[q] = row[q]
    BY <2>1, <2>2 DEF Removes
  <2> QED
    BY <2>1, <2>3, QuietRenders DEF Ended
<1>8. ASSUME NEW r \in Requests, Unlink(r)
      PROVE  RenderInv'
  <2>1. /\ Moves(r) /\ pc[r] = "read" /\ row[r] # None /\ job[r].op = "delete" /\ job[r] # None
        /\ UNCHANGED <<job, row, listed, embedded>> /\ job[r].id \in Images
        /\ disk' = [disk EXCEPT ![row[r].path] = None]
    BY <1>8, ImageType, JobTypes DEF FileInv, JobsFit, Unlink
  <2>2. \A q \in Requests, k \in Images : Removes(q, k) => Removes(q, k)' /\ row'[q] = row[q]
    BY <2>1, RemovesStays
  <2>3. Removes(r, job[r].id)
    BY <2>1 DEF Removes
  <2>4. \A f \in Paths : disk'[f] # disk[f] => f = row[r].path
    BY <2>1 DEF TypeOK
  <2>5. \A i \in Images, f \in Paths : disk[f] = i /\ disk'[f] # i =>
          \E q \in Requests, k \in Images : Removes(q, k)' /\ row'[q].path = f
    BY <2>1, <2>2, <2>3, <2>4
  <2> QED
    BY <2>1, <2>2, <2>5, QuietRenders DEF Ended
<1>9. ASSUME NEW r \in Requests,
             ReadTemplate(r) \/ RenderStored(r) \/ RenderPreview(r) \/ RenderDraft(r)
      PROVE  RenderInv'
  <2>1. Moves(r) /\ UNCHANGED <<disk, job, row, listed, embedded>>
    BY <1>9, RenderType DEF ReadTemplate, RenderStored, RenderPreview, RenderDraft
  <2>2. \A q \in Requests, k \in Images : Removes(q, k) => Removes(q, k)' /\ row'[q] = row[q]
    BY <2>1, RemovesStays
  <2>3. CASE ReadTemplate(r)
    <3>1. pc[r] = "rendering"
      BY <2>3 DEF ReadTemplate
    <3> QED
      BY <2>1, <2>2, <3>1, QuietRenders DEF Ended
  <2>4. CASE ~ReadTemplate(r)
    <3>1. PICK l \in {"invalid", "error", "ok", "banner"} : Goto(r, l)
      BY <1>9, <2>4 DEF RenderStored, RenderPreview, RenderDraft
    <3>2. pc'[r] = l
      BY <3>1, GotoFacts DEF Ended
    <3> QED
      BY <2>1, <2>2, <3>1, <3>2, QuietRenders DEF Ended
  <2> QED
    BY <2>3, <2>4
<1> QED
  BY <1>1, <1>2, <1>3, <1>4, <1>5, <1>6, <1>7, <1>8, <1>9, ListRenders, OpenRenders DEF Next, Step

-----------------------------------------------------------------------------
(* Templates.                                                              *)

\* What holds of a template that is being rendered.
Rendering(r) ==
  /\ job[r].op \in {"solicitud", "sample", "draft"} => doc[r].html \notin Malformed
  /\ job[r].op = "draft" => Plain(doc[r].html)

\* What holds of one that was.
Rendered(r) ==
  /\ Printed(r, {"sample", "preview", "draft"}, {"ok"}) => Plain(doc[r].html)
  /\ Printed(r, {"solicitud", "sample", "draft"}, {"invalid", "error"}) =>
       /\ doc[r].html \notin Malformed /\ Raises(doc[r].html, Context(r))
       /\ job[r].op = "draft" => Plain(doc[r].html)

\* A request that does not move renders what it did.
LEMMA OthersRender ==
  ASSUME TemplateInv, NEW q \in Requests,
         pc'[q] = pc[q], job'[q] = job[q], doc'[q] = doc[q], embedded'[q] = embedded[q]
  PROVE  /\ pc'[q] \in {"listing", "embedding"} => Rendering(q)'
         /\ Rendered(q)'
<1>1. (pc[q] \in {"listing", "embedding"} => Rendering(q)) /\ Rendered(q)
  BY DEF TemplateInv, Rendering, Rendered
<1> QED
  BY <1>1 DEF Rendering, Rendered, Printed, Plain, Raises, Synthetic, Context, Pictures, Valores

\* The parts of the invariant, when one request moves.
LEMMA OneMoves ==
  ASSUME TemplateInv, NEW r \in Requests, Moves(r), usa' \in Ids \cup {None},
         \A p \in Ids : plantillas'[p] # None => plantillas'[p].html \notin Malformed,
         borrador' # None => Plain(borrador'.html),
         \A q \in Requests \ {r} : job'[q] = job[q] /\ doc'[q] = doc[q] /\ embedded'[q] = embedded[q],
         pc'[r] \in {"listing", "embedding"} => Rendering(r)', Rendered(r)'
  PROVE  TemplateInv'
<1>1. \A q \in Requests \ {r} : (pc'[q] \in {"listing", "embedding"} => Rendering(q)') /\ Rendered(q)'
  BY OthersRender DEF Moves
<1>2. \A q \in Requests : (pc'[q] \in {"listing", "embedding"} => Rendering(q)') /\ Rendered(q)'
  BY <1>1
<1> QED
  BY <1>2 DEF TemplateInv, Rendering, Rendered, Plain, Raises, Synthetic

\* A step that renders nothing.
LEMMA QuietTemplates ==
  ASSUME TemplateInv, NEW r \in Requests, Moves(r), NoneWorse, usa' \in Ids \cup {None},
         UNCHANGED <<borrador, doc, embedded>>, \A q \in Requests \ {r} : job'[q] = job[q],
         pc'[r] \notin {"listing", "embedding"},
         \/ pc'[r] \notin {"invalid", "error", "ok"}
         \/ job'[r].op \notin {"solicitud", "sample", "draft", "preview"}
  PROVE  TemplateInv'
<1>1. \A p \in Ids : plantillas'[p] # None => plantillas'[p].html \notin Malformed
  BY DEF TemplateInv, NoneWorse
<1>2. Rendered(r)'
  BY DEF Rendered, Printed
<1>3. borrador' # None => Plain(borrador'.html)
  BY DEF TemplateInv
<1> QED
  BY <1>1, <1>2, <1>3, OneMoves

\* A render that goes on with the template it has.
LEMMA SameTemplates ==
  ASSUME TemplateInv, NEW r \in Requests, Moves(r), UNCHANGED <<plantillas, usa, doc, job, borrador>>,
         \A q \in Requests \ {r} : embedded'[q] = embedded[q],
         pc'[r] \in {"listing", "embedding"}, pc[r] \in {"listing", "embedding"}
  PROVE  TemplateInv'
<1>1. Rendering(r)'
  BY DEF TemplateInv, Rendering, Plain, Raises, Synthetic
<1>2. Rendered(r)'
  BY DEF Rendered, Printed
<1> QED
  BY <1>1, <1>2, OneMoves DEF TemplateInv

\* A render that ends.
LEMMA LastTemplates ==
  ASSUME TemplateInv, NEW r \in Requests, Moves(r), UNCHANGED <<plantillas, usa, doc, job, embedded>>,
         borrador' # None => Plain(borrador'.html),
         pc[r] = "embedding", pc'[r] \in {"ok", "banner", "invalid", "error"},
         pc'[r] = "ok" => ~Fails(r),
         pc'[r] \in {"invalid", "error"} => Fails(r) /\ job[r].op # "preview"
  PROVE  TemplateInv'
<1>1. Rendering(r)
  BY DEF TemplateInv, Rendering
<1>2. Context(r)' = Context(r)
  BY DEF Context, Pictures, Synthetic, Valores
<1>3. ASSUME Printed(r, {"sample", "preview", "draft"}, {"ok"})'
      PROVE  Plain(doc[r].html)
  <2>1. ~Fails(r) /\ job[r].op # "solicitud"
    BY <1>3 DEF Printed
  <2>2. Synthetic \subseteq Context(r)
    BY <2>1 DEF Context
  <2> QED
    BY <2>1, <2>2 DEF Fails, Raises, Plain
<1>4. ASSUME Printed(r, {"solicitud", "sample", "draft"}, {"invalid", "error"})'
      PROVE  /\ doc[r].html \notin Malformed /\ Raises(doc[r].html, Context(r))
             /\ job[r].op = "draft" => Plain(doc[r].html)
  BY <1>1, <1>4 DEF Printed, Fails, Rendering
<1>5. Rendered(r)'
  BY <1>2, <1>3, <1>4 DEF Rendered, Plain, Raises, Synthetic
<1> QED
  BY <1>5, OneMoves DEF TemplateInv

\* What a render starts from parses, whatever it was sent for but a preview.
LEMMA SourceParses ==
  ASSUME TypeOK, TemplateInv, NEW r \in Requests, job[r] \in Jobs, Source(r) # None
  PROVE  /\ job[r].op \in {"solicitud", "sample", "draft"} => Source(r).html \notin Malformed
         /\ job[r].op = "draft" => Plain(Source(r).html)
<1>1. CASE job[r].op = "solicitud"
  <2>1. usa # None /\ plantillas[usa] # None /\ Source(r).html = plantillas[usa].html
    BY <1>1 DEF Source
  <2> QED
    BY <1>1, <2>1 DEF TemplateInv
<1>2. CASE job[r].op = "sample"
  <2>1. plantillas[job[r].id] # None /\ Source(r).html = plantillas[job[r].id].html
    BY <1>2 DEF Source
  <2>2. job[r].id \in Ids
    BY <1>2, JobTypes
  <2> QED
    BY <1>2, <2>1, <2>2 DEF TemplateInv
<1>3. CASE job[r].op = "draft"
  <2>1. Source(r) = borrador
    BY <1>3 DEF Source
  <2> QED
    BY <1>3, <2>1 DEF TemplateInv, Plain
<1> QED
  BY <1>1, <1>2, <1>3

LEMMA ReadTemplates ==
  ASSUME TypeOK, FileInv, TemplateInv, NEW r \in Requests, ReadTemplate(r)
  PROVE  TemplateInv'
<1>1. /\ pc[r] = "rendering" /\ job[r] \in Jobs /\ Moves(r)
      /\ UNCHANGED <<plantillas, usa, borrador, job>>
      /\ \A q \in Requests \ {r} : doc'[q] = doc[q]
  BY RenderType, ItsJob DEF FileInv, ReadTemplate, TypeOK, IsLocal
<1>2. \/ pc'[r] \in {"unauthorized", "notfound"}
      \/ pc'[r] = "listing" /\ Source(r) # None /\ doc'[r] = Source(r)
  <2>1. CASE Goto(r, "unauthorized") \/ Goto(r, "notfound")
    BY <2>1, GotoFacts DEF Ended
  <2>2. CASE Goto(r, "listing") /\ Authorised(job[r]) /\ Source(r) # None
    BY <2>2, GotoFacts DEF Running, ReadTemplate, TypeOK, IsLocal
  <2> QED
    BY <2>1, <2>2 DEF ReadTemplate
<1>3. pc'[r] \in {"listing", "embedding"} => Rendering(r)'
  <2> SUFFICES ASSUME pc'[r] = "listing", Source(r) # None, doc'[r] = Source(r)
               PROVE  Rendering(r)'
    BY <1>2
  <2> QED
    BY <1>1, SourceParses DEF Rendering, Plain, Raises, Synthetic
<1>4. Rendered(r)'
  BY <1>2 DEF Rendered, Printed
<1> QED
  BY <1>1, <1>3, <1>4, OneMoves DEF TemplateInv, ReadTemplate

LEMMA StepTemplates ==
  ASSUME TypeOK, FileInv, TemplateInv, [Next]_vars
  PROVE  TemplateInv'
<1>1. CASE UNCHANGED vars
  BY <1>1 DEF vars, tables, files, local, TemplateInv, Printed, Plain, Raises, Synthetic, Context, Pictures, Valores
<1>2. ASSUME NEW r \in Requests, Arrive(r)
      PROVE  TemplateInv'
  <2>1. /\ Moves(r) /\ pc'[r] \notin {"listing", "embedding", "invalid", "error", "ok"}
        /\ UNCHANGED <<plantillas, usa, borrador, doc, embedded>>
    BY <1>2, ArriveFiles DEF Arrive
  <2>2. \A q \in Requests \ {r} : job'[q] = job[q]
    BY <1>2 DEF Arrive, TypeOK
  <2> QED
    BY <2>1, <2>2, QuietTemplates DEF NoneWorse, TemplateInv
<1>3. ASSUME NEW r \in Requests, Die(r)
      PROVE  TemplateInv'
  <2>1. Moves(r) /\ pc'[r] = "dead" /\ UNCHANGED <<plantillas, usa, borrador, doc, job, embedded>>
    BY <1>3, DieFiles DEF Die
  <2> QED
    BY <2>1, QuietTemplates DEF NoneWorse, TemplateInv
<1>4. ASSUME NEW r \in Requests,
             CreatePlantilla(r) \/ UpdatePlantilla(r) \/ DeactivatePlantilla(r)
               \/ ChoosePlantilla(r) \/ SaveTipo(r)
      PROVE  TemplateInv'
  <2>1. /\ Moves(r) /\ pc'[r] \in {"ok", "invalid", "notfound", "page"} /\ NoneWorse
        /\ UNCHANGED <<job, doc, borrador, embedded>>
    BY <1>4, EditType DEF FileInv
  <2>3. job[r].op \in {"create", "save", "off", "tipo"}
    BY <1>4 DEF FileInv, JobsFit, CreatePlantilla, UpdatePlantilla, DeactivatePlantilla,
                ChoosePlantilla, SaveTipo
  <2>2. usa' \in Ids \cup {None}
    BY <1>4 DEF TemplateInv, CreatePlantilla, UpdatePlantilla, DeactivatePlantilla,
                ChoosePlantilla, SaveTipo, Choices
  <2> QED
    BY <2>1, <2>2, <2>3, QuietTemplates
<1>5. ASSUME NEW r \in Requests, SaveFile(r)
      PROVE  TemplateInv'
  <2>1. /\ Moves(r) /\ job[r].op = "upload" /\ UNCHANGED <<plantillas, usa, borrador, doc, job, embedded>>
        /\ Goto(r, "invalid") \/ Goto(r, "saved")
    BY <1>5, NewFile, ImageType DEF FileInv, SaveFile
  <2>2. pc'[r] \in {"invalid", "saved"}
    BY <2>1, GotoFacts DEF Running, Ended
  <2> QED
    BY <2>1, <2>2, QuietTemplates DEF NoneWorse, TemplateInv
<1>6. ASSUME NEW r \in Requests, InsertRow(r) \/ ReadRow(r) \/ Unlink(r) \/ DeleteRow(r)
      PROVE  TemplateInv'
  <2>1. Moves(r) /\ UNCHANGED <<plantillas, usa, borrador, doc, job, embedded>>
    BY <1>6, ImageType DEF FileInv, InsertRow, ReadRow, Unlink, DeleteRow
  <2>4. job[r].op \in {"upload", "delete"}
    BY <1>6 DEF FileInv, JobsFit, InsertRow, ReadRow, Unlink, DeleteRow
  <2>2. PICK l \in {"error", "duplicate", "ok", "notfound", "read", "unlinked"} : Goto(r, l)
    BY <1>6 DEF InsertRow, ReadRow, Unlink, DeleteRow
  <2>3. pc'[r] = l
    BY <2>2, GotoFacts DEF Running, Ended
  <2> QED
    BY <2>1, <2>2, <2>3, <2>4, QuietTemplates DEF NoneWorse, TemplateInv
<1>7. ASSUME NEW r \in Requests, ListImages(r) \/ \E s \in Slugs : OpenFile(r, s)
      PROVE  TemplateInv'
  <2>1. /\ Moves(r) /\ UNCHANGED <<plantillas, usa, borrador, doc, job>>
        /\ pc[r] \in {"listing", "embedding"}
    BY <1>7, RenderType DEF ListImages, OpenFile
  <2>2. pc'[r] \in {"listing", "embedding"}
    <3>1. Goto(r, "embedding") \/ pc' = pc
      BY <1>7 DEF ListImages, OpenFile
    <3> QED
      BY <2>1, <3>1, GotoFacts DEF Running
  <2>3. \A q \in Requests \ {r} : embedded'[q] = embedded[q]
    BY <1>7 DEF ListImages, OpenFile, TypeOK, IsLocal
  <2> QED
    BY <2>1, <2>2, <2>3, SameTemplates
<1>8. ASSUME NEW r \in Requests, RenderStored(r)
      PROVE  TemplateInv'
  <2>1. /\ Moves(r) /\ UNCHANGED <<plantillas, usa, borrador, doc, job, embedded>>
        /\ pc[r] = "embedding" /\ job[r].op \in {"solicitud", "sample"}
    BY <1>8, RenderType DEF RenderStored, Ready, local, tables
  <2>2. \/ Goto(r, "ok") /\ ~Fails(r)
        \/ Fails(r) /\ (Goto(r, "error") \/ Goto(r, "invalid"))
    BY <1>8 DEF RenderStored
  <2>3. \/ pc'[r] = "ok" /\ ~Fails(r)
        \/ pc'[r] \in {"invalid", "error"} /\ Fails(r)
    BY <2>2, GotoFacts DEF Ended
  <2> QED
    BY <2>1, <2>3, LastTemplates DEF TemplateInv
<1>9. ASSUME NEW r \in Requests, RenderPreview(r)
      PROVE  TemplateInv'
  <2>1. /\ Moves(r) /\ UNCHANGED <<plantillas, usa, doc, job, embedded>>
        /\ pc[r] = "embedding" /\ job[r].op = "preview"
    BY <1>9, RenderType DEF RenderPreview, Ready, local, tables
  <2>2. Synthetic \subseteq Context(r)
    BY <2>1 DEF Context
  <2>3. borrador' = borrador \/ (borrador' = doc[r] /\ ~Fails(r))
    BY <1>9 DEF RenderPreview
  <2>4. borrador' # None => Plain(borrador'.html)
    BY <2>2, <2>3 DEF TemplateInv, Plain, Fails, Raises
  <2>5. (Goto(r, "banner") /\ Fails(r)) \/ (Goto(r, "ok") /\ ~Fails(r))
    BY <1>9 DEF RenderPreview
  <2>6. pc'[r] = "banner" \/ (pc'[r] = "ok" /\ ~Fails(r))
    BY <2>5, GotoFacts DEF Ended
  <2> QED
    BY <2>1, <2>4, <2>6, LastTemplates
<1>10. ASSUME NEW r \in Requests, RenderDraft(r)
       PROVE  TemplateInv'
  <2>1. /\ Moves(r) /\ UNCHANGED <<plantillas, usa, borrador, doc, job, embedded>>
        /\ pc[r] = "embedding" /\ job[r].op = "draft"
    BY <1>10, RenderType DEF RenderDraft, Ready, local, tables
  <2>2. (Goto(r, "invalid") /\ Fails(r)) \/ (Goto(r, "ok") /\ ~Fails(r))
    BY <1>10 DEF RenderDraft
  <2>3. (pc'[r] = "invalid" /\ Fails(r)) \/ (pc'[r] = "ok" /\ ~Fails(r))
    BY <2>2, GotoFacts DEF Ended
  <2> QED
    BY <2>1, <2>3, LastTemplates DEF TemplateInv
<1> QED
  BY <1>1, <1>2, <1>3, <1>4, <1>5, <1>6, <1>7, <1>8, <1>9, <1>10, ReadTemplates DEF Next, Step

-----------------------------------------------------------------------------
(* The theorems.                                                           *)

LEMMA InitInv == Init => IInv
<1> SUFFICES ASSUME Init
             PROVE  IInv
  OBVIOUS
<1>1. TypeOK
  BY InitType
<1>2. \A r \in Requests : pc[r] = "idle" /\ job[r] = None /\ row[r] = None
  BY DEF Init
<1>3. \A q \in Requests : \A i : ~Removes(q, i)
  BY <1>2 DEF Removes
<1>4. \A i \in Images : images[i] = IF i \in Old THEN OldRow[i] ELSE None
  BY DEF Init
<1>5. \A i \in Old : OldRow[i] # None /\ OldRow[i].path \in Paths
  BY OldAssumption DEF Image
<1>6. \A f \in Paths : disk[f] # None => disk[f] \in Old /\ OldRow[disk[f]].path = f
  BY DEF Init
<1>7. \A i \in Images : \A f \in Paths : images[i] # None /\ images[i].path = f => disk[f] = i
  BY <1>4, <1>6, PlantillasAssumption DEF Init, Images
<1>8. JobsFit
  BY <1>2 DEF JobsFit
<1>9. RowsAreUploaded
  BY <1>3, <1>4, <1>5, PlantillasAssumption DEF RowsAreUploaded, Uploaded, Images
<1>10. FilesFit
  BY <1>4, <1>6, PlantillasAssumption DEF FilesFit, Images
<1>11. UnlinkedIsGone /\ ReadersWereFirst
  BY <1>2 DEF UnlinkedIsGone, ReadersWereFirst
<1>12. LossesAreExplained
  BY <1>2, <1>7 DEF LossesAreExplained, Named
<1>13. LeftoversAreExplained
  BY <1>4, <1>5, <1>6 DEF LeftoversAreExplained, Images
<1>14. FileInv
  BY <1>8, <1>9, <1>10, <1>11, <1>12, <1>13 DEF FileInv
<1>15. RenderInv
  BY DEF Init, RenderInv, ListedAreThere, RendersShowWhatTheyListed, NoImages
<1>16. TemplateInv
  BY <1>2, OldAssumption DEF Init, TemplateInv, Printed
<1> QED
  BY <1>1, <1>14, <1>15, <1>16 DEF IInv

\* The inductive invariant holds in every reachable state.
THEOREM Invariance == Spec => []IInv
<1>1. IInv /\ [Next]_vars => IInv'
  BY StepFiles, StepRenders, StepTemplates DEF IInv
<1> QED
  BY InitInv, <1>1, PTL DEF Spec

\* Every variable keeps its type.
THEOREM TypeCorrect == Spec => []TypeOK
<1>1. IInv => TypeOK
  BY DEF IInv
<1> QED
  BY <1>1, Invariance, PTL

\* A single deletion never costs another image its file.
THEOREM LossesComeOfDeletions == Spec => []MissingFilesAreExplained
<1>1. IInv => MissingFilesAreExplained
  <2> SUFFICES ASSUME IInv, NEW i \in Images, images[i] # None, disk[images[i].path] # i
               PROVE  \/ \E q \in Requests : Removes(q, i) /\ pc[q] \in {"unlinked", "dead"}
                      \/ \E k \in Images \ {i} : \E q1, q2 \in Requests :
                           /\ q1 # q2 /\ Removes(q1, k) /\ Removes(q2, k)
                           /\ row[q1].path = images[i].path /\ row[q2].path = images[i].path
    BY DEF MissingFilesAreExplained
  <2>1. images[i].path \in Paths /\ Named(i, images[i].path)
    BY DEF IInv, TypeOK, Image, Named
  <2> QED
    BY <2>1 DEF IInv, FileInv, LossesAreExplained, Doubled
<1> QED
  BY <1>1, Invariance, PTL

\* No deletion leaves a file without its row.
THEOREM LeftoversComeOfUploads == Spec => []LeftoversAreExplained
<1>1. IInv => LeftoversAreExplained
  BY DEF IInv, FileInv
<1> QED
  BY <1>1, Invariance, PTL

\* Rows and files go apart for these reasons only.
THEOREM FilesComeAndGoForAReason == Spec => []FilesAreExplained
  BY LossesComeOfDeletions, LeftoversComeOfUploads, PTL DEF FilesAreExplained

\* A render embeds what it listed, unless a deletion has read a row with that name.
THEOREM RendersAreTrue == Spec => []RendersShowWhatTheyListed
<1>1. IInv => RendersShowWhatTheyListed
  BY DEF IInv, RenderInv
<1> QED
  BY <1>1, Invariance, PTL

\* No PDF fails on a template that does not parse, nor on anything that the synthetic
\* context shows: images, values and the person are left.
THEOREM PdfErrorsComeOfTheData == Spec => []RenderErrorsComeOfTheData
<1>1. IInv => RenderErrorsComeOfTheData
  <2> SUFFICES ASSUME IInv, NEW r \in Requests,
                      Printed(r, {"solicitud", "sample", "draft"}, {"invalid", "error"})
               PROVE  /\ doc[r].html \notin Malformed
                      /\ \/ Raises(doc[r].html, Context(r) \ Synthetic)
                         \/ /\ job[r].op # "draft"
                            /\ \A q \in Requests : Printed(q, {"sample", "preview", "draft"}, {"ok"}) =>
                                                     doc[q].html # doc[r].html
    BY DEF RenderErrorsComeOfTheData
  <2>1. doc[r].html \notin Malformed /\ Raises(doc[r].html, Context(r))
    BY DEF IInv, TemplateInv
  <2>2. Plain(doc[r].html) => Raises(doc[r].html, Context(r) \ Synthetic)
    BY <2>1 DEF Plain, Raises
  <2>3. job[r].op = "draft" => Plain(doc[r].html)
    BY DEF IInv, TemplateInv
  <2>4. \A q \in Requests : Printed(q, {"sample", "preview", "draft"}, {"ok"}) => Plain(doc[q].html)
    BY DEF IInv, TemplateInv
  <2> QED
    BY <2>1, <2>2, <2>3, <2>4
<1> QED
  BY <1>1, Invariance, PTL
=============================================================================

----------------------------- MODULE ScreenProofs -----------------------------
(***************************************************************************)
(* Theorems about the dialogs and the parts of the editor, for any         *)
(* queries, items, sites, languages, images, and texts of any length: what *)
(* is listed, selected and typed survives late answers, images of other    *)
(* sites wait for the user, what is said of a copy is how the last one     *)
(* ended, the outline is of the text, buttons act on the image that is     *)
(* picked, its size is the one stored, menus replace what they were opened *)
(* for, and a link that was made by choosing a note leads to that note.    *)
(***************************************************************************)
EXTENDS Dialogs, ExternalImages, CodeBlocks, Outline, ImageWork, LinkMenus, NoteLinks,
        FiniteSetTheorems, SequenceTheorems, TLAPS

(* The dialogs. *)
DialogSpec == DialogInit /\ [][DialogNext]_dialogVars

\* The fields of the records, and the two vaults.
Shapes ==
  /\ DOMAIN search = {"query", "results", "loading", "error"}
  /\ DOMAIN due = {"at", "of", "vault", "found"}
  /\ DOMAIN activeVault = {"shown", "server"} /\ activeVault.shown \in Vaults /\ activeVault.server \in Vaults
  /\ DOMAIN listed = {"items", "selected"}
  /\ DOMAIN markdown = {"open", "words", "reading"}

\* What ResultsAreOfTheQuery rests on: a search that waits or runs is for the
\* query that is shown, its answer is from the vault that is shown unless a
\* switch is under way, and without a query nothing is being loaded.
SearchIsCurrent ==
  /\ due.at # "no" => due.of = search.query /\ search.query # ""
  /\ due.at = "told" /\ activeVault.shown = activeVault.server =>
       due.found = [of |-> due.of, vault |-> activeVault.shown]
  /\ due.at = "no" \/ search.query = "" => ~search.loading
  /\ ResultsAreOfTheQuery

\* What SelectionIsListed and ListIsFresh rest on: while images are deleted the
\* list is still the one they were chosen from.
ListIsSound ==
  /\ SelectionIsListed
  /\ panel = "images" /\ request = "run" => pending \subseteq listed.items
  /\ (request = "none" \/ (panel = "images" /\ request = "run")) /\ ~threw /\ listed.items # {} => listed.items = kept

-----------------------------------------------------------------------------
LEMMA ShapesAtFirst == DialogInit => Shapes
<1> SUFFICES ASSUME DialogInit PROVE Shapes
  OBVIOUS
<1>1. DOMAIN search = {"query", "results", "loading", "error"}
  BY DEF DialogInit
<1>2. DOMAIN due = {"at", "of", "vault", "found"}
  BY DEF DialogInit, NotDue
<1>3. DOMAIN activeVault = {"shown", "server"} /\ activeVault.shown \in Vaults /\ activeVault.server \in Vaults
  <2>1. activeVault = [shown |-> 1, server |-> 1]
    BY DEF DialogInit
  <2>2. activeVault.shown = 1 /\ activeVault.server = 1
    BY <2>1
  <2> QED
    BY <2>1, <2>2 DEF Vaults
<1>4. DOMAIN listed = {"items", "selected"}
  BY DEF DialogInit
<1>5. DOMAIN markdown = {"open", "words", "reading"}
  BY DEF DialogInit
<1> QED
  BY <1>1, <1>2, <1>3, <1>4, <1>5 DEF Shapes

LEMMA ShapesStay == Shapes /\ [DialogNext]_dialogVars => Shapes'
<1> SUFFICES ASSUME Shapes, [DialogNext]_dialogVars PROVE Shapes'
  OBVIOUS
<1> USE DEF Shapes
<1>1. CASE TypeQuery
  <2>1. PICK query \in Query \cup {""} :
          /\ search' = IF query = "" THEN [query |-> "", results |-> NoResults, loading |-> FALSE, error |-> FALSE]
                       ELSE [search EXCEPT !.query = query]
          /\ due' = Restarted(query)
    BY <1>1 DEF TypeQuery
  <2>2. UNCHANGED <<activeVault, listed, markdown>>
    BY <1>1 DEF TypeQuery, SearchOnly
  <2>3. DOMAIN due' = {"at", "of", "vault", "found"}
    BY <2>1 DEF Restarted, NotDue
  <2>4. DOMAIN search' = {"query", "results", "loading", "error"}
    BY <2>1
  <2> QED
    BY <2>2, <2>3, <2>4
<1>2. CASE SelectFolder
  BY <1>2 DEF SelectFolder, SearchOnly, NotDue
<1>3. CASE SearchStarts \/ SearchServed \/ SearchHeard \/ SearchFails
  BY <1>3 DEF SearchStarts, SearchServed, SearchHeard, SearchFails, SearchOnly, NotDue
<1>4. CASE VaultSwitched
  BY <1>4 DEF VaultSwitched, SearchOnly, Vaults
<1>10. CASE VaultShown
  <2>1. due' = Restarted(search.query) /\ activeVault' = [activeVault EXCEPT !.shown = activeVault.server]
    BY <1>10 DEF VaultShown
  <2>2. UNCHANGED <<search, listed, markdown>>
    BY <1>10 DEF VaultShown, SearchOnly
  <2>3. DOMAIN due' = {"at", "of", "vault", "found"}
    BY <2>1 DEF Restarted, NotDue
  <2> QED
    BY <2>1, <2>2, <2>3
<1>5. CASE ToggleSelection \/ TrashLoaded
  BY <1>5 DEF ToggleSelection, TrashLoaded, DialogOnly
<1>6. CASE RunTrash \/ ProcessItem \/ RunEnds
  BY <1>6 DEF RunTrash, ProcessItem, RunEnds, DialogOnly
<1>7. CASE ScanAssets \/ AssetsScanned \/ DeleteSelectedAssets \/ AssetsDeleted
  BY <1>7 DEF ScanAssets, AssetsScanned, DeleteSelectedAssets, AssetsDeleted, DialogOnly
<1>8. CASE OpenMarkdownPaste \/ TypeMarkdown \/ ClipboardRead \/ CloseMarkdownPaste
  BY <1>8 DEF OpenMarkdownPaste, TypeMarkdown, ClipboardRead, CloseMarkdownPaste, MarkdownOnly
<1>9. CASE UNCHANGED dialogVars
  BY <1>9 DEF dialogVars
<1> QED
  BY <1>1, <1>2, <1>3, <1>4, <1>5, <1>6, <1>7, <1>8, <1>9, <1>10 DEF DialogNext

-----------------------------------------------------------------------------
(* The search.                                                             *)

LEMMA SearchAtFirst == DialogInit => SearchIsCurrent
<1> SUFFICES ASSUME DialogInit PROVE SearchIsCurrent
  OBVIOUS
<1>1. search.query = "" /\ ~search.loading /\ due.at = "no"
  BY DEF DialogInit, NotDue
<1> QED
  BY <1>1 DEF SearchIsCurrent, ResultsAreOfTheQuery

\* A switch leads to the other vault.
LEMMA OtherVault == \A vault \in Vaults : vault # 3 - vault
  BY DEF Vaults

LEMMA SearchStays == Shapes /\ SearchIsCurrent /\ [DialogNext]_dialogVars => SearchIsCurrent'
<1> SUFFICES ASSUME Shapes, SearchIsCurrent, [DialogNext]_dialogVars PROVE SearchIsCurrent'
  OBVIOUS
<1> USE DEF SearchIsCurrent, ResultsAreOfTheQuery
<1>1. CASE TypeQuery
  <2>1. PICK query \in Query \cup {""} :
          /\ search' = IF query = "" THEN [query |-> "", results |-> NoResults, loading |-> FALSE, error |-> FALSE]
                       ELSE [search EXCEPT !.query = query]
          /\ due' = Restarted(query)
    BY <1>1 DEF TypeQuery
  <2>2. CASE query = ""
    <3>1. search'.query = "" /\ ~search'.loading /\ due'.at = "no"
      BY <2>1, <2>2 DEF Restarted, NotDue
    <3> QED
      BY <3>1
  <2>3. CASE query # ""
    <3>1. search'.query = query /\ due'.at = "timer" /\ due'.of = query
      BY <2>1, <2>3 DEF Restarted, NotDue, Shapes
    <3> QED
      BY <2>3, <3>1
  <2> QED
    BY <2>2, <2>3
<1>2. CASE SelectFolder
  BY <1>2 DEF SelectFolder, NotDue, Shapes
<1>3. CASE SearchStarts
  BY <1>3 DEF SearchStarts, Shapes
<1>4. CASE SearchServed
  BY <1>4 DEF SearchServed, Shapes
<1>5. CASE SearchHeard
  BY <1>5 DEF SearchHeard, NotDue, Shapes
<1>6. CASE SearchFails
  BY <1>6 DEF SearchFails, NotDue, Shapes
<1>7. CASE VaultSwitched
  <2>1. activeVault.shown = activeVault.server /\ activeVault' = [activeVault EXCEPT !.server = 3 - activeVault.server]
    BY <1>7 DEF VaultSwitched
  <2>2. activeVault'.shown = activeVault.shown /\ activeVault'.server = 3 - activeVault.shown
    BY <2>1 DEF Shapes
  <2>3. \A vault \in Vaults : vault # 3 - vault
    BY OtherVault
  <2>4. activeVault'.shown # activeVault'.server
    BY <2>2, <2>3 DEF Shapes
  <2>5. UNCHANGED <<search, due>>
    BY <1>7 DEF VaultSwitched
  <2> QED
    BY <2>4, <2>5
<1>8. CASE VaultShown
  <2>1. due' = Restarted(search.query) /\ search' = search
    BY <1>8 DEF VaultShown
  <2> QED
    BY <2>1 DEF Restarted, NotDue
<1>9. CASE UNCHANGED <<search, due, activeVault>>
  BY <1>9
<1>10. DialogNext => TypeQuery \/ SelectFolder \/ SearchStarts \/ SearchServed \/ SearchHeard \/ SearchFails
                       \/ VaultSwitched \/ VaultShown \/ UNCHANGED <<search, due, activeVault>>
  BY DEF DialogNext, ToggleSelection, TrashLoaded, RunTrash, ProcessItem, RunEnds, ScanAssets, AssetsScanned,
         DeleteSelectedAssets, AssetsDeleted, OpenMarkdownPaste, TypeMarkdown, ClipboardRead, CloseMarkdownPaste,
         DialogOnly, MarkdownOnly
<1> QED
  BY <1>1, <1>2, <1>3, <1>4, <1>5, <1>6, <1>7, <1>8, <1>9, <1>10 DEF dialogVars

\* When no search is under way, the list shows the results of the query and the
\* vault that are shown.
THEOREM ResultsAreCurrent == DialogSpec => []ResultsAreOfTheQuery
<1>1. DialogInit => Shapes /\ SearchIsCurrent
  BY ShapesAtFirst, SearchAtFirst
<1>2. Shapes /\ SearchIsCurrent /\ [DialogNext]_dialogVars => (Shapes /\ SearchIsCurrent)'
  BY ShapesStay, SearchStays
<1>3. SearchIsCurrent => ResultsAreOfTheQuery
  BY DEF SearchIsCurrent
<1> QED
  BY <1>1, <1>2, <1>3, PTL DEF DialogSpec

-----------------------------------------------------------------------------
(* The lists.                                                              *)

LEMMA ListAtFirst == DialogInit => ListIsSound
<1> SUFFICES ASSUME DialogInit PROVE ListIsSound
  OBVIOUS
<1>1. listed.items = {} /\ listed.selected = {} /\ pending = {}
  BY DEF DialogInit
<1> QED
  BY <1>1 DEF ListIsSound, SelectionIsListed

LEMMA ListStays == Shapes /\ ListIsSound /\ [DialogNext]_dialogVars => ListIsSound'
<1> SUFFICES ASSUME Shapes, ListIsSound, [DialogNext]_dialogVars PROVE ListIsSound'
  OBVIOUS
<1> USE DEF ListIsSound, SelectionIsListed
<1>1. CASE ToggleSelection
  BY <1>1 DEF ToggleSelection, DialogOnly, Shapes
<1>2. CASE TrashLoaded
  BY <1>2 DEF TrashLoaded, DialogOnly
<1>3. CASE RunTrash
  BY <1>3 DEF RunTrash, DialogOnly
<1>4. CASE ProcessItem
  BY <1>4 DEF ProcessItem, DialogOnly
<1>5. CASE RunEnds
  BY <1>5 DEF RunEnds, DialogOnly, Shapes
<1>6. CASE ScanAssets
  BY <1>6 DEF ScanAssets, DialogOnly
<1>7. CASE AssetsScanned
  BY <1>7 DEF AssetsScanned, DialogOnly
<1>8. CASE DeleteSelectedAssets
  BY <1>8 DEF DeleteSelectedAssets, DialogOnly
<1>9. CASE AssetsDeleted
  BY <1>9 DEF AssetsDeleted, DialogOnly
<1>10. CASE UNCHANGED <<panel, listed, kept, request, pending, threw>>
  BY <1>10
<1>11. DialogNext => ToggleSelection \/ TrashLoaded \/ RunTrash \/ ProcessItem \/ RunEnds \/ ScanAssets \/ AssetsScanned
                       \/ DeleteSelectedAssets \/ AssetsDeleted
                       \/ UNCHANGED <<panel, listed, kept, request, pending, threw>>
  BY DEF DialogNext, TypeQuery, SelectFolder, SearchStarts, SearchServed, SearchHeard, SearchFails, VaultSwitched,
         VaultShown, OpenMarkdownPaste, TypeMarkdown, ClipboardRead, CloseMarkdownPaste, SearchOnly, MarkdownOnly
<1> QED
  BY <1>1, <1>2, <1>3, <1>4, <1>5, <1>6, <1>7, <1>8, <1>9, <1>10, <1>11 DEF dialogVars

\* Only what is listed is selected, and a list that nothing is being done to, and
\* nothing went wrong with, is what the server has.
THEOREM ListsAreTrue == DialogSpec => []ListIsTrue
<1>1. DialogInit => Shapes /\ ListIsSound
  BY ShapesAtFirst, ListAtFirst
<1>2. Shapes /\ ListIsSound /\ [DialogNext]_dialogVars => (Shapes /\ ListIsSound)'
  BY ShapesStay, ListStays
<1>3. ListIsSound => ListIsTrue
  BY DEF ListIsSound, ListIsFresh, ListIsTrue
<1> QED
  BY <1>1, <1>2, <1>3, PTL DEF DialogSpec

-----------------------------------------------------------------------------
(* The dialog for Markdown.                                                *)

LEMMA TypedStep ==
  ASSUME Shapes, [DialogNext]_dialogVars, markdown.words = "typed", markdown' # markdown
  PROVE  ~markdown'.open \/ markdown'.words \in {"none", "typed"}
<1>1. CASE OpenMarkdownPaste \/ TypeMarkdown
  BY <1>1 DEF OpenMarkdownPaste, TypeMarkdown, Shapes
<1>2. CASE ClipboardRead \/ CloseMarkdownPaste
  BY <1>2 DEF ClipboardRead, CloseMarkdownPaste, Shapes
<1>3. DialogNext => OpenMarkdownPaste \/ TypeMarkdown \/ ClipboardRead \/ CloseMarkdownPaste \/ UNCHANGED markdown
  BY DEF DialogNext, TypeQuery, SelectFolder, SearchStarts, SearchServed, SearchHeard, SearchFails, VaultSwitched,
         VaultShown, ToggleSelection, TrashLoaded, RunTrash, ProcessItem, RunEnds, ScanAssets, AssetsScanned,
         DeleteSelectedAssets, AssetsDeleted, SearchOnly, DialogOnly
<1> QED
  BY <1>1, <1>2, <1>3 DEF dialogVars

\* A clipboard read late, or for a dialog closed before, takes nothing typed.
THEOREM TypedStays == DialogSpec => TypedMarkdownStays
<1>1. Shapes /\ [DialogNext]_dialogVars
        => [markdown.words = "typed" /\ markdown' # markdown => ~markdown'.open \/ markdown'.words \in {"none", "typed"}]_dialogVars
  BY TypedStep
<1> QED
  BY <1>1, ShapesAtFirst, ShapesStay, PTL DEF DialogSpec, TypedMarkdownStays

-----------------------------------------------------------------------------
(* The editor. *)
\* What ExternalImagesWait rests on: the <img> is about the source of the note,
\* the data of the wrapper are about that source or about none, and a wrapper
\* that says it was loaded is one whose source was agreed to.
Consent ==
  /\ ExternalImagesWait
  /\ img.src = source
  /\ wrapper.source \in {source, "empty"}
  /\ wrapper.loaded => wrapper.source \in Site /\ agreed = wrapper.source
  /\ label # "empty" => label = wrapper.source /\ label \in Site

\* Decorating the image of the source keeps Consent, when the data it finds are
\* about that source and agreed to, or about another one and not.
LEMMA DecorateKeeps ==
  ASSUME NEW i, NEW data,
         i.src = source', i = NoImg => source' = "empty",
         data.loaded /\ data.source = source' => agreed' = source',
         i.what = "real" /\ i.src \in Site => agreed' = i.src,
         Decorate(i, data)
  PROVE  Consent'
<1>1. CASE i = NoImg \/ ExternalSource(i) = "empty"
  <2>1. source' \notin Site
    BY <1>1, SiteAssumption DEF ExternalSource
  <2>2. img' = i /\ wrapper' = NoData /\ label' = "empty"
    BY <1>1 DEF Decorate
  <2> QED
    BY <2>1, <2>2 DEF Consent, ExternalImagesWait, NoData
<1>2. CASE ~(i = NoImg \/ ExternalSource(i) = "empty")
  <2>1. source' \in Site /\ source' # "empty" /\ ExternalSource(i) = source'
    BY <1>2, SiteAssumption DEF ExternalSource
  <2> DEFINE now == Fresh(data, source')
  <2>2. now.source = source' /\ (now.loaded => data.loaded /\ data.source = source')
    BY DEF Fresh, NoData
  <2>3. wrapper' = now
    BY <1>2, <2>1 DEF Decorate
  <2>4. CASE now.loaded /\ ~now.failed
    <3>1. img' = [what |-> "real", src |-> source'] /\ label' = "empty"
      BY <1>2, <2>1, <2>4 DEF Decorate
    <3> QED
      BY <2>1, <2>2, <2>3, <2>4, <3>1 DEF Consent, ExternalImagesWait
  <2>5. CASE ~(now.loaded /\ ~now.failed)
    <3>1. img' = i /\ label' = source'
      BY <1>2, <2>1, <2>5 DEF Decorate
    <3> QED
      BY <2>1, <2>2, <2>3, <3>1 DEF Consent, ExternalImagesWait
  <2> QED
    BY <2>4, <2>5
<1> QED
  BY <1>1, <1>2

LEMMA ConsentAtFirst == ExternalInit => Consent
  BY SiteAssumption DEF ExternalInit, Consent, ExternalImagesWait, NoImg, NoData, InlineImageURL, Source

LEMMA ConsentStays == Consent /\ [ExternalNext]_externalVars => Consent'
<1> SUFFICES ASSUME Consent, [ExternalNext]_externalVars PROVE Consent'
  OBVIOUS
<1>1. CASE ChangeSource
  <2>1. PICK src \in Source \ {source} :
          /\ source' = src /\ agreed' = "empty"
          /\ Decorate(IF src = "empty" THEN NoImg ELSE InlineImageURL(src), wrapper)
    BY <1>1 DEF ChangeSource
  <2> DEFINE i == IF src = "empty" THEN NoImg ELSE InlineImageURL(src)
  <2>2. i.src = source' /\ (i = NoImg => source' = "empty") /\ ~(i.what = "real" /\ i.src \in Site)
    BY <2>1, SiteAssumption DEF NoImg, InlineImageURL
  <2>3. ~(wrapper.loaded /\ wrapper.source = source')
    BY <2>1, SiteAssumption DEF Consent
  <2> HIDE DEF i
  <2> QED
    BY <2>1, <2>2, <2>3, DecorateKeeps DEF i
<1>2. CASE Rebuild
  <2> DEFINE i == InlineImageURL(source)
  <2>1. source' = source /\ Decorate(i, NoData)
    BY <1>2 DEF Rebuild
  <2>2. i.src = source' /\ (i = NoImg => source' = "empty") /\ ~(i.what = "real" /\ i.src \in Site) /\ ~NoData.loaded
    BY <2>1 DEF NoImg, NoData, InlineImageURL
  <2> HIDE DEF i
  <2> QED
    BY <2>1, <2>2, DecorateKeeps
<1>3. CASE Rerender
  <2> DEFINE i == InlineImageURL(source)
  <2>1. source' = source /\ agreed' = agreed /\ Decorate(i, wrapper)
    BY <1>3 DEF Rerender
  <2>2. i.src = source' /\ (i = NoImg => source' = "empty") /\ ~(i.what = "real" /\ i.src \in Site)
    BY <2>1 DEF NoImg, InlineImageURL
  <2>3. wrapper.loaded /\ wrapper.source = source' => agreed' = source'
    BY <2>1 DEF Consent
  <2> HIDE DEF i
  <2> QED
    BY <2>1, <2>2, <2>3, DecorateKeeps
<1>4. CASE LoadImage
  <2> DEFINE i == [what |-> "real", src |-> wrapper.source]
             data == [wrapper EXCEPT !.loaded = TRUE, !.failed = FALSE]
  <2>1. /\ source' = source /\ agreed' = label /\ Decorate(i, data)
        /\ label # "empty"
    BY <1>4 DEF LoadImage
  <2>2. label = source /\ wrapper.source = source
    BY <2>1 DEF Consent
  <2>3. i.src = source' /\ i # NoImg
    BY <2>1, <2>2 DEF NoImg
  <2> HIDE DEF i, data
  <2> QED
    BY <2>1, <2>2, <2>3, DecorateKeeps
<1>5. CASE ImageFails
  <2>1. CASE wrapper.loaded
    <3> DEFINE data == [wrapper EXCEPT !.failed = TRUE]
    <3>1. source' = source /\ agreed' = agreed /\ Decorate(img, data) /\ img.what = "real"
      BY <1>5, <2>1 DEF ImageFails
    <3>2. agreed = source /\ img.src = source' /\ img # NoImg
      BY <1>5, <2>1, <3>1, SiteAssumption DEF Consent, NoImg, ImageFails
    <3> HIDE DEF data
    <3> QED
      BY <3>1, <3>2, DecorateKeeps
  <2>2. CASE ~wrapper.loaded
    BY <1>5, <2>2 DEF ImageFails, Consent, ExternalImagesWait
  <2> QED
    BY <2>1, <2>2
<1>6. CASE UNCHANGED externalVars
  BY <1>6 DEF externalVars, Consent, ExternalImagesWait
<1> QED
  BY <1>1, <1>2, <1>3, <1>4, <1>5, <1>6 DEF ExternalNext

\* Whatever is edited, undone, rendered, loaded and refused, another site is not
\* asked for an image before the user agreed to that source.
THEOREM ImagesWait == ExternalInit /\ [][ExternalNext]_externalVars => []ExternalImagesWait
<1>1. Consent => ExternalImagesWait
  BY DEF Consent
<1> QED
  BY <1>1, ConsentAtFirst, ConsentStays, PTL

-----------------------------------------------------------------------------
(* Code.                                                                   *)

\* CopyIsReported with the fields that a view has.
Reported ==
  /\ CopyIsReported
  /\ view = [there |-> view.there, select |-> view.select, icon |-> view.icon,
             reset |-> view.reset, status |-> view.status, due |-> view.due]

LEMMA ReportedAtFirst == ViewInit => Reported
<1> SUFFICES ASSUME ViewInit PROVE Reported
  OBVIOUS
<1>1. view = [there |-> TRUE, select |-> block.language, icon |-> "copy", reset |-> FALSE, status |-> "", due |-> ""]
  BY DEF ViewInit, Gone
<1>2. CopyIsReported
  BY <1>1 DEF CopyIsReported
<1>3. view = [there |-> view.there, select |-> view.select, icon |-> view.icon,
              reset |-> view.reset, status |-> view.status, due |-> view.due]
  BY <1>1
<1> QED
  BY <1>2, <1>3 DEF Reported

LEMMA ReportedStays == Reported /\ [ViewNext]_viewVars => Reported'
<1> SUFFICES ASSUME Reported, [ViewNext]_viewVars PROVE Reported'
  OBVIOUS
<1> USE DEF Reported, CopyIsReported
<1>1. ASSUME NEW node, NodeBecomes(node), last' = last PROVE Reported'
  <2>1. CASE view.there
    <3>1. view' = [view EXCEPT !.select = node.language] /\ block' = node
      BY <1>1, <2>1 DEF NodeBecomes
    <3>2. /\ view'.icon = view.icon /\ view'.reset = view.reset /\ view'.status = view.status
          /\ view'.due = view.due /\ view'.select = node.language /\ view'.there = view.there
      BY <3>1
    <3>3. view' = [there |-> view'.there, select |-> view'.select, icon |-> view'.icon,
                   reset |-> view'.reset, status |-> view'.status, due |-> view'.due]
      BY <3>1
    <3> QED
      BY <1>1, <2>1, <3>1, <3>2, <3>3
  <2>2. CASE ~view.there
    BY <1>1, <2>2 DEF NodeBecomes
  <2> QED
    BY <2>1, <2>2
<1>2. CASE EditBlock
  BY <1>1, <1>2 DEF EditBlock
<1>3. CASE SetLanguage
  BY <1>1, <1>3 DEF SetLanguage
<1>4. CASE StartCopy
  BY <1>4 DEF StartCopy
<1>5. CASE CopySucceeds
  BY <1>5 DEF CopySucceeds, Announced
<1>6. CASE CopyFails
  BY <1>6 DEF CopyFails, Announced
<1>7. CASE ResetCopyIcon
  BY <1>7 DEF ResetCopyIcon
<1>8. CASE Announce
  BY <1>8 DEF Announce
<1>9. CASE DestroyView
  BY <1>9 DEF DestroyView
<1>10. CASE UNCHANGED viewVars
  BY <1>10 DEF viewVars
<1> QED
  BY <1>2, <1>3, <1>4, <1>5, <1>6, <1>7, <1>8, <1>9, <1>10 DEF ViewNext

\* However many copies are under way and in whatever order they end, the check
\* mark and the message are of the one that ended last.
THEOREM CopiesAreReported == CodeInit /\ [][CodeNext]_codeVars => []CopyIsReported
<1>1. CodeInit => Reported
  BY ReportedAtFirst DEF CodeInit
<1>3. Reported => CopyIsReported
  BY DEF Reported
<1>2. [CodeNext]_codeVars => [ViewNext]_viewVars
  BY DEF CodeNext, codeVars
<1> QED
  BY <1>1, <1>2, <1>3, ReportedStays, PTL
\* CodeModeIsShown with what it rests on: what the listener was told of is what
\* the button shows, and the ref is on only where the stored marks have code.
ModeTogether ==
  /\ synced => (button <=> Active(storedMarks, inside))
  /\ typing /\ ~strayed => storedMarks = "on"
  /\ typing \in BOOLEAN /\ button \in BOOLEAN /\ inside \in BOOLEAN

LEMMA ActiveWhenOn == \A here : Active("on", here) = TRUE
  BY DEF Active

LEMMA ActiveIsBoolean == \A marks : \A here \in BOOLEAN : Active(marks, here) \in BOOLEAN
  BY DEF Active

LEMMA ModeAtFirst == ModeInit => ModeTogether
  BY DEF ModeInit, ModeTogether, Active

LEMMA ModeStays == ModeTogether /\ [ModeNext]_modeVars => ModeTogether'
<1> SUFFICES ASSUME ModeTogether, [ModeNext]_modeVars PROVE ModeTogether'
  OBVIOUS
<1>1. CASE ToggleInlineCode
  BY <1>1, ActiveIsBoolean DEF ToggleInlineCode, ModeTogether, NextIsCode
<1>2. CASE TypeText
  BY <1>2 DEF TypeText, ModeTogether
<1>3. CASE EscapeCode
  BY <1>3 DEF EscapeCode, ModeTogether
<1>4. CASE MoveOrDelete
  BY <1>4 DEF MoveOrDelete, ModeTogether
<1>5. CASE ToggleMark
  BY <1>5 DEF ToggleMark, ModeTogether
<1>6. CASE ModeHeard
  BY <1>6, ActiveIsBoolean DEF ModeHeard, ModeTogether
<1>7. CASE UNCHANGED modeVars
  BY <1>7 DEF modeVars, ModeTogether
<1> QED
  BY <1>1, <1>2, <1>3, <1>4, <1>5, <1>6, <1>7 DEF ModeNext

LEMMA TogetherIsShown == ModeTogether => CodeModeIsShown
<1> SUFFICES ASSUME ModeTogether, synced, ~strayed PROVE button = NextIsCode
  BY DEF CodeModeIsShown
<1>1. button <=> Active(storedMarks, inside)
  BY DEF ModeTogether
<1>2. typing => Active(storedMarks, inside)
  BY ActiveWhenOn DEF ModeTogether
<1>3. button \in BOOLEAN
  BY DEF ModeTogether
<1> QED
  BY <1>1, <1>2, <1>3 DEF NextIsCode

\* As long as the cursor stays while one types code, the button shows what the
\* next letter will be.
THEOREM CodeModeShown == CodeInit /\ [][CodeNext]_codeVars => []CodeModeIsShown
<1>1. CodeInit => ModeTogether
  BY ModeAtFirst DEF CodeInit
<1>2. [CodeNext]_codeVars => [ModeNext]_modeVars
  BY DEF CodeNext, codeVars
<1> QED
  BY <1>1, <1>2, ModeStays, TogetherIsShown, PTL

-----------------------------------------------------------------------------
(* The outline and the statistics.  Once a change was told, the statistics *)
(* are those of the text; an open outline is too unless its renewal is     *)
(* due: telling a change while the outline is open makes it due, and       *)
(* opening the outline renews it.  The property is inductive as it stands. *)

\* setOutlineHeadings ends with the outline of the text, kept or new.
LEMMA RenewedIsCurrent ==
  ASSUME NEW wording, Renew(wording)
  PROVE  headings' = DocumentOutline(wording)
BY DEF Renew, SameOutline

LEMMA EditsAreNotTold ==
  InsertBlock \/ DeleteBlock \/ PasteBlock \/ ToggleTask \/ ClickTask => ~told'
<1>1. ASSUME NEW wording PROVE Changed(wording) => ~told'
  BY DEF Changed
<1>2. InsertBlock => ~told'
  BY <1>1 DEF InsertBlock
<1>3. DeleteBlock => ~told'
  BY <1>1 DEF DeleteBlock
<1>4. PasteBlock => ~told'
  BY <1>1 DEF PasteBlock
<1>5. ToggleTask => ~told'
  BY <1>1 DEF ToggleTask
<1>6. ClickTask => ~told'
  BY <1>1 DEF ClickTask
<1> QED
  BY <1>2, <1>3, <1>4, <1>5, <1>6

LEMMA OutlineAtFirst == OutlineInit => OutlineCatchesUp
BY DEF OutlineInit, OutlineCatchesUp

LEMMA OutlineStays == OutlineCatchesUp /\ [OutlineNext]_outlineVars => OutlineCatchesUp'
<1> SUFFICES ASSUME OutlineCatchesUp, [OutlineNext]_outlineVars, told' PROVE OutlineCatchesUp'
  BY DEF OutlineCatchesUp
<1>1. CASE InsertBlock \/ DeleteBlock \/ PasteBlock \/ ToggleTask \/ ClickTask
  BY <1>1, EditsAreNotTold
<1>2. CASE ChangeHeard
  <2>1. stats' = DocumentStats(blocks) /\ blocks' = blocks
    BY <1>2 DEF ChangeHeard
  <2>2. outlineOpen' => renewal'
    BY <1>2 DEF ChangeHeard
  <2> QED
    BY <2>1, <2>2 DEF OutlineCatchesUp
<1>3. CASE RefreshOutline
  <2>1. blocks' = blocks /\ told' = told /\ outlineOpen' = outlineOpen /\ stats' = stats
    BY <1>3 DEF RefreshOutline
  <2>2. outlineOpen => headings' = DocumentOutline(blocks)
    BY <1>3, RenewedIsCurrent DEF RefreshOutline
  <2> QED
    BY <2>1, <2>2 DEF OutlineCatchesUp
<1>4. CASE OpenOutline
  <2>1. blocks' = blocks /\ told' = told /\ stats' = stats
    BY <1>4 DEF OpenOutline
  <2>2. headings' = DocumentOutline(blocks)
    BY <1>4, RenewedIsCurrent DEF OpenOutline
  <2> QED
    BY <2>1, <2>2 DEF OutlineCatchesUp
<1>5. CASE CloseOutline
  BY <1>5 DEF CloseOutline, OutlineCatchesUp
<1>6. CASE ScrollText
  BY <1>6 DEF ScrollText, OutlineCatchesUp
<1>7. CASE SelectHeading
  BY <1>7 DEF SelectHeading, OutlineCatchesUp
<1>8. CASE UNCHANGED outlineVars
  BY <1>8 DEF outlineVars, OutlineCatchesUp
<1> QED
  BY <1>1, <1>2, <1>3, <1>4, <1>5, <1>6, <1>7, <1>8 DEF OutlineNext

\* Once nothing is due, an open outline lists the headings of the text and the
\* status bar counts its lines, for texts of any length.
THEOREM OutlineIsCurrent == OutlineInit /\ [][OutlineNext]_outlineVars => []OutlineCatchesUp
BY OutlineAtFirst, OutlineStays, PTL

-----------------------------------------------------------------------------
(* The images of the editor: the one that is picked, and the sizes.        *)

\* What inserting and removing a unit makes of a sequence.
LEMMA InsertedAt ==
  ASSUME NEW S, NEW s \in Seq(S), NEW e \in S, NEW i \in 1..(Len(s) + 1)
  PROVE  /\ InsertAt(s, i, e) \in Seq(S)
         /\ Len(InsertAt(s, i, e)) = Len(s) + 1
         /\ \A j \in 1..(i - 1) : InsertAt(s, i, e)[j] = s[j]
         /\ InsertAt(s, i, e)[i] = e
         /\ \A j \in i..Len(s) : InsertAt(s, i, e)[j + 1] = s[j]
<1> DEFINE left == SubSeq(s, 1, i - 1)
           right == SubSeq(s, i, Len(s))
<1>1. left \in Seq(S) /\ Len(left) = i - 1 /\ \A j \in 1..(i - 1) : left[j] = s[j]
  OBVIOUS
<1>2. right \in Seq(S) /\ Len(right) = Len(s) - i + 1 /\ \A j \in 1..(Len(s) - i + 1) : right[j] = s[i + j - 1]
  OBVIOUS
<1>3. <<e>> \in Seq(S) /\ Len(<<e>>) = 1 /\ <<e>>[1] = e
  OBVIOUS
<1>4. InsertAt(s, i, e) = (left \o <<e>>) \o right
  BY DEF InsertAt
<1> HIDE DEF left, right
<1>5. left \o <<e>> \in Seq(S) /\ Len(left \o <<e>>) = i
  BY <1>1, <1>3
<1>6. \A j \in 1..(i - 1) : (left \o <<e>>)[j] = s[j]
  BY <1>1, <1>3
<1>7. (left \o <<e>>)[i] = e
  BY <1>1, <1>3
<1> DEFINE front == left \o <<e>>
<1> HIDE DEF front
<1>8. front \in Seq(S) /\ Len(front) = i /\ InsertAt(s, i, e) = front \o right
  BY <1>4, <1>5 DEF front
<1>9. front \o right \in Seq(S) /\ Len(front \o right) = Len(s) + 1
  BY <1>2, <1>8
<1>10. \A j \in 1..i : (front \o right)[j] = front[j]
  BY <1>2, <1>8
<1>11. \A j \in i..Len(s) : (front \o right)[j + 1] = s[j]
  <2> SUFFICES ASSUME NEW j \in i..Len(s) PROVE (front \o right)[j + 1] = s[j]
    OBVIOUS
  <2>1. (front \o right)[j + 1] = right[j + 1 - i]
    BY <1>2, <1>8
  <2>2. j + 1 - i \in 1..(Len(s) - i + 1) /\ i + (j + 1 - i) - 1 = j
    OBVIOUS
  <2> QED
    BY <1>2, <2>1, <2>2
<1>12. \A j \in 1..(i - 1) : front[j] = s[j]
  BY <1>6 DEF front
<1>13. front[i] = e
  BY <1>7 DEF front
<1> QED
  BY <1>8, <1>9, <1>10, <1>11, <1>12, <1>13

LEMMA RemovedAt ==
  ASSUME NEW S, NEW s \in Seq(S), NEW i \in 1..Len(s)
  PROVE  RemoveAt(s, i) \in Seq(S)
<1>1. SubSeq(s, 1, i - 1) \in Seq(S) /\ SubSeq(s, i + 1, Len(s)) \in Seq(S)
  OBVIOUS
<1> QED
  BY <1>1 DEF RemoveAt

\* What a unit of the note may be.
NoteParts == Image \cup {"text", Uploaded}

NoteShape ==
  /\ note \in Seq(NoteParts)
  /\ nodeAt = 0 \/ nodeAt \in Images
  /\ picked.at \in Nat /\ picked.src \in ImagePath

\* What PickedIsInTheNote rests on.
PickFollows ==
  heard /\ ~stray => picked = IF nodeAt = 0 THEN NoPick ELSE [at |-> nodeAt, src |-> note[nodeAt]]

NoteInv == NoteShape /\ PickFollows

LEMMA ImagesAreParts ==
  ASSUME NoteShape, NEW i \in Images
  PROVE  i \in 1..Len(note) /\ i # 0 /\ note[i] \in ImagePath /\ note[i] # "text"
BY DEF NoteShape, Images, NoteParts, ImagePath

LEMMA NoteAtFirst == ImageInit => NoteInv
<1> SUFFICES ASSUME ImageInit PROVE NoteInv
  OBVIOUS
<1>1. PICK n \in 1..MaxNote : note \in [1..n -> Image \cup {"text"}]
  BY DEF ImageInit
<1>2. n \in Nat
  BY ImageAssumption
<1>3. note \in Seq(NoteParts)
  BY <1>1, <1>2 DEF NoteParts
<1>4. nodeAt = 0 /\ picked = NoPick
  BY DEF ImageInit
<1>5. NoPick.at = 0 /\ NoPick.src = Uploaded
  BY DEF NoPick
<1> QED
  BY <1>3, <1>4, <1>5 DEF NoteInv, NoteShape, PickFollows, ImagePath

LEMMA DroppedBefore ==
  ASSUME NoteInv, InsertElsewhere
  PROVE  NoteInv'
<1>1. PICK image \in Image, i \in 1..(Len(note) + 1) :
        /\ note' = InsertAt(note, i, image)
        /\ nodeAt' = IF nodeAt >= i THEN nodeAt + 1 ELSE nodeAt
        /\ heard' = (heard /\ nodeAt' = nodeAt)
        /\ UNCHANGED <<picked, replacing, stray>>
  BY DEF InsertElsewhere
<1>2. note \in Seq(NoteParts) /\ image \in NoteParts
  BY DEF NoteInv, NoteShape, NoteParts
<1>3. /\ note' \in Seq(NoteParts)
      /\ Len(note') = Len(note) + 1
      /\ \A j \in 1..(i - 1) : note'[j] = note[j]
      /\ \A j \in i..Len(note) : note'[j + 1] = note[j]
  <2>1. /\ InsertAt(note, i, image) \in Seq(NoteParts)
        /\ Len(InsertAt(note, i, image)) = Len(note) + 1
        /\ \A j \in 1..(i - 1) : InsertAt(note, i, image)[j] = note[j]
        /\ \A j \in i..Len(note) : InsertAt(note, i, image)[j + 1] = note[j]
    BY <1>2, InsertedAt
  <2> QED
    BY <1>1, <2>1
<1>4. nodeAt' = 0 \/ nodeAt' \in Images'
  <2>1. CASE nodeAt = 0
    BY <1>1, <2>1
  <2>2. CASE nodeAt \in Images
    <3>1. nodeAt \in 1..Len(note) /\ note[nodeAt] # "text"
      BY <2>2, ImagesAreParts DEF NoteInv
    <3>2. CASE nodeAt >= i
      <4>1. nodeAt' = nodeAt + 1 /\ note'[nodeAt + 1] = note[nodeAt] /\ nodeAt + 1 \in 1..Len(note')
        BY <1>1, <1>3, <3>1, <3>2
      <4> QED
        BY <1>3, <3>1, <4>1 DEF Images
    <3>3. CASE ~(nodeAt >= i)
      <4>1. nodeAt' = nodeAt /\ note'[nodeAt] = note[nodeAt] /\ nodeAt \in 1..Len(note')
        BY <1>1, <1>3, <3>1, <3>3
      <4> QED
        BY <1>3, <3>1, <4>1 DEF Images
    <3> QED
      BY <3>2, <3>3
  <2> QED
    BY <2>1, <2>2 DEF NoteInv, NoteShape
<1>5. PickFollows'
  <2> SUFFICES ASSUME heard', ~stray' PROVE picked' = IF nodeAt' = 0 THEN NoPick ELSE [at |-> nodeAt', src |-> note'[nodeAt']]
    BY DEF PickFollows, NoPick
  <2>1. heard /\ ~stray /\ nodeAt' = nodeAt /\ picked' = picked
    BY <1>1
  <2>2. picked = IF nodeAt = 0 THEN NoPick ELSE [at |-> nodeAt, src |-> note[nodeAt]]
    BY <2>1 DEF NoteInv, PickFollows
  <2>3. CASE nodeAt = 0
    BY <2>1, <2>2, <2>3
  <2>4. CASE nodeAt # 0
    <3>1. nodeAt \in 1..Len(note)
      BY <2>4, ImagesAreParts DEF NoteInv, NoteShape
    <3>2. ~(nodeAt >= i)
      BY <1>1, <2>1, <3>1
    <3>3. note'[nodeAt] = note[nodeAt]
      BY <1>3, <3>1, <3>2
    <3> QED
      BY <2>1, <2>2, <2>4, <3>3
  <2> QED
    BY <2>3, <2>4
<1> QED
  BY <1>1, <1>3, <1>4, <1>5 DEF NoteInv, NoteShape, ImagePath

LEMMA ReplacedAt ==
  ASSUME NoteInv, ReplaceSelectedImage
  PROVE  NoteInv'
<1>1. CASE ~IsImage(replacing.at)
  BY <1>1 DEF ReplaceSelectedImage, NoteInv, NoteShape, PickFollows, Images, ImagePath
<1>2. CASE IsImage(replacing.at)
  <2> DEFINE i == replacing.at
  <2>1. /\ note' = [note EXCEPT ![i] = Uploaded]
        /\ picked' = [at |-> i, src |-> Uploaded]
        /\ nodeAt' = IF nodeAt = i THEN 0 ELSE nodeAt
        /\ heard' = (heard /\ nodeAt' = nodeAt)
        /\ stray' = (nodeAt # i)
    BY <1>2 DEF ReplaceSelectedImage
  <2>2. i \in 1..Len(note) /\ note \in Seq(NoteParts)
    BY <1>2 DEF IsImage, NoteInv, NoteShape
  <2> HIDE DEF i
  <2>3. note' \in Seq(NoteParts) /\ DOMAIN note' = DOMAIN note
    BY <2>1, <2>2 DEF NoteParts
  <2>4. \A j \in DOMAIN note : j # i => note'[j] = note[j]
    BY <2>1, <2>2
  <2>5. nodeAt' = 0 \/ nodeAt' \in Images'
    <3>1. nodeAt = 0 \/ nodeAt \in Images
      BY DEF NoteInv, NoteShape
    <3> QED
      BY <2>1, <2>3, <2>4, <3>1 DEF Images
  <2>6. ~(heard' /\ ~stray')
    <3>1. CASE nodeAt = i
      <4>1. nodeAt' # nodeAt
        BY <2>1, <2>2, <3>1
      <4> QED
        BY <2>1, <4>1, Zenon
    <3>2. CASE nodeAt # i
      BY <2>1, <3>2, Zenon
    <3> QED
      BY <3>1, <3>2
  <2>7. picked'.at \in Nat /\ picked'.src \in ImagePath
    BY <2>1, <2>2 DEF ImagePath
  <2> QED
    BY <2>3, <2>5, <2>6, <2>7 DEF NoteInv, NoteShape, PickFollows, ImagePath
<1> QED
  BY <1>1, <1>2

\* A step that leaves the text and the selection alone, or forgets the selection
\* and has not been heard of.
LEMMA NoteUntouched ==
  ASSUME NoteInv, UNCHANGED <<note, nodeAt, heard, picked, stray>>
  PROVE  NoteInv'
BY DEF NoteInv, NoteShape, PickFollows, Images, ImagePath

LEMMA NoteForgotten ==
  ASSUME NoteInv, note' \in Seq(NoteParts), nodeAt' = 0, heard' = FALSE, picked' = picked \/ picked' = NoPick
  PROVE  NoteInv'
<1>1. NoPick.at = 0 /\ NoPick.src = Uploaded
  BY DEF NoPick
<1> QED
  BY <1>1 DEF NoteInv, NoteShape, PickFollows, ImagePath

LEMMA NoteStays == NoteInv /\ [ImageNext]_imageVars => NoteInv'
<1> SUFFICES ASSUME NoteInv, [ImageNext]_imageVars PROVE NoteInv'
  OBVIOUS
<1>0. note \in Seq(NoteParts)
  BY DEF NoteInv, NoteShape
<1>1. CASE SelectImage
  <2>1. PICK i \in Images : nodeAt' = i /\ heard' = FALSE /\ UNCHANGED <<note, picked, stray>>
    BY <1>1 DEF SelectImage
  <2> QED
    BY <2>1 DEF NoteInv, NoteShape, PickFollows, Images, ImagePath
<1>2. CASE SelectText
  BY <1>2, <1>0, NoteForgotten DEF SelectText
<1>3. CASE SelectionHeard
  <2>1. CASE nodeAt = 0
    <3>1. picked' = NoPick /\ UNCHANGED <<note, nodeAt>>
      BY <1>3, <2>1 DEF SelectionHeard
    <3>2. NoPick.at = 0 /\ NoPick.src = Uploaded
      BY DEF NoPick
    <3> QED
      BY <2>1, <3>1, <3>2 DEF NoteInv, NoteShape, PickFollows, ImagePath
  <2>2. CASE nodeAt # 0
    <3>1. picked' = [at |-> nodeAt, src |-> note[nodeAt]] /\ UNCHANGED <<note, nodeAt>>
      BY <1>3, <2>2 DEF SelectionHeard
    <3>2. nodeAt \in 1..Len(note) /\ note[nodeAt] \in ImagePath /\ nodeAt \in Images
      BY <2>2, ImagesAreParts DEF NoteInv, NoteShape
    <3>3. picked'.at = nodeAt /\ picked'.src = note[nodeAt] /\ nodeAt \in Nat
      BY <3>1, <3>2
    <3> QED
      BY <1>0, <2>2, <3>1, <3>2, <3>3 DEF NoteInv, NoteShape, PickFollows, ImagePath, Images
  <2> QED
    BY <2>1, <2>2
<1>4. CASE InsertHere
  <2>1. PICK unit \in Image \cup {"text"} :
          /\ \/ nodeAt # 0 /\ note' = ReplaceAt(note, nodeAt, unit)
             \/ nodeAt = 0 /\ \E i \in 1..(Len(note) + 1) : note' = InsertAt(note, i, unit)
          /\ nodeAt' = 0 /\ heard' = FALSE /\ picked' = picked
    BY <1>4 DEF InsertHere
  <2>2. unit \in NoteParts
    BY DEF NoteParts
  <2>3. note' \in Seq(NoteParts)
    <3>1. CASE nodeAt # 0 /\ note' = ReplaceAt(note, nodeAt, unit)
      <4>1. nodeAt \in 1..Len(note)
        BY <3>1, ImagesAreParts DEF NoteInv, NoteShape
      <4> QED
        BY <1>0, <2>2, <3>1, <4>1 DEF ReplaceAt
    <3>2. CASE \E i \in 1..(Len(note) + 1) : note' = InsertAt(note, i, unit)
      BY <1>0, <2>2, <3>2, InsertedAt
    <3> QED
      BY <2>1, <3>1, <3>2
  <2> QED
    BY <2>1, <2>3, NoteForgotten
<1>5. CASE InsertElsewhere
  BY <1>5, DroppedBefore
<1>6. CASE DeleteUnit
  <2>1. PICK i \in DOMAIN note : note' = RemoveAt(note, i) /\ nodeAt' = 0 /\ heard' = FALSE /\ picked' = picked
    BY <1>6 DEF DeleteUnit
  <2>2. note' \in Seq(NoteParts)
    BY <1>0, <2>1, RemovedAt
  <2> QED
    BY <2>1, <2>2, NoteForgotten
<1>7. CASE ReplaceSelectedImage
  BY <1>7, ReplacedAt
<1>8. CASE RemoveSelectedImage
  <2>1. CASE ~IsImage(picked.at)
    BY <1>8, <2>1, NoteUntouched DEF RemoveSelectedImage
  <2>2. CASE IsImage(picked.at)
    <3>1. note' = RemoveAt(note, picked.at) /\ nodeAt' = 0 /\ heard' = FALSE /\ picked' = NoPick
      BY <1>8, <2>2 DEF RemoveSelectedImage
    <3>2. picked.at \in 1..Len(note)
      BY <1>0, <2>2 DEF IsImage
    <3>3. note' \in Seq(NoteParts)
      BY <1>0, <3>1, <3>2, RemovedAt
    <3> QED
      BY <3>1, <3>3, NoteForgotten
  <2> QED
    BY <2>1, <2>2
<1>9. CASE LoadImagePresentations \/ PresentationsHeard \/ ResizeImage \/ StartReplacing \/ ReplacementFails
  BY <1>9, NoteUntouched
     DEF LoadImagePresentations, PresentationsHeard, ResizeImage, StartReplacing, ReplacementFails, SameNote
<1>10. CASE \E s \in Slot : SaveAnswered(s) \/ SaveFailed(s)
  BY <1>10, NoteUntouched DEF SaveAnswered, SaveFailed, SameNote
<1>11. CASE UNCHANGED imageVars
  BY <1>11, NoteUntouched DEF imageVars
<1> QED
  BY <1>1, <1>2, <1>3, <1>4, <1>5, <1>6, <1>7, <1>8, <1>9, <1>10, <1>11 DEF ImageNext

LEMMA FollowedIsInTheNote == NoteInv => PickedIsInTheNote
<1> SUFFICES ASSUME NoteInv, heard, ~stray, picked # NoPick
             PROVE  picked.at \in DOMAIN note /\ note[picked.at] = picked.src
  BY DEF PickedIsInTheNote
<1>1. nodeAt # 0 /\ picked = [at |-> nodeAt, src |-> note[nodeAt]]
  BY DEF NoteInv, PickFollows
<1>2. picked.at = nodeAt /\ picked.src = note[nodeAt]
  BY <1>1
<1>3. nodeAt \in DOMAIN note
  BY <1>1 DEF NoteInv, NoteShape, Images
<1> QED
  BY <1>2, <1>3

\* The buttons act on the image that is selected, for notes of any length, any
\* images and any order of edits, drops, replacements and late selections.
THEOREM PickedStays == ImageInit /\ [][ImageNext]_imageVars => []PickedIsInTheNote
BY NoteAtFirst, NoteStays, FollowedIsInTheNote, PTL

-----------------------------------------------------------------------------
(* The sizes of the images. *)
SizeMap == [ImagePath -> Size]
SizeRequest ==
  [at : {"no", "save", "remove"}, src : ImagePath, size : Size, previous : ImagePath, before : SizeMap]

SizesShape ==
  /\ sizes \in SizeMap /\ values \in SizeMap
  /\ saves \in [Slot -> SizeRequest]

ReplacingShape == replacing.src \in ImagePath /\ replacing.before \in SizeMap

\* Unless requests overlapped, at most one is in flight.
OneRequest ==
  ~unsure =>
    /\ sizesAsked = "asked" => \A s \in Slot : saves[s].at = "no"
    /\ \A s, t \in Slot : saves[s].at # "no" /\ saves[t].at # "no" => s = t

\* What is shown while a request is in flight: what is stored with the change it
\* asks for; and it remembers what is stored.
SizesWait ==
  ~unsure /\ sizesAsked = "yes" => \A s \in Slot :
    /\ saves[s].at = "save" => saves[s].before = sizes /\ values = [sizes EXCEPT ![saves[s].src] = saves[s].size]
    /\ saves[s].at = "remove" => values = [sizes EXCEPT ![saves[s].src] = "full"]

SizesInv == SizesShape /\ OneRequest /\ SizesWait /\ SizesAgree

LEMMA NoneRequested ==
  /\ NoSave \in SizeRequest
  /\ NoSave.at = "no"
  /\ NoUpload.src \in ImagePath /\ NoUpload.before \in SizeMap
BY DEF NoSave, NoUpload, SizeRequest, SizeMap, Size, ImagePath

LEMMA SizesAtFirst == ImageInit => SizesInv /\ ReplacingShape
<1> SUFFICES ASSUME ImageInit PROVE SizesInv /\ ReplacingShape
  OBVIOUS
<1>1. sizes \in SizeMap /\ values \in SizeMap /\ sizesAsked = "no" /\ saves = [s \in Slot |-> NoSave] /\ replacing = NoUpload
  BY DEF ImageInit, SizeMap, Size
<1>2. SizesShape /\ ReplacingShape
  BY <1>1, NoneRequested DEF SizesShape, ReplacingShape
<1>3. \A s \in Slot : saves[s].at = "no"
  BY <1>1, NoneRequested
<1> QED
  BY <1>1, <1>2, <1>3 DEF SizesInv, OneRequest, SizesWait, SizesAgree

\* What a request leaves: its slot is taken, the others are as before.
LEMMA SlotTaken ==
  ASSUME SizesShape, NEW s \in Slot, NEW me \in SizeRequest, saves' = [saves EXCEPT ![s] = me]
  PROVE  /\ saves' \in [Slot -> SizeRequest]
         /\ saves'[s] = me
         /\ \A t \in Slot : t # s => saves'[t] = saves[t]
BY DEF SizesShape

LEMMA SaveBegins ==
  ASSUME NEW src \in ImagePath, NEW size \in Size, NEW previous \in ImagePath, NEW before \in SizeMap,
         SizesInv, SaveImagePresentation(src, size, previous, before)
  PROVE  SizesInv'
<1> DEFINE me == [at |-> "save", src |-> src, size |-> size, previous |-> previous, before |-> before]
<1>1. PICK s \in Slot :
        /\ values' = [before EXCEPT ![src] = size]
        /\ saves' = [saves EXCEPT ![s] = me]
        /\ unsure' = (unsure \/ ~NoRequests \/ before # values)
        /\ UNCHANGED <<sizes, sizesAsked>>
  BY DEF SaveImagePresentation
<1>2. /\ me \in SizeRequest
      /\ me.at = "save" /\ me.src = src /\ me.size = size /\ me.before = before
  BY DEF SizeRequest
<1> HIDE DEF me
<1>3. /\ saves' \in [Slot -> SizeRequest]
      /\ saves'[s] = me
      /\ \A t \in Slot : t # s => saves'[t] = saves[t]
  BY <1>1, <1>2, SlotTaken DEF SizesInv
<1>4. SizesShape'
  BY <1>1, <1>3 DEF SizesInv, SizesShape, SizeMap, ImagePath
<1>5. ~unsure' => ~unsure /\ NoRequests /\ before = values
  BY <1>1, Zenon
<1>6. ~unsure' => \A t \in Slot : t # s => saves'[t].at = "no"
  BY <1>3, <1>5 DEF NoRequests
<1>7. OneRequest'
  <2> SUFFICES ASSUME ~unsure'
               PROVE  /\ sizesAsked' # "asked"
                      /\ \A r, t \in Slot : saves'[r].at # "no" /\ saves'[t].at # "no" => r = t
    BY DEF OneRequest, Slot
  <2>1. sizesAsked' # "asked"
    BY <1>1, <1>5 DEF NoRequests
  <2> QED
    BY <1>6, <2>1
<1>8. SizesWait'
  <2> SUFFICES ASSUME ~unsure', sizesAsked' = "yes", NEW t \in Slot
               PROVE  /\ saves'[t].at = "save" =>
                           saves'[t].before = sizes' /\ values' = [sizes' EXCEPT ![saves'[t].src] = saves'[t].size]
                      /\ saves'[t].at # "remove"
    BY DEF SizesWait, Slot
  <2>1. values = sizes
    BY <1>1, <1>5 DEF SizesInv, SizesAgree
  <2>2. CASE t = s
    BY <1>1, <1>2, <1>3, <1>5, <2>1, <2>2
  <2>3. CASE t # s
    BY <1>6, <2>3
  <2> QED
    BY <2>2, <2>3
<1>9. SizesAgree'
  <2>1. ~NoRequests'
    BY <1>2, <1>3 DEF NoRequests, Slot
  <2> QED
    BY <2>1 DEF SizesAgree
<1> QED
  BY <1>4, <1>7, <1>8, <1>9 DEF SizesInv

LEMMA RemovalBegins ==
  ASSUME NEW src \in ImagePath, SizesInv, RemoveImagePresentation(src)
  PROVE  SizesInv'
<1> DEFINE me == [NoSave EXCEPT !.at = "remove", !.src = src]
<1>1. PICK s \in Slot :
        /\ values' = [values EXCEPT ![src] = "full"]
        /\ saves' = [saves EXCEPT ![s] = me]
        /\ unsure' = (unsure \/ ~NoRequests)
        /\ UNCHANGED <<sizes, sizesAsked>>
  BY DEF RemoveImagePresentation
<1>2. me \in SizeRequest /\ me.at = "remove" /\ me.src = src
  BY DEF SizeRequest, NoSave, SizeMap, Size, ImagePath
<1> HIDE DEF me
<1>3. /\ saves' \in [Slot -> SizeRequest]
      /\ saves'[s] = me
      /\ \A t \in Slot : t # s => saves'[t] = saves[t]
  BY <1>1, <1>2, SlotTaken DEF SizesInv
<1>4. SizesShape'
  BY <1>1, <1>3 DEF SizesInv, SizesShape, SizeMap, ImagePath, Size
<1>5. ~unsure' => ~unsure /\ NoRequests
  BY <1>1, Zenon
<1>6. ~unsure' => \A t \in Slot : t # s => saves'[t].at = "no"
  BY <1>3, <1>5 DEF NoRequests
<1>7. OneRequest'
  <2> SUFFICES ASSUME ~unsure'
               PROVE  /\ sizesAsked' # "asked"
                      /\ \A r, t \in Slot : saves'[r].at # "no" /\ saves'[t].at # "no" => r = t
    BY DEF OneRequest, Slot
  <2>1. sizesAsked' # "asked"
    BY <1>1, <1>5 DEF NoRequests
  <2> QED
    BY <1>6, <2>1
<1>8. SizesWait'
  <2> SUFFICES ASSUME ~unsure', sizesAsked' = "yes", NEW t \in Slot
               PROVE  /\ saves'[t].at # "save"
                      /\ saves'[t].at = "remove" => values' = [sizes' EXCEPT ![saves'[t].src] = "full"]
    BY DEF SizesWait, Slot
  <2>1. values = sizes
    BY <1>1, <1>5 DEF SizesInv, SizesAgree
  <2>2. CASE t = s
    BY <1>1, <1>2, <1>3, <1>5, <2>1, <2>2
  <2>3. CASE t # s
    BY <1>6, <2>3
  <2> QED
    BY <2>2, <2>3
<1>9. SizesAgree'
  <2>1. ~NoRequests'
    BY <1>2, <1>3 DEF NoRequests, Slot
  <2> QED
    BY <2>1 DEF SizesAgree
<1> QED
  BY <1>4, <1>7, <1>8, <1>9 DEF SizesInv

LEMMA StoredIsSized ==
  ASSUME SizesShape, NEW me \in SizeRequest
  PROVE  Stored(me) \in SizeMap
<1>1. me.src \in ImagePath /\ me.previous \in ImagePath /\ me.size \in Size
  BY DEF SizeRequest
<1>2. CASE me.at = "remove"
  BY <1>1, <1>2 DEF Stored, SizesShape, SizeMap, Size
<1>3. CASE me.at # "remove"
  <2>1. \A p \in ImagePath : (IF p = me.src THEN me.size ELSE IF p = me.previous THEN "full" ELSE sizes[p]) \in Size
    BY <1>1 DEF SizesShape, SizeMap, Size
  <2> QED
    BY <1>3, <2>1 DEF Stored, SizeMap
<1> QED
  BY <1>2, <1>3

\* When a request ends, and requests did not overlap, none is in flight.
LEMMA SlotFreed ==
  ASSUME SizesInv, NEW s \in Slot, saves[s].at # "no", saves' = [saves EXCEPT ![s] = NoSave],
         sizesAsked' = sizesAsked, ~unsure' => ~unsure
  PROVE  /\ saves' \in [Slot -> SizeRequest]
         /\ ~unsure' => \A t \in Slot : saves'[t].at = "no"
         /\ OneRequest' /\ SizesWait'
<1>1. /\ saves' \in [Slot -> SizeRequest]
      /\ saves'[s] = NoSave
      /\ \A t \in Slot : t # s => saves'[t] = saves[t]
  BY NoneRequested, SlotTaken DEF SizesInv
<1>2. ~unsure' => \A t \in Slot : saves'[t].at = "no"
  BY <1>1, NoneRequested DEF SizesInv, OneRequest
<1>3. OneRequest'
  BY <1>2 DEF OneRequest, Slot
<1>4. SizesWait'
  BY <1>2 DEF SizesWait, Slot
<1> QED
  BY <1>1, <1>2, <1>3, <1>4

LEMMA AnswerAgrees ==
  ASSUME SizesInv, NEW s \in Slot, SaveAnswered(s)
  PROVE  SizesInv'
<1> DEFINE me == saves[s]
<1>1. /\ me.at # "no"
      /\ sizes' = Stored(me)
      /\ values' = IF me.at = "save" /\ me.previous # me.src
                   THEN [values EXCEPT ![me.previous] = "full", ![me.src] = me.size] ELSE values
      /\ saves' = [saves EXCEPT ![s] = NoSave]
      /\ UNCHANGED <<sizesAsked, unsure>>
  BY DEF SaveAnswered
<1>2. me \in SizeRequest /\ sizes \in SizeMap /\ values \in SizeMap
  BY DEF SizesInv, SizesShape
<1>3. me.at \in {"no", "save", "remove"} /\ me.src \in ImagePath /\ me.previous \in ImagePath /\ me.size \in Size
  BY <1>2 DEF SizeRequest
<1>4. ~unsure /\ sizesAsked = "yes" =>
        /\ me.at = "save" => values = [sizes EXCEPT ![me.src] = me.size]
        /\ me.at = "remove" => values = [sizes EXCEPT ![me.src] = "full"]
  BY DEF SizesInv, SizesWait
<1>5. Stored(me) \in SizeMap
  BY <1>2, StoredIsSized DEF SizesInv
<1>6. Stored(me) = IF me.at = "remove" THEN [sizes EXCEPT ![me.src] = "full"]
                   ELSE [p \in ImagePath |-> IF p = me.src THEN me.size ELSE IF p = me.previous THEN "full" ELSE sizes[p]]
  BY DEF Stored
<1>7. /\ saves' \in [Slot -> SizeRequest]
      /\ OneRequest' /\ SizesWait'
  BY <1>1, SlotFreed
<1> HIDE DEF me
<1>8. values' \in SizeMap
  BY <1>1, <1>2, <1>3 DEF SizeMap, Size
<1>9. SizesAgree'
  <2> SUFFICES ASSUME ~unsure, sizesAsked = "yes" PROVE values' = sizes'
    BY <1>1 DEF SizesAgree
  <2>1. CASE me.at = "remove"
    BY <1>1, <1>4, <1>6, <2>1
  <2>2. CASE me.at = "save"
    <3> SUFFICES ASSUME NEW p \in ImagePath PROVE values'[p] = sizes'[p]
      BY <1>1, <1>5, <1>8 DEF SizeMap
    <3>1. sizes'[p] = IF p = me.src THEN me.size ELSE IF p = me.previous THEN "full" ELSE sizes[p]
      BY <1>1, <1>6, <2>2
    <3>2. values[p] = IF p = me.src THEN me.size ELSE sizes[p]
      BY <1>2, <1>4, <2>2 DEF SizeMap
    <3>3. CASE me.previous # me.src
      <4>1. values' = [values EXCEPT ![me.previous] = "full", ![me.src] = me.size]
        BY <1>1, <2>2, <3>3
      <4>2. values'[p] = IF p = me.src THEN me.size ELSE IF p = me.previous THEN "full" ELSE values[p]
        BY <1>2, <1>3, <4>1 DEF SizeMap
      <4> QED
        BY <3>1, <3>2, <4>2
    <3>4. CASE me.previous = me.src
      BY <1>1, <3>1, <3>2, <3>4
    <3> QED
      BY <3>3, <3>4
  <2> QED
    BY <1>1, <1>3, <2>1, <2>2
<1> QED
  BY <1>1, <1>5, <1>7, <1>8, <1>9 DEF SizesInv, SizesShape, SizeMap, ImagePath

LEMMA RefusalAgrees ==
  ASSUME SizesInv, NEW s \in Slot, SaveFailed(s)
  PROVE  SizesInv'
<1> DEFINE me == saves[s]
<1>1. /\ me.at # "no"
      /\ sizes' \in {sizes, Stored(me)}
      /\ values' = IF me.at = "save" THEN me.before ELSE values
      /\ unsure' = (unsure \/ me.at = "remove" \/ sizes' # sizes)
      /\ saves' = [saves EXCEPT ![s] = NoSave]
      /\ UNCHANGED sizesAsked
  BY DEF SaveFailed
<1>2. me \in SizeRequest /\ sizes \in SizeMap /\ values \in SizeMap
  BY DEF SizesInv, SizesShape
<1>3. me.at \in {"no", "save", "remove"} /\ me.before \in SizeMap
  BY <1>2 DEF SizeRequest
<1>4. ~unsure /\ sizesAsked = "yes" /\ me.at = "save" => me.before = sizes
  BY DEF SizesInv, SizesWait
<1>5. Stored(me) \in SizeMap
  BY <1>2, StoredIsSized DEF SizesInv
<1>6. ~unsure' => ~unsure /\ me.at # "remove" /\ sizes' = sizes
  BY <1>1, Zenon
<1>7. /\ saves' \in [Slot -> SizeRequest]
      /\ OneRequest' /\ SizesWait'
  BY <1>1, <1>6, SlotFreed
<1> HIDE DEF me
<1>8. values' \in SizeMap /\ sizes' \in SizeMap
  BY <1>1, <1>2, <1>3, <1>5
<1>9. SizesAgree'
  <2> SUFFICES ASSUME ~unsure', sizesAsked = "yes" PROVE values' = sizes'
    BY <1>1 DEF SizesAgree
  <2> QED
    BY <1>1, <1>3, <1>4, <1>6
<1> QED
  BY <1>7, <1>8, <1>9 DEF SizesInv, SizesShape, SizeMap, ImagePath

LEMMA SizesUntouched ==
  ASSUME SizesInv, UNCHANGED <<sizes, values, sizesAsked, saves, unsure>>
  PROVE  SizesInv'
BY DEF SizesInv, SizesShape, OneRequest, SizesWait, SizesAgree, NoRequests, SizeMap, SizeRequest, ImagePath, Slot

LEMMA SizesAreAsked == SizesInv /\ LoadImagePresentations => SizesInv'
<1> SUFFICES ASSUME SizesInv, LoadImagePresentations PROVE SizesInv'
  OBVIOUS
<1>1. /\ sizesAsked' = "asked"
      /\ unsure' = (unsure \/ ~NoRequests)
      /\ UNCHANGED <<sizes, values, saves>>
  BY DEF LoadImagePresentations
<1>2. ~unsure' => ~unsure /\ \A s \in Slot : saves[s].at = "no"
  BY <1>1, Zenon DEF NoRequests
<1>3. OneRequest' /\ SizesWait' /\ SizesAgree'
  BY <1>1, <1>2 DEF OneRequest, SizesWait, SizesAgree, Slot
<1> QED
  BY <1>1, <1>3 DEF SizesInv, SizesShape, SizeMap, ImagePath

LEMMA SizesAreHeard == SizesInv /\ PresentationsHeard => SizesInv'
<1> SUFFICES ASSUME SizesInv, PresentationsHeard PROVE SizesInv'
  OBVIOUS
<1>1. /\ sizesAsked = "asked" /\ UNCHANGED <<sizes, saves, unsure>>
      /\ \/ sizesAsked' = "yes" /\ values' = sizes
         \/ sizesAsked' = "failed" /\ values' = values
  BY DEF PresentationsHeard
<1>2. ~unsure => \A s \in Slot : saves[s].at = "no"
  BY <1>1 DEF SizesInv, OneRequest
<1>3. OneRequest' /\ SizesWait'
  BY <1>1, <1>2 DEF OneRequest, SizesWait, Slot
<1>4. SizesAgree'
  BY <1>1 DEF SizesAgree
<1> QED
  BY <1>1, <1>3, <1>4 DEF SizesInv, SizesShape, SizeMap, ImagePath

\* The sizes, the upload and the picked image together.
ImageInv == NoteInv /\ ReplacingShape /\ SizesInv

LEMMA SizesStay == ImageInv /\ [ImageNext]_imageVars => ReplacingShape' /\ SizesInv'
<1> SUFFICES ASSUME ImageInv, [ImageNext]_imageVars PROVE ReplacingShape' /\ SizesInv'
  OBVIOUS
<1>0. /\ SizesInv /\ ReplacingShape
      /\ picked.src \in ImagePath /\ values \in SizeMap
      /\ replacing.src \in ImagePath /\ replacing.before \in SizeMap
  BY DEF ImageInv, NoteInv, NoteShape, ReplacingShape, SizesInv, SizesShape
<1>a. ASSUME UNCHANGED replacing PROVE ReplacingShape'
  BY <1>0, <1>a DEF ReplacingShape, SizeMap, ImagePath
<1>b. ASSUME replacing' = NoUpload PROVE ReplacingShape'
  BY <1>b, NoneRequested DEF ReplacingShape, SizeMap, ImagePath
<1>1. CASE SelectImage \/ SelectText \/ SelectionHeard \/ InsertHere \/ InsertElsewhere \/ DeleteUnit
  <2>1. UNCHANGED replacing /\ SameSizes
    BY <1>1 DEF SelectImage, SelectText, SelectionHeard, InsertHere, InsertElsewhere, DeleteUnit
  <2> QED
    BY <1>0, <1>a, <2>1, SizesUntouched DEF SameSizes
<1>2. CASE LoadImagePresentations
  <2>1. UNCHANGED replacing
    BY <1>2 DEF LoadImagePresentations, SameNote
  <2> QED
    BY <1>0, <1>2, <1>a, <2>1, SizesAreAsked
<1>3. CASE PresentationsHeard
  <2>1. UNCHANGED replacing
    BY <1>3 DEF PresentationsHeard, SameNote
  <2> QED
    BY <1>0, <1>3, <1>a, <2>1, SizesAreHeard
<1>4. CASE \E s \in Slot : SaveAnswered(s) \/ SaveFailed(s)
  <2>1. PICK s \in Slot : SaveAnswered(s) \/ SaveFailed(s)
    BY <1>4
  <2>2. UNCHANGED replacing
    BY <2>1 DEF SaveAnswered, SaveFailed, SameNote
  <2> QED
    BY <1>0, <1>a, <2>1, <2>2, AnswerAgrees, RefusalAgrees
<1>5. CASE ResizeImage
  <2>1. PICK size \in Size : SaveImagePresentation(picked.src, size, picked.src, values)
    BY <1>5 DEF ResizeImage
  <2>2. UNCHANGED replacing
    BY <1>5 DEF ResizeImage, SameNote
  <2>3. PICK src \in ImagePath, before \in SizeMap : src = picked.src /\ before = values
    BY <1>0
  <2>4. SaveImagePresentation(src, size, src, before)
    BY <2>1, <2>3
  <2> QED
    BY <1>0, <1>a, <2>2, <2>4, SaveBegins
<1>6. CASE StartReplacing
  <2>1. replacing' = [on |-> TRUE, at |-> picked.at, src |-> picked.src, before |-> values] /\ SameSizes
    BY <1>6 DEF StartReplacing
  <2>2. replacing'.src = picked.src /\ replacing'.before = values
    BY <2>1
  <2>3. ReplacingShape'
    BY <1>0, <2>2 DEF ReplacingShape, SizeMap, ImagePath
  <2> QED
    BY <1>0, <2>1, <2>3, SizesUntouched DEF SameSizes
<1>7. CASE ReplaceSelectedImage
  <2>1. /\ replacing' = NoUpload
        /\ SaveImagePresentation(Uploaded, replacing.before[replacing.src], replacing.src, replacing.before)
    BY <1>7 DEF ReplaceSelectedImage
  <2>2. replacing.before[replacing.src] \in Size
    BY <1>0 DEF SizeMap
  <2>3. PICK src \in ImagePath, size \in Size, previous \in ImagePath, before \in SizeMap :
          /\ src = Uploaded /\ previous = replacing.src /\ before = replacing.before
          /\ size = replacing.before[replacing.src]
    BY <1>0, <2>2 DEF ImagePath
  <2>4. SaveImagePresentation(src, size, previous, before)
    BY <2>1, <2>3
  <2> QED
    BY <1>0, <1>b, <2>1, <2>4, SaveBegins
<1>8. CASE ReplacementFails
  BY <1>0, <1>8, <1>b, SizesUntouched DEF ReplacementFails, SameSizes
<1>9. CASE RemoveSelectedImage
  <2>1. RemoveImagePresentation(picked.src) /\ UNCHANGED replacing
    BY <1>9 DEF RemoveSelectedImage
  <2>2. PICK src \in ImagePath : src = picked.src
    BY <1>0
  <2>3. RemoveImagePresentation(src)
    BY <2>1, <2>2
  <2> QED
    BY <1>0, <1>a, <2>1, <2>3, RemovalBegins
<1>10. CASE UNCHANGED imageVars
  BY <1>0, <1>10, <1>a, SizesUntouched DEF imageVars
<1> QED
  BY <1>1, <1>2, <1>3, <1>4, <1>5, <1>6, <1>7, <1>8, <1>9, <1>10 DEF ImageNext

\* Unless requests overlapped or an answer was lost, the sizes that are shown are
\* those that are stored once every request has ended, for any images, any notes
\* and any number of saves, replacements and removals.
THEOREM SizesAreStored == ImageInit /\ [][ImageNext]_imageVars => []SizesAgree
<1>1. ImageInit => ImageInv
  BY NoteAtFirst, SizesAtFirst DEF ImageInv
<1>2. ImageInv /\ [ImageNext]_imageVars => ImageInv'
  BY NoteStays, SizesStay DEF ImageInv
<1>3. ImageInv => SizesAgree
  BY DEF ImageInv, SizesInv
<1> QED
  BY <1>1, <1>2, <1>3, PTL

-----------------------------------------------------------------------------
(* Sets of numbers: what Min and Max are of.                               *)

\* A set of numbers with a bound has a first and a last one: their initial
\* segments are finite sets, and one of them is smallest.
LEMMA HasFirst ==
  ASSUME NEW n \in Nat, NEW S \in SUBSET (0..n), S # {}
  PROVE  \E x \in S : \A y \in S : x <= y
<1> DEFINE Below(x) == {y \in S : y < x}
           T == {Below(x) : x \in S}
<1>1. IsFiniteSet(S)
  <2>1. \A s \in S : s <= n
    OBVIOUS
  <2>2. S \in SUBSET Nat
    OBVIOUS
  <2> QED
    BY <2>1, <2>2, FS_BoundedSetOfNaturals
<1>2. \A x \in S : Below(x) \in FiniteSubsetsOf(S)
  <2> SUFFICES ASSUME NEW x \in S PROVE Below(x) \in FiniteSubsetsOf(S)
    OBVIOUS
  <2>1. Below(x) \in SUBSET S
    OBVIOUS
  <2>2. IsFiniteSet(Below(x))
    BY <1>1, <2>1, FS_Subset
  <2> QED
    BY <2>1, <2>2 DEF FiniteSubsetsOf
<1>3. PICK U \in T : \A V \in T : ~(<<V, U>> \in StrictSubsetOrdering(S))
  <2>1. T \subseteq FiniteSubsetsOf(S) /\ T # {}
    BY <1>2
  <2>2. IsWellFoundedOn(StrictSubsetOrdering(S), FiniteSubsetsOf(S))
    BY FS_StrictSubsetOrderingWellFounded
  <2>3. ASSUME NEW R, NEW F, NEW W, IsWellFoundedOn(R, F), W \subseteq F, W # {}
        PROVE  \E U \in W : \A V \in W : ~(<<V, U>> \in R)
    BY <2>3, WFMin, Zenon
  <2> HIDE DEF T
  <2> QED
    BY <2>1, <2>2, <2>3, Zenon
<1>4. PICK x \in S : U = Below(x)
  OBVIOUS
<1>5. ASSUME NEW y \in S, ~(x <= y) PROVE FALSE
  <2>0. x \in Int /\ y \in Int /\ \A z \in S : z \in Int
    OBVIOUS
  <2>1. y \in Below(x) /\ y \notin Below(y)
    BY <1>5, <2>0
  <2>2. Below(y) \subseteq Below(x)
    <3> SUFFICES ASSUME NEW z \in S, z < y PROVE z < x
      OBVIOUS
    <3>1. z \in Int /\ y < x
      BY <1>5, <2>0
    <3> QED
      BY <2>0, <3>1
  <2>3. Below(y) \subseteq S /\ Below(x) \subseteq S
    OBVIOUS
  <2>4. <<Below(y), Below(x)>> \in StrictSubsetOrdering(S)
    BY <2>1, <2>2, <2>3 DEF StrictSubsetOrdering
  <2> QED
    BY <1>3, <1>4, <2>4
<1> QED
  BY <1>5

LEMMA MinIsOfTheSet ==
  ASSUME NEW n \in Nat, NEW S \in SUBSET (0..n), S # {}
  PROVE  Min(S) \in S
<1>1. \E x \in S : \A y \in S : x <= y
  BY HasFirst
<1> QED
  BY <1>1 DEF Min

LEMMA MaxIsOfTheSet ==
  ASSUME NEW n \in Nat, NEW S \in SUBSET (0..n), S # {}
  PROVE  Max(S) \in S
<1> DEFINE S2 == {n - x : x \in S}
<1>0. \A x \in S : x \in 0..n
  OBVIOUS
<1>a. \A x \in S : n - x \in 0..n
  BY <1>0
<1>1. S2 \in SUBSET (0..n) /\ S2 # {}
  BY <1>a
<1>2. PICK a \in S2 : \A b \in S2 : a <= b
  <2> HIDE DEF S2
  <2> QED
    BY <1>1, HasFirst
<1>3. PICK x \in S : a = n - x
  OBVIOUS
<1>4. \A y \in S : x >= y
  <2> SUFFICES ASSUME NEW y \in S PROVE x >= y
    OBVIOUS
  <2>1. n - y \in S2 /\ x \in Int /\ y \in Int
    OBVIOUS
  <2>2. n - x <= n - y
    BY <1>2, <1>3, <2>1
  <2> QED
    BY <2>1, <2>2
<1> QED
  BY <1>4 DEF Max

-----------------------------------------------------------------------------
(* The menus of the editor.  An edit leaves a change the listener has not  *)
(* been told of, and what it is told sets both menus anew; so what has to  *)
(* be kept is that every position is one of the text, and that while the   *)
(* link dialog is open only an image that arrives changes the text.        *)
Ranged(mark) == mark.from \in Nat /\ mark.to \in Nat /\ mark.from <= mark.to

MenuShape ==
  /\ text \in Seq(Unit)
  /\ cursor \in 0..Len(text) /\ anchor \in 0..Len(text)
  /\ Ranged(trigger) /\ Ranged(slash) /\ Ranged(picker)

MenuInv == MenuShape /\ MenusFitTheText

LEMMA NoneIsRanged == Ranged(None)
BY DEF Ranged, None

LEMMA Marked ==
  ASSUME NEW from, NEW to
  PROVE  Mark(from, to).from = from /\ Mark(from, to).to = to /\ Mark(from, to) # None
BY DEF Mark, None

LEMMA Selected ==
  ASSUME MenuShape
  PROVE  SelStart \in Nat /\ SelEnd \in Nat /\ SelStart <= SelEnd /\ SelEnd <= Len(text)
BY DEF MenuShape, SelStart, SelEnd

LEMMA Joined ==
  ASSUME NEW S, NEW s \in Seq(S), NEW t \in Seq(S)
  PROVE  s \o t \in Seq(S) /\ Len(s \o t) = Len(s) + Len(t)
OBVIOUS

\* The text with a part of it replaced, and where the rest is then.
LEMMA SplicedText ==
  ASSUME text \in Seq(Unit), NEW from \in Nat, NEW to \in Nat, from <= to, to <= Len(text), NEW units \in Seq(Unit)
  PROVE  /\ Spliced(from, to, units) \in Seq(Unit)
         /\ Len(Spliced(from, to, units)) = from + Len(units) + (Len(text) - to)
<1> DEFINE left == SubSeq(text, 1, from)
           right == SubSeq(text, to + 1, Len(text))
<1>1. left \in Seq(Unit) /\ Len(left) = from
  OBVIOUS
<1>2. right \in Seq(Unit) /\ Len(right) = Len(text) - to
  OBVIOUS
<1>3. Spliced(from, to, units) = (left \o units) \o right
  BY DEF Spliced
<1> HIDE DEF left, right
<1>4. left \o units \in Seq(Unit) /\ Len(left \o units) = from + Len(units)
  BY <1>1
<1> DEFINE front == left \o units
<1> HIDE DEF front
<1>5. front \in Seq(Unit) /\ Len(front) = from + Len(units) /\ Spliced(from, to, units) = front \o right
  BY <1>3, <1>4 DEF front
<1>6. front \o right \in Seq(Unit) /\ Len(front \o right) = Len(front) + Len(right)
  BY <1>2, <1>5, Joined
<1>7. Len(units) \in Nat /\ Len(text) \in Nat
  OBVIOUS
<1>8. Len(Spliced(from, to, units)) = (from + Len(units)) + (Len(text) - to)
  BY <1>2, <1>5, <1>6
<1>9. Spliced(from, to, units) \in Seq(Unit)
  BY <1>5, <1>6
<1> HIDE DEF right
<1> QED
  BY <1>7, <1>8, <1>9

LEMMA EditedText ==
  ASSUME text \in Seq(Unit), NEW from \in Nat, NEW to \in Nat, from <= to, to <= Len(text), NEW units \in Seq(Unit),
         Edited(from, to, units)
  PROVE  /\ text' \in Seq(Unit) /\ cursor' \in 0..Len(text') /\ anchor' \in 0..Len(text')
         /\ unheard' = TRUE /\ from <= Len(text')
<1>1. /\ text' = Spliced(from, to, units)
      /\ cursor' = from + Len(units) /\ anchor' = cursor' /\ unheard' = TRUE
  BY DEF Edited
<1>2. text' \in Seq(Unit) /\ Len(text') = from + Len(units) + (Len(text) - to)
  BY <1>1, SplicedText
<1>3. Len(units) \in Nat /\ Len(text) \in Nat
  OBVIOUS
<1> QED
  BY <1>1, <1>2, <1>3

\* The units an edit puts in.
LEMMA UnitsAreUnits ==
  /\ \A key \in Key : <<key>> \in Seq(Unit)
  /\ <<"x">> \in Seq(Unit) /\ <<"image">> \in Seq(Unit) /\ <<>> \in Seq(Unit)
BY DEF Unit, Key

\* An edit with no dialog open: nothing is claimed of the menus until it is told.
LEMMA EditKeepsMenus ==
  ASSUME MenuInv, NEW from \in Nat, NEW to \in Nat, from <= to, to <= Len(text), NEW units \in Seq(Unit),
         Edited(from, to, units),
         Ranged(trigger)', Ranged(slash)',
         picker' = None \/ (picker' = picker /\ moved' = TRUE)
  PROVE  MenuInv'
<1>1. text \in Seq(Unit)
  BY DEF MenuInv, MenuShape
<1>2. /\ text' \in Seq(Unit) /\ cursor' \in 0..Len(text') /\ anchor' \in 0..Len(text')
      /\ unheard' = TRUE
  BY <1>1, EditedText
<1>3. Ranged(picker)'
  BY NoneIsRanged DEF MenuInv, MenuShape, Ranged, None
<1>4. MenuShape'
  BY <1>2, <1>3 DEF MenuShape, Unit, Key
<1>5. SuggestionsAreForTheTrigger' /\ CommandsAreForTheSlash'
  BY <1>2 DEF SuggestionsAreForTheTrigger, CommandsAreForTheSlash
<1>6. LinkGoesOnItsText'
  BY DEF LinkGoesOnItsText, None
<1> QED
  BY <1>4, <1>5, <1>6 DEF MenuInv, MenusFitTheText

\* A move of the cursor or the selection.
LEMMA MoveKeepsMenus ==
  ASSUME MenuInv, cursor' \in 0..Len(text), anchor' \in 0..Len(text), unheard' = TRUE, text' = text,
         Ranged(trigger)', Ranged(slash)', picker' = picker \/ picker' = None, moved' = moved \/ picker' = None
  PROVE  MenuInv'
<1>1. MenuShape'
  BY NoneIsRanged DEF MenuInv, MenuShape, Ranged, Unit, Key, None
<1>2. SuggestionsAreForTheTrigger' /\ CommandsAreForTheSlash'
  BY DEF SuggestionsAreForTheTrigger, CommandsAreForTheSlash
<1>3. LinkGoesOnItsText'
  BY DEF MenuInv, MenusFitTheText, LinkGoesOnItsText, None
<1> QED
  BY <1>1, <1>2, <1>3 DEF MenuInv, MenusFitTheText

\* The text and the cursor stay; a menu stays or closes.
LEMMA CloseKeepsMenus ==
  ASSUME MenuInv, SameText, unheard' = unheard,
         trigger' = trigger \/ trigger' = None, slash' = slash \/ slash' = None
  PROVE  /\ SuggestionsAreForTheTrigger' /\ CommandsAreForTheSlash'
         /\ (Ranged(picker)' => MenuShape')
<1>1. Ranged(trigger)' /\ Ranged(slash)'
  BY NoneIsRanged DEF MenuInv, MenuShape, Ranged, None
<1>2. Ranged(picker)' => MenuShape'
  BY <1>1 DEF MenuInv, MenuShape, SameText, Unit, Key
<1>3. SuggestionsAreForTheTrigger'
  BY DEF MenuInv, MenusFitTheText, SuggestionsAreForTheTrigger, SameText, None
<1>4. CommandsAreForTheSlash'
  BY DEF MenuInv, MenusFitTheText, CommandsAreForTheSlash, SameText, None
<1> QED
  BY <1>2, <1>3, <1>4

LEMMA MenusAtFirst == MenuInit => MenuInv
<1> SUFFICES ASSUME MenuInit PROVE MenuInv
  OBVIOUS
<1>1. text = <<>> /\ cursor = 0 /\ anchor = 0 /\ trigger = None /\ slash = None /\ picker = None
  BY DEF MenuInit
<1>2. MenuShape
  BY <1>1, NoneIsRanged DEF MenuShape
<1>3. MenusFitTheText
  BY <1>1 DEF MenusFitTheText, SuggestionsAreForTheTrigger, CommandsAreForTheSlash, LinkGoesOnItsText
<1> QED
  BY <1>2, <1>3 DEF MenuInv

LEMMA SuggestionsHeard ==
  ASSUME MenuInv, SameText, NoteLinkHeard
  PROVE  SuggestionsAreForTheTrigger' /\ Ranged(trigger)'
<1> DEFINE from == Min(OpenBrackets) - 1
           Goes == cursor = anchor /\ ~code /\ OpenBrackets # {} /\ intent # None /\ intent.from = from
<1>1. CASE Goes
  <2>1. trigger' = Mark(from, cursor)
    BY <1>1 DEF NoteLinkHeard
  <2>2. cursor \in Nat /\ OpenBrackets \in SUBSET (0..cursor)
    BY DEF MenuInv, MenuShape, OpenBrackets
  <2>3. Min(OpenBrackets) \in OpenBrackets
    BY <1>1, <2>2, MinIsOfTheSet
  <2>4. PICK i \in 1..cursor : i = Min(OpenBrackets) /\ text[i] = "[" /\ \A j \in i..cursor : text[j] # "]"
    BY <2>3 DEF OpenBrackets
  <2>5. trigger'.from = i - 1 /\ trigger'.to = cursor
    BY <2>1, <2>4, Marked
  <2>6. Ranged(trigger)'
    BY <2>2, <2>4, <2>5 DEF Ranged
  <2>7. SuggestionsAreForTheTrigger'
    <3>1. cursor' = cursor /\ anchor' = cursor /\ ~code' /\ text' = text
      BY <1>1 DEF SameText
    <3>2. trigger'.from + 1 = i
      BY <2>2, <2>4, <2>5
    <3> QED
      BY <2>4, <2>5, <3>1, <3>2 DEF SuggestionsAreForTheTrigger
  <2> QED
    BY <2>6, <2>7
<1>2. CASE ~Goes
  <2>1. trigger' = None
    BY <1>2 DEF NoteLinkHeard, CloseTrigger
  <2> QED
    BY <2>1, NoneIsRanged DEF SuggestionsAreForTheTrigger, None, Ranged
<1> QED
  BY <1>1, <1>2

LEMMA CommandsHeard ==
  ASSUME MenuInv, SameText, SlashHeard
  PROVE  CommandsAreForTheSlash' /\ Ranged(slash)'
<1> DEFINE Goes == cursor = anchor /\ ~code /\ Slashes # {}
<1>1. CASE Goes
  <2>1. slash' = Mark(Max(Slashes) - 1, cursor)
    BY <1>1 DEF SlashHeard
  <2>0. Slashes \subseteq 1..cursor
    BY Zenon DEF Slashes
  <2>2. cursor \in Nat /\ Slashes \in SUBSET (0..cursor)
    BY <2>0 DEF MenuInv, MenuShape
  <2>3. Max(Slashes) \in Slashes
    BY <1>1, <2>2, MaxIsOfTheSet
  <2>4. PICK i \in 1..cursor :
          /\ i = Max(Slashes) /\ text[i] = "/" /\ (i = 1 \/ text[i - 1] = " ")
          /\ \A j \in (i + 1)..cursor : text[j] = "x"
    BY <2>3 DEF Slashes
  <2>a. slash' = Mark(i - 1, cursor)
    BY <2>1, <2>4
  <2>5. slash'.from = i - 1 /\ slash'.to = cursor
    BY <2>a, Marked
  <2>b. cursor \in Nat /\ i \in 1..cursor
    BY <2>2
  <2>6. Ranged(slash)'
    BY <2>5, <2>b DEF Ranged
  <2>7. CommandsAreForTheSlash'
    <3>1. cursor' = cursor /\ anchor' = cursor /\ ~code' /\ text' = text
      BY <1>1 DEF SameText
    <3>2. slash'.from + 1 = i /\ slash'.from + 2 = i + 1 /\ (i = 1 => slash'.from = 0)
      BY <2>5, <2>b
    <3> QED
      BY <2>4, <2>5, <3>1, <3>2 DEF CommandsAreForTheSlash
  <2> QED
    BY <2>6, <2>7
<1>2. CASE ~Goes
  <2>1. slash' = None
    BY <1>2 DEF SlashHeard
  <2> QED
    BY <2>1, NoneIsRanged DEF CommandsAreForTheSlash, None, Ranged
<1> QED
  BY <1>1, <1>2

LEMMA ChangeIsHeard == MenuInv /\ Heard => MenuInv'
<1> SUFFICES ASSUME MenuInv, Heard PROVE MenuInv'
  OBVIOUS
<1>1. NoteLinkHeard /\ SlashHeard /\ SameText /\ SameDialogs
  BY DEF Heard
<1>2. SuggestionsAreForTheTrigger' /\ CommandsAreForTheSlash' /\ Ranged(trigger)' /\ Ranged(slash)'
  BY <1>1, SuggestionsHeard, CommandsHeard
<1>3. MenuShape'
  BY <1>1, <1>2 DEF MenuInv, MenuShape, SameText, SameDialogs, Ranged, Unit, Key
<1>4. LinkGoesOnItsText'
  BY <1>1 DEF MenuInv, MenusFitTheText, LinkGoesOnItsText, SameText, SameDialogs, None
<1> QED
  BY <1>2, <1>3, <1>4 DEF MenuInv, MenusFitTheText

LEMMA CommandIsRun == MenuInv /\ ExecuteSlashCommand => MenuInv'
<1> SUFFICES ASSUME MenuInv, ExecuteSlashCommand PROVE MenuInv'
  OBVIOUS
<1>1. PICK command \in {"code-block", "link", "image", "block"} :
        /\ picker = None /\ slash.to <= Len(text)
        /\ Edited(slash.from, slash.to, <<>>)
        /\ slash' = None /\ trigger = None
        /\ picker' = IF command = "link" THEN [None EXCEPT !.at = "here", !.from = slash.from, !.to = slash.from] ELSE picker
        /\ IF command = "link" THEN CloseTrigger ELSE UNCHANGED <<opening, intent, trigger>>
  BY DEF ExecuteSlashCommand
<1>2. text \in Seq(Unit) /\ slash.from \in Nat /\ slash.to \in Nat /\ slash.from <= slash.to
  BY DEF MenuInv, MenuShape, Ranged
<1>3. trigger' = None
  BY <1>1 DEF CloseTrigger
<1>4. Ranged(trigger)' /\ Ranged(slash)'
  BY <1>1, <1>3, NoneIsRanged DEF Ranged, None
<1>5. PICK from \in Nat, to \in Nat : from = slash.from /\ to = slash.to
  BY <1>2
<1>6. PICK units \in Seq(Unit) : units = <<>>
  BY UnitsAreUnits
<1>7. Edited(from, to, units) /\ from <= to /\ to <= Len(text)
  BY <1>1, <1>2, <1>5, <1>6
<1>8. /\ text' \in Seq(Unit) /\ cursor' \in 0..Len(text') /\ anchor' \in 0..Len(text')
      /\ unheard' = TRUE /\ from <= Len(text')
  BY <1>2, <1>7, EditedText
<1>9. CASE command = "link"
  <2>1. picker' = [None EXCEPT !.at = "here", !.from = from, !.to = from]
    BY <1>1, <1>5, <1>9
  <2>2. picker'.from = from /\ picker'.to = from /\ picker'.words = <<>>
    BY <2>1 DEF None
  <2>3. MenuShape'
    <3>1. Ranged(picker)'
      BY <2>2 DEF Ranged
    <3> QED
      BY <1>4, <1>8, <3>1 DEF MenuShape, Unit, Key
  <2>4. LinkGoesOnItsText'
    <3>1. SubSeq(text', from + 1, from) = <<>>
      BY <1>8
    <3> QED
      BY <1>8, <2>2, <3>1 DEF LinkGoesOnItsText
  <2> QED
    BY <1>8, <2>3, <2>4
       DEF MenuInv, MenusFitTheText, SuggestionsAreForTheTrigger, CommandsAreForTheSlash
<1>10. CASE command # "link"
  <2>1. picker' = None
    BY <1>1, <1>10
  <2> QED
    BY <1>4, <1>7, <2>1, EditKeepsMenus
<1> QED
  BY <1>9, <1>10

LEMMA LinkIsEdited == MenuInv /\ EditLink => MenuInv'
<1> SUFFICES ASSUME MenuInv, EditLink PROVE MenuInv'
  OBVIOUS
<1>1. /\ picker' = [None EXCEPT !.at = "here", !.from = SelStart, !.to = SelEnd, !.words = SubSeq(text, SelStart + 1, SelEnd)]
      /\ trigger' = None /\ slash' = slash /\ unheard' = unheard /\ SameText
  BY DEF EditLink, CloseTrigger
<1>2. SelStart \in Nat /\ SelEnd \in Nat /\ SelStart <= SelEnd /\ SelEnd <= Len(text)
  BY Selected DEF MenuInv
<1>3. picker'.from = SelStart /\ picker'.to = SelEnd /\ picker'.words = SubSeq(text, SelStart + 1, SelEnd)
  BY <1>1 DEF None
<1>4. Ranged(picker)'
  BY <1>2, <1>3 DEF Ranged
<1>5. LinkGoesOnItsText'
  <2>1. text' = text
    BY <1>1 DEF SameText
  <2> QED
    BY <1>2, <1>3, <2>1 DEF LinkGoesOnItsText
<1> QED
  BY <1>1, <1>4, <1>5, CloseKeepsMenus DEF MenuInv, MenusFitTheText

LEMMA LinkIsApplied == MenuInv /\ ApplyLink => MenuInv'
<1> SUFFICES ASSUME MenuInv, ApplyLink PROVE MenuInv'
  OBVIOUS
<1>1. /\ picker.to <= Len(text)
      /\ IF picker.from < picker.to THEN UNCHANGED <<text, cursor, anchor>> /\ unheard' = TRUE
         ELSE Edited(picker.from, picker.to, <<"x">>)
      /\ picker' = None /\ trigger' = trigger /\ slash' = slash
  BY DEF ApplyLink, SameMenus
<1>2. /\ text \in Seq(Unit) /\ cursor \in 0..Len(text) /\ anchor \in 0..Len(text)
      /\ picker.from \in Nat /\ picker.to \in Nat /\ picker.from <= picker.to
  BY DEF MenuInv, MenuShape, Ranged
<1>3. Ranged(trigger)' /\ Ranged(slash)'
  BY <1>1 DEF MenuInv, MenuShape, Ranged
<1>4. CASE picker.from < picker.to
  BY <1>1, <1>2, <1>3, <1>4, MoveKeepsMenus
<1>5. CASE ~(picker.from < picker.to)
  <2>1. PICK from \in Nat, to \in Nat : from = picker.from /\ to = picker.to
    BY <1>2
  <2>2. PICK units \in Seq(Unit) : units = <<"x">>
    BY UnitsAreUnits
  <2>3. Edited(from, to, units) /\ from <= to /\ to <= Len(text)
    BY <1>1, <1>2, <1>5, <2>1, <2>2
  <2> QED
    BY <1>1, <1>3, <2>3, EditKeepsMenus
<1> QED
  BY <1>4, <1>5

\* The edits at the selection.
LEMMA EditAtSelection ==
  ASSUME MenuInv, NEW units \in Seq(Unit), Edited(SelStart, SelEnd, units),
         Ranged(trigger)', Ranged(slash)', picker' = None \/ (picker' = picker /\ moved' = TRUE)
  PROVE  MenuInv'
<1>1. SelStart \in Nat /\ SelEnd \in Nat /\ SelStart <= SelEnd /\ SelEnd <= Len(text)
  BY Selected DEF MenuInv
<1>2. PICK from \in Nat, to \in Nat : from = SelStart /\ to = SelEnd
  BY <1>1
<1>3. Edited(from, to, units) /\ from <= to /\ to <= Len(text)
  BY <1>1, <1>2
<1> QED
  BY <1>3, EditKeepsMenus

LEMMA MenusStay == MenuInv /\ [MenuNext]_menuVars => MenuInv'
<1> SUFFICES ASSUME MenuInv, [MenuNext]_menuVars PROVE MenuInv'
  OBVIOUS
<1>0. /\ text \in Seq(Unit) /\ cursor \in 0..Len(text) /\ anchor \in 0..Len(text)
      /\ Ranged(trigger) /\ Ranged(slash) /\ Ranged(picker)
  BY DEF MenuInv, MenuShape
<1>a. UNCHANGED <<trigger, slash>> => Ranged(trigger)' /\ Ranged(slash)'
  BY <1>0 DEF Ranged
<1>b. ASSUME SameText, unheard' = unheard, SameDialogs, trigger' = trigger \/ trigger' = None, slash' = slash \/ slash' = None
      PROVE  MenuInv'
  <2>1. Ranged(picker)'
    BY <1>0, <1>b DEF SameDialogs, Ranged
  <2>2. LinkGoesOnItsText'
    BY <1>b DEF MenuInv, MenusFitTheText, LinkGoesOnItsText, SameText, SameDialogs, None
  <2> QED
    BY <1>b, <2>1, <2>2, CloseKeepsMenus DEF MenuInv, MenusFitTheText
<1>1. CASE \E key \in Key : Press(key)
  <2>1. PICK key \in Key : Press(key)
    BY <1>1
  <2>2. Edited(SelStart, SelEnd, <<key>>) /\ picker' = None /\ UNCHANGED <<trigger, slash>>
    BY <2>1 DEF Press, SameDialogs
  <2>3. PICK units \in Seq(Unit) : units = <<key>>
    BY UnitsAreUnits
  <2> QED
    BY <1>a, <2>2, <2>3, EditAtSelection
<1>2. CASE PressBracketOnly
  BY <1>2, <1>b DEF PressBracketOnly
<1>3. CASE PressArrow
  <2>1. PICK p \in Pos :
          /\ p <= Len(text) /\ cursor' = p /\ anchor' = p /\ unheard' = TRUE
          /\ trigger' = None \/ trigger' = trigger
          /\ text' = text /\ slash' = slash /\ picker' = picker /\ moved' = moved
    BY <1>3 DEF PressArrow, CloseTrigger, SameDialogs
  <2>2. cursor' \in 0..Len(text) /\ anchor' \in 0..Len(text)
    BY <1>0, <2>1, MenuAssumption DEF Pos
  <2>3. Ranged(trigger)' /\ Ranged(slash)'
    BY <1>0, <2>1, NoneIsRanged DEF Ranged, None
  <2> QED
    BY <2>1, <2>2, <2>3, MoveKeepsMenus
<1>4. CASE Backspace
  <2>1. /\ Edited(IF SelStart = SelEnd THEN SelStart - 1 ELSE SelStart, SelEnd, <<>>)
        /\ SelEnd > 0 /\ picker' = None /\ UNCHANGED <<trigger, slash>>
    BY <1>4 DEF Backspace, SameMenus, SameDialogs
  <2>2. SelStart \in Nat /\ SelEnd \in Nat /\ SelStart <= SelEnd /\ SelEnd <= Len(text)
    BY Selected DEF MenuInv
  <2>3. PICK from \in Nat, to \in Nat : from = (IF SelStart = SelEnd THEN SelStart - 1 ELSE SelStart) /\ to = SelEnd
    BY <2>1, <2>2
  <2>4. PICK units \in Seq(Unit) : units = <<>>
    BY UnitsAreUnits
  <2>5. Edited(from, to, units)
    BY <2>1, <2>3, <2>4
  <2>6. from <= to /\ to <= Len(text)
    BY <2>2, <2>3
  <2> QED
    BY <1>a, <2>1, <2>5, <2>6, EditKeepsMenus
<1>5. CASE Point
  <2>1. PICK p, q \in Pos :
          /\ p <= q /\ q <= Len(text) /\ anchor' = p /\ cursor' = q /\ unheard' = TRUE
          /\ text' = text /\ UNCHANGED <<trigger, slash>> /\ picker' = picker /\ moved' = moved
    BY <1>5 DEF Point, SameMenus, SameDialogs
  <2>2. cursor' \in 0..Len(text) /\ anchor' \in 0..Len(text)
    BY <1>0, <2>1, MenuAssumption DEF Pos
  <2> QED
    BY <1>a, <2>1, <2>2, MoveKeepsMenus
<1>6. CASE PressEscape
  BY <1>6, <1>b DEF PressEscape, CloseTrigger
<1>7. CASE LeaveEditor
  BY <1>7, <1>b DEF LeaveEditor, CloseTrigger
<1>8. CASE Heard
  BY <1>8, ChangeIsHeard
<1>9. CASE InsertTriggeredNoteLink
  <2>1. /\ trigger.to <= Len(text) /\ Edited(trigger.from, trigger.to, <<"x">>)
        /\ picker' = None /\ trigger' = None /\ slash' = slash
    BY <1>9 DEF InsertTriggeredNoteLink, CloseTrigger, SameDialogs
  <2>2. PICK from \in Nat, to \in Nat : from = trigger.from /\ to = trigger.to /\ from <= to
    BY <1>0 DEF Ranged
  <2>3. PICK units \in Seq(Unit) : units = <<"x">>
    BY UnitsAreUnits
  <2>4. Edited(from, to, units) /\ to <= Len(text)
    BY <2>1, <2>2, <2>3
  <2>5. Ranged(trigger)' /\ Ranged(slash)'
    BY <1>0, <2>1, NoneIsRanged DEF Ranged, None
  <2> QED
    BY <2>1, <2>2, <2>4, <2>5, EditKeepsMenus
<1>10. CASE ExecuteSlashCommand
  BY <1>10, CommandIsRun
<1>11. CASE EditLink
  BY <1>11, LinkIsEdited
<1>12. CASE ApplyLink
  BY <1>12, LinkIsApplied
<1>13. CASE CancelLink
  <2>1. picker' = None /\ SameText /\ SameMenus /\ unheard' = unheard
    BY <1>13 DEF CancelLink
  <2>2. Ranged(picker)' /\ LinkGoesOnItsText'
    BY <2>1, NoneIsRanged DEF Ranged, LinkGoesOnItsText, None
  <2> QED
    BY <2>1, <2>2, CloseKeepsMenus DEF SameMenus, MenuInv, MenusFitTheText
<1>14. CASE PasteMarkdown
  <2>1. PICK key \in {"[", "x"} : Edited(SelStart, SelEnd, <<key>>) /\ picker' = None /\ UNCHANGED <<trigger, slash>>
    BY <1>14 DEF PasteMarkdown, SameMenus, SameDialogs
  <2>2. key \in Key
    BY DEF Key
  <2>3. PICK units \in Seq(Unit) : units = <<key>>
    BY <2>2, UnitsAreUnits
  <2> QED
    BY <1>a, <2>1, <2>3, EditAtSelection
<1>15. CASE ImageArrives
  <2>1. Edited(SelStart, SelEnd, <<"image">>) /\ moved' = (moved \/ picker # None) /\ picker' = picker /\ UNCHANGED <<trigger, slash>>
    BY <1>15 DEF ImageArrives, SameMenus
  <2>2. picker' = None \/ (picker' = picker /\ moved' = TRUE)
    BY <2>1, Zenon
  <2>3. PICK units \in Seq(Unit) : units = <<"image">>
    BY UnitsAreUnits
  <2> QED
    BY <1>a, <2>1, <2>2, <2>3, EditAtSelection
<1>16. CASE UNCHANGED menuVars
  BY <1>16, <1>b DEF menuVars, SameText, SameDialogs
<1> QED
  BY <1>1, <1>2, <1>3, <1>4, <1>5, <1>6, <1>7, <1>8, <1>9, <1>10, <1>11, <1>12, <1>13, <1>14, <1>15, <1>16 DEF MenuNext

\* What is chosen in a menu or confirmed in the link dialog replaces the text it
\* was opened for, for texts of any length and any order of keys, clicks, late
\* notices and arriving images.
THEOREM MenusFit == MenuInit /\ [][MenuNext]_menuVars => []MenusFitTheText
<1>1. MenuInv => MenusFitTheText
  BY DEF MenuInv
<1> QED
  BY <1>1, MenusAtFirst, MenusStay, PTL

(* Links between notes. *)
\* Induction up to a number, over a set: what holds of 0 and goes on holds up to it.
LEMMA GoesOn ==
  ASSUME NEW N \in Nat, NEW S, 0 \in S, \A n \in 1..N : n - 1 \in S => n \in S
  PROVE  \A n \in 0..N : n \in S
<1> DEFINE Rest == {n \in 0..N : n \notin S}
<1> SUFFICES ASSUME Rest # {} PROVE FALSE
  OBVIOUS
<1>1. PICK x \in Rest : \A y \in Rest : x <= y
  <2>1. Rest \in SUBSET (0..N)
    OBVIOUS
  <2> HIDE DEF Rest
  <2> QED
    BY <2>1, HasFirst
<1>2. x \in 1..N /\ x - 1 \in 0..N /\ ~(x <= x - 1)
  OBVIOUS
<1>3. x - 1 \in S
  BY <1>1, <1>2
<1> QED
  BY <1>2, <1>3

\* The stack after no part and after each part.
LEMMA WalkSteps ==
  ASSUME NEW stack, NEW link, Len(link) \in Nat
  PROVE  /\ Walk(stack, link)[0] = stack
         /\ \A n \in 1..Len(link) : Walk(stack, link)[n] = Step(Walk(stack, link)[n - 1], link[n])
<1> DEFINE Stacks(m, f) ==
             f = [n \in 0..m |-> IF n = 0 THEN stack ELSE Step(f[n - 1], link[n])]
           S == {m \in 0..Len(link) : \E f : Stacks(m, f)}
<1>1. 0 \in S
  <2>1. Stacks(0, [n \in 0..0 |-> stack])
    OBVIOUS
  <2> HIDE DEF Stacks
  <2>2. \E f : Stacks(0, f)
    BY <2>1, Zenon
  <2> QED
    BY <2>2
<1>2. ASSUME NEW m \in 1..Len(link), m - 1 \in S PROVE m \in S
  <2>1. PICK f : Stacks(m - 1, f)
    BY <1>2
  <2> DEFINE g == [n \in 0..m |-> IF n = m THEN Step(f[m - 1], link[m]) ELSE f[n]]
  <2>2. \A n \in 0..(m - 1) : f[n] = IF n = 0 THEN stack ELSE Step(f[n - 1], link[n])
    BY <2>1
  <2>3. \A n \in 0..m : g[n] = IF n = 0 THEN stack ELSE Step(g[n - 1], link[n])
    <3> SUFFICES ASSUME NEW n \in 0..m PROVE g[n] = IF n = 0 THEN stack ELSE Step(g[n - 1], link[n])
      OBVIOUS
    <3>1. CASE n = m
      <4>1. g[n] = Step(f[m - 1], link[m])
        BY <3>1
      <4>2. n # 0 /\ g[n - 1] = f[n - 1]
        BY <3>1
      <4> QED
        BY <3>1, <4>1, <4>2
    <3>2. CASE n # m
      <4>1. n \in 0..(m - 1) /\ g[n] = f[n]
        BY <3>2
      <4>2. n # 0 => g[n - 1] = f[n - 1]
        BY <3>2
      <4> QED
        BY <2>2, <4>1, <4>2
    <3> QED
      BY <3>1, <3>2
  <2>4. Stacks(m, g)
    <3>1. g = [n \in 0..m |-> g[n]]
      OBVIOUS
    <3> HIDE DEF g
    <3> QED
      BY <2>3, <3>1
  <2> HIDE DEF Stacks, g
  <2>5. \E h : Stacks(m, h)
    BY <2>4, Zenon
  <2> QED
    BY <2>5
<1>3. \E f : Stacks(Len(link), f)
  <2>1. \A m \in 0..Len(link) : m \in S
    <3> HIDE DEF S
    <3> QED
      BY <1>1, <1>2, GoesOn
  <2> QED
    BY <2>1
<1>4. Walk(stack, link) = CHOOSE f : Stacks(Len(link), f)
  BY DEF Walk
<1>5. Stacks(Len(link), Walk(stack, link))
  BY <1>3, <1>4
<1> DEFINE walk == Walk(stack, link)
<1>6. walk = [n \in 0..Len(link) |-> IF n = 0 THEN stack ELSE Step(walk[n - 1], link[n])]
  BY <1>5
<1> HIDE DEF walk
<1>7. \A n \in 0..Len(link) : walk[n] = IF n = 0 THEN stack ELSE Step(walk[n - 1], link[n])
  BY <1>6
<1>8. walk[0] = stack
  BY <1>7
<1>9. \A n \in 1..Len(link) : walk[n] = Step(walk[n - 1], link[n])
  BY <1>7
<1> QED
  BY <1>8, <1>9 DEF walk

Names == Folder \cup NoteName
LinkPart == [name : Names \cup {".", ".."}, escaped : BOOLEAN]

LEMMA PathShape ==
  ASSUME NEW p \in NotePath
  PROVE  /\ p \in Seq(Names) /\ Len(p) \in Nat /\ Len(p) >= 1
         /\ p[Len(p)] \in NoteName
         /\ Parent(p) \in Seq(Folder) /\ Len(Parent(p)) = Len(p) - 1
<1>1. PICK n \in 0..(MaxDepth - 1) : \E folders \in [1..n -> Folder], file \in NoteName : p = Append(folders, file)
  BY DEF NotePath
<1>2. PICK folders \in [1..n -> Folder], file \in NoteName : p = Append(folders, file)
  BY <1>1
<1>3. n \in Nat
  BY LinkAssumption
<1>4. folders \in Seq(Folder) /\ Len(folders) = n
  BY <1>3
<1>5. Len(p) = n + 1 /\ p[n + 1] = file /\ \A i \in 1..n : p[i] = folders[i]
  BY <1>2, <1>3, <1>4
<1>6. p \in Seq(Names)
  <2>1. folders \in Seq(Names) /\ file \in Names
    BY <1>3, <1>4 DEF Names
  <2> QED
    BY <1>2, <2>1
<1>7. Parent(p) = folders
  <2>1. Parent(p) = SubSeq(p, 1, n)
    BY <1>3, <1>5 DEF Parent, Front
  <2>2. SubSeq(p, 1, n) \in Seq(Names) /\ Len(SubSeq(p, 1, n)) = n /\ \A i \in 1..n : SubSeq(p, 1, n)[i] = p[i]
    BY <1>3, <1>5, <1>6
  <2>3. folders \in Seq(Names)
    BY <1>3, <1>4 DEF Names
  <2> QED
    BY <1>3, <1>4, <1>5, <2>1, <2>2, <2>3, SeqEqual
<1> QED
  BY <1>3, <1>4, <1>5, <1>6, <1>7

LEMMA Prefix ==
  ASSUME NEW S, NEW s \in Seq(S), NEW n \in 0..Len(s)
  PROVE  /\ SubSeq(s, 1, n) \in Seq(S) /\ Len(SubSeq(s, 1, n)) = n
         /\ \A i \in 1..n : SubSeq(s, 1, n)[i] = s[i]
OBVIOUS

LEMMA SamePrefix ==
  ASSUME NEW S, NEW s \in Seq(S), NEW t \in Seq(S), NEW n \in 0..Len(s), n <= Len(t), \A i \in 1..n : s[i] = t[i]
  PROVE  SubSeq(s, 1, n) = SubSeq(t, 1, n)
<1>1. n \in 0..Len(t)
  OBVIOUS
<1>2. /\ SubSeq(s, 1, n) \in Seq(S) /\ Len(SubSeq(s, 1, n)) = n
      /\ \A i \in 1..n : SubSeq(s, 1, n)[i] = s[i]
  BY Prefix
<1>3. /\ SubSeq(t, 1, n) \in Seq(S) /\ Len(SubSeq(t, 1, n)) = n
      /\ \A i \in 1..n : SubSeq(t, 1, n)[i] = t[i]
  BY <1>1, Prefix
<1> QED
  BY <1>2, <1>3, SeqEqual

\* Front and Append take away and add the last of a prefix.
LEMMA PrefixSteps ==
  ASSUME NEW S, NEW s \in Seq(S), NEW n \in 1..Len(s)
  PROVE  /\ Front(SubSeq(s, 1, n)) = SubSeq(s, 1, n - 1)
         /\ Append(SubSeq(s, 1, n - 1), s[n]) = SubSeq(s, 1, n)
         /\ SubSeq(s, 1, n) # <<>>
<1>1. /\ SubSeq(s, 1, n) \in Seq(S) /\ Len(SubSeq(s, 1, n)) = n
      /\ \A i \in 1..n : SubSeq(s, 1, n)[i] = s[i]
  BY Prefix
<1>2. /\ SubSeq(s, 1, n - 1) \in Seq(S) /\ Len(SubSeq(s, 1, n - 1)) = n - 1
      /\ \A i \in 1..(n - 1) : SubSeq(s, 1, n - 1)[i] = s[i]
  BY Prefix
<1> DEFINE long == SubSeq(s, 1, n)
           short == SubSeq(s, 1, n - 1)
<1>3. Front(long) = SubSeq(long, 1, n - 1)
  BY <1>1 DEF Front
<1> HIDE DEF long, short
<1>4. long \in Seq(S) /\ Len(long) = n /\ \A i \in 1..n : long[i] = s[i]
  BY <1>1 DEF long
<1>5. short \in Seq(S) /\ Len(short) = n - 1 /\ \A i \in 1..(n - 1) : short[i] = s[i]
  BY <1>2 DEF short
<1>6. n - 1 \in 0..Len(long)
  BY <1>4
<1>7. /\ SubSeq(long, 1, n - 1) \in Seq(S) /\ Len(SubSeq(long, 1, n - 1)) = n - 1
      /\ \A i \in 1..(n - 1) : SubSeq(long, 1, n - 1)[i] = long[i]
  BY <1>4, <1>6, Prefix
<1>8. SubSeq(long, 1, n - 1) = short
  <2>1. \A i \in 1..(n - 1) : SubSeq(long, 1, n - 1)[i] = short[i]
    BY <1>4, <1>5, <1>7
  <2> QED
    BY <1>5, <1>7, <2>1, SeqEqual
<1>9. s[n] \in S
  OBVIOUS
<1>10. /\ Append(short, s[n]) \in Seq(S) /\ Len(Append(short, s[n])) = n
       /\ \A i \in 1..n : Append(short, s[n])[i] = s[i]
  BY <1>5, <1>9
<1>11. Append(short, s[n]) = long
  <2>1. \A i \in 1..n : Append(short, s[n])[i] = long[i]
    BY <1>4, <1>10
  <2> QED
    BY <1>4, <1>10, <2>1, SeqEqual
<1>12. long # <<>>
  BY <1>4
<1> QED
  BY <1>3, <1>8, <1>11, <1>12 DEF long, short

LEMMA CommonPrefix ==
  ASSUME NEW folders \in Seq(Folder), NEW target \in NotePath
  PROVE  /\ Common(folders, target) \in 0..Len(folders)
         /\ Common(folders, target) < Len(target)
         /\ SubSeq(folders, 1, Common(folders, target)) = SubSeq(target, 1, Common(folders, target))
<1>1. target \in Seq(Names) /\ Len(target) \in Nat /\ Len(target) >= 1 /\ target[Len(target)] \in NoteName
  BY PathShape
<1>2. folders \in Seq(Names) /\ Len(folders) \in Nat
  BY DEF Names
<1> DEFINE Agree(n) == n <= Len(target) /\ SubSeq(folders, 1, n) = SubSeq(target, 1, n)
           Ends(n) == n = Len(folders) \/ n = Len(target) \/ folders[n + 1] # target[n + 1]
<1>3. \E n \in 0..Len(folders) : Agree(n) /\ Ends(n)
  <2> SUFFICES ASSUME \A n \in 0..Len(folders) : ~(Agree(n) /\ Ends(n)) PROVE FALSE
    OBVIOUS
  <2> DEFINE S == {n \in 0..Len(folders) : n <= Len(target) /\ \A i \in 1..n : folders[i] = target[i]}
  <2>1. ASSUME NEW n \in S PROVE Agree(n)
    BY <1>1, <1>2, <2>1, SamePrefix
  <2>2. 0 \in S
    BY <1>1, <1>2
  <2>3. ASSUME NEW n \in 1..Len(folders), n - 1 \in S PROVE n \in S
    <3>1. Agree(n - 1) /\ n - 1 \in 0..Len(folders)
      BY <2>1, <2>3
    <3>2. ~Ends(n - 1)
      BY <3>1
    <3>3. n - 1 # Len(target) /\ n - 1 <= Len(target) /\ folders[n] = target[n]
      BY <3>1, <3>2
    <3> QED
      BY <1>1, <1>2, <2>3, <3>3
  <2>4. \A n \in 0..Len(folders) : n \in S
    <3> HIDE DEF S
    <3> QED
      BY <1>2, <2>2, <2>3, GoesOn
  <2>5. Agree(Len(folders)) /\ Len(folders) \in 0..Len(folders)
    BY <1>2, <2>1, <2>4
  <2> QED
    BY <2>5
<1> DEFINE n == Common(folders, target)
<1>4. n \in 0..Len(folders) /\ Agree(n)
  <2>1. n = CHOOSE m \in 0..Len(folders) : Agree(m) /\ Ends(m)
    BY Zenon DEF Common
  <2> HIDE DEF n, Agree, Ends
  <2> QED
    BY <1>3, <2>1
<1> HIDE DEF n
<1>5. n # Len(target)
  <2> SUFFICES ASSUME n = Len(target) PROVE FALSE
    OBVIOUS
  <2>1. n \in 1..n /\ n \in 0..Len(target)
    BY <1>1
  <2>2. SubSeq(folders, 1, n)[n] = folders[n]
    BY <1>2, <1>4, <2>1, Prefix
  <2>3. SubSeq(target, 1, n)[n] = target[n]
    BY <1>1, <2>1, Prefix
  <2>4. folders[n] \in Folder
    BY <1>4, <2>1
  <2> QED
    BY <1>1, <1>4, <2>2, <2>3, <2>4, LinkAssumption
<1> QED
  BY <1>1, <1>4, <1>5 DEF n

LEMMA ListedParts ==
  ASSUME NEW S, NEW k \in Nat, NEW f, f = [i \in 1..k |-> f[i]], \A i \in 1..k : f[i] \in S
  PROVE  f \in Seq(S) /\ Len(f) = k
<1>1. f \in [1..k -> S]
  OBVIOUS
<1> QED
  BY <1>1

LEMMA JoinedParts ==
  ASSUME NEW S, NEW s \in Seq(S), NEW t \in Seq(S), NEW j, j = s \o t
  PROVE  /\ j \in Seq(S) /\ Len(j) = Len(s) + Len(t)
         /\ \A i \in 1..Len(s) : j[i] = s[i]
         /\ \A i \in 1..Len(t) : j[Len(s) + i] = t[i]
<1>1. j \in Seq(S) /\ Len(j) = Len(s) + Len(t)
  OBVIOUS
<1>2. \A i \in 1..Len(s) : j[i] = s[i]
  OBVIOUS
<1>3. \A i \in 1..Len(t) : j[Len(s) + i] = t[i]
  OBVIOUS
<1> QED
  BY <1>1, <1>2, <1>3

\* What a chosen link is: steps up to the common folder, then the escaped names.
LEMMA PortableParts ==
  ASSUME NEW from \in NotePath, NEW target \in NotePath
  PROVE  LET n == Common(Parent(from), target)
             ups == Len(Parent(from)) - n
             link == PortableRelativeNoteHref(from, target)
         IN  /\ ups \in Nat /\ n \in Nat /\ n < Len(target)
             /\ link \in Seq(LinkPart) /\ Len(link) = ups + (Len(target) - n)
             /\ \A i \in 1..ups : link[i] = Up
             /\ \A i \in 1..(Len(target) - n) : link[ups + i] = Part(target[n + i], TRUE)
<1> DEFINE n == Common(Parent(from), target)
           ups == Len(Parent(from)) - n
           up == [i \in 1..ups |-> Up]
           down == [i \in 1..(Len(target) - n) |-> Part(target[n + i], TRUE)]
           link == PortableRelativeNoteHref(from, target)
<1>1. /\ Parent(from) \in Seq(Folder) /\ target \in Seq(Names) /\ Len(target) \in Nat
      /\ n \in 0..Len(Parent(from)) /\ n < Len(target)
  BY PathShape, CommonPrefix
<1>2. link = up \o down
  BY DEF PortableRelativeNoteHref
<1> HIDE DEF n, link
<1>3. ups \in Nat /\ n \in Nat /\ Len(target) - n \in Nat
  BY <1>1
<1>4. up \in Seq(LinkPart) /\ Len(up) = ups /\ \A i \in 1..ups : up[i] = Up
  BY <1>3 DEF Up, Part, LinkPart
<1>5. \A i \in 1..(Len(target) - n) : Part(target[n + i], TRUE) \in LinkPart
  BY <1>1, <1>3 DEF Part, LinkPart
<1>6. down \in Seq(LinkPart) /\ Len(down) = Len(target) - n /\ \A i \in 1..(Len(target) - n) : down[i] = Part(target[n + i], TRUE)
  <2> DEFINE k == Len(target) - n
  <2>1. k \in Nat /\ down = [i \in 1..k |-> down[i]] /\ \A i \in 1..k : down[i] = Part(target[n + i], TRUE)
    BY <1>3
  <2>2. \A i \in 1..k : down[i] \in LinkPart
    BY <1>5, <2>1
  <2> HIDE DEF down, k
  <2>3. down \in Seq(LinkPart) /\ Len(down) = k
    BY <2>1, <2>2, ListedParts
  <2> QED
    BY <2>1, <2>3 DEF k
<1> HIDE DEF ups, up, down
<1>7. /\ link \in Seq(LinkPart) /\ Len(link) = ups + (Len(target) - n)
      /\ \A i \in 1..ups : link[i] = up[i]
      /\ \A i \in 1..(Len(target) - n) : link[ups + i] = down[i]
  <2>1. /\ link \in Seq(LinkPart) /\ Len(link) = Len(up) + Len(down)
        /\ \A i \in 1..Len(up) : link[i] = up[i]
        /\ \A i \in 1..Len(down) : link[Len(up) + i] = down[i]
    <3>1. up \in Seq(LinkPart) /\ down \in Seq(LinkPart) /\ link = up \o down
      BY <1>2, <1>4, <1>6
    <3>2. PICK s \in Seq(LinkPart), t \in Seq(LinkPart), j \in {link} : s = up /\ t = down /\ j = link
      BY <3>1
    <3>3. j = s \o t
      BY <3>1, <3>2
    <3>4. /\ j \in Seq(LinkPart) /\ Len(j) = Len(s) + Len(t)
          /\ \A i \in 1..Len(s) : j[i] = s[i]
          /\ \A i \in 1..Len(t) : j[Len(s) + i] = t[i]
      BY <3>3, JoinedParts
    <3> QED
      BY <3>2, <3>4
  <2>2. Len(up) = ups /\ Len(down) = Len(target) - n
    BY <1>4, <1>6
  <2>3. link \in Seq(LinkPart) /\ Len(link) = ups + (Len(target) - n)
    BY <1>2, <2>1, <2>2
  <2>4. \A i \in 1..ups : link[i] = up[i]
    BY <1>2, <2>1, <2>2
  <2>5. \A i \in 1..(Len(target) - n) : link[ups + i] = down[i]
    BY <1>2, <2>1, <2>2
  <2> QED
    BY <2>3, <2>4, <2>5
<1> QED
  BY <1>1, <1>3, <1>4, <1>6, <1>7 DEF n, ups, link

\* A link whose names are escaped is not cut.
LEMMA NotCut ==
  ASSUME NEW link, \A i \in 1..Len(link) : ~(link[i].name \in Special /\ ~link[i].escaped)
  PROVE  WithoutSuffix(link) = link
<1>1. CutAt(link) = 0
  BY DEF CutAt, SelectInSeq
<1> QED
  BY <1>1 DEF WithoutSuffix

\* Any other link is cut to a part of it.
LEMMA CutLink ==
  ASSUME NEW link \in Seq(LinkPart)
  PROVE  WithoutSuffix(link) \in Seq(LinkPart)
<1> DEFINE I == {i \in 1..Len(link) : link[i].name \in Special /\ ~link[i].escaped}
<1>1. CutAt(link) = IF I # {} THEN Min(I) ELSE 0
  BY DEF CutAt, SelectInSeq
<1>2. I # {} => Min(I) \in I
  <2>1. I \in SUBSET (0..Len(link)) /\ Len(link) \in Nat
    OBVIOUS
  <2> HIDE DEF I
  <2> QED
    BY <2>1, MinIsOfTheSet
<1>3. CutAt(link) \in 0..Len(link)
  BY <1>1, <1>2
<1>4. CASE CutAt(link) = 0
  BY <1>4 DEF WithoutSuffix
<1>5. CASE CutAt(link) # 0
  <2> DEFINE n == CutAt(link)
  <2>1. n - 1 \in 0..Len(link)
    BY <1>3, <1>5
  <2>2. WithoutSuffix(link) = SubSeq(link, 1, n - 1)
    BY <1>5 DEF WithoutSuffix
  <2> HIDE DEF n
  <2> QED
    BY <2>1, <2>2, Prefix
<1> QED
  BY <1>4, <1>5

LEMMA NotOutside ==
  ASSUME NEW s \in Seq(Names)
  PROVE  s # Outside
<1> SUFFICES ASSUME s = Outside PROVE FALSE
  OBVIOUS
<1>1. Len(s) = 1 /\ s[1] = ".."
  BY DEF Outside
<1>2. ".." \in Names
  BY <1>1
<1> QED
  BY <1>2, LinkAssumption DEF Names

\* A link that was made by choosing a note leads to it.
LEMMA ChosenIsFound ==
  ASSUME NEW from \in NotePath, NEW target \in NotePath
  PROVE  ResolveInternalNotePath(from, PortableRelativeNoteHref(from, target)) = target
<1> DEFINE folders == Parent(from)
           n == Common(folders, target)
           ups == Len(folders) - n
           link == PortableRelativeNoteHref(from, target)
           W == Walk(folders, link)
<1>1. /\ folders \in Seq(Folder) /\ folders \in Seq(Names) /\ Len(folders) \in Nat
      /\ target \in Seq(Names) /\ Len(target) \in Nat /\ target[Len(target)] \in NoteName
  BY PathShape DEF Names
<1>2. /\ n \in 0..Len(folders) /\ n < Len(target)
      /\ SubSeq(folders, 1, n) = SubSeq(target, 1, n)
  BY <1>1, CommonPrefix
<1>3. /\ ups \in Nat /\ n \in Nat /\ n < Len(target)
      /\ link \in Seq(LinkPart) /\ Len(link) = ups + (Len(target) - n)
      /\ \A i \in 1..ups : link[i] = Up
      /\ \A i \in 1..(Len(target) - n) : link[ups + i] = Part(target[n + i], TRUE)
  BY PortableParts
<1> HIDE DEF link
<1>4. WithoutSuffix(link) = link
  <2> SUFFICES ASSUME NEW i \in 1..Len(link) PROVE ~(link[i].name \in Special /\ ~link[i].escaped)
    BY NotCut
  <2>1. CASE i \in 1..ups
    <3>1. link[i].name = ".."
      BY <1>3, <2>1 DEF Up, Part
    <3> QED
      BY <3>1, LinkAssumption
  <2>2. CASE i \notin 1..ups
    <3>1. i - ups \in 1..(Len(target) - n) /\ ups + (i - ups) = i
      <4>1. ups \in Nat /\ n \in Nat /\ Len(target) \in Nat /\ Len(link) = ups + (Len(target) - n)
        BY <1>1, <1>3
      <4> HIDE DEF ups
      <4>2. i \in Nat /\ i >= 1 /\ i <= Len(link) /\ i > ups
        BY <2>2, <4>1
      <4> QED
        BY <4>1, <4>2
    <3>2. link[i] = Part(target[n + (i - ups)], TRUE)
      BY <1>3, <3>1
    <3> QED
      BY <3>2 DEF Part
  <2> QED
    BY <2>1, <2>2
<1>5. W[0] = folders /\ \A k \in 1..Len(link) : W[k] = Step(W[k - 1], link[k])
  <2>1. Len(link) \in Nat
    BY <1>3
  <2> QED
    BY <2>1, WalkSteps
<1> HIDE DEF folders, n, W
<1>6. \A k \in 0..ups : W[k] = SubSeq(folders, 1, Len(folders) - k)
  <2> DEFINE S == {k \in 0..ups : W[k] = SubSeq(folders, 1, Len(folders) - k)}
  <2>1. 0 \in S
    <3>1. SubSeq(folders, 1, Len(folders)) = folders
      BY <1>1
    <3> QED
      BY <1>1, <1>3, <1>5, <3>1
  <2>2. ASSUME NEW k \in 1..ups, k - 1 \in S PROVE k \in S
    <3> DEFINE m == Len(folders) - (k - 1)
    <3>1. m \in 1..Len(folders) /\ k \in 1..Len(link) /\ Len(folders) - k = m - 1
      BY <1>1, <1>2, <1>3
    <3>2. W[k - 1] = SubSeq(folders, 1, m)
      BY <2>2
    <3>3. W[k] = Step(SubSeq(folders, 1, m), Up)
      BY <1>3, <1>5, <3>1, <3>2
    <3> HIDE DEF m
    <3>4. SubSeq(folders, 1, m) \in Seq(Names)
      BY <1>1, <3>1, Prefix
    <3>5. SubSeq(folders, 1, m) # <<>> /\ Front(SubSeq(folders, 1, m)) = SubSeq(folders, 1, m - 1)
      BY <1>1, <3>1, PrefixSteps
    <3>6. SubSeq(folders, 1, m) # Outside
      BY <3>4, NotOutside
    <3>7. W[k] = SubSeq(folders, 1, m - 1)
      BY <3>3, <3>5, <3>6 DEF Step, Up, Part
    <3> QED
      BY <3>1, <3>7
  <2>3. \A k \in 0..ups : k \in S
    <3> HIDE DEF S, ups
    <3> QED
      BY <1>3, <2>1, <2>2, GoesOn
  <2> QED
    BY <2>3
<1> DEFINE d == Len(target) - n
<1>7. \A j \in 0..d : W[ups + j] = SubSeq(target, 1, n + j)
  <2> DEFINE S == {j \in 0..d : W[ups + j] = SubSeq(target, 1, n + j)}
  <2>1. 0 \in S
    <3>1. W[ups] = SubSeq(folders, 1, Len(folders) - ups)
      BY <1>3, <1>6
    <3>2. Len(folders) - ups = n
      BY <1>1, <1>2
    <3>3. W[ups] = SubSeq(target, 1, n)
      BY <1>2, <3>1, <3>2
    <3> HIDE DEF ups
    <3> QED
      BY <1>1, <1>3, <3>3
  <2>2. ASSUME NEW j \in 1..d, j - 1 \in S PROVE j \in S
    <3> DEFINE m == n + j
    <3>1. /\ m \in 1..Len(target) /\ ups + j \in 1..Len(link) /\ n + (j - 1) = m - 1
          /\ ups + (j - 1) = (ups + j) - 1
      BY <1>1, <1>2, <1>3
    <3>2. W[(ups + j) - 1] = SubSeq(target, 1, m - 1)
      BY <2>2, <3>1
    <3>3. link[ups + j] = Part(target[m], TRUE)
      BY <1>3
    <3>4. W[ups + j] = Step(SubSeq(target, 1, m - 1), Part(target[m], TRUE))
      BY <1>5, <3>1, <3>2, <3>3
    <3> HIDE DEF m, ups
    <3>5. SubSeq(target, 1, m - 1) \in Seq(Names) /\ SubSeq(target, 1, m - 1) # Outside
      <4>1. m - 1 \in 0..Len(target)
        BY <1>1, <3>1
      <4>2. SubSeq(target, 1, m - 1) \in Seq(Names)
        BY <1>1, <4>1, Prefix
      <4> QED
        BY <4>2, NotOutside
    <3>6. target[m] \in Names /\ target[m] # "." /\ target[m] # ".."
      BY <1>1, <3>1, LinkAssumption DEF Names
    <3>7. W[ups + j] = Append(SubSeq(target, 1, m - 1), target[m])
      BY <3>4, <3>5, <3>6 DEF Step, Part
    <3>8. W[ups + j] = SubSeq(target, 1, m)
      BY <1>1, <3>1, <3>7, PrefixSteps
    <3> QED
      BY <3>8 DEF m
  <2>3. \A j \in 0..d : j \in S
    <3>1. d \in Nat
      BY <1>1, <1>3
    <3> HIDE DEF S, d
    <3> QED
      BY <2>1, <2>2, <3>1, GoesOn
  <2> QED
    BY <2>3
<1>8. W[Len(link)] = target
  <2>1. d \in 0..d /\ Len(link) = ups + d /\ n + d = Len(target)
    BY <1>1, <1>3
  <2>2. W[ups + d] = SubSeq(target, 1, n + d)
    BY <1>7, <2>1
  <2> HIDE DEF d, ups
  <2>3. W[Len(link)] = SubSeq(target, 1, Len(target))
    BY <2>1, <2>2
  <2> QED
    BY <1>1, <2>3
<1>9. link # <<>> /\ Last(link).name = target[Len(target)]
  <2>1. d \in 1..d /\ Len(link) = ups + d /\ n + d = Len(target) /\ Len(link) # 0
    BY <1>1, <1>3
  <2>2. link[ups + d] = Part(target[n + d], TRUE)
    BY <1>3, <2>1
  <2> HIDE DEF d, ups
  <2> QED
    BY <2>1, <2>2 DEF Last, Part
<1>10. target # Outside
  BY <1>1, NotOutside
<1> QED
  BY <1>1, <1>4, <1>8, <1>9, <1>10 DEF ResolveInternalNotePath, W, folders, link

\* What a part of a link makes of a stack of names: the same or nothing outside.
LEMMA StepIsInside ==
  ASSUME NEW stack, stack = Outside \/ stack \in Seq(Names), NEW part \in LinkPart
  PROVE  Step(stack, part) = Outside \/ Step(stack, part) \in Seq(Names)
<1>1. CASE stack = Outside
  BY <1>1 DEF Step
<1>2. CASE stack # Outside
  <2>1. stack \in Seq(Names)
    BY <1>2
  <2>2. CASE part.name = "."
    BY <1>2, <2>1, <2>2 DEF Step
  <2>3. CASE part.name # "." /\ part.name # ".."
    <3>1. part.name \in Names
      BY <2>3 DEF LinkPart
    <3>2. Append(stack, part.name) \in Seq(Names)
      BY <2>1, <3>1
    <3> QED
      BY <1>2, <2>3, <3>2 DEF Step
  <2>4. CASE part.name = ".." /\ stack = <<>>
    BY <1>2, <2>4 DEF Step
  <2>5. CASE part.name = ".." /\ stack # <<>>
    <3>1. Len(stack) \in 1..Len(stack) /\ Len(stack) - 1 \in 0..Len(stack)
      BY <2>1, <2>5
    <3>2. SubSeq(stack, 1, Len(stack) - 1) \in Seq(Names)
      BY <2>1, <3>1, Prefix
    <3> QED
      BY <1>2, <2>5, <3>2 DEF Step, Front
  <2> QED
    BY <2>2, <2>3, <2>4, <2>5
<1> QED
  BY <1>1, <1>2

\* No link leads out of the vault or to what is not a note.
LEMMA FoundIsANote ==
  ASSUME NEW from \in NotePath, NEW link \in Seq(LinkPart),
         ResolveInternalNotePath(from, link) # NoNotePath
  PROVE  LET found == ResolveInternalNotePath(from, link)
         IN  Last(found) \in NoteName /\ \A i \in DOMAIN found : found[i] \in Names
<1> DEFINE rest == WithoutSuffix(link)
           W == Walk(Parent(from), rest)
           found == ResolveInternalNotePath(from, link)
<1>1. rest \in Seq(LinkPart) /\ Len(rest) \in Nat
  BY CutLink
<1>2. Parent(from) \in Seq(Names)
  BY PathShape DEF Names
<1> HIDE DEF rest
<1>3. W[0] = Parent(from) /\ \A n \in 1..Len(rest) : W[n] = Step(W[n - 1], rest[n])
  BY <1>1, WalkSteps
<1>4. /\ rest # <<>> /\ Last(rest).name \in NoteName /\ W[Len(rest)] # Outside
      /\ found = W[Len(rest)]
  BY DEF ResolveInternalNotePath, rest, NoNotePath
<1> HIDE DEF W, found
<1>5. \A n \in 0..Len(rest) : W[n] = Outside \/ W[n] \in Seq(Names)
  <2> DEFINE S == {n \in 0..Len(rest) : W[n] = Outside \/ W[n] \in Seq(Names)}
  <2>1. 0 \in S
    BY <1>1, <1>2, <1>3
  <2>2. ASSUME NEW n \in 1..Len(rest), n - 1 \in S PROVE n \in S
    <3>1. PICK stack \in {W[n - 1]}, part \in LinkPart : part = rest[n]
      BY <1>1
    <3>2. stack = Outside \/ stack \in Seq(Names)
      BY <2>2, <3>1
    <3>3. W[n] = Step(stack, part)
      BY <1>3, <3>1
    <3>4. Step(stack, part) = Outside \/ Step(stack, part) \in Seq(Names)
      BY <3>2, StepIsInside
    <3> QED
      BY <3>3, <3>4
  <2>3. \A n \in 0..Len(rest) : n \in S
    <3> HIDE DEF S
    <3> QED
      BY <1>1, <2>1, <2>2, GoesOn
  <2> QED
    BY <2>3
<1>6. PICK n \in 1..Len(rest) : n = Len(rest)
  BY <1>1, <1>4
<1>7. found = Step(W[n - 1], rest[n]) /\ rest[n].name \in NoteName /\ found # Outside
  BY <1>3, <1>4, <1>6 DEF Last
<1>8. rest[n].name # "." /\ rest[n].name # ".." /\ rest[n].name \in Names
  BY <1>7, LinkAssumption DEF Names
<1>9. W[n - 1] # Outside
  BY <1>7 DEF Step
<1>10. W[n - 1] \in Seq(Names)
  BY <1>5, <1>6, <1>9
<1>11. found = Append(W[n - 1], rest[n].name)
  BY <1>7, <1>8, <1>9 DEF Step
<1>12. PICK stack \in Seq(Names), name \in Names : stack = W[n - 1] /\ name = rest[n].name
  BY <1>8, <1>10
<1>13. /\ Append(stack, name) \in Seq(Names) /\ Len(Append(stack, name)) = Len(stack) + 1
       /\ Append(stack, name)[Len(stack) + 1] = name
  OBVIOUS
<1>14. found = Append(stack, name) /\ name \in NoteName
  BY <1>7, <1>11, <1>12
<1>15. Last(found) = name
  BY <1>13, <1>14 DEF Last
<1>16. \A i \in DOMAIN found : found[i] \in Names
  BY <1>13, <1>14
<1> QED
  BY <1>14, <1>15, <1>16 DEF found

\* An empty link leads nowhere.
LEMMA EmptyLink == ASSUME NEW from PROVE ResolveInternalNotePath(from, <<>>) = NoNotePath
<1>1. PICK none \in {<<>>} : none = <<>> /\ Len(none) = 0
  OBVIOUS
<1>2. \A i \in 1..Len(none) : ~(none[i].name \in Special /\ ~none[i].escaped)
  BY <1>1
<1>3. WithoutSuffix(none) = none
  BY <1>2, NotCut
<1>4. WithoutSuffix(<<>>) = <<>>
  BY <1>1, <1>3
<1>5. ResolveInternalNotePath(from, <<>>)
        = IF <<>> = <<>> \/ Last(<<>>).name \notin NoteName \/ Walk(Parent(from), <<>>)[Len(<<>>)] = Outside
          THEN NoNotePath ELSE Walk(Parent(from), <<>>)[Len(<<>>)]
  BY <1>4, Zenon DEF ResolveInternalNotePath
<1> QED
  BY <1>5

\* What LinksFindTheirNote rests on: a link is chosen while there is none, among
\* notes whose paths are paths of notes, and stays.
LinkInv ==
  /\ at \in NotePath
  /\ href = <<>> => notes \subseteq NotePath
  /\ href \in Seq(LinkPart)
  /\ meant # NoNotePath => ResolveInternalNotePath(at, href) = meant

LEMMA LinkAtFirst == LinkInit => LinkInv
BY DEF LinkInit, LinkInv

LEMMA TypedLinks ==
  ASSUME NEW link \in SeqOf(Typed, 2)
  PROVE  link \in Seq(LinkPart)
<1>1. PICK m \in 0..2 : link \in [1..m -> Typed]
  BY DEF SeqOf
<1>2. Typed \subseteq LinkPart
  <2>1. \A name \in Names \cup {".", ".."} : Part(name, FALSE) \in LinkPart
    BY DEF Part, LinkPart
  <2>2. Up \in LinkPart /\ Part(".", FALSE) \in LinkPart
    BY <2>1 DEF Up
  <2>3. \A name \in Folder \cup NoteName : Part(name, FALSE) \in LinkPart
    BY <2>1 DEF Names
  <2> QED
    BY <2>2, <2>3 DEF Typed
<1>3. m \in Nat /\ link \in [1..m -> LinkPart]
  BY <1>1, <1>2
<1> QED
  BY <1>3

LEMMA LinkStays == LinkInv /\ [LinkNext]_linkVars => LinkInv'
<1> SUFFICES ASSUME LinkInv, [LinkNext]_linkVars PROVE LinkInv'
  OBVIOUS
<1>1. CASE InsertLink
  <2>1. PICK target \in Offered :
          /\ href = <<>> /\ href' = PortableRelativeNoteHref(at, target) /\ meant' = target
          /\ UNCHANGED <<at, notes>>
    BY <1>1 DEF InsertLink
  <2>2. target \in NotePath /\ at \in NotePath
    BY <2>1 DEF LinkInv, Offered
  <2>3. PICK from \in NotePath : from = at
    BY <2>2
  <2>4. ResolveInternalNotePath(from, PortableRelativeNoteHref(from, target)) = target
    BY <2>2, ChosenIsFound
  <2>5. PortableRelativeNoteHref(from, target) \in Seq(LinkPart)
    BY <2>2, PortableParts
  <2>6. at' = from /\ href' = PortableRelativeNoteHref(from, target)
    BY <2>1, <2>3
  <2>7. ResolveInternalNotePath(at', href') = meant'
    BY <2>1, <2>4, <2>6
  <2>8. at' \in NotePath /\ href' \in Seq(LinkPart) /\ notes' \subseteq NotePath
    BY <2>1, <2>5, <2>6 DEF LinkInv
  <2> QED
    BY <2>7, <2>8 DEF LinkInv
<1>2. CASE TypeLink
  <2>1. PICK link \in SeqOf(Typed, 2) : href = <<>> /\ link # <<>> /\ href' = link /\ UNCHANGED <<at, notes, meant>>
    BY <1>2 DEF TypeLink
  <2>2. meant = NoNotePath
    BY <2>1, EmptyLink DEF LinkInv
  <2>3. href' \in Seq(LinkPart)
    BY <2>1, TypedLinks
  <2>4. at' = at /\ meant' = meant /\ href' # <<>>
    BY <2>1
  <2> QED
    BY <2>2, <2>3, <2>4 DEF LinkInv
<1>3. CASE NotesChange
  <2>1. ResolveInternalNotePath(at, href) # NoNotePath /\ UNCHANGED <<at, href, meant>>
    BY <1>3 DEF NotesChange
  <2>2. href' # <<>>
    BY <2>1, EmptyLink
  <2>3. at' \in NotePath /\ href' \in Seq(LinkPart)
    BY <2>1 DEF LinkInv
  <2>4. ResolveInternalNotePath(at', href') = ResolveInternalNotePath(at, href) /\ meant' = meant
    BY <2>1
  <2> QED
    BY <2>2, <2>3, <2>4 DEF LinkInv
<1>4. CASE OpenLink \/ UNCHANGED linkVars
  <2>1. UNCHANGED <<at, notes, href, meant>>
    BY <1>4 DEF OpenLink, linkVars
  <2>2. at' \in NotePath /\ href' \in Seq(LinkPart) /\ (href' = <<>> => notes' \subseteq NotePath)
    BY <2>1 DEF LinkInv
  <2>3. ResolveInternalNotePath(at', href') = ResolveInternalNotePath(at, href) /\ meant' = meant
    BY <2>1
  <2> QED
    BY <2>2, <2>3 DEF LinkInv
<1> QED
  BY <1>1, <1>2, <1>3, <1>4 DEF LinkNext

LEMMA LinkInvSuffices == LinkInv => LinksFindTheirNote
<1> SUFFICES ASSUME LinkInv PROVE LinksFindTheirNote
  OBVIOUS
<1>1. PICK from \in NotePath, link \in Seq(LinkPart) : from = at /\ link = href
  BY DEF LinkInv
<1> DEFINE found == ResolveInternalNotePath(from, link)
<1>2. found # NoNotePath => Last(found) \in NoteName /\ \A i \in DOMAIN found : found[i] \in Names
  BY FoundIsANote
<1> HIDE DEF found
<1>3. ResolveInternalNotePath(at, href) = found
  BY <1>1 DEF found
<1> QED
  BY <1>2, <1>3 DEF LinkInv, LinksFindTheirNote, Names

\* A link made by choosing a note leads to that note, for paths of any depth and
\* names with any special characters; and no link, chosen or typed, leads out of
\* the vault or to what is not a note (FoundIsANote: links of any length).
THEOREM LinksAreFound == LinkInit /\ [][LinkNext]_linkVars => []LinksFindTheirNote
BY LinkAtFirst, LinkStays, LinkInvSuffices, PTL
=============================================================================

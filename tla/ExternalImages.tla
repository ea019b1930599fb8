---------------------------- MODULE ExternalImages ----------------------------
(***************************************************************************)
(* An image of another site in the editor (MarkdownEditor.tsx): it is not  *)
(* requested before the user clicks the placeholder that names the site.   *)
(*                                                                         *)
(* Milkdown renders the image of the note into an <img> in a wrapper, and  *)
(* may set its source, take it out or build a new wrapper at any time; a   *)
(* MutationObserver decorates what it left before anything else happens.   *)
(***************************************************************************)
EXTENDS Naturals

CONSTANT Site   \* sources on other sites

ASSUME SiteAssumption == {"empty", "asset"} \cap Site = {}

VARIABLES
  source,      \* the source of the image in the note
  img,         \* the src of the <img>: a placeholder for a source, or the source
  wrapper,     \* the data of the wrapper
  label,       \* the source the placeholder names, if there is one
  agreed       \* history: the source last agreed to, while it is the note's

externalVars == <<source, img, wrapper, label, agreed>>

-----------------------------------------------------------------------------
Source == Site \cup {"empty", "asset"}
NoImg == [what |-> "none", src |-> "empty"]
NoData == [source |-> "empty", loaded |-> FALSE, failed |-> FALSE]

\* inlineImageURL.
InlineImageURL(src) == [what |-> IF src \in Site THEN "placeholder" ELSE "real", src |-> src]

\* decorateImages, where Milkdown has left an img and a wrapper with some data:
\* the source it is about, or "empty".
ExternalSource(i) == IF i.src \in Site THEN i.src ELSE "empty"

\* Mutant: the consent outlives the source.
MutFresh(data, src) == [data EXCEPT !.source = src]

\* updateExternalImagePlaceholder, clearExternalImagePlaceholder.
Fresh(data, src) == IF data.source = src THEN data ELSE [NoData EXCEPT !.source = src]

Decorate(i, data) ==
  IF i = NoImg \/ ExternalSource(i) = "empty"
  THEN img' = i /\ wrapper' = NoData /\ label' = "empty"
  ELSE LET src == ExternalSource(i)
           now == Fresh(data, src)
       IN  /\ wrapper' = now
           /\ IF now.loaded /\ ~now.failed
              THEN img' = [what |-> "real", src |-> src] /\ label' = "empty"
              ELSE img' = i /\ label' = src

ExternalInit ==
  /\ source \in Source
  /\ img = IF source = "empty" THEN NoImg ELSE InlineImageURL(source)
  /\ wrapper = [NoData EXCEPT !.source = IF source \in Site THEN source ELSE "empty"]
  /\ label = IF source \in Site THEN source ELSE "empty"
  /\ agreed = "empty"

\* The note is changed; Milkdown renders the new source.
ChangeSource == \E src \in Source \ {source} :
  /\ source' = src
  /\ Decorate(IF src = "empty" THEN NoImg ELSE InlineImageURL(src), wrapper)
  /\ agreed' = "empty"

\* Milkdown builds the view of the same image anew.
Rebuild ==
  /\ source # "empty"
  /\ Decorate(InlineImageURL(source), NoData)
  /\ agreed' = "empty"
  /\ UNCHANGED source

\* Milkdown sets the same source again.
Rerender ==
  /\ source # "empty"
  /\ Decorate(InlineImageURL(source), wrapper)
  /\ UNCHANGED <<source, agreed>>

\* "Load image", "Try again".
LoadImage ==
  /\ label # "empty"
  /\ agreed' = label
  /\ Decorate([what |-> "real", src |-> wrapper.source], [wrapper EXCEPT !.loaded = TRUE, !.failed = FALSE])
  /\ UNCHANGED source

\* The image cannot be loaded; only one that was asked for counts as failed.
ImageFails ==
  /\ img.what = "real" /\ img.src \in Site
  /\ IF wrapper.loaded THEN Decorate(img, [wrapper EXCEPT !.failed = TRUE]) ELSE UNCHANGED <<img, wrapper, label>>
  /\ UNCHANGED <<source, agreed>>

ExternalNext == ChangeSource \/ Rebuild \/ Rerender \/ LoadImage \/ ImageFails

\* The browser asks another site for an image only after the user agreed to that
\* source, in this wrapper and since the note last changed it: no edit, undo,
\* failure or rendering carries the consent over to another source.
ExternalImagesWait == img.what = "real" /\ img.src \in Site => agreed = img.src
=============================================================================

--------------------------- MODULE ResourceCatalog ---------------------------
(***************************************************************************)
(* Studio's editing of the resource catalog                                *)
(* (cmd/paper-studio/studio_resource_catalog.go, internal/paperassets).    *)
(*                                                                         *)
(* A manifest names files with the digests of their contents, and Studio   *)
(* keeps the resources it has loaded in memory.  A request to add or to    *)
(* remove one is compared with the revisions the page shows, and then the  *)
(* manifest is loaded, changed, published by a rename, loaded again and    *)
(* taken into memory, all under editMu.  Meanwhile other programs save the *)
(* source, replace files or edit the manifest, any step may fail, and the  *)
(* process may be killed and started again.                                *)
(*                                                                         *)
(* A content is its own digest.  Of the metadata only `replaces` is        *)
(* modelled; fallbacks are checked as it is.  The inventory that is        *)
(* answered, limits and the shape of paths are left out.                   *)
(***************************************************************************)
EXTENDS Naturals, Sequences, FiniteSets, Functions

CONSTANTS
  SourceTexts, Images, Fonts, \* texts of the source; the names each uses
  Paths, Contents, Format,    \* files; what a content is
  FileSystems,                \* the files at first
  Mutations,                  \* what requests ask for
  Manifests,                  \* what other programs write
  Requests, None,
  MaxOutside, MaxCrashes

Formats == {"image", "font", "true font"}   \* the last one begins with "true"

ASSUME ContentsHaveFormats == Format \in [Contents -> Formats]
ASSUME FilesHaveContents == FileSystems \subseteq [Paths -> Contents]
ASSUME NoneIsNoRequest == None \notin Requests
ASSUME SourcesUseNames == DOMAIN Images = SourceTexts /\ DOMAIN Fonts = SourceTexts

VARIABLES
  sourceText, \* the text of the source file
  files,      \* the content of each path, None when there is no file
  manifest,   \* the manifest on disk: name -> entry
  catalog,    \* the resources in memory
  up,         \* whether Studio runs
  editing,    \* the request that holds editMu
  post,       \* the requests
  kept,       \* what acknowledged requests did: name -> "add" or "remove"
  spent       \* outside changes so far, those of files or of the manifest, and crashes

disk == <<sourceText, files, manifest>>
catalogVars == <<sourceText, files, manifest, catalog, up, editing, post, kept, spent>>

\* A function of one argument, and one that is g where f is not defined.
Only(a, value) == [x \in {a} |-> value]
Over(f, g) == [x \in DOMAIN f \cup DOMAIN g |-> IF x \in DOMAIN f THEN f[x] ELSE g[x]]

ManifestEntry(m, content) == [path |-> m.path, digest |-> content, kind |-> m.kind, replaces |-> m.replaces]

(* validateProjectResources, for contents that have their digests.         *)
ReplacementsHold(m) ==
  /\ \A n \in DOMAIN m : m[n].replaces # None =>
       /\ m[n].replaces \in DOMAIN m \ {n}
       /\ m[m[n].replaces].kind = m[n].kind
  /\ \A S \in SUBSET DOMAIN m \ {{}} : \E n \in S : m[n].replaces \notin S

Valid(m) ==
  /\ \A n \in DOMAIN m : m[n].kind = "image" <=> Format[m[n].digest] = "image"
  /\ ReplacementsHold(m)

\* LoadProjectManifest: every file is read again.
Loadable(m) == Valid(m) /\ \A n \in DOMAIN m : files[m[n].path] = m[n].digest

(* NewPaperAssetCatalog knows fewer signatures of a font than the manifest. *)
Admitted(m) == \A n \in DOMAIN m : Format[m[n].digest] # "true font"

(* A source that cannot be planned has a revision of its own.              *)
Plannable(s, c) == Images[s] \cup Fonts[s] \subseteq DOMAIN c
Revision(s, c) == IF Plannable(s, c) THEN <<s, Restrict(c, Images[s] \cup Fonts[s])>> ELSE <<s>>

Idle == [phase |-> "idle", mutation |-> None, seen |-> None, text |-> None,
         loaded |-> None, owed |-> <<>>]

CatalogInit ==
  /\ sourceText \in SourceTexts /\ files \in FileSystems
  /\ manifest \in Manifests /\ Loadable(manifest) /\ Admitted(manifest)
  /\ catalog = manifest /\ up = TRUE
  /\ editing = None /\ post = [r \in Requests |-> Idle]
  /\ kept = <<>> /\ spent = [outside |-> 0, files |-> 0, crashes |-> 0]

At(r, phase) == up /\ post[r].phase = phase

GoTo(r, phase) == post' = [post EXCEPT ![r].phase = phase]

Carry(r, phase, m) == post' = [post EXCEPT ![r] = [@ EXCEPT !.phase = phase, !.loaded = m]]

(* An error is answered; what was done on the way is not undone.           *)
Refuse(r) ==
  /\ up /\ post[r].phase \notin {"idle", "done"}
  /\ editing' = IF editing = r THEN None ELSE editing
  /\ post' = [post EXCEPT ![r] = [Idle EXCEPT !.phase = "done"]]
  /\ UNCHANGED <<disk, catalog, up, kept, spent>>

\* The page asks for a change of what it shows.
Post(r, m) ==
  /\ At(r, "idle")
  /\ post' = [post EXCEPT ![r] = [Idle EXCEPT !.phase = "posted", !.mutation = m,
                                              !.seen = Revision(sourceText, catalog)]]
  /\ UNCHANGED <<disk, catalog, up, editing, kept, spent>>

Accept(r) ==
  /\ At(r, "posted") /\ editing = None
  /\ Revision(sourceText, catalog) = post[r].seen
  /\ editing' = r
  /\ post' = [post EXCEPT ![r] = [@ EXCEPT !.phase = "check", !.text = sourceText]]
  /\ UNCHANGED <<disk, catalog, up, kept, spent>>

(* Only images are looked for in the source.                               *)
StillUsed(m, s) == m.op = "remove" /\ m.name \in Images[s]

Check(r) ==
  /\ At(r, "check") /\ sourceText = post[r].text /\ ~StillUsed(post[r].mutation, sourceText)
  /\ GoTo(r, "load")
  /\ UNCHANGED <<disk, catalog, up, editing, kept, spent>>

Load(r) ==
  /\ At(r, "load") /\ Loadable(manifest)
  /\ Carry(r, "stage", manifest)
  /\ UNCHANGED <<disk, catalog, up, editing, kept, spent>>

(* Mutant: the changed catalog is published as it is.                      *)
Unvalidated(m) == TRUE

Publishable(m) == Valid(m)

Stage(r) ==
  LET m     == post[r].mutation
      old   == post[r].loaded
      new   == IF m.op = "add" THEN Over(Only(m.name, ManifestEntry(m, files[m.path])), old)
               ELSE Restrict(old, DOMAIN old \ {m.name})
  IN /\ At(r, "stage")
     /\ m.op = "add" <=> m.name \notin DOMAIN old
     /\ m.op = "add" => files[m.path] # None
     /\ Publishable(new)
     /\ Carry(r, "publish", new)
     /\ UNCHANGED <<disk, catalog, up, editing, kept, spent>>

Publish(r) ==
  /\ At(r, "publish")
  /\ manifest' = post[r].loaded
  /\ kept' = Restrict(kept, DOMAIN kept \ {post[r].mutation.name})
  /\ post' = [post EXCEPT ![r] = [@ EXCEPT !.phase = "reload",
                               !.owed = Only(post[r].mutation.name, post[r].mutation.op)]]
  /\ UNCHANGED <<sourceText, files, catalog, up, editing, spent>>

Reload(r) ==
  /\ At(r, "reload") /\ Loadable(manifest)
  /\ Carry(r, "install", manifest)
  /\ UNCHANGED <<disk, catalog, up, editing, kept, spent>>

SetProjectResources(r) ==
  /\ At(r, "install") /\ Admitted(post[r].loaded)
  /\ catalog' = post[r].loaded
  /\ GoTo(r, "reply")
  /\ UNCHANGED <<disk, up, editing, kept, spent>>

\* What an outside edit has touched since is not promised.
Reply(r) ==
  /\ At(r, "reply")
  /\ kept' = Over(post[r].owed, kept)
  /\ editing' = None
  /\ post' = [post EXCEPT ![r] = [Idle EXCEPT !.phase = "done"]]
  /\ UNCHANGED <<disk, catalog, up, spent>>

-----------------------------------------------------------------------------
(* Other programs, and the process.                                        *)
Outside(n) ==
  /\ spent.outside < MaxOutside
  /\ spent' = [spent EXCEPT !.outside = @ + 1, !.files = @ + n]
  /\ UNCHANGED <<catalog, up, editing>>

SaveSource ==
  /\ Outside(0) /\ sourceText' \in SourceTexts \ {sourceText}
  /\ UNCHANGED <<files, manifest, post, kept>>

ReplaceFile(p) ==
  /\ Outside(1)
  /\ \E c \in (Contents \cup {None}) \ {files[p]} : files' = [files EXCEPT ![p] = c]
  /\ UNCHANGED <<sourceText, manifest, post, kept>>

EditManifest ==
  /\ Outside(1) /\ manifest' \in Manifests \ {manifest}
  /\ kept' = <<>>
  /\ post' = [x \in Requests |-> [post[x] EXCEPT !.owed = <<>>]]
  /\ UNCHANGED <<sourceText, files>>

Killed ==
  /\ up /\ spent.crashes < MaxCrashes
  /\ up' = FALSE /\ editing' = None
  /\ post' = [r \in Requests |-> IF post[r].phase = "idle" THEN Idle ELSE [Idle EXCEPT !.phase = "done"]]
  /\ spent' = [spent EXCEPT !.crashes = @ + 1]
  /\ UNCHANGED <<disk, catalog, kept>>

\* Studio does not start without its catalog.
Start ==
  /\ ~up /\ Loadable(manifest) /\ Admitted(manifest)
  /\ up' = TRUE /\ catalog' = manifest
  /\ UNCHANGED <<disk, editing, post, kept, spent>>

CatalogStep(r) ==
  \/ \E m \in Mutations : Post(r, m)
  \/ Accept(r) \/ Check(r) \/ Load(r) \/ Stage(r) \/ Publish(r) \/ Reload(r)
  \/ SetProjectResources(r) \/ Reply(r) \/ Refuse(r)

OutsideStep == SaveSource \/ EditManifest \/ \E p \in Paths : ReplaceFile(p)

-----------------------------------------------------------------------------
(* An acknowledged change is on disk until another one or an editor of the *)
(* manifest changes the same name, across crashes and beside requests that *)
(* fail half-way; and in memory, where Studio has it from.                 *)
CatalogKept ==
  \A n \in DOMAIN kept :
    /\ kept[n] = "add" <=> n \in DOMAIN manifest
    /\ up => (kept[n] = "add" <=> n \in DOMAIN catalog)

(* What Studio has written is a manifest it can load: every replacement is *)
(* there, and it loads as long as the files stay as they are.  (To start,  *)
(* Studio has to admit it too, and it does not admit a font that begins    *)
(* with "true", which it may have written.)                                *)
ManifestIsWhole ==
  /\ manifest \in Manifests \/ ReplacementsHold(manifest)
  /\ spent.files = 0 => Loadable(manifest)
=============================================================================

---------------------------- MODULE MCProjectFiles ----------------------------
(***************************************************************************)
(* Two changes of a catalog of up to three names and two reviews.          *)
(***************************************************************************)
EXTENDS ReviewSidecar, TLC

CONSTANTS logo, photo, sans, p1, p2, p3, png, jpg, ttf, true, r1, r2, v1, v2

MCImages == [plain |-> {}, framed |-> {logo}, printed |-> {}]
MCFonts == [plain |-> {}, framed |-> {}, printed |-> {sans}]

MCFormat == (png :> "image") @@ (jpg :> "image") @@ (ttf :> "font") @@ (true :> "true font")

MCFileSystems == {(p1 :> png) @@ (p2 :> jpg) @@ (p3 :> font) : font \in {ttf, true}}

Made(kind, name, path, replaces) ==
  [op |-> "add", name |-> name, path |-> path, kind |-> kind, replaces |-> replaces]
Removed(name) == [op |-> "remove", name |-> name]

MCMutations ==
  {Made("image", photo, p2, logo), Made("image", photo, p2, None), Made("font", sans, p3, None),
   Removed(logo), Removed(sans)}

Image(path, content, replaces) ==
  [path |-> path, digest |-> content, kind |-> "image", replaces |-> replaces]
Font(path, content) == [path |-> path, digest |-> content, kind |-> "font", replaces |-> None]

\* A logo, a logo with its replacement, a logo and a font, and one whose replaced logo is missing.
MCManifests ==
  {logo :> Image(p1, png, None),
   (logo :> Image(p1, png, None)) @@ (photo :> Image(p2, jpg, logo)),
   (logo :> Image(p1, png, None)) @@ (sans :> Font(p3, ttf)),
   photo :> Image(p2, jpg, logo)}

\* Two requests of either kind.
TwoRequests ==
  Cardinality({r \in Requests : post[r].phase # "idle"})
  + Cardinality({r \in Reviewers : review[r].phase # "idle"}) <= 2

Symmetry == Permutations({v1, v2}) \cup Permutations({r1, r2})
==============================================================================

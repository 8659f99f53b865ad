---------------------------- MODULE ReviewSidecar ----------------------------
(***************************************************************************)
(* Comments and reference images of a review                               *)
(* (cmd/paper-studio/studio_review.go), beside the editing of the catalog: *)
(* both look at the plan, which changes with the source and the catalog.   *)
(*                                                                         *)
(* A review is kept in a sidecar beside the source, and the bytes of a     *)
(* reference image and of its difference to the plan in files named by     *)
(* their digests.  A request is validated against the plan, and then the   *)
(* sidecar is read, changed and replaced by a rename under reviewMu.       *)
(* Annotations are handled as comments are.  Geometry and the comparison   *)
(* of pixels are left out; a difference is named by what it compares.      *)
(***************************************************************************)
EXTENDS ResourceCatalog

CONSTANTS
  Reviewers,     \* requests: each brings one comment or one reference
  ReviewKinds,   \* "comment", "reference", "calibration": a reference without its bytes
  SidecarLimit   \* comments that a sidecar has room for

VARIABLES
  sidecar,     \* what is on disk
  artifacts,   \* the digests of the files beside it
  reviewing,   \* the request that holds reviewMu
  review,      \* the requests
  promised     \* the comments that were acknowledged

reviewVars == <<sidecar, artifacts, reviewing, review, promised>>

Reference(digest, diff) == [digest |-> digest, diff |-> diff]
Readable(s) == Cardinality(s.comments) <= SidecarLimit

Fresh == [phase |-> "idle", kind |-> None, seen |-> None, copy |-> None]
Finished == [Fresh EXCEPT !.phase = "done"]

FilesInit ==
  /\ CatalogInit
  /\ sidecar = [comments |-> {}, reference |-> None]
  /\ artifacts = {} /\ reviewing = None
  /\ review = [r \in Reviewers |-> Fresh] /\ promised = {}

ASSUME NoneIsNoReviewer == None \notin Reviewers
ASSUME SidecarHasRoom == SidecarLimit \in Nat

ReviewAt(r, phase) == up /\ review[r].phase = phase

TakeCopy(r, phase, copy) ==
  review' = [review EXCEPT ![r] = [@ EXCEPT !.phase = phase, !.copy = copy]]

RefuseReview(r) ==
  /\ up /\ review[r].phase \notin {"idle", "done"}
  /\ reviewing' = IF reviewing = r THEN None ELSE reviewing
  /\ review' = [review EXCEPT ![r] = Finished]
  /\ UNCHANGED <<catalogVars, sidecar, artifacts, promised>>

PostReview(r, kind) ==
  /\ ReviewAt(r, "idle")
  /\ review' = [review EXCEPT ![r] = [Fresh EXCEPT !.phase = "posted", !.kind = kind,
                                                   !.seen = Revision(sourceText, catalog)]]
  /\ UNCHANGED <<catalogVars, sidecar, artifacts, reviewing, promised>>

\* A comment is on a page, so there must be one.
ValidateReviewMutation(r) ==
  /\ ReviewAt(r, "posted")
  /\ Revision(sourceText, catalog) = review[r].seen
  /\ review[r].kind = "comment" => Plannable(sourceText, catalog)
  /\ review' = [review EXCEPT ![r].phase = "lock"]
  /\ UNCHANGED <<catalogVars, sidecar, artifacts, reviewing, promised>>

(* Mutant: two requests change the sidecar at a time.                      *)
NotLocked(r) == TRUE

Lockable(r) == reviewing = None

LockReview(r) ==
  /\ ReviewAt(r, "lock") /\ Lockable(r)
  /\ reviewing' = r
  /\ review' = [review EXCEPT ![r].phase = "read"]
  /\ UNCHANGED <<catalogVars, sidecar, artifacts, promised>>

\* What a request makes of the sidecar it has read; a reference waits for
\* its artifacts.
WithReview(r) ==
  CASE review[r].kind = "comment"     -> [sidecar EXCEPT !.comments = @ \cup {r}]
    [] review[r].kind = "calibration" -> [sidecar EXCEPT !.reference = Reference(r, None)]
    [] OTHER                          -> sidecar

ReadReviewSidecar(r) ==
  /\ ReviewAt(r, "read") /\ Readable(sidecar)
  /\ TakeCopy(r, IF review[r].kind = "reference" THEN "artifact" ELSE "write", WithReview(r))
  /\ UNCHANGED <<catalogVars, sidecar, artifacts, reviewing, promised>>

WriteReferenceArtifact(r) ==
  /\ ReviewAt(r, "artifact")
  /\ artifacts' = artifacts \cup {<<r>>}
  /\ review' = [review EXCEPT ![r].phase = "diff"]
  /\ UNCHANGED <<catalogVars, sidecar, reviewing, promised>>

\* The reference and the revision of the plan it is compared with.
Diff(r) == <<r, review[r].seen>>

(* Mutant: the difference is entered, and written when it is asked for.    *)
DiffLater(r) == artifacts

WithDiff(r) == artifacts \cup {Diff(r)}

\* Only a plan that has pages can be compared with.
WriteDiffArtifact(r) ==
  /\ ReviewAt(r, "diff") /\ Len(review[r].seen) = 2
  /\ artifacts' = WithDiff(r)
  /\ TakeCopy(r, "write", [review[r].copy EXCEPT !.reference = Reference(<<r>>, Diff(r))])
  /\ UNCHANGED <<catalogVars, sidecar, reviewing, promised>>

WriteReviewSidecar(r) ==
  /\ ReviewAt(r, "write") /\ Readable(review[r].copy)
  /\ sidecar' = review[r].copy
  /\ review' = [review EXCEPT ![r].phase = "reply"]
  /\ UNCHANGED <<catalogVars, artifacts, reviewing, promised>>

ReplyReview(r) ==
  /\ ReviewAt(r, "reply")
  /\ reviewing' = None
  /\ promised' = IF review[r].kind = "comment" THEN promised \cup {r} ELSE promised
  /\ review' = [review EXCEPT ![r] = Finished]
  /\ UNCHANGED <<catalogVars, sidecar, artifacts>>

\* The requests of a process that is killed are gone.
KilledWithReviews ==
  /\ Killed
  /\ reviewing' = None
  /\ review' = [r \in Reviewers |-> IF review[r].phase = "idle" THEN Fresh ELSE Finished]
  /\ UNCHANGED <<sidecar, artifacts, promised>>

ReviewStep(r) ==
  \/ \E kind \in ReviewKinds : PostReview(r, kind)
  \/ ValidateReviewMutation(r) \/ LockReview(r) \/ ReadReviewSidecar(r)
  \/ WriteReferenceArtifact(r) \/ WriteDiffArtifact(r) \/ WriteReviewSidecar(r)
  \/ ReplyReview(r) \/ RefuseReview(r)

FilesNext ==
  \/ \E r \in Requests : CatalogStep(r) /\ UNCHANGED reviewVars
  \/ (OutsideStep \/ Start) /\ UNCHANGED reviewVars
  \/ \E r \in Reviewers : ReviewStep(r)
  \/ KilledWithReviews

FilesSpec == FilesInit /\ [][FilesNext]_<<catalogVars, reviewVars>>

-----------------------------------------------------------------------------
(* What Studio has acknowledged is there: no change of the catalog and no  *)
(* comment is lost to a request beside it, to one that fails half-way or   *)
(* to the process being killed.                                            *)
AcknowledgedIsKept == CatalogKept /\ promised \subseteq sidecar.comments

(* What a later start of Studio reads is complete: a sidecar that it can   *)
(* read, with the artifacts its reference names, and a manifest.           *)
ProjectIsWhole ==
  /\ ManifestIsWhole
  /\ Readable(sidecar)
  /\ sidecar.reference # None /\ sidecar.reference.diff # None =>
       {sidecar.reference.digest, sidecar.reference.diff} \subseteq artifacts
=============================================================================

---------------------------- MODULE PagedDocument ----------------------------
(***************************************************************************)
(* The planning of a document with headers, footers and page numbers       *)
(* (document/typed_page_template.go, planTypedPageTemplate).  A page's     *)
(* body is what its header and footer leave, and these may print the total *)
(* number of pages, which is known only when the body is paginated.  The   *)
(* body is therefore paginated under a guess of the total, and again under *)
(* the number of pages that gave, until the guess is the number of pages   *)
(* or the corrections run out.                                             *)
(*                                                                         *)
(* Each pagination is a run of Pagination, whose bodies are those that the *)
(* shells planned for the guess leave.                                     *)
(***************************************************************************)
EXTENDS Pagination

CONSTANTS
  Shells,          \* the choices of bodies, a function of the total printed
  MaxTotal,        \* bound: all totals from this one on have the same shells
  CorrectionLimit  \* typedPageCounterCorrectionLimit; more than one planning

ASSUME ShellsAssumption ==
  /\ MaxTotal \in Nat \ {0} /\ CorrectionLimit \in Nat \ {0, 1}
  /\ Shells \subseteq [1 .. MaxTotal -> BodyHeights]

VARIABLES
  shells,      \* the bodies that the headers and footers leave, by total
  totalGuess,
  correction,  \* how many body plannings were begun
  loaded,      \* the cache of shells: pages by total
  status       \* of the whole planning

counters == <<shells, totalGuess, correction, loaded, status>>

BodiesFor(total) == shells[Min({total, MaxTotal})]

\* The body of page 1 is selected, and its shell loaded, before any block.
PagedInit ==
  /\ Init
  /\ shells \in Shells /\ doc.bodies = BodiesFor(1)
  /\ totalGuess = 1 /\ correction = 1
  /\ loaded = {<<1, 1>>}
  /\ status = "planning"

(* A step of the body planner.  Each page it turns to loads the page's     *)
(* shell for the current guess.                                            *)
PlanBody ==
  /\ status = "planning" /\ outcome = "planning"
  /\ Next
  /\ loaded' = loaded \cup {<<page', totalGuess>>}
  /\ UNCHANGED <<shells, totalGuess, correction, status>>

\* The answer of the body planner, when it succeeds: so many pages.
Planned == status = "planning" /\ outcome = "planned"

Conclude(how) ==
  /\ status' = how
  /\ UNCHANGED <<vars, shells, totalGuess, correction>>

\* An error of the body planner, or a body with nothing on any page.
FailDocument ==
  /\ status = "planning" /\ outcome # "planning"
  /\ outcome = "planned" => pages = <<>>
  /\ Conclude("failed") /\ UNCHANGED loaded

(* Mutant: whatever the first correction gave is composed.                 *)
ComposeSecond ==
  /\ Planned /\ pages # <<>> /\ (Len(pages) = totalGuess \/ correction = 2)
  /\ Conclude("composed")
  /\ loaded' = loaded \cup {<<p, totalGuess>> : p \in 1 .. totalGuess}

\* Every shell of the final total is loaded, and the pages are composed.
Compose ==
  /\ Planned /\ pages # <<>> /\ Len(pages) = totalGuess
  /\ Conclude("composed")
  /\ loaded' = loaded \cup {<<p, totalGuess>> : p \in 1 .. totalGuess}

Disagrees == Planned /\ pages # <<>> /\ Len(pages) # totalGuess

\* The body is planned again from its first block, under a new total.
Replan(total) ==
  /\ totalGuess' = total
  /\ correction' = correction + 1
  /\ doc' = [doc EXCEPT !.bodies = BodiesFor(total)]
  /\ loaded' = loaded \cup {<<1, total>>}
  /\ index' = 1 /\ at' = "block" /\ turning' = FALSE /\ token' = Start
  /\ page' = 1 /\ available' = doc'.bodies.first /\ regionEmpty' = TRUE
  /\ explicitBreakPending' = FALSE /\ pendingBreak' = NoBreak
  /\ fragments' = <<>> /\ pages' = <<>> /\ breaks' = <<>>
  /\ keepTooLarge' = {}
  /\ outcome' = "planning"
  /\ UNCHANGED <<shells, status>>

Correct ==
  /\ Disagrees /\ correction < CorrectionLimit
  /\ Replan(Len(pages))

\* errTypedPageCounterUnstable
GiveUp ==
  /\ Disagrees /\ correction = CorrectionLimit
  /\ Conclude("unstable") /\ UNCHANGED loaded

\* ChargePlanningWork, called all along, finds the request canceled or its
\* budget spent.
Abandon ==
  /\ status = "planning" /\ outcome = "planning"
  /\ Conclude("abandoned") /\ UNCHANGED loaded

AtRest ==
  /\ status # "planning"
  /\ Stopped \/ (outcome = "planning" /\ UNCHANGED vars)
  /\ UNCHANGED counters

PagedNext ==
  \/ PlanBody \/ FailDocument \/ Compose \/ Correct \/ GiveUp \/ Abandon \/ AtRest

PagedSpec == PagedInit /\ [][PagedNext]_<<vars, counters>>

-----------------------------------------------------------------------------
(* A document that is composed prints, on every page, the number of pages  *)
(* it has, and was paginated in the bodies that its own headers and        *)
(* footers leave: no shell of an earlier guess is composed with it.        *)
ComposedTotalsAgree ==
  status = "composed" =>
    /\ totalGuess = Len(pages)
    /\ doc.bodies = BodiesFor(Len(pages))
    /\ \A p \in 1 .. Len(pages) : <<p, Len(pages)>> \in loaded

(* errTypedPageCounterUnstable is answered only to a document whose shells *)
(* grow or shrink with the total they print; any other settles at the      *)
(* second pagination.                                                      *)
UnstableOnlyByItsTotal ==
  /\ status = "unstable" => \E t \in 1 .. MaxTotal : shells[t] # shells[1]
  /\ (\A t \in 1 .. MaxTotal : shells[t] = shells[1]) => correction <= 2

(* The total that a document prints is its own, or it is refused for a     *)
(* reason of its own.                                                      *)
TotalsAgree == ComposedTotalsAgree /\ UnstableOnlyByItsTotal

(* A page is turned only when something was placed on it.  Each pagination *)
(* therefore comes to an end, whatever the blocks, keep constraints and    *)
(* bodies: no page is turned for ever for a block that fits on none.       *)
PagesAreFilled ==
  [][page' = page + 1 => \E i \in DOMAIN fragments : fragments[i].page = page]_<<vars, counters>>
=============================================================================

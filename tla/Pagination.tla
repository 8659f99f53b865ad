----------------------------- MODULE Pagination -----------------------------
(***************************************************************************)
(* The pagination of a document body: the loop of document/paper.go        *)
(* (planPaperTextBlocksMappedBodiesContext) that puts measured blocks on   *)
(* pages.  The blocks were expanded from the document and measured before; *)
(* a page's body is what its header and footer leave, so the first page,   *)
(* the even pages and the odd pages may have bodies of different heights.  *)
(*                                                                         *)
(* A block is a paragraph (see Paragraph) with a kind:                     *)
(*   "text"    placed line by line by the paragraph fragmenter;            *)
(*   "box"     a grid row, an image or a decorated box, placed whole;      *)
(*   "canvas"  placed whole too, and never asked about keep constraints;   *)
(*   "break"   an explicit page break.                                     *)
(* A box and a canvas count as one line, and as one fragment each (a       *)
(* canvas has at least one item, as the compiler sees to).  A keep group   *)
(* is a range of blocks that a keep-together container was expanded to.    *)
(***************************************************************************)
EXTENDS Paragraph, Sequences, FiniteSets

CONSTANTS
  Documents,  \* the documents to paginate
  MaxPages    \* the page limit; zero for none

BodyHeights == [first : Nat \ {0}, even : Nat \ {0}, odd : Nat \ {0}]

(* What the expansion and the measuring of blocks guarantee: containers    *)
(* nest, and none that is kept together has an explicit break.             *)
IsMeasured(b) ==
  /\ b.kind \in {"text", "box", "canvas", "break"}
  /\ b.kind # "text" => b.lines = 1
  /\ b.lines \in Nat \ {0} /\ b.orphans \in Nat \ {0} /\ b.widows \in Nat \ {0}
  /\ b.bottom \in [0 .. b.lines -> Nat]
  /\ b.bottom[0] = 0
  /\ \A k \in 1 .. b.lines : b.bottom[k - 1] < b.bottom[k]

IsDocument(d) ==
  /\ d = [blocks |-> d.blocks, groups |-> d.groups, bodies |-> d.bodies]
  /\ Len(d.blocks) \in Nat
  /\ \A i \in 1 .. Len(d.blocks) : IsMeasured(d.blocks[i])
  /\ d.bodies \in BodyHeights
  /\ \A g \in d.groups :
       /\ g.first \in 1 .. g.last /\ g.last \in 1 .. Len(d.blocks)
       /\ \A i \in g.first .. g.last : d.blocks[i].kind # "break"
       /\ \A h \in d.groups : h.first \in g.first + 1 .. g.last => h.last <= g.last

ASSUME DocumentsAreMeasured == \A d \in Documents : IsDocument(d)

ASSUME MaxPagesIsNatural == MaxPages \in Nat

VARIABLES
  doc,                   \* the document: its blocks, groups and bodies
  index,                 \* the block of this iteration
  at,                    \* how far the iteration is
  turning,               \* whether the body page is being advanced
  token,                 \* the line of a text block to place next
  page,                  \* pageNumber
  available,             \* the height left on the page
  regionEmpty,
  explicitBreakPending,
  pendingBreak,          \* the break to report with the next fragment
  fragments,             \* what was placed, in order
  pages,                 \* the page numbers of the plan
  breaks,                \* the break decisions of the plan
  keepTooLarge,          \* the blocks reported with DiagnosticKeepTooLarge
  outcome

cursor == <<index, at, token>>
region == <<page, available, regionEmpty>>
plan == <<fragments, pages, breaks>>
vars == <<doc, cursor, turning, region, explicitBreakPending, pendingBreak,
          plan, keepTooLarge, outcome>>

BlockCount == Len(doc.blocks)
Block(i) == doc.blocks[i]
IsBreak(i) == Block(i).kind = "break"
BlockHeight(i) == Block(i).bottom[Block(i).lines]

Body(n) == IF n = 1 THEN doc.bodies.first
           ELSE IF n % 2 = 0 THEN doc.bodies.even ELSE doc.bodies.odd

NoBreak == [reason |-> "none"]

Init ==
  /\ doc \in Documents
  /\ index = 1 /\ at = "block" /\ turning = FALSE /\ token = Start
  /\ page = 1 /\ available = doc.bodies.first /\ regionEmpty = TRUE
  /\ explicitBreakPending = FALSE /\ pendingBreak = NoBreak
  /\ fragments = <<>> /\ pages = <<>> /\ breaks = <<>>
  /\ keepTooLarge = {}
  /\ outcome = "planning"

-----------------------------------------------------------------------------
(* Turning the page.                                                       *)

(* Every turn is announced with the break it makes, and then made.         *)
TurnFor(reason) ==
  /\ turning' = TRUE
  /\ pendingBreak' = [reason |-> reason, fromPage |-> page, preceding |-> Len(fragments)]

LimitReached == MaxPages > 0 /\ page >= MaxPages

(* Mutant: the next page starts with the height that was left on this one. *)
AdvanceKeepingSpace ==
  /\ turning /\ ~LimitReached
  /\ turning' = FALSE
  /\ page' = page + 1
  /\ regionEmpty' = TRUE
  /\ UNCHANGED <<doc, cursor, available, explicitBreakPending, pendingBreak, plan,
                 keepTooLarge, outcome>>

AdvanceBodyPage ==
  /\ turning /\ ~LimitReached
  /\ turning' = FALSE
  /\ page' = page + 1
  /\ available' = Body(page + 1)
  /\ regionEmpty' = TRUE
  /\ UNCHANGED <<doc, cursor, explicitBreakPending, pendingBreak, plan, keepTooLarge, outcome>>

Fail(why) ==
  /\ outcome' = why
  /\ UNCHANGED <<doc, cursor, turning, region, explicitBreakPending, pendingBreak, plan, keepTooLarge>>

ExceedPageLimit == turning /\ LimitReached /\ outcome = "planning" /\ Fail("page limit")

Planning == outcome = "planning" /\ ~turning

-----------------------------------------------------------------------------
(* Placing a fragment: of the block, from a line, some lines of it.        *)
Place(first, count, relaxedOrphans, relaxedWidows) ==
  /\ fragments' = Append(fragments,
       [block |-> index, first |-> first, count |-> count, page |-> page,
        relaxedOrphans |-> relaxedOrphans, relaxedWidows |-> relaxedWidows])
  /\ pages' = IF regionEmpty THEN Append(pages, page) ELSE pages
  /\ breaks' = IF pendingBreak = NoBreak THEN breaks
               ELSE Append(breaks,
                 [reason |-> pendingBreak.reason, preceding |-> pendingBreak.preceding,
                  triggering |-> Len(fragments) + 1,
                  fromPage |-> pendingBreak.fromPage, toPage |-> page])
  /\ available' = available - Height(Block(index), first, count)
  /\ regionEmpty' = FALSE
  /\ page' = page

NextBlock == index' = index + 1 /\ at' = "block" /\ token' = Start

-----------------------------------------------------------------------------
(* Explicit breaks.                                                        *)

AtBlock == Planning /\ at = "block" /\ index <= BlockCount

(* Mutant: a break on an empty page is taken as well.                      *)
NoteEveryBreak ==
  /\ AtBlock /\ IsBreak(index)
  /\ explicitBreakPending' = TRUE
  /\ NextBlock
  /\ UNCHANGED <<doc, turning, region, pendingBreak, plan, keepTooLarge, outcome>>

(* Mutant: a second marker takes the first one back.                       *)
NoteToggledBreak ==
  /\ AtBlock /\ IsBreak(index)
  /\ explicitBreakPending' = (~explicitBreakPending /\ ~regionEmpty)
  /\ NextBlock
  /\ UNCHANGED <<doc, turning, region, pendingBreak, plan, keepTooLarge, outcome>>

(* A break is remembered until content comes to receive it.                *)
NoteExplicitBreak ==
  /\ AtBlock /\ IsBreak(index)
  /\ explicitBreakPending' = (explicitBreakPending \/ ~regionEmpty)
  /\ NextBlock
  /\ UNCHANGED <<doc, turning, region, pendingBreak, plan, keepTooLarge, outcome>>

TakeExplicitBreak ==
  /\ AtBlock /\ ~IsBreak(index) /\ explicitBreakPending
  /\ explicitBreakPending' = FALSE
  /\ TurnFor("explicit")
  /\ UNCHANGED <<doc, cursor, region, plan, keepTooLarge, outcome>>

-----------------------------------------------------------------------------
(* Keep constraints.                                                       *)

GroupsAt(i) == {g \in doc.groups : g.first <= i /\ i <= g.last}
GroupsFrom(i) == {g \in doc.groups : g.first = i}

LinkedToNext(i) == i < BlockCount /\ Block(i).keepWithNext /\ ~IsBreak(i + 1)

(* The groups that start here, and the chain that their end starts.        *)
ConstraintEnd ==
  LET groupEnd == Max({index} \cup {g.last : g \in GroupsFrom(index)})
  IN Min({i \in groupEnd .. BlockCount : ~LinkedToNext(i)})

Constrained ==
  \/ Block(index).keepTogether \/ Block(index).keepWithNext
  \/ GroupsFrom(index) # {} \/ ConstraintEnd > index

KeepCapacity == Max({Body(page), Body(page + 1)})

(* Mutant: a paragraph of a keep group counts as one that may be split.    *)
SplittableInGroup(i) ==
  /\ Block(i).kind = "text" /\ ~Block(i).keepTogether
  /\ Block(i).orphans + Block(i).widows <= Block(i).lines

(* A paragraph that may be split needs only its first lines on the page.   *)
Splittable(i) ==
  /\ Block(i).kind = "text" /\ ~Block(i).keepTogether /\ GroupsAt(i) = {}
  /\ Block(i).orphans + Block(i).widows <= Block(i).lines

TotalHeight(first, last) == MapThenSumSet(LAMBDA i : BlockHeight(i), first .. last)

RequiredHeight ==
  LET end == ConstraintEnd
      whole == TotalHeight(index, end)
  IN IF whole > KeepCapacity /\ end > index /\ Splittable(end)
     THEN TotalHeight(index, end - 1) + Height(Block(end), 0, Block(end).orphans)
     ELSE whole

CheckKeep ==
  /\ AtBlock /\ Block(index).kind \in {"text", "box"} /\ ~explicitBreakPending
  /\ at' = "content"
  /\ \/ /\ Constrained /\ RequiredHeight > KeepCapacity
        /\ keepTooLarge' = keepTooLarge \cup {index}
        /\ UNCHANGED <<turning, pendingBreak>>
     \/ /\ Constrained /\ RequiredHeight <= KeepCapacity
        /\ RequiredHeight > available /\ ~regionEmpty
        /\ TurnFor("constraint")
        /\ UNCHANGED keepTooLarge
     \/ /\ Constrained => /\ RequiredHeight <= KeepCapacity
                          /\ RequiredHeight <= available \/ regionEmpty
        /\ UNCHANGED <<turning, pendingBreak, keepTooLarge>>
  /\ UNCHANGED <<doc, index, token, region, explicitBreakPending, plan, outcome>>

-----------------------------------------------------------------------------
(* Blocks placed whole.                                                    *)

AtWhole ==
  /\ Planning /\ index <= BlockCount
  /\ \/ at = "content" /\ Block(index).kind = "box"
     \/ at = "block" /\ Block(index).kind = "canvas" /\ ~explicitBreakPending

RejectTallBlock == AtWhole /\ BlockHeight(index) > Body(page) /\ Fail("too tall")

FitWhole ==
  /\ AtWhole /\ BlockHeight(index) <= Body(page)
  /\ at' = "whole"
  /\ IF BlockHeight(index) > available /\ ~regionEmpty
     THEN TurnFor("space")
     ELSE UNCHANGED <<turning, pendingBreak>>
  /\ UNCHANGED <<doc, index, token, region, explicitBreakPending, plan, keepTooLarge, outcome>>

(* The page it was moved to may have a shorter body; that is not checked.  *)
PlaceWhole ==
  /\ Planning /\ at = "whole"
  /\ Place(0, 1, FALSE, FALSE)
  /\ pendingBreak' = NoBreak
  /\ NextBlock
  /\ UNCHANGED <<doc, turning, explicitBreakPending, keepTooLarge, outcome>>

-----------------------------------------------------------------------------
(* Text.                                                                   *)

AtText == Planning /\ at = "content" /\ Block(index).kind = "text"

(* A paragraph kept together wants all its lines on both sides of a break. *)
Policy(i) ==
  LET b == Block(i)
  IN [lines |-> b.lines, bottom |-> b.bottom,
      orphans |-> IF b.keepTogether THEN b.lines ELSE b.orphans,
      widows |-> IF b.keepTogether THEN b.lines ELSE b.widows]

Space == [available |-> available, empty |-> regionEmpty, following |-> Body(page + 1)]

RejectSpace == AtText /\ ~SpaceIsValid(Space) /\ Fail("no space")

Answer == FragmentContext(Policy(index), Space, token)

DeferText ==
  /\ AtText /\ SpaceIsValid(Space) /\ Answer.action = "defer"
  /\ TurnFor("space")
  /\ UNCHANGED <<doc, cursor, region, explicitBreakPending, plan, keepTooLarge, outcome>>

PlaceText ==
  /\ AtText /\ SpaceIsValid(Space) /\ Answer.action = "place"
  /\ Place(token.next, Answer.count, Answer.relaxedOrphans, Answer.relaxedWidows)
  /\ IF Answer.done
     THEN NextBlock /\ pendingBreak' = NoBreak /\ UNCHANGED turning
     ELSE /\ token' = Answer.next
          /\ turning' = TRUE
          /\ pendingBreak' = [reason |-> Answer.reason, fromPage |-> page,
                              preceding |-> Len(fragments) + 1]
          /\ UNCHANGED <<index, at>>
  /\ UNCHANGED <<doc, explicitBreakPending, keepTooLarge, outcome>>

-----------------------------------------------------------------------------
Finish == Planning /\ index > BlockCount /\ Fail("planned")

Stopped == outcome # "planning" /\ UNCHANGED vars

Next ==
  \/ AdvanceBodyPage \/ ExceedPageLimit
  \/ NoteExplicitBreak \/ TakeExplicitBreak
  \/ CheckKeep
  \/ RejectTallBlock \/ FitWhole \/ PlaceWhole
  \/ RejectSpace \/ DeferText \/ PlaceText
  \/ Finish \/ Stopped

Spec == Init /\ [][Next]_vars

-----------------------------------------------------------------------------
(* The type of every variable: positions stay inside the document, and at  *)
(* most one turn is under way.                                             *)
TypeOK ==
  /\ index \in 1 .. BlockCount + 1
  /\ at \in {"block", "content", "whole"}
  /\ token.next \in Nat /\ token.leading \in Nat
  /\ index <= BlockCount => token.next < Block(index).lines
  /\ page \in Nat \ {0} /\ available \in Int
  /\ turning \in BOOLEAN /\ regionEmpty \in BOOLEAN /\ explicitBreakPending \in BOOLEAN
  /\ pendingBreak # NoBreak =>
       /\ pendingBreak.reason \in {"explicit", "constraint", "space", "overflow"}
       /\ pendingBreak.fromPage = IF turning THEN page ELSE page - 1
       /\ pendingBreak.preceding = Len(fragments)
  /\ turning => pendingBreak # NoBreak
  /\ \A i \in DOMAIN fragments :
       /\ fragments[i].block \in 1 .. BlockCount
       /\ fragments[i].count \in Nat \ {0} /\ fragments[i].page \in 1 .. page
  /\ keepTooLarge \subseteq 1 .. BlockCount
  /\ outcome \in {"planning", "planned", "page limit", "too tall", "no space"}

(* f ends where line `line` of block `block` begins: only explicit breaks  *)
(* are between them.                                                       *)
LeadsTo(f, block, line) ==
  \/ f.block = block /\ f.first + f.count = line
  \/ /\ f.block < block /\ line = 0
     /\ f.first + f.count = Block(f.block).lines
     /\ \A i \in f.block + 1 .. block - 1 : IsBreak(i)

(* Every line of the document is placed exactly once and in order: each    *)
(* fragment continues the one before it, and a finished plan ends with the *)
(* document (paper.go, the fragment loop; paragraph.go, placedResult).     *)
LinesInOrder ==
  /\ \A i \in 2 .. Len(fragments) :
       LeadsTo(fragments[i - 1], fragments[i].block, fragments[i].first)
  /\ fragments # <<>> =>
       fragments[1].first = 0 /\ \A i \in 1 .. fragments[1].block - 1 : IsBreak(i)
  /\ outcome = "planned" =>
       IF fragments = <<>> THEN \A i \in 1 .. BlockCount : IsBreak(i)
       ELSE LeadsTo(fragments[Len(fragments)], BlockCount + 1, 0)

(* Where a paragraph is cut, the lines before the cut honour its orphans   *)
(* and the lines after it its widows, or the plan reports that they do not *)
(* (DiagnosticParagraphConstraintRelaxed).  The promise is made with the   *)
(* height of the next page's body and kept on another iteration.           *)
RelaxationsReported ==
  \A i \in 2 .. Len(fragments) :
    LET before == fragments[i - 1]
        after == fragments[i]
    IN before.block = after.block =>
         /\ before.count >= Policy(before.block).orphans \/ before.relaxedOrphans
         /\ \/ after.count >= Policy(after.block).widows
            \/ before.relaxedWidows \/ after.relaxedWidows

(* A page turn is one break decision between two consecutive fragments on  *)
(* consecutive pages: no page is blank, skipped or left without a reason.  *)
(* A page is turned exactly where the document says so, or says nothing.   *)
DecisionsBefore(i) == {b \in DOMAIN breaks : breaks[b].triggering = i}
BreakBetween(block, next) == \E k \in block + 1 .. next - 1 : IsBreak(k)

TurnExplained(i) ==
  LET before == fragments[i - 1]
      after == fragments[i]
  IN IF before.page = after.page
     THEN DecisionsBefore(i) = {} /\ ~BreakBetween(before.block, after.block)
     ELSE /\ after.page = before.page + 1
          /\ \E b \in DecisionsBefore(i) :
               /\ DecisionsBefore(i) = {b}
               /\ breaks[b].preceding = i - 1
               /\ breaks[b].fromPage = before.page /\ breaks[b].toPage = after.page
               /\ (breaks[b].reason = "explicit") <=> BreakBetween(before.block, after.block)

TurnsExplained ==
  /\ fragments # <<>> => fragments[1].page = 1
  /\ \A i \in 2 .. Len(fragments) : TurnExplained(i)
  /\ pages = [n \in 1 .. Len(pages) |-> n]
  /\ fragments # <<>> => Len(pages) = fragments[Len(fragments)].page

Uniform == doc.bodies.even = doc.bodies.first /\ doc.bodies.odd = doc.bodies.first

(* Where all pages have the same body, a keep group that starts with       *)
(* anything but a canvas, and whose last block is not itself kept with the *)
(* next one, is on one page, or it is reported as too large                *)
(* (DiagnosticKeepTooLarge).                                               *)
GroupsKept ==
  Uniform =>
    \A g \in doc.groups :
      \/ g.first \in keepTooLarge
      \/ Block(g.first).kind = "canvas" \/ LinkedToNext(g.last)
      \/ \A i, j \in DOMAIN fragments :
           /\ fragments[i].block \in g.first .. g.last
           /\ fragments[j].block \in g.first .. g.last
           => fragments[i].page = fragments[j].page

FragmentsOn(n) == {i \in DOMAIN fragments : fragments[i].page = n}
FragmentHeight(i) ==
  Height(Block(fragments[i].block), fragments[i].first, fragments[i].count)
PageHeight(n) == MapThenSumSet(FragmentHeight, FragmentsOn(n))

(* Whatever passes the bottom of a page is alone on it: only a fragment    *)
(* that found the page empty may be taller than its body.                  *)
OverflowIsAlone ==
  \A n \in 1 .. page : Cardinality(FragmentsOn(n)) > 1 => PageHeight(n) <= Body(n)

(* Some line, or some block placed whole, is taller than some page's body. *)
TallContent ==
  \E i \in 1 .. BlockCount : \E k \in 1 .. Block(i).lines :
    Height(Block(i), k - 1, 1) > Min({doc.bodies.first, doc.bodies.even, doc.bodies.odd})

(* A plan fails only where the document has content taller than a page, or *)
(* needs more pages than the limit.                                        *)
FailureIsDeserved == outcome \in {"too tall", "no space"} => TallContent

(* Only content that is taller than a page fails, or passes the bottom of  *)
(* one, whatever came before it.                                           *)
TallContentOnly == OverflowIsAlone /\ FailureIsDeserved

(* A block kept with the next one ends on the page where the next one      *)
(* begins, or it is reported: that a follower taller than a page can be    *)
(* begun beside it is what keepLeadHeight (paper.go) is for.  The code     *)
(* does not hold to it for two headings in a row.                          *)
KeptWithNext ==
  \A i \in 2 .. Len(fragments) :
    LET before == fragments[i - 1]
        after == fragments[i]
    IN /\ before.block + 1 = after.block /\ Block(before.block).keepWithNext
       => before.page = after.page \/ before.block \in keepTooLarge
=============================================================================

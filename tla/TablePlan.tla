------------------------------ MODULE TablePlan ------------------------------
(***************************************************************************)
(* The pages of a table (internal/layoutengine/table.go, PlanTable).  The  *)
(* header rows are placed on every page and below them the groups of body  *)
(* rows, one after the other: on the page they are on if they fit or are   *)
(* the first there, and otherwise at the top of the next one.  A group     *)
(* that a policy has merged and that fits no page is divided again into    *)
(* the groups it was merged from.                                          *)
(***************************************************************************)
EXTENDS TableGrid

CONSTANTS
  Tables,    \* sets of tables: any table of any of them is planned
  MaxPages   \* TablePlanLimits.MaxPages

ASSUME TablesAssumption ==
  /\ MaxPages \in Nat \ {0}
  /\ \A family \in Tables : \A t \in family :
       IsTable(t) /\ t.bodies \in [first : Nat \ {0}, even : Nat \ {0}, odd : Nat \ {0}]

VARIABLES
  table,
  widths,        \* of the columns
  heights,       \* of the rows
  todo,          \* the groups still to be placed
  page,
  cursor,        \* how much of the page's body is used
  bodyPlaced,    \* lastBodyFragment is valid: the page has a body row
  bodyOverflow,  \* lastBodyOverflow
  placed,        \* the units placed: the header of each page, and groups
  breaks,
  notes,         \* diagnostics: their code and the rows they are about
  outcome

tableVars ==
  <<table, widths, heights, todo, page, cursor, bodyPlaced, bodyOverflow,
    placed, breaks, notes, outcome>>

Body(n) ==
  IF n = 1 THEN table.bodies.first
  ELSE IF n % 2 = 0 THEN table.bodies.even ELSE table.bodies.odd

Height(first, last) == SumOf(heights, first .. last)
HeaderHeight == Height(1, table.headerRows)
AvailableBelowHeader == Max({0, Body(page) - HeaderHeight})
Remaining == Max({0, Body(page) - cursor})

Note(code, first, last) == [code |-> code, first |-> first, last |-> last]
Unit(n, top, first, last, policy) ==
  [page |-> n, top |-> top, first |-> first, last |-> last, policy |-> policy]

Init ==
  /\ \E family \in Tables : table \in family
  /\ widths = <<>> /\ heights = <<>> /\ todo = <<>>
  /\ page = 0 /\ cursor = 0 /\ bodyPlaced = FALSE /\ bodyOverflow = FALSE
  /\ placed = <<>> /\ breaks = <<>> /\ notes = {}
  /\ outcome = "resolving"

Fail(reason) ==
  /\ outcome' = reason
  /\ UNCHANGED <<table, widths, heights, todo, page, cursor, bodyPlaced,
                 bodyOverflow, placed, breaks, notes>>

-----------------------------------------------------------------------------
(* startPage: the caption on page 1, and the header rows.                  *)

Caption(n) == IF n = 1 THEN table.caption ELSE 0
HeaderUnits(n) ==
  IF table.headerRows = 0 THEN <<>>
  ELSE <<Unit(n, Caption(n), 1, table.headerRows, "header")>>
HeaderTooTall(n) ==
  IF table.headerRows > 0 /\ HeaderHeight > Body(n)
    THEN {Note("repeated_header_too_tall", 1, table.headerRows)} ELSE {}

\* Where body rows begin on a page.
BodyTop(n) == Caption(n) + HeaderHeight

LimitReached == page >= MaxPages

Started == outcome = "resolving"

\* resolveTable's errors, in the order of its checks.
RejectTable ==
  /\ Started
  /\ \/ ~SurfaceValid(table) /\ Fail("dimensions_invalid")
     \/ SurfaceValid(table) /\ ~GridValid(table) /\ Fail("grid_invalid")
     \/ /\ SurfaceValid(table) /\ GridValid(table)
        /\ ResolveColumnWidths(table).error # "none"
        /\ Fail(ResolveColumnWidths(table).error)

\* The grid is resolved and page 1 is started.
ResolveTable ==
  LET resolved == ResolveColumnWidths(table)
  IN /\ Started
     /\ SurfaceValid(table) /\ GridValid(table) /\ resolved.error = "none"
     /\ UNCHANGED <<table, bodyPlaced, bodyOverflow, breaks>>
     /\ widths' = resolved.widths
     /\ heights' = ResolveRowHeights(table)
     /\ todo' = BodyGroups(table)
     /\ page' = 1
     /\ cursor' = BodyTop(1)'
     /\ placed' = HeaderUnits(1) /\ notes' = HeaderTooTall(1)'
     /\ outcome' = "planning"

-----------------------------------------------------------------------------
(* placeGroup.                                                             *)

Planning == outcome = "planning"
Group == Head(todo)
GroupHeight == Height(Group.first, Group.last)

TooTall == GroupHeight > AvailableBelowHeader
Relaxable == Len(Group.members) > 1 /\ TooTall

(* Mutant: the height is compared with a page without headers.             *)
OversizeForPage(n) ==
  IF GroupHeight <= Body(n) THEN {}
  ELSE {Note("unbreakable_too_tall", Group.first, Group.last)}

\* noteOversize, on the page the group is placed on.
Oversize(n) ==
  LET code == IF Group.last > Group.first /\ Group.policy = "none"
                THEN "rowspan_crosses_page" ELSE "unbreakable_too_tall"
  IN IF GroupHeight <= Max({0, Body(n) - HeaderHeight}) THEN {}
     ELSE {Note(code, Group.first, Group.last)}
          \cup (IF Group.policy = "none" THEN {}
                ELSE {Note("keep_too_large", Group.first, Group.last)})

\* A group its policies made too tall gives way to those it was made of.
RelaxGroup ==
  /\ Planning /\ todo # <<>> /\ Relaxable
  /\ todo' = Group.members \o Tail(todo)
  /\ notes' = notes \cup {Note("keep_too_large", Group.first, Group.last)}
  /\ UNCHANGED <<table, widths, heights, page, cursor, bodyPlaced, bodyOverflow,
                 placed, breaks, outcome>>

\* placeRows: the rows go where the cursor is.
PlaceAt(n, top, before) ==
  /\ todo' = Tail(todo)
  /\ cursor' = top + GroupHeight
  /\ bodyPlaced' = TRUE
  /\ bodyOverflow' = (top + GroupHeight > Body(n))
  /\ placed' = before \o <<Unit(n, top, Group.first, Group.last, Group.policy)>>
  /\ UNCHANGED <<table, widths, heights, outcome>>

(* Mutant: a group that does not fit is moved on from an empty page, too.  *)
MustTurnAlways == GroupHeight > Remaining

MustTurn == GroupHeight > Remaining /\ bodyPlaced

PlaceHere ==
  /\ Planning /\ todo # <<>> /\ ~Relaxable /\ ~MustTurn
  /\ PlaceAt(page, cursor, placed)
  /\ notes' = notes \cup Oversize(page)
  /\ UNCHANGED <<page, breaks>>

PlaceOnNextPage ==
  /\ Planning /\ todo # <<>> /\ ~Relaxable /\ MustTurn
  /\ ~LimitReached
  /\ page' = page + 1
  /\ PlaceAt(page + 1, BodyTop(page + 1), placed \o HeaderUnits(page + 1))
  /\ notes' = notes \cup HeaderTooTall(page + 1) \cup Oversize(page + 1)
  /\ breaks' = Append(breaks,
       [from      |-> page,
        before    |-> Group.first,
        reason    |-> IF bodyOverflow THEN "previous_overflow" ELSE "constraint",
        required  |-> GroupHeight,
        available |-> IF bodyOverflow THEN 0 ELSE Remaining])

ExceedPageLimit ==
  /\ Planning /\ todo # <<>> /\ ~Relaxable /\ MustTurn
  /\ LimitReached
  /\ Fail("page_limit")

Finish ==
  /\ Planning /\ todo = <<>>
  /\ outcome' = "planned"
  /\ UNCHANGED <<table, widths, heights, todo, page, cursor, bodyPlaced,
                 bodyOverflow, placed, breaks, notes>>

\* The work budget is spent, or the request canceled.
Abandon ==
  /\ outcome \in {"resolving", "planning"}
  /\ Fail("abandoned")

Stopped ==
  /\ outcome \notin {"resolving", "planning"}
  /\ UNCHANGED tableVars

Next ==
  \/ RejectTable \/ ResolveTable \/ RelaxGroup \/ PlaceHere \/ PlaceOnNextPage
  \/ ExceedPageLimit \/ Finish \/ Abandon \/ Stopped

Spec == Init /\ [][Next]_tableVars

Planned == outcome = "planned"
BodyUnits == {i \in DOMAIN placed : placed[i].policy # "header"}

-----------------------------------------------------------------------------
(* No table row is lost, repeated or moved: what is placed below the       *)
(* headers, and what is still to be placed, are the body rows in order.    *)
(* Every page begins with the header, has a body row once the plan is      *)
(* done, and holds all rows a cell spans in one unit, with no row drawn    *)
(* over another.                                                           *)

\* The body row that comes after those of the units before this place.
RowDue(place) ==
  LET before == {i \in BodyUnits : i < place}
  IN IF before = {} THEN table.headerRows + 1 ELSE placed[Max(before)].last + 1

\* The groups follow each other from one body row to another.
InSequence(groups, first, last) ==
  /\ \A i \in 1 .. Len(groups) : groups[i].first <= groups[i].last
  /\ \A i \in 2 .. Len(groups) : groups[i].first = groups[i - 1].last + 1
  /\ IF Len(groups) = 0 THEN first = last + 1
     ELSE groups[1].first = first /\ groups[Len(groups)].last = last

RowsInOrder ==
  outcome \in {"planning", "planned"} =>
    /\ \A i \in BodyUnits : placed[i].first = RowDue(i) /\ placed[i].first <= placed[i].last
    /\ InSequence(todo, RowDue(Len(placed) + 1), table.rows)
    /\ \A i \in DOMAIN placed :
         LET u == placed[i]
             begins == i = 1 \/ u.page = placed[i - 1].page + 1
         IN /\ (u.policy = "header") = (begins /\ table.headerRows > 0)
            /\ begins => u.top = Caption(u.page)
            /\ ~begins => /\ u.page = placed[i - 1].page
                          /\ u.top = placed[i - 1].top
                                       + Height(placed[i - 1].first, placed[i - 1].last)
    /\ \A c \in table.cells, i \in DOMAIN placed :
         RowsOf(c) \cap (placed[i].first .. placed[i].last) # {}
           => RowsOf(c) \subseteq placed[i].first .. placed[i].last
    /\ (Planned /\ table.rows > table.headerRows) =>
         \A n \in 1 .. page : \E i \in BodyUnits : placed[i].page = n

(* The resolved columns are as wide as the table and keep their own        *)
(* bounds, no fixed column has changed, and every cell has the width and   *)
(* the height it cannot do without: shares given to one cell are not       *)
(* taken back for another.                                                 *)
CellsHaveRoom ==
  outcome \in {"planning", "planned"} =>
    /\ TotalWidth(widths) = table.width
    /\ \A i \in DOMAIN widths :
         LET column == table.columns[i]
         IN /\ column.fixed => widths[i] = column.width
            /\ ~column.fixed => widths[i] >= column.min
            /\ column.max > 0 => widths[i] <= column.max
    /\ \A c \in table.cells :
         /\ SpanWidth(widths, c) >= c.minWidth
         /\ SumOf(heights, RowsOf(c)) >= c.height

(* Rows that a policy wants together are on one page, or a diagnostic      *)
(* covers all of them: a table kept together, a row kept with the next,    *)
(* the orphans at the beginning and the widows at the end.  Policies       *)
(* overlap, are nested when groups are merged again and are relaxed from   *)
(* the outside in.                                                         *)
Together(first, last) ==
  \E n \in 1 .. page :
    \A r \in first .. last :
      \E i \in BodyUnits : placed[i].page = n /\ r \in placed[i].first .. placed[i].last

Excused(first, last) ==
  \E n \in notes : n.code = "keep_too_large" /\ n.first <= first /\ last <= n.last

Wanted(first, last) == first < last => Together(first, last) \/ Excused(first, last)

PoliciesHold ==
  Planned =>
    /\ table.keepTogether => Wanted(table.headerRows + 1, table.rows)
    /\ \A r \in BodyRows(table) \ {table.rows} : table.keepWithNext[r] => Wanted(r, r + 1)
    /\ ~table.keepTogether =>
         /\ Wanted(table.headerRows + 1, table.headerRows + table.orphans)
         /\ Wanted(table.rows - table.widows + 1, table.rows)

(* What the plan reports is what happened.  Rows that go past the end of a *)
(* page's body are the first group there, and are reported or follow the   *)
(* caption; only rows of no height may come after them.  A group is        *)
(* reported only if it is taller than some page below the header.  Every   *)
(* page turn has one break, which names the group that was moved, a lack   *)
(* of room for it, and whether rows overflowed before.                     *)
Overflows(u) == u.top + Height(u.first, u.last) > Body(u.page)

OverflowReported(i) ==
  /\ \A j \in BodyUnits : j < i => placed[j].page # placed[i].page
  /\ \/ \E n \in notes : /\ n.code \in {"rowspan_crosses_page", "unbreakable_too_tall"}
                         /\ n.first = placed[i].first /\ n.last = placed[i].last
     \/ Caption(placed[i].page) > 0

Deserved(n) ==
  \/ n.code = "repeated_header_too_tall"
  \/ \E p \in 1 .. page : Height(n.first, n.last) > Max({0, Body(p) - HeaderHeight})

TurnExplained(p) ==
  /\ breaks[p].from = p /\ breaks[p].required > breaks[p].available
  /\ \E i \in BodyUnits : placed[i].page = p + 1 /\ placed[i].first = breaks[p].before
  /\ breaks[p].reason = "previous_overflow" <=>
       \E i \in BodyUnits : placed[i].page = p /\ Overflows(placed[i])

ReportsAreTrue ==
  outcome \in {"planning", "planned"} =>
    /\ \A i \in BodyUnits :
         Overflows(placed[i]) /\ Height(placed[i].first, placed[i].last) > 0 => OverflowReported(i)
    /\ \A n \in notes : Deserved(n)
    /\ Len(breaks) = page - 1 /\ \A p \in 1 .. page - 1 : TurnExplained(p)
=============================================================================

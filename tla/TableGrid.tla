------------------------------ MODULE TableGrid ------------------------------
(***************************************************************************)
(* The grid of a table, before any of it is on a page (internal/layout-    *)
(* engine/table.go): which grids are accepted, how wide the columns and    *)
(* how tall the rows become, and which rows must or should stay together.  *)
(*                                                                         *)
(* A table is a record of columns, the number of rows and of header rows   *)
(* among them, a set of cells, a width, and the pagination policies.       *)
(* Rows and columns are numbered from 1.  A cell covers cell.rows rows     *)
(* from cell.row on and cell.cols columns from cell.col on.                *)
(***************************************************************************)
EXTENDS Integers, FiniteSets, SequencesExt

SumOf(f, S) == MapThenSumSet(LAMBDA x : f[x], S)

Sorted(S, Before(_, _)) ==
  [k \in 1 .. Cardinality(S) |->
     CHOOSE x \in S : Cardinality({y \in S : Before(y, x)}) = k - 1]

Ascending(S) == Sorted(S, LAMBDA i, j : i < j)

\* What is handed over, measured or not: counts are unsigned in the code.
IsColumn(column) ==
  column.fixed \in BOOLEAN /\ {column.width, column.min, column.max} \subseteq Int

IsCell(cell) ==
  /\ {cell.row, cell.col} \subseteq Nat \ {0} /\ {cell.rows, cell.cols} \subseteq Nat
  /\ {cell.minWidth, cell.preferred, cell.height} \subseteq Int

IsTable(t) ==
  /\ {t.rows, t.headerRows, t.orphans, t.widows, t.caption} \subseteq Nat
  /\ t.width \in Int /\ t.keepTogether \in BOOLEAN
  /\ t.keepWithNext \in [1 .. t.rows -> BOOLEAN]
  /\ Len(t.columns) \in Nat /\ \A i \in 1 .. Len(t.columns) : IsColumn(t.columns[i])
  /\ IsFiniteSet(t.cells) /\ \A c \in t.cells : IsCell(c)

-----------------------------------------------------------------------------
(* The occupancy of the grid.                                              *)

RowsOf(cell) == cell.row .. cell.row + cell.rows - 1
ColsOf(cell) == cell.col .. cell.col + cell.cols - 1
Slots(cell) == RowsOf(cell) \X ColsOf(cell)
GridSlots(t) == (1 .. t.rows) \X (1 .. Len(t.columns))

ColumnValid(column) ==
  /\ column.min >= 0 /\ column.max >= 0
  /\ column.max > 0 => column.min <= column.max
  /\ column.fixed => /\ column.width > 0 /\ column.width >= column.min
                     /\ column.max > 0 => column.width <= column.max
  /\ ~column.fixed => column.width = 0

\* validateTableSurface: what can be wrong with the dimensions.
SurfaceValid(t) ==
  /\ t.rows > 0 /\ t.columns # <<>> /\ t.headerRows <= t.rows /\ t.width > 0
  /\ t.orphans <= t.rows - t.headerRows /\ t.widows <= t.rows - t.headerRows
  /\ \A i \in 1 .. Len(t.columns) : ColumnValid(t.columns[i])

\* validateTableCell: inside the grid, not half in the header, and measured.
SpanValid(t, cell) ==
  /\ cell.rows > 0 /\ cell.cols > 0
  /\ Slots(cell) \subseteq GridSlots(t)
  /\ cell.row <= t.headerRows => cell.row + cell.rows - 1 <= t.headerRows
  /\ 0 <= cell.minWidth /\ cell.minWidth <= cell.preferred /\ cell.height >= 0

(* Every slot is covered by one cell.                                      *)
Tiled(t) ==
  /\ \A c, d \in t.cells : c # d => Slots(c) \cap Slots(d) = {}
  /\ UNION {Slots(c) : c \in t.cells} = GridSlots(t)

GridValid(t) == (\A c \in t.cells : SpanValid(t, c)) /\ Tiled(t)

(* Cells are resolved by row and column, whatever order they came in.      *)
InOrder(t) ==
  Sorted(t.cells, LAMBDA c, d : c.row < d.row \/ (c.row = d.row /\ c.col < d.col))

-----------------------------------------------------------------------------
(* Column widths.  A fixed column keeps its width; the others share what   *)
(* cells demand, in rounds of equal shares, up to their maxima (0: none).  *)

Growing(columns, cols) == Ascending({i \in cols : ~columns[i].fixed})

Full(column, width) == column.max > 0 /\ width >= column.max

\* What a column at this width takes of a share.
Taken(column, width, share, remaining) ==
  LET wish == Min({share, remaining})
  IN IF column.max = 0 THEN wish ELSE Max({0, Min({wish, column.max - width})})

\* A column takes of the share, and grows on unless it is full.
Grow(columns, share, state, i) ==
  LET taken == Taken(columns[i], state.widths[i], share, state.remaining)
  IN [widths    |-> [state.widths EXCEPT ![i] = @ + taken],
      remaining |-> state.remaining - taken,
      active    |-> IF Full(columns[i], state.widths[i] + taken)
                      THEN state.active ELSE Append(state.active, i)]

\* One round over the columns that are still growing.
Round(columns, state) ==
  LET share == Max({1, state.remaining \div Len(state.active)})
  IN FoldLeft(LAMBDA s, i : Grow(columns, share, s, i),
              [state EXCEPT !.active = <<>>], state.active)

NextRound(columns, state) ==
  IF state.remaining = 0 \/ state.active = <<>> THEN state ELSE Round(columns, state)

\* distributeTableWidth: the widths, and how much could not be given.
Distribute(columns, widths, active, amount) ==
  FoldLeft(LAMBDA state, n : NextRound(columns, state),
           [widths |-> widths, remaining |-> amount, active |-> active],
           [n \in 1 .. amount + Len(active) |-> n])

MinimumWidths(t) ==
  [i \in 1 .. Len(t.columns) |->
     IF t.columns[i].fixed THEN t.columns[i].width ELSE t.columns[i].min]

SpanWidth(widths, cell) == SumOf(widths, ColsOf(cell))
TotalWidth(widths) == SumOf(widths, DOMAIN widths)

Resolving(widths) == [widths |-> widths, error |-> "none"]

(* Mutant: what the columns cannot take of a minimum is forgotten.         *)
CoverSomeOfMinimum(t, state, cell) ==
  LET deficit == cell.minWidth - SpanWidth(state.widths, cell)
      growing == Growing(t.columns, ColsOf(cell))
  IN IF state.error # "none" \/ deficit <= 0 THEN state
     ELSE IF growing = <<>> THEN [state EXCEPT !.error = "track_overflow"]
     ELSE Resolving(Distribute(t.columns, state.widths, growing, deficit).widths)

\* A cell's minimum is given to the growing columns of its span, or fails.
CoverMinimum(t, state, cell) ==
  LET deficit == cell.minWidth - SpanWidth(state.widths, cell)
      growing == Growing(t.columns, ColsOf(cell))
      given   == Distribute(t.columns, state.widths, growing, deficit)
  IN IF state.error # "none" \/ deficit <= 0 THEN state
     ELSE IF growing = <<>> \/ given.remaining > 0
       THEN [state EXCEPT !.error = "track_overflow"]
       ELSE Resolving(given.widths)

\* A cell's preference is given as far as the table's width allows.
CoverPreference(t, widths, cell) ==
  LET spare   == t.width - TotalWidth(widths)
      wanted  == Min({cell.preferred - SpanWidth(widths, cell), spare})
      growing == Growing(t.columns, ColsOf(cell))
  IN IF wanted <= 0 \/ growing = <<>> THEN widths
     ELSE Distribute(t.columns, widths, growing, wanted).widths

\* What is left over is shared by all growing columns, which must take it.
FillTable(t, widths) ==
  LET spare   == t.width - TotalWidth(widths)
      growing == Growing(t.columns, 1 .. Len(t.columns))
      given   == Distribute(t.columns, widths, growing, spare)
  IN IF spare = 0 THEN Resolving(widths)
     ELSE IF growing = <<>> \/ given.remaining > 0
       THEN [widths |-> widths, error |-> "track_unresolved"]
       ELSE Resolving(given.widths)

ResolveColumnWidths(t) ==
  LET covered == FoldLeft(LAMBDA s, c : CoverMinimum(t, s, c),
                          Resolving(MinimumWidths(t)), InOrder(t))
  IN IF covered.error # "none" THEN covered
     ELSE IF TotalWidth(covered.widths) > t.width
       THEN [covered EXCEPT !.error = "track_overflow"]
     ELSE FillTable(t, FoldLeft(LAMBDA w, c : CoverPreference(t, w, c),
                                covered.widths, InOrder(t)))

-----------------------------------------------------------------------------
(* Row heights.                                                            *)

\* distributeFixed: equal shares, the remainder to the first rows.
ShareHeight(heights, rows, amount) ==
  LET count == Cardinality(rows)
      first == Min(rows)
  IN [r \in DOMAIN heights |->
        IF r \notin rows THEN heights[r]
        ELSE heights[r] + (amount \div count)
                           + (IF r - first < (amount % count) THEN 1 ELSE 0)]

RowMaxima(t) ==
  [r \in 1 .. t.rows |->
     Max({0} \cup {c.height : c \in {d \in t.cells : d.row = r /\ d.rows = 1}})]

CoverHeight(heights, cell) ==
  LET deficit == cell.height - SumOf(heights, RowsOf(cell))
  IN IF cell.rows = 1 \/ deficit <= 0 THEN heights
     ELSE ShareHeight(heights, RowsOf(cell), deficit)

ResolveRowHeights(t) == FoldLeft(CoverHeight, RowMaxima(t), InOrder(t))

-----------------------------------------------------------------------------
(* The groups of body rows (deriveBodyGroups).  Rows that a rowspan joins  *)
(* form one group, which is never divided; a policy merges neighbouring    *)
(* groups into one that is divided only where it fits no page.             *)

BodyRows(t) == t.headerRows + 1 .. t.rows

\* The rows after which a group ends: no cell goes on into the next row.
Boundaries(t) ==
  {r \in BodyRows(t) : \A c \in t.cells : ~({r, r + 1} \subseteq RowsOf(c))}

\* The row from which a group that ends with this row starts.
StartOf(t, last) == Max({t.headerRows} \cup {r \in Boundaries(t) : r < last}) + 1

RowGroup(first, last) == [first |-> first, last |-> last, policy |-> "none", members |-> <<>>]

SpanGroups(t) ==
  LET lasts == Ascending(Boundaries(t))
  IN [i \in DOMAIN lasts |-> RowGroup(StartOf(t, lasts[i]), lasts[i])]

\* merge: groups i to j become one, if there is more than one of them.
Merge(groups, i, j, policy) ==
  IF i >= j THEN groups
  ELSE SubSeq(groups, 1, i - 1)
       \o <<[first |-> groups[i].first, last |-> groups[j].last, policy |-> policy,
             members |-> SubSeq(groups, i, j)]>>
       \o SubSeq(groups, j + 1, Len(groups))

\* Chains of rows kept with the next: each next group joins the group
\* before it when that one's last row asks for it.
JoinNext(t, groups, group) ==
  IF groups # <<>> /\ t.keepWithNext[Last(groups).last]
    THEN Merge(Append(groups, group), Len(groups), Len(groups) + 1, "row_keep_with_next")
    ELSE Append(groups, group)

KeepRows(t, groups) == FoldLeft(LAMBDA gs, g : JoinNext(t, gs, g), <<>>, groups)

\* The first groups that hold at least so many rows, or all of them.
HoldOrphans(t, groups) ==
  LET enough == {i \in DOMAIN groups : groups[i].last - t.headerRows >= t.orphans}
  IN IF t.orphans <= 1 THEN groups
     ELSE Merge(groups, 1, Min(enough \cup {Len(groups)}), "table_orphans")

(* Mutant: one row too many is counted as held.                            *)
HoldFewerWidows(t, groups) ==
  LET enough == {i \in DOMAIN groups : t.rows - groups[i].first + 2 >= t.widows}
  IN IF t.widows <= 1 THEN groups
     ELSE Merge(groups, Max(enough \cup {1}), Len(groups), "table_widows")

HoldWidows(t, groups) ==
  LET enough == {i \in DOMAIN groups : t.rows - groups[i].first + 1 >= t.widows}
  IN IF t.widows <= 1 THEN groups
     ELSE Merge(groups, Max(enough \cup {1}), Len(groups), "table_widows")

BodyGroups(t) ==
  LET kept == KeepRows(t, SpanGroups(t))
  IN IF t.keepTogether THEN Merge(kept, 1, Len(kept), "table_keep_together")
     ELSE HoldWidows(t, HoldOrphans(t, kept))
=============================================================================

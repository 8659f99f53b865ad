------------------------------ MODULE MCTablePlan ------------------------------
(***************************************************************************)
(* Small tables: some for their pages, with two columns, of which the      *)
(* first has cells of several rows; some for their columns, with two rows  *)
(* of cells of several columns; and some that are not tables.              *)
(***************************************************************************)
EXTENDS TablePlan

Cell(row, col, rows, cols, minWidth, preferred, height) ==
  [row |-> row, col |-> col, rows |-> rows, cols |-> cols,
   minWidth |-> minWidth, preferred |-> preferred, height |-> height]

Column(fixed, width, min, max) == [fixed |-> fixed, width |-> width, min |-> min, max |-> max]

\* The first numbers of parts of 1..n: all ways to divide n rows or columns.
Divisions(n) == {S \in SUBSET (1 .. n) : 1 \in S}
PartLength(S, n, i) == Min({j \in S : j > i} \cup {n + 1}) - i

Bodies(first, even, odd) == [first |-> first, even |-> even, odd |-> odd]

(* A column of spanning cells, each this much taller than its rows, beside *)
(* a column of one cell per row.                                           *)
PageCells(heights_, S, extra) ==
  {Cell(r, 2, 1, 1, 1, 1, heights_[r]) : r \in DOMAIN heights_}
  \cup {Cell(r, 1, PartLength(S, Len(heights_), r), 1, 1, 1,
            IF PartLength(S, Len(heights_), r) = 1 THEN heights_[r]
            ELSE extra + SumOf(heights_, r .. r + PartLength(S, Len(heights_), r) - 1)) : r \in S}

RowShapes == {<<1, 1, 1, 1>>, <<2, 1, 1, 2>>, <<1, 3, 1, 1>>, <<1, 1, 2, 1, 1>>, <<1, 4, 0>>}
Spannings(n) == {S \in Divisions(n) : Cardinality(S) >= n - 2}

Policy(together, orphans, widows, keeps) ==
  [together |-> together, orphans |-> orphans, widows |-> widows, keeps |-> keeps]

Policies ==
  {Policy(TRUE, 0, 2, {}), Policy(TRUE, 1, 0, {3})}
  \cup {Policy(FALSE, o, w, k) : o \in {0, 2, 3}, w \in {1, 2, 3}, k \in {{}, {1, 2}, {2}, {2, 3}}}

(* What is on the rows: their heights, the first rows of the spanning      *)
(* cells, and what these need beyond their rows.                           *)
Layouts ==
  {l \in [shape: RowShapes, spans: SUBSET (1 .. 5), extra: {0, 1}] :
     /\ l.spans \in Spannings(Len(l.shape))
     /\ l.extra = 1 => Cardinality(l.spans) < Len(l.shape)}

CellsOf == [l \in Layouts |-> PageCells(l.shape, l.spans, l.extra)]

PageTable(shape, cells, headerRows, caption, policy, bodies) ==
  [columns |-> <<Column(FALSE, 0, 0, 0), Column(FALSE, 0, 0, 0)>>, width |-> 2,
   rows |-> Len(shape), headerRows |-> headerRows, cells |-> cells,
   caption |-> caption, keepTogether |-> policy.together, orphans |-> policy.orphans,
   widows |-> policy.widows, keepWithNext |-> [r \in DOMAIN shape |-> r \in policy.keeps],
   bodies |-> bodies]

PageTables(layouts, bodies) ==
  {PageTable(l.shape, CellsOf[l], h, c, p, b) :
     l \in layouts, h \in {0, 1}, c \in {0, 1}, p \in Policies, b \in bodies}

(* Two rows of cells over three columns, no cell of which is as tall as    *)
(* its page; the width is enough for some.                                 *)
Columns ==
  {Column(TRUE, 2, 0, 0), Column(FALSE, 0, 1, 0), Column(FALSE, 0, 0, 3), Column(FALSE, 0, 0, 1)}

RowCells(row, S, minWidth, preferred) ==
  {Cell(row, c, 1, PartLength(S, 3, c), minWidth, preferred, 1) : c \in S}

WidthTable(columns, S, T, minima, preferred, width) ==
  [columns |-> columns, width |-> width, rows |-> 2, headerRows |-> 0,
   cells |-> RowCells(1, S, minima[1], preferred) \cup RowCells(2, T, minima[2], preferred),
   caption |-> 0, keepTogether |-> FALSE, orphans |-> 0, widows |-> 0,
   keepWithNext |-> <<FALSE, FALSE>>, bodies |-> Bodies(3, 3, 3)]

WidthTables ==
  {WidthTable(c, S, T, m, p, w) :
     c \in [1 .. 3 -> Columns], S \in Divisions(3), T \in Divisions(3),
     m \in {<<1, 1>>, <<2, 1>>, <<4, 2>>, <<0, 3>>}, p \in {4}, w \in {6, 8}}

(* An overlap, a gap, a span that leaves the grid, one that leaves the     *)
(* header, an empty span, and more orphans than rows.                      *)
Plain == PageTable(<<1, 1>>, PageCells(<<1, 1>>, {1, 2}, 0), 0, 0, Policy(FALSE, 0, 0, {}), Bodies(3, 3, 3))
BadTables ==
  {[Plain EXCEPT !.cells = @ \cup {Cell(1, 1, 2, 1, 1, 1, 1)}],
   [Plain EXCEPT !.cells = {Cell(1, 1, 2, 1, 1, 1, 1)}],
   [Plain EXCEPT !.cells = {Cell(1, 1, 3, 2, 1, 1, 1)}],
   [Plain EXCEPT !.cells = {Cell(1, 1, 2, 2, 1, 1, 1)}, !.headerRows = 1],
   [Plain EXCEPT !.cells = @ \cup {Cell(1, 1, 0, 1, 1, 1, 1)}],
   [Plain EXCEPT !.orphans = 3]}

PagedTables == PageTables(Layouts, {Bodies(3, 3, 3), Bodies(3, 4, 2), Bodies(4, 4, 4)})

\* Some need more pages than there may be.
LongTables == PageTables({l \in Layouts : Len(l.shape) = 5 /\ l.extra = 0}, {Bodies(2, 2, 2)})

MCTables == {PagedTables, LongTables, WidthTables, BadTables}
=============================================================================

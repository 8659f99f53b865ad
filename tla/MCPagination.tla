----------------------------- MODULE MCPagination -----------------------------
(***************************************************************************)
(* Documents of a few short blocks on bodies of two to four units.         *)
(***************************************************************************)
EXTENDS PagedDocument, SequencesExt

Sum2(a, b) == a + b

(* A paragraph of lines with these heights.                                *)
Lines(kind, heights, orphans, widows, keepTogether, keepWithNext) ==
  [kind |-> kind, lines |-> Len(heights),
   bottom |-> [k \in 0 .. Len(heights) |-> FoldLeft(Sum2, 0, SubSeq(heights, 1, k))],
   orphans |-> orphans, widows |-> widows,
   keepTogether |-> keepTogether, keepWithNext |-> keepWithNext]

Text(heights, orphans, widows) == Lines("text", heights, orphans, widows, FALSE, FALSE)
Heading == Lines("text", <<1>>, 1, 1, FALSE, TRUE)
Kept == Lines("text", <<1, 1, 1>>, 1, 1, TRUE, FALSE)
Box(height, keepTogether) == Lines("box", <<height>>, 1, 1, keepTogether, FALSE)
Canvas(height) == Lines("canvas", <<height>>, 1, 1, TRUE, FALSE)
Break == Lines("break", <<1>>, 1, 1, FALSE, FALSE)

Blocks ==
  {Heading, Kept, Break, Text(<<1>>, 1, 1), Text(<<1, 1, 1, 1>>, 2, 2),
   Text(<<1, 1, 1, 1, 1>>, 3, 1), Text(<<1, 2, 1, 2>>, 1, 2), Text(<<4>>, 1, 1),
   Text(<<1, 4, 1, 1>>, 2, 2), Box(2, TRUE), Box(3, FALSE), Canvas(2)}

Bodies(first, even, odd) == [first |-> first, even |-> even, odd |-> odd]

Ranges(blocks) ==
  {[first |-> i, last |-> j] : i \in 1 .. Len(blocks), j \in 1 .. Len(blocks)}

Groups(blocks) ==
  {g \in Ranges(blocks) : g.first < g.last /\ \A i \in g.first .. g.last : blocks[i].kind # "break"}

Bodied(sequences, bodies) ==
  {[blocks |-> b, groups |-> {}, bodies |-> x] : b \in sequences, x \in bodies}

Grouped(sequences, bodies) ==
  UNION {[blocks : {b}, groups : {{g} : g \in Groups(b)}, bodies : bodies] : b \in sequences}

(* Longer documents of fewer shapes.                                       *)
FewShapes == {Heading, Break, Text(<<1, 1, 1>>, 2, 2), Text(<<1, 1, 1, 1, 1>>, 1, 2), Canvas(2)}

FourBlocks == [1 .. 4 -> FewShapes]

PassDocuments ==
  Bodied(BoundedSeq(Blocks, 3) \ {<<>>}, {Bodies(2, 4, 3), Bodies(4, 3, 2)})
  \cup Grouped(BoundedSeq(Blocks, 3) \ {<<>>}, {Bodies(4, 4, 4), Bodies(5, 5, 5)})
  \cup Bodied(FourBlocks, {Bodies(4, 4, 4), Bodies(3, 4, 5)})
  \cup Grouped(FourBlocks, {Bodies(5, 5, 5)})

(* The bodies of a document whose headers and footers do not depend on the *)
(* total, and of some whose do: one line more for a total of two or more,  *)
(* for a total of three, and one line less for a total of two.             *)
Steady(bodies) == [t \in 1 .. MaxTotal |-> bodies]
Varying ==
  {<<Bodies(4, 4, 4), Bodies(3, 3, 3), Bodies(3, 3, 3)>>,
   <<Bodies(4, 4, 4), Bodies(4, 4, 4), Bodies(3, 4, 4)>>,
   <<Bodies(4, 4, 4), Bodies(5, 5, 5), Bodies(4, 4, 4)>>}
MCShells ==
  {Steady(b) : b \in {Bodies(2, 4, 3), Bodies(4, 3, 2), Bodies(3, 4, 5), Bodies(4, 4, 4), Bodies(5, 5, 5)}}
  \cup Varying

(* Two headings and a paragraph that is as tall as a page.                 *)
HeadingDocuments ==
  Bodied({<<Text([k \in 1 .. n |-> 1], 1, 1), Heading, Heading, Text([k \in 1 .. m |-> 1], 2, 1)>> :
            n \in 1 .. 4, m \in 1 .. 8},
         {Bodies(5, 5, 5)})
=============================================================================

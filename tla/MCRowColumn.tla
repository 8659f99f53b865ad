----------------------------- MODULE MCRowColumn -----------------------------
(***************************************************************************)
(* Small containers: some for the sizes on the main axis, without free     *)
(* space to place, some for the placement, and authored ones on a body of  *)
(* eight by six.                                                           *)
(***************************************************************************)
EXTENDS MeasuredContainer

Track(kind, basis, min, max, grow, shrink, cross, crossMin, crossMax, align) ==
  [kind |-> kind, basis |-> basis, min |-> min, max |-> max, grow |-> grow, shrink |-> shrink,
   cross |-> cross, crossMin |-> crossMin, crossMax |-> crossMax, align |-> align]

Sizing(kind, basis, min, max, grow, shrink) ==
  Track(kind, basis, min, max, grow, shrink, 1, 0, 0, "start")

SizingTracks ==
  {Sizing("fixed", 3, 0, 0, 0, 0), Sizing("auto", 0, 2, 0, 0, 0),
   Sizing("fraction", 0, 1, 0, 1, 0), Sizing("fraction", 0, 0, 0, 2, 0),
   Sizing("flex", 0, 1, 2, 2, 1), Sizing("flex", 0, 2, 0, 1, 1),
   Sizing("flex", 4, 3, 0, 0, 1), Sizing("flex", 4, 1, 0, 1, 2), Sizing("flex", 4, 1, 5, 1, 1),
   Sizing("flex", 4, 3, 2, 1, 1), Sizing("flex", 5, 1, 6, 2, 0)}

Container(children, main, cross, gap, crossGap, wrap, justify, content, reverse) ==
  [children |-> children, main |-> main, cross |-> cross, gap |-> gap, crossGap |-> crossGap,
   wrap |-> wrap, justify |-> justify, content |-> content, reverse |-> reverse]

SizedContainers(n, tracks, rooms) ==
  {Container(c, m, 4, g, 0, w, "start", "start", FALSE) :
     c \in [1 .. n -> tracks], m \in rooms, g \in {0, 1}, w \in {"nowrap", "wrap"}}

PlacedTracks ==
  {Track("fixed", 2, 0, 0, 0, 0, 1, 0, 0, "end"), Track("fixed", 3, 0, 0, 0, 0, 3, 0, 2, "center"),
   Track("fixed", 1, 0, 0, 0, 0, 2, 3, 0, "start"), Track("fixed", 1, 2, 0, 0, 0, 1, 0, 0, "end"),
   Track("fixed", 2, 0, 0, 0, 0, 1, 0, 2, "stretch"),
   Track("fixed", 3, 0, 0, 0, 0, 1, 3, 0, "stretch")}

Spreads == {"start", "center", "end", "space-between", "space-around", "space-evenly"}

PlacedContainers ==
  {Container(c, m, h, 1, 1, w, p[1], p[2], r) :
     c \in [1 .. 3 -> PlacedTracks], m \in {5, 9}, h \in {2, 8}, w \in Wraps,
     p \in {<<j, j>> : j \in Spreads} \cup {<<"end", "stretch">>, <<"space-around", "end">>},
     r \in BOOLEAN}

MCContainers == {SizedContainers(3, SizingTracks, {4, 9, 14}), PlacedContainers}

(* Text of this many units breaks into lines as wide as its box.           *)
Content(kind, least, most, Height(_)) ==
  [kind |-> kind, least |-> least, most |-> most,
   heights |-> [w \in 1 .. 8 |-> IF Height(w) \in 1 .. 6 THEN Height(w) ELSE 0]]

Words(least, most) == Content("text", least, most, LAMBDA w : (most + w - 1) \div w)
Picture(width) == Content("image", width, width, LAMBDA w : IF w < width THEN w ELSE width)
Grid == Content("table", 2, 8, LAMBDA w : IF w < 2 THEN 0 ELSE 2)

Authoring(kind, basis, min, max, grow, crossSize, crossMax, align, content) ==
  [kind |-> kind, basis |-> basis, min |-> min, max |-> max, grow |-> grow, shrink |-> 1,
   crossSize |-> crossSize, crossMin |-> 0, crossMax |-> crossMax, align |-> align,
   content |-> content]

Items ==
  {Authoring("fixed", 3, 0, 0, 0, 0, 0, "stretch", Words(2, 16)),
   Authoring("fixed", 2, 0, 0, 0, 0, 0, "center", Picture(2)),
   Authoring("flex", 0, 0, 0, 1, 0, 0, "start", Words(2, 7)),
   Authoring("flex", 4, 2, 6, 0, 0, 0, "stretch", Words(1, 4)),
   Authoring("flex", 2, 0, 0, 1, 3, 0, "end", Words(1, 5)),
   Authoring("fraction", 0, 1, 0, 1, 0, 0, "stretch", Grid),
   Authoring("auto", 0, 0, 0, 0, 4, 0, "center", Words(3, 3)),
   Authoring("auto", 0, 2, 0, 0, 0, 1, "stretch", Words(1, 6))}

AuthoredContainers ==
  {[direction |-> d, items |-> i, width |-> 8, height |-> 6, gap |-> g, crossGap |-> 1,
    wrap |-> w, crossSize |-> x, justify |-> j, content |-> c, reverse |-> FALSE] :
     d \in {"row", "column"}, i \in [1 .. 3 -> Items], g \in {0, 1}, w \in Wraps,
     x \in {0, 5}, j \in {"start", "space-between"}, c \in {"start", "stretch"}}

MCAuthored == {AuthoredContainers}
=============================================================================

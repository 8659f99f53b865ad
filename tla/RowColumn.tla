------------------------------ MODULE RowColumn ------------------------------
(***************************************************************************)
(* The planner of one row or column (internal/layoutengine/row_column.go   *)
(* and row_column_wrap.go): children are formed into lines, the main sizes *)
(* of each line are resolved, flexible ones by freezing at a bound and     *)
(* sharing out again, and the children are placed.                         *)
(*                                                                         *)
(* A container is its `children`, the room on the `main` and the `cross`   *)
(* axis, the gaps and the alignments.  A child has a track `kind`; `basis` *)
(* is the size of a fixed track and the flex basis of a flexible one, and  *)
(* `grow` the weight of a fraction.  Percentages are resolved: `min` is    *)
(* the largest of the authored and the measured minimum, `max` is 0 when   *)
(* there is none.  Positions are relative to the region.  The limits on    *)
(* work and state are left out.                                            *)
(***************************************************************************)
EXTENDS Integers, Sequences, FiniteSets, FiniteSetsExt

CONSTANT Containers   \* sets of containers

Kinds == {"fixed", "auto", "fraction", "flex"}
Wraps == {"nowrap", "wrap", "wrap-reverse"}

\* What the types and validateRowColumnChild say of a child.
IsChild(child) ==
  /\ child.kind \in Kinds
  /\ {child.basis, child.min, child.max, child.grow, child.shrink} \subseteq Nat
  /\ {child.cross, child.crossMin, child.crossMax} \subseteq Nat
  /\ child.kind = "fraction" => child.grow > 0
  /\ child.crossMax > 0 => child.crossMin <= child.crossMax

IsContainer(c) ==
  /\ Len(c.children) \in Nat \ {0} /\ DOMAIN c.children = 1 .. Len(c.children)
  /\ \A i \in DOMAIN c.children : IsChild(c.children[i])
  /\ {c.main, c.cross, c.gap, c.crossGap} \subseteq Nat /\ c.wrap \in Wraps

ASSUME ContainersAreAuthored == \A C \in Containers : \A c \in C : IsContainer(c)

VARIABLES
  input,    \* the container
  lines,    \* its lines: the first child, their number, the cross size
  line,     \* the number of the line that is sized
  sizes,    \* the main sizes so far
  active,   \* the children that may still flex
  round,    \* rounds of sharing so far
  stage,
  boxes     \* where the children are

rowVars == <<input, lines, line, sizes, active, round, stage, boxes>>

Begun(container) ==
  /\ input = container
  /\ lines = <<>> /\ line = 0
  /\ sizes = [i \in DOMAIN container.children |-> 0]
  /\ active = {} /\ round = 0
  /\ stage = "forming" /\ boxes = <<>>

RowInit == \E C \in Containers : \E container \in C : Begun(container)

\* Another container is planned.
Begin(container) ==
  /\ input' = container
  /\ lines' = <<>> /\ line' = 0
  /\ sizes' = [i \in DOMAIN container.children |-> 0]
  /\ active' = {} /\ round' = 0
  /\ stage' = "forming" /\ boxes' = <<>>

Child(i) == input.children[i]
Larger(a, b) == IF a > b THEN a ELSE b

\* A maximum wins over a minimum, and 0 is none.
Clamp(size, min, max) ==
  IF max > 0 /\ Larger(size, min) > max THEN max ELSE Larger(size, min)

Total(f, S) == MapThenSumSet(LAMBDA i : f[i], S)

-----------------------------------------------------------------------------
(* Lines.  A child starts the next line when its basis does not fit.       *)
WrapBasis(child) ==
  CASE child.kind = "fixed" -> child.basis
    [] child.kind = "flex"  -> Clamp(child.basis, child.min, child.max)
    [] OTHER                -> child.min

CrossExtent(child, available, stretch) ==
  Clamp(IF stretch THEN available ELSE child.cross, child.crossMin, child.crossMax)

Line(start, count, cross) == [start |-> start, count |-> count, cross |-> cross]

InLine(l) == l.start .. l.start + l.count - 1

\* What the children of a line need on the main axis, with the gaps.
Bases(l) ==
  Total([i \in DOMAIN input.children |-> WrapBasis(Child(i))], InLine(l)) + input.gap * (l.count - 1)

(* Mutant: the gap before a child is not counted.                          *)
FitsWithoutGap(used, basis) == used + basis <= input.main

Fits(used, basis) == used + input.gap + basis <= input.main

LastLine == lines[Len(lines)]

NextChild == IF lines = <<>> THEN 1 ELSE LastLine.start + LastLine.count

(* One child joins the last line or begins another one.                    *)
AddToLines ==
  LET i      == NextChild
      extent == CrossExtent(Child(i), input.cross, FALSE)
  IN
  /\ stage = "forming" /\ input.wrap # "nowrap" /\ i <= Len(input.children)
  /\ lines' = IF lines # <<>> /\ Fits(Bases(LastLine), WrapBasis(Child(i)))
              THEN [lines EXCEPT ![Len(lines)] =
                      Line(@.start, @.count + 1, Larger(@.cross, extent))]
              ELSE Append(lines, Line(i, 1, extent))
  /\ UNCHANGED <<input, line, sizes, active, round, stage, boxes>>

FormLines ==
  /\ stage = "forming"
  /\ \/ input.wrap = "nowrap" /\ lines' = <<Line(1, Len(input.children), input.cross)>>
     \/ input.wrap # "nowrap" /\ NextChild > Len(input.children) /\ lines' = lines
  /\ line' = 1 /\ stage' = "sizing"
  /\ UNCHANGED <<input, sizes, active, round, boxes>>
-----------------------------------------------------------------------------
(* Main sizes of one line.                                                 *)
Room(l) == input.main - input.gap * (l.count - 1)

OfKind(l, kind) == {i \in InLine(l) : Child(i).kind = kind}

InitialSize(child) ==
  CASE child.kind = "fixed" -> child.basis
    [] child.kind = "flex"  -> Clamp(child.basis, child.min, child.max)
    [] OTHER                -> child.min

\* Flexible children come before fractions, and each in its order.
Precedes(i, j) == IF Child(i).kind = Child(j).kind THEN i < j ELSE Child(i).kind = "flex"

(* Shares of an amount by weight; the indivisible rest goes to the first.  *)
Shares(amount, weights) ==
  LET those    == DOMAIN weights
      all      == Total(weights, those)
      floor    == [i \in those |-> (amount * weights[i]) \div all]
      rest     == amount - Total(floor, those)
      place(i) == Cardinality({j \in those : Precedes(j, i)})
  IN [i \in those |-> floor[i] + (IF place(i) < rest THEN 1 ELSE 0)]

\* The sizes with an amount shared out over some children.
WithShares(base, weights, amount) ==
  [i \in DOMAIN base |->
     IF i \in DOMAIN weights THEN base[i] + Shares(amount, weights)[i] ELSE base[i]]

(* The initial sizes of the current line; without flexible children the    *)
(* fractions, or else the automatic tracks, share what is left.            *)
SizeLine ==
  LET l     == lines[line]
      first == [i \in DOMAIN sizes |-> IF i \in InLine(l) THEN InitialSize(Child(i)) ELSE sizes[i]]
      left  == Room(l) - Total(first, InLine(l))
      flexes    == OfKind(l, "flex")
      fractions == OfKind(l, "fraction")
      autos     == OfKind(l, "auto")
      tooSmall  == \E i \in OfKind(l, "fixed") : Child(i).basis < Child(i).min
  IN
  /\ stage = "sizing" /\ line <= Len(lines)
  /\ IF Room(l) < 0 \/ tooSmall \/ (left < 0 /\ flexes = {})
     THEN stage' = "overflow" /\ UNCHANGED <<sizes, active, round, line>>
     ELSE IF flexes # {}
     THEN /\ sizes' = first /\ active' = flexes \cup fractions /\ round' = 0
          /\ stage' = "flexing" /\ UNCHANGED line
     ELSE /\ sizes' = CASE left > 0 /\ fractions # {} ->
                             WithShares(first, [i \in fractions |-> Child(i).grow], left)
                        [] left > 0 /\ fractions = {} /\ autos # {} ->
                             WithShares(first, [i \in autos |-> 1], left)
                        [] OTHER -> first
          /\ line' = line + 1 /\ UNCHANGED <<active, round, stage>>
  /\ UNCHANGED <<input, lines, boxes>>

(* The factor of a child: a fraction never shrinks, and a flexible child   *)
(* shrinks in proportion to its unclamped basis.                           *)
Weight(child, growing) ==
  CASE growing                              -> child.grow
    [] ~growing /\ child.kind = "fraction"  -> 0
    [] ~growing /\ child.kind # "fraction"  -> child.shrink * child.basis

(* Mutant: a share is not held to the bounds of its child.                 *)
Unbounded(child, size) == size

Bounded(child, size) ==
  Clamp(size, child.min, IF child.kind = "flex" THEN child.max ELSE 0)

Free == Room(lines[line]) - Total(sizes, InLine(lines[line]))

LineIsSized ==
  /\ line' = line + 1 /\ active' = {} /\ round' = 0 /\ stage' = "sizing"
  /\ UNCHANGED sizes

(* One round: share what is free over the children that may still flex;    *)
(* those that reach a bound are frozen and the next round shares the rest. *)
(* The number of rounds is compared with the children left.                *)
ShareOnce ==
  LET free         == Free
      participants == {i \in active : Weight(Child(i), free > 0) > 0}
      shares       == Shares(IF free > 0 THEN free ELSE -free,
                             [i \in participants |-> Weight(Child(i), free > 0)])
      wanted(i)    == IF free > 0 THEN sizes[i] + shares[i] ELSE sizes[i] - shares[i]
      next         == [i \in DOMAIN sizes |->
                         IF i \in participants THEN Bounded(Child(i), wanted(i)) ELSE sizes[i]]
      unfrozen     == {i \in participants : next[i] = wanted(i)}
  IN
  IF participants = {}
  THEN IF free < 0 THEN stage' = "overflow" /\ UNCHANGED <<line, sizes, active, round>>
                   ELSE LineIsSized
  ELSE /\ sizes' = next
       /\ IF unfrozen = participants
          THEN /\ line' = line + 1 /\ active' = {} /\ round' = 0
               /\ stage' = "sizing"
          ELSE /\ active' = unfrozen /\ round' = round + 1
               /\ UNCHANGED <<line, stage>>

FreezeRound ==
  /\ stage = "flexing"
  /\ CASE round > Cardinality(active) -> stage' = "refused" /\ UNCHANGED <<line, sizes, active, round>>
       [] round <= Cardinality(active) /\ Free = 0 -> LineIsSized
       [] OTHER -> ShareOnce
  /\ UNCHANGED <<input, lines, boxes>>
-----------------------------------------------------------------------------
(* Placement.  Slots divide space evenly, the first ones one unit larger.  *)
EvenSlots(total, count) ==
  [k \in 1 .. count |-> total \div count + (IF k <= total % count THEN 1 ELSE 0)]

\* What goes before the first of n things and between them.
Justified(justify, n, free) ==
  LET none   == [k \in 1 .. n - 1 |-> 0]
      around == EvenSlots(free, 2 * n)
      evenly == EvenSlots(free, n + 1)
  IN CASE justify = "center" -> [leading |-> EvenSlots(free, 2)[1], gaps |-> none]
       [] justify = "end"    -> [leading |-> free, gaps |-> none]
       [] justify = "space-between" /\ n > 1 -> [leading |-> 0, gaps |-> EvenSlots(free, n - 1)]
       [] justify = "space-around" ->
            [leading |-> around[1],
             gaps |-> [k \in 1 .. n - 1 |-> around[2 * k] + around[2 * k + 1]]]
       [] justify = "space-evenly" ->
            [leading |-> evenly[1], gaps |-> [k \in 1 .. n - 1 |-> evenly[k + 1]]]
       [] OTHER -> [leading |-> 0, gaps |-> none]

\* Where things of these sizes begin.
Offsets(extents, gap, spread) ==
  [k \in DOMAIN extents |->
     spread.leading + Total([j \in 1 .. k - 1 |-> extents[j] + gap + spread.gaps[j]], 1 .. k - 1)]

UsedMain(l) == Total(sizes, InLine(l)) + input.gap * (l.count - 1)

LineCrosses == [n \in DOMAIN lines |-> lines[n].cross]

RequiredCross == Total(LineCrosses, DOMAIN lines) + input.crossGap * (Len(lines) - 1)

(* The cross sizes and offsets of the lines after align-content and        *)
(* wrap-reverse; a line that does not wrap has the whole cross axis.       *)
PlacedLines ==
  LET free    == input.cross - RequiredCross
      stretch == input.content = "stretch"
      growth  == EvenSlots(free, Len(lines))
      extents == [n \in DOMAIN lines |-> lines[n].cross + (IF stretch THEN growth[n] ELSE 0)]
      starts  == Offsets(extents, input.crossGap,
                         Justified(IF stretch THEN "start" ELSE input.content, Len(lines), free))
  IN IF input.wrap = "nowrap" THEN <<[cross |-> 0, extent |-> input.cross]>>
     ELSE [n \in DOMAIN lines |->
             [extent |-> extents[n],
              cross |-> IF input.wrap = "wrap-reverse"
                        THEN input.cross - starts[n] - extents[n] ELSE starts[n]]]

(* Mutant: the mirrored position does not leave room for the child.        *)
MirrorStart(offset, size) == IF input.reverse THEN input.main - offset ELSE offset

Mirror(offset, size) == IF input.reverse THEN input.main - offset - size ELSE offset

\* The first part of the free cross space, by the alignment of the child.
CrossOffset(align, free) ==
  CASE align = "center" -> free \div 2 [] align = "end" -> free [] OTHER -> 0

LineOf(i) ==
  CHOOSE n \in DOMAIN lines : i \in InLine(lines[n])

ExtentIn(placedLines, i) ==
  CrossExtent(Child(i), placedLines[LineOf(i)].extent, Child(i).align = "stretch")

MainOffsets ==
  [n \in DOMAIN lines |->
     LET l == lines[n]
     IN Offsets([k \in 1 .. l.count |-> sizes[l.start + k - 1]], input.gap,
                Justified(input.justify, l.count, input.main - UsedMain(l)))]

(* A stretched child is not compared with its line.                        *)
Place ==
  LET placedLines == PlacedLines
      offsets     == MainOffsets
      overflows(i) == /\ Child(i).align # "stretch"
                      /\ ExtentIn(placedLines, i) > placedLines[LineOf(i)].extent
  IN
  /\ stage = "sizing" /\ line > Len(lines)
  /\ IF \/ input.wrap # "nowrap" /\ RequiredCross > input.cross
        \/ \E i \in DOMAIN sizes : overflows(i)
     THEN stage' = "overflow" /\ UNCHANGED boxes
     ELSE /\ stage' = "planned"
          /\ boxes' = [i \in DOMAIN sizes |->
               LET n == LineOf(i)
                   extent == ExtentIn(placedLines, i)
               IN [main |-> Mirror(offsets[n][i - lines[n].start + 1], sizes[i]),
                   size |-> sizes[i],
                   cross |-> placedLines[n].cross
                             + (IF Child(i).align = "stretch" THEN 0
                                ELSE CrossOffset(Child(i).align, placedLines[n].extent - extent)),
                   extent |-> extent]]
  /\ UNCHANGED <<input, lines, line, sizes, active, round>>

Done == stage \in {"planned", "overflow", "refused"} /\ UNCHANGED rowVars

Step == AddToLines \/ FormLines \/ SizeLine \/ FreezeRound \/ Place

RowNext == Step \/ Done

RowSpec == RowInit /\ [][RowNext]_rowVars
-----------------------------------------------------------------------------
(* Children are in lines in their order, none is left out, a line is       *)
(* within the room unless it has one child, and the next child would not   *)
(* have fitted.  A line that is sized is within its room, and room stays   *)
(* free only when no child could take more of it.                          *)
LinesAreGreedy ==
  stage # "forming" =>
    /\ lines # <<>> /\ lines[1].start = 1 /\ NextChild = Len(input.children) + 1
    /\ \A n \in DOMAIN lines :
         /\ lines[n].count > 0
         /\ n > 1 => lines[n].start = lines[n - 1].start + lines[n - 1].count
    /\ input.wrap # "nowrap" =>
         \A n \in DOMAIN lines :
           /\ Bases(lines[n]) > input.main => lines[n].count = 1
           /\ n < Len(lines) =>
                Bases(lines[n]) + input.gap + WrapBasis(Child(lines[n + 1].start)) > input.main

Sated(child, size, flexible) ==
  CASE child.kind = "fixed"    -> TRUE
    [] child.kind = "auto"     -> flexible
    [] child.kind = "fraction" -> FALSE
    [] OTHER -> child.grow = 0 \/ size = child.max

RoomIsTaken ==
  \A n \in 1 .. line - 1 :
    LET l == lines[n]
        left == Room(l) - Total(sizes, InLine(l))
        flexible == OfKind(l, "flex") # {}
    IN /\ left >= 0
       /\ left > 0 => \A i \in InLine(l) : Sated(Child(i), sizes[i], flexible)

(* Sharing never leaves a child outside its bounds, although a round adds  *)
(* to what earlier rounds gave.                                            *)
Sized(i) == \E n \in DOMAIN lines :
  /\ i \in InLine(lines[n])
  /\ n < line \/ (n = line /\ stage = "flexing")

InBounds(child, size) ==
  /\ child.kind = "fixed" => size = child.basis
  /\ child.kind # "flex" => size >= child.min
  /\ child.kind = "flex" => /\ child.max > 0 => size <= child.max
                            /\ size >= child.min \/ size = child.max

SizesInBounds == \A i \in DOMAIN sizes : Sized(i) => InBounds(Child(i), sizes[i])

(* A container is refused for lack of room only if its children do not fit *)
(* when each has its smallest size.                                        *)
Smallest(child) ==
  CASE child.kind = "fixed" -> child.basis
    [] child.kind = "flex"  -> Clamp(IF child.shrink > 0 THEN 0 ELSE child.basis, child.min, child.max)
    [] OTHER -> child.min

TooNarrow(l) == Total([i \in DOMAIN sizes |-> Smallest(Child(i))], InLine(l)) > Room(l)

FixedTooSmall(child) == child.kind = "fixed" /\ child.basis < child.min

OverflowIsDeserved ==
  stage = "overflow" =>
    \/ \E n \in DOMAIN lines : TooNarrow(lines[n])
    \/ \E i \in DOMAIN sizes : FixedTooSmall(Child(i))
    \/ input.wrap # "nowrap" /\ RequiredCross > input.cross
    \/ \E i \in DOMAIN sizes : CrossExtent(Child(i), input.cross, FALSE) > input.cross

(* A line takes what it has room for, and all of that room.                *)
LinesAreFilled == LinesAreGreedy /\ RoomIsTaken /\ OverflowIsDeserved

(* Children of a line do not overlap, nor do lines, and all are in the     *)
(* region, however the free space is spread and whatever is mirrored.  A   *)
(* stretched child of a container that does not wrap may be taller than    *)
(* it: its minimum is not compared with the region.                        *)
Apart(a, sizeA, b, sizeB) == a + sizeA <= b \/ b + sizeB <= a

BoxesApart ==
  stage = "planned" =>
    \A i, j \in DOMAIN boxes :
      LET a == boxes[i]
          b == boxes[j]
      IN /\ a.main >= 0 /\ a.main + a.size <= input.main /\ a.cross >= 0
         /\ (Child(i).align # "stretch" \/ input.wrap # "nowrap") => a.cross + a.extent <= input.cross
         /\ i < j => IF LineOf(i) = LineOf(j)
                     THEN IF input.reverse THEN b.main + b.size <= a.main ELSE a.main + a.size <= b.main
                     ELSE Apart(a.cross, a.extent, b.cross, b.extent)

(* "Min/max constraints freeze an item and the remainder is recomputed":   *)
(* sharing ends with sizes or with a lack of room.                         *)
FreezingEnds == stage # "refused"
=============================================================================

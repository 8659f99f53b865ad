-------------------------- MODULE MeasuredContainer --------------------------
(***************************************************************************)
(* How an authored row or column is planned (document/paper_row_column.go, *)
(* planPaperRowColumnMapped).  What a child needs is known only when its   *)
(* text, image or table is laid out at some width, and the width is known  *)
(* only when the container is planned.  A row is therefore planned twice:  *)
(* a probe resolves the widths, the children are measured at them, and the *)
(* plan proper is made with the heights.  A column is measured first; one  *)
(* that wraps and has no width of its own is probed for its width.         *)
(*                                                                         *)
(* Each planning is a run of RowColumn.  A child's content says how high   *)
(* it becomes at every width, 0 when it cannot be laid out on one page,    *)
(* and how wide it is at least and at most.  Captions, links, nesting and  *)
(* the composition of the painted plan are left out.                       *)
(***************************************************************************)
EXTENDS RowColumn

CONSTANT Authored   \* sets of authored containers

IsContent(content, width) ==
  /\ content.kind \in {"text", "image", "table"}
  /\ content.heights \in [1 .. width -> Nat]
  /\ {content.least, content.most} \subseteq Nat /\ 0 < content.least /\ content.least <= content.most

\* An item becomes a child that the planner takes.
IsItem(item, width) ==
  /\ item.kind \in Kinds
  /\ {item.basis, item.min, item.max, item.grow, item.shrink} \subseteq Nat
  /\ {item.crossSize, item.crossMin, item.crossMax} \subseteq Nat
  /\ item.kind = "fraction" => item.grow > 0
  /\ item.crossMax > 0 => item.crossMin <= item.crossMax
  /\ IsContent(item.content, width)

ASSUME AuthoredAssumption ==
  \A A \in Authored : \A a \in A :
    /\ a.direction \in {"row", "column"} /\ a.wrap \in Wraps
    /\ {a.width, a.height} \subseteq Nat \ {0} /\ {a.gap, a.crossGap, a.crossSize} \subseteq Nat
    /\ Len(a.items) \in Nat \ {0} /\ DOMAIN a.items = 1 .. Len(a.items)
    /\ \A i \in DOMAIN a.items :
         /\ IsItem(a.items[i], a.width)
         /\ a.items[i].content.kind = "image" /\ a.direction = "column" => a.items[i].crossSize <= a.width

VARIABLES
  authored,   \* the container as compiled, with the body it is in
  phase,      \* "engine": a container planned without an authored one
  measured    \* the width and height of each child

authoredVars == <<authored, phase, measured>>

Phases == {"engine", "authored", "probe", "measure", "intrinsic", "final", "unsupported"}

IsRow == authored.direction = "row"
Wrapped == authored.wrap # "nowrap"
Item(i) == authored.items[i]

MeasuredInit ==
  \/ RowInit /\ phase = "engine" /\ authored = <<>> /\ measured = <<>>
  \/ /\ \E A \in Authored : authored \in A
     /\ phase = "authored" /\ measured = <<>>
     /\ Begun([children |-> <<>>])

Unsupported ==
  /\ phase' = "unsupported"
  /\ UNCHANGED <<rowVars, authored, measured>>

-----------------------------------------------------------------------------
(* The children as the planner of the container sees them.                 *)

\* A flexible child without a basis has that of its content.
ContentBasis(i) == Item(i).kind = "flex" /\ Item(i).basis = 0

MainNeed(i) ==
  IF ~ContentBasis(i) THEN [least |-> 0, preferred |-> 0]
  ELSE IF IsRow THEN [least |-> Item(i).content.least, preferred |-> Item(i).content.most]
  ELSE LET height == Item(i).content.heights[authored.width]
       IN [least |-> height, preferred |-> height]

ChildOf(i, need, cross) ==
  LET item == Item(i)
  IN [kind |-> item.kind, grow |-> item.grow, shrink |-> item.shrink, max |-> item.max,
      basis |-> IF ContentBasis(i) THEN MainNeed(i).preferred ELSE item.basis,
      min |-> Larger(item.min, need),
      cross |-> cross, crossMin |-> item.crossMin, crossMax |-> item.crossMax,
      align |-> item.align]

ContainerWith(children, cross, content) ==
  [children |-> children,
   main |-> IF IsRow THEN authored.width ELSE authored.height, cross |-> cross,
   gap |-> authored.gap, crossGap |-> authored.crossGap, wrap |-> authored.wrap,
   justify |-> authored.justify, content |-> content, reverse |-> authored.reverse]

BodyCross == IF IsRow THEN authored.height ELSE authored.width

Indices == DOMAIN authored.items

(* Sizes that cannot shrink, by what is authored alone.                    *)
AuthoredMinimum(item) ==
  CASE item.kind = "fixed" -> item.basis
    [] item.kind = "flex" /\ item.basis > 0 /\ item.shrink = 0 ->
         Larger(item.min, IF item.max > 0 /\ item.basis > item.max THEN item.max ELSE item.basis)
    [] OTHER -> item.min

AuthoredMainMinimum ==
  Total([i \in Indices |-> AuthoredMinimum(Item(i))], Indices)
  + authored.gap * (Len(authored.items) - 1)

\* Only text can be measured for a basis, and in a column on one page.
BasisMeasurable(i) ==
  ContentBasis(i) =>
    /\ Item(i).content.kind = "text"
    /\ ~IsRow => Item(i).content.heights[authored.width] > 0

Prepared ==
  /\ Wrapped /\ IsRow => authored.crossSize > 0
  /\ \A i \in Indices : BasisMeasurable(i)
  /\ ~Wrapped => AuthoredMainMinimum <= (IF IsRow THEN authored.width ELSE authored.height)

RejectAuthored == phase = "authored" /\ ~Prepared /\ Unsupported

(* A row is probed with children of no height.                             *)
ProbeRow ==
  /\ phase = "authored" /\ Prepared /\ IsRow
  /\ phase' = "probe"
  /\ Begin([ContainerWith([i \in Indices |-> ChildOf(i, MainNeed(i).least, 0)],
                          IF authored.crossSize > 0 THEN authored.crossSize ELSE BodyCross,
                          authored.content)
            EXCEPT !.justify = "start"])
  /\ UNCHANGED <<authored, measured>>

MeasureColumn ==
  /\ phase = "authored" /\ Prepared /\ ~IsRow
  /\ phase' = "measure"
  /\ UNCHANGED <<rowVars, authored, measured>>

-----------------------------------------------------------------------------
(* Measuring.                                                              *)

PlanStep ==
  /\ phase \in {"engine", "probe", "intrinsic", "final"}
  /\ Step
  /\ UNCHANGED authoredVars

\* A failed probe is the failure of the container.
ProbePlanned == phase = "probe" /\ stage = "planned"

MeasureRow ==
  /\ ProbePlanned
  /\ phase' = "measure"
  /\ UNCHANGED <<rowVars, authored, measured>>

ColumnWidth(i) ==
  CASE Item(i).crossSize > 0 -> Item(i).crossSize
    [] Item(i).crossSize = 0 /\ Wrapped /\ Item(i).content.kind = "text"
       /\ Item(i).content.most < authored.width -> Item(i).content.most
    [] OTHER -> authored.width

(* Mutant: children are measured at the widths they start from.            *)
BasisWidth(i) == IF IsRow THEN WrapBasis(input.children[i]) ELSE ColumnWidth(i)

MeasureWidth(i) == IF IsRow THEN sizes[i] ELSE ColumnWidth(i)

CanBeMeasured(i) ==
  /\ MeasureWidth(i) \in 1 .. authored.width
  /\ Item(i).content.heights[MeasureWidth(i)] > 0
  /\ (~IsRow /\ Wrapped /\ Item(i).crossSize = 0) => Item(i).content.kind = "text"

Measurement(i) == [width |-> MeasureWidth(i), height |-> Item(i).content.heights[MeasureWidth(i)]]

\* An image may be narrower than the width it is measured at.
FlowWidth(i) ==
  IF Item(i).content.kind = "image"
  THEN IF Item(i).content.most < MeasureWidth(i) THEN Item(i).content.most ELSE MeasureWidth(i)
  ELSE MeasureWidth(i)

MeasuredCross(i) ==
  IF IsRow THEN Measurement(i).height
  ELSE IF Wrapped \/ Item(i).content.kind # "text" THEN FlowWidth(i) ELSE authored.width

ExplicitFits(i) ==
  Item(i).crossSize > 0 =>
    Item(i).crossSize >= (IF IsRow THEN Measurement(i).height
                          ELSE IF Item(i).content.kind = "image" THEN FlowWidth(i) ELSE 0)

MeasuredChild(i) ==
  ChildOf(i, IF IsRow THEN MainNeed(i).least ELSE Measurement(i).height,
          IF Item(i).crossSize > 0 THEN Item(i).crossSize ELSE MeasuredCross(i))

Highest == Max({MeasuredChild(i).cross : i \in Indices})

Measurable ==
  /\ \A i \in Indices : CanBeMeasured(i)
  /\ \A i \in Indices : ExplicitFits(i)
  /\ authored.crossSize <= BodyCross
  /\ (IsRow /\ authored.crossSize = 0) => Highest <= authored.height

RegionCross ==
  CASE authored.crossSize > 0 -> authored.crossSize
    [] authored.crossSize = 0 /\ IsRow -> Highest
    [] OTHER -> BodyCross

Probed == ~IsRow /\ Wrapped /\ authored.crossSize = 0

\* The plan proper, or the probe for the width of a column.
PlanMeasured ==
  /\ phase = "measure" /\ Measurable
  /\ measured' = [i \in Indices |-> Measurement(i)]
  /\ Begin(ContainerWith([i \in Indices |-> MeasuredChild(i)], RegionCross,
                         IF Probed THEN "start" ELSE authored.content))
  /\ phase' = IF Probed THEN "intrinsic" ELSE "final"
  /\ UNCHANGED authored

RejectMeasured == phase = "measure" /\ ~Measurable /\ Unsupported

(* A column is as wide as its lines and the gaps between them.             *)
PlanIntrinsic ==
  /\ phase = "intrinsic" /\ stage = "planned"
  /\ Begin([input EXCEPT !.cross = RequiredCross, !.content = authored.content])
  /\ phase' = "final"
  /\ UNCHANGED <<authored, measured>>

Ended ==
  /\ \/ phase = "unsupported"
     \/ stage \in {"overflow", "refused"}
     \/ stage = "planned" /\ phase \in {"engine", "final"}
  /\ UNCHANGED <<rowVars, authoredVars>>

MeasuredNext ==
  \/ RejectAuthored \/ ProbeRow \/ MeasureColumn \/ PlanStep \/ MeasureRow
  \/ PlanMeasured \/ RejectMeasured \/ PlanIntrinsic \/ Ended

MeasuredSpec == MeasuredInit /\ [][MeasuredNext]_<<rowVars, authoredVars>>

-----------------------------------------------------------------------------
(* A child is placed at the width it was measured at, and its box holds    *)
(* what was measured unless a maximum says otherwise: the second planning  *)
(* of a row comes to the widths of the first, although it knows heights,   *)
(* and that of a column leaves every child its height.  Excepted is the    *)
(* cross size of a stretched child where the container does not wrap and   *)
(* has a cross size of its own: the child is given that size, whatever was *)
(* measured.                                                               *)
Complete == phase = "final" /\ stage = "planned"

HoldsCross(i, extent) ==
  \/ boxes[i].extent >= extent
  \/ Item(i).crossMax > 0 /\ boxes[i].extent = Item(i).crossMax
  \/ Item(i).align = "stretch" /\ ~Wrapped /\ authored.crossSize > 0

HeldByBoxes ==
  Complete =>
    \A i \in Indices :
      IF IsRow
      THEN boxes[i].size = measured[i].width /\ HoldsCross(i, measured[i].height)
      ELSE /\ boxes[i].size >= measured[i].height \/ boxes[i].size = Item(i).max
           /\ HoldsCross(i, IF Item(i).content.kind = "image"
                            THEN input.children[i].cross ELSE measured[i].width)

(* A column that wraps fits the width its probe has given it.              *)
IntrinsicWidthSuffices ==
  (phase = "final" /\ Probed) =>
    /\ stage # "overflow"
    /\ stage = "planned" => \A i \in Indices : boxes[i].cross + boxes[i].extent <= RequiredCross

ContentIsHeld == HeldByBoxes /\ IntrinsicWidthSuffices
=============================================================================

--------------------------- MODULE PaginationProofs ---------------------------
(***************************************************************************)
(* Proofs about the pagination of body blocks.  First what one answer of   *)
(* the paragraph fragmenter guarantees, for every paragraph, space and     *)
(* token; then, for every document on every choice of bodies, the type of  *)
(* the state, that no line is lost, repeated or moved, that a paragraph is *)
(* cut within its constraints or with a report, that every turn of the     *)
(* page is explained, that only tall content passes the bottom of a page,  *)
(* and that keep groups are kept; and all that again for a document whose  *)
(* body is paginated more than once, until it prints its own total.        *)
(***************************************************************************)
EXTENDS PagedDocument, WellFoundedInduction, FiniteSetTheorems, SequenceTheorems, TLAPS

(* The fragmenter.                                                         *)

IsParagraph(p) ==
  /\ p.lines \in Nat /\ p.orphans \in Nat \ {0} /\ p.widows \in Nat \ {0}
  /\ p.bottom \in [0 .. p.lines -> Nat]

IsToken(p, from) == from.next \in Nat /\ from.leading \in Nat /\ from.next < p.lines

IsSpace(space) ==
  space.available \in Nat /\ space.following \in Nat /\ space.empty \in BOOLEAN

(* Max is what its name says on the sets it is used with here: non-empty   *)
(* sets of numbers up to some bound.  The least n - c over the members c   *)
(* is at the greatest member.                                              *)
LEMMA MaxIsGreatest ==
  ASSUME NEW n \in Nat, NEW S \in SUBSET (0 .. n), S # {}
  PROVE  Max(S) \in S /\ \A c \in S : c <= Max(S)
<1> DEFINE T == {t \in 0 .. n : n - t \in S}
<1>1. T \in SUBSET Nat
  OBVIOUS
<1>2. T # {}
  <2>1. PICK c \in S : TRUE
    OBVIOUS
  <2>2. n - c \in 0 .. n /\ n - (n - c) = c
    OBVIOUS
  <2>. QED BY <2>1, <2>2
<1>3. PICK t \in T : \A u \in T : t <= u
  <2>1. PICK t \in T : \A u \in T : ~(<<u, t>> \in OpToRel(<, Nat))
    BY <1>1, <1>2, WFMin, NatLessThanWellFounded
  <2>2. \A u \in Nat : u < t => <<u, t>> \in OpToRel(<, Nat)
    <3> HIDE DEF T
    <3>1. t \in Nat
      BY <1>1
    <3>. QED BY <3>1, Zenon DEF OpToRel
  <2>3. \A u \in T : ~(u < t)
    <3> HIDE DEF T
    <3>. QED BY <1>1, <2>1, <2>2, Zenon
  <2>4. \A u \in T : u \in Nat /\ t \in Nat
    BY <1>1
  <2>5. \A u \in T : t <= u
    <3> HIDE DEF T
    <3>. QED BY <2>3, <2>4
  <2>. QED BY <2>5
<1>4. n - t \in S
  BY <1>3
<1>5. \A c \in S : n - t >= c
  <2> TAKE c \in S
  <2>1. n - c \in 0 .. n /\ n - (n - c) = c
    OBVIOUS
  <2>2. n - c \in T
    BY <2>1
  <2>3. t <= n - c /\ t \in 0 .. n /\ c \in 0 .. n
    BY <2>2, <1>3
  <2>. HIDE DEF T
  <2>. QED BY <2>3
<1>6. Max(S) \in S /\ \A c \in S : Max(S) >= c
  BY <1>4, <1>5, Zenon DEF Max
<1>7. \A c \in S : c \in 0 .. n /\ Max(S) \in 0 .. n
  BY <1>6
<1>. QED BY <1>6, <1>7

(* The fitting prefix is a number of the lines that are left, it fits, and *)
(* every number of lines that fits is at most it.                          *)
LEMMA FittingPrefixFits ==
  ASSUME NEW p, NEW space, NEW from, IsParagraph(p), IsSpace(space), IsToken(p, from)
  PROVE  /\ FittingPrefix(p, space, from) \in 0 .. Rest(p, from)
         /\ \A c \in 0 .. Rest(p, from) :
              Height(p, from.next, c) <= space.available => c <= FittingPrefix(p, space, from)
<1> DEFINE S == {c \in 0 .. Rest(p, from) : Height(p, from.next, c) <= space.available}
<1>1. Rest(p, from) \in Nat
  BY DEF Rest, IsParagraph, IsToken
<1>2. 0 \in S
  BY <1>1, SMTT(30) DEF Height, Rest, IsParagraph, IsToken, IsSpace
<1>3. S \in SUBSET (0 .. Rest(p, from)) /\ S # {}
  BY <1>2
<1>4. FittingPrefix(p, space, from) = Max(S)
  BY DEF FittingPrefix
<1>5. Max(S) \in S /\ \A c \in S : c <= Max(S)
  <2> HIDE DEF S
  <2>. QED BY <1>1, <1>3, MaxIsGreatest
<1>. QED BY <1>4, <1>5

-----------------------------------------------------------------------------
(* Splits are numbers of lines that leave some lines behind.               *)
LEMMA SplitsAreBounded ==
  ASSUME NEW p, NEW space, NEW from, IsParagraph(p), IsSpace(space), IsToken(p, from),
         NEW S \in {LegalSplits(p, space, from), SplitsPreservingWidows(p, space, from)},
         S # {}
  PROVE  Max(S) \in S /\ Max(S) \in 1 .. Rest(p, from)
<1>1. FittingPrefix(p, space, from) \in 0 .. Rest(p, from) /\ Rest(p, from) \in Nat
  BY FittingPrefixFits DEF Rest, IsParagraph, IsToken
<1>2. S \subseteq 1 .. FittingPrefix(p, space, from)
  BY DEF LegalSplits, SplitsPreservingWidows
<1>3. S \in SUBSET (0 .. Rest(p, from)) /\ S \subseteq 1 .. Rest(p, from)
  BY <1>1, <1>2
<1>4. Max(S) \in S
  BY <1>1, <1>3, MaxIsGreatest
<1>. QED BY <1>3, <1>4

(* The answers that place lines, and when each is given.                   *)
LEMMA PlacedCases ==
  ASSUME NEW p, NEW space, NEW from, IsParagraph(p), IsSpace(space), IsToken(p, from),
         FragmentContext(p, space, from).action = "place"
  PROVE  LET answer == FragmentContext(p, space, from)
             fit == FittingPrefix(p, space, from)
         IN \/ fit = 0 /\ space.empty /\ answer = OversizedLine(p, space, from)
            \/ fit > 0 /\ fit = Rest(p, from) /\ answer = WholeRest(p, from)
            \/ /\ fit > 0 /\ LegalSplits(p, space, from) # {}
               /\ answer = LegalSplit(p, space, from)
            \/ fit > 0 /\ space.empty /\ answer = RelaxedSplit(p, space, from)
<1>1. Deferred.action # "place"
  BY DEF Deferred
<1>. QED BY <1>1 DEF FragmentContext

(* Only a region that holds something already is left for the next one.    *)
THEOREM EmptyRegionsAreUsed ==
  ASSUME NEW p, NEW space, NEW from, IsParagraph(p), IsSpace(space), IsToken(p, from),
         FragmentContext(p, space, from).action = "defer"
  PROVE  ~space.empty
<1> DEFINE fit == FittingPrefix(p, space, from)
           legal == LegalSplits(p, space, from)
<1>1. fit \in 0 .. Rest(p, from) /\ Rest(p, from) \in Nat
  BY FittingPrefixFits DEF Rest, IsParagraph, IsToken
<1>2. /\ OversizedLine(p, space, from).action = "place"
      /\ WholeRest(p, from).action = "place"
      /\ LegalSplit(p, space, from).action = "place"
      /\ RelaxedSplit(p, space, from).action = "place"
  BY DEF OversizedLine, WholeRest, LegalSplit, RelaxedSplit, PlacedResult
<1>3. SUFFICES ASSUME space.empty PROVE FALSE
  BY DEF IsSpace
<1>4. CASE fit = 0
  BY <1>2, <1>3, <1>4 DEF FragmentContext
<1>5. CASE fit > 0 /\ fit = Rest(p, from)
  BY <1>2, <1>3, <1>5 DEF FragmentContext
<1>6. CASE fit > 0 /\ fit < Rest(p, from) /\ legal # {}
  BY <1>2, <1>3, <1>6 DEF FragmentContext
<1>7. CASE fit > 0 /\ fit < Rest(p, from) /\ legal = {}
  BY <1>2, <1>3, <1>7 DEF FragmentContext
<1>. QED BY <1>1, <1>4, <1>5, <1>6, <1>7

LEMMA PlacedFields ==
  ASSUME NEW p, NEW from, NEW count, NEW reason, NEW preserve, NEW orphans, NEW widows
  PROVE  LET answer == PlacedResult(p, from, count, reason, preserve, orphans, widows)
         IN /\ answer.count = count
            /\ answer.done = (count = Rest(p, from))
            /\ answer.next.next = from.next + count
            /\ answer.next.leading \in {p.widows, 1}
            /\ answer.height = Height(p, from.next, count)
            /\ answer.relaxedOrphans = orphans
            /\ answer.relaxedWidows = widows
BY DEF PlacedResult

(* What the two answers that may relax a constraint report.                *)
LEMMA RelaxedSplitReports ==
  ASSUME NEW p, NEW space, NEW from
  PROVE  LET answer == RelaxedSplit(p, space, from)
         IN /\ answer.count < p.orphans => answer.relaxedOrphans
            /\ answer.count < from.leading => answer.relaxedWidows
            /\ SplitsPreservingWidows(p, space, from) = {} => answer.relaxedWidows
<1> DEFINE answer == RelaxedSplit(p, space, from)
           splits == SplitsPreservingWidows(p, space, from)
           c == IF splits = {} THEN FittingPrefix(p, space, from) ELSE Max(splits)
           few == c < p.orphans
           broken == splits = {} \/ c < from.leading
<1>1. answer = PlacedResult(p, from, c, SplitReason(p, space, from, c), splits # {}, few, broken)
  BY DEF RelaxedSplit
<1>2. answer.count = c /\ answer.relaxedOrphans = few /\ answer.relaxedWidows = broken
  <2> HIDE DEF answer, splits, c, few, broken
  <2>. QED BY <1>1, PlacedFields
<1>. QED BY <1>2, Zenon

LEMMA OversizedLineReports ==
  ASSUME NEW p, NEW space, NEW from, Rest(p, from) > 1
  PROVE  LET answer == OversizedLine(p, space, from)
         IN /\ p.orphans > 1 => answer.relaxedOrphans
            /\ ~WidowsFollow(p, space, from, 1) => answer.relaxedWidows
<1> DEFINE answer == OversizedLine(p, space, from)
           more == Rest(p, from) > 1
           preserve == more => WidowsFollow(p, space, from, 1)
           few == more /\ p.orphans > 1
           broken == more /\ (from.leading > 1 \/ ~preserve)
<1>1. answer = PlacedResult(p, from, 1, "overflow", preserve, few, broken)
  BY DEF OversizedLine
<1>2. answer.relaxedOrphans = few /\ answer.relaxedWidows = broken
  <2> HIDE DEF answer, preserve, few, broken
  <2>. QED BY <1>1, PlacedFields
<1>. QED BY <1>2, Zenon

(* The answer takes at least one of the lines that are left, the token     *)
(* goes on right after them, and it is the last one when none is left.     *)
Advances(p, from, answer) ==
  /\ answer.count \in 1 .. Rest(p, from)
  /\ answer.done <=> answer.count = Rest(p, from)
  /\ answer.next.next = from.next + answer.count
  /\ answer.next.leading \in Nat
  /\ answer.height = Height(p, from.next, answer.count)

LEMMA PlacedAdvances ==
  ASSUME NEW p, NEW from, IsParagraph(p), NEW count \in 1 .. Rest(p, from),
         NEW reason, NEW preserve, NEW orphans, NEW widows
  PROVE  Advances(p, from, PlacedResult(p, from, count, reason, preserve, orphans, widows))
<1> DEFINE answer == PlacedResult(p, from, count, reason, preserve, orphans, widows)
<1>1. /\ answer.count = count
      /\ answer.done = (count = Rest(p, from))
      /\ answer.next.next = from.next + count
      /\ answer.next.leading \in {p.widows, 1}
      /\ answer.height = Height(p, from.next, count)
  BY PlacedFields
<1>2. p.widows \in Nat /\ 1 \in Nat
  BY DEF IsParagraph
<1> HIDE DEF answer
<1>3. answer.next.leading \in Nat
  BY <1>1, <1>2
<1>4. Advances(p, from, answer)
  BY <1>1, <1>3, Zenon DEF Advances
<1>. QED BY <1>4 DEF answer

(* A placement takes at least one of the lines that are left, it goes on   *)
(* right after them, and it is the last one when none is left              *)
(* (placedResult).                                                         *)
THEOREM PlacementAdvances ==
  ASSUME NEW p, NEW space, NEW from, IsParagraph(p), IsSpace(space), IsToken(p, from),
         FragmentContext(p, space, from).action = "place"
  PROVE  Advances(p, from, FragmentContext(p, space, from))
<1> DEFINE answer == FragmentContext(p, space, from)
           fit == FittingPrefix(p, space, from)
           splits == SplitsPreservingWidows(p, space, from)
<1>1. fit \in 0 .. Rest(p, from) /\ Rest(p, from) \in Nat \ {0}
  BY FittingPrefixFits, SMTT(30) DEF Rest, IsParagraph, IsToken
<1>2. 1 \in 1 .. Rest(p, from) /\ Rest(p, from) \in 1 .. Rest(p, from)
  BY <1>1
<1>3. CASE answer = OversizedLine(p, space, from)
  <2>. QED BY <1>2, <1>3, PlacedAdvances, Zenon DEF OversizedLine
<1>4. CASE answer = WholeRest(p, from)
  <2>. QED BY <1>2, <1>4, PlacedAdvances, Zenon DEF WholeRest
<1>5. CASE LegalSplits(p, space, from) # {} /\ answer = LegalSplit(p, space, from)
  <2>1. Max(LegalSplits(p, space, from)) \in 1 .. Rest(p, from)
    BY <1>5, SplitsAreBounded
  <2>. QED BY <1>5, <2>1, PlacedAdvances, Zenon DEF LegalSplit
<1>6. CASE fit > 0 /\ answer = RelaxedSplit(p, space, from)
  <2> DEFINE c == IF splits = {} THEN fit ELSE Max(splits)
             few == c < p.orphans
             broken == splits = {} \/ c < from.leading
             kept == splits # {}
             reason == SplitReason(p, space, from, c)
  <2>1. c \in 1 .. Rest(p, from)
    BY <1>1, <1>6, SplitsAreBounded
  <2>2. answer = PlacedResult(p, from, c, reason, kept, few, broken)
    BY <1>6 DEF RelaxedSplit
  <2> HIDE DEF answer, c, few, broken, kept, reason
  <2>3. Advances(p, from, answer)
    BY <2>1, <2>2, PlacedAdvances
  <2>. QED BY <2>3 DEF answer
<1>. QED BY <1>3, <1>4, <1>5, <1>6, PlacedCases

(* The flags of a placement and the reason of the break it may make.       *)
FlagsAndReason(answer) ==
  /\ answer.relaxedOrphans \in BOOLEAN /\ answer.relaxedWidows \in BOOLEAN
  /\ answer.reason \in {"space", "constraint", "overflow"}

LEMMA PlacedIsTyped ==
  ASSUME NEW p, NEW from, NEW count, NEW preserve,
         NEW reason \in {"space", "constraint", "overflow"},
         NEW orphans \in BOOLEAN, NEW widows \in BOOLEAN
  PROVE  FlagsAndReason(PlacedResult(p, from, count, reason, preserve, orphans, widows))
BY DEF FlagsAndReason, PlacedResult

LEMMA AnswersAreTyped ==
  ASSUME NEW p, NEW space, NEW from, IsParagraph(p), IsSpace(space), IsToken(p, from),
         FragmentContext(p, space, from).action = "place"
  PROVE  FlagsAndReason(FragmentContext(p, space, from))
<1> DEFINE answer == FragmentContext(p, space, from)
           R == {"space", "constraint", "overflow"}
<1>1. CASE answer = OversizedLine(p, space, from)
  <2> DEFINE more == Rest(p, from) > 1
             preserve == more => WidowsFollow(p, space, from, 1)
             few == more /\ p.orphans > 1
             broken == more /\ (from.leading > 1 \/ ~preserve)
  <2>1. answer = PlacedResult(p, from, 1, "overflow", preserve, few, broken)
    BY <1>1 DEF OversizedLine
  <2>2. "overflow" \in R /\ few \in BOOLEAN /\ broken \in BOOLEAN
    BY Zenon
  <2> HIDE DEF answer, preserve, few, broken
  <2>3. FlagsAndReason(answer)
    BY <2>1, <2>2, PlacedIsTyped
  <2>. QED BY <2>3 DEF answer
<1>2. CASE answer = WholeRest(p, from)
  <2>1. "space" \in R /\ FALSE \in BOOLEAN
    OBVIOUS
  <2>. QED BY <1>2, <2>1, PlacedIsTyped, Zenon DEF WholeRest
<1>3. \A count : SplitReason(p, space, from, count) \in R
  BY DEF SplitReason
<1>4. CASE answer = LegalSplit(p, space, from)
  <2>1. FALSE \in BOOLEAN
    OBVIOUS
  <2>. QED BY <1>3, <1>4, <2>1, PlacedIsTyped, Zenon DEF LegalSplit
<1>5. CASE answer = RelaxedSplit(p, space, from)
  <2> DEFINE splits == SplitsPreservingWidows(p, space, from)
             c == IF splits = {} THEN FittingPrefix(p, space, from) ELSE Max(splits)
             kept == splits # {}
             few == c < p.orphans
             broken == splits = {} \/ c < from.leading
             reason == SplitReason(p, space, from, c)
  <2>1. answer = PlacedResult(p, from, c, reason, kept, few, broken)
    BY <1>5 DEF RelaxedSplit
  <2>2. reason \in R
    BY <1>3
  <2>3. broken \in BOOLEAN
    BY Zenon
  <2>4. few \in BOOLEAN
    <3> HIDE DEF c
    <3>. QED OBVIOUS
  <2> HIDE DEF answer, c, few, broken, kept, reason
  <2>5. FlagsAndReason(answer)
    BY <2>1, <2>2, <2>3, <2>4, PlacedIsTyped
  <2>. QED BY <2>5 DEF answer
<1>. QED BY <1>1, <1>2, <1>4, <1>5, PlacedCases

(* Where lines are left, the fragment has the orphans asked for, or says   *)
(* that it has not.                                                        *)
THEOREM OrphansHonoured ==
  ASSUME NEW p, NEW space, NEW from, IsParagraph(p), IsSpace(space), IsToken(p, from),
         FragmentContext(p, space, from).action = "place",
         ~FragmentContext(p, space, from).done
  PROVE  LET answer == FragmentContext(p, space, from)
         IN answer.count >= p.orphans \/ answer.relaxedOrphans
<1> DEFINE answer == FragmentContext(p, space, from)
<1>1. Rest(p, from) \in Nat \ {0} /\ p.orphans \in Nat \ {0}
  BY DEF Rest, IsParagraph, IsToken
<1>2. CASE answer = OversizedLine(p, space, from)
  <2>1. answer.count = 1
    BY <1>2 DEF OversizedLine, PlacedResult
  <2>2. Rest(p, from) > 1
    BY <1>1, <2>1, PlacementAdvances DEF Advances
  <2>3. p.orphans > 1 => answer.relaxedOrphans
    BY <1>2, <2>2, OversizedLineReports
  <2>. QED BY <1>1, <2>1, <2>2, <2>3
<1>3. CASE answer = WholeRest(p, from)
  <2>1. answer.count = Rest(p, from)
    BY <1>3 DEF WholeRest, PlacedResult
  <2>. QED BY <2>1, PlacementAdvances DEF Advances
<1>4. CASE LegalSplits(p, space, from) # {} /\ answer = LegalSplit(p, space, from)
  <2>1. Max(LegalSplits(p, space, from)) \in LegalSplits(p, space, from)
    BY <1>4, SplitsAreBounded
  <2>2. answer.count = Max(LegalSplits(p, space, from))
    BY <1>4 DEF LegalSplit, PlacedResult
  <2>. QED BY <2>1, <2>2 DEF LegalSplits
<1>5. CASE answer = RelaxedSplit(p, space, from)
  <2>1. answer.count < p.orphans => answer.relaxedOrphans
    BY <1>5, RelaxedSplitReports
  <2>2. answer.count \in Nat
    BY <1>1, PlacementAdvances DEF Advances
  <2>. QED BY <1>1, <2>1, <2>2
<1>. QED BY <1>2, <1>3, <1>4, <1>5, PlacedCases

(* Where lines are left, the continuation is bound to begin with the       *)
(* widows, which are left and fit the next region, or the fragment says    *)
(* that it is not.                                                         *)
THEOREM WidowsPromised ==
  ASSUME NEW p, NEW space, NEW from, IsParagraph(p), IsSpace(space), IsToken(p, from),
         FragmentContext(p, space, from).action = "place",
         ~FragmentContext(p, space, from).done
  PROVE  LET answer == FragmentContext(p, space, from)
         IN \/ answer.relaxedWidows
            \/ /\ answer.next.leading = p.widows
               /\ Rest(p, answer.next) >= p.widows
               /\ Height(p, answer.next.next, p.widows) <= space.following
<1> DEFINE answer == FragmentContext(p, space, from)
           splits == SplitsPreservingWidows(p, space, from)
<1>1. Rest(p, from) \in Nat \ {0} /\ p.widows \in Nat \ {0} /\ from.leading \in Nat
  BY DEF Rest, IsParagraph, IsToken
<1>2. /\ answer.count \in 1 .. Rest(p, from)
      /\ answer.next.next = from.next + answer.count
      /\ answer.count # Rest(p, from)
  BY PlacementAdvances DEF Advances
<1>3. WidowsFollow(p, space, from, answer.count) =>
        /\ Rest(p, answer.next) >= p.widows
        /\ Height(p, answer.next.next, p.widows) <= space.following
  BY <1>2 DEF WidowsFollow, Rest, IsParagraph, IsToken
<1>4. CASE answer = OversizedLine(p, space, from)
  <2>1. answer.count = 1
    BY <1>4 DEF OversizedLine, PlacedResult
  <2>2. Rest(p, from) > 1
    BY <1>1, <1>2, <2>1
  <2>3. ~WidowsFollow(p, space, from, 1) => answer.relaxedWidows
    BY <1>4, <2>2, OversizedLineReports
  <2>4. WidowsFollow(p, space, from, 1) => answer.next.leading = p.widows
    BY <1>4, <2>2 DEF OversizedLine, PlacedResult
  <2>. QED BY <1>3, <2>1, <2>3, <2>4
<1>5. CASE answer = WholeRest(p, from)
  BY <1>2, <1>5 DEF WholeRest, PlacedResult
<1>6. CASE LegalSplits(p, space, from) # {} /\ answer = LegalSplit(p, space, from)
  <2>1. Max(LegalSplits(p, space, from)) \in LegalSplits(p, space, from)
    BY <1>6, SplitsAreBounded
  <2>2. answer.count = Max(LegalSplits(p, space, from)) /\ answer.next.leading = p.widows
    BY <1>6 DEF LegalSplit, PlacedResult
  <2>3. WidowsFollow(p, space, from, answer.count)
    BY <2>1, <2>2 DEF LegalSplits
  <2>. QED BY <1>3, <2>2, <2>3
<1>7. CASE answer = RelaxedSplit(p, space, from)
  <2>1. CASE splits = {}
    BY <1>7, <2>1, RelaxedSplitReports
  <2>2. CASE splits # {}
    <3>1. Max(splits) \in splits
      BY <2>2, SplitsAreBounded
    <3>2. answer.count = Max(splits) /\ answer.next.leading = p.widows
      BY <1>7, <2>2 DEF RelaxedSplit, PlacedResult
    <3>3. WidowsFollow(p, space, from, answer.count)
      BY <3>1, <3>2 DEF SplitsPreservingWidows
    <3>. QED BY <1>3, <3>2, <3>3
  <2>. QED BY <2>1, <2>2
<1>. QED BY <1>4, <1>5, <1>6, <1>7, PlacedCases

(* A region that was promised the widows and has room for them receives    *)
(* them, or the fragment says that it does not.                            *)
THEOREM WidowsReceived ==
  ASSUME NEW p, NEW space, NEW from, IsParagraph(p), IsSpace(space), IsToken(p, from),
         from.leading = p.widows, Rest(p, from) >= p.widows,
         Height(p, from.next, p.widows) <= space.available,
         FragmentContext(p, space, from).action = "place"
  PROVE  LET answer == FragmentContext(p, space, from)
         IN answer.count >= p.widows \/ answer.relaxedWidows
<1> DEFINE answer == FragmentContext(p, space, from)
           fit == FittingPrefix(p, space, from)
<1>1. Rest(p, from) \in Nat \ {0} /\ p.widows \in Nat \ {0}
  BY DEF Rest, IsParagraph, IsToken
<1>2. fit \in 0 .. Rest(p, from) /\ fit >= p.widows
  <2>1. p.widows \in 0 .. Rest(p, from)
    BY <1>1
  <2>. QED BY <2>1, FittingPrefixFits
<1>3. CASE fit = Rest(p, from) /\ answer = WholeRest(p, from)
  BY <1>2, <1>3 DEF WholeRest, PlacedResult
<1>4. CASE LegalSplits(p, space, from) # {} /\ answer = LegalSplit(p, space, from)
  <2>1. Max(LegalSplits(p, space, from)) \in LegalSplits(p, space, from)
    BY <1>4, SplitsAreBounded
  <2>2. answer.count = Max(LegalSplits(p, space, from))
    BY <1>4 DEF LegalSplit, PlacedResult
  <2>. QED BY <2>1, <2>2 DEF LegalSplits
<1>5. CASE answer = RelaxedSplit(p, space, from)
  <2>1. answer.count < from.leading => answer.relaxedWidows
    BY <1>5, RelaxedSplitReports
  <2>2. answer.count \in Nat
    BY <1>1, PlacementAdvances DEF Advances
  <2>. QED BY <1>1, <2>1, <2>2
<1>6. fit # 0
  BY <1>1, <1>2
<1>. QED BY <1>3, <1>4, <1>5, <1>6, PlacedCases

-----------------------------------------------------------------------------
(* The loop.                                                               *)

Fragment == [block : Nat, first : Nat, count : Nat \ {0}, page : Nat,
             relaxedOrphans : BOOLEAN, relaxedWidows : BOOLEAN]

(* What an iteration knows of its block.                                   *)
Positioned ==
  /\ at = "block" => token.next = 0
  /\ at # "block" => index <= BlockCount /\ ~IsBreak(index)
  /\ at = "whole" => Block(index).lines = 1
  /\ outcome = "planned" => index = BlockCount + 1

Typed ==
  /\ IsDocument(doc)
  /\ fragments \in Seq(Fragment)
  /\ TypeOK
  /\ Positioned

(* The last fragment ends where the token is.                              *)
Frontier ==
  IF Len(fragments) = 0
  THEN token.next = 0 /\ \A i \in 1 .. index - 1 : IsBreak(i)
  ELSE LeadsTo(fragments[Len(fragments)], index, token.next)

Chained ==
  /\ \A i \in 2 .. Len(fragments) :
       LeadsTo(fragments[i - 1], fragments[i].block, fragments[i].first)
  /\ Len(fragments) > 0 =>
       fragments[1].first = 0 /\ \A i \in 1 .. fragments[1].block - 1 : IsBreak(i)

-----------------------------------------------------------------------------
LEMMA DocumentFacts ==
  ASSUME IsDocument(doc)
  PROVE  /\ BlockCount \in Nat
         /\ \A i \in 1 .. BlockCount : IsMeasured(Block(i))
         /\ \A n \in Nat : Body(n) \in Nat \ {0}
BY DEF IsDocument, BodyHeights, BlockCount, Block, Body

(* The invariant, one conjunct at a time.                                   *)
LEMMA TypedFacts ==
  ASSUME Typed
  PROVE  /\ IsDocument(doc) /\ fragments \in Seq(Fragment)
         /\ index \in 1 .. BlockCount + 1 /\ at \in {"block", "content", "whole"}
         /\ token.next \in Nat /\ token.leading \in Nat
         /\ index <= BlockCount => token.next < Block(index).lines
         /\ page \in Nat \ {0} /\ available \in Int /\ regionEmpty \in BOOLEAN
         /\ at = "block" => token.next = 0
         /\ at # "block" => index <= BlockCount /\ ~IsBreak(index)
         /\ at = "whole" => Block(index).lines = 1
         /\ outcome = "planned" => index = BlockCount + 1
BY Zenon DEF Typed, TypeOK, Positioned

LEMMA PolicyIsParagraph ==
  ASSUME IsDocument(doc), NEW i \in 1 .. BlockCount
  PROVE  /\ IsParagraph(Policy(i))
         /\ Policy(i).lines = Block(i).lines
         /\ Policy(i).bottom = Block(i).bottom
<1>1. IsMeasured(Block(i))
  BY DocumentFacts
<1>. QED BY <1>1 DEF Policy, IsParagraph, IsMeasured

LEMMA TextFacts ==
  ASSUME Typed, AtText, SpaceIsValid(Space)
  PROVE  /\ index \in 1 .. BlockCount
         /\ IsParagraph(Policy(index)) /\ IsSpace(Space) /\ IsToken(Policy(index), token)
         /\ Policy(index).lines = Block(index).lines
<1>1. index \in 1 .. BlockCount
  BY DocumentFacts, TypedFacts DEF AtText
<1>2. Body(page + 1) \in Nat /\ available \in Nat /\ regionEmpty \in BOOLEAN
  BY DocumentFacts, TypedFacts DEF SpaceIsValid, Space
<1>3. IsSpace(Space)
  BY <1>2 DEF IsSpace, Space
<1>4. IsParagraph(Policy(index)) /\ Policy(index).lines = Block(index).lines
  BY <1>1, PolicyIsParagraph, TypedFacts
<1>5. IsToken(Policy(index), token)
  BY <1>1, <1>4, TypedFacts DEF IsToken, IsParagraph
<1>. QED BY <1>1, <1>3, <1>4, <1>5

(* What the answer of the fragmenter adds to the plan.                     *)
LEMMA AnswerFacts ==
  ASSUME Typed, AtText, SpaceIsValid(Space), Answer.action = "place"
  PROVE  /\ Answer.count \in Nat \ {0}
         /\ token.next + Answer.count <= Block(index).lines
         /\ Answer.done <=> token.next + Answer.count = Block(index).lines
         /\ Answer.next.next = token.next + Answer.count
         /\ Answer.next.leading \in Nat
         /\ FlagsAndReason(Answer)
<1>1. Advances(Policy(index), token, Answer) /\ FlagsAndReason(Answer)
  BY TextFacts, PlacementAdvances, AnswersAreTyped DEF Answer
<1>2. Rest(Policy(index), token) = Block(index).lines - token.next
  BY TextFacts DEF Rest
<1>3. Block(index).lines \in Nat /\ token.next \in Nat
  BY TextFacts DEF IsParagraph, IsToken
<1>. QED BY <1>1, <1>2, <1>3 DEF Advances

LEMMA PlaceExtends ==
  ASSUME Typed, index \in 1 .. BlockCount,
         NEW first \in Nat, NEW count \in Nat \ {0},
         NEW relaxedOrphans \in BOOLEAN, NEW relaxedWidows \in BOOLEAN,
         first + count <= Block(index).lines,
         Place(first, count, relaxedOrphans, relaxedWidows)
  PROVE  /\ fragments' \in Seq(Fragment)
         /\ Len(fragments') = Len(fragments) + 1
         /\ \A i \in 1 .. Len(fragments) : fragments'[i] = fragments[i]
         /\ fragments'[Len(fragments) + 1] =
              [block |-> index, first |-> first, count |-> count, page |-> page,
               relaxedOrphans |-> relaxedOrphans, relaxedWidows |-> relaxedWidows]
         /\ available' \in Int /\ page' = page /\ regionEmpty' = FALSE
<1> DEFINE new == [block |-> index, first |-> first, count |-> count, page |-> page,
                   relaxedOrphans |-> relaxedOrphans, relaxedWidows |-> relaxedWidows]
<1>1. new \in Fragment
  BY DocumentFacts, TypedFacts DEF Fragment
<1>2. fragments' = Append(fragments, new) /\ page' = page /\ regionEmpty' = FALSE
  BY DEF Place
<1>3. /\ fragments' \in Seq(Fragment)
      /\ Len(fragments') = Len(fragments) + 1
      /\ \A i \in 1 .. Len(fragments) : fragments'[i] = fragments[i]
      /\ fragments'[Len(fragments) + 1] = new
  <2> HIDE DEF new
  <2>. QED BY <1>1, <1>2, AppendProperties, TypedFacts
<1>4. available' \in Int
  <2>1. IsMeasured(Block(index))
    BY DocumentFacts, TypedFacts
  <2>2. available' = available - Height(Block(index), first, count) /\ available \in Int
    BY TypedFacts DEF Place
  <2>3. Height(Block(index), first, count) \in Int
    <3> DEFINE b == Block(index)
    <3>1. b.lines \in Nat /\ b.bottom \in [0 .. b.lines -> Nat]
      BY <2>1 DEF IsMeasured
    <3> HIDE DEF b
    <3>2. first \in 0 .. b.lines /\ first + count \in 0 .. b.lines
      BY <3>1 DEF b
    <3>3. b.bottom[first + count] \in Nat /\ b.bottom[first] \in Nat
      BY <3>1, <3>2
    <3>4. Height(b, first, count) \in Int
      BY <3>3 DEF Height
    <3>. QED BY <3>4 DEF b
  <2>. QED BY <2>2, <2>3
<1>. QED BY <1>2, <1>3, <1>4

-----------------------------------------------------------------------------
(* The type invariant, kept by every step.                                 *)

(* A turn is announced for the page it leaves.                             *)
LEMMA TurnTyped ==
  ASSUME Typed, NEW reason \in {"explicit", "constraint", "space", "overflow"}, TurnFor(reason),
         UNCHANGED <<page, fragments>>
  PROVE  /\ turning' \in BOOLEAN
         /\ pendingBreak' # NoBreak
         /\ pendingBreak'.reason \in {"explicit", "constraint", "space", "overflow"}
         /\ pendingBreak'.fromPage = IF turning' THEN page' ELSE page' - 1
         /\ pendingBreak'.preceding = Len(fragments')
BY DEF TurnFor, NoBreak

(* The parts of TypeOK that steps disturb separately.                      *)
Located ==
  /\ index \in 1 .. BlockCount + 1
  /\ at \in {"block", "content", "whole"}
  /\ token.next \in Nat /\ token.leading \in Nat
  /\ index <= BlockCount => token.next < Block(index).lines

Measured == page \in Nat \ {0} /\ available \in Int

Flagged == turning \in BOOLEAN /\ regionEmpty \in BOOLEAN /\ explicitBreakPending \in BOOLEAN

Announced ==
  /\ pendingBreak # NoBreak =>
       /\ pendingBreak.reason \in {"explicit", "constraint", "space", "overflow"}
       /\ pendingBreak.fromPage = IF turning THEN page ELSE page - 1
       /\ pendingBreak.preceding = Len(fragments)
  /\ turning => pendingBreak # NoBreak

Recorded ==
  \A i \in DOMAIN fragments :
    /\ fragments[i].block \in 1 .. BlockCount
    /\ fragments[i].count \in Nat \ {0} /\ fragments[i].page \in 1 .. page

Reported ==
  /\ keepTooLarge \subseteq 1 .. BlockCount
  /\ outcome \in {"planning", "planned", "page limit", "too tall", "no space"}

LEMMA TypeParts ==
  TypeOK <=> Located /\ Measured /\ Flagged /\ Announced /\ Recorded /\ Reported
BY Zenon DEF TypeOK, Located, Measured, Flagged, Announced, Recorded, Reported

LEMMA TypePartsNext ==
  TypeOK' <=> Located' /\ Measured' /\ Flagged' /\ Announced' /\ Recorded' /\ Reported'
BY Zenon DEF TypeOK, Located, Measured, Flagged, Announced, Recorded, Reported

LEMMA NextBlockLocated ==
  ASSUME Typed, index <= BlockCount, NextBlock, UNCHANGED doc
  PROVE  Located' /\ index' = index + 1 /\ at' = "block" /\ token'.next = 0
<1>1. BlockCount \in Nat /\ BlockCount' = BlockCount
  BY TypedFacts, DocumentFacts DEF BlockCount
<1>2. index' = index + 1 /\ at' = "block" /\ token'.next = 0 /\ token'.leading = 0
  BY DEF NextBlock, Start
<1>3. index \in Nat /\ index' \in 1 .. BlockCount + 1
  BY <1>1, <1>2, TypedFacts
<1>4. index' <= BlockCount => Block(index)'.lines \in Nat \ {0}
  <2>1. Block(index)' = Block(index + 1)
    BY <1>2 DEF Block
  <2>2. index' <= BlockCount => IsMeasured(Block(index + 1))
    BY <1>1, <1>2, <1>3, TypedFacts, DocumentFacts
  <2>. QED BY <2>1, <2>2 DEF IsMeasured
<1>5. index' <= BlockCount' => token'.next < Block(index)'.lines
  BY <1>1, <1>2, <1>4
<1>6. Located'
  BY <1>1, <1>2, <1>3, <1>5 DEF Located
<1>. QED BY <1>2, <1>6

(* Steps that place nothing.                                               *)
LEMMA TypedUnplaced ==
  ASSUME Typed, UNCHANGED <<doc, fragments>>, page' = page \/ page' = page + 1,
         Located', Measured', Flagged', Announced', Reported', Positioned'
  PROVE  Typed'
<1>1. Recorded
  BY TypeParts, Zenon DEF Typed
<1>2. page \in Nat \ {0} /\ BlockCount' = BlockCount
  BY TypedFacts DEF BlockCount
<1>3. Recorded'
  BY <1>1, <1>2 DEF Recorded
<1>4. TypeOK'
  BY <1>3, TypePartsNext
<1>. QED BY <1>4, Zenon DEF Typed

(* A pagination begins: the first one, or that of a corrected total.       *)
Fresh ==
  /\ IsDocument(doc)
  /\ index = 1 /\ at = "block" /\ turning = FALSE /\ token = Start
  /\ page = 1 /\ available = doc.bodies.first /\ regionEmpty = TRUE
  /\ explicitBreakPending = FALSE /\ pendingBreak = NoBreak
  /\ fragments = <<>> /\ pages = <<>> /\ breaks = <<>>
  /\ keepTooLarge = {}
  /\ outcome = "planning"

LEMMA InitIsFresh == Init => Fresh
BY DocumentsAreMeasured DEF Init, Fresh

LEMMA TypedInit == Fresh => Typed
<1> SUFFICES ASSUME Fresh PROVE Typed
  OBVIOUS
<1>1. IsDocument(doc) /\ BlockCount \in Nat /\ doc.bodies.first \in Nat \ {0}
  BY DocumentFacts DEF Fresh, IsDocument, BodyHeights
<1>2. fragments = <<>> /\ fragments \in Seq(Fragment)
  BY DEF Fresh
<1>3. index <= BlockCount => token.next < Block(index).lines
  <2> SUFFICES ASSUME index <= BlockCount PROVE token.next < Block(index).lines
    OBVIOUS
  <2>1. index = 1 /\ token.next = 0
    BY DEF Fresh, Start
  <2>2. IsMeasured(Block(index))
    BY <1>1, <2>1, DocumentFacts
  <2>. QED BY <2>1, <2>2 DEF IsMeasured
<1>4. TypeOK
  <2>1. Located
    BY <1>1, <1>3 DEF Fresh, Located, Start
  <2>2. Measured
    BY <1>1 DEF Fresh, Measured
  <2>3. Flagged /\ Announced
    BY DEF Fresh, Flagged, Announced
  <2>4. Recorded /\ Reported
    BY DEF Fresh, Recorded, Reported
  <2>. QED BY <2>1, <2>2, <2>3, <2>4, TypeParts
<1>5. Positioned
  BY DEF Fresh, Positioned, Start
<1>. QED BY <1>1, <1>2, <1>4, <1>5 DEF Typed

(* A step that leaves the cursor keeps what is known of it.                *)
LEMMA CursorKept ==
  ASSUME Typed, UNCHANGED <<doc, cursor>>
  PROVE  Located'
<1>1. Located
  BY TypeParts, Zenon DEF Typed
<1>. QED BY <1>1 DEF Located, cursor, BlockCount, Block

LEMMA PositionKept ==
  ASSUME Typed, UNCHANGED <<doc, cursor>>, outcome' = outcome \/ outcome' # "planned"
  PROVE  Positioned'
BY Zenon DEF Typed, Positioned, cursor, BlockCount, Block, IsBreak

LEMMA MeasureKept == ASSUME Typed, UNCHANGED region PROVE Measured'
<1>1. Measured
  BY TypeParts, Zenon DEF Typed
<1>. QED BY <1>1 DEF Measured, region

LEMMA ReportKept ==
  ASSUME Typed, UNCHANGED <<doc, keepTooLarge, outcome>>
  PROVE  Reported'
<1>1. Reported
  BY TypeParts, Zenon DEF Typed
<1>. QED BY <1>1 DEF Reported, BlockCount

LEMMA TurnFlagged ==
  ASSUME Typed, NEW reason \in {"explicit", "constraint", "space", "overflow"},
         TurnFor(reason), UNCHANGED region, UNCHANGED fragments,
         explicitBreakPending' \in BOOLEAN
  PROVE  Flagged' /\ Announced'
<1>1. turning' = TRUE /\ regionEmpty' = regionEmpty
  BY DEF TurnFor, region
<1>2. regionEmpty \in BOOLEAN
  BY TypedFacts
<1>3. Flagged'
  BY <1>1, <1>2, Zenon DEF Flagged
<1>4. Announced'
  BY <1>1, TurnTyped DEF Announced, region
<1>. QED BY <1>3, <1>4

LEMMA FlagsKept ==
  ASSUME Typed, UNCHANGED <<turning, regionEmpty, page, fragments>>,
         pendingBreak' \in {pendingBreak, NoBreak}, pendingBreak' = pendingBreak \/ ~turning,
         explicitBreakPending' \in BOOLEAN
  PROVE  Flagged' /\ Announced'
<1>1. Flagged /\ Announced
  BY TypeParts, Zenon DEF Typed
<1>2. Flagged'
  BY <1>1, Zenon DEF Flagged
<1>3. Announced'
  BY <1>1 DEF Announced, NoBreak
<1>. QED BY <1>2, <1>3

(* Steps that place a fragment of the block and go on at `line`.           *)
LEMMA TypedPlaced ==
  ASSUME Typed, index \in 1 .. BlockCount, UNCHANGED <<doc, keepTooLarge, outcome>>,
         NEW first \in Nat, NEW count \in Nat \ {0},
         NEW relaxedOrphans \in BOOLEAN, NEW relaxedWidows \in BOOLEAN,
         first + count <= Block(index).lines,
         Place(first, count, relaxedOrphans, relaxedWidows),
         Located', Flagged', Announced', Positioned'
  PROVE  Typed'
<1>1. Recorded
  BY TypeParts, Zenon DEF Typed
<1>2. page \in Nat \ {0} /\ BlockCount' = BlockCount /\ fragments \in Seq(Fragment)
  BY TypedFacts DEF BlockCount
<1>3. Measured'
  BY <1>2, PlaceExtends DEF Measured
<1>4. Recorded'
  <2> DEFINE new == [block |-> index, first |-> first, count |-> count, page |-> page,
                     relaxedOrphans |-> relaxedOrphans, relaxedWidows |-> relaxedWidows]
  <2>0. new.block = index /\ new.count = count /\ new.page = page
    OBVIOUS
  <2>1. /\ fragments' \in Seq(Fragment)
        /\ Len(fragments') = Len(fragments) + 1
        /\ \A i \in 1 .. Len(fragments) : fragments'[i] = fragments[i]
        /\ fragments'[Len(fragments) + 1] = new
        /\ page' = page
    BY PlaceExtends, ZenonT(30)
  <2> HIDE DEF new
  <2>2. DOMAIN fragments = 1 .. Len(fragments) /\ DOMAIN fragments' = 1 .. Len(fragments')
    BY <1>2, <2>1
  <2>3. Len(fragments) \in Nat
    BY <1>2
  <2> SUFFICES ASSUME NEW i \in DOMAIN fragments'
               PROVE  /\ fragments'[i].block \in 1 .. BlockCount
                      /\ fragments'[i].count \in Nat \ {0} /\ fragments'[i].page \in 1 .. page
    BY <1>2, <2>1 DEF Recorded
  <2>4. CASE i = Len(fragments) + 1
    BY <1>2, <2>0, <2>1, <2>4
  <2>5. CASE i \in 1 .. Len(fragments)
    BY <1>1, <2>1, <2>2, <2>5 DEF Recorded
  <2>. QED BY <2>1, <2>2, <2>3, <2>4, <2>5
<1>5. Reported'
  BY ReportKept
<1>6. TypeOK'
  BY <1>3, <1>4, <1>5, TypePartsNext
<1>. QED BY <1>6, PlaceExtends, Zenon DEF Typed

LEMMA AtBlockFacts ==
  ASSUME Typed, AtBlock
  PROVE  /\ index \in 1 .. BlockCount /\ token.next = 0
         /\ outcome = "planning" /\ turning = FALSE /\ at = "block"
<1>1. turning \in BOOLEAN /\ ~turning
  BY TypeParts, Zenon DEF Typed, Flagged, AtBlock, Planning
<1>. QED BY <1>1, TypedFacts, DocumentFacts DEF AtBlock, Planning

LEMMA IndexFacts ==
  ASSUME Typed
  PROVE  index \in Nat \ {0} /\ BlockCount \in Nat
<1>1. IsDocument(doc) /\ index \in 1 .. BlockCount + 1
  BY TypedFacts
<1>. QED BY <1>1, DocumentFacts

LEMMA NextBodyFacts ==
  ASSUME Typed
  PROVE  Body(page + 1) \in Nat \ {0}
<1>1. IsDocument(doc) /\ page + 1 \in Nat
  BY TypedFacts
<1>. QED BY <1>1, DocumentFacts

LEMMA TypedNext == Typed /\ [Next]_vars => Typed'
<1> SUFFICES ASSUME Typed, [Next]_vars PROVE Typed'
  OBVIOUS
<1>1. /\ page \in Nat \ {0} /\ explicitBreakPending \in BOOLEAN /\ turning \in BOOLEAN
      /\ regionEmpty \in BOOLEAN
  BY TypedFacts, TypeParts, Zenon DEF Typed, Flagged
<1>2. ASSUME AdvanceBodyPage PROVE Typed'
  <2>1. Body(page + 1) \in Nat
    BY NextBodyFacts
  <2>2. Located' /\ Positioned' /\ Reported'
    BY <1>2, CursorKept, PositionKept, ReportKept DEF AdvanceBodyPage
  <2>3. Measured'
    BY <1>1, <1>2, <2>1 DEF AdvanceBodyPage, Measured
  <2>4. Flagged'
    BY <1>1, <1>2, Zenon DEF AdvanceBodyPage, Flagged
  <2>5. Announced'
    <3>1. Announced /\ turning = TRUE
      BY <1>1, <1>2, TypeParts, Zenon DEF Typed, AdvanceBodyPage
    <3>2. turning' = FALSE /\ page' = page + 1 /\ UNCHANGED <<pendingBreak, fragments>>
      BY <1>2 DEF AdvanceBodyPage, plan
    <3>. QED BY <1>1, <3>1, <3>2 DEF Announced
  <2>6. page' = page + 1 /\ UNCHANGED <<doc, fragments>>
    BY <1>2 DEF AdvanceBodyPage, plan
  <2>. QED BY <2>2, <2>3, <2>4, <2>5, <2>6, TypedUnplaced
<1>3. ASSUME NEW why \in {"planned", "page limit", "too tall", "no space"}, Fail(why),
             why = "planned" => index = BlockCount + 1
      PROVE  Typed'
  <2>1. UNCHANGED <<doc, cursor, region, page, fragments, turning, pendingBreak,
                    regionEmpty, explicitBreakPending, keepTooLarge>> /\ outcome' = why
    BY <1>3 DEF Fail, region, plan
  <2>2. Located' /\ Measured'
    BY <2>1, CursorKept, MeasureKept
  <2>3. Positioned'
    <3>1. outcome' = "planned" => index' = BlockCount' + 1
      BY <1>3, <2>1 DEF cursor, BlockCount
    <3>. QED BY <2>1, <3>1, Zenon DEF Typed, Positioned, cursor, BlockCount, Block, IsBreak
  <2>4. Flagged' /\ Announced'
    BY <1>1, <2>1, FlagsKept
  <2>5. Reported'
    BY <1>3, <2>1, TypeParts DEF Typed, Reported, BlockCount
  <2>. QED BY <2>1, <2>2, <2>3, <2>4, <2>5, TypedUnplaced
<1>4. ASSUME ExceedPageLimit PROVE Typed'
  BY <1>3, <1>4 DEF ExceedPageLimit
<1>5. ASSUME NoteExplicitBreak PROVE Typed'
  <2>1. /\ UNCHANGED <<doc, region, page, regionEmpty, fragments, turning, pendingBreak,
                      keepTooLarge, outcome>>
        /\ NextBlock /\ explicitBreakPending' = (explicitBreakPending \/ ~regionEmpty)
    BY <1>5, Zenon DEF NoteExplicitBreak, region, plan
  <2>2. AtBlock
    BY <1>5 DEF NoteExplicitBreak
  <2>3. Located' /\ at' = "block" /\ token'.next = 0
    BY <2>1, <2>2, AtBlockFacts, NextBlockLocated
  <2>4. Positioned'
    BY <2>1, <2>2, <2>3, AtBlockFacts DEF Positioned
  <2>5. Measured' /\ Reported'
    BY <2>1, MeasureKept, ReportKept
  <2>6. explicitBreakPending' \in BOOLEAN
    BY <2>1, Zenon
  <2>7. Flagged' /\ Announced'
    BY <2>1, <2>6, FlagsKept
  <2>. QED BY <2>1, <2>3, <2>4, <2>5, <2>7, TypedUnplaced
<1>6. ASSUME TakeExplicitBreak PROVE Typed'
  <2>1. /\ UNCHANGED <<doc, cursor, region, page, fragments, keepTooLarge, outcome>>
        /\ TurnFor("explicit") /\ explicitBreakPending' = FALSE
    BY <1>6 DEF TakeExplicitBreak, region, plan
  <2>2. Located' /\ Positioned' /\ Measured' /\ Reported'
    BY <2>1, CursorKept, PositionKept, MeasureKept, ReportKept
  <2>3. Flagged' /\ Announced'
    BY <2>1, TurnFlagged
  <2>. QED BY <2>1, <2>2, <2>3, TypedUnplaced
<1>7. ASSUME CheckKeep PROVE Typed'
  <2>1. AtBlock /\ at' = "content" /\ Block(index).kind \in {"text", "box"}
        /\ UNCHANGED <<doc, index, token, region, page, fragments, regionEmpty,
                       explicitBreakPending, outcome>>
    BY <1>7, Zenon DEF CheckKeep, region, plan
  <2>2. Located'
    <3>1. Located
      BY TypeParts, Zenon DEF Typed
    <3>. QED BY <2>1, <3>1 DEF Located, BlockCount, Block
  <2>3. Positioned'
    BY <2>1, AtBlockFacts DEF Positioned, BlockCount, Block, IsBreak
  <2>4. Measured'
    BY <2>1, MeasureKept
  <2>5. Flagged' /\ Announced'
    <3>1. CASE TurnFor("constraint")
      BY <1>1, <2>1, <3>1, TurnFlagged
    <3>2. CASE UNCHANGED <<turning, pendingBreak>>
      BY <1>1, <2>1, <3>2, FlagsKept
    <3>. QED BY <1>7, <3>1, <3>2, Zenon DEF CheckKeep
  <2>6. Reported'
    <3>1. keepTooLarge' = keepTooLarge \/ keepTooLarge' = keepTooLarge \cup {index}
      BY <1>7, Zenon DEF CheckKeep
    <3>2. Reported /\ index \in 1 .. BlockCount
      BY <2>1, AtBlockFacts, TypeParts DEF Typed
    <3>. QED BY <2>1, <3>1, <3>2 DEF Reported, BlockCount
  <2>. QED BY <2>1, <2>2, <2>3, <2>4, <2>5, <2>6, TypedUnplaced
<1>8. ASSUME RejectTallBlock PROVE Typed'
  BY <1>3, <1>8 DEF RejectTallBlock
<1>9. ASSUME FitWhole PROVE Typed'
  <2>1. AtWhole /\ at' = "whole"
        /\ UNCHANGED <<doc, index, token, region, page, fragments, regionEmpty,
                       explicitBreakPending, keepTooLarge, outcome>>
    BY <1>9 DEF FitWhole, region, plan
  <2>2. index \in 1 .. BlockCount /\ Block(index).kind \in {"box", "canvas"}
        /\ outcome = "planning"
    <3>1. index \in Nat \ {0} /\ BlockCount \in Nat
      BY IndexFacts
    <3>2. index <= BlockCount
      BY <2>1 DEF AtWhole
    <3>3. Block(index).kind \in {"box", "canvas"} /\ outcome = "planning"
      BY <2>1, Zenon DEF AtWhole, Planning
    <3>. QED BY <3>1, <3>2, <3>3
  <2>3. Located'
    <3>1. Located
      BY TypeParts, Zenon DEF Typed
    <3>. QED BY <2>1, <3>1 DEF Located, BlockCount, Block
  <2>4. Positioned'
    <3>1. Block(index).lines = 1
      BY <2>2, TypedFacts, DocumentFacts DEF IsMeasured
    <3>. QED BY <2>1, <2>2, <3>1 DEF Positioned, BlockCount, Block, IsBreak
  <2>5. Measured' /\ Reported'
    BY <2>1, MeasureKept, ReportKept
  <2>6. Flagged' /\ Announced'
    <3>1. CASE TurnFor("space")
      BY <1>1, <2>1, <3>1, TurnFlagged
    <3>2. CASE UNCHANGED <<turning, pendingBreak>>
      BY <1>1, <2>1, <3>2, FlagsKept
    <3>. QED BY <1>9, <3>1, <3>2, Zenon DEF FitWhole
  <2>. QED BY <2>1, <2>3, <2>4, <2>5, <2>6, TypedUnplaced
<1>10. ASSUME PlaceWhole PROVE Typed'
  <2>1. /\ ~turning /\ at = "whole" /\ outcome = "planning"
        /\ Place(0, 1, FALSE, FALSE) /\ pendingBreak' = NoBreak /\ NextBlock
        /\ UNCHANGED <<doc, turning, explicitBreakPending, keepTooLarge, outcome>>
    BY <1>10 DEF PlaceWhole, Planning
  <2>2. index \in 1 .. BlockCount /\ 0 + 1 <= Block(index).lines
    <3>1. index \in Nat \ {0} /\ BlockCount \in Nat
      BY IndexFacts
    <3>2. index <= BlockCount /\ Block(index).lines = 1
      BY <2>1, TypedFacts
    <3>. QED BY <3>1, <3>2
  <2>3. Located' /\ at' = "block" /\ token'.next = 0
    BY <2>1, <2>2, NextBlockLocated
  <2>4. Positioned'
    BY <2>1, <2>3 DEF Positioned
  <2>5. regionEmpty' = FALSE
    BY <2>1 DEF Place
  <2>6. Flagged' /\ Announced'
    BY <1>1, <2>1, <2>5, Zenon DEF Flagged, Announced
  <2>7. FALSE \in BOOLEAN /\ 0 \in Nat /\ 1 \in Nat \ {0}
    OBVIOUS
  <2>. QED BY <2>1, <2>2, <2>3, <2>4, <2>6, <2>7, TypedPlaced, Zenon
<1>11. ASSUME RejectSpace PROVE Typed'
  BY <1>3, <1>11 DEF RejectSpace
<1>12. ASSUME DeferText PROVE Typed'
  <2>1. /\ UNCHANGED <<doc, cursor, region, page, fragments, keepTooLarge, outcome>>
        /\ TurnFor("space") /\ explicitBreakPending' = explicitBreakPending
    BY <1>12 DEF DeferText, region, plan
  <2>2. Located' /\ Positioned' /\ Measured' /\ Reported'
    BY <2>1, CursorKept, PositionKept, MeasureKept, ReportKept
  <2>3. Flagged' /\ Announced'
    BY <1>1, <2>1, TurnFlagged
  <2>. QED BY <2>1, <2>2, <2>3, TypedUnplaced
<1>13. ASSUME PlaceText PROVE Typed'
  <2>1. /\ AtText /\ SpaceIsValid(Space) /\ Answer.action = "place"
        /\ Place(token.next, Answer.count, Answer.relaxedOrphans, Answer.relaxedWidows)
        /\ UNCHANGED <<doc, explicitBreakPending, keepTooLarge, outcome>>
    BY <1>13 DEF PlaceText
  <2>2. /\ index \in 1 .. BlockCount /\ index <= BlockCount /\ token.next \in Nat
        /\ BlockCount \in Nat
    BY <2>1, TextFacts, TypedFacts, IndexFacts
  <2>3. /\ Answer.count \in Nat \ {0}
        /\ token.next + Answer.count <= Block(index).lines
        /\ Answer.done <=> token.next + Answer.count = Block(index).lines
        /\ Answer.next.next = token.next + Answer.count
        /\ Answer.next.leading \in Nat
        /\ FlagsAndReason(Answer)
    BY <2>1, AnswerFacts, Zenon
  <2>4. /\ regionEmpty' = FALSE /\ page' = page
        /\ fragments' \in Seq(Fragment) /\ Len(fragments') = Len(fragments) + 1
    BY <2>1, <2>2, <2>3, PlaceExtends, Zenon DEF FlagsAndReason, Place
  <2>5. CASE Answer.done
    <3>1. NextBlock /\ pendingBreak' = NoBreak /\ turning' = turning /\ ~turning
          /\ outcome = "planning"
      BY <1>13, <2>1, <2>5, Zenon DEF PlaceText, AtText, Planning
    <3>2. Located' /\ at' = "block" /\ token'.next = 0
      BY <2>1, <2>2, <3>1, NextBlockLocated
    <3>3. Positioned'
      BY <2>1, <3>1, <3>2 DEF Positioned
    <3>4. Flagged' /\ Announced'
      BY <1>1, <2>1, <2>4, <3>1, Zenon DEF Flagged, Announced
    <3>. QED BY <2>1, <2>2, <2>3, <3>2, <3>3, <3>4, TypedPlaced, Zenon DEF FlagsAndReason
  <2>6. CASE ~Answer.done
    <3>1. /\ token' = Answer.next /\ turning' = TRUE /\ UNCHANGED <<index, at>>
          /\ pendingBreak' = [reason |-> Answer.reason, fromPage |-> page,
                              preceding |-> Len(fragments) + 1]
      BY <1>13, <2>6, Zenon DEF PlaceText
    <3>2. Located'
      <4>1. Located
        BY TypeParts, Zenon DEF Typed
      <4>2. token'.next < Block(index).lines /\ token'.next \in Nat /\ token'.leading \in Nat
        <5>1. IsMeasured(Block(index))
          BY <2>2, TypedFacts, DocumentFacts
        <5>2. Block(index).lines \in Nat
          BY <5>1 DEF IsMeasured
        <5>3. token'.next = token.next + Answer.count /\ token'.next # Block(index).lines
          BY <2>3, <2>6, <3>1
        <5>. QED BY <2>2, <2>3, <3>1, <5>2, <5>3
      <4>. QED BY <2>1, <3>1, <4>1, <4>2 DEF Located, BlockCount, Block
    <3>3. Positioned'
      BY <2>1, <3>1 DEF Typed, Positioned, AtText, Planning, BlockCount, Block, IsBreak
    <3>4. Flagged'
      BY <1>1, <2>1, <2>4, <3>1, Zenon DEF Flagged
    <3>5. Announced'
      <4>1. Answer.reason \in {"explicit", "constraint", "space", "overflow"}
        BY <2>3, Zenon DEF FlagsAndReason
      <4>. QED BY <2>4, <3>1, <4>1 DEF Announced, NoBreak
    <3>. QED BY <2>1, <2>2, <2>3, <3>2, <3>3, <3>4, <3>5, TypedPlaced, Zenon DEF FlagsAndReason
  <2>. QED BY <2>5, <2>6
<1>14. ASSUME Finish PROVE Typed'
  <2>1. index = BlockCount + 1 /\ Fail("planned")
    <3>1. index > BlockCount /\ Fail("planned")
      BY <1>14 DEF Finish
    <3>2. index \in 1 .. BlockCount + 1 /\ BlockCount \in Nat
      BY TypedFacts, IndexFacts
    <3>. QED BY <3>1, <3>2
  <2>. QED BY <1>3, <2>1
<1>15. ASSUME UNCHANGED vars PROVE Typed'
  <2>1. UNCHANGED <<doc, cursor, region, page, regionEmpty, fragments, turning, pendingBreak,
                    explicitBreakPending, keepTooLarge, outcome>>
    BY <1>15 DEF vars, region, plan
  <2>2. Located' /\ Positioned' /\ Measured' /\ Reported'
    BY <2>1, CursorKept, PositionKept, MeasureKept, ReportKept
  <2>3. Flagged' /\ Announced'
    BY <1>1, <2>1, FlagsKept
  <2>. QED BY <2>1, <2>2, <2>3, TypedUnplaced
<1>. QED BY <1>2, <1>4, <1>5, <1>6, <1>7, <1>8, <1>9, <1>10, <1>11, <1>12, <1>13, <1>14, <1>15,
            Zenon DEF Next, Stopped

(* Positions, flags, pending break and recorded fragments have their types *)
(* in every state of the loop (paper.go,                                   *)
(* planPaperTextBlocksMappedBodiesContext).                                *)
THEOREM TypeCorrect == Spec => []TypeOK
<1>1. Typed => TypeOK
  BY Zenon DEF Typed
<1>. QED BY <1>1, InitIsFresh, TypedInit, TypedNext, PTL DEF Spec

-----------------------------------------------------------------------------
(* The lines of the document, in order.                                    *)

(* A fragment, once placed, keeps its place.                               *)
LEMMA FragmentFacts ==
  ASSUME Typed
  PROVE  /\ Len(fragments) \in Nat /\ DOMAIN fragments = 1 .. Len(fragments)
         /\ \A i \in 1 .. Len(fragments) :
              /\ fragments[i] \in Fragment
              /\ fragments[i].block \in Nat /\ fragments[i].first \in Nat
              /\ fragments[i].count \in Nat \ {0}
              /\ fragments[i].block \in 1 .. BlockCount
<1>1. fragments \in Seq(Fragment)
  BY TypedFacts
<1>2. Recorded
  BY TypeParts, Zenon DEF Typed
<1>3. Len(fragments) \in Nat /\ DOMAIN fragments = 1 .. Len(fragments)
  BY <1>1
<1>4. ASSUME NEW i \in 1 .. Len(fragments)
      PROVE  /\ fragments[i] \in Fragment
             /\ fragments[i].block \in Nat /\ fragments[i].first \in Nat
             /\ fragments[i].count \in Nat \ {0}
             /\ fragments[i].block \in 1 .. BlockCount
  <2>1. fragments[i] \in Fragment
    BY <1>1, <1>3
  <2>2. fragments[i].block \in 1 .. BlockCount
    BY <1>2, <1>3 DEF Recorded
  <2>. QED BY <2>1, <2>2 DEF Fragment
<1>. QED BY <1>3, <1>4, Zenon

(* A step that places nothing and does not move to another block or line.  *)
LEMMA OrderUnmoved ==
  ASSUME Typed, Chained, Frontier, UNCHANGED <<doc, fragments, index>>, token'.next = token.next
  PROVE  Chained' /\ Frontier'
<1>1. Chained'
  BY DEF Chained, LeadsTo, Block, IsBreak
<1>2. Frontier'
  BY DEF Frontier, LeadsTo, Block, IsBreak
<1>. QED BY <1>1, <1>2

(* A step that places lines of the block from the token on.                *)
LEMMA OrderPlaced ==
  ASSUME Typed, Chained, Frontier, UNCHANGED doc, index \in 1 .. BlockCount,
         NEW count \in Nat \ {0},
         NEW relaxedOrphans \in BOOLEAN, NEW relaxedWidows \in BOOLEAN,
         token.next + count <= Block(index).lines,
         Place(token.next, count, relaxedOrphans, relaxedWidows),
         \/ index' = index /\ token'.next = token.next + count
         \/ /\ index' = index + 1 /\ token'.next = 0
            /\ token.next + count = Block(index).lines
  PROVE  Chained' /\ Frontier'
<1> DEFINE n == Len(fragments)
           new == [block |-> index, first |-> token.next, count |-> count, page |-> page,
                   relaxedOrphans |-> relaxedOrphans, relaxedWidows |-> relaxedWidows]
<1>1. token.next \in Nat /\ n \in Nat /\ index \in Nat
  BY TypedFacts, FragmentFacts, IndexFacts
<1>2. /\ Len(fragments') = n + 1
      /\ \A i \in 1 .. n : fragments'[i] = fragments[i]
      /\ fragments'[n + 1] = new
  BY <1>1, PlaceExtends, ZenonT(30)
<1>3. new.block = index /\ new.first = token.next /\ new.count = count
  OBVIOUS
<1> HIDE DEF n, new
<1>4. Chained'
  <2>1. ASSUME NEW i \in 2 .. n + 1
        PROVE  LeadsTo(fragments'[i - 1], fragments'[i].block, fragments'[i].first)
    <3>1. CASE i = n + 1
      <4>1. n > 0 /\ i - 1 = n /\ n \in 1 .. n
        BY <1>1, <3>1
      <4>2. fragments'[i - 1] = fragments[n] /\ fragments'[i] = new
        BY <1>1, <1>2, <3>1, <4>1
      <4>. QED BY <1>3, <4>1, <4>2 DEF Frontier, n
    <3>2. CASE i \in 2 .. n
      <4>1. i \in 1 .. n /\ i - 1 \in 1 .. n
        BY <1>1, <3>2
      <4>2. fragments'[i - 1] = fragments[i - 1] /\ fragments'[i] = fragments[i]
        BY <1>2, <4>1
      <4>. QED BY <3>2, <4>2 DEF Chained, n
    <3>. QED BY <1>1, <3>1, <3>2
  <2>2. fragments'[1].first = 0 /\ \A i \in 1 .. fragments'[1].block - 1 : IsBreak(i)
    <3>1. CASE n = 0
      BY <1>2, <1>3, <3>1 DEF Frontier, n
    <3>2. CASE n > 0
      <4>1. fragments'[1] = fragments[1]
        BY <1>1, <1>2, <3>2
      <4>. QED BY <3>2, <4>1 DEF Chained, n
    <3>. QED BY <1>1, <3>1, <3>2
  <2>. QED BY <1>2, <2>1, <2>2 DEF Chained, LeadsTo, Block, IsBreak
<1>5. Frontier'
  <2>1. Len(fragments') # 0 /\ fragments'[Len(fragments')] = new
    BY <1>1, <1>2
  <2>2. LeadsTo(new, index', token'.next)
    BY <1>1, <1>3 DEF LeadsTo
  <2>. QED BY <2>1, <2>2 DEF Frontier, LeadsTo, Block, IsBreak
<1>. QED BY <1>4, <1>5

(* An explicit break is passed over.                                       *)
LEMMA OrderPassed ==
  ASSUME Typed, Chained, Frontier, UNCHANGED <<doc, fragments>>,
         index \in 1 .. BlockCount, IsBreak(index), token.next = 0,
         index' = index + 1, token'.next = 0
  PROVE  Chained' /\ Frontier'
<1>1. Chained'
  BY DEF Chained, LeadsTo, Block, IsBreak
<1>2. index \in Nat /\ index' - 1 = index
  BY IndexFacts
<1>3. ASSUME Len(fragments) = 0 PROVE Frontier'
  BY <1>2, <1>3 DEF Frontier, Block, IsBreak
<1>4. ASSUME Len(fragments) # 0 PROVE Frontier'
  <2> DEFINE f == fragments[Len(fragments)]
  <2>1. /\ LeadsTo(f, index, 0) /\ f.block \in Nat /\ f.first \in Nat /\ f.count \in Nat \ {0}
    <3>1. Len(fragments) \in 1 .. Len(fragments)
      BY <1>4, FragmentFacts
    <3>. QED BY <1>4, <3>1, FragmentFacts DEF Frontier
  <2> HIDE DEF f
  <2>2. /\ f.block < index
        /\ f.first + f.count = Block(f.block).lines
        /\ \A i \in f.block + 1 .. index - 1 : IsBreak(i)
    BY <2>1 DEF LeadsTo
  <2>3. f.block < index + 1 /\ \A i \in f.block + 1 .. index : IsBreak(i)
    BY <1>2, <2>1, <2>2
  <2>. QED BY <1>2, <1>4, <2>2, <2>3 DEF f, Frontier, LeadsTo, Block, IsBreak
<1>. QED BY <1>1, <1>3, <1>4

LEMMA OrderInit == Fresh => Chained /\ Frontier
BY DEF Fresh, Chained, Frontier, Start

LEMMA OrderNext ==
  Typed /\ Chained /\ Frontier /\ [Next]_vars => Chained' /\ Frontier'
<1> SUFFICES ASSUME Typed, Chained, Frontier, [Next]_vars PROVE Chained' /\ Frontier'
  OBVIOUS
<1>1. CASE NoteExplicitBreak
  <2>1. AtBlock /\ IsBreak(index) /\ NextBlock /\ UNCHANGED <<doc, fragments>>
    BY <1>1 DEF NoteExplicitBreak, plan
  <2>2. index' = index + 1 /\ token'.next = 0
    BY <2>1 DEF NextBlock, Start
  <2>. QED BY <2>1, <2>2, AtBlockFacts, OrderPassed
<1>2. CASE PlaceWhole
  <2>1. at = "whole" /\ Place(0, 1, FALSE, FALSE) /\ NextBlock /\ UNCHANGED doc
    BY <1>2 DEF PlaceWhole
  <2>2. index' = index + 1 /\ token'.next = 0
    BY <2>1 DEF NextBlock, Start
  <2>3. index \in 1 .. BlockCount /\ Block(index).lines = 1 /\ token.next = 0
    <3>1. index <= BlockCount /\ Block(index).lines = 1 /\ token.next < 1 /\ token.next \in Nat
      BY <2>1, TypedFacts
    <3>. QED BY <3>1, IndexFacts
  <2>4. FALSE \in BOOLEAN /\ 1 \in Nat \ {0} /\ 0 + 1 <= 1 /\ 0 + 1 = 1
    OBVIOUS
  <2>. QED BY <2>1, <2>2, <2>3, <2>4, OrderPlaced, Zenon
<1>3. CASE PlaceText
  <2>1. /\ AtText /\ SpaceIsValid(Space) /\ Answer.action = "place"
        /\ Place(token.next, Answer.count, Answer.relaxedOrphans, Answer.relaxedWidows)
        /\ UNCHANGED doc
    BY <1>3 DEF PlaceText
  <2>2. index \in 1 .. BlockCount
    BY <2>1, TextFacts
  <2>3. /\ Answer.count \in Nat \ {0}
        /\ token.next + Answer.count <= Block(index).lines
        /\ Answer.done <=> token.next + Answer.count = Block(index).lines
        /\ Answer.next.next = token.next + Answer.count
        /\ FlagsAndReason(Answer)
    BY <2>1, AnswerFacts, Zenon
  <2>4. \/ index' = index /\ token'.next = token.next + Answer.count
        \/ /\ index' = index + 1 /\ token'.next = 0
           /\ token.next + Answer.count = Block(index).lines
    <3>1. CASE Answer.done
      <4>1. NextBlock
        BY <1>3, <3>1, Zenon DEF PlaceText
      <4>. QED BY <2>3, <3>1, <4>1 DEF NextBlock, Start
    <3>2. CASE ~Answer.done
      <4>1. token' = Answer.next /\ index' = index
        BY <1>3, <3>2, Zenon DEF PlaceText
      <4>. QED BY <2>3, <4>1
    <3>. QED BY <3>1, <3>2
  <2>. QED BY <2>1, <2>2, <2>3, <2>4, OrderPlaced, Zenon DEF FlagsAndReason
<1>4. CASE \/ AdvanceBodyPage \/ ExceedPageLimit \/ TakeExplicitBreak \/ CheckKeep
           \/ RejectTallBlock \/ FitWhole \/ RejectSpace \/ DeferText \/ Finish
           \/ UNCHANGED vars
  <2>1. UNCHANGED <<doc, fragments, index>> /\ token' = token
    BY <1>4, Zenon DEF AdvanceBodyPage, ExceedPageLimit, TakeExplicitBreak, CheckKeep,
       RejectTallBlock, FitWhole, RejectSpace, DeferText, Finish, Fail, vars, cursor, plan
  <2>. QED BY <2>1, OrderUnmoved
<1>. QED BY <1>1, <1>2, <1>3, <1>4, Zenon DEF Next, Stopped

LEMMA OrderHolds == Typed /\ Chained /\ Frontier => LinesInOrder
<1> SUFFICES ASSUME Typed, Chained, Frontier PROVE LinesInOrder
  OBVIOUS
<1>1. fragments = <<>> <=> Len(fragments) = 0
  BY TypedFacts
<1>2. outcome = "planned" => index = BlockCount + 1 /\ token.next = 0 /\ BlockCount \in Nat
  <2>1. outcome = "planned" => index = BlockCount + 1
    BY TypedFacts
  <2>2. index = BlockCount + 1 => at = "block"
    BY TypedFacts, IndexFacts
  <2>. QED BY <2>1, <2>2, TypedFacts, IndexFacts
<1>3. CASE fragments = <<>>
  BY <1>1, <1>2, <1>3 DEF Frontier, LinesInOrder
<1>4. CASE fragments # <<>>
  BY <1>1, <1>2, <1>4 DEF Chained, Frontier, LinesInOrder
<1>. QED BY <1>3, <1>4

(* Every line of every document is placed exactly once and in order        *)
(* (paper.go, the fragment loop; paragraph.go, placedResult).              *)
THEOREM LinesStayInOrder == Spec => []LinesInOrder
BY InitIsFresh, TypedInit, TypedNext, OrderInit, OrderNext, OrderHolds, PTL DEF Spec

-----------------------------------------------------------------------------
(* The constraints of the paragraphs.                                      *)

(* The cut between two fragments of a paragraph.                           *)
Cut(before, after) ==
  before.block = after.block =>
    /\ before.count >= Policy(before.block).orphans \/ before.relaxedOrphans
    /\ \/ after.count >= Policy(after.block).widows
       \/ before.relaxedWidows \/ after.relaxedWidows

CutsReported == \A i \in 2 .. Len(fragments) : Cut(fragments[i - 1], fragments[i])

(* The widows were promised to this region, which has room for them.       *)
WidowsKept ==
  LET p == Policy(index)
  IN /\ token.leading = p.widows /\ Rest(p, token) >= p.widows
     /\ Height(p, token.next, p.widows) <= IF turning THEN Body(page + 1) ELSE available

(* What holds in the middle of a paragraph, after its last fragment.       *)
Halfway(last) ==
  /\ last.count >= Policy(index).orphans \/ last.relaxedOrphans
  /\ last.relaxedWidows \/ WidowsKept
  /\ turning \/ regionEmpty

Promise ==
  \A last \in Fragment :
    /\ Len(fragments) > 0 /\ fragments[Len(fragments)] = last /\ last.block = index
    => Halfway(last)

(* In the middle of a paragraph the iteration is at its text.              *)
LEMMA HalfwayIsText ==
  ASSUME Typed, Frontier, Len(fragments) > 0, fragments[Len(fragments)].block = index
  PROVE  token.next > 0 /\ at = "content" /\ index \in 1 .. BlockCount /\ Block(index).kind = "text"
<1> DEFINE f == fragments[Len(fragments)]
<1>1. /\ LeadsTo(f, index, token.next) /\ f.block \in Nat
      /\ f.first \in Nat /\ f.count \in Nat \ {0}
  <2>1. Len(fragments) \in 1 .. Len(fragments)
    BY FragmentFacts
  <2>. QED BY <2>1, FragmentFacts DEF Frontier
<1>2. token.next \in Nat /\ token.next = f.first + f.count
  BY <1>1, TypedFacts DEF LeadsTo
<1>3. token.next > 0
  BY <1>1, <1>2
<1>4. at # "block" /\ index <= BlockCount /\ token.next < Block(index).lines
  BY <1>3, TypedFacts
<1>5. index \in 1 .. BlockCount
  BY <1>4, IndexFacts
<1>6. IsMeasured(Block(index))
  BY <1>5, TypedFacts, DocumentFacts
<1>7. Block(index).lines # 1
  BY <1>2, <1>3, <1>4, <1>6 DEF IsMeasured
<1>8. at = "content"
  BY <1>4, <1>7, TypedFacts
<1>. QED BY <1>3, <1>5, <1>6, <1>7, <1>8 DEF IsMeasured

(* Outside the middle of a paragraph nothing is promised.                  *)
LEMMA NoPromise ==
  ASSUME Typed, Frontier, CutsReported, UNCHANGED <<doc, fragments, index>>,
         at # "content" \/ Block(index).kind # "text"
  PROVE  CutsReported' /\ Promise'
<1>1. CutsReported'
  BY DEF CutsReported, Cut, Policy, Block
<1>2. ~(Len(fragments) > 0 /\ fragments[Len(fragments)].block = index)
  BY HalfwayIsText
<1>3. Promise'
  BY <1>2 DEF Promise
<1>. QED BY <1>1, <1>3

(* A fragment that ends its block, or is not the first of it.              *)
LEMMA CutsPlaced ==
  ASSUME Typed, CutsReported, UNCHANGED doc, index \in 1 .. BlockCount,
         NEW first \in Nat, NEW count \in Nat \ {0},
         NEW relaxedOrphans \in BOOLEAN, NEW relaxedWidows \in BOOLEAN,
         first + count <= Block(index).lines,
         Place(first, count, relaxedOrphans, relaxedWidows),
         Len(fragments) > 0 =>
           Cut(fragments[Len(fragments)],
               [block |-> index, first |-> first, count |-> count, page |-> page,
                relaxedOrphans |-> relaxedOrphans, relaxedWidows |-> relaxedWidows])
  PROVE  CutsReported'
<1> DEFINE n == Len(fragments)
           new == [block |-> index, first |-> first, count |-> count, page |-> page,
                   relaxedOrphans |-> relaxedOrphans, relaxedWidows |-> relaxedWidows]
<1>1. /\ Len(fragments') = n + 1
      /\ \A i \in 1 .. n : fragments'[i] = fragments[i]
      /\ fragments'[n + 1] = new
  BY PlaceExtends, Zenon
<1>2. n \in Nat
  BY FragmentFacts
<1>3. n > 0 => Cut(fragments[n], new)
  OBVIOUS
<1> HIDE DEF n, new
<1>4. ASSUME NEW i \in 2 .. n + 1
      PROVE  Cut(fragments'[i - 1], fragments'[i])
  <2>1. CASE i = n + 1
    <3>1. n > 0 /\ i - 1 = n /\ n \in 1 .. n
      BY <1>2, <2>1
    <3>2. fragments'[i - 1] = fragments[n] /\ fragments'[i] = new
      BY <1>1, <2>1, <3>1
    <3>. QED BY <1>3, <3>1, <3>2
  <2>2. CASE i \in 2 .. n
    <3>1. i \in 1 .. n /\ i - 1 \in 1 .. n
      BY <1>2, <2>2
    <3>2. fragments'[i - 1] = fragments[i - 1] /\ fragments'[i] = fragments[i]
      BY <1>1, <3>1
    <3>. QED BY <2>2, <3>2 DEF CutsReported, n
  <2>. QED BY <1>2, <2>1, <2>2
<1>. QED BY <1>1, <1>4 DEF CutsReported, Cut, Policy, Block

LEMMA CutsInit == Fresh => CutsReported /\ Promise
BY DEF Fresh, CutsReported, Promise

(* The next page: its body is the height the promise was made with.        *)
LEMMA CutsAdvance ==
  ASSUME Typed, CutsReported, Promise, AdvanceBodyPage
  PROVE  CutsReported' /\ Promise'
<1>1. /\ UNCHANGED <<doc, index, token, fragments>>
      /\ turning' = FALSE /\ available' = Body(page + 1) /\ regionEmpty' = TRUE
  BY DEF AdvanceBodyPage, cursor, plan
<1>2. CutsReported'
  BY <1>1 DEF CutsReported, Cut, Policy, Block
<1>3. turning = TRUE
  <2>1. turning \in BOOLEAN /\ turning
    BY TypeParts, Zenon DEF Typed, Flagged, AdvanceBodyPage
  <2>. QED BY <2>1
<1>4. ASSUME NEW last \in Fragment, Halfway(last)
      PROVE  Halfway(last)'
  <2>1. WidowsKept => WidowsKept'
    BY <1>1, <1>3 DEF WidowsKept, Policy, Block
  <2>2. Policy(index)' = Policy(index)
    BY <1>1 DEF Policy, Block
  <2>. QED BY <1>1, <1>4, <2>1, <2>2, Zenon DEF Halfway
<1>5. Promise'
  BY <1>1, <1>4, Zenon DEF Promise
<1>. QED BY <1>2, <1>5

(* In the middle of a paragraph the region is empty, so it is used.        *)
LEMMA CutsDefer ==
  ASSUME Typed, Frontier, CutsReported, Promise, DeferText
  PROVE  CutsReported' /\ Promise'
<1>1. /\ AtText /\ SpaceIsValid(Space) /\ Answer.action = "defer"
      /\ UNCHANGED <<doc, index, fragments>>
  BY DEF DeferText, cursor, plan
<1>2. ~regionEmpty
  BY <1>1, TextFacts, EmptyRegionsAreUsed DEF Answer, Space
<1>3. ~turning
  BY <1>1, Zenon DEF AtText, Planning
<1>4. ~(Len(fragments) > 0 /\ fragments[Len(fragments)].block = index)
  <2> SUFFICES ASSUME Len(fragments) > 0, fragments[Len(fragments)].block = index PROVE FALSE
    OBVIOUS
  <2>1. fragments[Len(fragments)] \in Fragment
    BY FragmentFacts
  <2>2. Halfway(fragments[Len(fragments)])
    BY <2>1, Zenon DEF Promise
  <2>. QED BY <1>2, <1>3, <2>2, Zenon DEF Halfway
<1>5. CutsReported'
  BY <1>1 DEF CutsReported, Cut, Policy, Block
<1>6. Promise'
  BY <1>1, <1>4 DEF Promise
<1>. QED BY <1>5, <1>6

LEMMA CutsWhole ==
  ASSUME Typed, Frontier, CutsReported, Promise, PlaceWhole
  PROVE  CutsReported' /\ Promise'
<1>1. at = "whole" /\ Place(0, 1, FALSE, FALSE) /\ index' = index + 1 /\ UNCHANGED doc
  BY DEF PlaceWhole, NextBlock
<1>2. index \in 1 .. BlockCount /\ Block(index).lines = 1
  <2>1. index <= BlockCount /\ Block(index).lines = 1
    BY <1>1, TypedFacts
  <2>. QED BY <2>1, IndexFacts
<1>3. ~(Len(fragments) > 0 /\ fragments[Len(fragments)].block = index)
  BY <1>1, HalfwayIsText
<1>4. FALSE \in BOOLEAN /\ 0 \in Nat /\ 1 \in Nat \ {0} /\ 0 + 1 <= 1
  OBVIOUS
<1> DEFINE new == [block |-> index, first |-> 0, count |-> 1, page |-> page,
                   relaxedOrphans |-> FALSE, relaxedWidows |-> FALSE]
<1>5. new.block = index
  OBVIOUS
<1>6. Len(fragments) > 0 => Cut(fragments[Len(fragments)], new)
  <2> HIDE DEF new
  <2>. QED BY <1>3, <1>5 DEF Cut
<1>7. CutsReported'
  BY <1>1, <1>2, <1>4, <1>6, CutsPlaced, Zenon
<1>8. Promise'
  <2>1. Len(fragments') = Len(fragments) + 1 /\ fragments'[Len(fragments) + 1] = new
    BY <1>1, <1>2, <1>4, PlaceExtends, Zenon
  <2>2. index \in Nat
    BY <1>2
  <2> HIDE DEF new
  <2>. QED BY <1>1, <1>5, <2>1, <2>2 DEF Promise
<1>. QED BY <1>7, <1>8

(* The next fragment of a paragraph keeps the promise, and makes the next. *)
LEMMA CutsText ==
  ASSUME Typed, Frontier, CutsReported, Promise, PlaceText
  PROVE  CutsReported' /\ Promise'
<1> DEFINE p == Policy(index)
           new == [block |-> index, first |-> token.next, count |-> Answer.count, page |-> page,
                   relaxedOrphans |-> Answer.relaxedOrphans,
                   relaxedWidows |-> Answer.relaxedWidows]
<1>1. /\ AtText /\ SpaceIsValid(Space) /\ Answer.action = "place"
      /\ Place(token.next, Answer.count, Answer.relaxedOrphans, Answer.relaxedWidows)
      /\ UNCHANGED doc
  BY DEF PlaceText
<1>2. /\ index \in 1 .. BlockCount /\ token.next \in Nat
      /\ IsParagraph(p) /\ IsSpace(Space) /\ IsToken(p, token)
  BY <1>1, TextFacts, TypedFacts, Zenon
<1>3. /\ Answer.count \in Nat \ {0}
      /\ token.next + Answer.count <= Block(index).lines
      /\ Answer.relaxedOrphans \in BOOLEAN /\ Answer.relaxedWidows \in BOOLEAN
  BY <1>1, AnswerFacts, Zenon DEF FlagsAndReason
<1>4. /\ new.block = index /\ new.count = Answer.count
      /\ new.relaxedOrphans = Answer.relaxedOrphans
      /\ new.relaxedWidows = Answer.relaxedWidows
  OBVIOUS
<1>5. turning \in BOOLEAN /\ ~turning
  BY <1>1, TypeParts, Zenon DEF Typed, Flagged, AtText, Planning
<1>6. /\ Len(fragments') = Len(fragments) + 1
      /\ fragments'[Len(fragments) + 1] = new
  <2>1. PICK count, few, broken :
          /\ count = Answer.count
          /\ few = Answer.relaxedOrphans /\ broken = Answer.relaxedWidows
    OBVIOUS
  <2>2. /\ count \in Nat \ {0} /\ few \in BOOLEAN /\ broken \in BOOLEAN
        /\ token.next + count <= Block(index).lines
        /\ Place(token.next, count, few, broken)
    BY <1>1, <1>3, <2>1, Zenon
  <2>3. /\ Len(fragments') = Len(fragments) + 1
        /\ fragments'[Len(fragments) + 1] =
             [block |-> index, first |-> token.next, count |-> count, page |-> page,
              relaxedOrphans |-> few, relaxedWidows |-> broken]
    BY <1>2, <2>2, PlaceExtends, ZenonT(30)
  <2>. QED BY <2>1, <2>3, Zenon
<1>7. Len(fragments) > 0 => Cut(fragments[Len(fragments)], new)
  <2> HIDE DEF new
  <2> SUFFICES ASSUME Len(fragments) > 0, fragments[Len(fragments)].block = index
               PROVE  Cut(fragments[Len(fragments)], new)
    BY <1>4 DEF Cut
  <2> DEFINE last == fragments[Len(fragments)]
  <2>1. last \in Fragment
    BY FragmentFacts
  <2>2. Halfway(last)
    BY <2>1, Zenon DEF Promise
  <2> HIDE DEF last
  <2>3. WidowsKept => Answer.count >= p.widows \/ Answer.relaxedWidows
    <3> SUFFICES ASSUME WidowsKept
                 PROVE  Answer.count >= p.widows \/ Answer.relaxedWidows
      OBVIOUS
    <3>1. /\ token.leading = p.widows /\ Rest(p, token) >= p.widows
          /\ Height(p, token.next, p.widows) <= Space.available
      BY <1>5 DEF WidowsKept, Space
    <3> HIDE DEF p
    <3>2. Answer = FragmentContext(p, Space, token)
      BY DEF Answer, p
    <3>. QED BY <1>1, <1>2, <3>1, <3>2, WidowsReceived
  <2>4. last.block = index
    BY DEF last
  <2>5. Cut(last, new)
    BY <1>4, <2>2, <2>3, <2>4, Zenon DEF Cut, Halfway
  <2>. QED BY <2>5 DEF last
<1>8. CutsReported'
  BY <1>1, <1>2, <1>3, <1>7, CutsPlaced, Zenon
<1>9. Promise'
  <2>1. CASE Answer.done
    <3>1. index' = index + 1 /\ index \in Nat
      BY <1>2, <2>1 DEF PlaceText, NextBlock
    <3> HIDE DEF new
    <3>. QED BY <1>4, <1>6, <3>1, FragmentFacts DEF Promise
  <2>2. CASE ~Answer.done
    <3>1. token' = Answer.next /\ index' = index /\ turning' = TRUE
      BY <2>2, Zenon DEF PlaceText
    <3>2. Policy(index)' = p
      BY <1>1, <3>1 DEF Policy, Block
    <3>3. Answer = FragmentContext(p, Space, token)
      BY DEF Answer
    <3> HIDE DEF p
    <3>4. Answer.count >= p.orphans \/ Answer.relaxedOrphans
      BY <1>1, <1>2, <2>2, <3>3, OrphansHonoured
    <3>5. \/ Answer.relaxedWidows
          \/ /\ Answer.next.leading = p.widows
             /\ Rest(p, Answer.next) >= p.widows
             /\ Height(p, Answer.next.next, p.widows) <= Space.following
      BY <1>1, <1>2, <2>2, <3>3, WidowsPromised
    <3>6. Space.following = Body(page + 1) /\ Body(page + 1)' = Body(page + 1)
      BY <1>1 DEF Space, Body, Place
    <3>7. Answer.relaxedWidows \/ WidowsKept'
      BY <3>1, <3>2, <3>5, <3>6 DEF WidowsKept
    <3> HIDE DEF new
    <3>8. ASSUME NEW last, last = new PROVE Halfway(last)'
      BY <1>4, <3>1, <3>2, <3>4, <3>7, <3>8 DEF Halfway
    <3>. QED BY <1>6, <3>8 DEF Promise
  <2>. QED BY <2>1, <2>2
<1>. QED BY <1>8, <1>9

LEMMA CutsNext ==
  Typed /\ Frontier /\ CutsReported /\ Promise /\ [Next]_vars => CutsReported' /\ Promise'
<1> SUFFICES ASSUME Typed, Frontier, CutsReported, Promise, [Next]_vars
             PROVE  CutsReported' /\ Promise'
  OBVIOUS
<1>1. CASE AdvanceBodyPage
  BY <1>1, CutsAdvance
<1>2. CASE PlaceWhole
  BY <1>2, CutsWhole
<1>3. CASE DeferText
  BY <1>3, CutsDefer
<1>4. CASE PlaceText
  BY <1>4, CutsText
<1>5. CASE NoteExplicitBreak
  <2>1. AtBlock /\ index' = index + 1 /\ UNCHANGED <<doc, fragments>>
    BY <1>5 DEF NoteExplicitBreak, NextBlock, plan
  <2>2. CutsReported'
    BY <2>1 DEF CutsReported, Cut, Policy, Block
  <2>3. ASSUME Len(fragments) > 0 PROVE fragments[Len(fragments)].block < index + 1
    <3> DEFINE f == fragments[Len(fragments)]
    <3>1. /\ LeadsTo(f, index, token.next) /\ f.block \in Nat /\ index \in Nat
      <4>1. Len(fragments) \in 1 .. Len(fragments)
        BY <2>3, FragmentFacts
      <4>. QED BY <2>3, <4>1, FragmentFacts, IndexFacts DEF Frontier
    <3>. QED BY <3>1 DEF LeadsTo
  <2>4. Promise'
    BY <2>1, <2>3 DEF Promise
  <2>. QED BY <2>2, <2>4
<1>6. CASE TakeExplicitBreak \/ CheckKeep
  <2>1. AtBlock /\ UNCHANGED <<doc, fragments, index>>
    BY <1>6, Zenon DEF TakeExplicitBreak, CheckKeep, cursor, plan
  <2>2. at = "block"
    BY <2>1, AtBlockFacts
  <2>. QED BY <2>1, <2>2, NoPromise
<1>7. CASE FitWhole
  <2>1. Block(index).kind \in {"box", "canvas"} /\ UNCHANGED <<doc, fragments, index>>
    BY <1>7, Zenon DEF FitWhole, AtWhole, plan
  <2>. QED BY <2>1, NoPromise
<1>8. CASE \/ ExceedPageLimit \/ RejectTallBlock \/ RejectSpace \/ Finish \/ UNCHANGED vars
  <2>1. UNCHANGED <<doc, fragments, index, token, turning, page, available, regionEmpty>>
    BY <1>8, Zenon DEF ExceedPageLimit, RejectTallBlock, RejectSpace, Finish, Fail, vars, cursor,
       region, plan
  <2>2. CutsReported'
    BY <2>1 DEF CutsReported, Cut, Policy, Block
  <2>3. ASSUME NEW last \in Fragment, Halfway(last) PROVE Halfway(last)'
    <3>1. WidowsKept' <=> WidowsKept
      BY <2>1 DEF WidowsKept, Policy, Block, Body
    <3>2. Policy(index)' = Policy(index)
      BY <2>1 DEF Policy, Block
    <3>. QED BY <2>1, <2>3, <3>1, <3>2, Zenon DEF Halfway
  <2>4. Promise'
    BY <2>1, <2>3, Zenon DEF Promise
  <2>. QED BY <2>2, <2>4
<1>. QED BY <1>1, <1>2, <1>3, <1>4, <1>5, <1>6, <1>7, <1>8, Zenon DEF Next, Stopped

LEMMA CutsHold == CutsReported => RelaxationsReported
BY DEF CutsReported, Cut, RelaxationsReported

(* Where a paragraph is cut, its orphans are before the cut and its widows *)
(* after it, or the plan reports that they are not (paragraph.go,          *)
(* FragmentContext, and the text loop of paper.go between two answers).    *)
THEOREM CutsAreReported == Spec => []RelaxationsReported
BY InitIsFresh, TypedInit, TypedNext, OrderInit, OrderNext, CutsInit, CutsNext, CutsHold, PTL DEF Spec

-----------------------------------------------------------------------------
(* The turns of the page.                                                  *)

Reasons == {"explicit", "constraint", "space", "overflow"}
Break == [reason : Reasons, preceding : Nat, triggering : Nat, fromPage : Int, toPage : Int]

(* What is on record explains the turns between the fragments placed.      *)
TurnsRecorded ==
  /\ breaks \in Seq(Break)
  /\ \A b \in 1 .. Len(breaks) : breaks[b].triggering <= Len(fragments)
  /\ Len(fragments) > 0 => fragments[1].page = 1
  /\ \A i \in 2 .. Len(fragments) : TurnExplained(i)
  /\ pages \in Seq(Nat) /\ \A n \in 1 .. Len(pages) : pages[n] = n

(* Nothing is placed: no page was turned, and no break is remembered.      *)
AtTheStart ==
  /\ page = 1 /\ regionEmpty /\ ~turning /\ pendingBreak = NoBreak /\ ~explicitBreakPending
  /\ Len(pages) = 0

(* After the last fragment: an empty page was turned to for the block that *)
(* comes next, and a turn that is announced or made is explicit exactly if *)
(* a break was passed.                                                     *)
After(last) ==
  /\ Len(pages) = last.page
  /\ regionEmpty => /\ ~turning /\ page = last.page + 1 /\ pendingBreak # NoBreak
                    /\ index <= BlockCount /\ ~IsBreak(index) /\ ~explicitBreakPending
  /\ ~regionEmpty => page = last.page /\ (turning \/ pendingBreak = NoBreak)
  /\ turning => ~regionEmpty /\ index <= BlockCount /\ ~IsBreak(index) /\ ~explicitBreakPending
  /\ pendingBreak # NoBreak => (pendingBreak.reason = "explicit" <=> BreakBetween(last.block, index))
  /\ pendingBreak = NoBreak => (explicitBreakPending <=> BreakBetween(last.block, index))
  /\ at # "block" => ~explicitBreakPending

Standing ==
  IF Len(fragments) = 0 THEN AtTheStart ELSE After(fragments[Len(fragments)])

Turned == TurnsRecorded /\ Standing

LEMMA TurnsInit == Fresh => Turned
BY DEF Fresh, Turned, TurnsRecorded, Standing, AtTheStart

(* Where an announced turn stands.                                         *)
LEMMA PendingFacts ==
  ASSUME Typed
  PROVE  /\ pendingBreak # NoBreak =>
              /\ pendingBreak.reason \in {"explicit", "constraint", "space", "overflow"}
              /\ pendingBreak.fromPage = IF turning THEN page ELSE page - 1
              /\ pendingBreak.preceding = Len(fragments)
         /\ turning => pendingBreak # NoBreak
         /\ turning \in BOOLEAN /\ regionEmpty \in BOOLEAN /\ explicitBreakPending \in BOOLEAN
BY TypeParts, Zenon DEF Typed, Announced, Flagged

(* Steps that place nothing keep the record.                               *)
LEMMA RecordKept ==
  ASSUME TurnsRecorded, UNCHANGED <<doc, plan>>
  PROVE  TurnsRecorded'
<1>1. doc' = doc /\ fragments' = fragments /\ pages' = pages /\ breaks' = breaks
  BY DEF plan
<1>2. ASSUME NEW i \in 2 .. Len(fragments) PROVE TurnExplained(i)'
  <2>1. DecisionsBefore(i)' = DecisionsBefore(i)
    BY <1>1 DEF DecisionsBefore
  <2>2. PICK before, after : before = fragments[i - 1].block /\ after = fragments[i].block
    OBVIOUS
  <2>3. BreakBetween(before, after)' = BreakBetween(before, after)
    BY <1>1 DEF BreakBetween, IsBreak, Block
  <2>4. TurnExplained(i)
    BY DEF TurnsRecorded
  <2>. QED BY <1>1, <2>1, <2>2, <2>3, <2>4 DEF TurnExplained
<1>. QED BY <1>1, <1>2 DEF TurnsRecorded

(* A turn is announced for a block that is no break, from a page that is   *)
(* not empty and with no explicit break to come.                           *)
LEMMA TurnAnnounced ==
  ASSUME Typed, Turned, ~turning, ~regionEmpty, index <= BlockCount, ~IsBreak(index),
         NEW reason \in {"explicit", "constraint", "space"}, TurnFor(reason),
         reason = "explicit" <=> explicitBreakPending, ~explicitBreakPending',
         UNCHANGED <<doc, index, region, plan>>
  PROVE  Turned'
<1> DEFINE last == fragments[Len(fragments)]
<1>1. UNCHANGED <<doc, index, page, available, regionEmpty, fragments, pages, breaks>>
  BY DEF region, plan
<1>2. Len(fragments) # 0
  BY DEF Turned, Standing, AtTheStart
<1>3. After(last) /\ pendingBreak = NoBreak
  BY <1>2 DEF Turned, Standing, After
<1> HIDE DEF last
<1>4. turning' = TRUE /\ pendingBreak' # NoBreak /\ pendingBreak'.reason = reason
  BY DEF TurnFor, NoBreak
<1>5. After(last)'
  <2>1. last' = last /\ BlockCount' = BlockCount /\ IsBreak(index)' = IsBreak(index)
    BY <1>1 DEF last, BlockCount, IsBreak, Block
  <2>2. BreakBetween(last.block, index)' = BreakBetween(last.block, index)
    BY <1>1, <2>1 DEF BreakBetween, IsBreak, Block
  <2>. QED BY <1>1, <1>3, <1>4, <2>1, <2>2 DEF After
<1>. QED BY <1>1, <1>2, <1>5, RecordKept DEF Turned, Standing, last

(* A fragment is placed, with the break that was announced for it.         *)
LEMMA TurnsPlaced ==
  ASSUME Typed, Frontier, Turned, ~turning, at # "block", index \in 1 .. BlockCount, ~IsBreak(index),
         NEW first \in Nat, NEW count \in Nat \ {0},
         NEW relaxedOrphans \in BOOLEAN, NEW relaxedWidows \in BOOLEAN,
         first + count <= Block(index).lines,
         Place(first, count, relaxedOrphans, relaxedWidows), UNCHANGED <<doc, explicitBreakPending>>,
         \/ /\ index' = index + 1 /\ pendingBreak' = NoBreak /\ turning' = turning
         \/ /\ index' = index /\ turning' = TRUE
            /\ pendingBreak' # NoBreak /\ pendingBreak'.reason # "explicit"
  PROVE  Turned'
<1>0. PICK n, last, new, decision :
        /\ n = Len(fragments) /\ last = fragments[Len(fragments)]
        /\ new = [block |-> index, first |-> first, count |-> count, page |-> page,
                  relaxedOrphans |-> relaxedOrphans, relaxedWidows |-> relaxedWidows]
        /\ decision = [reason |-> pendingBreak.reason, preceding |-> pendingBreak.preceding,
                       triggering |-> n + 1, fromPage |-> pendingBreak.fromPage, toPage |-> page]
  OBVIOUS
<1>1. /\ n \in Nat /\ page \in Nat \ {0} /\ index \in Nat
      /\ breaks \in Seq(Break) /\ pages \in Seq(Nat)
  BY <1>0, TypedFacts, FragmentFacts, IndexFacts DEF Turned, TurnsRecorded
<1>2. /\ Len(fragments') = n + 1
      /\ \A i \in 1 .. n : fragments'[i] = fragments[i]
      /\ fragments'[n + 1] = new /\ new.block = index /\ new.page = page
      /\ page' = page /\ regionEmpty' = FALSE
  <2>1. /\ Len(fragments') = Len(fragments) + 1
        /\ \A i \in 1 .. Len(fragments) : fragments'[i] = fragments[i]
        /\ fragments'[Len(fragments) + 1] = new
        /\ page' = page /\ regionEmpty' = FALSE
    BY <1>0, PlaceExtends, Zenon
  <2>2. new.block = index /\ new.page = page
    BY <1>0
  <2>. QED BY <1>0, <2>1, <2>2
<1>3. /\ breaks' = IF pendingBreak = NoBreak THEN breaks ELSE Append(breaks, decision)
      /\ pages' = IF regionEmpty THEN Append(pages, page) ELSE pages
  BY <1>0 DEF Place
<1>4. ~explicitBreakPending
  BY DEF Turned, Standing, AtTheStart, After
<1>5. n # 0 => After(last)
  BY <1>0 DEF Turned, Standing
<1>6. n = 0 => AtTheStart
  BY <1>0 DEF Turned, Standing
<1>7. n # 0 => last.page \in Nat
  <2>1. n # 0 => n \in 1 .. n
    BY <1>1
  <2>2. n # 0 => last \in Fragment
    BY <1>0, <2>1, FragmentFacts
  <2>. QED BY <2>2 DEF Fragment
<1>8. /\ decision.triggering = n + 1 /\ decision.toPage = page
      /\ decision.reason = pendingBreak.reason
      /\ decision.preceding = pendingBreak.preceding /\ decision.fromPage = pendingBreak.fromPage
  BY <1>0
<1>9. pendingBreak # NoBreak => decision \in Break
  <2>1. pendingBreak # NoBreak =>
          /\ pendingBreak.reason \in Reasons /\ pendingBreak.preceding \in Nat
          /\ pendingBreak.fromPage \in Int
    BY <1>1, PendingFacts DEF Reasons
  <2>. QED BY <1>0, <1>1, <2>1 DEF Break
<1>10. /\ breaks' \in Seq(Break)
       /\ \A b \in 1 .. Len(breaks) : breaks'[b] = breaks[b]
       /\ pendingBreak = NoBreak => Len(breaks') = Len(breaks)
       /\ pendingBreak # NoBreak => Len(breaks') = Len(breaks) + 1 /\ breaks'[Len(breaks) + 1] = decision
  BY <1>1, <1>3, <1>9, AppendProperties
<1>11. /\ pages' \in Seq(Nat)
       /\ \A k \in 1 .. Len(pages) : pages'[k] = pages[k]
       /\ regionEmpty => Len(pages') = Len(pages) + 1 /\ pages'[Len(pages) + 1] = page
       /\ ~regionEmpty => pages' = pages
  BY <1>1, <1>3, AppendProperties
<1>12. \A b \in 1 .. Len(breaks) : breaks[b].triggering <= n /\ breaks[b].triggering \in Nat
  <2>1. \A b \in 1 .. Len(breaks) : breaks[b] \in Break
    BY <1>1
  <2>. QED BY <1>0, <2>1 DEF Turned, TurnsRecorded, Break
<1>13. /\ Len(pages') = page
       /\ \A k \in 1 .. Len(pages') : pages'[k] = k
  <2>1. regionEmpty => page = Len(pages) + 1
    BY <1>1, <1>5, <1>6, <1>7, SMTT(30) DEF After, AtTheStart
  <2>2. ~regionEmpty => page = Len(pages)
    BY <1>1, <1>5, <1>6, <1>7 DEF After, AtTheStart
  <2>3. \A k \in 1 .. Len(pages) : pages[k] = k
    BY DEF Turned, TurnsRecorded
  <2>4. regionEmpty \in BOOLEAN /\ Len(pages) \in Nat
    BY <1>1, PendingFacts
  <2>5. CASE regionEmpty
    <3>1. /\ Len(pages') = page /\ pages'[page] = page
          /\ \A k \in 1 .. page : k \in 1 .. Len(pages) \/ k = page
      BY <1>1, <1>11, <2>1, <2>4, <2>5
    <3>. QED BY <1>11, <2>3, <3>1, Zenon
  <2>6. CASE ~regionEmpty
    BY <1>11, <2>2, <2>3, <2>6
  <2>. QED BY <2>5, <2>6
<1>14. DOMAIN breaks = 1 .. Len(breaks) /\ DOMAIN breaks' = 1 .. Len(breaks') /\ Len(breaks) \in Nat
  BY <1>1, <1>10
<1>20. /\ DOMAIN breaks \subseteq DOMAIN breaks'
       /\ \A b \in DOMAIN breaks : breaks'[b] = breaks[b]
       /\ \A b \in DOMAIN breaks' \ DOMAIN breaks :
            pendingBreak # NoBreak /\ b = Len(breaks) + 1 /\ breaks'[b] = decision
       /\ pendingBreak # NoBreak => Len(breaks) + 1 \in DOMAIN breaks' \ DOMAIN breaks
  <2>1. CASE pendingBreak = NoBreak
    BY <1>10, <1>14, <2>1
  <2>2. CASE pendingBreak # NoBreak
    <3>1. DOMAIN breaks' = 1 .. Len(breaks) + 1
      BY <1>10, <1>14, <2>2
    <3>2. /\ 1 .. Len(breaks) \subseteq 1 .. Len(breaks) + 1
          /\ \A b \in 1 .. Len(breaks) + 1 : b \notin 1 .. Len(breaks) => b = Len(breaks) + 1
          /\ Len(breaks) + 1 \in 1 .. Len(breaks) + 1 /\ Len(breaks) + 1 \notin 1 .. Len(breaks)
      BY <1>14
    <3>. QED BY <1>10, <1>14, <2>2, <3>1, <3>2, Zenon
  <2>. QED BY <2>1, <2>2
<1>21. \A b \in DOMAIN breaks : breaks[b].triggering # n + 1
  BY <1>1, <1>12, <1>14
<1>15. ASSUME NEW i \in 2 .. n PROVE TurnExplained(i)'
  <2>1. TurnExplained(i)
    BY <1>0 DEF Turned, TurnsRecorded
  <2>2. fragments'[i] = fragments[i] /\ fragments'[i - 1] = fragments[i - 1]
    <3>1. i \in 1 .. n /\ i - 1 \in 1 .. n
      BY <1>1
    <3>. QED BY <1>2, <3>1, Zenon
  <2>3. DecisionsBefore(i)' = DecisionsBefore(i)
    <3>1. \A b \in DOMAIN breaks : b \in DOMAIN breaks' /\ breaks'[b] = breaks[b]
      BY <1>20
    <3>2. i # n + 1
      BY <1>1
    <3>3. \A b \in DOMAIN breaks' \ DOMAIN breaks : breaks'[b].triggering # i
      BY <1>8, <1>20, <3>2, Zenon
    <3>. QED BY <3>1, <3>3, Zenon DEF DecisionsBefore
  <2>4. \A b \in DecisionsBefore(i) : breaks'[b] = breaks[b]
    BY <1>10, <1>14 DEF DecisionsBefore
  <2>5. \A x, y : BreakBetween(x, y)' = BreakBetween(x, y)
    BY DEF BreakBetween, IsBreak, Block
  <2>. QED BY <2>1, <2>2, <2>3, <2>4, <2>5 DEF TurnExplained
<1>16. ASSUME n # 0 PROVE TurnExplained(n + 1)'
  <2>1. After(last) /\ fragments'[n] = last /\ fragments'[n + 1] = new
    BY <1>0, <1>1, <1>2, <1>5, <1>16
  <2>2. BreakBetween(last.block, new.block)' <=> BreakBetween(last.block, index)
    BY <1>2 DEF BreakBetween, IsBreak, Block
  <2>5. fragments'[n + 1 - 1] = last
    BY <1>1, <2>1
  <2>3. CASE pendingBreak = NoBreak
    <3>1. regionEmpty = FALSE /\ page = last.page
      BY <2>1, <2>3, PendingFacts DEF After
    <3>2. ~BreakBetween(last.block, index)
      BY <1>4, <2>1, <2>3 DEF After
    <3>3. DecisionsBefore(n + 1)' = {}
      <4>1. \A b \in DOMAIN breaks' : breaks'[b].triggering # n + 1
        BY <1>20, <1>21, <2>3, Zenon
      <4>. QED BY <4>1 DEF DecisionsBefore
    <3>4. last.page = new.page /\ ~BreakBetween(last.block, new.block)'
      BY <1>2, <2>2, <3>1, <3>2
    <3>. QED BY <1>1, <1>2, <2>1, <2>2, <2>5, <3>1, <3>2, <3>3 DEF TurnExplained
  <2>4. CASE pendingBreak # NoBreak
    <3>1. regionEmpty = TRUE /\ page = last.page + 1
      BY <2>1, <2>4, PendingFacts DEF After
    <3>2. pendingBreak.reason = "explicit" <=> BreakBetween(last.block, index)
      BY <2>1, <2>4 DEF After
    <3>3. pendingBreak.fromPage = last.page /\ pendingBreak.preceding = n
      BY <1>1, <1>7, <1>16, <2>4, <3>1, PendingFacts, <1>0, SMTT(30)
    <3>4. DecisionsBefore(n + 1)' = {Len(breaks) + 1}
      <4>1. \A b \in DOMAIN breaks' : breaks'[b].triggering = n + 1 <=> b = Len(breaks) + 1
        BY <1>8, <1>20, <1>21, <2>4, Zenon
      <4>. QED BY <1>20, <2>4, <4>1 DEF DecisionsBefore
    <3>5. breaks'[Len(breaks) + 1] = decision
      BY <1>10, <2>4
    <3>6. last.page # new.page /\ new.page = last.page + 1
      BY <1>1, <1>2, <1>7, <1>16, <3>1
    <3>7. /\ breaks'[Len(breaks) + 1].preceding = n + 1 - 1
          /\ breaks'[Len(breaks) + 1].fromPage = last.page
          /\ breaks'[Len(breaks) + 1].toPage = new.page
          /\ breaks'[Len(breaks) + 1].reason = "explicit" <=> BreakBetween(last.block, new.block)'
      BY <1>1, <1>2, <1>8, <2>2, <3>2, <3>3, <3>5
    <3>8. Len(breaks) + 1 \in DecisionsBefore(n + 1)'
      BY <3>4
    <3>. QED BY <1>1, <2>1, <2>5, <3>4, <3>6, <3>7, <3>8 DEF TurnExplained
  <2>. QED BY <2>3, <2>4
<1>17. TurnsRecorded'
  <2>1. \A b \in 1 .. Len(breaks') : breaks'[b].triggering <= n + 1
    <3>1. \A b \in DOMAIN breaks : breaks[b].triggering <= n + 1
      BY <1>1, <1>12, <1>14
    <3>2. n + 1 <= n + 1
      BY <1>1
    <3>. QED BY <1>8, <1>14, <1>20, <3>1, <3>2, Zenon
  <2>2. fragments'[1].page = 1
    <3>1. CASE n = 0
      BY <1>2, <1>6, <3>1 DEF AtTheStart
    <3>2. CASE n # 0
      <4>1. fragments'[1] = fragments[1]
        BY <1>1, <1>2, <3>2
      <4>. QED BY <1>1, <3>2, <4>1, <1>0 DEF Turned, TurnsRecorded
    <3>. QED BY <3>1, <3>2
  <2>3. \A i \in 2 .. n + 1 : TurnExplained(i)'
    <3>1. \A i \in 2 .. n + 1 : i \in 2 .. n \/ (i = n + 1 /\ n # 0)
      BY <1>1
    <3>. QED BY <1>15, <1>16, <3>1
  <2>. QED BY <1>2, <1>10, <1>11, <1>13, <2>1, <2>2, <2>3 DEF TurnsRecorded
<1>18. After(new)'
  <2>1. IsBreak(index)' = (Block(index').kind = "break") /\ BlockCount' = BlockCount
    BY DEF IsBreak, Block, BlockCount
  <2>2. new.page = page /\ new.block = index
    BY <1>2
  <2>3. CASE index' = index + 1 /\ pendingBreak' = NoBreak /\ turning' = turning
    <3>1. ~BreakBetween(new.block, index)'
      BY <1>1, <2>2, <2>3 DEF BreakBetween
    <3>. QED BY <1>2, <1>4, <1>13, <2>2, <2>3, <3>1 DEF After
  <2>4. CASE index' = index /\ turning' = TRUE /\ pendingBreak' # NoBreak /\ pendingBreak'.reason # "explicit"
    <3>1. ~BreakBetween(new.block, index)'
      BY <1>1, <2>2, <2>4 DEF BreakBetween
    <3>2. index' <= BlockCount' /\ ~IsBreak(index)'
      BY <2>1, <2>4 DEF IsBreak
    <3>. QED BY <1>2, <1>4, <1>13, <2>2, <2>4, <3>1, <3>2 DEF After
  <2>. QED BY <2>3, <2>4
<1>19. Len(fragments') # 0
  BY <1>1, <1>2
<1>. QED BY <1>2, <1>17, <1>18, <1>19 DEF Turned, Standing

(* An explicit break is passed over, and remembered if the page has        *)
(* something on it.                                                        *)
LEMMA TurnsPassed ==
  ASSUME Typed, Frontier, Turned, NoteExplicitBreak
  PROVE  Turned'
<1>1. /\ AtBlock /\ IsBreak(index) /\ NextBlock /\ UNCHANGED <<doc, turning, region, pendingBreak, plan>>
      /\ explicitBreakPending' = (explicitBreakPending \/ ~regionEmpty)
  BY DEF NoteExplicitBreak
<1>2. /\ UNCHANGED <<page, regionEmpty, fragments, pages, breaks>> /\ index' = index + 1 /\ at' = "block"
      /\ ~turning /\ at = "block" /\ token.next = 0 /\ index \in 1 .. BlockCount /\ index \in Nat
  BY <1>1, AtBlockFacts, TypedFacts DEF NextBlock, AtBlock, Planning, region, plan
<1>3. TurnsRecorded'
  BY <1>1, RecordKept DEF Turned
<1>4. CASE Len(fragments) = 0
  BY <1>1, <1>2, <1>3, <1>4 DEF Turned, Standing, AtTheStart
<1>5. ASSUME Len(fragments) # 0 PROVE Turned'
  <2>1. PICK last : last = fragments[Len(fragments)]
    OBVIOUS
  <2>2. After(last) /\ LeadsTo(last, index, 0)
    BY <1>2, <1>5, <2>1 DEF Turned, Standing, Frontier
  <2>3. last.block \in Nat /\ last.first \in Nat /\ last.count \in Nat \ {0}
    <3>1. Len(fragments) \in 1 .. Len(fragments)
      BY <1>5, FragmentFacts
    <3>. QED BY <2>1, <3>1, FragmentFacts
  <2>4. last.block < index
    BY <2>2, <2>3 DEF LeadsTo
  <2>5. ~regionEmpty /\ pendingBreak = NoBreak
    BY <1>1, <1>2, <2>2 DEF After
  <2>6. BreakBetween(last.block, index)'
    <3>1. index \in last.block + 1 .. index' - 1
      BY <1>2, <2>3, <2>4
    <3>2. IsBreak(index) /\ \A k : IsBreak(k)' = IsBreak(k)
      BY <1>1 DEF IsBreak, Block
    <3>. QED BY <3>1, <3>2 DEF BreakBetween
  <2>7. After(last)'
    BY <1>1, <1>2, <2>2, <2>5, <2>6 DEF After
  <2>. QED BY <1>2, <1>3, <1>5, <2>1, <2>7 DEF Turned, Standing
<1>. QED BY <1>4, <1>5

(* Steps that change neither the page nor what is announced.               *)
LEMMA TurnsUnmoved ==
  ASSUME Turned, UNCHANGED <<doc, index, turning, region, explicitBreakPending, pendingBreak, plan>>,
         at' = at \/ ~explicitBreakPending
  PROVE  Turned'
<1>1. UNCHANGED <<page, regionEmpty, fragments, pages, breaks>>
  BY DEF region, plan
<1>2. TurnsRecorded'
  BY RecordKept DEF Turned
<1>3. AtTheStart => AtTheStart'
  BY <1>1 DEF AtTheStart
<1>4. ASSUME NEW last, After(last) PROVE After(last)'
  <2>1. BreakBetween(last.block, index)' = BreakBetween(last.block, index)
    BY DEF BreakBetween, IsBreak, Block
  <2>2. IsBreak(index)' = IsBreak(index) /\ BlockCount' = BlockCount
    BY DEF IsBreak, Block, BlockCount
  <2>. QED BY <1>1, <1>4, <2>1, <2>2 DEF After
<1>. QED BY <1>1, <1>2, <1>3, <1>4 DEF Turned, Standing

LEMMA TurnsNext == Typed /\ Frontier /\ Turned /\ [Next]_vars => Turned'
<1> SUFFICES ASSUME Typed, Frontier, Turned, [Next]_vars PROVE Turned'
  OBVIOUS
<1>1. ASSUME AdvanceBodyPage PROVE Turned'
  <2>1. /\ turning /\ turning' = FALSE /\ page' = page + 1 /\ regionEmpty' = TRUE
        /\ UNCHANGED <<doc, index, at, explicitBreakPending, pendingBreak, fragments, pages, breaks, plan>>
    BY <1>1 DEF AdvanceBodyPage, cursor, plan
  <2>2. Len(fragments) # 0
    BY <2>1 DEF Turned, Standing, AtTheStart
  <2>3. PICK last : last = fragments[Len(fragments)]
    OBVIOUS
  <2>4. After(last) /\ pendingBreak # NoBreak
    BY <2>1, <2>2, <2>3, PendingFacts DEF Turned, Standing
  <2>5. IsBreak(index)' = IsBreak(index) /\ BlockCount' = BlockCount
    BY <2>1 DEF IsBreak, Block, BlockCount
  <2>6. BreakBetween(last.block, index)' = BreakBetween(last.block, index)
    BY <2>1 DEF BreakBetween, IsBreak, Block
  <2>7. After(last)'
    BY <2>1, <2>4, <2>5, <2>6 DEF After
  <2>. QED BY <2>1, <2>2, <2>3, <2>7, RecordKept DEF Turned, Standing
<1>2. ASSUME NoteExplicitBreak PROVE Turned'
  BY <1>2, TurnsPassed
<1>3. ASSUME TakeExplicitBreak PROVE Turned'
  <2>1. /\ AtBlock /\ ~IsBreak(index) /\ explicitBreakPending /\ ~explicitBreakPending'
        /\ TurnFor("explicit") /\ UNCHANGED <<doc, index, region, plan>>
    BY <1>3 DEF TakeExplicitBreak, cursor
  <2>2. ~turning /\ index <= BlockCount
    BY <2>1 DEF AtBlock, Planning
  <2>3. ~regionEmpty
    BY <2>1 DEF Turned, Standing, AtTheStart, After
  <2>. QED BY <2>1, <2>2, <2>3, TurnAnnounced
<1>4. ASSUME CheckKeep PROVE Turned'
  <2>1. /\ AtBlock /\ Block(index).kind \in {"text", "box"} /\ ~explicitBreakPending
        /\ ~turning /\ index <= BlockCount
        /\ UNCHANGED <<doc, index, region, explicitBreakPending, plan>>
    BY <1>4 DEF CheckKeep, AtBlock, Planning
  <2>2. CASE TurnFor("constraint") /\ ~regionEmpty
    <3>1. ~IsBreak(index)
      BY <2>1 DEF IsBreak
    <3>. QED BY <2>1, <2>2, <3>1, TurnAnnounced
  <2>3. CASE UNCHANGED <<turning, pendingBreak>>
    BY <2>1, <2>3, TurnsUnmoved
  <2>. QED BY <1>4, <2>2, <2>3 DEF CheckKeep
<1>5. ASSUME FitWhole PROVE Turned'
  <2>1. AtWhole /\ UNCHANGED <<doc, index, region, explicitBreakPending, plan>>
    BY <1>5 DEF FitWhole
  <2>2. /\ ~explicitBreakPending /\ ~turning /\ index <= BlockCount
        /\ Block(index).kind \in {"box", "canvas"}
    BY <2>1 DEF AtWhole, Planning, Turned, Standing, AtTheStart, After
  <2>3. CASE TurnFor("space") /\ ~regionEmpty
    <3>1. ~IsBreak(index)
      BY <2>2 DEF IsBreak
    <3>. QED BY <2>1, <2>2, <2>3, <3>1, TurnAnnounced
  <2>4. CASE UNCHANGED <<turning, pendingBreak>>
    BY <2>1, <2>2, <2>4, TurnsUnmoved
  <2>. QED BY <1>5, <2>3, <2>4 DEF FitWhole
<1>6. ASSUME DeferText PROVE Turned'
  <2>1. /\ AtText /\ SpaceIsValid(Space) /\ Answer.action = "defer" /\ TurnFor("space")
        /\ UNCHANGED <<doc, index, region, explicitBreakPending, plan>>
    BY <1>6 DEF DeferText, cursor
  <2>2. ~regionEmpty
    BY <2>1, TextFacts, EmptyRegionsAreUsed DEF Answer, Space
  <2>3. ~turning /\ at = "content" /\ Block(index).kind = "text"
    BY <2>1 DEF AtText, Planning
  <2>4. ~explicitBreakPending /\ index <= BlockCount /\ ~IsBreak(index)
    BY <2>3, TypedFacts DEF Turned, Standing, AtTheStart, After
  <2>. QED BY <2>1, <2>2, <2>3, <2>4, TurnAnnounced
<1>7. ASSUME PlaceWhole PROVE Turned'
  <2>1. /\ at = "whole" /\ ~turning /\ Place(0, 1, FALSE, FALSE) /\ pendingBreak' = NoBreak
        /\ index' = index + 1 /\ UNCHANGED <<doc, turning, explicitBreakPending>>
    BY <1>7 DEF PlaceWhole, NextBlock, Planning
  <2>2. index \in 1 .. BlockCount /\ Block(index).lines = 1 /\ ~IsBreak(index)
    <3>1. index <= BlockCount /\ Block(index).lines = 1 /\ ~IsBreak(index)
      BY <2>1, TypedFacts
    <3>. QED BY <3>1, IndexFacts
  <2>3. FALSE \in BOOLEAN /\ 0 \in Nat /\ 1 \in Nat \ {0} /\ 0 + 1 <= 1
    OBVIOUS
  <2>. QED BY <2>1, <2>2, <2>3, TurnsPlaced
<1>8. ASSUME PlaceText PROVE Turned'
  <2>1. /\ AtText /\ SpaceIsValid(Space) /\ Answer.action = "place"
        /\ Place(token.next, Answer.count, Answer.relaxedOrphans, Answer.relaxedWidows)
        /\ UNCHANGED <<doc, explicitBreakPending>>
    BY <1>8 DEF PlaceText
  <2>2. PICK count, few, broken :
          count = Answer.count /\ few = Answer.relaxedOrphans /\ broken = Answer.relaxedWidows
    OBVIOUS
  <2>3. /\ count \in Nat \ {0} /\ few \in BOOLEAN /\ broken \in BOOLEAN
        /\ token.next + count <= Block(index).lines
        /\ Answer.reason # "explicit"
    BY <2>1, <2>2, AnswerFacts DEF FlagsAndReason
  <2>4. token.next \in Nat /\ index \in 1 .. BlockCount /\ ~turning /\ at # "block" /\ ~IsBreak(index)
    BY <2>1, TypedFacts, TextFacts DEF AtText, Planning, IsBreak
  <2>5. \/ index' = index + 1 /\ pendingBreak' = NoBreak /\ turning' = turning
        \/ /\ index' = index /\ turning' = TRUE
           /\ pendingBreak' # NoBreak /\ pendingBreak'.reason # "explicit"
    <3>1. CASE Answer.done
      BY <1>8, <3>1 DEF PlaceText, NextBlock
    <3>2. CASE ~Answer.done
      <4>1. /\ index' = index /\ turning' = TRUE
            /\ pendingBreak' = [reason |-> Answer.reason, fromPage |-> page,
                                preceding |-> Len(fragments) + 1]
        BY <1>8, <3>2, Zenon DEF PlaceText
      <4>. QED BY <2>3, <4>1 DEF NoBreak
    <3>. QED BY <3>1, <3>2
  <2>6. Place(token.next, count, few, broken)
    BY <2>1, <2>2, Zenon
  <2>7. ASSUME NEW first, first = token.next PROVE Turned'
    BY <2>1, <2>3, <2>4, <2>5, <2>6, <2>7, TurnsPlaced
  <2>. QED BY <2>7
<1>9. ASSUME \/ ExceedPageLimit \/ RejectTallBlock \/ RejectSpace \/ Finish \/ UNCHANGED vars
      PROVE  Turned'
  <2>1. UNCHANGED <<doc, index, at, turning, region, explicitBreakPending, pendingBreak, plan>>
    BY <1>9, Zenon DEF ExceedPageLimit, RejectTallBlock, RejectSpace, Finish, Fail, vars, cursor
  <2>. QED BY <2>1, TurnsUnmoved
<1>. QED BY <1>1, <1>2, <1>3, <1>4, <1>5, <1>6, <1>7, <1>8, <1>9, Zenon DEF Next, Stopped

LEMMA TurnsHold == Typed /\ Turned => TurnsExplained
<1> SUFFICES ASSUME Typed, Turned PROVE TurnsExplained
  OBVIOUS
<1>1. fragments = <<>> <=> Len(fragments) = 0
  BY TypedFacts
<1>2. pages = [n \in 1 .. Len(pages) |-> n]
  <2>1. pages = [n \in 1 .. Len(pages) |-> pages[n]]
    BY DEF Turned, TurnsRecorded
  <2>. QED BY <2>1 DEF Turned, TurnsRecorded
<1>. QED BY <1>1, <1>2 DEF Turned, TurnsRecorded, Standing, After, TurnsExplained

(* Every turn of the page is a decision on record between two consecutive  *)
(* fragments on consecutive pages, and called explicit exactly where the   *)
(* document breaks (paper.go, advanceBodyPage and the fragment loop).      *)
THEOREM TurnsAreExplained == Spec => []TurnsExplained
BY InitIsFresh, TypedInit, TypedNext, OrderInit, OrderNext, TurnsInit, TurnsNext, TurnsHold, PTL DEF Spec

-----------------------------------------------------------------------------
(* Heights add up.                                                         *)

Plus(x, y) == x + y
AnyOf(s) == CHOOSE x \in s : TRUE

Sums == INSTANCE FoldLemmas WITH op <- Plus, pick <- AnyOf

LEMMA BottomsGrow ==
  ASSUME NEW b, IsMeasured(b), NEW j \in 0 .. b.lines, NEW k \in 0 .. b.lines, j <= k
  PROVE  b.bottom[j] \in Nat /\ b.bottom[k] \in Nat /\ b.bottom[j] <= b.bottom[k]
<1>0. /\ b.lines \in Nat /\ b.bottom \in [0 .. b.lines -> Nat]
      /\ \A m \in 1 .. b.lines : b.bottom[m - 1] < b.bottom[m]
  BY DEF IsMeasured
<1> DEFINE T == {m \in Nat : j + m <= b.lines => b.bottom[j] <= b.bottom[j + m]}
<1>1. 0 \in T
  <2>1. j + 0 = j /\ b.bottom[j] \in Nat
    BY <1>0
  <2>. QED BY <2>1
<1>2. ASSUME NEW m \in T PROVE m + 1 \in T
  <2>1. m \in Nat
    OBVIOUS
  <2>2. ASSUME j + (m + 1) <= b.lines PROVE b.bottom[j] <= b.bottom[j + (m + 1)]
    <3>1. j + m \in 0 .. b.lines /\ j + m + 1 \in 1 .. b.lines /\ j + (m + 1) = j + m + 1
      BY <1>0, <2>1, <2>2, SMTT(30)
    <3>2. b.bottom[j + m] < b.bottom[j + m + 1]
      <4>1. b.bottom[j + m + 1 - 1] < b.bottom[j + m + 1]
        BY <1>0, <3>1
      <4>2. j + m + 1 - 1 = j + m
        BY <3>1
      <4>. QED BY <4>1, <4>2
    <3>3. b.bottom[j] <= b.bottom[j + m]
      BY <3>1
    <3>4. b.bottom[j] \in Nat /\ b.bottom[j + m] \in Nat /\ b.bottom[j + m + 1] \in Nat
      <4>1. j + m + 1 \in 0 .. b.lines
        BY <3>1
      <4>. QED BY <1>0, <3>1, <4>1
    <3>. QED BY <3>1, <3>2, <3>3, <3>4
  <2>. QED BY <2>1, <2>2
<1>3. T = Nat
  <2>1. T \in SUBSET Nat
    OBVIOUS
  <2> HIDE DEF T
  <2>. QED BY <1>1, <1>2, <2>1, Sums!SetInduction
<1>4. k - j \in T /\ j + (k - j) = k /\ k <= b.lines
  BY <1>0, <1>3
<1>. QED BY <1>0, <1>4

LEMMA HeightFacts ==
  ASSUME NEW b, IsMeasured(b), NEW first \in Nat, NEW count \in Nat, first + count <= b.lines
  PROVE  /\ Height(b, first, count) \in Nat
         /\ \A c \in 0 .. count : Height(b, first, c) \in Nat /\ Height(b, first, c) <= Height(b, first, count)
<1>1. b.lines \in Nat
  BY DEF IsMeasured
<1>2. ASSUME NEW c \in 0 .. count
      PROVE  /\ Height(b, first, c) \in Nat /\ Height(b, first, count) \in Nat
             /\ Height(b, first, c) <= Height(b, first, count)
  <2>1. first \in 0 .. b.lines /\ first + c \in 0 .. b.lines /\ first + count \in 0 .. b.lines
    BY <1>1
  <2>2. first <= first + c /\ first + c <= first + count
    BY <1>1
  <2>3. /\ b.bottom[first] \in Nat /\ b.bottom[first + c] \in Nat /\ b.bottom[first + count] \in Nat
        /\ b.bottom[first] <= b.bottom[first + c] /\ b.bottom[first + c] <= b.bottom[first + count]
    <3>1. b.bottom[first] \in Nat /\ b.bottom[first + c] \in Nat /\ b.bottom[first] <= b.bottom[first + c]
      BY <2>1, <2>2, BottomsGrow
    <3>2. b.bottom[first + count] \in Nat /\ b.bottom[first + c] <= b.bottom[first + count]
      <4>1. ASSUME NEW x \in 0 .. b.lines, NEW y \in 0 .. b.lines, x <= y
            PROVE  b.bottom[y] \in Nat /\ b.bottom[x] <= b.bottom[y]
        BY <4>1, BottomsGrow
      <4>. QED BY <2>1, <2>2, <4>1
    <3>. QED BY <3>1, <3>2
  <2>. QED BY <2>3 DEF Height
<1>3. 0 \in 0 .. count
  OBVIOUS
<1>. QED BY <1>2, <1>3

-----------------------------------------------------------------------------
LEMMA SummingFacts ==
  ASSUME NEW f, NEW S, IsFiniteSet(S), \A x \in S : f[x] \in Nat
  PROVE  Sums!Summing(f, S)
<1>1. Sums!IsFiniteSet(S)
  BY Zenon DEF IsFiniteSet, Sums!IsFiniteSet
<1>2. Sums!Picks(S)
  BY Sums!AnyPicks DEF AnyOf
<1>3. \A x, y \in Nat : Plus(x, y) = x + y
  BY DEF Plus
<1>. QED BY <1>1, <1>2, <1>3, Zenon DEF Sums!Summing

Heights == [i \in 1 .. BlockCount |-> BlockHeight(i)]

LEMMA TotalIsSum ==
  ASSUME IsDocument(doc), NEW first \in Nat \ {0}, NEW last \in 0 .. BlockCount
  PROVE  /\ TotalHeight(first, last) = Sums!FoldOf(Heights, 0, first .. last)
         /\ Sums!Summing(Heights, first .. last)
<1> DEFINE S == first .. last
           Adds(g) == g = [s \in SUBSET S |-> IF s = {} THEN 0
                             ELSE BlockHeight(CHOOSE x \in s : TRUE)
                                    + g[s \ {CHOOSE x \in s : TRUE}]]
           Takes(g) == g = [s \in SUBSET S |-> IF s = {} THEN 0
                             ELSE Heights[CHOOSE x \in s : TRUE]
                                    + g[s \ {CHOOSE x \in s : TRUE}]]
<1>1. TotalHeight(first, last) = (CHOOSE g : Adds(g))[S]
  BY Zenon DEF TotalHeight, MapThenSumSet, MapThenFoldSet
<1>2. Sums!FoldOf(Heights, 0, S) = (CHOOSE g : Takes(g))[S]
  BY Zenon DEF Sums!FoldOf, Sums!Folds, Sums!FoldsOn, Plus, AnyOf
<1>3. BlockCount \in Nat /\ S \subseteq 1 .. BlockCount
  BY DocumentFacts
<1>4. \A s \in SUBSET S : s # {} => (CHOOSE x \in s : TRUE) \in 1 .. BlockCount
  BY <1>3
<1>5. \A s \in SUBSET S : s # {} =>
        Heights[CHOOSE x \in s : TRUE] = BlockHeight(CHOOSE x \in s : TRUE)
  BY <1>4 DEF Heights
<1>6. \A g : [s \in SUBSET S |-> IF s = {} THEN 0
                ELSE BlockHeight(CHOOSE x \in s : TRUE) + g[s \ {CHOOSE x \in s : TRUE}]]
           = [s \in SUBSET S |-> IF s = {} THEN 0
                ELSE Heights[CHOOSE x \in s : TRUE] + g[s \ {CHOOSE x \in s : TRUE}]]
  <2> HIDE DEF S
  <2>. QED BY <1>5
<1>7. (CHOOSE g : Adds(g)) = (CHOOSE g : Takes(g))
  <2>1. \A g : Adds(g) <=> Takes(g)
    BY <1>6, ZenonT(30)
  <2> HIDE DEF Adds, Takes
  <2>. QED BY <2>1
<1>8. \A i \in S : Heights[i] \in Nat
  <2> TAKE i \in S
  <2>1. i \in 1 .. BlockCount /\ IsMeasured(Block(i))
    BY <1>3, DocumentFacts
  <2>2. BlockHeight(i) \in Nat
    <3>1. Block(i).lines \in Nat /\ Block(i).bottom \in [0 .. Block(i).lines -> Nat]
      BY <2>1 DEF IsMeasured
    <3>. QED BY <3>1 DEF BlockHeight
  <2>. QED BY <2>1, <2>2 DEF Heights
<1>9. IsFiniteSet(S)
  BY FS_Interval, <1>3
<1>10. Sums!Summing(Heights, S)
  <2> HIDE DEF S
  <2>. QED BY <1>8, <1>9, SummingFacts
<1> HIDE DEF Adds, Takes
<1>. QED BY <1>1, <1>2, <1>7, <1>10

(* The height of blocks is that of the first and that of the others, and   *)
(* more blocks are not less high.                                          *)
LEMMA TotalHeights ==
  ASSUME IsDocument(doc), NEW first \in 1 .. BlockCount, NEW last \in first .. BlockCount
  PROVE  /\ TotalHeight(first, last) \in Nat /\ BlockHeight(first) \in Nat
         /\ TotalHeight(first + 1, last) \in Nat
         /\ TotalHeight(first, last) = BlockHeight(first) + TotalHeight(first + 1, last)
<1> DEFINE S == first .. last
<1>1. BlockCount \in Nat
  BY DocumentFacts
<1>2. /\ first \in Nat \ {0} /\ first + 1 \in Nat \ {0} /\ last \in 0 .. BlockCount
      /\ first \in S /\ S \ {first} = (first + 1) .. last
  BY <1>1
<1>3. /\ TotalHeight(first, last) = Sums!FoldOf(Heights, 0, S) /\ Sums!Summing(Heights, S)
      /\ TotalHeight(first + 1, last) = Sums!FoldOf(Heights, 0, (first + 1) .. last)
  BY <1>2, TotalIsSum
<1>4. Heights[first] = BlockHeight(first)
  BY DEF Heights
<1> HIDE DEF S
<1>5. /\ Heights[first] \in Nat /\ Sums!FoldOf(Heights, 0, S \ {first}) \in Nat
      /\ Sums!FoldOf(Heights, 0, S) = Heights[first] + Sums!FoldOf(Heights, 0, S \ {first})
  BY <1>2, <1>3, Sums!SumWithout
<1>6. /\ TotalHeight(first + 1, last) = Sums!FoldOf(Heights, 0, S \ {first})
      /\ TotalHeight(first, last) = BlockHeight(first) + TotalHeight(first + 1, last)
  BY <1>2, <1>3, <1>4, <1>5, Zenon
<1>7. BlockHeight(first) \in Nat /\ TotalHeight(first + 1, last) \in Nat
  BY <1>4, <1>5, <1>6, Zenon
<1>8. TotalHeight(first, last) \in Nat
  BY <1>6, <1>7
<1>. QED BY <1>6, <1>7, <1>8

LEMMA TotalsGrow ==
  ASSUME IsDocument(doc), NEW first \in 1 .. BlockCount, NEW last \in 0 .. BlockCount,
         NEW end \in last .. BlockCount
  PROVE  /\ TotalHeight(first, last) \in Nat /\ TotalHeight(first, end) \in Nat
         /\ TotalHeight(first, last) <= TotalHeight(first, end)
<1>1. BlockCount \in Nat
  BY DocumentFacts
<1>2. first \in Nat \ {0} /\ end \in 0 .. BlockCount /\ (first .. last) \in SUBSET (first .. end)
  BY <1>1
<1>3. /\ TotalHeight(first, last) = Sums!FoldOf(Heights, 0, first .. last)
      /\ Sums!Summing(Heights, first .. last)
      /\ TotalHeight(first, end) = Sums!FoldOf(Heights, 0, first .. end)
      /\ Sums!Summing(Heights, first .. end)
  BY <1>2, TotalIsSum
<1>4. Sums!FoldOf(Heights, 0, first .. last) <= Sums!FoldOf(Heights, 0, first .. end)
  BY <1>2, <1>3, Sums!SumOfPart
<1>5. Sums!FoldOf(Heights, 0, first .. last) \in Nat /\ Sums!FoldOf(Heights, 0, first .. end) \in Nat
  BY <1>3, Sums!SumIsNatural
<1>. QED BY <1>3, <1>4, <1>5

-----------------------------------------------------------------------------
(* The space on the pages.                                                 *)

FragmentHeights == [i \in 1 .. Len(fragments) |-> FragmentHeight(i)]

Within ==
  \A i \in 1 .. Len(fragments) :
    fragments[i].first + fragments[i].count <= Block(fragments[i].block).lines

(* What is left of the page is what its fragments leave of its body; it is *)
(* less than nothing only under a line or block taller than a page; and a  *)
(* block that is about to be placed whole beside others fits.              *)
Roomy ==
  /\ available + PageHeight(page) = Body(page)
  /\ regionEmpty => FragmentsOn(page) = {}
  /\ available < 0 => TallContent
  /\ at = "whole" /\ ~turning /\ ~regionEmpty => BlockHeight(index) <= available

Spaced == Within /\ Roomy /\ OverflowIsAlone /\ FailureIsDeserved

PageSums ==
  \A n \in Nat :
    /\ FragmentsOn(n) \subseteq 1 .. Len(fragments)
    /\ PageHeight(n) = Sums!FoldOf(FragmentHeights, 0, FragmentsOn(n))
    /\ Sums!Summing(FragmentHeights, FragmentsOn(n))
    /\ IsFiniteSet(FragmentsOn(n))

LEMMA PagesAddUp == Typed /\ Within => PageSums
<1> SUFFICES ASSUME Typed, Within, NEW n \in Nat
             PROVE  /\ FragmentsOn(n) \subseteq 1 .. Len(fragments)
                    /\ PageHeight(n) = Sums!FoldOf(FragmentHeights, 0, FragmentsOn(n))
                    /\ Sums!Summing(FragmentHeights, FragmentsOn(n))
                    /\ IsFiniteSet(FragmentsOn(n))
  BY DEF PageSums
<1> DEFINE S == FragmentsOn(n)
           Adds(g) == g = [s \in SUBSET S |-> IF s = {} THEN 0
                             ELSE FragmentHeight(CHOOSE x \in s : TRUE)
                                    + g[s \ {CHOOSE x \in s : TRUE}]]
           Takes(g) == g = [s \in SUBSET S |-> IF s = {} THEN 0
                             ELSE FragmentHeights[CHOOSE x \in s : TRUE]
                                    + g[s \ {CHOOSE x \in s : TRUE}]]
<1>1. PageHeight(n) = (CHOOSE g : Adds(g))[S]
  BY Zenon DEF PageHeight, MapThenSumSet, MapThenFoldSet
<1>2. Sums!FoldOf(FragmentHeights, 0, S) = (CHOOSE g : Takes(g))[S]
  BY Zenon DEF Sums!FoldOf, Sums!Folds, Sums!FoldsOn, Plus, AnyOf
<1>3. S \subseteq 1 .. Len(fragments) /\ Len(fragments) \in Nat
  BY FragmentFacts DEF FragmentsOn
<1>9. IsFiniteSet(S)
  <2>1. IsFiniteSet(1 .. Len(fragments))
    BY <1>3, FS_Interval
  <2>. QED BY <1>3, <2>1, FS_Subset
<1> HIDE DEF S
<1>4. \A s \in SUBSET S : s # {} => (CHOOSE x \in s : TRUE) \in 1 .. Len(fragments)
  BY <1>3
<1>5. \A s \in SUBSET S : s # {} =>
        FragmentHeights[CHOOSE x \in s : TRUE] = FragmentHeight(CHOOSE x \in s : TRUE)
  BY <1>4 DEF FragmentHeights
<1>6. \A g : [s \in SUBSET S |-> IF s = {} THEN 0
                ELSE FragmentHeight(CHOOSE x \in s : TRUE) + g[s \ {CHOOSE x \in s : TRUE}]]
           = [s \in SUBSET S |-> IF s = {} THEN 0
                ELSE FragmentHeights[CHOOSE x \in s : TRUE] + g[s \ {CHOOSE x \in s : TRUE}]]
  BY <1>5
<1>7. (CHOOSE g : Adds(g)) = (CHOOSE g : Takes(g))
  <2>1. \A g : Adds(g) <=> Takes(g)
    BY <1>6, SMTT(30)
  <2> HIDE DEF Adds, Takes
  <2>. QED BY <2>1
<1>8. \A i \in S : FragmentHeights[i] \in Nat
  <2> TAKE i \in S
  <2>1. i \in 1 .. Len(fragments)
    BY <1>3
  <2>2. /\ fragments[i].block \in 1 .. BlockCount
        /\ fragments[i].first \in Nat /\ fragments[i].count \in Nat
        /\ fragments[i].first + fragments[i].count <= Block(fragments[i].block).lines
    BY <2>1, FragmentFacts DEF Within
  <2>3. IsMeasured(Block(fragments[i].block))
    BY <2>2, DocumentFacts, TypedFacts
  <2>4. FragmentHeight(i) \in Nat
    BY <2>2, <2>3, HeightFacts DEF FragmentHeight
  <2>. QED BY <2>1, <2>4 DEF FragmentHeights
<1>10. Sums!Summing(FragmentHeights, S)
  BY <1>8, <1>9, SummingFacts
<1> HIDE DEF Adds, Takes
<1>11. PageHeight(n) = Sums!FoldOf(FragmentHeights, 0, S)
  BY <1>1, <1>2, <1>7
<1>. QED BY <1>3, <1>9, <1>10, <1>11 DEF S

LEMMA NothingOnPage ==
  ASSUME PageSums, NEW n \in Nat, FragmentsOn(n) = {}
  PROVE  PageHeight(n) = 0 /\ Cardinality(FragmentsOn(n)) = 0
<1>1. PageHeight(n) = Sums!FoldOf(FragmentHeights, 0, {})
  BY DEF PageSums
<1>. QED BY <1>1, Sums!FoldOfNone, FS_EmptySet

(* A fragment is added to its page, and other pages stay as they are.      *)
LEMMA FragmentAdded ==
  ASSUME Typed, Typed', PageSums, PageSums', doc' = doc,
         Len(fragments') = Len(fragments) + 1,
         \A i \in 1 .. Len(fragments) : fragments'[i] = fragments[i],
         NEW new \in Fragment, fragments'[Len(fragments) + 1] = new
  PROVE  /\ \A n \in Nat : n # new.page =>
              FragmentsOn(n)' = FragmentsOn(n) /\ PageHeight(n)' = PageHeight(n)
         /\ FragmentsOn(new.page)' = FragmentsOn(new.page) \cup {Len(fragments) + 1}
         /\ PageHeight(new.page) \in Nat
         /\ Height(Block(new.block), new.first, new.count) \in Nat
         /\ PageHeight(new.page)'
              = Height(Block(new.block), new.first, new.count) + PageHeight(new.page)
<1> DEFINE k == Len(fragments) + 1
           fresh == Height(Block(new.block), new.first, new.count)
           old == FragmentHeights
           now == FragmentHeights'
<1>1. /\ Len(fragments) \in Nat /\ k \in 1 .. k /\ k \notin 1 .. Len(fragments)
      /\ DOMAIN fragments = 1 .. Len(fragments)
      /\ \A i \in 1 .. Len(fragments) : i \in 1 .. k
      /\ \A i \in 1 .. k : i \in 1 .. Len(fragments) \/ i = k
  BY FragmentFacts
<1>2. DOMAIN fragments' = 1 .. k
  <2>1. fragments' \in Seq(Fragment)
    BY DEF Typed
  <2>. QED BY <2>1
<1>3. ASSUME NEW n \in Nat
      PROVE  FragmentsOn(n)' = IF n = new.page THEN FragmentsOn(n) \cup {k} ELSE FragmentsOn(n)
  <2>1. FragmentsOn(n)' = {i \in 1 .. k : fragments'[i].page = n}
    BY <1>2 DEF FragmentsOn
  <2>2. FragmentsOn(n) = {i \in 1 .. Len(fragments) : fragments[i].page = n}
    BY <1>1 DEF FragmentsOn
  <2>3. \A i \in 1 .. Len(fragments) : fragments'[i].page = fragments[i].page
    OBVIOUS
  <2>4. fragments'[k].page = new.page
    OBVIOUS
  <2> HIDE DEF k
  <2>5. \A i : i \in FragmentsOn(n)' <=> i \in FragmentsOn(n) \/ (i = k /\ n = new.page)
    BY <1>1, <2>1, <2>2, <2>3, <2>4, Zenon
  <2>. QED BY <2>5
<1>4. \A i \in 1 .. Len(fragments) : now[i] = old[i]
  <2> TAKE i \in 1 .. Len(fragments)
  <2>1. now[i] = FragmentHeight(i)' /\ old[i] = FragmentHeight(i)
    BY <1>1 DEF FragmentHeights
  <2>2. fragments'[i] = fragments[i] /\ \A b : Block(b)' = Block(b)
    BY DEF Block
  <2>. QED BY <2>1, <2>2 DEF FragmentHeight
<1>5. now[k] = fresh
  <2>1. \A i \in 1 .. Len(fragments') : now[i] = FragmentHeight(i)'
    BY DEF FragmentHeights
  <2>2. \A b : Block(b)' = Block(b)
    BY DEF Block
  <2>3. \A i : FragmentHeight(i)' = Height(Block(fragments'[i].block), fragments'[i].first, fragments'[i].count)
    BY <2>2 DEF FragmentHeight
  <2>4. k \in 1 .. Len(fragments') /\ fragments'[k] = new
    BY <1>1
  <2> HIDE DEF now, k
  <2>. QED BY <2>1, <2>3, <2>4
<1> HIDE DEF k, fresh, old, now
<1>6. ASSUME NEW n \in Nat
      PROVE  /\ PageHeight(n) = Sums!FoldOf(now, 0, FragmentsOn(n))
             /\ PageHeight(n)' = Sums!FoldOf(now, 0, FragmentsOn(n)')
             /\ Sums!Summing(now, FragmentsOn(n)')
             /\ FragmentsOn(n) \subseteq 1 .. Len(fragments)
  <2>1. /\ PageHeight(n)' = Sums!FoldOf(now, 0, FragmentsOn(n)')
        /\ Sums!Summing(now, FragmentsOn(n)')
    BY Zenon DEF PageSums, now
  <2>2. /\ PageHeight(n) = Sums!FoldOf(old, 0, FragmentsOn(n))
        /\ Sums!Summing(old, FragmentsOn(n)) /\ FragmentsOn(n) \subseteq 1 .. Len(fragments)
    BY Zenon DEF PageSums, old
  <2>3. Sums!Picks(FragmentsOn(n)) /\ \A i \in FragmentsOn(n) : old[i] = now[i]
    BY <1>4, <2>2 DEF Sums!Summing
  <2>4. Sums!FoldOf(old, 0, FragmentsOn(n)) = Sums!FoldOf(now, 0, FragmentsOn(n))
    BY <2>3, Sums!FoldOfSame
  <2>. QED BY <2>1, <2>2, <2>4, Zenon
<1>7. new.page \in Nat
  BY DEF Fragment
<1>8. /\ now[k] \in Nat /\ Sums!FoldOf(now, 0, FragmentsOn(new.page)) \in Nat
      /\ Sums!FoldOf(now, 0, FragmentsOn(new.page) \cup {k})
           = now[k] + Sums!FoldOf(now, 0, FragmentsOn(new.page))
  <2>1. k \notin FragmentsOn(new.page) /\ FragmentsOn(new.page)' = FragmentsOn(new.page) \cup {k}
    BY <1>1, <1>3, <1>6, <1>7
  <2>2. Sums!Summing(now, FragmentsOn(new.page) \cup {k})
    BY <1>6, <1>7, <2>1
  <2>. QED BY <2>1, <2>2, Sums!SumWith
<1>9. \A n \in Nat : n # new.page =>
        FragmentsOn(n)' = FragmentsOn(n) /\ PageHeight(n)' = PageHeight(n)
  BY <1>3, <1>6, Zenon
<1>10. FragmentsOn(new.page)' = FragmentsOn(new.page) \cup {k}
  BY <1>3, <1>7
<1>11. PageHeight(new.page) \in Nat /\ fresh \in Nat /\ PageHeight(new.page)' = fresh + PageHeight(new.page)
  BY <1>5, <1>6, <1>7, <1>8, <1>10, Zenon
<1>. QED BY <1>9, <1>10, <1>11 DEF k, fresh

LEMMA PagesKept ==
  ASSUME PageSums, PageSums', UNCHANGED <<doc, fragments>>
  PROVE  \A n \in Nat : FragmentsOn(n)' = FragmentsOn(n) /\ PageHeight(n)' = PageHeight(n)
<1>1. FragmentHeights' = FragmentHeights
  BY DEF FragmentHeights, FragmentHeight, Block
<1>2. \A n : FragmentsOn(n)' = FragmentsOn(n)
  BY DEF FragmentsOn
<1>3. \A n \in Nat : PageHeight(n)' = Sums!FoldOf(FragmentHeights', 0, FragmentsOn(n)')
  BY Zenon DEF PageSums
<1>4. \A n \in Nat : PageHeight(n) = Sums!FoldOf(FragmentHeights, 0, FragmentsOn(n))
  BY Zenon DEF PageSums
<1>. QED BY <1>1, <1>2, <1>3, <1>4, Zenon

LEMMA SumsNext == Typed' /\ Within' => PageSums'
BY PagesAddUp, PTL

(* What is taller than one body is taller than the smallest.               *)
LEMMA TallerThanABody ==
  ASSUME IsDocument(doc), NEW n \in Nat, NEW i \in 1 .. BlockCount, NEW k \in 1 .. Block(i).lines,
         Height(Block(i), k - 1, 1) > Body(n)
  PROVE  TallContent
<1> DEFINE S == {doc.bodies.first, doc.bodies.even, doc.bodies.odd}
<1>1. doc.bodies.first \in Nat /\ doc.bodies.even \in Nat /\ doc.bodies.odd \in Nat
  BY DEF IsDocument, BodyHeights
<1>2. \E x \in S : \A y \in S : x =< y
  BY <1>1
<1>3. Body(n) \in S /\ \A x \in S : x \in Nat
  BY <1>1 DEF Body
<1>4. Min(S) \in S /\ Min(S) =< Body(n)
  <2> HIDE DEF S
  <2>. QED BY <1>2, <1>3, Zenon DEF Min
<1>5. Height(Block(i), k - 1, 1) \in Nat
  <2>1. IsMeasured(Block(i)) /\ Block(i).lines \in Nat
    BY DocumentFacts DEF IsMeasured
  <2>2. k - 1 \in Nat /\ (k - 1) + 1 <= Block(i).lines
    BY <2>1
  <2>. QED BY <2>1, <2>2, HeightFacts
<1> HIDE DEF S
<1>6. Height(Block(i), k - 1, 1) > Min(S)
  BY <1>3, <1>4, <1>5
<1>. QED BY <1>6 DEF TallContent, S

LEMMA TallStays ==
  ASSUME TallContent, doc' = doc
  PROVE  TallContent'
BY DEF TallContent, Block, BlockCount

LEMMA UpToIsNatural == \A m \in Nat : \A n \in 1 .. m : n \in Nat
OBVIOUS

LEMMA ThisPage ==
  ASSUME NEW n, page' = n
  PROVE  /\ PageHeight(page)' = PageHeight(n)' /\ FragmentsOn(page)' = FragmentsOn(n)'
         /\ Body(page)' = Body(n)'
BY Zenon DEF PageHeight, FragmentsOn, Body, MapThenSumSet, MapThenFoldSet

(* A step that places nothing on the page and does not leave it.           *)
LEMMA SpacedUnmoved ==
  ASSUME Typed, Typed', Spaced, UNCHANGED <<doc, region, plan>>,
         outcome' \in {"too tall", "no space"} => outcome' = outcome \/ TallContent,
         at' = "whole" /\ ~turning' /\ ~regionEmpty => BlockHeight(index') <= available
  PROVE  Spaced'
<1>1. UNCHANGED <<page, available, regionEmpty, fragments>>
  BY DEF region, plan
<1>2. Within'
  BY <1>1 DEF Spaced, Within, Block
<1>3. \A n \in Nat : FragmentsOn(n)' = FragmentsOn(n) /\ PageHeight(n)' = PageHeight(n)
  BY <1>1, <1>2, PagesAddUp, SumsNext, PagesKept DEF Spaced
<1>4. page \in Nat /\ \A n : Body(n)' = Body(n)
  BY TypedFacts DEF Body
<1>5. BlockHeight(index)' = BlockHeight(index')
  BY DEF BlockHeight, Block
<1>6. Roomy'
  <2>1. /\ available + PageHeight(page) = Body(page)
        /\ regionEmpty => FragmentsOn(page) = {}
        /\ available < 0 => TallContent
    BY DEF Spaced, Roomy
  <2>2. PageHeight(page)' = PageHeight(page) /\ FragmentsOn(page)' = FragmentsOn(page) /\ Body(page)' = Body(page)
    <3>1. PICK n \in Nat : n = page
      BY <1>4
    <3>2. page' = n
      BY <1>1, <3>1
    <3>. QED BY <1>3, <1>4, <3>1, <3>2, ThisPage, Zenon
  <2>. QED BY <1>1, <1>5, <2>1, <2>2, TallStays DEF Roomy
<1>7. OverflowIsAlone'
  <2>1. \A n \in 1 .. page : n \in Nat
    BY <1>4, UpToIsNatural, Zenon
  <2>. QED BY <1>1, <1>3, <1>4, <2>1, Zenon DEF Spaced, OverflowIsAlone
<1>8. FailureIsDeserved'
  BY TallStays DEF Spaced, FailureIsDeserved
<1>. QED BY <1>2, <1>6, <1>7, <1>8 DEF Spaced

(* A fragment is placed: beside others only where it fits, and past the    *)
(* bottom only where it is taller than a page.                             *)
LEMMA SpacedPlaced ==
  ASSUME Typed, Typed', Spaced, index \in 1 .. BlockCount,
         NEW first \in Nat, NEW count \in Nat \ {0},
         NEW relaxedOrphans \in BOOLEAN, NEW relaxedWidows \in BOOLEAN,
         first + count <= Block(index).lines,
         Place(first, count, relaxedOrphans, relaxedWidows), UNCHANGED <<doc, outcome>>,
         Height(Block(index), first, count) <= available \/ (regionEmpty /\ TallContent),
         at' # "whole"
  PROVE  Spaced'
<1> DEFINE k == Len(fragments) + 1
<1>0. PICK new : new = [block |-> index, first |-> first, count |-> count, page |-> page,
                        relaxedOrphans |-> relaxedOrphans, relaxedWidows |-> relaxedWidows]
  OBVIOUS
<1>1. /\ new.block = index /\ new.first = first /\ new.count = count /\ new.page = page
      /\ new \in Fragment
  BY <1>0, TypedFacts, IndexFacts DEF Fragment
<1>2. /\ Len(fragments') = Len(fragments) + 1
      /\ \A i \in 1 .. Len(fragments) : fragments'[i] = fragments[i]
      /\ fragments'[Len(fragments) + 1] = new
      /\ page' = page /\ regionEmpty' = FALSE
  BY <1>0, PlaceExtends
<1>3. available' = available - Height(Block(index), first, count)
  BY DEF Place
<1>4. Len(fragments) \in Nat /\ available \in Int /\ page \in Nat \ {0} /\ regionEmpty \in BOOLEAN
  BY FragmentFacts, TypedFacts
<1>5. Within'
  <2>1. ASSUME NEW i \in 1 .. k
        PROVE  fragments'[i].first + fragments'[i].count <= Block(fragments'[i].block).lines
    <3>1. CASE i = k
      BY <1>1, <1>2, <3>1
    <3>2. CASE i \in 1 .. Len(fragments)
      BY <1>2, <3>2 DEF Spaced, Within
    <3>. QED BY <1>4, <3>1, <3>2
  <2>. QED BY <1>2, <2>1 DEF Within, Block
<1>6. /\ \A n \in Nat : n # page => FragmentsOn(n)' = FragmentsOn(n) /\ PageHeight(n)' = PageHeight(n)
      /\ FragmentsOn(new.page)' = FragmentsOn(new.page) \cup {k}
      /\ PageHeight(new.page) \in Nat /\ Height(Block(index), first, count) \in Nat
      /\ PageHeight(new.page)' = Height(Block(index), first, count) + PageHeight(new.page)
  <2>1. PageSums /\ PageSums'
    BY <1>5, PagesAddUp, SumsNext DEF Spaced
  <2>. QED BY <1>1, <1>2, <2>1, FragmentAdded
<1> HIDE DEF k
<1>7. PICK n \in Nat : n = page /\ n = new.page
  BY <1>1, <1>4
<1>8. /\ FragmentsOn(page)' = FragmentsOn(n) \cup {k} /\ Body(page)' = Body(n)
      /\ PageHeight(page)' = Height(Block(index), first, count) + PageHeight(n)
      /\ FragmentsOn(n)' = FragmentsOn(page)' /\ PageHeight(n)' = PageHeight(page)'
  <2>1. page' = n
    BY <1>2, <1>7
  <2>2. Body(n)' = Body(n)
    BY DEF Body
  <2>. QED BY <1>6, <1>7, <2>1, <2>2, ThisPage, Zenon
<1>9. PICK h : h = Height(Block(index), first, count)
  OBVIOUS
<1>10. h \in Nat /\ available' = available - h /\ (h <= available \/ (regionEmpty /\ TallContent))
  BY <1>3, <1>6, <1>9
<1>11. /\ available + PageHeight(n) = Body(n) /\ PageHeight(n) \in Nat
       /\ regionEmpty => FragmentsOn(n) = {}
       /\ available < 0 => TallContent
  BY <1>6, <1>7 DEF Spaced, Roomy
<1>12. Roomy'
  <2>1. available' + PageHeight(page)' = Body(page)'
    <3>1. \A a, b, c, x \in Int : a + b = c => (a - x) + (x + b) = c
      OBVIOUS
    <3>2. Body(n) \in Int
      BY <1>11, <1>4
    <3>3. PageHeight(page)' = h + PageHeight(n)
      BY <1>8, <1>9
    <3>. QED BY <1>4, <1>8, <1>10, <1>11, <3>1, <3>2, <3>3
  <2>2. available' < 0 => TallContent'
    BY <1>4, <1>10, TallStays
  <2>. QED BY <1>2, <2>1, <2>2 DEF Roomy
<1>13. OverflowIsAlone'
  <2>1. ASSUME NEW m \in 1 .. page, Cardinality(FragmentsOn(m)') > 1
        PROVE  PageHeight(m)' <= Body(m)'
    <3>1. m \in Nat /\ Body(m)' = Body(m)
      BY <1>4 DEF Body
    <3>2. CASE m # page
      BY <1>6, <2>1, <3>1, <3>2, Zenon DEF Spaced, OverflowIsAlone
    <3>3. CASE m = page
      <4>1. m = n /\ FragmentsOn(m)' = FragmentsOn(n) \cup {k}
        BY <1>6, <1>7, <3>3
      <4>2. FragmentsOn(n) # {}
        <5>1. {} \cup {k} = {k} /\ Cardinality({k}) = 1
          BY FS_Singleton
        <5>. QED BY <2>1, <4>1, <5>1
      <4>3. h <= available
        BY <1>10, <1>11, <4>2
      <4>4. PageHeight(m)' = h + PageHeight(n)
        BY <1>6, <1>7, <1>9, <4>1
      <4>5. h + PageHeight(n) <= Body(n)
        BY <1>4, <1>10, <1>11, <4>3
      <4>. QED BY <3>1, <4>1, <4>4, <4>5
    <3>. QED BY <3>2, <3>3
  <2>. QED BY <1>2, <2>1, Zenon DEF OverflowIsAlone
<1>14. FailureIsDeserved'
  BY TallStays DEF Spaced, FailureIsDeserved
<1>. QED BY <1>5, <1>12, <1>13, <1>14 DEF Spaced

(* What is placed of a paragraph fits, or it is a line too tall for the    *)
(* empty page.                                                             *)
LEMMA FittingPrefixHeight ==
  ASSUME NEW p, NEW space, NEW from, IsParagraph(p), IsSpace(space), IsToken(p, from)
  PROVE  Height(p, from.next, FittingPrefix(p, space, from)) <= space.available
<1> DEFINE S == {c \in 0 .. Rest(p, from) : Height(p, from.next, c) <= space.available}
<1>1. Rest(p, from) \in Nat
  BY DEF Rest, IsParagraph, IsToken
<1>2. 0 \in S
  BY <1>1, SMTT(30) DEF Height, Rest, IsParagraph, IsToken, IsSpace
<1>3. S \in SUBSET (0 .. Rest(p, from)) /\ S # {}
  BY <1>2
<1>4. FittingPrefix(p, space, from) = Max(S)
  BY DEF FittingPrefix
<1>5. Max(S) \in S
  <2> HIDE DEF S
  <2>. QED BY <1>1, <1>3, MaxIsGreatest
<1>. QED BY <1>4, <1>5

LEMMA PlacedFits ==
  ASSUME NEW p, NEW space, NEW from, IsParagraph(p), IsSpace(space), IsToken(p, from),
         FragmentContext(p, space, from).action = "place"
  PROVE  LET answer == FragmentContext(p, space, from)
         IN \/ answer.count \in 1 .. FittingPrefix(p, space, from)
            \/ answer.count = 1 /\ space.empty /\ Height(p, from.next, 1) > space.available
<1> DEFINE answer == FragmentContext(p, space, from)
           fit == FittingPrefix(p, space, from)
           splits == SplitsPreservingWidows(p, space, from)
<1>1. /\ fit \in 0 .. Rest(p, from) /\ Rest(p, from) \in Nat \ {0}
      /\ \A c \in 0 .. Rest(p, from) : Height(p, from.next, c) <= space.available => c <= fit
  BY FittingPrefixFits DEF Rest, IsParagraph, IsToken
<1>2. CASE fit = 0 /\ space.empty /\ answer = OversizedLine(p, space, from)
  <2>1. answer.count = 1
    BY <1>2 DEF OversizedLine, PlacedResult
  <2>2. ~(Height(p, from.next, 1) <= space.available)
    BY <1>1, <1>2
  <2>3. from.next + 1 \in 0 .. p.lines /\ from.next \in 0 .. p.lines
    BY DEF IsParagraph, IsToken
  <2>4. Height(p, from.next, 1) \in Int /\ space.available \in Int
    BY <2>3, SMTT(30) DEF Height, IsParagraph, IsSpace
  <2>. QED BY <1>2, <2>1, <2>2, <2>4
<1>3. CASE fit > 0 /\ fit = Rest(p, from) /\ answer = WholeRest(p, from)
  <2>1. answer.count = fit
    BY <1>3 DEF WholeRest, PlacedResult
  <2>. QED BY <1>1, <1>3, <2>1
<1>4. CASE LegalSplits(p, space, from) # {} /\ answer = LegalSplit(p, space, from)
  <2>1. Max(LegalSplits(p, space, from)) \in LegalSplits(p, space, from)
    BY <1>4, SplitsAreBounded
  <2>2. answer.count = Max(LegalSplits(p, space, from))
    BY <1>4 DEF LegalSplit, PlacedResult
  <2>. QED BY <2>1, <2>2 DEF LegalSplits
<1>5. CASE fit > 0 /\ answer = RelaxedSplit(p, space, from)
  <2>1. CASE splits = {}
    <3>1. answer.count = fit
      BY <1>5, <2>1 DEF RelaxedSplit, PlacedResult
    <3>. QED BY <1>1, <1>5, <3>1
  <2>2. CASE splits # {}
    <3>1. Max(splits) \in splits
      BY <2>2, SplitsAreBounded
    <3>2. answer.count = Max(splits)
      BY <1>5, <2>2 DEF RelaxedSplit, PlacedResult
    <3>. QED BY <3>1, <3>2 DEF SplitsPreservingWidows
  <2>. QED BY <2>1, <2>2
<1>. QED BY <1>2, <1>3, <1>4, <1>5, PlacedCases

LEMMA TextFits ==
  ASSUME Typed, AtText, SpaceIsValid(Space), Answer.action = "place"
  PROVE  \/ Height(Block(index), token.next, Answer.count) <= available
         \/ /\ regionEmpty
            /\ \E k \in 1 .. Block(index).lines : Height(Block(index), k - 1, 1) > available
<1> DEFINE p == Policy(index)
           fit == FittingPrefix(p, Space, token)
<1>1. /\ index \in 1 .. BlockCount /\ IsParagraph(p) /\ IsSpace(Space) /\ IsToken(p, token)
      /\ p.lines = Block(index).lines /\ Answer = FragmentContext(p, Space, token)
  BY TextFacts DEF Answer
<1>2. IsMeasured(Block(index)) /\ p.bottom = Block(index).bottom
  BY <1>1, DocumentFacts, TypedFacts, PolicyIsParagraph
<1>3. Space.available = available /\ Space.empty = regionEmpty
  BY DEF Space
<1>4. \A first, count : Height(p, first, count) = Height(Block(index), first, count)
  BY <1>2 DEF Height
<1> HIDE DEF p
<1>5. /\ fit \in 0 .. Rest(p, token) /\ Height(p, token.next, fit) <= Space.available
      /\ Rest(p, token) = Block(index).lines - token.next
      /\ token.next \in Nat /\ Block(index).lines \in Nat /\ token.next < Block(index).lines
  BY <1>1, FittingPrefixFits, FittingPrefixHeight DEF Rest, IsToken, IsParagraph
<1>6. \/ Answer.count \in 1 .. fit
      \/ Answer.count = 1 /\ Space.empty /\ Height(p, token.next, 1) > Space.available
  BY <1>1, PlacedFits
<1> HIDE DEF fit
<1>7. CASE Answer.count \in 1 .. fit
  <2>1. fit \in Nat /\ token.next + fit <= Block(index).lines /\ Answer.count \in 0 .. fit
    BY <1>5, <1>7
  <2>2. /\ Height(Block(index), token.next, fit) \in Nat
        /\ Height(Block(index), token.next, Answer.count) \in Nat
        /\ Height(Block(index), token.next, Answer.count) <= Height(Block(index), token.next, fit)
    BY <1>2, <1>5, <2>1, HeightFacts
  <2>3. Height(Block(index), token.next, fit) <= available /\ available \in Int
    BY <1>3, <1>4, <1>5, TypedFacts
  <2>. QED BY <2>2, <2>3
<1>8. CASE Answer.count = 1 /\ Space.empty /\ Height(p, token.next, 1) > Space.available
  <2>1. token.next + 1 \in 1 .. Block(index).lines /\ (token.next + 1) - 1 = token.next
    BY <1>5
  <2>2. Height(Block(index), (token.next + 1) - 1, 1) > available
    BY <1>3, <1>4, <1>8, <2>1
  <2>. QED BY <1>3, <1>8, <2>1, <2>2
<1>. QED BY <1>6, <1>7, <1>8

(* An empty page has the height of its body.                               *)
LEMMA EmptyIsWhole ==
  ASSUME Typed, Spaced, regionEmpty
  PROVE  available = Body(page)
<1>1. page \in Nat /\ available \in Int
  BY TypedFacts
<1>2. FragmentsOn(page) = {} /\ available + PageHeight(page) = Body(page)
  BY DEF Spaced, Roomy
<1>3. PageHeight(page) = 0
  BY <1>1, <1>2, PagesAddUp, NothingOnPage DEF Spaced
<1>. QED BY <1>1, <1>2, <1>3

LEMMA SpacedInit == Fresh => Spaced
<1> SUFFICES ASSUME Fresh PROVE Spaced
  OBVIOUS
<1>1. Typed /\ fragments = <<>> /\ page = 1 /\ available = Body(1) /\ regionEmpty /\ at = "block"
  BY TypedInit DEF Fresh, Body
<1>2. Len(fragments) = 0 /\ \A n : FragmentsOn(n) = {}
  BY <1>1 DEF FragmentsOn
<1>3. Within
  BY <1>2 DEF Within
<1>4. \A n \in Nat : PageHeight(n) = 0 /\ Cardinality(FragmentsOn(n)) = 0
  BY <1>1, <1>2, <1>3, PagesAddUp, NothingOnPage
<1>5. Body(1) \in Nat
  BY <1>1, DocumentFacts, TypedFacts
<1>6. Roomy
  <2>1. available + PageHeight(page) = Body(page)
    <3>1. PageHeight(1) = 0
      BY <1>4
    <3>. QED BY <1>1, <1>5, <3>1
  <2>2. ~(available < 0)
    BY <1>1, <1>5
  <2>. QED BY <1>1, <1>2, <2>1, <2>2 DEF Roomy
<1>7. OverflowIsAlone
  BY <1>1, <1>4 DEF OverflowIsAlone
<1>8. FailureIsDeserved
  BY DEF Fresh, FailureIsDeserved
<1>. QED BY <1>3, <1>6, <1>7, <1>8 DEF Spaced

LEMMA SpacedTurned ==
  ASSUME Typed, Typed', Spaced, AdvanceBodyPage
  PROVE  Spaced'
<1>1. /\ UNCHANGED <<doc, index, at, fragments, outcome>>
      /\ page' = page + 1 /\ available' = Body(page + 1) /\ regionEmpty' = TRUE
  BY DEF AdvanceBodyPage, cursor, plan
<1>2. Within'
  BY <1>1 DEF Spaced, Within, Block
<1>3. PageSums /\ PageSums'
  BY <1>2, PagesAddUp, SumsNext DEF Spaced
<1>4. \A n \in Nat : FragmentsOn(n)' = FragmentsOn(n) /\ PageHeight(n)' = PageHeight(n)
  BY <1>1, <1>3, PagesKept
<1>5. page \in Nat \ {0} /\ \A n : Body(n)' = Body(n)
  BY <1>1, TypedFacts DEF Body
<1>6. PICK n \in Nat : n = page + 1
  BY <1>5
<1>7. FragmentsOn(n) = {}
  <2>1. \A i \in DOMAIN fragments : fragments[i].page \in 1 .. page
    BY TypeParts, Zenon DEF Typed, Recorded
  <2>2. n \notin 1 .. page
    BY <1>5, <1>6
  <2>. QED BY <2>1, <2>2 DEF FragmentsOn
<1>8. PageHeight(n) = 0 /\ Cardinality(FragmentsOn(n)) = 0 /\ Body(n) \in Nat
  BY <1>3, <1>7, NothingOnPage, DocumentFacts, TypedFacts
<1>9. /\ FragmentsOn(page)' = {} /\ PageHeight(page)' = 0 /\ Body(page)' = Body(n)
      /\ available' = Body(n)
  <2>1. page' = n
    BY <1>1, <1>6
  <2>. QED BY <1>1, <1>4, <1>5, <1>6, <1>7, <1>8, <2>1, ThisPage, Zenon
<1>10. Roomy'
  <2>1. available' + PageHeight(page)' = Body(page)' /\ ~(available' < 0)
    BY <1>8, <1>9
  <2>. QED BY <1>1, <1>9, <2>1 DEF Roomy
<1>11. OverflowIsAlone'
  <2>1. ASSUME NEW m \in 1 .. page', Cardinality(FragmentsOn(m)') > 1
        PROVE  PageHeight(m)' <= Body(m)'
    <3>1. m \in Nat /\ (m = n \/ m \in 1 .. page)
      BY <1>1, <1>5, <1>6
    <3>2. m # n
      BY <1>4, <1>8, <2>1
    <3>. QED BY <1>4, <1>5, <2>1, <3>1, <3>2, Zenon DEF Spaced, OverflowIsAlone
  <2>. QED BY <2>1, Zenon DEF OverflowIsAlone
<1>12. FailureIsDeserved'
  BY <1>1, TallStays DEF Spaced, FailureIsDeserved
<1>. QED BY <1>2, <1>10, <1>11, <1>12 DEF Spaced

LEMMA WholeFacts ==
  ASSUME Typed, index <= BlockCount, Block(index).lines = 1
  PROVE  /\ index \in 1 .. BlockCount /\ BlockHeight(index) \in Nat
         /\ BlockHeight(index) = Height(Block(index), 0, 1)
         /\ BlockHeight(index) = Height(Block(index), 1 - 1, 1)
<1>1. index \in 1 .. BlockCount
  BY IndexFacts
<1>2. IsMeasured(Block(index))
  BY <1>1, DocumentFacts, TypedFacts
<1>3. /\ Block(index).bottom \in [0 .. 1 -> Nat] /\ Block(index).bottom[0] = 0
      /\ 1 \in 0 .. 1 /\ 0 + 1 = 1 /\ 1 - 1 = 0
  BY <1>2 DEF IsMeasured
<1>4. Block(index).bottom[1] \in Nat
  BY <1>3
<1>5. Height(Block(index), 0, 1) = Block(index).bottom[1]
  BY <1>3, <1>4 DEF Height
<1>. QED BY <1>1, <1>3, <1>4, <1>5 DEF BlockHeight

LEMMA SpacedNext == Typed /\ Typed' /\ Spaced /\ [Next]_vars => Spaced'
<1> SUFFICES ASSUME Typed, Typed', Spaced, [Next]_vars PROVE Spaced'
  OBVIOUS
<1>0. /\ IsDocument(doc) /\ page \in Nat \ {0} /\ available \in Int /\ Body(page) \in Nat
      /\ turning \in BOOLEAN /\ regionEmpty \in BOOLEAN
  BY TypedFacts, DocumentFacts, PendingFacts
<1>1. CASE AdvanceBodyPage
  BY <1>1, SpacedTurned
<1>2. CASE NoteExplicitBreak \/ CheckKeep
  <2>1. UNCHANGED <<doc, region, plan, outcome>> /\ at' # "whole"
    BY <1>2 DEF NoteExplicitBreak, CheckKeep, NextBlock
  <2>. QED BY <2>1, SpacedUnmoved
<1>3. CASE TakeExplicitBreak \/ DeferText
  <2>1. UNCHANGED <<doc, region, plan, outcome>> /\ turning' = TRUE
    BY <1>3 DEF TakeExplicitBreak, DeferText, TurnFor
  <2>. QED BY <2>1, SpacedUnmoved
<1>4. CASE FitWhole
  <2>1. UNCHANGED <<doc, region, plan, outcome, index>>
    BY <1>4 DEF FitWhole
  <2>2. CASE BlockHeight(index) > available /\ ~regionEmpty
    <3>1. turning' = TRUE
      BY <1>4, <2>2 DEF FitWhole, TurnFor
    <3>. QED BY <2>1, <3>1, SpacedUnmoved
  <2>3. CASE ~(BlockHeight(index) > available) \/ regionEmpty
    <3>1. AtWhole
      BY <1>4 DEF FitWhole
    <3>2. index <= BlockCount /\ Block(index).kind # "text"
      BY <3>1 DEF AtWhole
    <3>3. Block(index).lines = 1
      <4>1. index \in 1 .. BlockCount
        BY <3>2, IndexFacts
      <4>. QED BY <1>0, <3>2, <4>1, DocumentFacts DEF IsMeasured
    <3>4. BlockHeight(index) \in Nat
      BY <3>2, <3>3, WholeFacts
    <3>5. ~regionEmpty => BlockHeight(index) <= available
      BY <1>0, <2>3, <3>4
    <3>6. BlockHeight(index') = BlockHeight(index)
      BY <2>1
    <3>. QED BY <2>1, <3>5, <3>6, SpacedUnmoved, Zenon
  <2>. QED BY <2>2, <2>3
<1>5. CASE RejectTallBlock
  <2>1. /\ AtWhole /\ BlockHeight(index) > Body(page)
        /\ UNCHANGED <<doc, cursor, turning, region, plan>>
    BY <1>5 DEF RejectTallBlock, Fail
  <2>2. index <= BlockCount /\ Block(index).kind # "text" /\ at # "whole" /\ index \in 1 .. BlockCount
    BY <2>1, IndexFacts DEF AtWhole
  <2>3. Block(index).lines = 1
    BY <1>0, <2>2, DocumentFacts DEF IsMeasured
  <2>4. Height(Block(index), 1 - 1, 1) > Body(page)
    BY <2>1, <2>2, <2>3, WholeFacts
  <2>5. TallContent
    <3>1. 1 \in 1 .. Block(index).lines /\ page \in Nat
      BY <1>0, <2>3
    <3>. QED BY <1>0, <2>2, <2>4, <3>1, TallerThanABody
  <2>6. at' # "whole"
    BY <2>1, <2>2 DEF cursor
  <2>. QED BY <2>1, <2>5, <2>6, SpacedUnmoved
<1>6. CASE RejectSpace
  <2>1. /\ AtText /\ ~SpaceIsValid(Space) /\ UNCHANGED <<doc, cursor, turning, region, plan>>
    BY <1>6 DEF RejectSpace, Fail
  <2>2. Body(page + 1) \in Nat \ {0}
    BY NextBodyFacts
  <2>3. available < 0
    BY <1>0, <2>1, <2>2 DEF SpaceIsValid, Space
  <2>4. at' # "whole"
    BY <2>1 DEF AtText, cursor
  <2>. QED BY <2>1, <2>3, <2>4, SpacedUnmoved DEF Spaced, Roomy
<1>7. CASE ExceedPageLimit \/ Finish \/ UNCHANGED vars
  <2>1. /\ UNCHANGED <<doc, index, at, turning, region, plan>>
        /\ outcome' \in {"too tall", "no space"} => outcome' = outcome
    BY <1>7, Zenon DEF ExceedPageLimit, Finish, Fail, vars, cursor
  <2>2. at' = "whole" /\ ~turning' /\ ~regionEmpty => BlockHeight(index') <= available
    BY <2>1, Zenon DEF Spaced, Roomy
  <2>. QED BY <2>1, <2>2, SpacedUnmoved
<1>8. CASE PlaceWhole
  <2>1. /\ at = "whole" /\ ~turning /\ Place(0, 1, FALSE, FALSE) /\ at' # "whole" /\ UNCHANGED <<doc, outcome>>
    BY <1>8 DEF PlaceWhole, NextBlock, Planning
  <2>2. index <= BlockCount /\ Block(index).lines = 1
    BY <2>1, TypedFacts
  <2>3. /\ index \in 1 .. BlockCount /\ BlockHeight(index) \in Nat
        /\ BlockHeight(index) = Height(Block(index), 0, 1)
        /\ BlockHeight(index) = Height(Block(index), 1 - 1, 1)
    BY <2>2, WholeFacts
  <2>4. Height(Block(index), 0, 1) <= available \/ (regionEmpty /\ TallContent)
    <3>1. CASE ~regionEmpty
      BY <2>1, <2>3, <3>1 DEF Spaced, Roomy
    <3>2. CASE regionEmpty /\ BlockHeight(index) > available
      <4>1. available = Body(page)
        BY <3>2, EmptyIsWhole
      <4>2. 1 \in 1 .. Block(index).lines /\ page \in Nat /\ Height(Block(index), 1 - 1, 1) > Body(page)
        BY <1>0, <2>2, <2>3, <3>2, <4>1
      <4>. QED BY <1>0, <2>3, <3>2, <4>2, TallerThanABody
    <3>. QED BY <1>0, <2>3, <3>1, <3>2
  <2>5. FALSE \in BOOLEAN /\ 0 \in Nat /\ 1 \in Nat \ {0} /\ 0 + 1 <= 1
    OBVIOUS
  <2>. QED BY <2>1, <2>2, <2>3, <2>4, <2>5, SpacedPlaced
<1>9. CASE PlaceText
  <2>1. /\ AtText /\ SpaceIsValid(Space) /\ Answer.action = "place"
        /\ Place(token.next, Answer.count, Answer.relaxedOrphans, Answer.relaxedWidows)
        /\ UNCHANGED <<doc, outcome>>
    BY <1>9 DEF PlaceText
  <2>2. at' # "whole"
    BY <1>9 DEF PlaceText, NextBlock, AtText
  <2>3. PICK first, count, few, broken :
          /\ first = token.next /\ count = Answer.count
          /\ few = Answer.relaxedOrphans /\ broken = Answer.relaxedWidows
    OBVIOUS
  <2>4. /\ count \in Nat \ {0} /\ few \in BOOLEAN /\ broken \in BOOLEAN
        /\ first + count <= Block(index).lines /\ first \in Nat /\ index \in 1 .. BlockCount
    BY <2>1, <2>3, AnswerFacts, TextFacts, TypedFacts DEF FlagsAndReason
  <2>5. Place(first, count, few, broken)
    BY <2>1, <2>3, Zenon
  <2>6. Height(Block(index), first, count) <= available \/ (regionEmpty /\ TallContent)
    <3>1. CASE Height(Block(index), token.next, Answer.count) <= available
      BY <2>3, <3>1
    <3>2. ASSUME regionEmpty, NEW k \in 1 .. Block(index).lines, Height(Block(index), k - 1, 1) > available
          PROVE  TallContent
      <4>1. available = Body(page) /\ page \in Nat
        BY <1>0, <3>2, EmptyIsWhole
      <4>2. Height(Block(index), k - 1, 1) > Body(page)
        BY <3>2, <4>1
      <4>. QED BY <1>0, <2>4, <4>1, <4>2, TallerThanABody
    <3>. QED BY <2>1, <3>1, <3>2, TextFits
  <2>. QED BY <2>1, <2>2, <2>4, <2>5, <2>6, SpacedPlaced
<1>. QED BY <1>1, <1>2, <1>3, <1>4, <1>5, <1>6, <1>7, <1>8, <1>9, Zenon DEF Next, Stopped

-----------------------------------------------------------------------------
(* The keep groups.                                                        *)

LEMMA MinIsLeast ==
  ASSUME NEW S \in SUBSET Nat, S # {}
  PROVE  Min(S) \in S /\ \A c \in S : Min(S) <= c
<1>1. PICK t \in S : \A u \in S : ~(<<u, t>> \in OpToRel(<, Nat))
  BY WFMin, NatLessThanWellFounded
<1>2. \A u \in Nat : u < t => <<u, t>> \in OpToRel(<, Nat)
  <2>1. t \in Nat
    OBVIOUS
  <2>. QED BY <2>1, Zenon DEF OpToRel
<1>3. \A u \in S : t =< u
  <2>1. \A u \in S : u \in Nat /\ ~(u < t)
    BY <1>1, <1>2, Zenon
  <2>. QED BY <2>1
<1>4. Min(S) \in S /\ \A c \in S : Min(S) =< c
  BY <1>3, Zenon DEF Min
<1>. QED BY <1>4

(* Where the keep constraints of a block end.                              *)
LEMMA ConstraintEndFacts ==
  ASSUME Typed, index \in 1 .. BlockCount
  PROVE  /\ ConstraintEnd \in index .. BlockCount
         /\ \A g \in GroupsFrom(index) : g.last <= ConstraintEnd
         /\ \A end \in index .. BlockCount :
              (\A g \in GroupsFrom(index) : g.last <= end) /\ ~LinkedToNext(end)
              => ConstraintEnd <= end
<1> DEFINE S == {index} \cup {g.last : g \in GroupsFrom(index)}
           E == {i \in Max(S) .. BlockCount : ~LinkedToNext(i)}
<1>1. BlockCount \in Nat /\ index \in Nat \ {0}
  BY IndexFacts
<1>2. ASSUME NEW g \in GroupsFrom(index)
      PROVE  g.last \in index .. BlockCount
  <2>1. g \in doc.groups /\ g.first = index
    BY DEF GroupsFrom
  <2>2. g.first \in 1 .. g.last /\ g.last \in 1 .. BlockCount
    BY <2>1, TypedFacts DEF IsDocument, BlockCount
  <2>. QED BY <1>1, <2>1, <2>2
<1>3. S \in SUBSET (index .. BlockCount) /\ S \in SUBSET (0 .. BlockCount) /\ S # {} /\ index \in S
  BY <1>1, <1>2
<1>4. Max(S) \in S /\ \A c \in S : c <= Max(S)
  <2> HIDE DEF S
  <2>. QED BY <1>1, <1>3, MaxIsGreatest
<1>5. Max(S) \in index .. BlockCount
  BY <1>3, <1>4
<1>6. \A g \in GroupsFrom(index) : g.last <= Max(S)
  BY <1>4
<1>7. \A end \in index .. BlockCount : (\A g \in GroupsFrom(index) : g.last <= end) => Max(S) <= end
  BY <1>1, <1>4
<1> HIDE DEF S
<1>8. BlockCount \in E
  BY <1>1, <1>5 DEF LinkedToNext
<1>9. E \in SUBSET Nat /\ E # {}
  BY <1>1, <1>5, <1>8
<1>10. Min(E) \in E /\ \A c \in E : Min(E) <= c
  <2> HIDE DEF E
  <2>. QED BY <1>9, MinIsLeast
<1>11. ConstraintEnd = Min(E)
  BY DEF ConstraintEnd, S
<1>12. Min(E) \in Max(S) .. BlockCount
  BY <1>10
<1>13. \A end \in index .. BlockCount :
         (\A g \in GroupsFrom(index) : g.last <= end) /\ ~LinkedToNext(end) => end \in E
  BY <1>1, <1>5, <1>7
<1> HIDE DEF E
<1>14. Min(E) \in index .. BlockCount
  BY <1>1, <1>5, <1>12
<1>15. ASSUME NEW g \in GroupsFrom(index) PROVE g.last <= Min(E)
  <2>1. g.last \in Int /\ g.last <= Max(S)
    BY <1>1, <1>2, <1>6
  <2>. QED BY <1>1, <1>5, <1>12, <2>1
<1>. QED BY <1>10, <1>11, <1>13, <1>14, <1>15

Excepted(g) ==
  g.first \in keepTooLarge \/ Block(g.first).kind = "canvas" \/ LinkedToNext(g.last)

(* The fragments are of blocks before this one, or of its lines before the *)
(* token.                                                                  *)
Behind ==
  \A i \in 1 .. Len(fragments) :
    fragments[i].block < index \/ (fragments[i].block = index /\ token.next > 0)

OfGroup(g) == {i \in 1 .. Len(fragments) : fragments[i].block \in g.first .. g.last}
OnThisPage(g) == \A i \in OfGroup(g) : fragments[i].page = page
OnOnePage(g) == \A i, j \in OfGroup(g) : fragments[i].page = fragments[j].page

(* The rest of a group that was begun fits the page.                       *)
RestFits(g) ==
  TotalHeight(index, g.last) <= IF turning THEN Body(page + 1) ELSE available

Underway(g) ==
  /\ index \in g.first .. g.last /\ token.next = 0
  /\ RestFits(g)
  /\ index > g.first => ~turning /\ ~regionEmpty /\ ~explicitBreakPending /\ OnThisPage(g)

GroupKept(g) ==
  \/ Excepted(g)
  \/ index < g.first \/ (index = g.first /\ at = "block")
  \/ Underway(g)
  \/ index > g.last /\ OnOnePage(g)

Keeping == Uniform => \A g \in doc.groups : GroupKept(g)

LEMMA GroupFacts ==
  ASSUME Typed, NEW g \in doc.groups
  PROVE  /\ g.first \in 1 .. BlockCount /\ g.last \in g.first .. BlockCount
         /\ \A i \in g.first .. g.last : ~IsBreak(i)
         /\ \A h \in doc.groups : h.first \in g.first + 1 .. g.last => h.last <= g.last
<1>1. BlockCount \in Nat /\ IsDocument(doc)
  BY IndexFacts, TypedFacts
<1>2. /\ g.first \in 1 .. g.last /\ g.last \in 1 .. BlockCount
      /\ \A i \in g.first .. g.last : ~IsBreak(i)
      /\ \A h \in doc.groups : h.first \in g.first + 1 .. g.last => h.last <= g.last
  BY <1>1 DEF IsDocument, BlockCount, IsBreak, Block
<1>. QED BY <1>1, <1>2

LEMMA UniformBodies ==
  ASSUME Typed, Uniform
  PROVE  /\ KeepCapacity = Body(page) /\ Body(page + 1) = Body(page) /\ Body(page) \in Nat \ {0}
<1>1. \A n \in Nat : Body(n) = doc.bodies.first
  BY DEF Uniform, Body
<1>2. page \in Nat /\ page + 1 \in Nat
  BY TypedFacts
<1>3. Body(page) \in Nat \ {0} /\ Body(page + 1) = Body(page)
  BY <1>1, <1>2, DocumentFacts, TypedFacts
<1>4. Max({Body(page), Body(page + 1)}) = Body(page)
  <2> DEFINE S == {Body(page)}
  <2>1. S \in SUBSET (0 .. Body(page)) /\ S # {}
    BY <1>3
  <2>2. Max(S) \in S
    <3> HIDE DEF S
    <3>. QED BY <1>3, <2>1, MaxIsGreatest
  <2>3. {Body(page), Body(page + 1)} = S
    BY <1>3
  <2>. QED BY <2>2, <2>3
<1>. QED BY <1>3, <1>4 DEF KeepCapacity

(* The height asked for at the first block of a group is at least that of  *)
(* the group.                                                              *)
LEMMA GroupIsRequired ==
  ASSUME Typed, NEW g \in doc.groups, index = g.first
  PROVE  /\ Constrained /\ RequiredHeight \in Nat
         /\ TotalHeight(index, g.last) \in Nat /\ TotalHeight(index, g.last) <= RequiredHeight
<1> DEFINE end == ConstraintEnd
           lead == Height(Block(end), 0, Block(end).orphans)
<1>1. index \in 1 .. BlockCount /\ g \in GroupsFrom(index) /\ g.last \in index .. BlockCount
  BY GroupFacts DEF GroupsFrom
<1>2. end \in index .. BlockCount /\ g.last <= end
  BY <1>1, ConstraintEndFacts
<1>3. IsDocument(doc) /\ BlockCount \in Nat
  BY TypedFacts, IndexFacts
<1>4. g.last \in 0 .. BlockCount /\ end \in g.last .. BlockCount
  BY <1>1, <1>2, <1>3
<1>5. /\ TotalHeight(index, g.last) \in Nat /\ TotalHeight(index, end) \in Nat
      /\ TotalHeight(index, g.last) <= TotalHeight(index, end)
  <2> HIDE DEF end
  <2>. QED BY <1>1, <1>3, <1>4, TotalsGrow
<1>6. ASSUME Splittable(end)
      PROVE  /\ lead \in Nat /\ TotalHeight(index, end - 1) \in Nat
             /\ TotalHeight(index, g.last) <= TotalHeight(index, end - 1)
  <2>1. g.last # end
    <3>1. GroupsAt(end) = {}
      BY <1>6 DEF Splittable
    <3>2. g.last = end => g \in GroupsAt(end)
      BY <1>1, <1>2 DEF GroupsAt
    <3>. QED BY <3>1, <3>2
  <2>2. end - 1 \in g.last .. BlockCount
    BY <1>1, <1>2, <1>3, <2>1
  <2>3. TotalHeight(index, end - 1) \in Nat /\ TotalHeight(index, g.last) <= TotalHeight(index, end - 1)
    <3> DEFINE before == end - 1
    <3>1. before \in g.last .. BlockCount
      BY <2>2
    <3> HIDE DEF before
    <3>2. TotalHeight(index, before) \in Nat /\ TotalHeight(index, g.last) <= TotalHeight(index, before)
      BY <1>1, <1>3, <1>4, <3>1, TotalsGrow
    <3>. QED BY <3>2 DEF before
  <2>4. lead \in Nat
    <3>1. end \in 1 .. BlockCount
      BY <1>1, <1>2, <1>3
    <3>2. IsMeasured(Block(end))
      BY <1>3, <3>1, DocumentFacts
    <3>3. Block(end).orphans \in Nat /\ 0 + Block(end).orphans <= Block(end).lines
      BY <1>6, <3>2 DEF IsMeasured, Splittable
    <3>4. 0 \in Nat
      OBVIOUS
    <3> HIDE DEF end
    <3>. QED BY <3>2, <3>3, <3>4, HeightFacts
  <2>. QED BY <2>3, <2>4
<1>7. \/ RequiredHeight = TotalHeight(index, end)
      \/ Splittable(end) /\ RequiredHeight = TotalHeight(index, end - 1) + lead
  BY DEF RequiredHeight
<1>8. Constrained
  BY <1>1 DEF Constrained
<1> HIDE DEF end, lead
<1>9. ASSUME NEW a \in Nat, NEW b \in Nat, NEW c \in Nat, a <= b
      PROVE  b + c \in Nat /\ a <= b + c
  BY <1>9
<1>. QED BY <1>5, <1>6, <1>7, <1>8, <1>9, ZenonT(30)

(* The height asked for inside a group is at most that of its rest.        *)
LEMMA RestIsRequired ==
  ASSUME Typed, Spaced, Uniform, NEW g \in doc.groups, index \in g.first + 1 .. g.last,
         ~LinkedToNext(g.last), TotalHeight(index, g.last) <= available
  PROVE  /\ RequiredHeight \in Nat
         /\ RequiredHeight <= available /\ RequiredHeight <= KeepCapacity
<1> DEFINE end == ConstraintEnd
<1>1. /\ index \in 1 .. BlockCount /\ g.last \in index .. BlockCount
      /\ \A h \in GroupsFrom(index) : h.last <= g.last
  BY GroupFacts, IndexFacts DEF GroupsFrom
<1>2. end \in index .. BlockCount /\ end <= g.last
  BY <1>1, ConstraintEndFacts
<1>3. IsDocument(doc) /\ BlockCount \in Nat /\ available \in Int
  BY TypedFacts, IndexFacts
<1>4. end \in 0 .. BlockCount /\ g.last \in end .. BlockCount
  BY <1>1, <1>2, <1>3
<1>5. /\ TotalHeight(index, end) \in Nat /\ TotalHeight(index, g.last) \in Nat
      /\ TotalHeight(index, end) <= TotalHeight(index, g.last)
  <2> HIDE DEF end
  <2>. QED BY <1>1, <1>3, <1>4, TotalsGrow
<1>6. KeepCapacity = Body(page) /\ Body(page) \in Nat
  BY UniformBodies
<1>7. available <= Body(page)
  <2>1. page \in Nat
    BY TypedFacts
  <2>2. PageHeight(page) \in Nat
    BY <2>1, PagesAddUp, Sums!SumIsNatural DEF Spaced, PageSums
  <2>3. available + PageHeight(page) = Body(page)
    BY DEF Spaced, Roomy
  <2>. QED BY <1>3, <2>2, <2>3
<1>8. TotalHeight(index, end) <= available /\ TotalHeight(index, end) <= KeepCapacity
  BY <1>3, <1>5, <1>6, <1>7
<1>9. RequiredHeight = TotalHeight(index, end)
  BY <1>5, <1>6, <1>8 DEF RequiredHeight
<1>. QED BY <1>5, <1>8, <1>9

-----------------------------------------------------------------------------
LEMMA BehindUnmoved ==
  ASSUME Behind, UNCHANGED <<fragments, index>>, token'.next = token.next
  PROVE  Behind'
BY DEF Behind

(* What a placement leaves behind.                                         *)
LEMMA BehindPlaced ==
  ASSUME Typed, Behind, index \in 1 .. BlockCount,
         NEW first \in Nat, NEW count \in Nat \ {0},
         NEW relaxedOrphans \in BOOLEAN, NEW relaxedWidows \in BOOLEAN,
         first + count <= Block(index).lines,
         Place(first, count, relaxedOrphans, relaxedWidows),
         index' = index + 1 \/ (index' = index /\ token'.next > 0)
  PROVE  Behind'
<1>1. /\ Len(fragments') = Len(fragments) + 1
      /\ \A i \in 1 .. Len(fragments) : fragments'[i] = fragments[i]
      /\ fragments'[Len(fragments) + 1].block = index
  <2>1. PICK new : new = [block |-> index, first |-> first, count |-> count, page |-> page,
                          relaxedOrphans |-> relaxedOrphans, relaxedWidows |-> relaxedWidows]
    OBVIOUS
  <2>2. /\ Len(fragments') = Len(fragments) + 1
        /\ \A i \in 1 .. Len(fragments) : fragments'[i] = fragments[i]
        /\ fragments'[Len(fragments) + 1] = new
    BY <2>1, PlaceExtends
  <2>3. new.block = index
    BY <2>1
  <2>. QED BY <2>2, <2>3
<1>2. Len(fragments) \in Nat /\ index \in Nat
  BY FragmentFacts, IndexFacts
<1>3. \A i \in 1 .. Len(fragments) : fragments[i].block \in Nat /\ fragments[i].block <= index
  BY <1>2, FragmentFacts DEF Behind
<1>4. ASSUME NEW i \in 1 .. Len(fragments) + 1
      PROVE  fragments'[i].block \in Nat /\ fragments'[i].block <= index
  <2>1. CASE i \in 1 .. Len(fragments)
    BY <1>1, <1>3, <2>1
  <2>2. CASE i = Len(fragments) + 1
    <3>1. fragments'[i].block = index
      BY <1>1, <2>2
    <3>. QED BY <1>2, <3>1
  <2>3. i \in 1 .. Len(fragments) \/ i = Len(fragments) + 1
    BY <1>2
  <2>. QED BY <2>1, <2>2, <2>3
<1>. QED BY <1>1, <1>2, <1>4 DEF Behind

(* Before a group is begun, nothing of it is placed.                       *)
LEMMA NothingOfGroup ==
  ASSUME Typed, Behind, NEW g \in doc.groups, index < g.first \/ (index = g.first /\ token.next = 0)
  PROVE  OfGroup(g) = {}
<1>1. index \in Nat /\ g.first \in Nat /\ g.last \in Nat
  BY IndexFacts, GroupFacts
<1>2. ASSUME NEW i \in 1 .. Len(fragments) PROVE fragments[i].block \notin g.first .. g.last
  <2>1. fragments[i].block < index \/ (fragments[i].block = index /\ token.next > 0)
    BY DEF Behind
  <2>2. fragments[i].block \in Nat /\ token.next \in Nat
    BY FragmentFacts, TypedFacts
  <2>. QED BY <1>1, <2>1, <2>2
<1>. QED BY <1>2 DEF OfGroup

(* The heights of the blocks do not change while they are paginated.       *)
HeightsAddUp ==
  \A first \in Nat \ {0} : \A last \in 0 .. BlockCount :
    TotalHeight(first, last) = Sums!FoldOf(Heights, 0, first .. last)

LEMMA TotalsAreSums == IsDocument(doc) => HeightsAddUp
BY TotalIsSum DEF HeightsAddUp

LEMMA TotalsStayTheSame ==
  ASSUME IsDocument(doc), doc' = doc, NEW first \in Nat \ {0}, NEW last \in 0 .. BlockCount
  PROVE  TotalHeight(first, last)' = TotalHeight(first, last)
<1>1. IsDocument(doc)' => HeightsAddUp'
  BY TotalsAreSums, PTL
<1>2. IsDocument(doc)'
  BY DEF IsDocument
<1>3. Heights' = Heights /\ BlockCount' = BlockCount
  BY DEF Heights, BlockHeight, Block, BlockCount
<1>4. TotalHeight(first, last)' = Sums!FoldOf(Heights', 0, first .. last)
  BY <1>1, <1>2, <1>3, Zenon DEF HeightsAddUp
<1>. QED BY <1>3, <1>4, TotalsAreSums, Zenon DEF HeightsAddUp

LEMMA TotalFrom ==
  ASSUME NEW first, index' = first, NEW last
  PROVE  TotalHeight(index, last)' = TotalHeight(first, last)'
BY Zenon DEF TotalHeight, MapThenSumSet, MapThenFoldSet

LEMMA TotalKept ==
  ASSUME Typed, NEW g \in doc.groups, UNCHANGED <<doc, index>>
  PROVE  TotalHeight(index, g.last)' = TotalHeight(index, g.last)
<1>1. index \in Nat \ {0} /\ g.last \in 0 .. BlockCount /\ IsDocument(doc)
  BY IndexFacts, GroupFacts, TypedFacts
<1>2. PICK first \in Nat \ {0} : first = index
  BY <1>1
<1>3. TotalHeight(first, g.last)' = TotalHeight(first, g.last)
  BY <1>1, TotalsStayTheSame
<1>4. TotalHeight(index, g.last)' = TotalHeight(first, g.last)'
  BY <1>2, TotalFrom
<1>. QED BY <1>2, <1>3, <1>4, Zenon

LEMMA ExceptionStays ==
  ASSUME NEW g \in doc.groups, Excepted(g), doc' = doc, keepTooLarge \subseteq keepTooLarge'
  PROVE  Excepted(g)'
BY DEF Excepted, Block, LinkedToNext, BlockCount, IsBreak

(* Steps that do not move, turn, or place anything.                        *)
LEMMA GroupUnmoved ==
  ASSUME Typed, NEW g \in doc.groups, GroupKept(g),
         UNCHANGED <<doc, index, token, region, fragments, keepTooLarge>>,
         turning' = turning \/ index \notin g.first .. g.last \/ (index = g.first /\ at = "block"),
         explicitBreakPending' => explicitBreakPending,
         at = "block" => at' = "block" \/ index # g.first
  PROVE  GroupKept(g)'
<1>1. UNCHANGED <<page, available, regionEmpty>>
  BY DEF region
<1>2. CASE Excepted(g)
  BY <1>2, ExceptionStays DEF GroupKept
<1>3. CASE index < g.first \/ (index = g.first /\ at = "block")
  BY <1>3 DEF GroupKept
<1>4. CASE Underway(g) /\ ~(index = g.first /\ at = "block")
  <2>1. turning' = turning
    BY <1>4 DEF Underway
  <2>2. RestFits(g)'
    <3>1. TotalHeight(index, g.last)' = TotalHeight(index, g.last)
      BY TotalKept
    <3>2. Body(page + 1)' = Body(page + 1)
      BY <1>1 DEF Body
    <3>. QED BY <1>1, <1>4, <2>1, <3>1, <3>2 DEF Underway, RestFits
  <2>3. OnThisPage(g) => OnThisPage(g)'
    BY <1>1 DEF OnThisPage, OfGroup
  <2>. QED BY <1>1, <1>4, <2>1, <2>2, <2>3 DEF Underway, GroupKept
<1>5. CASE index > g.last /\ OnOnePage(g)
  BY <1>5 DEF GroupKept, OnOnePage, OfGroup
<1>. QED BY <1>2, <1>3, <1>4, <1>5 DEF GroupKept

LEMMA GroupTurned ==
  ASSUME Typed, NEW g \in doc.groups, GroupKept(g), AdvanceBodyPage
  PROVE  GroupKept(g)'
<1>1. /\ turning /\ turning' = FALSE /\ page' = page + 1 /\ available' = Body(page + 1)
      /\ UNCHANGED <<doc, index, at, token, fragments, keepTooLarge>>
  BY DEF AdvanceBodyPage, cursor, plan
<1>2. CASE Excepted(g)
  BY <1>1, <1>2, ExceptionStays DEF GroupKept
<1>3. CASE index < g.first \/ (index = g.first /\ at = "block")
  BY <1>1, <1>3 DEF GroupKept
<1>4. CASE Underway(g)
  <2>1. ~(index > g.first)
    BY <1>1, <1>4 DEF Underway
  <2>2. TotalHeight(index, g.last)' = TotalHeight(index, g.last)
    BY <1>1, TotalKept
  <2>3. RestFits(g)'
    BY <1>1, <1>4, <2>2 DEF Underway, RestFits
  <2>. QED BY <1>1, <1>4, <2>1, <2>3 DEF Underway, GroupKept
<1>5. CASE index > g.last /\ OnOnePage(g)
  BY <1>1, <1>5 DEF GroupKept, OnOnePage, OfGroup
<1>. QED BY <1>2, <1>3, <1>4, <1>5 DEF GroupKept

LEMMA GroupPassed ==
  ASSUME Typed, NEW g \in doc.groups, GroupKept(g), NoteExplicitBreak
  PROVE  GroupKept(g)'
<1>1. /\ IsBreak(index) /\ index' = index + 1 /\ at' = "block"
      /\ UNCHANGED <<doc, fragments, keepTooLarge>>
  BY DEF NoteExplicitBreak, NextBlock, plan
<1>2. /\ index \in Nat /\ g.first \in Nat /\ g.last \in Nat /\ g.first <= g.last
      /\ index \notin g.first .. g.last
  BY <1>1, IndexFacts, GroupFacts
<1>3. CASE Excepted(g)
  BY <1>1, <1>3, ExceptionStays DEF GroupKept
<1>4. CASE index < g.first
  BY <1>1, <1>2, <1>4 DEF GroupKept
<1>5. CASE index > g.last /\ OnOnePage(g)
  BY <1>1, <1>2, <1>5 DEF GroupKept, OnOnePage, OfGroup
<1>. QED BY <1>2, <1>3, <1>4, <1>5 DEF GroupKept, Underway

(* The keep check turns the page for the first block of a group, or for    *)
(* none of it.                                                             *)
LEMMA GroupChecked ==
  ASSUME Typed, Spaced, Uniform, NEW g \in doc.groups, GroupKept(g), CheckKeep
  PROVE  GroupKept(g)'
<1>1. /\ AtBlock /\ UNCHANGED <<doc, index, token, region, explicitBreakPending, fragments>>
      /\ keepTooLarge \subseteq keepTooLarge'
  BY DEF CheckKeep, plan
<1>2. /\ index \in 1 .. BlockCount /\ token.next = 0 /\ turning = FALSE /\ at = "block"
      /\ g.first \in Nat /\ g.last \in Nat /\ index \in Nat /\ available \in Int
      /\ g.first <= g.last
  BY <1>1, AtBlockFacts, GroupFacts, TypedFacts, IndexFacts
<1>3. UNCHANGED <<page, available, regionEmpty>>
  BY <1>1 DEF region
<1>4. /\ TotalHeight(index, g.last)' = TotalHeight(index, g.last)
      /\ Body(page + 1)' = Body(page + 1)
  <2>1. TotalHeight(index, g.last)' = TotalHeight(index, g.last)
    BY <1>1, TotalKept
  <2>. QED BY <1>1, <1>3, <2>1 DEF Body
<1>5. CASE Excepted(g)
  BY <1>1, <1>5, ExceptionStays DEF GroupKept
<1>6. CASE index < g.first
  BY <1>1, <1>6 DEF GroupKept
<1>7. CASE index > g.last /\ OnOnePage(g)
  BY <1>1, <1>7 DEF GroupKept, OnOnePage, OfGroup
<1>8. CASE index = g.first
  <2>1. /\ Constrained /\ RequiredHeight \in Nat
        /\ TotalHeight(index, g.last) \in Nat /\ TotalHeight(index, g.last) <= RequiredHeight
    BY <1>8, GroupIsRequired
  <2>2. KeepCapacity = Body(page) /\ Body(page + 1) = Body(page) /\ Body(page) \in Nat
    BY UniformBodies
  <2>3. regionEmpty => available = Body(page)
    BY EmptyIsWhole
  <2>4. CASE RequiredHeight > KeepCapacity /\ keepTooLarge' = keepTooLarge \cup {index}
    <3>1. Excepted(g)'
      BY <1>1, <1>8, <2>4 DEF Excepted
    <3>. QED BY <3>1 DEF GroupKept
  <2>5. CASE RequiredHeight <= KeepCapacity /\ TurnFor("constraint")
    <3>1. turning' = TRUE
      BY <2>5 DEF TurnFor
    <3>2. TotalHeight(index, g.last) <= Body(page + 1)
      BY <2>1, <2>2, <2>5
    <3>3. RestFits(g)'
      BY <1>4, <3>1, <3>2 DEF RestFits
    <3>. QED BY <1>1, <1>2, <1>8, <3>3 DEF GroupKept, Underway
  <2>6. CASE /\ RequiredHeight <= KeepCapacity /\ (RequiredHeight <= available \/ regionEmpty)
             /\ turning' = turning
    <3>1. TotalHeight(index, g.last) <= available
      BY <1>2, <2>1, <2>2, <2>3, <2>6
    <3>2. RestFits(g)'
      BY <1>2, <1>3, <1>4, <2>6, <3>1 DEF RestFits
    <3>. QED BY <1>1, <1>2, <1>8, <3>2 DEF GroupKept, Underway
  <2>. QED BY <2>1, <2>4, <2>5, <2>6 DEF CheckKeep
<1>9. CASE ~Excepted(g) /\ index > g.first /\ Underway(g)
  <2>1. TotalHeight(index, g.last) <= available /\ index \in g.first + 1 .. g.last
    BY <1>2, <1>9 DEF Underway, RestFits
  <2>2. RequiredHeight \in Nat /\ RequiredHeight <= available /\ RequiredHeight <= KeepCapacity
    BY <1>9, <2>1, RestIsRequired DEF Excepted
  <2>3. KeepCapacity \in Nat
    BY UniformBodies
  <2>4. turning' = turning
    BY <1>2, <2>2, <2>3 DEF CheckKeep
  <2>5. RestFits(g)'
    BY <1>2, <1>3, <1>4, <2>1, <2>4 DEF RestFits
  <2>6. OnThisPage(g) => OnThisPage(g)'
    BY <1>1, <1>3 DEF OnThisPage, OfGroup
  <2>. QED BY <1>1, <1>3, <1>9, <2>4, <2>5, <2>6 DEF Underway, GroupKept
<1>. QED BY <1>2, <1>5, <1>6, <1>7, <1>8, <1>9 DEF GroupKept, Underway

(* A whole block that fits is not cut.                                     *)
LEMMA WholeIsPlaced ==
  ASSUME NEW p, NEW space, NEW from, IsParagraph(p), IsSpace(space), IsToken(p, from),
         Height(p, from.next, Rest(p, from)) <= space.available
  PROVE  FragmentContext(p, space, from) = WholeRest(p, from)
<1> DEFINE fit == FittingPrefix(p, space, from)
<1>1. Rest(p, from) \in Nat \ {0} /\ Rest(p, from) \in 0 .. Rest(p, from)
  BY DEF Rest, IsParagraph, IsToken
<1>2. fit \in 0 .. Rest(p, from) /\ Rest(p, from) <= fit
  BY <1>1, FittingPrefixFits
<1>3. fit = Rest(p, from) /\ fit > 0
  BY <1>1, <1>2
<1>4. ~(fit = 0 /\ space.empty) /\ ~(fit < Rest(p, from))
  BY <1>1, <1>3
<1> HIDE DEF fit
<1>. QED BY <1>3, <1>4, Zenon DEF FragmentContext, fit

(* The first block of what fits the page fits it.                          *)
LEMMA FirstFits ==
  ASSUME Typed, NEW g \in doc.groups, Underway(g), ~turning
  PROVE  /\ index \in 1 .. BlockCount /\ g.last \in index .. BlockCount
         /\ BlockHeight(index) \in Nat /\ TotalHeight(index + 1, g.last) \in Nat
         /\ BlockHeight(index) + TotalHeight(index + 1, g.last) <= available
<1>1. index \in 1 .. BlockCount /\ g.last \in index .. BlockCount
  BY GroupFacts, IndexFacts DEF Underway
<1>2. TotalHeight(index, g.last) <= available /\ IsDocument(doc)
  BY TypedFacts DEF Underway, RestFits
<1>. QED BY <1>1, <1>2, TotalHeights

LEMMA GroupTextIsWhole ==
  ASSUME Typed, NEW g \in doc.groups, Underway(g), AtText, SpaceIsValid(Space)
  PROVE  /\ Answer.action = "place" /\ token.next = 0 /\ Answer.count = Block(index).lines
         /\ Height(Block(index), token.next, Answer.count) = BlockHeight(index)
<1> DEFINE p == Policy(index)
<1>1. /\ index \in 1 .. BlockCount /\ IsParagraph(p) /\ IsSpace(Space) /\ IsToken(p, token)
      /\ p.lines = Block(index).lines /\ Answer = FragmentContext(p, Space, token)
  BY TextFacts DEF Answer
<1>2. IsMeasured(Block(index)) /\ p.bottom = Block(index).bottom
  BY <1>1, DocumentFacts, TypedFacts, PolicyIsParagraph
<1>3. /\ token.next = 0 /\ ~turning /\ Space.available = available /\ available \in Int
  BY TypedFacts DEF Underway, AtText, Planning, Space
<1>4. BlockHeight(index) \in Nat /\ BlockHeight(index) <= available
  <2>1. /\ BlockHeight(index) \in Nat /\ TotalHeight(index + 1, g.last) \in Nat
        /\ BlockHeight(index) + TotalHeight(index + 1, g.last) <= available
    BY <1>3, FirstFits
  <2>. QED BY <1>3, <2>1
<1> HIDE DEF p
<1>5. /\ Block(index).lines \in Nat \ {0} /\ Block(index).bottom[0] = 0
      /\ Block(index).bottom[Block(index).lines] \in Nat
  BY <1>2 DEF IsMeasured
<1>6. /\ Rest(p, token) = Block(index).lines
      /\ \A b : b.bottom = Block(index).bottom =>
            Height(b, token.next, Block(index).lines) = BlockHeight(index)
  BY <1>1, <1>3, <1>5 DEF Rest, Height, BlockHeight
<1>7. Height(p, token.next, Rest(p, token)) <= Space.available
  BY <1>2, <1>3, <1>4, <1>6
<1>8. Answer = WholeRest(p, token)
  BY <1>1, <1>7, WholeIsPlaced
<1>9. Answer.action = "place" /\ Answer.count = Block(index).lines
  BY <1>6, <1>8 DEF WholeRest, PlacedResult
<1>. QED BY <1>3, <1>6, <1>9

(* A fragment is placed: the block of a group that is under way is placed  *)
(* whole, beside the others.                                               *)
LEMMA GroupPlaced ==
  ASSUME Typed, Behind, Turned, NEW g \in doc.groups, GroupKept(g),
         index \in 1 .. BlockCount, at # "block", ~turning,
         NEW first \in Nat, NEW count \in Nat \ {0},
         NEW relaxedOrphans \in BOOLEAN, NEW relaxedWidows \in BOOLEAN,
         first + count <= Block(index).lines,
         Place(first, count, relaxedOrphans, relaxedWidows),
         UNCHANGED <<doc, keepTooLarge, explicitBreakPending>>,
         \/ index' = index + 1 /\ token'.next = 0 /\ at' = "block" /\ turning' = turning
         \/ index' = index /\ ~Underway(g),
         Underway(g) => Height(Block(index), first, count) = BlockHeight(index)
  PROVE  GroupKept(g)'
<1> DEFINE k == Len(fragments) + 1
<1>1. /\ Len(fragments') = k /\ page' = page /\ regionEmpty' = FALSE
      /\ \A i \in 1 .. Len(fragments) : fragments'[i] = fragments[i]
      /\ fragments'[k].block = index /\ fragments'[k].page = page
  <2>1. PICK new : new = [block |-> index, first |-> first, count |-> count, page |-> page,
                          relaxedOrphans |-> relaxedOrphans, relaxedWidows |-> relaxedWidows]
    OBVIOUS
  <2>2. /\ Len(fragments') = k /\ page' = page /\ regionEmpty' = FALSE
        /\ \A i \in 1 .. Len(fragments) : fragments'[i] = fragments[i]
        /\ fragments'[k] = new
    BY <2>1, PlaceExtends
  <2>. QED BY <2>1, <2>2
<1>2. /\ Len(fragments) \in Nat /\ index \in Nat
      /\ g.first \in Nat /\ g.last \in Nat /\ g.first <= g.last
  BY FragmentFacts, IndexFacts, GroupFacts
<1>3. \A i \in 1 .. k : i \in 1 .. Len(fragments) \/ i = k
  BY <1>2
<1> HIDE DEF k
<1>4. CASE Excepted(g)
  BY <1>4, ExceptionStays DEF GroupKept
<1>5. CASE index < g.first
  <2>1. index' < g.first \/ (index' = g.first /\ at' = "block")
    BY <1>2, <1>5
  <2>. QED BY <2>1 DEF GroupKept
<1>6. CASE index > g.last /\ OnOnePage(g)
  <2>1. index' > g.last
    BY <1>2, <1>6
  <2>2. index \notin g.first .. g.last
    BY <1>2, <1>6
  <2>3. \A i \in 1 .. k : fragments'[i].block \in g.first .. g.last =>
          i \in OfGroup(g) /\ fragments'[i].page = fragments[i].page
    BY <1>1, <1>3, <2>2 DEF OfGroup
  <2>4. OnOnePage(g)'
    BY <1>1, <1>6, <2>3, ZenonT(30) DEF OnOnePage, OfGroup
  <2>. QED BY <2>1, <2>4 DEF GroupKept
<1>7. CASE Underway(g)
  <2>1. index \in g.first .. g.last /\ token.next = 0
    BY <1>7 DEF Underway
  <2>2. OnThisPage(g)
    <3>1. CASE index > g.first
      BY <1>7, <3>1 DEF Underway
    <3>2. CASE index = g.first
      <4>1. OfGroup(g) = {}
        BY <2>1, <3>2, NothingOfGroup
      <4>. QED BY <4>1 DEF OnThisPage
    <3>. QED BY <1>2, <2>1, <3>1, <3>2
  <2>3. \A i \in 1 .. k : fragments'[i].block \in g.first .. g.last => fragments'[i].page = page
    BY <1>1, <1>3, <2>2 DEF OnThisPage, OfGroup
  <2>4. /\ index' = index + 1 /\ token'.next = 0 /\ turning' = FALSE
    BY <1>7, PendingFacts
  <2>5. CASE index = g.last
    <3>1. index' > g.last
      BY <1>2, <2>4, <2>5
    <3>2. OnOnePage(g)'
      BY <1>1, <2>3, Zenon DEF OnOnePage, OfGroup
    <3>. QED BY <3>1, <3>2 DEF GroupKept
  <2>6. CASE index # g.last
    <3>1. index' \in g.first .. g.last /\ index + 1 \in Nat \ {0} /\ g.last \in 0 .. BlockCount
      BY <1>2, <2>1, <2>4, <2>6, GroupFacts
    <3>2. OnThisPage(g)'
      BY <1>1, <2>3, Zenon DEF OnThisPage, OfGroup
    <3>3. ~explicitBreakPending'
      BY DEF Turned, Standing, AtTheStart, After
    <3>4. RestFits(g)'
      <4>1. PICK next \in Nat \ {0} : next = index + 1
        BY <3>1
      <4>2. TotalHeight(next, g.last)' = TotalHeight(next, g.last)
        BY <3>1, TotalsStayTheSame, TypedFacts
      <4>3. TotalHeight(index, g.last)' = TotalHeight(next, g.last)'
        BY <2>4, <4>1, TotalFrom
      <4>4. TotalHeight(index, g.last)' = TotalHeight(index + 1, g.last)
        BY <4>1, <4>2, <4>3, Zenon
      <4>5. /\ BlockHeight(index) \in Nat /\ TotalHeight(index + 1, g.last) \in Nat
            /\ BlockHeight(index) + TotalHeight(index + 1, g.last) <= available
        BY <1>7, FirstFits
      <4>6. available' = available - BlockHeight(index) /\ available \in Int
        BY <1>7, TypedFacts DEF Place
      <4>7. TotalHeight(index + 1, g.last) <= available'
        BY <4>5, <4>6
      <4>. QED BY <2>4, <4>4, <4>7 DEF RestFits
    <3>. QED BY <1>1, <2>4, <3>1, <3>2, <3>3, <3>4, Zenon DEF Underway, GroupKept
  <2>. QED BY <2>5, <2>6
<1>. QED BY <1>4, <1>5, <1>6, <1>7 DEF GroupKept

-----------------------------------------------------------------------------
LEMMA KeepInit == Fresh => Behind /\ Keeping
<1> SUFFICES ASSUME Fresh PROVE Behind /\ Keeping
  OBVIOUS
<1>1. Typed /\ index = 1 /\ at = "block" /\ Len(fragments) = 0
  BY TypedInit DEF Fresh
<1>2. Behind
  BY <1>1 DEF Behind
<1>3. ASSUME NEW g \in doc.groups PROVE GroupKept(g)
  <2>1. g.first \in Nat /\ g.first >= 1
    BY <1>1, GroupFacts, IndexFacts
  <2>. QED BY <1>1, <2>1 DEF GroupKept
<1>. QED BY <1>2, <1>3 DEF Keeping

LEMMA AtWholeFacts ==
  ASSUME Typed, at = "whole"
  PROVE  index \in 1 .. BlockCount /\ Block(index).lines = 1
<1>1. at # "block"
  OBVIOUS
<1>. QED BY <1>1, TypedFacts, IndexFacts

LEMMA BehindNext == Typed /\ Behind /\ [Next]_vars => Behind'
<1> SUFFICES ASSUME Typed, Behind, [Next]_vars PROVE Behind'
  OBVIOUS
<1>1. CASE UNCHANGED vars \/ Finish \/ ExceedPageLimit \/ RejectTallBlock \/ RejectSpace
  <2>1. UNCHANGED <<index, token, fragments>>
    BY <1>1, Zenon DEF Finish, ExceedPageLimit, RejectTallBlock, RejectSpace, Fail, vars, cursor, plan
  <2>. QED BY <2>1, BehindUnmoved
<1>2. CASE AdvanceBodyPage \/ TakeExplicitBreak \/ CheckKeep \/ FitWhole \/ DeferText
  <2>1. UNCHANGED <<index, token, fragments>>
    BY <1>2, Zenon DEF AdvanceBodyPage, TakeExplicitBreak, CheckKeep, FitWhole, DeferText, cursor, plan
  <2>. QED BY <2>1, BehindUnmoved
<1>3. CASE NoteExplicitBreak
  <2>1. index' = index + 1 /\ fragments' = fragments /\ index \in Nat
    BY <1>3, IndexFacts DEF NoteExplicitBreak, NextBlock, plan
  <2>2. \A i \in 1 .. Len(fragments) : fragments[i].block \in Nat /\ fragments[i].block <= index
    BY <2>1, FragmentFacts DEF Behind
  <2>. QED BY <2>1, <2>2 DEF Behind
<1>4. CASE PlaceWhole
  <2>1. /\ index \in 1 .. BlockCount /\ Block(index).lines = 1
        /\ Place(0, 1, FALSE, FALSE) /\ index' = index + 1
    <3>1. at = "whole" /\ Place(0, 1, FALSE, FALSE) /\ index' = index + 1
      BY <1>4 DEF PlaceWhole, NextBlock
    <3>. QED BY <3>1, AtWholeFacts
  <2>2. 0 \in Nat /\ 1 \in Nat \ {0} /\ FALSE \in BOOLEAN /\ 0 + 1 <= 1
    OBVIOUS
  <2>. QED BY <2>1, <2>2, BehindPlaced
<1>5. CASE PlaceText
  <2>1. /\ AtText /\ SpaceIsValid(Space) /\ Answer.action = "place"
        /\ Place(token.next, Answer.count, Answer.relaxedOrphans, Answer.relaxedWidows)
    BY <1>5 DEF PlaceText
  <2>2. PICK first, count, few, broken :
          /\ first = token.next /\ count = Answer.count
          /\ few = Answer.relaxedOrphans /\ broken = Answer.relaxedWidows
    OBVIOUS
  <2>3. /\ count \in Nat \ {0} /\ few \in BOOLEAN /\ broken \in BOOLEAN
        /\ first + count <= Block(index).lines /\ first \in Nat /\ index \in 1 .. BlockCount
        /\ Answer.next.next = token.next + count
    BY <2>1, <2>2, AnswerFacts, TextFacts, TypedFacts DEF FlagsAndReason
  <2>4. Place(first, count, few, broken)
    BY <2>1, <2>2, Zenon
  <2>5. index' = index + 1 \/ (index' = index /\ token'.next > 0)
    <3>1. index' = index + 1 \/ (index' = index /\ token' = Answer.next)
      BY <1>5 DEF PlaceText, NextBlock
    <3>. QED BY <2>2, <2>3, <3>1
  <2>. QED BY <2>3, <2>4, <2>5, BehindPlaced
<1>. QED BY <1>1, <1>2, <1>3, <1>4, <1>5, Zenon DEF Next, Stopped

LEMMA GroupNext ==
  ASSUME Typed, Spaced, Behind, Turned, Uniform, NEW g \in doc.groups, GroupKept(g), [Next]_vars
  PROVE  GroupKept(g)'
<1>1. CASE AdvanceBodyPage
  BY <1>1, GroupTurned
<1>2. CASE NoteExplicitBreak
  BY <1>2, GroupPassed
<1>3. CASE CheckKeep
  BY <1>3, GroupChecked
<1>4. CASE TakeExplicitBreak
  <2>1. /\ AtBlock /\ explicitBreakPending /\ explicitBreakPending' = FALSE
        /\ UNCHANGED <<doc, index, at, token, region, fragments, keepTooLarge>>
    BY <1>4 DEF TakeExplicitBreak, cursor, plan
  <2>2. CASE Excepted(g)
    BY <2>1, <2>2, ExceptionStays DEF GroupKept
  <2>3. CASE ~Excepted(g)
    <3>1. at = "block" /\ index \in Nat /\ g.first \in Nat /\ g.last \in Nat
      BY <2>1, AtBlockFacts, IndexFacts, GroupFacts
    <3>2. index \notin g.first .. g.last \/ index = g.first
      BY <2>1, <2>3, <3>1 DEF GroupKept, Underway
    <3>. QED BY <2>1, <3>1, <3>2, GroupUnmoved
  <2>. QED BY <2>2, <2>3
<1>5. CASE ExceedPageLimit \/ RejectTallBlock \/ RejectSpace \/ Finish \/ UNCHANGED vars
  <2>1. /\ UNCHANGED <<doc, index, at, token, turning, region, fragments, keepTooLarge>>
        /\ explicitBreakPending' = explicitBreakPending
    BY <1>5, Zenon DEF ExceedPageLimit, RejectTallBlock, RejectSpace, Finish, Fail, vars, cursor, plan
  <2>. QED BY <2>1, GroupUnmoved
<1>6. CASE FitWhole
  <2>1. /\ AtWhole /\ ~turning
        /\ UNCHANGED <<doc, index, token, region, explicitBreakPending, fragments, keepTooLarge>>
    BY <1>6 DEF FitWhole, AtWhole, Planning, plan
  <2>2. CASE Excepted(g)
    BY <2>1, <2>2, ExceptionStays DEF GroupKept
  <2>3. CASE ~Excepted(g)
    <3>1. at = "block" => index # g.first
      BY <2>1, <2>3 DEF AtWhole, Excepted
    <3>2. turning' = turning \/ index \notin g.first .. g.last
      <4>1. ASSUME Underway(g) PROVE turning' = turning
        <5>1. /\ BlockHeight(index) \in Nat /\ TotalHeight(index + 1, g.last) \in Nat
              /\ BlockHeight(index) + TotalHeight(index + 1, g.last) <= available
          BY <2>1, <4>1, FirstFits
        <5>2. ~(BlockHeight(index) > available)
          BY <5>1, TypedFacts
        <5>. QED BY <1>6, <5>2 DEF FitWhole
      <4>2. index \in g.first .. g.last => Underway(g)
        <5>1. index \in Nat /\ g.first \in Nat /\ g.last \in Nat
          BY IndexFacts, GroupFacts
        <5>. QED BY <2>3, <3>1, <5>1 DEF GroupKept
      <4>. QED BY <4>1, <4>2
    <3>. QED BY <2>1, <3>1, <3>2, GroupUnmoved
  <2>. QED BY <2>2, <2>3
<1>7. CASE DeferText
  <2>1. /\ AtText /\ SpaceIsValid(Space) /\ Answer.action = "defer"
        /\ UNCHANGED <<doc, index, at, token, region, explicitBreakPending, fragments, keepTooLarge>>
    BY <1>7 DEF DeferText, cursor, plan
  <2>2. CASE Excepted(g)
    BY <2>1, <2>2, ExceptionStays DEF GroupKept
  <2>3. CASE ~Excepted(g)
    <3>1. ~Underway(g)
      BY <2>1, GroupTextIsWhole
    <3>2. at # "block" /\ index \in Nat /\ g.first \in Nat /\ g.last \in Nat
      BY <2>1, IndexFacts, GroupFacts DEF AtText
    <3>3. index \notin g.first .. g.last
      BY <2>3, <3>1, <3>2 DEF GroupKept
    <3>. QED BY <2>1, <3>2, <3>3, GroupUnmoved
  <2>. QED BY <2>2, <2>3
<1>8. CASE PlaceWhole
  <2>1. /\ index \in 1 .. BlockCount /\ Block(index).lines = 1 /\ at # "block" /\ ~turning
        /\ Place(0, 1, FALSE, FALSE) /\ turning' = turning
        /\ index' = index + 1 /\ token'.next = 0 /\ at' = "block"
        /\ UNCHANGED <<doc, keepTooLarge, explicitBreakPending>>
    <3>1. /\ at = "whole" /\ ~turning
          /\ Place(0, 1, FALSE, FALSE) /\ turning' = turning
          /\ index' = index + 1 /\ token'.next = 0 /\ at' = "block"
          /\ UNCHANGED <<doc, keepTooLarge, explicitBreakPending>>
      BY <1>8 DEF PlaceWhole, NextBlock, Planning, Start
    <3>. QED BY <3>1, AtWholeFacts
  <2>2. 0 \in Nat /\ 1 \in Nat \ {0} /\ FALSE \in BOOLEAN /\ 0 + 1 <= 1
    OBVIOUS
  <2>3. Height(Block(index), 0, 1) = BlockHeight(index)
    BY <2>1, WholeFacts, IndexFacts
  <2>. QED BY <2>1, <2>2, <2>3, GroupPlaced
<1>9. CASE PlaceText
  <2>1. /\ AtText /\ SpaceIsValid(Space) /\ Answer.action = "place" /\ ~turning /\ at # "block"
        /\ Place(token.next, Answer.count, Answer.relaxedOrphans, Answer.relaxedWidows)
        /\ UNCHANGED <<doc, keepTooLarge, explicitBreakPending>>
    BY <1>9 DEF PlaceText, AtText, Planning
  <2>2. PICK first, count, few, broken :
          /\ first = token.next /\ count = Answer.count
          /\ few = Answer.relaxedOrphans /\ broken = Answer.relaxedWidows
    OBVIOUS
  <2>3. /\ count \in Nat \ {0} /\ few \in BOOLEAN /\ broken \in BOOLEAN
        /\ first + count <= Block(index).lines /\ first \in Nat /\ index \in 1 .. BlockCount
        /\ Answer.done <=> token.next + Answer.count = Block(index).lines
        /\ Block(index).lines \in Nat
    BY <2>1, <2>2, AnswerFacts, TextFacts, TypedFacts DEF FlagsAndReason, IsParagraph
  <2>4. Place(first, count, few, broken)
    BY <2>1, <2>2, Zenon
  <2>5. Underway(g) => /\ Height(Block(index), first, count) = BlockHeight(index)
                       /\ Answer.done
    <3>1. Underway(g) => /\ token.next = 0 /\ Answer.count = Block(index).lines
                         /\ Height(Block(index), token.next, Answer.count) = BlockHeight(index)
      BY <2>1, GroupTextIsWhole
    <3>. QED BY <2>2, <2>3, <3>1
  <2>6. \/ index' = index + 1 /\ token'.next = 0 /\ at' = "block" /\ turning' = turning
        \/ index' = index /\ ~Underway(g)
    BY <1>9, <2>5 DEF PlaceText, NextBlock, Start
  <2>. QED BY <2>1, <2>3, <2>4, <2>5, <2>6, GroupPlaced
<1>. QED BY <1>1, <1>2, <1>3, <1>4, <1>5, <1>6, <1>7, <1>8, <1>9, Zenon DEF Next, Stopped

LEMMA KeepNext ==
  Typed /\ Spaced /\ Turned /\ Behind /\ Keeping /\ doc' = doc /\ [Next]_vars => Keeping'
<1> SUFFICES ASSUME Typed, Spaced, Turned, Behind, Keeping, doc' = doc, [Next]_vars PROVE Keeping'
  OBVIOUS
<1>1. Uniform' = Uniform /\ doc'.groups = doc.groups
  BY DEF Uniform
<1>. QED BY <1>1, GroupNext DEF Keeping

(* A group that is begun or passed is on one page.                         *)
LEMMA KeepingKeeps == Typed /\ Behind /\ Keeping => GroupsKept
<1> SUFFICES ASSUME Typed, Behind, Keeping, Uniform, NEW g \in doc.groups, ~Excepted(g)
             PROVE  OnOnePage(g)
  BY FragmentFacts, Zenon DEF GroupsKept, Excepted, OnOnePage, OfGroup
<1>1. GroupKept(g)
  BY DEF Keeping
<1>2. index \in Nat /\ g.first \in Nat /\ g.last \in Nat
  BY IndexFacts, GroupFacts
<1>3. CASE index < g.first \/ (index = g.first /\ token.next = 0)
  BY <1>3, NothingOfGroup DEF OnOnePage
<1>4. CASE Underway(g) /\ index > g.first
  BY <1>4 DEF Underway, OnThisPage, OnOnePage
<1>5. at = "block" => token.next = 0
  BY TypedFacts
<1>. QED BY <1>1, <1>2, <1>3, <1>4, <1>5 DEF GroupKept, Underway

-----------------------------------------------------------------------------
(* The planning of a document: paginations under changing totals.          *)

BodyInv ==
  /\ Typed /\ Chained /\ Frontier /\ CutsReported /\ Promise /\ Turned
  /\ Spaced /\ Behind /\ Keeping

LEMMA BodyInit == Fresh => BodyInv
BY TypedInit, OrderInit, CutsInit, TurnsInit, SpacedInit, KeepInit DEF BodyInv

LEMMA DocumentStays == [Next]_vars => UNCHANGED doc
<1> SUFFICES ASSUME [Next]_vars PROVE doc' = doc
  OBVIOUS
<1>1. CASE UNCHANGED vars
  BY <1>1 DEF vars
<1>2. CASE AdvanceBodyPage \/ NoteExplicitBreak \/ TakeExplicitBreak \/ CheckKeep
  BY <1>2, Zenon DEF AdvanceBodyPage, NoteExplicitBreak, TakeExplicitBreak, CheckKeep
<1>3. CASE ExceedPageLimit \/ RejectTallBlock \/ RejectSpace \/ Finish
  BY <1>3, Zenon DEF ExceedPageLimit, RejectTallBlock, RejectSpace, Finish, Fail
<1>4. CASE FitWhole \/ PlaceWhole \/ DeferText \/ PlaceText
  BY <1>4, Zenon DEF FitWhole, PlaceWhole, DeferText, PlaceText
<1>. QED BY <1>1, <1>2, <1>3, <1>4, Zenon DEF Next, Stopped

LEMMA BodyNext == BodyInv /\ [Next]_vars => BodyInv'
<1> SUFFICES ASSUME BodyInv, [Next]_vars PROVE BodyInv'
  OBVIOUS
<1>1. Typed' /\ Chained' /\ Frontier' /\ CutsReported' /\ Promise' /\ Turned'
  BY TypedNext, OrderNext, CutsNext, TurnsNext DEF BodyInv
<1>2. Spaced'
  BY <1>1, SpacedNext DEF BodyInv
<1>3. Behind' /\ Keeping'
  BY BehindNext, KeepNext, DocumentStays DEF BodyInv
<1>. QED BY <1>1, <1>2, <1>3 DEF BodyInv

(* The bodies left by the shells of a total, and what is known of the      *)
(* totals.                                                                 *)
LEMMA BodiesOfTotals ==
  ASSUME shells \in Shells, NEW total \in Nat \ {0}
  PROVE  BodiesFor(total) \in BodyHeights
<1>1. MaxTotal \in Nat \ {0} /\ shells \in [1 .. MaxTotal -> BodyHeights]
  BY ShellsAssumption
<1>2. Min({total, MaxTotal}) \in {total, MaxTotal} /\ Min({total, MaxTotal}) <= MaxTotal
  <2> DEFINE S == {total, MaxTotal}
  <2>1. \E x \in S : \A y \in S : x =< y
    BY <1>1
  <2>2. Min(S) \in S /\ \A y \in S : Min(S) =< y
    <3> HIDE DEF S
    <3>. QED BY <2>1, Zenon DEF Min
  <2>. QED BY <2>2
<1>3. Min({total, MaxTotal}) \in 1 .. MaxTotal
  BY <1>1, <1>2
<1>. QED BY <1>1, <1>3 DEF BodiesFor

(* Another choice of bodies leaves the blocks and groups as they are.      *)
LEMMA OtherBodies ==
  ASSUME NEW d, IsDocument(d), NEW bodies \in BodyHeights
  PROVE  IsDocument([d EXCEPT !.bodies = bodies]) /\ [d EXCEPT !.bodies = bodies].bodies = bodies
<1>1. [d EXCEPT !.bodies = bodies] = [blocks |-> d.blocks, groups |-> d.groups, bodies |-> bodies]
  BY DEF IsDocument
<1>. QED BY <1>1 DEF IsDocument

Totalled ==
  /\ shells \in Shells /\ totalGuess \in Nat \ {0}
  /\ doc.bodies = BodiesFor(totalGuess)

LEMMA CorrectedAfresh ==
  ASSUME BodyInv, Totalled, Correct
  PROVE  Fresh' /\ Totalled'
<1>1. /\ pages # <<>> /\ totalGuess' = Len(pages)
      /\ doc' = [doc EXCEPT !.bodies = BodiesFor(Len(pages))] /\ shells' = shells
  BY DEF Correct, Disagrees, Replan
<1>2. Len(pages) \in Nat \ {0}
  BY <1>1 DEF BodyInv, Turned, TurnsRecorded
<1>3. BodiesFor(Len(pages)) \in BodyHeights
  BY <1>2, BodiesOfTotals DEF Totalled
<1>4. IsDocument(doc') /\ doc'.bodies = BodiesFor(Len(pages))
  BY <1>1, <1>3, OtherBodies DEF BodyInv, Typed
<1>5. BodiesFor(totalGuess)' = BodiesFor(Len(pages))
  BY <1>1 DEF BodiesFor
<1>6. Fresh'
  BY <1>4 DEF Correct, Replan, Fresh
<1>. QED BY <1>1, <1>2, <1>4, <1>5, <1>6 DEF Totalled

(* Every step plans the body, or begins another pagination.                *)
LEMMA PagedSteps ==
  ASSUME BodyInv, Totalled, [PagedNext]_<<vars, counters>>
  PROVE  [Next]_vars \/ Correct
<1>1. CASE UNCHANGED <<vars, counters>>
  BY <1>1
<1>2. CASE PlanBody
  BY <1>2 DEF PlanBody
<1>3. CASE FailDocument \/ Compose \/ GiveUp \/ Abandon
  BY <1>3 DEF FailDocument, Compose, GiveUp, Abandon, Conclude
<1>4. CASE AtRest
  BY <1>4 DEF AtRest, Stopped
<1>. QED BY <1>1, <1>2, <1>3, <1>4 DEF PagedNext

LEMMA TotalsStay ==
  ASSUME BodyInv, Totalled, [PagedNext]_<<vars, counters>>
  PROVE  Totalled'
<1>1. CASE Correct
  BY <1>1, CorrectedAfresh
<1>2. CASE ~Correct
  <2>1. doc' = doc
    BY <1>2, PagedSteps, DocumentStays
  <2>2. shells' = shells /\ totalGuess' = totalGuess
    BY <1>2, Zenon DEF PagedNext, PlanBody, FailDocument, Compose, GiveUp, Abandon, Conclude, AtRest, counters
  <2>. QED BY <2>1, <2>2 DEF Totalled, BodiesFor
<1>. QED BY <1>1, <1>2

PagedInv == BodyInv /\ Totalled

LEMMA PagedStart == PagedInit => PagedInv /\ Fresh
<1> SUFFICES ASSUME PagedInit PROVE PagedInv /\ Fresh
  OBVIOUS
<1>1. Fresh
  BY InitIsFresh DEF PagedInit
<1>. QED BY <1>1, BodyInit DEF PagedInit, PagedInv, Totalled

LEMMA PagedKept == PagedInv /\ [PagedNext]_<<vars, counters>> => PagedInv'
<1> SUFFICES ASSUME PagedInv, [PagedNext]_<<vars, counters>> PROVE PagedInv'
  OBVIOUS
<1>1. CASE Correct
  <2>1. Fresh' /\ Totalled'
    BY <1>1, CorrectedAfresh DEF PagedInv
  <2>2. Fresh' => BodyInv'
    BY BodyInit, PTL
  <2>. QED BY <2>1, <2>2 DEF PagedInv
<1>2. CASE [Next]_vars
  BY <1>2, BodyNext, TotalsStay DEF PagedInv
<1>. QED BY <1>1, <1>2, PagedSteps DEF PagedInv

LEMMA PagedStays == PagedSpec => []PagedInv
BY PagedStart, PagedKept, PTL DEF PagedSpec

-----------------------------------------------------------------------------
(* What is proved of a pagination holds in every pagination of a document, *)
(* whatever was guessed before it.                                         *)
THEOREM EveryPagination ==
  PagedSpec => [](TypeOK /\ LinesInOrder /\ RelaxationsReported /\ TurnsExplained)
<1>1. PagedInv => TypeOK /\ LinesInOrder /\ RelaxationsReported /\ TurnsExplained
  BY OrderHolds, CutsHold, TurnsHold, Zenon DEF PagedInv, BodyInv, Typed
<1>. QED BY <1>1, PagedStays, PTL

(* A keep group is on one page, or it is reported as too large (paper.go,  *)
(* the keep check at the head of the block loop, and the space that it     *)
(* leaves to the rest of the group).                                       *)
THEOREM GroupsStayTogether == PagedSpec => []GroupsKept
<1>1. PagedInv => GroupsKept
  BY KeepingKeeps DEF PagedInv, BodyInv
<1>. QED BY <1>1, PagedStays, PTL

(* Only content taller than a page fails, or passes the bottom of one, and *)
(* then it is alone there (paper.go, the space checks of the three ways to *)
(* place a block).                                                         *)
THEOREM OnlyTallContentOverflows == PagedSpec => []TallContentOnly
<1>1. PagedInv => TallContentOnly
  BY DEF PagedInv, BodyInv, Spaced, TallContentOnly
<1>. QED BY <1>1, PagedStays, PTL

(* A document that is composed prints the number of pages it has and was   *)
(* paginated in the bodies its own headers and footers leave               *)
(* (typed_page_template.go, the loop over totalGuess).                     *)
THEOREM ComposedTotals == PagedSpec => []ComposedTotalsAgree
<1>1. PagedInit => ComposedTotalsAgree
  BY DEF PagedInit, ComposedTotalsAgree
<1>2. PagedInv /\ ComposedTotalsAgree /\ [PagedNext]_<<vars, counters>> => ComposedTotalsAgree'
  <2> SUFFICES ASSUME PagedInv, ComposedTotalsAgree, [PagedNext]_<<vars, counters>>
               PROVE  ComposedTotalsAgree'
    OBVIOUS
  <2>1. CASE Compose
    <3>1. /\ Len(pages) = totalGuess /\ UNCHANGED <<vars, shells, totalGuess>>
          /\ loaded' = loaded \cup {<<p, totalGuess>> : p \in 1 .. totalGuess}
      BY <2>1 DEF Compose, Conclude
    <3>2. pages' = pages /\ doc' = doc
      BY <3>1 DEF vars, plan
    <3>3. BodiesFor(Len(pages))' = BodiesFor(Len(pages))
      BY <3>1, <3>2 DEF BodiesFor
    <3>. QED BY <3>1, <3>2, <3>3 DEF ComposedTotalsAgree, PagedInv, Totalled
  <2>2. CASE PlanBody \/ FailDocument \/ Correct \/ GiveUp \/ Abandon
    <3>1. status' # "composed"
      BY <2>2 DEF PlanBody, FailDocument, Correct, Disagrees, Planned, Replan, GiveUp, Abandon, Conclude
    <3>. QED BY <3>1 DEF ComposedTotalsAgree
  <2>3. CASE AtRest \/ UNCHANGED <<vars, counters>>
    <3>1. UNCHANGED <<vars, counters>>
      BY <2>3 DEF AtRest, Stopped
    <3>. QED BY <3>1 DEF ComposedTotalsAgree, BodiesFor, vars, plan, counters
  <2>. QED BY <2>1, <2>2, <2>3 DEF PagedNext
<1>. QED BY <1>1, <1>2, PagedStart, PagedKept, PTL DEF PagedSpec

(* A page is left only when something is on it (paper.go, advanceBodyPage  *)
(* and its callers), so no pagination turns pages for ever.                *)
THEOREM TurnedPagesAreFilled == PagedSpec => PagesAreFilled
<1>1. PagedInv /\ [PagedNext]_<<vars, counters>> =>
        [page' = page + 1 => \E i \in DOMAIN fragments : fragments[i].page = page]_<<vars, counters>>
  <2> SUFFICES ASSUME PagedInv, [PagedNext]_<<vars, counters>>, page' = page + 1
               PROVE  \E i \in DOMAIN fragments : fragments[i].page = page
    OBVIOUS
  <2>1. Typed /\ page \in Nat \ {0}
    BY TypedFacts DEF PagedInv, BodyInv
  <2>2. ~Correct
    BY <2>1 DEF Correct, Replan
  <2>3. [Next]_vars /\ page' # page
    BY <2>1, <2>2, PagedSteps DEF PagedInv
  <2>4. AdvanceBodyPage
    <3>1. ~(UNCHANGED vars)
      BY <2>3 DEF vars, region
    <3>2. ~(NoteExplicitBreak \/ TakeExplicitBreak \/ CheckKeep)
      BY <2>3 DEF NoteExplicitBreak, TakeExplicitBreak, CheckKeep, region
    <3>3. ~(ExceedPageLimit \/ RejectTallBlock \/ RejectSpace \/ Finish)
      BY <2>3 DEF ExceedPageLimit, RejectTallBlock, RejectSpace, Finish, Fail, region
    <3>4. ~(FitWhole \/ PlaceWhole \/ DeferText \/ PlaceText)
      BY <2>3, Zenon DEF FitWhole, PlaceWhole, DeferText, PlaceText, Place, region
    <3>. QED BY <2>3, <3>1, <3>2, <3>3, <3>4, Zenon DEF Next, Stopped
  <2>5. turning
    BY <2>4 DEF AdvanceBodyPage
  <2>6. Len(fragments) # 0 /\ fragments[Len(fragments)].page = page
    BY <2>5 DEF PagedInv, BodyInv, Turned, Standing, AtTheStart, After
  <2>7. Len(fragments) \in DOMAIN fragments
    BY <2>1, <2>6, FragmentFacts
  <2>. QED BY <2>6, <2>7
<1>. QED BY <1>1, PagedStays, PTL DEF PagedSpec, PagesAreFilled

-----------------------------------------------------------------------------
(* Planning is determined by its document.  What a pagination does next    *)
(* depends on the part of its state that is not a report; two paginations  *)
(* of one document in the same bodies therefore end alike.                 *)
Situation == [doc |-> doc, index |-> index, at |-> at, turning |-> turning, token |-> token,
              page |-> page, available |-> available, regionEmpty |-> regionEmpty,
              explicitBreakPending |-> explicitBreakPending, pages |-> pages, outcome |-> outcome]

\* The state functions of a pagination in another situation.
In(x) == INSTANCE Pagination WITH
  doc <- x.doc, index <- x.index, at <- x.at, turning <- x.turning, token <- x.token,
  page <- x.page, available <- x.available, regionEmpty <- x.regionEmpty,
  explicitBreakPending <- x.explicitBreakPending, pages <- x.pages, outcome <- x.outcome,
  pendingBreak <- NoBreak, fragments <- <<>>, breaks <- <<>>, keepTooLarge <- {}

OnNextPage(x) ==
  [x EXCEPT !.turning = FALSE, !.page = x.page + 1, !.available = In(x)!Body(x.page + 1),
            !.regionEmpty = TRUE]

AtNextBlock(x) == [x EXCEPT !.index = x.index + 1, !.at = "block", !.token = Start]

Placed(x, height) ==
  [x EXCEPT !.pages = IF x.regionEmpty THEN Append(x.pages, x.page) ELSE x.pages,
            !.available = x.available - height, !.regionEmpty = FALSE]

AfterBreak(x) ==
  [AtNextBlock(x) EXCEPT !.explicitBreakPending = x.explicitBreakPending \/ ~x.regionEmpty]

\* The block and what it is kept with do not fit here, but on a page.
MovesOn(x) ==
  /\ In(x)!Constrained /\ In(x)!RequiredHeight <= In(x)!KeepCapacity
  /\ In(x)!RequiredHeight > x.available /\ ~x.regionEmpty

AfterCheck(x) == [x EXCEPT !.at = "content", !.turning = MovesOn(x)]

AfterFit(x) ==
  IF In(x)!BlockHeight(x.index) > In(x)!Body(x.page) THEN [x EXCEPT !.outcome = "too tall"]
  ELSE [x EXCEPT !.at = "whole",
                 !.turning = In(x)!BlockHeight(x.index) > x.available /\ ~x.regionEmpty]

AfterText(x) ==
  IF ~SpaceIsValid(In(x)!Space) THEN [x EXCEPT !.outcome = "no space"]
  ELSE IF In(x)!Answer.action = "defer" THEN [x EXCEPT !.turning = TRUE]
  ELSE IF In(x)!Answer.done
  THEN AtNextBlock(Placed(x, Height(In(x)!Block(x.index), x.token.next, In(x)!Answer.count)))
  ELSE [Placed(x, Height(In(x)!Block(x.index), x.token.next, In(x)!Answer.count))
          EXCEPT !.token = In(x)!Answer.next, !.turning = TRUE]

AfterBlock(x) ==
  IF In(x)!IsBreak(x.index) THEN AfterBreak(x)
  ELSE IF x.explicitBreakPending THEN [x EXCEPT !.explicitBreakPending = FALSE, !.turning = TRUE]
  ELSE IF In(x)!Block(x.index).kind = "canvas" THEN AfterFit(x)
  ELSE AfterCheck(x)

\* What a step of the planner leads to.
Onward(x) ==
  IF x.turning /\ ~In(x)!LimitReached THEN OnNextPage(x)
  ELSE IF x.outcome # "planning" THEN x
  ELSE IF x.turning THEN [x EXCEPT !.outcome = "page limit"]
  ELSE IF x.index > In(x)!BlockCount THEN [x EXCEPT !.outcome = "planned"]
  ELSE IF x.at = "block" THEN AfterBlock(x)
  ELSE IF x.at = "whole"
  THEN AtNextBlock(Placed(x, Height(In(x)!Block(x.index), 0, 1)))
  ELSE IF In(x)!Block(x.index).kind = "box" THEN AfterFit(x)
  ELSE AfterText(x)

\* A number of steps lead from x to y.
Along(f, n) == \A k \in 1 .. n : f[k] = Onward(f[k - 1])

Leads(x, y) == \E n \in Nat : \E f : f[0] = x /\ f[n] = y /\ Along(f, n)

LEMMA LeadsHere ==
  ASSUME NEW x
  PROVE  Leads(x, x)
<1> DEFINE f == [k \in {0} |-> x]
<1>1. f[0] = x /\ Along(f, 0)
  BY DEF Along
<1> HIDE DEF f
<1>. QED BY <1>1 DEF Leads

LEMMA LeadsOn ==
  ASSUME NEW x, NEW y, Leads(x, y)
  PROVE  Leads(x, Onward(y))
<1>1. PICK n \in Nat : \E f : f[0] = x /\ f[n] = y /\ Along(f, n)
  BY DEF Leads
<1>2. PICK f : f[0] = x /\ f[n] = y /\ Along(f, n)
  BY <1>1
<1> DEFINE g == [k \in 0 .. n + 1 |-> IF k <= n THEN f[k] ELSE Onward(y)]
<1>3. \A k \in 0 .. n : g[k] = f[k]
  OBVIOUS
<1>4. g[n + 1] = Onward(y)
  OBVIOUS
<1> HIDE DEF g
<1>5. ASSUME NEW k \in 1 .. n + 1 PROVE g[k] = Onward(g[k - 1])
  <2>1. CASE k = n + 1
    <3>1. k - 1 = n /\ n \in 0 .. n
      BY <2>1
    <3>2. g[k - 1] = y
      BY <1>2, <1>3, <3>1
    <3>. QED BY <1>4, <2>1, <3>2
  <2>2. CASE k # n + 1
    <3>1. k \in 1 .. n /\ k \in 0 .. n /\ k - 1 \in 0 .. n
      BY <2>2
    <3>. QED BY <1>2, <1>3, <3>1 DEF Along
  <2>. QED BY <2>1, <2>2
<1>6. g[0] = x /\ 0 \in 0 .. n /\ n + 1 \in Nat
  BY <1>2, <1>3
<1>. QED BY <1>4, <1>5, <1>6 DEF Leads, Along

LEMMA EndsEarlier ==
  ASSUME NEW f, NEW g, NEW m \in Nat, NEW n \in Nat, m <= n, f[0] = g[0],
         Along(f, m), Along(g, n), Onward(f[m]) = f[m]
  PROVE  g[n] = f[m]
<1>1. Along(g, m)
  BY DEF Along
<1>2. \A k \in 1 .. m : f[k - 1] = g[k - 1] => f[k] = g[k]
  BY <1>1 DEF Along
<1>3. f[m] = g[m]
  BY <1>2, Sums!StepForStep
<1>4. \A k \in m + 1 .. n : g[k - 1] = g[m] => g[k] = g[m]
  <2> SUFFICES ASSUME NEW k \in m + 1 .. n, g[k - 1] = g[m] PROVE g[k] = g[m]
    OBVIOUS
  <2>1. k \in 1 .. n
    OBVIOUS
  <2>2. g[k] = Onward(g[k - 1])
    BY <2>1 DEF Along
  <2>. QED BY <1>3, <2>2
<1>5. g[n] = g[m]
  BY <1>4, Sums!StaysAsItIs
<1>. QED BY <1>3, <1>5

(* From one situation there is only one end.                               *)
LEMMA OneEnd ==
  ASSUME NEW x, NEW y, NEW z, Leads(x, y), Leads(x, z), Onward(y) = y, Onward(z) = z
  PROVE  y = z
<1>1. PICK m \in Nat : \E f : f[0] = x /\ f[m] = y /\ Along(f, m)
  BY DEF Leads
<1>2. PICK f : f[0] = x /\ f[m] = y /\ Along(f, m)
  BY <1>1
<1>3. PICK n \in Nat : \E g : g[0] = x /\ g[n] = z /\ Along(g, n)
  BY DEF Leads
<1>4. PICK g : g[0] = x /\ g[n] = z /\ Along(g, n)
  BY <1>3
<1>5. CASE m <= n
  BY <1>2, <1>4, <1>5, EndsEarlier
<1>6. CASE n <= m
  BY <1>2, <1>4, <1>6, EndsEarlier
<1>. QED BY <1>5, <1>6

(* The functions that look at no variable are the same in any situation.   *)
LEMMA SameFunctions ==
  ASSUME NEW x
  PROVE  /\ \A S : In(x)!Max(S) = Max(S) /\ In(x)!Min(S) = Min(S)
         /\ \A p, first, count : In(x)!Height(p, first, count) = Height(p, first, count)
         /\ \A p, space, from : In(x)!FragmentContext(p, space, from) = FragmentContext(p, space, from)
<1>1. \A S : In(x)!Max(S) = Max(S) /\ In(x)!Min(S) = Min(S)
  BY DEF In!Max, Max, In!Min, Min
<1>2. \A p, first, count : In(x)!Height(p, first, count) = Height(p, first, count)
  BY DEF In!Height, Height
<1>3. \A p, space, from : In(x)!FragmentContext(p, space, from) = FragmentContext(p, space, from)
  BY DEF In!FragmentContext, FragmentContext, In!FittingPrefix, FittingPrefix, In!LegalSplits,
         LegalSplits, In!SplitsPreservingWidows, SplitsPreservingWidows, In!WidowsFollow,
         WidowsFollow, In!PlacedResult, PlacedResult, In!Deferred, Deferred, In!OversizedLine,
         OversizedLine, In!WholeRest, WholeRest, In!SplitReason, SplitReason, In!LegalSplit,
         LegalSplit, In!RelaxedSplit, RelaxedSplit, In!Height, Height, In!Rest, Rest,
         In!Max, Max, In!Min, Min
<1>. QED BY <1>1, <1>2, <1>3

(* In the situation the pagination is in, the state functions are its own. *)
LEMMA InSituation ==
  /\ In(Situation)!LimitReached <=> LimitReached
  /\ In(Situation)!BlockCount = BlockCount
  /\ In(Situation)!Block(index) = Block(index)
  /\ In(Situation)!IsBreak(index) <=> IsBreak(index)
  /\ In(Situation)!BlockHeight(index) = BlockHeight(index)
  /\ In(Situation)!Body(page) = Body(page)
  /\ In(Situation)!Body(page + 1) = Body(page + 1)
<1>1. Situation.doc = doc /\ Situation.page = page
  BY DEF Situation
<1>. QED BY <1>1 DEF In!LimitReached, LimitReached, In!BlockCount, BlockCount, In!Block, Block,
              In!IsBreak, IsBreak, In!BlockHeight, BlockHeight, In!Body, Body

LEMMA HeightInSituation ==
  ASSUME NEW first, NEW last, \A i : In(Situation)!BlockHeight(i) = BlockHeight(i)
  PROVE  In(Situation)!TotalHeight(first, last) = TotalHeight(first, last)
<1> DEFINE S == first .. last
           Adds(g) == g = [s \in SUBSET S |-> IF s = {} THEN 0
                             ELSE In(Situation)!BlockHeight(CHOOSE x \in s : TRUE)
                                    + g[s \ {CHOOSE x \in s : TRUE}]]
           Takes(g) == g = [s \in SUBSET S |-> IF s = {} THEN 0
                             ELSE BlockHeight(CHOOSE x \in s : TRUE)
                                    + g[s \ {CHOOSE x \in s : TRUE}]]
<1>1. In(Situation)!TotalHeight(first, last) = (CHOOSE g : Adds(g))[S]
  BY Zenon DEF In!TotalHeight, In!MapThenSumSet, In!MapThenFoldSet
<1>2. TotalHeight(first, last) = (CHOOSE g : Takes(g))[S]
  BY Zenon DEF TotalHeight, MapThenSumSet, MapThenFoldSet
<1>3. \A g : [s \in SUBSET S |-> IF s = {} THEN 0
                ELSE In(Situation)!BlockHeight(CHOOSE x \in s : TRUE)
                       + g[s \ {CHOOSE x \in s : TRUE}]]
           = [s \in SUBSET S |-> IF s = {} THEN 0
                ELSE BlockHeight(CHOOSE x \in s : TRUE) + g[s \ {CHOOSE x \in s : TRUE}]]
  OBVIOUS
<1>4. ASSUME NEW g PROVE Adds(g) <=> Takes(g)
  <2>1. PICK a : a = [s \in SUBSET S |-> IF s = {} THEN 0
                        ELSE In(Situation)!BlockHeight(CHOOSE x \in s : TRUE)
                               + g[s \ {CHOOSE x \in s : TRUE}]]
    OBVIOUS
  <2>2. Adds(g) <=> g = a
    BY <2>1, Zenon
  <2>3. a = [s \in SUBSET S |-> IF s = {} THEN 0
               ELSE BlockHeight(CHOOSE x \in s : TRUE) + g[s \ {CHOOSE x \in s : TRUE}]]
    BY <1>3, <2>1, Zenon
  <2>4. Takes(g) <=> g = a
    BY <2>3, Zenon
  <2>. QED BY <2>2, <2>4
<1> HIDE DEF Adds, Takes, S
<1>5. (CHOOSE g : Adds(g)) = (CHOOSE g : Takes(g))
  BY <1>4, Zenon
<1>. QED BY <1>1, <1>2, <1>5

LEMMA KeepInSituation ==
  /\ In(Situation)!Constrained <=> Constrained
  /\ In(Situation)!RequiredHeight = RequiredHeight
  /\ In(Situation)!KeepCapacity = KeepCapacity
<1>1. Situation.doc = doc /\ Situation.page = page /\ Situation.index = index
  BY DEF Situation
<1> DEFINE s == Situation
<1>2. \A i : In(s)!Block(i) = Block(i) /\ (In(s)!IsBreak(i) <=> IsBreak(i)) /\ In(s)!BlockHeight(i) = BlockHeight(i)
  BY <1>1 DEF In!Block, Block, In!IsBreak, IsBreak, In!BlockHeight, BlockHeight
<1>3. In(s)!BlockCount = BlockCount
  BY <1>1 DEF In!BlockCount, BlockCount
<1>4. \A i : (In(s)!LinkedToNext(i) <=> LinkedToNext(i)) /\ In(s)!GroupsFrom(i) = GroupsFrom(i)
             /\ In(s)!GroupsAt(i) = GroupsAt(i)
  BY <1>1, <1>2, <1>3, Zenon DEF In!LinkedToNext, LinkedToNext, In!GroupsFrom, GroupsFrom, In!GroupsAt, GroupsAt
<1>5. In(s)!ConstraintEnd = ConstraintEnd
  BY <1>1, <1>3, <1>4, SameFunctions, Zenon DEF In!ConstraintEnd, ConstraintEnd
<1>6. In(s)!KeepCapacity = KeepCapacity
  BY <1>1, SameFunctions, Zenon DEF In!KeepCapacity, KeepCapacity, In!Body, Body
<1>7. \A i : In(s)!Splittable(i) <=> Splittable(i)
  BY <1>2, <1>4, Zenon DEF In!Splittable, Splittable
<1>8. \A first, last : In(s)!TotalHeight(first, last) = TotalHeight(first, last)
  BY <1>2, HeightInSituation
<1>9. In(s)!Constrained <=> Constrained
  BY <1>1, <1>2, <1>4, <1>5, Zenon DEF In!Constrained, Constrained
<1>11. \A p, start, count : In(s)!Height(p, start, count) = Height(p, start, count)
  BY DEF In!Height, Height
<1>10. In(s)!RequiredHeight = RequiredHeight
  BY <1>1, <1>2, <1>5, <1>6, <1>7, <1>8, <1>11, Zenon DEF In!RequiredHeight, RequiredHeight
<1>. QED BY <1>6, <1>9, <1>10

LEMMA TextInSituation ==
  In(Situation)!Space = Space /\ In(Situation)!Answer = Answer
<1>1. /\ Situation.doc = doc /\ Situation.page = page /\ Situation.index = index
      /\ Situation.available = available /\ Situation.regionEmpty = regionEmpty
      /\ Situation.token = token
  BY DEF Situation
<1>2. In(Situation)!Space = Space
  BY <1>1 DEF In!Space, Space, In!Body, Body
<1>3. In(Situation)!Policy(index) = Policy(index)
  BY <1>1 DEF In!Policy, Policy, In!Block, Block
<1>4. \A p, space, from :
        In(Situation)!FragmentContext(p, space, from) = FragmentContext(p, space, from)
  BY SameFunctions
<1>. QED BY <1>1, <1>2, <1>3, <1>4, Zenon DEF In!Answer, Answer

(* What becomes of a situation.                                            *)
Whole(x) ==
  x = [doc |-> x.doc, index |-> x.index, at |-> x.at, turning |-> x.turning, token |-> x.token,
       page |-> x.page, available |-> x.available, regionEmpty |-> x.regionEmpty,
       explicitBreakPending |-> x.explicitBreakPending, pages |-> x.pages, outcome |-> x.outcome]

Here(x) ==
  /\ x.doc = doc /\ x.index = index /\ x.at = at /\ x.turning = turning /\ x.token = token
  /\ x.page = page /\ x.available = available /\ x.regionEmpty = regionEmpty
  /\ x.explicitBreakPending = explicitBreakPending /\ x.pages = pages /\ x.outcome = outcome

LEMMA WholeIsHere ==
  ASSUME NEW x
  PROVE  x = Situation <=> Whole(x) /\ Here(x)
<1>1. x = Situation => Whole(x) /\ Here(x)
  BY DEF Whole, Situation, Here
<1>2. Whole(x) /\ Here(x) => x = Situation
  BY Zenon DEF Whole, Situation, Here
<1>. QED BY <1>1, <1>2

LEMMA WholeIsHereNext ==
  ASSUME NEW x, Whole(x), Here(x)'
  PROVE  Situation' = x
BY Zenon DEF Whole, Situation, Here

LEMMA WholeDomain ==
  ASSUME NEW x, Whole(x)
  PROVE  DOMAIN x = {"doc", "index", "at", "turning", "token", "page", "available", "regionEmpty",
                     "explicitBreakPending", "pages", "outcome"}
BY DEF Whole

(* Each action of the planner takes the step that Onward describes.        *)
LEMMA AdvanceLeads ==
  ASSUME AdvanceBodyPage
  PROVE  Situation' = Onward(Situation)
<1>1. PICK x : x = Situation
  OBVIOUS
<1>2. Whole(x) /\ Here(x)
  BY <1>1, WholeIsHere
<1>3. In(x)!Body(x.page + 1) = Body(page + 1) /\ (In(x)!LimitReached <=> LimitReached)
  BY <1>1, <1>2, InSituation DEF Here
<1>4. PICK y : y = OnNextPage(x)
  OBVIOUS
<1>5. y = Onward(x)
  BY <1>2, <1>3, <1>4, Zenon DEF Onward, AdvanceBodyPage, Here
<1>6. /\ Whole(y) /\ y.turning = FALSE /\ y.page = x.page + 1 /\ y.available = In(x)!Body(x.page + 1)
      /\ y.regionEmpty = TRUE /\ y.doc = x.doc /\ y.index = x.index /\ y.at = x.at
      /\ y.token = x.token /\ y.explicitBreakPending = x.explicitBreakPending
      /\ y.pages = x.pages /\ y.outcome = x.outcome
  BY <1>2, <1>4, WholeDomain DEF OnNextPage, Whole
<1>7. Here(y)'
  BY <1>2, <1>3, <1>6 DEF Here, AdvanceBodyPage, cursor, plan
<1>. QED BY <1>1, <1>5, <1>6, <1>7, WholeIsHereNext

\* Nothing but the outcome changes.
LEMMA FailLeads ==
  ASSUME NEW why, Fail(why), NEW x, x = Situation, NEW y, y = [x EXCEPT !.outcome = why]
  PROVE  Situation' = y
<1>1. Whole(x) /\ Here(x)
  BY WholeIsHere
<1>2. /\ Whole(y) /\ y.outcome = why /\ y.turning = x.turning /\ y.page = x.page
      /\ y.available = x.available /\ y.regionEmpty = x.regionEmpty /\ y.doc = x.doc
      /\ y.index = x.index /\ y.at = x.at /\ y.token = x.token
      /\ y.explicitBreakPending = x.explicitBreakPending /\ y.pages = x.pages
  BY <1>1, WholeDomain DEF Whole
<1>3. Here(y)'
  BY <1>1, <1>2 DEF Here, Fail, cursor, plan, region
<1>. QED BY <1>2, <1>3, WholeIsHereNext

LEMMA TextIsNeither ==
  ASSUME Typed, AtText
  PROVE  /\ index \in 1 .. BlockCount /\ ~(index > BlockCount) /\ at = "content" /\ ~turning
         /\ outcome = "planning" /\ Block(index).kind = "text"
<1>1. at = "content" /\ at # "block" /\ ~turning /\ outcome = "planning" /\ Block(index).kind = "text"
  BY DEF AtText, Planning
<1>. QED BY <1>1, TypedFacts, IndexFacts

LEMMA WholeLeads ==
  ASSUME Typed, AtWhole, NEW x, x = Situation
  PROVE  Onward(x) = AfterFit(x)
<1>1. Here(x)
  BY WholeIsHere
<1>2. /\ In(x)!BlockCount = BlockCount /\ In(x)!Block(x.index) = Block(index)
      /\ (In(x)!IsBreak(x.index) <=> IsBreak(index))
  BY <1>1, InSituation DEF Here
<1>3. /\ ~turning /\ outcome = "planning" /\ index <= BlockCount
      /\ \/ at = "content" /\ Block(index).kind = "box"
         \/ at = "block" /\ Block(index).kind = "canvas" /\ ~explicitBreakPending
  BY Zenon DEF AtWhole, Planning
<1>4. ~(index > BlockCount)
  BY <1>3, IndexFacts
<1>5. CASE at = "content" /\ Block(index).kind = "box"
  <2>1. at # "block" /\ at # "whole"
    BY <1>5
  <2>. QED BY <1>1, <1>2, <1>3, <1>4, <1>5, <2>1, Zenon DEF Onward, Here
<1>6. CASE at = "block" /\ Block(index).kind = "canvas" /\ ~explicitBreakPending
  <2>1. ~IsBreak(index)
    BY <1>6 DEF IsBreak
  <2>2. Onward(x) = AfterBlock(x)
    BY <1>1, <1>2, <1>3, <1>4, <1>6, Zenon DEF Onward, Here
  <2>. QED BY <1>1, <1>2, <1>6, <2>1, <2>2, Zenon DEF AfterBlock, Here
<1>. QED BY <1>3, <1>5, <1>6

LEMMA FailuresLead ==
  ASSUME Typed, ExceedPageLimit \/ RejectTallBlock \/ RejectSpace \/ Finish
  PROVE  Situation' = Onward(Situation)
<1>1. PICK x : x = Situation
  OBVIOUS
<1>2. Whole(x) /\ Here(x)
  BY <1>1, WholeIsHere
<1>3. /\ (In(x)!LimitReached <=> LimitReached) /\ In(x)!BlockCount = BlockCount
      /\ In(x)!Block(x.index) = Block(index) /\ (In(x)!IsBreak(x.index) <=> IsBreak(index))
      /\ In(x)!BlockHeight(x.index) = BlockHeight(index) /\ In(x)!Body(x.page) = Body(page)
      /\ In(x)!Space = Space
  BY <1>1, <1>2, InSituation, TextInSituation DEF Here
<1>4. CASE ExceedPageLimit
  <2>1. Onward(x) = [x EXCEPT !.outcome = "page limit"]
    BY <1>2, <1>3, <1>4, Zenon DEF Onward, Here, ExceedPageLimit
  <2>5. Fail("page limit")
    BY <1>4, Zenon DEF ExceedPageLimit
  <2>. QED BY <1>1, <2>1, <2>5, FailLeads, Zenon
<1>5. CASE Finish
  <2>1. Onward(x) = [x EXCEPT !.outcome = "planned"]
    BY <1>2, <1>3, <1>5, Zenon DEF Onward, Here, Finish, Planning
  <2>5. Fail("planned")
    BY <1>5, Zenon DEF Finish
  <2>. QED BY <1>1, <2>1, <2>5, FailLeads, Zenon
<1>6. CASE RejectSpace
  <2>1. /\ ~(index > BlockCount) /\ at = "content" /\ ~turning
        /\ outcome = "planning" /\ Block(index).kind = "text" /\ ~SpaceIsValid(Space)
    BY <1>6, TextIsNeither, Zenon DEF RejectSpace
  <2>2. at # "block" /\ at # "whole" /\ Block(index).kind # "box"
    BY <2>1
  <2>3. Onward(x) = AfterText(x)
    BY <1>2, <1>3, <2>1, <2>2, Zenon DEF Onward, Here
  <2>4. AfterText(x) = [x EXCEPT !.outcome = "no space"]
    BY <1>3, <2>1, Zenon DEF AfterText
  <2>5. Fail("no space")
    BY <1>6, Zenon DEF RejectSpace
  <2>. QED BY <1>1, <2>3, <2>4, <2>5, FailLeads, Zenon
<1>7. CASE RejectTallBlock
  <2>1. AtWhole /\ BlockHeight(index) > Body(page)
    BY <1>7, Zenon DEF RejectTallBlock
  <2>2. Onward(x) = AfterFit(x)
    BY <1>1, <2>1, WholeLeads
  <2>3. AfterFit(x) = [x EXCEPT !.outcome = "too tall"]
    BY <1>3, <2>1, Zenon DEF AfterFit
  <2>5. Fail("too tall")
    BY <1>7, Zenon DEF RejectTallBlock
  <2>. QED BY <1>1, <2>2, <2>3, <2>5, FailLeads, Zenon
<1>. QED BY <1>4, <1>5, <1>6, <1>7

\* What the keep check compares are numbers.
LEMMA RequiredIsNumber ==
  ASSUME Typed, index \in 1 .. BlockCount
  PROVE  RequiredHeight \in Nat /\ KeepCapacity \in Nat
<1> DEFINE end == ConstraintEnd
           lead == Height(Block(end), 0, Block(end).orphans)
<1>1. IsDocument(doc) /\ BlockCount \in Nat /\ page \in Nat \ {0}
  BY TypedFacts, IndexFacts
<1>2. end \in index .. BlockCount
  BY ConstraintEndFacts
<1>3. \A last \in index .. BlockCount : TotalHeight(index, last) \in Nat
  <2> TAKE last \in index .. BlockCount
  <2>1. last \in 0 .. BlockCount /\ last \in last .. BlockCount
    BY <1>1
  <2>. QED BY <1>1, <2>1, TotalsGrow
<1>4. ASSUME end > index, Splittable(end) PROVE lead \in Nat /\ TotalHeight(index, end - 1) \in Nat
  <2>1. end - 1 \in index .. BlockCount /\ end \in 1 .. BlockCount
    BY <1>1, <1>2, <1>4
  <2>2. IsMeasured(Block(end))
    BY <1>1, <2>1, DocumentFacts
  <2>3. Block(end).orphans \in Nat /\ 0 + Block(end).orphans <= Block(end).lines
    BY <1>4, <2>2 DEF IsMeasured, Splittable
  <2>4. 0 \in Nat
    OBVIOUS
  <2>5. TotalHeight(index, end - 1) \in Nat
    BY <1>3, <2>1
  <2> HIDE DEF end
  <2>. QED BY <2>2, <2>3, <2>4, <2>5, HeightFacts
<1>5. \/ RequiredHeight = TotalHeight(index, end)
      \/ end > index /\ Splittable(end) /\ RequiredHeight = TotalHeight(index, end - 1) + lead
  BY DEF RequiredHeight
<1>6. TotalHeight(index, end) \in Nat
  BY <1>2, <1>3
<1>7. RequiredHeight \in Nat
  <2> HIDE DEF end, lead
  <2>1. ASSUME NEW a \in Nat, NEW b \in Nat PROVE a + b \in Nat
    OBVIOUS
  <2>. QED BY <1>4, <1>5, <1>6, <2>1, Zenon
<1>8. KeepCapacity \in Nat
  <2>1. Body(page) \in Nat /\ Body(page + 1) \in Nat
    BY <1>1, DocumentFacts
  <2>2. PICK n \in Nat : Body(page) <= n /\ Body(page + 1) <= n
    <3>1. Body(page) + Body(page + 1) \in Nat /\ Body(page) <= Body(page) + Body(page + 1)
          /\ Body(page + 1) <= Body(page) + Body(page + 1)
      BY <2>1
    <3>. QED BY <3>1
  <2> DEFINE S == {Body(page), Body(page + 1)}
  <2>3. S \in SUBSET (0 .. n) /\ S # {} /\ S \subseteq Nat
    BY <2>1, <2>2
  <2> HIDE DEF S
  <2>4. Max(S) \in S
    BY <2>3, MaxIsGreatest
  <2>. QED BY <2>3, <2>4 DEF KeepCapacity, S
<1>. QED BY <1>7, <1>8

LEMMA AtBlockLeads ==
  ASSUME Typed, AtBlock, NEW x, x = Situation
  PROVE  Onward(x) = AfterBlock(x)
<1>1. Here(x)
  BY WholeIsHere
<1>2. In(x)!BlockCount = BlockCount
  BY <1>1, InSituation
<1>3. /\ ~turning /\ outcome = "planning" /\ ~(index > BlockCount) /\ at = "block"
  BY AtBlockFacts, IndexFacts
<1>. QED BY <1>1, <1>2, <1>3, Zenon DEF Onward, Here

LEMMA BreakLeads ==
  ASSUME Typed, NoteExplicitBreak
  PROVE  Situation' = Onward(Situation)
<1>1. PICK x : x = Situation
  OBVIOUS
<1>2. Whole(x) /\ Here(x)
  BY <1>1, WholeIsHere
<1>3. In(x)!IsBreak(x.index) <=> IsBreak(index)
  BY <1>1, <1>2, InSituation DEF Here
<1>4. AtBlock /\ IsBreak(index)
  BY DEF NoteExplicitBreak
<1>5. Onward(x) = AfterBreak(x)
  BY <1>1, <1>3, <1>4, AtBlockLeads, Zenon DEF AfterBlock
<1>6. PICK z : z = AtNextBlock(x)
  OBVIOUS
<1>7. /\ Whole(z) /\ z.index = x.index + 1 /\ z.at = "block" /\ z.token = Start
      /\ z.turning = x.turning /\ z.page = x.page /\ z.available = x.available
      /\ z.regionEmpty = x.regionEmpty /\ z.doc = x.doc /\ z.pages = x.pages
      /\ z.outcome = x.outcome
  BY <1>2, <1>6, WholeDomain DEF AtNextBlock, Whole
<1>8. PICK b : b = (explicitBreakPending \/ ~regionEmpty)
  OBVIOUS
<1>9. PICK y : y = [z EXCEPT !.explicitBreakPending = b]
  OBVIOUS
<1>10. y = Onward(x)
  <2>1. (x.explicitBreakPending \/ ~x.regionEmpty) = b
    BY <1>2, <1>8, Zenon DEF Here
  <2>. QED BY <1>5, <1>6, <1>9, <2>1, Zenon DEF AfterBreak
<1>11. /\ Whole(y) /\ y.index = z.index /\ y.at = z.at /\ y.token = z.token
       /\ y.turning = z.turning /\ y.page = z.page /\ y.available = z.available
       /\ y.regionEmpty = z.regionEmpty /\ y.doc = z.doc /\ y.pages = z.pages
       /\ y.outcome = z.outcome /\ y.explicitBreakPending = b
  BY <1>7, <1>9, WholeDomain DEF Whole
<1>12. /\ index' = index + 1 /\ at' = "block" /\ token' = Start
       /\ UNCHANGED <<doc, turning, page, available, regionEmpty, pages, outcome>>
       /\ explicitBreakPending' = b
  BY <1>8, Zenon DEF NoteExplicitBreak, NextBlock, region, plan
<1>13. Here(y)'
  BY <1>2, <1>7, <1>11, <1>12 DEF Here
<1>. QED BY <1>1, <1>10, <1>11, <1>13, WholeIsHereNext

LEMMA TakenBreakLeads ==
  ASSUME Typed, TakeExplicitBreak
  PROVE  Situation' = Onward(Situation)
<1>1. PICK x : x = Situation
  OBVIOUS
<1>2. Whole(x) /\ Here(x)
  BY <1>1, WholeIsHere
<1>3. In(x)!IsBreak(x.index) <=> IsBreak(index)
  BY <1>1, <1>2, InSituation DEF Here
<1>4. PICK y : y = [x EXCEPT !.explicitBreakPending = FALSE, !.turning = TRUE]
  OBVIOUS
<1>5. AtBlock /\ ~IsBreak(index) /\ explicitBreakPending
  BY DEF TakeExplicitBreak
<1>6. y = Onward(x)
  BY <1>1, <1>2, <1>3, <1>4, <1>5, AtBlockLeads, Zenon DEF AfterBlock, Here
<1>7. /\ Whole(y) /\ y.turning = TRUE /\ y.explicitBreakPending = FALSE
      /\ y.index = x.index /\ y.at = x.at /\ y.token = x.token /\ y.page = x.page
      /\ y.available = x.available /\ y.regionEmpty = x.regionEmpty
      /\ y.doc = x.doc /\ y.pages = x.pages /\ y.outcome = x.outcome
  BY <1>2, <1>4, WholeDomain DEF Whole
<1>8. Here(y)'
  BY <1>2, <1>7 DEF Here, TakeExplicitBreak, TurnFor, cursor, region, plan
<1>. QED BY <1>1, <1>6, <1>7, <1>8, WholeIsHereNext

LEMMA CheckLeads ==
  ASSUME Typed, CheckKeep
  PROVE  Situation' = Onward(Situation)
<1>1. PICK x : x = Situation
  OBVIOUS
<1>2. Whole(x) /\ Here(x)
  BY <1>1, WholeIsHere
<1>3. (In(x)!IsBreak(x.index) <=> IsBreak(index)) /\ In(x)!Block(x.index) = Block(index)
  BY <1>1, <1>2, InSituation DEF Here
<1>4. PICK b : b = MovesOn(x)
  OBVIOUS
<1>5. b = (Constrained /\ RequiredHeight <= KeepCapacity /\ RequiredHeight > available /\ ~regionEmpty)
  BY <1>1, <1>2, <1>4, KeepInSituation, Zenon DEF MovesOn, Here
<1>6. PICK y : y = [x EXCEPT !.at = "content", !.turning = b]
  OBVIOUS
<1>7. AtBlock /\ Block(index).kind \in {"text", "box"} /\ ~explicitBreakPending
  BY DEF CheckKeep
<1>8. ~IsBreak(index) /\ Block(index).kind # "canvas"
  BY <1>7 DEF IsBreak
<1>9. y = Onward(x)
  BY <1>1, <1>2, <1>3, <1>4, <1>6, <1>7, <1>8, AtBlockLeads, Zenon DEF AfterBlock, AfterCheck, Here
<1>10. /\ Whole(y) /\ y.turning = b /\ y.at = "content"
       /\ y.explicitBreakPending = x.explicitBreakPending
       /\ y.index = x.index /\ y.token = x.token /\ y.page = x.page
       /\ y.available = x.available /\ y.regionEmpty = x.regionEmpty
       /\ y.doc = x.doc /\ y.pages = x.pages /\ y.outcome = x.outcome
  BY <1>2, <1>6, WholeDomain DEF Whole
<1>11. turning' = b
  <2>1. turning = FALSE /\ available \in Int
    BY <1>7, AtBlockFacts, TypedFacts
  <2>2. \/ /\ Constrained /\ RequiredHeight > KeepCapacity /\ turning' = turning
        \/ /\ Constrained /\ RequiredHeight <= KeepCapacity
           /\ RequiredHeight > available /\ ~regionEmpty /\ turning' = TRUE
        \/ /\ Constrained => /\ RequiredHeight <= KeepCapacity
                             /\ RequiredHeight <= available \/ regionEmpty
           /\ turning' = turning
    BY Zenon DEF CheckKeep, TurnFor
  <2>3. RequiredHeight \in Int /\ KeepCapacity \in Int
    BY <1>7, AtBlockFacts, RequiredIsNumber
  <2>4. /\ ~(RequiredHeight > KeepCapacity /\ RequiredHeight <= KeepCapacity)
        /\ ~(RequiredHeight > available /\ RequiredHeight <= available)
    BY <2>1, <2>3
  <2>5. \/ b = TRUE /\ turning' = TRUE
        \/ b = FALSE /\ turning' = FALSE
    BY <1>5, <2>1, <2>2, <2>4, Zenon
  <2>6. CASE b = TRUE /\ turning' = TRUE
    <3>1. b = turning'
      BY <2>6, Zenon
    <3>. QED BY <3>1, Zenon
  <2>7. CASE b = FALSE /\ turning' = FALSE
    <3>1. b = turning'
      BY <2>7, Zenon
    <3>. QED BY <3>1, Zenon
  <2>. QED BY <2>5, <2>6, <2>7, Zenon
<1>12. Here(y)'
  BY <1>2, <1>10, <1>11 DEF Here, CheckKeep, region, plan
<1>. QED BY <1>1, <1>9, <1>10, <1>12, WholeIsHereNext

LEMMA FitLeads ==
  ASSUME Typed, FitWhole
  PROVE  Situation' = Onward(Situation)
<1>1. PICK x : x = Situation
  OBVIOUS
<1>2. Whole(x) /\ Here(x)
  BY <1>1, WholeIsHere
<1>3. In(x)!BlockHeight(x.index) = BlockHeight(index) /\ In(x)!Body(x.page) = Body(page)
  BY <1>1, <1>2, InSituation DEF Here
<1>4. AtWhole /\ BlockHeight(index) <= Body(page)
  BY Zenon DEF FitWhole
<1>5. PICK b : b = (BlockHeight(index) > available /\ ~regionEmpty)
  OBVIOUS
<1>6. PICK y : y = [x EXCEPT !.at = "whole", !.turning = b]
  OBVIOUS
<1>7. ~(BlockHeight(index) > Body(page))
  <2>1. index \in 1 .. BlockCount
    <3>1. index <= BlockCount
      BY <1>4 DEF AtWhole
    <3>. QED BY <3>1, IndexFacts
  <2>2. IsDocument(doc) /\ page \in Nat
    BY TypedFacts
  <2>3. IsMeasured(Block(index)) /\ Body(page) \in Nat
    BY <2>1, <2>2, DocumentFacts
  <2>4. BlockHeight(index) \in Nat
    BY <2>3 DEF IsMeasured, BlockHeight
  <2>. QED BY <1>4, <2>3, <2>4
<1>8. y = Onward(x)
  <2>1. (In(x)!BlockHeight(x.index) > x.available /\ ~x.regionEmpty) = b
    BY <1>2, <1>3, <1>5, Zenon DEF Here
  <2>. QED BY <1>1, <1>3, <1>4, <1>6, <1>7, <2>1, WholeLeads, Zenon DEF AfterFit
<1>9. /\ Whole(y) /\ y.turning = b /\ y.at = "whole"
      /\ y.explicitBreakPending = x.explicitBreakPending
      /\ y.index = x.index /\ y.token = x.token /\ y.page = x.page
      /\ y.available = x.available /\ y.regionEmpty = x.regionEmpty
      /\ y.doc = x.doc /\ y.pages = x.pages /\ y.outcome = x.outcome
  BY <1>2, <1>6, WholeDomain DEF Whole
<1>10. turning' = b
  <2>1. turning = FALSE
    <3>1. turning \in BOOLEAN /\ ~turning
      BY <1>4, TypeParts, Zenon DEF Typed, Flagged, AtWhole, Planning
    <3>. QED BY <3>1
  <2>2. IF BlockHeight(index) > available /\ ~regionEmpty THEN turning' = TRUE ELSE turning' = turning
    BY Zenon DEF FitWhole, TurnFor
  <2>3. \/ b = TRUE /\ turning' = TRUE
        \/ b = FALSE /\ turning' = FALSE
    BY <1>5, <2>1, <2>2, Zenon
  <2>4. CASE b = TRUE /\ turning' = TRUE
    <3>1. b = turning'
      BY <2>4, Zenon
    <3>. QED BY <3>1, Zenon
  <2>5. CASE b = FALSE /\ turning' = FALSE
    <3>1. b = turning'
      BY <2>5, Zenon
    <3>. QED BY <3>1, Zenon
  <2>. QED BY <2>3, <2>4, <2>5, Zenon
<1>11. /\ at' = "whole"
       /\ UNCHANGED <<doc, index, token, page, available, regionEmpty, explicitBreakPending, pages, outcome>>
  BY Zenon DEF FitWhole, region, plan
<1>12. Here(y)'
  BY <1>2, <1>9, <1>10, <1>11 DEF Here
<1>. QED BY <1>1, <1>8, <1>9, <1>12, WholeIsHereNext

\* y is x with a fragment of that height placed; y is x at its next block.
IsPlaced(x, height, y) ==
  /\ Whole(y) /\ y.available = x.available - height /\ y.regionEmpty = FALSE
  /\ y.pages = (IF x.regionEmpty THEN Append(x.pages, x.page) ELSE x.pages)
  /\ y.doc = x.doc /\ y.index = x.index /\ y.at = x.at /\ y.turning = x.turning
  /\ y.token = x.token /\ y.page = x.page /\ y.outcome = x.outcome
  /\ y.explicitBreakPending = x.explicitBreakPending

IsNextBlock(x, y) ==
  /\ Whole(y) /\ y.index = x.index + 1 /\ y.at = "block" /\ y.token = Start
  /\ y.doc = x.doc /\ y.turning = x.turning /\ y.page = x.page
  /\ y.available = x.available /\ y.regionEmpty = x.regionEmpty
  /\ y.explicitBreakPending = x.explicitBreakPending /\ y.pages = x.pages
  /\ y.outcome = x.outcome

LEMMA PlacedLeads ==
  ASSUME NEW x, Whole(x), NEW height, NEW y, y = Placed(x, height)
  PROVE  IsPlaced(x, height, y)
<1>1. PICK more : more = (IF x.regionEmpty THEN Append(x.pages, x.page) ELSE x.pages)
  OBVIOUS
<1>2. PICK left : left = x.available - height
  OBVIOUS
<1>3. y = [x EXCEPT !.pages = more, !.available = left, !.regionEmpty = FALSE]
  BY <1>1, <1>2, Zenon DEF Placed
<1>4. /\ Whole(y) /\ y.available = left /\ y.regionEmpty = FALSE /\ y.pages = more
      /\ y.doc = x.doc /\ y.index = x.index /\ y.at = x.at /\ y.turning = x.turning
      /\ y.token = x.token /\ y.page = x.page /\ y.outcome = x.outcome
      /\ y.explicitBreakPending = x.explicitBreakPending
  BY <1>3, WholeDomain DEF Whole
<1>. QED BY <1>1, <1>2, <1>4, Zenon DEF IsPlaced

LEMMA NextLeads ==
  ASSUME NEW x, Whole(x), NEW y, y = AtNextBlock(x)
  PROVE  IsNextBlock(x, y)
BY WholeDomain DEF AtNextBlock, IsNextBlock, Whole

LEMMA PlaceLeads ==
  ASSUME Typed, PlaceWhole
  PROVE  Situation' = Onward(Situation)
<1>1. PICK x : x = Situation
  OBVIOUS
<1>2. Whole(x) /\ Here(x)
  BY <1>1, WholeIsHere
<1>3. In(x)!Block(x.index) = Block(index) /\ In(x)!BlockCount = BlockCount
  BY <1>1, <1>2, InSituation DEF Here
<1>4. /\ ~turning /\ outcome = "planning" /\ at = "whole"
      /\ ~(index > BlockCount)
  <2>1. ~turning /\ outcome = "planning" /\ at = "whole"
    BY DEF PlaceWhole, Planning
  <2>. QED BY <2>1, AtWholeFacts, IndexFacts
<1>5. PICK h : h = Height(Block(index), 0, 1)
  OBVIOUS
<1>6. PICK z : z = Placed(x, h)
  OBVIOUS
<1>7. PICK y : y = AtNextBlock(z)
  OBVIOUS
<1>8. y = Onward(x)
  <2>1. at # "block"
    BY <1>4
  <2>. QED BY <1>2, <1>3, <1>4, <1>5, <1>6, <1>7, <2>1, Zenon DEF Onward, Here
<1>9. Whole(z) /\ Whole(y)
  <2>1. Whole(z)
    BY <1>2, <1>6, PlacedLeads, Zenon DEF IsPlaced
  <2>. QED BY <1>7, <2>1, NextLeads, Zenon DEF IsNextBlock
<1>10. /\ available' = available - h /\ regionEmpty' = FALSE /\ page' = page
       /\ pages' = (IF regionEmpty THEN Append(pages, page) ELSE pages)
       /\ index' = index + 1 /\ at' = "block" /\ token' = Start
       /\ UNCHANGED <<doc, turning, explicitBreakPending, outcome>>
  BY <1>5, Zenon DEF PlaceWhole, Place, NextBlock
<1>11. Here(y)'
  <2>1. IsPlaced(x, h, z)
    BY <1>2, <1>6, PlacedLeads, Zenon
  <2>2. IsNextBlock(z, y)
    BY <1>7, <1>9, NextLeads, Zenon
  <2>. QED BY <1>2, <1>10, <2>1, <2>2 DEF Here, IsPlaced, IsNextBlock
<1>. QED BY <1>1, <1>8, <1>9, <1>11, WholeIsHereNext

LEMMA TextLeads ==
  ASSUME Typed, DeferText \/ PlaceText
  PROVE  Situation' = Onward(Situation)
<1>1. PICK x : x = Situation
  OBVIOUS
<1>2. Whole(x) /\ Here(x)
  BY <1>1, WholeIsHere
<1>3. /\ In(x)!Block(x.index) = Block(index) /\ In(x)!BlockCount = BlockCount
      /\ In(x)!Space = Space /\ In(x)!Answer = Answer
  BY <1>1, <1>2, InSituation, TextInSituation DEF Here
<1>4. AtText /\ SpaceIsValid(Space)
  BY Zenon DEF DeferText, PlaceText
<1>5. /\ ~(index > BlockCount) /\ at = "content" /\ ~turning
      /\ outcome = "planning" /\ Block(index).kind = "text"
  BY <1>4, TextIsNeither, Zenon
<1>6. Onward(x) = AfterText(x)
  <2>1. at # "block" /\ at # "whole" /\ Block(index).kind # "box"
    BY <1>5
  <2>. QED BY <1>2, <1>3, <1>5, <2>1, Zenon DEF Onward, Here
<1>7. CASE DeferText
  <2>1. Answer.action = "defer"
    BY <1>7 DEF DeferText
  <2>2. PICK y : y = [x EXCEPT !.turning = TRUE]
    OBVIOUS
  <2>3. y = Onward(x)
    BY <1>3, <1>4, <1>6, <2>1, <2>2, Zenon DEF AfterText
  <2>4. /\ Whole(y) /\ y.turning = TRUE /\ y.at = x.at
        /\ y.explicitBreakPending = x.explicitBreakPending
        /\ y.index = x.index /\ y.token = x.token /\ y.page = x.page
        /\ y.available = x.available /\ y.regionEmpty = x.regionEmpty
        /\ y.doc = x.doc /\ y.pages = x.pages /\ y.outcome = x.outcome
    BY <1>2, <2>2, WholeDomain DEF Whole
  <2>5. /\ turning' = TRUE
        /\ UNCHANGED <<doc, index, at, token, page, available, regionEmpty, explicitBreakPending, pages, outcome>>
    BY <1>7, Zenon DEF DeferText, TurnFor, cursor, region, plan
  <2>6. Here(y)'
    BY <1>2, <2>4, <2>5 DEF Here
  <2>. QED BY <1>1, <2>3, <2>4, <2>6, WholeIsHereNext
<1>8. CASE PlaceText
  <2>1. Answer.action = "place" /\ Answer.action # "defer"
    BY <1>8 DEF PlaceText
  <2>2. PICK h : h = Height(Block(index), token.next, Answer.count)
    OBVIOUS
  <2>3. PICK z : z = Placed(x, h)
    OBVIOUS
  <2>4. IsPlaced(x, h, z) /\ Whole(z)
    <3>1. IsPlaced(x, h, z)
      BY <1>2, <2>3, PlacedLeads, Zenon
    <3>. QED BY <3>1, Zenon DEF IsPlaced
  <2>5. h = Height(In(x)!Block(x.index), x.token.next, In(x)!Answer.count)
    BY <1>2, <1>3, <2>2, Zenon DEF Here
  <2>6. /\ available' = available - h /\ regionEmpty' = FALSE /\ page' = page
        /\ pages' = (IF regionEmpty THEN Append(pages, page) ELSE pages)
        /\ UNCHANGED <<doc, explicitBreakPending, outcome>>
    <3>1. /\ Place(token.next, Answer.count, Answer.relaxedOrphans, Answer.relaxedWidows)
          /\ UNCHANGED <<doc, explicitBreakPending, outcome>>
      BY <1>8, Zenon DEF PlaceText
    <3>. QED BY <2>2, <3>1, Zenon DEF Place
  <2>7. CASE Answer.done
    <3>1. PICK y : y = AtNextBlock(z)
      OBVIOUS
    <3>2. y = Onward(x)
      BY <1>3, <1>4, <1>6, <2>1, <2>3, <2>5, <2>7, <3>1, Zenon DEF AfterText
    <3>3. index' = index + 1 /\ at' = "block" /\ token' = Start /\ turning' = turning
      BY <1>8, <2>7, Zenon DEF PlaceText, NextBlock
    <3>4. IsNextBlock(z, y) /\ Whole(y)
      BY <2>4, <3>1, NextLeads, Zenon DEF IsNextBlock
    <3>5. Here(y)'
      BY <1>2, <2>4, <2>6, <3>3, <3>4 DEF Here, IsPlaced, IsNextBlock
    <3>. QED BY <1>1, <3>2, <3>4, <3>5, WholeIsHereNext
  <2>8. CASE ~Answer.done
    <3>1. PICK rest : rest = Answer.next
      OBVIOUS
    <3>2. PICK y : y = [z EXCEPT !.token = rest, !.turning = TRUE]
      OBVIOUS
    <3>3. y = Onward(x)
      BY <1>3, <1>4, <1>6, <2>1, <2>3, <2>5, <2>8, <3>1, <3>2, Zenon DEF AfterText
    <3>4. index' = index /\ at' = at /\ token' = rest /\ turning' = TRUE
      BY <1>8, <2>8, <3>1, Zenon DEF PlaceText
    <3>5. /\ Whole(y) /\ y.turning = TRUE /\ y.token = rest /\ y.at = z.at
          /\ y.explicitBreakPending = z.explicitBreakPending
          /\ y.index = z.index /\ y.page = z.page
          /\ y.available = z.available /\ y.regionEmpty = z.regionEmpty
          /\ y.doc = z.doc /\ y.pages = z.pages /\ y.outcome = z.outcome
      BY <2>4, <3>2, WholeDomain DEF Whole
    <3>6. Here(y)'
      BY <1>2, <2>4, <2>6, <3>4, <3>5 DEF Here, IsPlaced
    <3>. QED BY <1>1, <3>3, <3>5, <3>6, WholeIsHereNext
  <2>. QED BY <2>7, <2>8
<1>. QED BY <1>7, <1>8

(* A step of a pagination leads its situation on, or leaves it.            *)
LEMMA NextLeadsOn ==
  ASSUME Typed, [Next]_vars
  PROVE  Situation' = Situation \/ Situation' = Onward(Situation)
<1>1. CASE AdvanceBodyPage
  BY <1>1, AdvanceLeads
<1>2. CASE NoteExplicitBreak \/ TakeExplicitBreak \/ CheckKeep
  BY <1>2, BreakLeads, TakenBreakLeads, CheckLeads
<1>3. CASE ExceedPageLimit \/ RejectTallBlock \/ RejectSpace \/ Finish
  BY <1>3, FailuresLead
<1>4. CASE FitWhole \/ PlaceWhole
  BY <1>4, FitLeads, PlaceLeads
<1>5. CASE DeferText \/ PlaceText
  BY <1>5, TextLeads
<1>6. CASE UNCHANGED vars
  <2>1. /\ UNCHANGED <<doc, index, at, token, turning, page, available, regionEmpty>>
        /\ UNCHANGED <<explicitBreakPending, pages, outcome>>
    BY <1>6 DEF vars, cursor, region, plan
  <2>. QED BY <2>1 DEF Situation
<1>. QED BY <1>1, <1>2, <1>3, <1>4, <1>5, <1>6, Zenon DEF Next, Stopped

(* A finished pagination has nowhere to go.                                *)
LEMMA PlannedStays ==
  ASSUME outcome = "planned", ~turning
  PROVE  Onward(Situation) = Situation
<1>1. PICK x : x = Situation
  OBVIOUS
<1>2. Here(x)
  BY <1>1, WholeIsHere
<1>3. ~x.turning /\ x.outcome # "planning"
  BY <1>2 DEF Here
<1>4. Onward(x) = x
  BY <1>3, Zenon DEF Onward
<1>. QED BY <1>1, <1>4

LEMMA PlannedIsSettled ==
  ASSUME outcome = "planned" => ~turning, [Next]_vars
  PROVE  (outcome = "planned" => ~turning)'
<1> SUFFICES ASSUME outcome' = "planned" PROVE ~turning'
  OBVIOUS
<1>1. CASE outcome = "planned"
  <2>1. ~turning /\ outcome # "planning"
    BY <1>1
  <2>2. ~(NoteExplicitBreak \/ TakeExplicitBreak \/ CheckKeep)
    BY <2>1, Zenon DEF NoteExplicitBreak, TakeExplicitBreak, CheckKeep, AtBlock, Planning
  <2>3. ~(ExceedPageLimit \/ RejectTallBlock \/ RejectSpace \/ Finish \/ AdvanceBodyPage)
    BY <2>1, Zenon DEF ExceedPageLimit, RejectTallBlock, RejectSpace, Finish, AdvanceBodyPage,
                       AtWhole, AtText, Planning
  <2>4. ~(FitWhole \/ PlaceWhole \/ DeferText \/ PlaceText)
    BY <2>1, Zenon DEF FitWhole, PlaceWhole, DeferText, PlaceText, AtWhole, AtText, Planning
  <2>5. UNCHANGED vars
    BY <2>2, <2>3, <2>4, Zenon DEF Next, Stopped
  <2>. QED BY <2>1, <2>5 DEF vars
<1>2. CASE outcome # "planned"
  <2>1. ~(UNCHANGED vars)
    BY <1>2 DEF vars
  <2>2. ~(AdvanceBodyPage \/ NoteExplicitBreak \/ TakeExplicitBreak \/ CheckKeep)
    BY <1>2, Zenon DEF AdvanceBodyPage, NoteExplicitBreak, TakeExplicitBreak, CheckKeep
  <2>3. ~(FitWhole \/ PlaceWhole \/ DeferText \/ PlaceText)
    BY <1>2, Zenon DEF FitWhole, PlaceWhole, DeferText, PlaceText
  <2>4. "page limit" # "planned" /\ "too tall" # "planned" /\ "no space" # "planned"
    OBVIOUS
  <2>5. ~(ExceedPageLimit \/ RejectTallBlock \/ RejectSpace)
    BY <2>4 DEF ExceedPageLimit, RejectTallBlock, RejectSpace, Fail
  <2>6. Finish
    BY <2>1, <2>2, <2>3, <2>5, Zenon DEF Next, Stopped
  <2>. QED BY <2>6, Zenon DEF Finish, Planning, Fail
<1>. QED BY <1>1, <1>2

(* The situation in which every pagination of a document begins.           *)
Beginning(d) ==
  [doc |-> d, index |-> 1, at |-> "block", turning |-> FALSE, token |-> Start,
   page |-> 1, available |-> d.bodies.first, regionEmpty |-> TRUE,
   explicitBreakPending |-> FALSE, pages |-> <<>>, outcome |-> "planning"]

Steady == \A t \in 1 .. MaxTotal : shells[t] = shells[1]

\* The document ends in a situation of so many pages.
EndsWith(d, total) ==
  \E t : Leads(Beginning(d), t) /\ Onward(t) = t /\ Len(t.pages) = total

(* Where the shells are the same for every total, the second pagination    *)
(* begins where the first one did and cannot end elsewhere.                *)
Settling ==
  /\ outcome = "planned" => ~turning
  /\ Leads(Beginning(doc), Situation)
  /\ Steady => /\ status # "unstable"
               /\ correction = 1 \/ (correction = 2 /\ EndsWith(doc, totalGuess))

LEMMA SteadyBodies ==
  ASSUME shells \in Shells, Steady, NEW total \in Nat \ {0}
  PROVE  BodiesFor(total) = shells[1]
<1>1. MaxTotal \in Nat \ {0}
  BY ShellsAssumption
<1>2. Min({total, MaxTotal}) \in {total, MaxTotal} /\ Min({total, MaxTotal}) <= MaxTotal
  <2> DEFINE S == {total, MaxTotal}
  <2>1. \E x \in S : \A y \in S : x =< y
    BY <1>1
  <2>2. Min(S) \in S /\ \A y \in S : Min(S) =< y
    <3> HIDE DEF S
    <3>. QED BY <2>1, Zenon DEF Min
  <2>. QED BY <2>2
<1>3. Min({total, MaxTotal}) \in 1 .. MaxTotal
  BY <1>1, <1>2
<1>. QED BY <1>3, Zenon DEF Steady, BodiesFor

LEMMA SameBodies ==
  ASSUME NEW d, IsDocument(d), NEW bodies, bodies = d.bodies
  PROVE  [d EXCEPT !.bodies = bodies] = d
BY DEF IsDocument

LEMMA BeginsAfresh ==
  ASSUME Totalled, BodyInv, Correct
  PROVE  Situation' = Beginning(doc)'
BY Zenon DEF Correct, Replan, Situation, Beginning

(* A steady document that disagrees with its total has been planned once.  *)
LEMMA DisagreesOnce ==
  ASSUME PagedInv, Settling, Steady, Disagrees
  PROVE  correction = 1
<1> SUFFICES ASSUME correction = 2, EndsWith(doc, totalGuess) PROVE FALSE
  BY DEF Settling
<1>1. PICK t : Leads(Beginning(doc), t) /\ Onward(t) = t /\ Len(t.pages) = totalGuess
  BY DEF EndsWith
<1>2. Onward(Situation) = Situation
  BY PlannedStays DEF Settling, Disagrees, Planned
<1>3. t = Situation
  BY <1>1, <1>2, OneEnd, Zenon DEF Settling
<1>4. Here(t)
  BY <1>3, WholeIsHere
<1>. QED BY <1>1, <1>4 DEF Here, Disagrees

LEMMA SettlingBegins == PagedInit => Settling
<1> SUFFICES ASSUME PagedInit PROVE Settling
  OBVIOUS
<1>1. Situation = Beginning(doc)
  BY Zenon DEF PagedInit, Init, Situation, Beginning
<1>2. Leads(Beginning(doc), Situation)
  BY <1>1, LeadsHere, Zenon
<1>3. outcome = "planning" /\ correction = 1 /\ status = "planning"
  BY Zenon DEF PagedInit, Init
<1>. QED BY <1>2, <1>3 DEF Settling

LEMMA SettlingCorrects ==
  ASSUME PagedInv, Settling, Correct
  PROVE  Settling'
<1>1. Situation' = Beginning(doc)'
  BY BeginsAfresh DEF PagedInv
<1>2. Leads(Beginning(doc), Situation)'
  BY <1>1, LeadsHere, Zenon
<1>3. /\ outcome' = "planning" /\ status' = status /\ shells' = shells
      /\ totalGuess' = Len(pages) /\ correction' = correction + 1 /\ Disagrees
      /\ doc' = [doc EXCEPT !.bodies = BodiesFor(Len(pages))]
  BY Zenon DEF Correct, Replan
<1>4. ASSUME Steady
      PROVE  status' # "unstable" /\ correction' = 2 /\ EndsWith(doc, totalGuess)'
  <2>1. correction = 1 /\ status # "unstable"
    BY <1>3, <1>4, DisagreesOnce DEF Settling
  <2>2. Len(pages) \in Nat \ {0}
    BY <1>3 DEF PagedInv, BodyInv, Turned, TurnsRecorded, Disagrees
  <2>3. BodiesFor(Len(pages)) = doc.bodies
    BY <1>4, <2>2, SteadyBodies DEF PagedInv, Totalled
  <2>4. doc' = doc
    BY <1>3, <2>3, SameBodies DEF PagedInv, BodyInv, Typed
  <2>5. PICK t : t = Situation
    OBVIOUS
  <2>6. Leads(Beginning(doc), t)
    BY <2>5, Zenon DEF Settling
  <2>7. Onward(t) = t
    BY <1>3, <2>5, PlannedStays DEF Settling, Disagrees, Planned
  <2>8. Len(t.pages) = Len(pages)
    BY <2>5, WholeIsHere DEF Here
  <2>9. EndsWith(doc', totalGuess')
    BY <1>3, <2>4, <2>6, <2>7, <2>8, Zenon DEF EndsWith
  <2>. QED BY <1>3, <2>1, <2>9
<1>5. Steady' <=> Steady
  BY <1>3 DEF Steady
<1>. QED BY <1>2, <1>3, <1>4, <1>5 DEF Settling

LEMMA SettlingStays ==
  ASSUME PagedInv, Settling, [PagedNext]_<<vars, counters>>
  PROVE  Settling'
<1>1. CASE Correct
  BY <1>1, SettlingCorrects
<1>2. CASE ~Correct
  <2>1. [Next]_vars
    BY <1>2, PagedSteps DEF PagedInv
  <2>2. doc' = doc
    BY <2>1, DocumentStays
  <2>3. shells' = shells /\ totalGuess' = totalGuess /\ correction' = correction
    BY <1>2, Zenon DEF PagedNext, PlanBody, FailDocument, Compose, GiveUp, Abandon, Conclude, AtRest, counters
  <2>4. Leads(Beginning(doc), Situation)'
    <3>1. Situation' = Situation \/ Situation' = Onward(Situation)
      BY <2>1, NextLeadsOn DEF PagedInv, BodyInv
    <3>2. PICK x, y : x = Beginning(doc) /\ y = Situation
      OBVIOUS
    <3>3. Leads(x, y)
      BY <3>2, Zenon DEF Settling
    <3>4. Leads(x, Situation')
      BY <3>1, <3>2, <3>3, LeadsOn
    <3>. QED BY <2>2, <3>2, <3>4
  <2>5. (outcome = "planned" => ~turning)'
    BY <2>1, PlannedIsSettled DEF Settling
  <2>6. Steady => status' # "unstable"
    <3> SUFFICES ASSUME Steady PROVE status' # "unstable"
      OBVIOUS
    <3>1. ~GiveUp
      <4> SUFFICES ASSUME GiveUp PROVE FALSE
        OBVIOUS
      <4>1. correction = 1 /\ correction = CorrectionLimit
        BY DisagreesOnce DEF GiveUp
      <4>. QED BY <4>1, ShellsAssumption
    <3>2. status # "unstable"
      BY DEF Settling
    <3>3. CASE FailDocument \/ Compose \/ Abandon
      BY <3>3 DEF FailDocument, Compose, Abandon, Conclude
    <3>4. CASE PlanBody \/ AtRest \/ UNCHANGED <<vars, counters>>
      <4>1. status' = status
        BY <3>4 DEF PlanBody, AtRest, counters
      <4>. QED BY <3>2, <4>1
    <3>. QED BY <1>2, <3>1, <3>3, <3>4 DEF PagedNext
  <2>7. (Steady' <=> Steady) /\ (EndsWith(doc, totalGuess)' <=> EndsWith(doc, totalGuess))
    BY <2>2, <2>3 DEF Steady, EndsWith
  <2>. QED BY <2>3, <2>4, <2>5, <2>6, <2>7 DEF Settling
<1>. QED BY <1>1, <1>2

(* The total that a document prints is its own, and a document whose       *)
(* headers and footers leave the same bodies whatever the total is never   *)
(* refused as unstable and planned at most twice (typed_page_template.go,  *)
(* the loop over totalGuess and errTypedPageCounterUnstable).              *)
THEOREM TotalsSettle == PagedSpec => []TotalsAgree
<1>1. PagedInv /\ Settling /\ [PagedNext]_<<vars, counters>> => Settling'
  BY SettlingStays
<1>2. Settling => UnstableOnlyByItsTotal
  BY DEF Settling, Steady, UnstableOnlyByItsTotal
<1>3. ComposedTotalsAgree /\ UnstableOnlyByItsTotal => TotalsAgree
  BY DEF TotalsAgree
<1>. QED BY <1>1, <1>2, <1>3, SettlingBegins, PagedStays, ComposedTotals, PTL DEF PagedSpec
=============================================================================

------------------------------ MODULE Paragraph ------------------------------
(***************************************************************************)
(* The resumable fragmenter of one paragraph                               *)
(* (internal/layoutengine/paragraph.go).  A paragraph arrives broken into  *)
(* lines; one call answers how many of the lines that are left go into the *)
(* space that is left, or asks for the next region.  It prefers to leave   *)
(* `orphans` lines before a break and `widows` lines after it, and relaxes *)
(* that, with a report, only where a whole empty region cannot honour it.  *)
(*                                                                         *)
(* A paragraph is a record with its number of `lines`, its `orphans`, its  *)
(* `widows` and `bottom`, where bottom[k] is the height of the first k     *)
(* lines.  A space is the height `available`, whether the region is        *)
(* `empty`, and the height of the `following` region.  A token is the      *)
(* `next` line to place and the `leading` lines promised to this region.   *)
(* Preferred mode only: the strict mode has no caller.                     *)
(***************************************************************************)
EXTENDS Integers, FiniteSetsExt

Height(p, first, count) == p.bottom[first + count] - p.bottom[first]

Start == [next |-> 0, leading |-> 0]

Rest(p, token) == p.lines - token.next

SpaceIsValid(space) == space.available >= 0 /\ space.following > 0

FittingPrefix(p, space, token) ==
  Max({c \in 0 .. Rest(p, token) : Height(p, token.next, c) <= space.available})

(* After `count` lines, `widows` lines are left and fit the next region. *)
WidowsFollow(p, space, token, count) ==
  /\ Rest(p, token) - count >= p.widows
  /\ Height(p, token.next + count, p.widows) <= space.following

LegalSplits(p, space, token) ==
  {c \in 1 .. FittingPrefix(p, space, token) :
     c >= p.orphans /\ c >= token.leading /\ WidowsFollow(p, space, token, c)}

SplitsPreservingWidows(p, space, token) ==
  {c \in 1 .. FittingPrefix(p, space, token) : WidowsFollow(p, space, token, c)}

-----------------------------------------------------------------------------
(* The answers.  `preserve` says whether the next region is promised its   *)
(* widows, `reason` why a page ends after these lines if lines are left: a *)
(* "constraint" break leaves lines behind that would have fitted.          *)

(* Mutant: the continuation counts from this fragment, not from the start. *)
ContinueFromFragment(p, token, count, reason, preserve, relaxedOrphans, relaxedWidows) ==
  [action |-> "place", count |-> count, height |-> Height(p, token.next, count),
   done |-> count = Rest(p, token), reason |-> reason,
   next |-> [next |-> count, leading |-> IF preserve THEN p.widows ELSE 1],
   relaxedOrphans |-> relaxedOrphans, relaxedWidows |-> relaxedWidows]

(* Mutant: the widows that were kept back are not asked for afterwards.    *)
ForgetWidows(p, token, count, reason, preserve, relaxedOrphans, relaxedWidows) ==
  [action |-> "place", count |-> count, height |-> Height(p, token.next, count),
   done |-> count = Rest(p, token), reason |-> reason,
   next |-> [next |-> token.next + count, leading |-> 1],
   relaxedOrphans |-> relaxedOrphans, relaxedWidows |-> relaxedWidows]

PlacedResult(p, token, count, reason, preserve, relaxedOrphans, relaxedWidows) ==
  [action |-> "place", count |-> count, height |-> Height(p, token.next, count),
   done |-> count = Rest(p, token), reason |-> reason,
   next |-> [next |-> token.next + count, leading |-> IF preserve THEN p.widows ELSE 1],
   relaxedOrphans |-> relaxedOrphans, relaxedWidows |-> relaxedWidows]

Deferred == [action |-> "defer"]

OversizedLine(p, space, token) ==
  LET more == Rest(p, token) > 1
      preserve == more => WidowsFollow(p, space, token, 1)
  IN PlacedResult(p, token, 1, "overflow", preserve,
                  more /\ p.orphans > 1,
                  more /\ (token.leading > 1 \/ ~preserve))

WholeRest(p, token) == PlacedResult(p, token, Rest(p, token), "space", TRUE, FALSE, FALSE)

SplitReason(p, space, token, count) ==
  IF count < FittingPrefix(p, space, token) THEN "constraint" ELSE "space"

LegalSplit(p, space, token) ==
  LET count == Max(LegalSplits(p, space, token))
  IN PlacedResult(p, token, count, SplitReason(p, space, token, count), TRUE, FALSE, FALSE)

RelaxedSplit(p, space, token) ==
  LET splits == SplitsPreservingWidows(p, space, token)
      count == IF splits = {} THEN FittingPrefix(p, space, token) ELSE Max(splits)
  IN PlacedResult(p, token, count, SplitReason(p, space, token, count), splits # {},
                  count < p.orphans,
                  splits = {} \/ count < token.leading)

FragmentContext(p, space, token) ==
  LET fit == FittingPrefix(p, space, token)
      legal == LegalSplits(p, space, token)
  IN CASE fit = 0 /\ space.empty -> OversizedLine(p, space, token)
       [] fit > 0 /\ fit = Rest(p, token) -> WholeRest(p, token)
       [] fit > 0 /\ fit < Rest(p, token) /\ legal # {} -> LegalSplit(p, space, token)
       [] fit > 0 /\ fit < Rest(p, token) /\ legal = {} /\ space.empty
            -> RelaxedSplit(p, space, token)
       [] OTHER -> Deferred
=============================================================================

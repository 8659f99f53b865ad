------------------------------- MODULE Journal -------------------------------
(***************************************************************************)
(* The working-copy journal of internal/paperedit/journal.go.  One mutex   *)
(* serialises every operation, so an operation is one action.  The journal *)
(* keeps the head source, an undo list (oldest entry first) and a redo     *)
(* list (oldest undone entry first, so that the next entry to redo is the  *)
(* last one); a commit drops old entries to stay inside the limits and     *)
(* clears the redo list.                                                   *)
(*                                                                         *)
(* A member of Sources stands for a source text together with its SHA-256  *)
(* revision, which is taken to be collision free: comparing two revisions  *)
(* is comparing two members of Sources.  Text is kept only through its     *)
(* length, because the limits count bytes.                                 *)
(***************************************************************************)
EXTENDS Integers, Sequences, SequencesExt

CONSTANTS
  Sources,         \* the source texts a working copy can hold
  Groups,          \* edit labels, NoGroup included
  NoGroup,         \* the empty label
  Size,            \* Size[s]: the bytes of source s
  GroupBytes,      \* GroupBytes[g]: the bytes of label g
  DiffBytes,       \* DiffBytes[s][t]: bytes removed and added by the minimal diff
  SemanticDiffs,   \* patch bytes a semantic transaction may report
  FileBytes,       \* the bytes of the file name
  MaxSourceBytes,  \* MaxSourceBytes of the editor
  MaxEntries,      \* JournalLimits.MaxEntries
  MaxBytes,        \* JournalLimits.MaxBytes
  MaxSequence      \* bound of the model: commits considered

ASSUME JournalConstants ==
  /\ NoGroup \in Groups
  /\ Size \in [Sources -> Nat]
  /\ GroupBytes \in [Groups -> Nat]
  /\ DiffBytes \in [Sources -> [Sources -> Nat]]
  /\ SemanticDiffs \subseteq Nat
  /\ FileBytes \in Nat /\ MaxSourceBytes \in Nat /\ MaxBytes \in Nat
  /\ MaxEntries \in Nat \ {0}
  /\ MaxSequence \in Nat

VARIABLES
  source,    \* the head; its revision is what a caller has to prove
  sequence,  \* commits so far
  undo,      \* transitions behind the head, oldest first
  redo       \* transitions undone, the next one to redo last

vars == <<source, sequence, undo, redo>>

Kinds == {"semantic_edit", "source_edit", "external_reload"}

Entry == [seq : Nat \ {0}, kind : Kinds, group : Groups,
          before : Sources, after : Sources, diff : Nat]

TypeOK ==
  /\ source \in Sources
  /\ sequence \in Nat
  /\ undo \in Seq(Entry)
  /\ redo \in Seq(Entry)
-----------------------------------------------------------------------------
EntryBytes(e) == GroupBytes[e.group] + Size[e.before] + Size[e.after] + e.diff

JournalBytes(head, entries) ==
  FoldSeq(LAMBDA e, bytes : EntryBytes(e) + bytes, Size[head], entries)

Newest(list) == list[Len(list)]

(* Mutant: the newest entries are dropped instead of the oldest.           *)
DropNewest(list, k) == SubSeq(list, 1, Len(list) - k)

DropOldest(list, k) == SubSeq(list, k + 1, Len(list))

(* Mutant: the bytes of the head are left out of the limit.                *)
FitsWithoutHead(head, list, k) ==
  /\ Len(list) - k <= MaxEntries
  /\ FileBytes + JournalBytes(head, DropOldest(list, k)) - Size[head] <= MaxBytes

(***************************************************************************)
(* The limits of a commit.  Both trimming loops drop the oldest entry      *)
(* until the count fits and then until the bytes fit, never the last one;  *)
(* so the commit keeps the longest suffix that fits, or is refused.        *)
(***************************************************************************)
Fits(head, list, k) ==
  /\ Len(list) - k <= MaxEntries
  /\ FileBytes + JournalBytes(head, DropOldest(list, k)) <= MaxBytes

LeastDrop(head, list, k) ==
  /\ Fits(head, list, k)
  /\ \A j \in 0 .. (k - 1) : ~Fits(head, list, j)

Coalesces(e) ==
  /\ e.kind = "source_edit" /\ e.group # NoGroup
  /\ Len(undo) > 0
  /\ Newest(undo).kind = "source_edit"
  /\ Newest(undo).group = e.group
  /\ Newest(undo).after = e.before

(* Mutant: a coalesced entry keeps its number but is appended as a new one. *)
ExtendedStaleNumber(e, coalesce) ==
  Append(undo, [e EXCEPT !.seq = IF coalesce /\ Coalesces(e) THEN Newest(undo).seq ELSE @])

Extended(e, coalesce) ==
  IF coalesce /\ Coalesces(e)
  THEN [undo EXCEPT ![Len(undo)] =
          [seq |-> e.seq, kind |-> e.kind, group |-> e.group,
           before |-> Newest(undo).before, after |-> e.after,
           diff |-> DiffBytes[Newest(undo).before][e.after]]]
  ELSE Append(undo, e)

(* Mutant: a commit leaves the undone entries in place.                    *)
CommitKeepingRedo(e, coalesce) ==
  LET list == Extended(e, coalesce)
  IN  \E k \in 0 .. (Len(list) - 1) :
        /\ LeastDrop(e.after, list, k)
        /\ undo' = DropOldest(list, k)
        /\ source' = e.after
        /\ sequence' = sequence + 1
        /\ UNCHANGED redo

Commit(e, coalesce) ==
  LET list == Extended(e, coalesce)
  IN  \E k \in 0 .. (Len(list) - 1) :
        /\ LeastDrop(e.after, list, k)
        /\ undo' = DropOldest(list, k)
        /\ redo' = <<>>
        /\ source' = e.after
        /\ sequence' = sequence + 1

NewEntry(kind, group, after, diff) ==
  [seq |-> sequence + 1, kind |-> kind, group |-> group,
   before |-> source, after |-> after, diff |-> diff]
-----------------------------------------------------------------------------
Init ==
  /\ source \in {s \in Sources : Size[s] <= MaxSourceBytes /\ FileBytes + Size[s] <= MaxBytes}
  /\ sequence = 0
  /\ undo = <<>>
  /\ redo = <<>>

(* A semantic edit may reproduce the text it started from: unlike a source *)
(* edit it is still recorded.                                              *)
ApplySemantic(expected, group, after, diff) ==
  /\ sequence < MaxSequence
  /\ expected = source
  /\ Size[after] <= MaxSourceBytes
  /\ Commit(NewEntry("semantic_edit", group, after, diff), FALSE)

ApplySourceLocked(expected, group, after, kind, coalesce) ==
  /\ sequence < MaxSequence
  /\ expected = source
  /\ Size[after] <= MaxSourceBytes
  /\ after # source
  /\ Commit(NewEntry(kind, group, after, DiffBytes[source][after]), coalesce)

ApplySource(expected, group, after) ==
  ApplySourceLocked(expected, group, after, "source_edit", TRUE)

ReloadExternal(expected, after) ==
  ApplySourceLocked(expected, NoGroup, after, "external_reload", FALSE)

(* Mutant: an undo moves the entry but not the head.                       *)
UndoKeepingHead(expected) ==
  /\ expected = source
  /\ Len(undo) > 0
  /\ Newest(undo).after = source
  /\ undo' = Front(undo)
  /\ redo' = Append(redo, Newest(undo))
  /\ UNCHANGED <<source, sequence>>

Undo(expected) ==
  /\ expected = source
  /\ Len(undo) > 0
  /\ Newest(undo).after = source
  /\ undo' = Front(undo)
  /\ redo' = Append(redo, Newest(undo))
  /\ source' = Newest(undo).before
  /\ UNCHANGED sequence

Redo(expected) ==
  /\ expected = source
  /\ Len(redo) > 0
  /\ Newest(redo).before = source
  /\ redo' = Front(redo)
  /\ undo' = Append(undo, Newest(redo))
  /\ source' = Newest(redo).after
  /\ UNCHANGED sequence

Next ==
  \E expected \in Sources :
    \/ \E group \in Groups, after \in Sources, diff \in SemanticDiffs :
         ApplySemantic(expected, group, after, diff)
    \/ \E group \in Groups, after \in Sources : ApplySource(expected, group, after)
    \/ \E after \in Sources : ReloadExternal(expected, after)
    \/ Undo(expected)
    \/ Redo(expected)

Spec == Init /\ [][Next]_vars
-----------------------------------------------------------------------------
(***************************************************************************)
(* RestoreJournal applied to ExportState(): the checks a persisted copy of *)
(* the present state has to pass.                                          *)
(***************************************************************************)
RestoreAdmits ==
  /\ Size[source] <= MaxSourceBytes /\ FileBytes + Size[source] <= MaxBytes
  /\ \A list \in {undo, redo} : \A i \in DOMAIN list :
       /\ list[i].seq <= sequence
       /\ Size[list[i].before] <= MaxSourceBytes /\ Size[list[i].after] <= MaxSourceBytes
  /\ Len(undo) > 0 => Newest(undo).after = source
  /\ Len(redo) > 0 => Newest(redo).before = source
  /\ \A i \in 2 .. Len(undo) : undo[i - 1].after = undo[i].before
  /\ \A i \in 2 .. Len(redo) : redo[i].after = redo[i - 1].before
  /\ Len(undo) <= MaxEntries /\ Len(redo) <= MaxEntries
  /\ FileBytes + JournalBytes(source, undo \o redo) <= MaxBytes
-----------------------------------------------------------------------------
(* The undo list, the head and the redo list are one line of sources: each *)
(* retained transition starts where its neighbour ends, so neither a run   *)
(* of undos and redos nor coalescing and trimming ever makes the checks of *)
(* Undo and Redo on the entry's own revision fail.                         *)
HistoryIsOneLine ==
  /\ Len(undo) > 0 => undo[Len(undo)].after = source
  /\ Len(redo) > 0 => redo[Len(redo)].before = source
  /\ \A i \in 2 .. Len(undo) : undo[i - 1].after = undo[i].before
  /\ \A i \in 2 .. Len(redo) : redo[i].after = redo[i - 1].before

(* Along that line the sequence numbers increase strictly, through the     *)
(* head into the redo list, and none is ahead of the journal's own: an     *)
(* undone and redone entry keeps its number, a coalesced one takes the     *)
(* newest.                                                                 *)
SequencesIncrease ==
  /\ \A i \in 2 .. Len(undo) : undo[i - 1].seq < undo[i].seq
  /\ \A i \in 2 .. Len(redo) : redo[i].seq < redo[i - 1].seq
  /\ Len(undo) > 0 /\ Len(redo) > 0 => undo[Len(undo)].seq < redo[Len(redo)].seq
  /\ \A i \in 1 .. Len(undo) : undo[i].seq <= sequence
  /\ \A i \in 1 .. Len(redo) : redo[i].seq <= sequence

(* The entry limit holds for both lists together, although only a commit   *)
(* trims and it looks at the undo list alone.                              *)
EntriesBounded == Len(undo) + Len(redo) <= MaxEntries

(* Whenever nothing is left to redo, the exported state passes every check *)
(* of RestoreJournal, whatever undos and redos came before.                *)
NewestRestorable == redo = <<>> => RestoreAdmits
=============================================================================

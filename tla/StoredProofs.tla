---------------------------- MODULE StoredProofs ----------------------------
(***************************************************************************)
(* Proofs about what Studio stores beside a source: its journal, and the   *)
(* resource catalog and the reviews.                                       *)
(*                                                                         *)
(* Of Journal, for every set of sources, every label, every size and every *)
(* limit: its invariants, that a persisted copy can be restored, and that  *)
(* it keeps the linear history its users are promised.                     *)
(*                                                                         *)
(* Of ReviewSidecar, and with it ResourceCatalog, for every set of         *)
(* requests, files, manifests and sources: nothing that was acknowledged   *)
(* is lost, and what Studio has written is complete.  Both rest on the     *)
(* locks.  A request that changes the manifest goes through seven phases   *)
(* under editMu, one that changes the sidecar through five under reviewMu; *)
(* the invariants say what each carries with it.                           *)
(***************************************************************************)
EXTENDS JournalHistory, ReviewSidecar, FiniteSetTheorems, SequenceTheorems, TLAPS

(* The shape of the three steps: a commit appends one entry or rewrites    *)
(* the newest one, and then keeps a non-empty suffix.                      *)
LEMMA DropOldestShape ==
  ASSUME NEW S, NEW list \in Seq(S), NEW k \in 0 .. (Len(list) - 1)
  PROVE  /\ DropOldest(list, k) \in Seq(S)
         /\ Len(DropOldest(list, k)) = Len(list) - k
         /\ \A i \in 1 .. (Len(list) - k) : DropOldest(list, k)[i] = list[k + i]
BY DEF DropOldest

LEMMA FrontShape ==
  ASSUME NEW S, NEW list \in Seq(S), Len(list) > 0
  PROVE  /\ Front(list) \in Seq(S)
         /\ Len(Front(list)) = Len(list) - 1
         /\ \A i \in 1 .. (Len(list) - 1) : Front(list)[i] = list[i]
<1> DEFINE n == Len(list) - 1
           front == SubSeq(list, 1, n)
<1>1. n \in Nat /\ \A i \in 1 .. n : list[i] \in S
  BY ElementOfSeq
<1>2. /\ front \in Seq(S)
      /\ Len(front) = IF 1 <= n THEN n - 1 + 1 ELSE 0
      /\ \A i \in 1 .. (n - 1 + 1) : front[i] = list[1 + i - 1]
  BY <1>1, SubSeqProperties
<1>3. Front(list) = front
  BY DEF Front
<1> HIDE DEF front, n
<1>4. /\ front \in Seq(S) /\ Len(front) = n
      /\ \A i \in 1 .. n : front[i] = list[i]
  BY <1>1, <1>2
<1> QED BY <1>3, <1>4 DEF n

LEMMA NewestShape ==
  ASSUME NEW S, NEW list \in Seq(S), Len(list) > 0
  PROVE  Newest(list) \in S
BY DEF Newest

LEMMA EntriesTyped ==
  ASSUME NEW list \in Seq(Entry), NEW i \in 1 .. Len(list)
  PROVE  /\ list[i] \in Entry
         /\ list[i].seq \in Nat /\ list[i].before \in Sources /\ list[i].after \in Sources
<1>1. list[i] \in Entry
  BY ElementOfSeq
<1> QED BY <1>1 DEF Entry

LEMMA ExtendedShape ==
  ASSUME TypeOK, NEW e \in Entry, NEW coalesce \in BOOLEAN
  PROVE  LET list == Extended(e, coalesce) IN
         /\ list \in Seq(Entry)
         /\ Len(list) > 0 /\ Len(list) \in {Len(undo), Len(undo) + 1}
         /\ \A i \in 1 .. (Len(list) - 1) : list[i] = undo[i]
         /\ Newest(list).after = e.after /\ Newest(list).seq = e.seq
         /\ Len(list) = Len(undo) + 1 => Newest(list).before = e.before
         /\ Len(list) = Len(undo) =>
              Len(undo) > 0 /\ Newest(list).before = undo[Len(undo)].before
<1>1. CASE coalesce /\ Coalesces(e)
  <2>1. Len(undo) > 0 /\ Newest(undo) \in Entry
    BY <1>1, NewestShape DEF Coalesces, TypeOK
  <2>2. DiffBytes[Newest(undo).before][e.after] \in Nat
    BY <2>1, JournalConstants DEF Entry
  <2> DEFINE f == [seq |-> e.seq, kind |-> e.kind, group |-> e.group,
                   before |-> Newest(undo).before, after |-> e.after,
                   diff |-> DiffBytes[Newest(undo).before][e.after]]
  <2>3. f \in Entry /\ f.after = e.after /\ f.seq = e.seq /\ f.before = Newest(undo).before
    BY <2>1, <2>2 DEF Entry
  <2>4. Extended(e, coalesce) = [undo EXCEPT ![Len(undo)] = f]
    BY <1>1 DEF Extended
  <2> HIDE DEF f
  <2> QED BY <2>1, <2>3, <2>4 DEF TypeOK, Newest
<1>2. CASE ~(coalesce /\ Coalesces(e))
  <2>1. Extended(e, coalesce) = Append(undo, e)
    BY <1>2 DEF Extended
  <2> QED BY <2>1 DEF TypeOK, Newest
<1> QED BY <1>1, <1>2

(* A chained list is one whose transitions join, a rising one has strictly *)
(* increasing sequence numbers, one numbered to n has none beyond n.       *)
Chained(list) == \A i \in 2 .. Len(list) : list[i - 1].after = list[i].before

Rising(list) == \A i \in 2 .. Len(list) : list[i - 1].seq < list[i].seq

NumberedTo(list, n) == \A i \in 1 .. Len(list) : list[i].seq <= n

LEMMA DropOldestKeeps ==
  ASSUME NEW list \in Seq(Entry), NEW k \in 0 .. (Len(list) - 1)
  PROVE  LET tail == DropOldest(list, k) IN
         /\ tail \in Seq(Entry)
         /\ Len(tail) > 0 /\ Len(tail) = Len(list) - k
         /\ Newest(tail) = Newest(list)
         /\ Chained(list) => Chained(tail)
         /\ Rising(list) => Rising(tail)
         /\ \A n : NumberedTo(list, n) => NumberedTo(tail, n)
<1> DEFINE tail == DropOldest(list, k)
<1>1. /\ tail \in Seq(Entry)
      /\ Len(tail) = Len(list) - k
      /\ \A i \in 1 .. (Len(list) - k) : tail[i] = list[k + i]
  BY DropOldestShape
<1> HIDE DEF tail
<1>2. Len(tail) > 0 /\ Newest(tail) = Newest(list)
  BY <1>1 DEF Newest
<1>3. \A i \in 2 .. Len(tail) :
        /\ k + i \in 2 .. Len(list) /\ (k + i) - 1 = k + (i - 1)
        /\ tail[i - 1] = list[(k + i) - 1] /\ tail[i] = list[k + i]
  BY <1>1
<1>4. Chained(list) => Chained(tail)
  BY <1>3 DEF Chained
<1>5. Rising(list) => Rising(tail)
  BY <1>3 DEF Rising
<1>6. \A n : NumberedTo(list, n) => NumberedTo(tail, n)
  BY <1>1 DEF NumberedTo
<1> QED BY <1>1, <1>2, <1>4, <1>5, <1>6 DEF tail

LEMMA ExtendedKeeps ==
  ASSUME TypeOK, NEW e \in Entry, NEW coalesce \in BOOLEAN, e.before = source,
         e.seq = sequence + 1
  PROVE  /\ HistoryIsOneLine => Chained(Extended(e, coalesce))
         /\ SequencesIncrease => Rising(Extended(e, coalesce))
         /\ SequencesIncrease => NumberedTo(Extended(e, coalesce), sequence + 1)
<1> DEFINE list == Extended(e, coalesce)
           n == Len(list)
<1>1. /\ list \in Seq(Entry)
      /\ n > 0 /\ n \in {Len(undo), Len(undo) + 1}
      /\ \A i \in 1 .. (n - 1) : list[i] = undo[i]
      /\ list[n].after = e.after /\ list[n].seq = e.seq
      /\ n = Len(undo) + 1 => list[n].before = e.before
      /\ n = Len(undo) => Len(undo) > 0 /\ list[n].before = undo[Len(undo)].before
  BY ExtendedShape DEF Newest
<1> HIDE DEF list
<1>2. ASSUME HistoryIsOneLine, NEW i \in 2 .. n PROVE list[i - 1].after = list[i].before
  <2>1. CASE i < n
    <3>1. i \in 2 .. Len(undo) /\ i - 1 \in 1 .. (n - 1) /\ i \in 1 .. (n - 1)
      BY <1>1, <2>1 DEF TypeOK
    <3>2. undo[i - 1].after = undo[i].before
      BY <1>2, <3>1 DEF HistoryIsOneLine
    <3>3. list[i - 1] = undo[i - 1] /\ list[i] = undo[i]
      BY <1>1, <3>1
    <3> QED BY <3>2, <3>3
  <2>2. CASE i = n /\ n = Len(undo) + 1
    BY <1>1, <1>2, <2>2 DEF HistoryIsOneLine, TypeOK
  <2>3. CASE i = n /\ n = Len(undo)
    BY <1>1, <1>2, <2>3 DEF HistoryIsOneLine, TypeOK
  <2> QED BY <1>1, <2>1, <2>2, <2>3 DEF TypeOK
<1>3. ASSUME SequencesIncrease, NEW i \in 2 .. n PROVE list[i - 1].seq < list[i].seq
  <2>1. \A j \in 1 .. Len(undo) : undo[j].seq \in Nat
    BY EntriesTyped DEF TypeOK
  <2>2. CASE i < n
    <3>1. i \in 2 .. Len(undo) /\ i - 1 \in 1 .. (n - 1) /\ i \in 1 .. (n - 1)
      BY <1>1, <2>2 DEF TypeOK
    <3>2. undo[i - 1].seq < undo[i].seq
      BY <1>3, <3>1 DEF SequencesIncrease
    <3>3. list[i - 1] = undo[i - 1] /\ list[i] = undo[i]
      BY <1>1, <3>1
    <3> QED BY <3>2, <3>3
  <2>3. CASE i = n /\ n = Len(undo) + 1
    <3>1. undo[Len(undo)].seq <= sequence /\ list[i - 1] = undo[Len(undo)]
      BY <1>1, <1>3, <2>3 DEF SequencesIncrease, TypeOK
    <3>2. list[i].seq = sequence + 1
      BY <1>1, <2>3
    <3>3. undo[Len(undo)].seq \in Nat
      BY <1>1, <2>1, <2>3 DEF TypeOK
    <3> QED BY <3>1, <3>2, <3>3 DEF TypeOK
  <2>4. CASE i = n /\ n = Len(undo)
    <3>1. undo[n - 1].seq < undo[n].seq /\ undo[n].seq <= sequence
      BY <1>1, <1>3, <2>4 DEF SequencesIncrease, TypeOK
    <3>2. list[i - 1] = undo[n - 1] /\ list[i].seq = sequence + 1
      BY <1>1, <2>4 DEF TypeOK
    <3>3. undo[n - 1].seq \in Nat /\ undo[n].seq \in Nat
      BY <1>1, <2>1, <2>4 DEF TypeOK
    <3> QED BY <3>1, <3>2, <3>3, SMTT(30) DEF TypeOK
  <2> QED BY <1>1, <2>2, <2>3, <2>4 DEF TypeOK
<1>4. ASSUME SequencesIncrease, NEW i \in 1 .. n PROVE list[i].seq <= sequence + 1
  <2>1. CASE i = n
    BY <1>1, <2>1 DEF TypeOK
  <2>2. CASE i < n
    <3>1. i \in 1 .. Len(undo) /\ list[i] = undo[i]
      BY <1>1, <2>2 DEF TypeOK
    <3>2. undo[i].seq \in Nat /\ undo[i].seq <= sequence
      BY <1>4, <3>1, EntriesTyped DEF SequencesIncrease, TypeOK
    <3> QED BY <3>1, <3>2 DEF TypeOK
  <2> QED BY <1>1, <2>1, <2>2
<1> QED BY <1>2, <1>3, <1>4 DEF Chained, Rising, NumberedTo, list

LEMMA CommitShape ==
  ASSUME TypeOK, NEW e \in Entry, NEW coalesce \in BOOLEAN, e.before = source,
         e.seq = sequence + 1, Commit(e, coalesce)
  PROVE  /\ TypeOK' /\ redo' = <<>> /\ Len(redo') = 0
         /\ source' = e.after /\ sequence' = sequence + 1
         /\ Len(undo') > 0 /\ Len(undo') <= MaxEntries
         /\ Newest(undo').after = e.after /\ Newest(undo').seq = e.seq
         /\ HistoryIsOneLine => Chained(undo')
         /\ SequencesIncrease => Rising(undo') /\ NumberedTo(undo', sequence + 1)
<1> DEFINE list == Extended(e, coalesce)
<1>1. PICK k \in 0 .. (Len(list) - 1) :
        /\ LeastDrop(e.after, list, k)
        /\ undo' = DropOldest(list, k)
        /\ redo' = <<>> /\ source' = e.after /\ sequence' = sequence + 1
  BY DEF Commit
<1>2. /\ list \in Seq(Entry)
      /\ Newest(list).after = e.after /\ Newest(list).seq = e.seq
      /\ HistoryIsOneLine => Chained(list)
      /\ SequencesIncrease => Rising(list) /\ NumberedTo(list, sequence + 1)
  BY ExtendedShape, ExtendedKeeps
<1>3. Len(list) - k <= MaxEntries
  BY <1>1 DEF LeastDrop, Fits
<1> HIDE DEF list
<1>4. /\ undo' \in Seq(Entry)
      /\ Len(undo') > 0 /\ Len(undo') = Len(list) - k
      /\ Newest(undo') = Newest(list)
      /\ Chained(list) => Chained(undo')
      /\ Rising(list) => Rising(undo')
      /\ NumberedTo(list, sequence + 1) => NumberedTo(undo', sequence + 1)
  BY <1>1, <1>2, DropOldestKeeps
<1>5. redo' \in Seq(Entry) /\ Len(redo') = 0
  BY <1>1
<1>6. e.after \in Sources /\ sequence + 1 \in Nat
  BY DEF Entry, TypeOK
<1>7. TypeOK'
  BY <1>1, <1>4, <1>5, <1>6 DEF TypeOK
<1> QED BY <1>1, <1>2, <1>3, <1>4, <1>5, <1>7

(* Every step is a commit of a well-formed entry that starts at the head,  *)
(* or moves the newest entry of one list to the other.                     *)
Moves(from, to, head) ==
  /\ Len(from) > 0
  /\ from' = Front(from)
  /\ to' = Append(to, Newest(from))
  /\ source' = head
  /\ UNCHANGED sequence

LEMMA StepShape ==
  ASSUME TypeOK, Next
  PROVE  \/ \E e \in Entry, coalesce \in BOOLEAN :
              /\ e.before = source /\ e.seq = sequence + 1
              /\ Size[e.after] <= MaxSourceBytes /\ Commit(e, coalesce)
         \/ Moves(undo, redo, Newest(undo).before) /\ Newest(undo).after = source
         \/ Moves(redo, undo, Newest(redo).after) /\ Newest(redo).before = source
<1>1. ASSUME NEW kind \in Kinds, NEW group \in Groups, NEW after \in Sources, NEW diff \in Nat
      PROVE  LET e == NewEntry(kind, group, after, diff) IN
             e \in Entry /\ e.before = source /\ e.seq = sequence + 1 /\ e.after = after
  BY DEF NewEntry, Entry, TypeOK
<1>2. ASSUME NEW expected \in Sources, NEW group \in Groups, NEW after \in Sources,
             NEW diff \in SemanticDiffs, ApplySemantic(expected, group, after, diff)
      PROVE  \E e \in Entry, coalesce \in BOOLEAN :
               /\ e.before = source /\ e.seq = sequence + 1
               /\ Size[e.after] <= MaxSourceBytes /\ Commit(e, coalesce)
  <2>1. "semantic_edit" \in Kinds /\ diff \in Nat
    BY JournalConstants DEF Kinds
  <2> QED BY <1>1, <1>2, <2>1, ZenonT(30) DEF ApplySemantic
<1>3. ASSUME NEW expected \in Sources, NEW group \in Groups, NEW after \in Sources,
             NEW kind \in Kinds, NEW coalesce \in BOOLEAN,
             ApplySourceLocked(expected, group, after, kind, coalesce)
      PROVE  \E e \in Entry, c \in BOOLEAN :
               /\ e.before = source /\ e.seq = sequence + 1
               /\ Size[e.after] <= MaxSourceBytes /\ Commit(e, c)
  <2>1. DiffBytes[source][after] \in Nat
    BY JournalConstants DEF TypeOK
  <2> QED BY <1>1, <1>3, <2>1 DEF ApplySourceLocked
<1>4. PICK expected \in Sources :
        \/ \E group \in Groups, after \in Sources, diff \in SemanticDiffs :
             ApplySemantic(expected, group, after, diff)
        \/ \E group \in Groups, after \in Sources : ApplySource(expected, group, after)
        \/ \E after \in Sources : ReloadExternal(expected, after)
        \/ Undo(expected)
        \/ Redo(expected)
  BY DEF Next
<1>5. CASE \E group \in Groups, after \in Sources, diff \in SemanticDiffs :
             ApplySemantic(expected, group, after, diff)
  BY <1>2, <1>5
<1>6. CASE \E group \in Groups, after \in Sources : ApplySource(expected, group, after)
  BY <1>3, <1>6 DEF ApplySource, Kinds
<1>7. CASE \E after \in Sources : ReloadExternal(expected, after)
  BY <1>3, <1>7, JournalConstants DEF ReloadExternal, Kinds
<1>8. CASE Undo(expected)
  BY <1>8 DEF Undo, Moves
<1>9. CASE Redo(expected)
  BY <1>9 DEF Redo, Moves
<1> QED BY <1>4, <1>5, <1>6, <1>7, <1>8, <1>9

(* What a move does to the two lists, whichever way it goes.               *)
LEMMA MoveShape ==
  ASSUME NEW from, NEW to, NEW newFrom, NEW newTo,
         from \in Seq(Entry), to \in Seq(Entry), Len(from) > 0,
         newFrom = Front(from), newTo = Append(to, Newest(from))
  PROVE  /\ newFrom \in Seq(Entry) /\ newTo \in Seq(Entry)
         /\ Len(newFrom) = Len(from) - 1 /\ Len(newTo) = Len(to) + 1
         /\ \A i \in 1 .. Len(newFrom) : newFrom[i] = from[i]
         /\ \A i \in 1 .. Len(to) : newTo[i] = to[i]
         /\ newTo[Len(newTo)] = from[Len(from)]
<1>1. Newest(from) \in Entry
  BY NewestShape
<1>2. /\ newFrom \in Seq(Entry) /\ Len(newFrom) = Len(from) - 1
      /\ \A i \in 1 .. (Len(from) - 1) : newFrom[i] = from[i]
  BY FrontShape
<1>3. /\ newTo \in Seq(Entry) /\ Len(newTo) = Len(to) + 1
      /\ \A i \in 1 .. Len(to) : newTo[i] = to[i]
      /\ newTo[Len(newTo)] = Newest(from)
  BY <1>1
<1> QED BY <1>2, <1>3 DEF Newest

LEMMA InitTypeOK == Init => TypeOK
BY DEF Init, TypeOK

LEMMA NextTypeOK == TypeOK /\ [Next]_vars => TypeOK'
<1> SUFFICES ASSUME TypeOK, [Next]_vars PROVE TypeOK'
  OBVIOUS
<1>1. CASE UNCHANGED vars
  BY <1>1 DEF vars, TypeOK
<1>2. ASSUME NEW e \in Entry, NEW coalesce \in BOOLEAN,
             e.before = source, e.seq = sequence + 1, Commit(e, coalesce)
      PROVE  TypeOK'
  BY <1>2, CommitShape
<1>3. CASE Moves(undo, redo, Newest(undo).before)
  <2>1. Newest(undo).before \in Sources
    BY <1>3, NewestShape DEF TypeOK, Moves, Entry
  <2>2. undo' \in Seq(Entry) /\ redo' \in Seq(Entry)
    BY <1>3, MoveShape DEF TypeOK, Moves
  <2> QED BY <1>3, <2>1, <2>2 DEF TypeOK, Moves
<1>4. CASE Moves(redo, undo, Newest(redo).after)
  <2>1. Newest(redo).after \in Sources
    BY <1>4, NewestShape DEF TypeOK, Moves, Entry
  <2>2. undo' \in Seq(Entry) /\ redo' \in Seq(Entry)
    BY <1>4, MoveShape DEF TypeOK, Moves
  <2> QED BY <1>4, <2>1, <2>2 DEF TypeOK, Moves
<1> QED BY <1>1, <1>2, <1>3, <1>4, StepShape

(* The journal's variables keep their types for every set of sources.      *)
THEOREM TypeCorrect == Spec => []TypeOK
<1> QED BY InitTypeOK, NextTypeOK, PTL DEF Spec

LEMMA NextOneLine == TypeOK /\ HistoryIsOneLine /\ [Next]_vars => HistoryIsOneLine'
<1> SUFFICES ASSUME TypeOK, HistoryIsOneLine, [Next]_vars PROVE HistoryIsOneLine'
  OBVIOUS
<1>1. CASE UNCHANGED vars
  BY <1>1 DEF vars, HistoryIsOneLine
<1>2. ASSUME NEW e \in Entry, NEW coalesce \in BOOLEAN,
             e.before = source, e.seq = sequence + 1, Commit(e, coalesce)
      PROVE  HistoryIsOneLine'
  <2>1. /\ Len(redo') = 0 /\ source' = e.after
        /\ Newest(undo').after = e.after /\ Chained(undo')
    BY <1>2, CommitShape
  <2> QED BY <2>1 DEF HistoryIsOneLine, Chained, Newest
<1>3. CASE Moves(undo, redo, Newest(undo).before) /\ Newest(undo).after = source
  <2>1. /\ undo \in Seq(Entry) /\ redo \in Seq(Entry) /\ Len(undo) > 0
        /\ undo' = Front(undo) /\ redo' = Append(redo, Newest(undo))
        /\ source' = undo[Len(undo)].before /\ undo[Len(undo)].after = source
    BY <1>3 DEF Moves, TypeOK, Newest
  <2>2. /\ Len(undo') = Len(undo) - 1 /\ Len(redo') = Len(redo) + 1
        /\ \A i \in 1 .. Len(undo') : undo'[i] = undo[i]
        /\ \A i \in 1 .. Len(redo) : redo'[i] = redo[i]
        /\ redo'[Len(redo')] = undo[Len(undo)]
    BY <2>1, MoveShape
  <2>3. Len(undo') > 0 => undo'[Len(undo')].after = source'
    <3> SUFFICES ASSUME Len(undo') > 0 PROVE undo'[Len(undo')].after = source'
      OBVIOUS
    <3>1. Len(undo) \in 2 .. Len(undo) /\ Len(undo') = Len(undo) - 1
      BY <2>1, <2>2
    <3>2. undo[Len(undo) - 1].after = undo[Len(undo)].before
      BY <3>1 DEF HistoryIsOneLine
    <3>3. undo'[Len(undo) - 1] = undo[Len(undo) - 1]
      BY <2>2, <3>1
    <3> QED BY <2>1, <3>1, <3>2, <3>3
  <2>4. redo'[Len(redo')].before = source'
    BY <2>1, <2>2
  <2>5. \A i \in 2 .. Len(undo') : undo'[i - 1].after = undo'[i].before
    <3> TAKE i \in 2 .. Len(undo')
    <3>1. i \in 2 .. Len(undo) /\ i \in 1 .. Len(undo') /\ i - 1 \in 1 .. Len(undo')
      BY <2>1, <2>2
    <3> QED BY <2>2, <3>1 DEF HistoryIsOneLine
  <2>6. \A i \in 2 .. Len(redo') : redo'[i].after = redo'[i - 1].before
    <3> TAKE i \in 2 .. Len(redo')
    <3>1. CASE i \in 2 .. Len(redo)
      BY <2>1, <2>2, <3>1 DEF HistoryIsOneLine
    <3>2. CASE i = Len(redo) + 1
      <4>1. Len(redo) \in 1 .. Len(redo) /\ i - 1 = Len(redo) /\ i = Len(redo')
        BY <2>1, <2>2, <3>2
      <4>2. redo'[i].after = source /\ redo'[i - 1] = redo[Len(redo)]
        BY <2>1, <2>2, <4>1
      <4>3. redo[Len(redo)].before = source
        BY <4>1 DEF HistoryIsOneLine
      <4> QED BY <4>2, <4>3
    <3>3. i \in 2 .. Len(redo) \/ i = Len(redo) + 1
      BY <2>1, <2>2
    <3> QED BY <3>1, <3>2, <3>3
  <2> QED BY <2>3, <2>4, <2>5, <2>6 DEF HistoryIsOneLine
<1>4. CASE Moves(redo, undo, Newest(redo).after) /\ Newest(redo).before = source
  <2>1. /\ undo \in Seq(Entry) /\ redo \in Seq(Entry) /\ Len(redo) > 0
        /\ redo' = Front(redo) /\ undo' = Append(undo, Newest(redo))
        /\ source' = redo[Len(redo)].after /\ redo[Len(redo)].before = source
    BY <1>4 DEF Moves, TypeOK, Newest
  <2>2. /\ Len(redo') = Len(redo) - 1 /\ Len(undo') = Len(undo) + 1
        /\ \A i \in 1 .. Len(redo') : redo'[i] = redo[i]
        /\ \A i \in 1 .. Len(undo) : undo'[i] = undo[i]
        /\ undo'[Len(undo')] = redo[Len(redo)]
    BY <2>1, MoveShape, SMTT(30)
  <2> QED BY <2>1, <2>2, SMTT(30) DEF HistoryIsOneLine
<1> QED BY <1>1, <1>2, <1>3, <1>4, StepShape

(* Whatever is edited, undone, redone, coalesced and trimmed, the retained *)
(* transitions are one line of sources that meets the head.                *)
THEOREM OneLine == Spec => []HistoryIsOneLine
<1>1. Init => HistoryIsOneLine
  BY DEF Init, HistoryIsOneLine
<1> QED BY <1>1, NextOneLine, TypeCorrect, PTL DEF Spec

(* No series of commits, undos and redos makes the two lists together      *)
(* longer than the entry limit.                                            *)
THEOREM Bounded == Spec => []EntriesBounded
<1>1. Init => EntriesBounded
  BY JournalConstants DEF Init, EntriesBounded
<1>2. TypeOK /\ EntriesBounded /\ [Next]_vars => EntriesBounded'
  <2> SUFFICES ASSUME TypeOK, EntriesBounded, [Next]_vars PROVE EntriesBounded'
    OBVIOUS
  <2>1. CASE UNCHANGED vars
    BY <2>1 DEF vars, EntriesBounded
  <2>2. ASSUME NEW e \in Entry, NEW coalesce \in BOOLEAN,
               e.before = source, e.seq = sequence + 1, Commit(e, coalesce)
        PROVE  EntriesBounded'
    <3>1. TypeOK' /\ Len(redo') = 0 /\ Len(undo') <= MaxEntries
      BY <2>2, CommitShape
    <3> QED BY <3>1, JournalConstants DEF EntriesBounded, TypeOK
  <2>3. ASSUME Moves(undo, redo, Newest(undo).before) \/ Moves(redo, undo, Newest(redo).after)
        PROVE  EntriesBounded'
    <3>1. undo \in Seq(Entry) /\ redo \in Seq(Entry)
      BY DEF TypeOK
    <3>2. CASE Moves(undo, redo, Newest(undo).before)
      <4>1. Len(undo') = Len(undo) - 1 /\ Len(redo') = Len(redo) + 1
        BY <3>1, <3>2, MoveShape, SMTT(30) DEF Moves
      <4> QED BY <3>1, <4>1, JournalConstants DEF EntriesBounded
    <3>3. CASE Moves(redo, undo, Newest(redo).after)
      <4>1. Len(undo') = Len(undo) + 1 /\ Len(redo') = Len(redo) - 1
        BY <3>1, <3>3, MoveShape DEF Moves
      <4> QED BY <3>1, <4>1, JournalConstants DEF EntriesBounded
    <3> QED BY <2>3, <3>2, <3>3
  <2> QED BY <2>1, <2>2, <2>3, StepShape
<1> QED BY <1>1, <1>2, TypeCorrect, PTL DEF Spec

LEMMA NextIncrease == TypeOK /\ SequencesIncrease /\ [Next]_vars => SequencesIncrease'
<1> SUFFICES ASSUME TypeOK, SequencesIncrease, [Next]_vars PROVE SequencesIncrease'
  OBVIOUS
<1>1. CASE UNCHANGED vars
  BY <1>1 DEF vars, SequencesIncrease
<1>2. ASSUME NEW e \in Entry, NEW coalesce \in BOOLEAN,
             e.before = source, e.seq = sequence + 1, Commit(e, coalesce)
      PROVE  SequencesIncrease'
  <2>1. /\ Len(redo') = 0 /\ sequence' = sequence + 1
        /\ Rising(undo') /\ NumberedTo(undo', sequence + 1)
    BY <1>2, CommitShape
  <2> QED BY <2>1 DEF SequencesIncrease, Rising, NumberedTo
<1>3. CASE Moves(undo, redo, Newest(undo).before)
  <2>1. /\ undo \in Seq(Entry) /\ redo \in Seq(Entry) /\ Len(undo) > 0
        /\ undo' = Front(undo) /\ redo' = Append(redo, Newest(undo))
        /\ sequence' = sequence
    BY <1>3 DEF Moves, TypeOK
  <2>2. /\ Len(undo') = Len(undo) - 1 /\ Len(redo') = Len(redo) + 1
        /\ \A i \in 1 .. Len(undo') : undo'[i] = undo[i]
        /\ \A i \in 1 .. Len(redo) : redo'[i] = redo[i]
        /\ redo'[Len(redo')] = undo[Len(undo)]
    BY <2>1, MoveShape, SMTT(30)
  <2>4. \A i \in 2 .. Len(undo') : undo'[i - 1].seq < undo'[i].seq
    BY <2>1, <2>2, SMTT(30) DEF SequencesIncrease
  <2>5. \A i \in 2 .. Len(redo') : redo'[i].seq < redo'[i - 1].seq
    BY <2>1, <2>2 DEF SequencesIncrease
  <2>6. Len(undo') > 0 => undo'[Len(undo')].seq < redo'[Len(redo')].seq
    BY <2>1, <2>2 DEF SequencesIncrease
  <2>7. \A i \in 1 .. Len(undo') : undo'[i].seq <= sequence
    BY <2>1, <2>2 DEF SequencesIncrease
  <2>8. \A i \in 1 .. Len(redo') : redo'[i].seq <= sequence
    BY <2>1, <2>2 DEF SequencesIncrease
  <2> QED BY <2>1, <2>4, <2>5, <2>6, <2>7, <2>8 DEF SequencesIncrease
<1>4. CASE Moves(redo, undo, Newest(redo).after)
  <2>1. /\ undo \in Seq(Entry) /\ redo \in Seq(Entry) /\ Len(redo) > 0
        /\ redo' = Front(redo) /\ undo' = Append(undo, Newest(redo))
        /\ sequence' = sequence
    BY <1>4 DEF Moves, TypeOK
  <2>2. /\ Len(redo') = Len(redo) - 1 /\ Len(undo') = Len(undo) + 1
        /\ \A i \in 1 .. Len(redo') : redo'[i] = redo[i]
        /\ \A i \in 1 .. Len(undo) : undo'[i] = undo[i]
        /\ undo'[Len(undo')] = redo[Len(redo)]
    BY <2>1, MoveShape
  <2>4. \A i \in 2 .. Len(undo') : undo'[i - 1].seq < undo'[i].seq
    BY <2>1, <2>2 DEF SequencesIncrease
  <2>5. \A i \in 2 .. Len(redo') : redo'[i].seq < redo'[i - 1].seq
    <3> TAKE i \in 2 .. Len(redo')
    <3>1. i - 1 \in 1 .. Len(redo') /\ i \in 1 .. Len(redo') /\ i \in 2 .. Len(redo)
      BY <2>1, <2>2
    <3>2. redo[i].seq < redo[i - 1].seq
      BY <3>1 DEF SequencesIncrease
    <3>. QED BY <2>2, <3>1, <3>2
  <2>6. Len(redo') > 0 => undo'[Len(undo')].seq < redo'[Len(redo')].seq
    BY <2>1, <2>2 DEF SequencesIncrease
  <2>7. \A i \in 1 .. Len(undo') : undo'[i].seq <= sequence
    BY <2>1, <2>2 DEF SequencesIncrease
  <2>8. \A i \in 1 .. Len(redo') : redo'[i].seq <= sequence
    BY <2>1, <2>2 DEF SequencesIncrease
  <2> QED BY <2>1, <2>4, <2>5, <2>6, <2>7, <2>8 DEF SequencesIncrease
<1> QED BY <1>1, <1>2, <1>3, <1>4, StepShape

(* Coalescing, undoing and redoing never put the retained entries out of   *)
(* the order in which they were committed.                                 *)
THEOREM Increasing == Spec => []SequencesIncrease
<1>1. Init => SequencesIncrease
  BY DEF Init, SequencesIncrease
<1> QED BY <1>1, NextIncrease, TypeCorrect, PTL DEF Spec

-----------------------------------------------------------------------------
(* Undo and redo move the cursor and leave the line alone; a commit cuts   *)
(* it behind the cursor, whether it coalesces or not, and forgets some of  *)
(* its oldest sources.                                                     *)
LineDescribed ==
  /\ Line \in Seq(Sources) /\ Len(Line) = Len(undo) + Len(redo) + 1
  /\ \A i \in 1 .. Len(undo) : Line[i] = undo[i].before
  /\ Line[Len(undo) + 1] = source
  /\ \A i \in 1 .. Len(redo) : Line[Len(undo) + Len(redo) + 2 - i] = redo[i].after

LEMMA LineShape == TypeOK => LineDescribed
<1> SUFFICES ASSUME TypeOK PROVE LineDescribed
  OBVIOUS
<1> DEFINE n == Len(undo)
           m == Len(redo)
<1>1. n \in Nat /\ m \in Nat
  BY DEF TypeOK
<1>2. \A i \in 1 .. n : undo[i].before \in Sources
  BY EntriesTyped DEF TypeOK
<1>3. \A i \in 1 .. m : redo[i].after \in Sources
  BY EntriesTyped DEF TypeOK
<1>4. source \in Sources
  BY DEF TypeOK
<1> HIDE DEF n, m
<1>5. Line = [i \in 1 .. n + m + 1 |-> IF i <= n THEN undo[i].before
                                       ELSE IF i = n + 1 THEN source
                                       ELSE redo[n + m + 2 - i].after]
  BY DEF Line, n, m
<1>6. \A i \in 1 .. n + m + 1 : Line[i] \in Sources
  <2> TAKE i \in 1 .. n + m + 1
  <2>1. CASE i <= n
    BY <1>1, <1>2, <1>5, <2>1
  <2>2. CASE i = n + 1
    BY <1>1, <1>4, <1>5, <2>2
  <2>3. CASE i > n + 1
    <3>1. n + m + 2 - i \in 1 .. m
      BY <1>1, <2>3
    <3>. QED BY <1>1, <1>3, <1>5, <2>3, <3>1
  <2>. QED BY <1>1, <2>1, <2>2, <2>3
<1>7. Line \in Seq(Sources) /\ Len(Line) = n + m + 1
  <2>1. n + m + 1 \in Nat
    BY <1>1
  <2>2. PICK size : size = n + m + 1
    OBVIOUS
  <2>3. Line \in [1 .. size -> Sources]
    BY <1>5, <1>6, <2>2, Zenon
  <2>. QED BY <2>1, <2>2, <2>3, SeqDef
<1>8. \A i \in 1 .. n : Line[i] = undo[i].before
  BY <1>1, <1>5
<1>9. Line[n + 1] = source
  BY <1>1, <1>5
<1>10. \A i \in 1 .. m : Line[n + m + 2 - i] = redo[i].after
  <2> TAKE i \in 1 .. m
  <2>1. /\ n + m + 2 - i \in 1 .. n + m + 1 /\ n + m + 2 - i > n + 1
        /\ n + m + 2 - (n + m + 2 - i) = i
    BY <1>1
  <2>. QED BY <1>1, <1>5, <2>1
<1>. QED BY <1>7, <1>8, <1>9, <1>10 DEF LineDescribed, n, m

LEMMA CommitRecords ==
  ASSUME TypeOK, TypeOK', NEW e \in Entry, NEW coalesce \in BOOLEAN,
         e.before = source, Commit(e, coalesce)
  PROVE  \E s \in Sources : History!Record(s)
<1> DEFINE list == Extended(e, coalesce)
           n == Len(undo)
           m == Len(redo)
           size == Len(list)
<1>1. PICK k \in 0 .. (size - 1) :
        /\ undo' = DropOldest(list, k) /\ redo' = <<>> /\ source' = e.after
  BY DEF Commit
<1>2. /\ list \in Seq(Entry) /\ size > 0 /\ size \in {n, n + 1}
      /\ \A i \in 1 .. (size - 1) : list[i] = undo[i]
      /\ size = n + 1 => list[size].before = source
      /\ size = n => list[size].before = undo[n].before
  BY ExtendedShape DEF Newest
<1>3. n \in Nat /\ m \in Nat /\ size \in Nat \ {0}
  BY <1>2 DEF TypeOK
<1> HIDE DEF list
<1>4. Len(undo') = size - k /\ \A i \in 1 .. (size - k) : undo'[i] = list[k + i]
  BY <1>1, <1>2, DropOldestShape
<1> DEFINE tail == SubSeq(Line, k + 1, size)
<1>5. /\ Line \in Seq(Sources) /\ Len(Line) = n + m + 1
      /\ \A i \in 1 .. n : Line[i] = undo[i].before
      /\ Line[n + 1] = source
  BY LineShape DEF LineDescribed
<1>6. tail \in Seq(Sources) /\ Len(tail) = size - k /\ \A i \in 1 .. (size - k) : tail[i] = Line[k + i]
  <2>1. k + 1 \in 1 .. Len(Line) /\ size \in 1 .. Len(Line)
    BY <1>2, <1>3, <1>5
  <2>2. \A i \in k + 1 .. size : Line[i] \in Sources
    BY <1>5, <2>1, ElementOfSeq
  <2>. QED BY <1>3, <1>5, <2>1, <2>2, SubSeqProperties
<1>7. \A i \in 1 .. size : Line[i] = list[i].before
  <2> TAKE i \in 1 .. size
  <2>1. CASE i < size
    BY <1>2, <1>3, <1>5, <2>1
  <2>2. CASE i = size
    BY <1>2, <1>3, <1>5, <2>2
  <2>. QED BY <1>3, <2>1, <2>2
<1>8. Len(redo') = 0 /\ Len(undo') \in Nat
  BY <1>1, <1>3, <1>4
<1>9. /\ Line' \in Seq(Sources) /\ Len(Line') = size - k + 1
      /\ \A i \in 1 .. (size - k) : Line'[i] = undo'[i].before
      /\ Line'[size - k + 1] = e.after
  <2>1. LineDescribed'
    BY LineShape, PTL
  <2>. QED BY <1>1, <1>3, <1>4, <1>8, <2>1 DEF LineDescribed
<1>10. e.after \in Sources
  BY DEF Entry
<1> HIDE DEF tail, n, m, size
<1>11. Line' = Append(tail, e.after)
  <2>1. Append(tail, e.after) \in Seq(Sources) /\ Len(Append(tail, e.after)) = size - k + 1
    BY <1>6, <1>10
  <2>2. \A i \in 1 .. size - k + 1 : Line'[i] = Append(tail, e.after)[i]
    <3> TAKE i \in 1 .. size - k + 1
    <3>1. CASE i <= size - k
      <4>1. Line'[i] = list[k + i].before /\ tail[i] = Line[k + i] /\ k + i \in 1 .. size
        BY <1>3, <1>4, <1>6, <1>9, <3>1, SMTT(30)
      <4>. QED BY <1>6, <1>7, <1>10, <3>1, <4>1
    <3>2. CASE i = size - k + 1
      BY <1>3, <1>6, <1>9, <1>10, <3>2
    <3>3. i <= size - k \/ i = size - k + 1
      BY <1>3
    <3>. QED BY <3>1, <3>2, <3>3
  <2>. QED BY <1>9, <2>1, <2>2, SeqEqual
<1>12. size \in {(n + 1) - 1, n + 1} \ {0} /\ k + 1 \in 1 .. size
  BY <1>2, <1>3
<1>13. Len(undo') + 1 = Len(Line')
  BY <1>4, <1>9
<1>14. History!Record(e.after)
  BY <1>11, <1>12, <1>13 DEF History!Record, tail, n
<1>. QED BY <1>10, <1>14

LEMMA MovesKeepLine ==
  ASSUME TypeOK, TypeOK',
         \/ Moves(undo, redo, Newest(undo).before) /\ Newest(undo).after = source
         \/ Moves(redo, undo, Newest(redo).after) /\ Newest(redo).before = source
  PROVE  History!Undo \/ History!Redo
<1>1. undo \in Seq(Entry) /\ redo \in Seq(Entry)
  BY DEF TypeOK
<1>2. LineDescribed /\ LineDescribed'
  BY LineShape, PTL
<1>3. CASE Moves(undo, redo, Newest(undo).before) /\ Newest(undo).after = source
  <2>1. /\ Len(undo) > 0 /\ undo' = Front(undo) /\ redo' = Append(redo, Newest(undo))
        /\ source' = undo[Len(undo)].before /\ undo[Len(undo)].after = source
    BY <1>3 DEF Moves, Newest
  <2>2. /\ Len(undo') = Len(undo) - 1 /\ Len(redo') = Len(redo) + 1
        /\ \A i \in 1 .. Len(undo') : undo'[i] = undo[i]
        /\ \A i \in 1 .. Len(redo) : redo'[i] = redo[i]
        /\ redo'[Len(redo')] = undo[Len(undo)]
    BY <1>1, <2>1, MoveShape
  <2> DEFINE n == Len(undo)
             m == Len(redo)
  <2>3. n \in Nat \ {0} /\ m \in Nat
    BY <1>1, <2>1
  <2>4. /\ Line \in Seq(Sources) /\ Len(Line) = n + m + 1
        /\ \A i \in 1 .. n : Line[i] = undo[i].before
        /\ Line[n + 1] = source
        /\ \A i \in 1 .. m : Line[n + m + 2 - i] = redo[i].after
    BY <1>2 DEF LineDescribed
  <2>5. /\ Line' \in Seq(Sources) /\ Len(Line') = n - 1 + (m + 1) + 1
        /\ \A i \in 1 .. n - 1 : Line'[i] = undo[i].before
        /\ Line'[n - 1 + 1] = undo[n].before
        /\ \A i \in 1 .. m : Line'[n - 1 + (m + 1) + 2 - i] = redo[i].after
        /\ Line'[n - 1 + (m + 1) + 2 - (m + 1)] = source
    <3>1. /\ Len(undo') = n - 1 /\ Len(redo') = m + 1
          /\ source' = undo[n].before /\ redo'[m + 1].after = source
          /\ \A i \in 1 .. n - 1 : undo'[i] = undo[i]
          /\ \A i \in 1 .. m : redo'[i] = redo[i]
      BY <2>1, <2>2
    <3>. HIDE DEF n, m
    <3>2. Line' \in Seq(Sources) /\ Len(Line') = n - 1 + (m + 1) + 1
      BY <1>2, <2>3, <3>1 DEF LineDescribed
    <3>3. \A i \in 1 .. n - 1 : Line'[i] = undo'[i].before
      BY <1>2, <3>1 DEF LineDescribed
    <3>4. Line'[n - 1 + 1] = source'
      BY <1>2, <3>1 DEF LineDescribed
    <3>5. \A i \in 1 .. m + 1 : Line'[n - 1 + (m + 1) + 2 - i] = redo'[i].after
      BY <1>2, <3>1 DEF LineDescribed
    <3>6. 1 .. m \subseteq 1 .. m + 1 /\ m + 1 \in 1 .. m + 1
      BY <2>3
    <3>7. \A i \in 1 .. n - 1 : Line'[i] = undo[i].before
      BY <3>1, <3>3, Zenon
    <3>8. Line'[n - 1 + 1] = undo[n].before
      BY <3>1, <3>4, Zenon
    <3>9. \A i \in 1 .. m : Line'[n - 1 + (m + 1) + 2 - i] = redo[i].after
      BY <3>1, <3>5, <3>6, Zenon
    <3>10. Line'[n - 1 + (m + 1) + 2 - (m + 1)] = source
      BY <3>1, <3>5, <3>6, Zenon
    <3>. QED BY <3>2, <3>7, <3>8, <3>9, <3>10
  <2> HIDE DEF n, m
  <2>6. ASSUME NEW i \in 1 .. n + m + 1 PROVE Line'[i] = Line[i]
    <3>1. CASE i <= n - 1
      <4>1. i \in 1 .. n /\ i \in 1 .. n - 1
        BY <2>3, <3>1
      <4>2. Line'[i] = undo[i].before
        BY <2>5, <4>1
      <4>3. Line[i] = undo[i].before
        BY <2>4, <4>1
      <4>. QED BY <4>2, <4>3
    <3>2. CASE i = n
      <4>1. i = n - 1 + 1 /\ n \in 1 .. n
        BY <2>3, <3>2
      <4>. QED BY <2>4, <2>5, <3>2, <4>1
    <3>3. CASE i = n + 1
      BY <2>3, <2>4, <2>5, <3>3
    <3>4. CASE i > n + 1
      <4>1. n + m + 2 - i \in 1 .. m
        BY <2>3, <3>4
      <4>2. n + m + 2 - (n + m + 2 - i) = i /\ n - 1 + (m + 1) + 2 - (n + m + 2 - i) = i
        BY <2>3
      <4>. QED BY <2>4, <2>5, <4>1, <4>2
    <3>. QED BY <2>3, <3>1, <3>2, <3>3, <3>4
  <2>7. Len(Line') = Len(Line)
    BY <2>3, <2>4, <2>5
  <2>8. Line' = Line
    BY <2>3, <2>4, <2>5, <2>6, <2>7, SeqEqual
  <2>9. n + 1 > 1 /\ Len(undo') + 1 = n + 1 - 1
    BY <2>2, <2>3 DEF n
  <2>. QED BY <2>8, <2>9 DEF History!Undo, n
<1>4. CASE Moves(redo, undo, Newest(redo).after) /\ Newest(redo).before = source
  <2>1. /\ Len(redo) > 0 /\ redo' = Front(redo) /\ undo' = Append(undo, Newest(redo))
        /\ source' = redo[Len(redo)].after /\ redo[Len(redo)].before = source
    BY <1>4 DEF Moves, Newest
  <2>2. /\ Len(redo') = Len(redo) - 1 /\ Len(undo') = Len(undo) + 1
        /\ \A i \in 1 .. Len(redo') : redo'[i] = redo[i]
        /\ \A i \in 1 .. Len(undo) : undo'[i] = undo[i]
        /\ undo'[Len(undo')] = redo[Len(redo)]
    BY <1>1, <2>1, MoveShape, SMTT(30)
  <2> DEFINE n == Len(undo)
             m == Len(redo)
  <2>3. n \in Nat /\ m \in Nat \ {0}
    BY <1>1, <2>1
  <2>4. /\ Line \in Seq(Sources) /\ Len(Line) = n + m + 1
        /\ \A i \in 1 .. n : Line[i] = undo[i].before
        /\ Line[n + 1] = source
        /\ \A i \in 1 .. m : Line[n + m + 2 - i] = redo[i].after
    BY <1>2 DEF LineDescribed
  <2>5. /\ Line' \in Seq(Sources) /\ Len(Line') = n + 1 + (m - 1) + 1
        /\ \A i \in 1 .. n : Line'[i] = undo[i].before
        /\ Line'[n + 1] = source
        /\ Line'[n + 1 + 1] = redo[m].after
        /\ \A i \in 1 .. m - 1 : Line'[n + 1 + (m - 1) + 2 - i] = redo[i].after
    <3>1. /\ Len(undo') = n + 1 /\ Len(redo') = m - 1
          /\ source' = redo[m].after /\ undo'[n + 1].before = source
          /\ \A i \in 1 .. n : undo'[i] = undo[i]
          /\ \A i \in 1 .. m - 1 : redo'[i] = redo[i]
      BY <2>1, <2>2
    <3>. HIDE DEF n, m
    <3>2. Line' \in Seq(Sources) /\ Len(Line') = n + 1 + (m - 1) + 1
      BY <1>2, <2>3, <3>1 DEF LineDescribed
    <3>3. \A i \in 1 .. n + 1 : Line'[i] = undo'[i].before
      BY <1>2, <3>1 DEF LineDescribed
    <3>4. Line'[n + 1 + 1] = source'
      BY <1>2, <3>1 DEF LineDescribed
    <3>5. \A i \in 1 .. m - 1 : Line'[n + 1 + (m - 1) + 2 - i] = redo'[i].after
      BY <1>2, <3>1 DEF LineDescribed
    <3>6. 1 .. n \subseteq 1 .. n + 1 /\ n + 1 \in 1 .. n + 1
      BY <2>3
    <3>. QED BY <3>1, <3>2, <3>3, <3>4, <3>5, <3>6
  <2> HIDE DEF n, m
  <2>6. ASSUME NEW i \in 1 .. n + m + 1 PROVE Line'[i] = Line[i]
    <3>1. CASE i <= n
      BY <2>3, <2>4, <2>5, <3>1
    <3>2. CASE i = n + 1
      BY <2>3, <2>4, <2>5, <3>2
    <3>3. CASE i = n + 2
      <4>1. n + m + 2 - m = i /\ n + 1 + 1 = i
        BY <2>3, <3>3
      <4>. QED BY <2>3, <2>4, <2>5, <4>1
    <3>4. CASE i > n + 2
      <4>1. n + m + 2 - i \in 1 .. m - 1
        BY <2>3, <3>4
      <4>2. n + m + 2 - (n + m + 2 - i) = i /\ n + 1 + (m - 1) + 2 - (n + m + 2 - i) = i
        BY <2>3
      <4>. QED BY <2>3, <2>4, <2>5, <4>1, <4>2
    <3>. QED BY <2>3, <3>1, <3>2, <3>3, <3>4
  <2>7. Len(Line') = Len(Line)
    BY <2>3, <2>4, <2>5
  <2>8. Line' = Line
    BY <2>3, <2>4, <2>5, <2>6, <2>7, SeqEqual
  <2>9. n + 1 < Len(Line) /\ Len(undo') + 1 = n + 1 + 1
    BY <2>2, <2>3, <2>4 DEF n
  <2>. QED BY <2>8, <2>9 DEF History!Redo, n
<1>. QED BY <1>3, <1>4

(* Every step of the journal is a step of the abstract history on the line *)
(* its lists describe.                                                     *)
THEOREM KeepsALinearHistory == Spec => ImplementsHistory
<1>1. Init => History!Init
  <2> SUFFICES ASSUME Init PROVE History!Init
    OBVIOUS
  <2>1. TypeOK /\ undo = <<>> /\ redo = <<>> /\ Len(undo) = 0 /\ Len(redo) = 0
    BY InitTypeOK DEF Init
  <2>2. Line \in Seq(Sources) /\ Len(Line) = 1 /\ Line[1] = source
    BY <2>1, LineShape DEF LineDescribed
  <2>3. <<source>> \in Seq(Sources) /\ Len(<<source>>) = 1 /\ <<source>>[1] = source
    BY <2>1 DEF TypeOK
  <2>4. Line = <<source>>
    BY <2>2, <2>3, SeqEqual
  <2>. QED BY <2>1, <2>4 DEF History!Init, TypeOK
<1>2. TypeOK /\ TypeOK' /\ [Next]_vars => [History!Next]_(History!vars)
  <2> SUFFICES ASSUME TypeOK, TypeOK', [Next]_vars PROVE [History!Next]_(History!vars)
    OBVIOUS
  <2>1. CASE UNCHANGED vars
    BY <2>1 DEF vars, History!vars, Line
  <2>2. CASE \E e \in Entry, coalesce \in BOOLEAN :
               e.before = source /\ e.seq = sequence + 1 /\ Commit(e, coalesce)
    BY <2>2, CommitRecords DEF History!Next
  <2>3. CASE \/ Moves(undo, redo, Newest(undo).before) /\ Newest(undo).after = source
             \/ Moves(redo, undo, Newest(redo).after) /\ Newest(redo).before = source
    BY <2>3, MovesKeepLine DEF History!Next
  <2>. QED BY <2>1, <2>2, <2>3, StepShape
<1>. QED BY <1>1, <1>2, TypeCorrect, PTL DEF Spec, ImplementsHistory, History!Spec
-----------------------------------------------------------------------------
(* The bytes of a journal are a sum, which starts from the head's.         *)
Weigh(e, bytes) == EntryBytes(e) + bytes
AnyOf(s) == CHOOSE x \in s : TRUE

Bytes == INSTANCE FoldLemmas WITH op <- Weigh, pick <- AnyOf

LEMMA JournalBytesIsSum ==
  ASSUME NEW head, NEW entries \in Seq(Entry)
  PROVE  JournalBytes(head, entries) = Bytes!FoldOf(entries, Size[head], 1 .. Len(entries))
<1> DEFINE S == 1 .. Len(entries)
           base == Size[head]
           Adds(g) == g = [s \in SUBSET S |-> IF s = {} THEN base
                             ELSE EntryBytes(entries[CHOOSE x \in s : TRUE])
                                    + g[s \ {CHOOSE x \in s : TRUE}]]
<1>1. DOMAIN entries = S
  OBVIOUS
<1>2. JournalBytes(head, entries) = (CHOOSE g : Adds(g))[S]
  BY <1>1, Zenon DEF JournalBytes, FoldSeq, FoldFunction, FoldFunctionOnSet, MapThenFoldSet
<1>3. Bytes!FoldOf(entries, base, S) = (CHOOSE g : Adds(g))[S]
  BY Zenon DEF Bytes!FoldOf, Bytes!Folds, Bytes!FoldsOn, Weigh, AnyOf
<1>. QED BY <1>2, <1>3

LEMMA HeadIsCounted ==
  ASSUME NEW head \in Sources, NEW entries \in Seq(Entry)
  PROVE  JournalBytes(head, entries) \in Nat /\ Size[head] <= JournalBytes(head, entries)
<1>1. \A i \in 1 .. Len(entries) : EntryBytes(entries[i]) \in Nat
  <2> TAKE i \in 1 .. Len(entries)
  <2>1. entries[i] \in Entry
    BY EntriesTyped
  <2>2. /\ GroupBytes[entries[i].group] \in Nat /\ Size[entries[i].before] \in Nat
        /\ Size[entries[i].after] \in Nat /\ entries[i].diff \in Nat
    BY <2>1, JournalConstants DEF Entry
  <2>3. \A p, q, r, d \in Nat : p + q + r + d \in Nat
    OBVIOUS
  <2>. QED BY <2>2, <2>3, Zenon DEF EntryBytes
<1> DEFINE S == 1 .. Len(entries)
           V == {n \in Nat : Size[head] <= n}
<1>2. Bytes!IsFiniteSet(S) /\ Bytes!Picks(S)
  <2>1. IsFiniteSet(S)
    BY FS_Interval
  <2>2. Bytes!IsFiniteSet(S)
    BY <2>1, Zenon DEF IsFiniteSet, Bytes!IsFiniteSet
  <2>. QED BY <2>2, Bytes!AnyPicks DEF AnyOf
<1>3. Size[head] \in V
  BY JournalConstants
<1>4. \A i \in S : \A v \in V : Weigh(entries[i], v) \in V
  BY <1>1, <1>3 DEF Weigh
<1> HIDE DEF V
<1>5. Bytes!FoldOf(entries, Size[head], S) \in V
  BY <1>2, <1>3, <1>4, Bytes!FoldStays
<1>. QED BY <1>5, JournalBytesIsSum DEF V

(* All that is retained, in the order of the line: the entries to undo and *)
(* then the undone ones, the next one to redo first, up to the source that *)
(* redoing everything would reach.  Undo and redo leave it as it is, so    *)
(* the journal stays inside the limits that the last commit looked at.     *)
Whole ==
  [i \in 1 .. Len(undo) + Len(redo) |->
     IF i <= Len(undo) THEN undo[i] ELSE redo[Len(undo) + Len(redo) + 1 - i]]

Tip == IF Len(redo) = 0 THEN source ELSE redo[1].after

Sized(list) ==
  \A i \in 1 .. Len(list) :
    Size[list[i].before] <= MaxSourceBytes /\ Size[list[i].after] <= MaxSourceBytes

WholeFits ==
  /\ Size[source] <= MaxSourceBytes /\ Sized(undo) /\ Sized(redo)
  /\ FileBytes + JournalBytes(Tip, Whole) <= MaxBytes

NothingUndone == Len(redo) = 0 => Whole = undo /\ Tip = source

LEMMA WholeIsUndo == TypeOK => NothingUndone
<1> SUFFICES ASSUME TypeOK, Len(redo) = 0 PROVE Whole = undo /\ Tip = source
  BY DEF NothingUndone
<1>1. Len(undo) \in Nat /\ undo = [i \in 1 .. Len(undo) |-> undo[i]]
  BY DEF TypeOK
<1>2. Whole = [i \in 1 .. Len(undo) |-> undo[i]]
  BY <1>1 DEF Whole
<1>. QED BY <1>1, <1>2 DEF Tip

LEMMA CommitFits ==
  ASSUME TypeOK, TypeOK', WholeFits, NEW e \in Entry, NEW coalesce \in BOOLEAN,
         e.before = source, Size[e.after] <= MaxSourceBytes, Commit(e, coalesce)
  PROVE  WholeFits'
<1> DEFINE list == Extended(e, coalesce)
<1>1. PICK k \in 0 .. (Len(list) - 1) :
        /\ LeastDrop(e.after, list, k)
        /\ undo' = DropOldest(list, k) /\ redo' = <<>> /\ source' = e.after
  BY DEF Commit
<1>2. /\ list \in Seq(Entry)
      /\ Len(list) > 0 /\ Len(list) \in {Len(undo), Len(undo) + 1}
      /\ \A i \in 1 .. (Len(list) - 1) : list[i] = undo[i]
      /\ list[Len(list)].after = e.after
      /\ Len(list) = Len(undo) + 1 => list[Len(list)].before = e.before
      /\ Len(list) = Len(undo) => list[Len(list)].before = undo[Len(undo)].before
  BY ExtendedShape DEF Newest
<1> HIDE DEF list
<1>3. Sized(list)
  <2> SUFFICES ASSUME NEW i \in 1 .. Len(list)
               PROVE  /\ Size[list[i].before] <= MaxSourceBytes
                      /\ Size[list[i].after] <= MaxSourceBytes
    BY DEF Sized
  <2>0. Len(undo) \in Nat /\ Sized(undo) /\ Size[source] <= MaxSourceBytes
    BY DEF TypeOK, WholeFits
  <2>1. CASE i < Len(list)
    BY <1>2, <2>0, <2>1 DEF Sized
  <2>2. CASE i = Len(list)
    <3>1. \/ list[i].before = source
          \/ Len(undo) > 0 /\ list[i].before = undo[Len(undo)].before
      BY <1>2, <2>2
    <3>2. Len(undo) > 0 => Size[undo[Len(undo)].before] <= MaxSourceBytes
      <4>1. Len(undo) > 0 => Len(undo) \in 1 .. Len(undo)
        BY <2>0
      <4>. QED BY <2>0, <4>1 DEF Sized
    <3>. QED BY <1>2, <2>0, <2>2, <3>1, <3>2
  <2>. QED BY <1>2, <2>1, <2>2
<1>4. Len(undo') = Len(list) - k /\ \A i \in 1 .. (Len(list) - k) : undo'[i] = list[k + i]
  BY <1>1, <1>2, DropOldestShape
<1>5. Sized(undo)'
  <2>1. \A i \in 1 .. Len(undo') : undo'[i] = list[k + i] /\ k + i \in 1 .. Len(list)
    BY <1>2, <1>4
  <2>. QED BY <1>3, <2>1 DEF Sized
<1>6. Len(redo') = 0 /\ Sized(redo)'
  BY <1>1 DEF Sized
<1>7. NothingUndone'
  BY WholeIsUndo, PTL
<1>8. Whole' = undo' /\ Tip' = source'
  BY <1>6, <1>7 DEF NothingUndone
<1>9. FileBytes + JournalBytes(e.after, undo') <= MaxBytes
  BY <1>1 DEF LeastDrop, Fits
<1>10. JournalBytes(Tip, Whole)' = JournalBytes(e.after, undo')
  BY <1>1, <1>8
<1>. QED BY <1>1, <1>5, <1>6, <1>9, <1>10 DEF WholeFits

(* A move takes the newest entry of one list, next to the head, and puts   *)
(* it next to the head on the other side.                                  *)
LEMMA MovesFit ==
  ASSUME TypeOK, TypeOK', WholeFits,
         \/ Moves(undo, redo, Newest(undo).before) /\ Newest(undo).after = source
         \/ Moves(redo, undo, Newest(redo).after) /\ Newest(redo).before = source
  PROVE  WholeFits'
<1>1. undo \in Seq(Entry) /\ redo \in Seq(Entry)
  BY DEF TypeOK
<1> DEFINE n == Len(undo)
           m == Len(redo)
<1>2. n \in Nat /\ m \in Nat
  BY <1>1
<1>3. /\ Size[source] <= MaxSourceBytes
      /\ \A i \in 1 .. n : Size[undo[i].before] <= MaxSourceBytes /\ Size[undo[i].after] <= MaxSourceBytes
      /\ \A i \in 1 .. m : Size[redo[i].before] <= MaxSourceBytes /\ Size[redo[i].after] <= MaxSourceBytes
  BY DEF WholeFits, Sized
<1>4. Size[source'] <= MaxSourceBytes /\ Sized(undo)' /\ Sized(redo)' /\ Whole' = Whole /\ Tip' = Tip
  <2>1. CASE Moves(undo, redo, Newest(undo).before) /\ Newest(undo).after = source
    <3>1. /\ Len(undo) > 0 /\ undo' = Front(undo) /\ redo' = Append(redo, Newest(undo))
          /\ source' = undo[Len(undo)].before /\ undo[Len(undo)].after = source
      BY <2>1 DEF Moves, Newest
    <3>2. /\ Len(undo') = Len(undo) - 1 /\ Len(redo') = Len(redo) + 1
          /\ \A i \in 1 .. Len(undo') : undo'[i] = undo[i]
          /\ \A i \in 1 .. Len(redo) : redo'[i] = redo[i]
          /\ redo'[Len(redo')] = undo[Len(undo)]
      BY <1>1, <3>1, MoveShape, SMTT(30)
    <3>3. /\ n > 0 /\ Len(undo') = n - 1 /\ Len(redo') = m + 1
          /\ source' = undo[n].before /\ redo'[m + 1] = undo[n] /\ undo[n].after = source
          /\ \A i \in 1 .. n - 1 : undo'[i] = undo[i]
          /\ \A i \in 1 .. m : redo'[i] = redo[i]
      BY <3>1, <3>2
    <3>4. Whole' = [i \in 1 .. n + m |-> IF i <= n - 1 THEN undo'[i] ELSE redo'[n + m + 1 - i]]
      <4>1. Whole' = [i \in 1 .. Len(undo') + Len(redo') |->
                        IF i <= Len(undo') THEN undo'[i] ELSE redo'[Len(undo') + Len(redo') + 1 - i]]
        BY DEF Whole
      <4>2. Len(undo') + Len(redo') = n + m
        BY <1>2, <3>3
      <4>. QED BY <3>3, <4>1, <4>2
    <3>5. Whole = [i \in 1 .. n + m |-> IF i <= n THEN undo[i] ELSE redo[n + m + 1 - i]]
      BY DEF Whole
    <3>6. Tip = (IF m = 0 THEN source ELSE redo[1].after)
          /\ Tip' = (IF Len(redo') = 0 THEN source' ELSE redo'[1].after)
      BY DEF Tip
    <3> HIDE DEF n, m
    <3>7. ASSUME NEW i \in 1 .. n + m
          PROVE  (IF i <= n - 1 THEN undo'[i] ELSE redo'[n + m + 1 - i])
                   = (IF i <= n THEN undo[i] ELSE redo[n + m + 1 - i])
      <4>1. CASE i <= n - 1
        BY <1>2, <3>3, <4>1
      <4>2. CASE i = n
        <5>1. n + m + 1 - i = m + 1
          BY <1>2, <4>2
        <5>. QED BY <1>2, <3>3, <4>2, <5>1
      <4>3. CASE i > n
        <5>1. n + m + 1 - i \in 1 .. m
          BY <1>2, <4>3
        <5>. QED BY <1>2, <3>3, <4>3, <5>1
      <4>. QED BY <1>2, <4>1, <4>2, <4>3
    <3>8. Whole' = Whole
      BY <3>4, <3>5, <3>7
    <3>9. Tip' = Tip
      BY <1>2, <3>3, <3>6
    <3>10. Size[source'] <= MaxSourceBytes
      BY <1>2, <1>3, <3>3
    <3>11. Sized(undo)'
      BY <1>2, <1>3, <3>3 DEF Sized
    <3>12. Sized(redo)'
      BY <1>2, <1>3, <3>3 DEF Sized
    <3>. QED BY <3>8, <3>9, <3>10, <3>11, <3>12
  <2>2. CASE Moves(redo, undo, Newest(redo).after) /\ Newest(redo).before = source
    <3>1. /\ Len(redo) > 0 /\ redo' = Front(redo) /\ undo' = Append(undo, Newest(redo))
          /\ source' = redo[Len(redo)].after /\ redo[Len(redo)].before = source
      BY <2>2 DEF Moves, Newest
    <3>2. /\ Len(redo') = Len(redo) - 1 /\ Len(undo') = Len(undo) + 1
          /\ \A i \in 1 .. Len(redo') : redo'[i] = redo[i]
          /\ \A i \in 1 .. Len(undo) : undo'[i] = undo[i]
          /\ undo'[Len(undo')] = redo[Len(redo)]
      BY <1>1, <3>1, MoveShape, SMTT(30)
    <3>3. /\ m > 0 /\ Len(redo') = m - 1 /\ Len(undo') = n + 1
          /\ source' = redo[m].after /\ undo'[n + 1] = redo[m] /\ redo[m].before = source
          /\ \A i \in 1 .. m - 1 : redo'[i] = redo[i]
          /\ \A i \in 1 .. n : undo'[i] = undo[i]
      BY <3>1, <3>2
    <3>4. Whole' = [i \in 1 .. n + m |-> IF i <= n + 1 THEN undo'[i] ELSE redo'[n + m + 1 - i]]
      <4>1. Whole' = [i \in 1 .. Len(undo') + Len(redo') |->
                        IF i <= Len(undo') THEN undo'[i] ELSE redo'[Len(undo') + Len(redo') + 1 - i]]
        BY DEF Whole
      <4>2. Len(undo') + Len(redo') = n + m
        BY <1>2, <3>3
      <4>. QED BY <3>3, <4>1, <4>2
    <3>5. Whole = [i \in 1 .. n + m |-> IF i <= n THEN undo[i] ELSE redo[n + m + 1 - i]]
      BY DEF Whole
    <3>6. Tip = (IF m = 0 THEN source ELSE redo[1].after)
          /\ Tip' = (IF Len(redo') = 0 THEN source' ELSE redo'[1].after)
      BY DEF Tip
    <3> HIDE DEF n, m
    <3>7. ASSUME NEW i \in 1 .. n + m
          PROVE  (IF i <= n + 1 THEN undo'[i] ELSE redo'[n + m + 1 - i])
                   = (IF i <= n THEN undo[i] ELSE redo[n + m + 1 - i])
      <4>1. CASE i <= n
        BY <1>2, <3>3, <4>1
      <4>2. CASE i = n + 1
        <5>1. n + m + 1 - i = m
          BY <1>2, <4>2
        <5>. QED BY <1>2, <3>3, <4>2, <5>1
      <4>3. CASE i > n + 1
        <5>1. n + m + 1 - i \in 1 .. m - 1
          BY <1>2, <4>3
        <5>. QED BY <1>2, <3>3, <4>3, <5>1
      <4>. QED BY <1>2, <4>1, <4>2, <4>3
    <3>8. Whole' = Whole
      BY <3>4, <3>5, <3>7
    <3>9. Tip' = Tip
      BY <1>2, <3>3, <3>6
    <3>10. Size[source'] <= MaxSourceBytes
      BY <1>2, <1>3, <3>3
    <3>11. Sized(undo)'
      BY <1>2, <1>3, <3>3 DEF Sized
    <3>12. Sized(redo)'
      BY <1>2, <1>3, <3>3 DEF Sized
    <3>. QED BY <3>8, <3>9, <3>10, <3>11, <3>12
  <2>. QED BY <2>1, <2>2
<1>5. JournalBytes(Tip, Whole)' = JournalBytes(Tip, Whole)
  BY <1>4
<1>. QED BY <1>4, <1>5 DEF WholeFits

LEMMA InitFits == Init => WholeFits
<1> SUFFICES ASSUME Init PROVE WholeFits
  OBVIOUS
<1>1. TypeOK /\ Len(redo) = 0 /\ undo = <<>> /\ Len(undo) = 0
  BY InitTypeOK DEF Init
<1>2. Whole = <<>> /\ Tip = source
  BY <1>1, WholeIsUndo DEF NothingUndone
<1>3. <<>> \in Seq(Entry) /\ Len(<<>>) = 0 /\ 1 .. 0 = {}
  OBVIOUS
<1>4. JournalBytes(source, <<>>) = Size[source]
  BY <1>3, JournalBytesIsSum, Bytes!FoldOfNone, ZenonT(30)
<1>. QED BY <1>1, <1>2, <1>4 DEF Init, WholeFits, Sized

LEMMA NextFits == TypeOK /\ TypeOK' /\ WholeFits /\ [Next]_vars => WholeFits'
<1> SUFFICES ASSUME TypeOK, TypeOK', WholeFits, [Next]_vars PROVE WholeFits'
  OBVIOUS
<1>1. CASE UNCHANGED vars
  <2>1. Whole' = Whole /\ Tip' = Tip
    BY <1>1 DEF vars, Whole, Tip
  <2>. QED BY <1>1, <2>1 DEF vars, WholeFits, Sized
<1>2. CASE Next
  BY <1>2, StepShape, CommitFits, MovesFit
<1>. QED BY <1>1, <1>2

(* With nothing left to redo, the exported state is one that               *)
(* RestoreJournal accepts: no undo or redo brings a source or a transition *)
(* back that would break a limit a commit had to respect.                  *)
THEOREM Restorable == Spec => []NewestRestorable
<1>1. TypeOK /\ HistoryIsOneLine /\ SequencesIncrease /\ EntriesBounded /\ WholeFits
        => NewestRestorable
  <2> SUFFICES ASSUME TypeOK, HistoryIsOneLine, SequencesIncrease, EntriesBounded, WholeFits,
                      redo = <<>>
               PROVE  RestoreAdmits
    BY DEF NewestRestorable
  <2>1. Len(redo) = 0 /\ Len(undo) \in Nat /\ undo \o redo = undo
    BY DEF TypeOK
  <2>2. FileBytes + JournalBytes(source, undo) <= MaxBytes
    BY <2>1, WholeIsUndo DEF WholeFits, NothingUndone
  <2>3. /\ FileBytes \in Nat /\ MaxBytes \in Nat /\ Size[source] \in Nat
        /\ JournalBytes(source, undo) \in Nat /\ Size[source] <= JournalBytes(source, undo)
    BY HeadIsCounted, JournalConstants DEF TypeOK
  <2>4. FileBytes + Size[source] <= MaxBytes
    BY <2>2, <2>3
  <2>5. \A list \in {undo, redo} : \A i \in DOMAIN list :
          /\ list[i].seq <= sequence
          /\ Size[list[i].before] <= MaxSourceBytes /\ Size[list[i].after] <= MaxSourceBytes
    BY DEF TypeOK, WholeFits, Sized, SequencesIncrease
  <2>6. Len(undo) <= MaxEntries /\ Len(redo) <= MaxEntries
    BY <2>1, JournalConstants DEF EntriesBounded
  <2>7. Size[source] <= MaxSourceBytes
    BY DEF WholeFits
  <2>. QED BY <2>1, <2>2, <2>4, <2>5, <2>6, <2>7 DEF RestoreAdmits, HistoryIsOneLine, Newest
<1>2. Spec => []WholeFits
  BY InitFits, NextFits, TypeCorrect, PTL DEF Spec
<1>. QED BY <1>1, <1>2, TypeCorrect, OneLine, Increasing, Bounded, PTL

-----------------------------------------------------------------------------
(* What the requests did is what the names of a catalog say.               *)
Agrees(did, c) == \A n \in DOMAIN did : did[n] = "add" <=> n \in DOMAIN c

(* A list of fields, so that an EXCEPT keeps the others.                   *)
Posted(p) == p = [phase |-> p.phase, mutation |-> p.mutation, seen |-> p.seen,
                  text |-> p.text, loaded |-> p.loaded, owed |-> p.owed]

Changing == {"check", "load", "stage", "publish", "reload", "install", "reply"}

Waiting(p) == p.phase \in {"idle", "posted", "done"}

(* What a request holds in its hands, by its phase.  The catalog it loaded *)
(* agrees with all that was acknowledged, until it is changed, and then    *)
(* with all but the name it changes; once published, what is owed agrees   *)
(* with the manifest, and once it is installed with the memory.            *)
Carries(r, p) ==
  /\ Posted(p) /\ (p.phase \in Changing \/ Waiting(p))
  /\ p.phase \in Changing => editing = r
  /\ p.phase = "stage" => Agrees(kept, p.loaded)
  /\ p.phase = "publish" =>
       /\ p.mutation.op = "add" <=> p.mutation.name \in DOMAIN p.loaded
       /\ Agrees(Restrict(kept, DOMAIN kept \ {p.mutation.name}), p.loaded)
  /\ p.phase \in {"reload", "install", "reply"} => Agrees(p.owed, manifest)
  /\ p.phase = "install" => Agrees(kept, p.loaded) /\ Agrees(p.owed, p.loaded)
  /\ p.phase = "reply" => Agrees(p.owed, catalog)

KeptInv ==
  /\ post = [r \in Requests |-> post[r]]
  /\ \A r \in Requests : Carries(r, post[r])
  /\ Agrees(kept, manifest)
  /\ up => Agrees(kept, catalog)

(* A catalog that was loaded, or changed and found valid, can be loaded as *)
(* long as no file has changed.                                            *)
Sound(p) ==
  /\ p.phase \in {"stage", "publish"} /\ spent.files = 0 => Loadable(p.loaded)
  /\ p.phase = "publish" => ReplacementsHold(p.loaded)

WholeInv ==
  /\ spent \in [outside : Nat, files : Nat, crashes : Nat]
  /\ \A r \in Requests : Sound(post[r])
  /\ ManifestIsWhole

(* The same of the reviews.                                                *)
Reviewed(v) == v = [phase |-> v.phase, kind |-> v.kind, seen |-> v.seen, copy |-> v.copy]

Complete(s) ==
  /\ s = [comments |-> s.comments, reference |-> s.reference]
  /\ s.reference # None /\ s.reference.diff # None =>
       {s.reference.digest, s.reference.diff} \subseteq artifacts

NotWriting == {"idle", "posted", "lock", "done"}

Writing == {"read", "artifact", "diff", "write", "reply"}

ReviewCarries(r, v) ==
  /\ Reviewed(v) /\ (v.phase \in Writing \/ v.phase \in NotWriting)
  /\ v.phase \in Writing => reviewing = r
  /\ v.phase \in {"artifact", "diff"} => v.copy = sidecar /\ v.kind = "reference"
  /\ v.phase = "diff" => <<r>> \in artifacts
  /\ v.phase = "write" =>
       /\ Complete(v.copy) /\ sidecar.comments \subseteq v.copy.comments
       /\ v.kind = "comment" => r \in v.copy.comments
  /\ v.phase = "reply" /\ v.kind = "comment" => r \in sidecar.comments

ReviewInv ==
  /\ review = [r \in Reviewers |-> review[r]]
  /\ \A r \in Reviewers : ReviewCarries(r, review[r])
  /\ Complete(sidecar) /\ Readable(sidecar)
  /\ promised \subseteq sidecar.comments

-----------------------------------------------------------------------------
LEMMA AgreesWithNothing ==
  ASSUME NEW c
  PROVE  Agrees(<<>>, c)
BY DEF Agrees

LEMMA AgreesLess ==
  ASSUME NEW did, NEW c, NEW S \in SUBSET DOMAIN did, Agrees(did, c)
  PROVE  Agrees(Restrict(did, S), c)
BY DEF Agrees, Restrict

LEMMA AgreesMore ==
  ASSUME NEW did, NEW more, NEW c, Agrees(did, c), Agrees(more, c)
  PROVE  Agrees(Over(more, did), c)
BY DEF Agrees, Over

LEMMA AgreesOne ==
  ASSUME NEW name, NEW op, NEW c, op = "add" <=> name \in DOMAIN c
  PROVE  Agrees(Only(name, op), c)
BY DEF Agrees, Only

(* A request that waits carries nothing, whatever the others do.           *)
LEMMA WaitingCarries ==
  ASSUME NEW q, NEW p, Posted(p), Waiting(p)
  PROVE  Carries(q, p) /\ Carries(q, p)'
BY DEF Carries, Waiting, Changing, Posted

LEMMA MovedOn ==
  ASSUME NEW p, Posted(p), NEW phase, NEW n, n = [p EXCEPT !.phase = phase]
  PROVE  /\ n = [phase |-> phase, mutation |-> p.mutation, seen |-> p.seen, text |-> p.text,
                 loaded |-> p.loaded, owed |-> p.owed]
         /\ Posted(n) /\ n.phase = phase /\ n.mutation = p.mutation
         /\ n.loaded = p.loaded /\ n.owed = p.owed
<1>1. PICK a, b, c, d, e, f : p = [phase |-> a, mutation |-> b, seen |-> c, text |-> d,
                                   loaded |-> e, owed |-> f]
  BY DEF Posted
<1>2. n = [phase |-> phase, mutation |-> b, seen |-> c, text |-> d, loaded |-> e, owed |-> f]
  BY <1>1
<1> QED BY <1>1, <1>2 DEF Posted

WithText(p, phase, x) == [p EXCEPT !.phase = phase, !.text = x]

LEMMA TookText ==
  ASSUME NEW p, Posted(p), NEW phase, NEW x,
         NEW n, n = WithText(p, phase, x)
  PROVE  Posted(n) /\ n.phase = phase
<1>1. PICK q : q = [p EXCEPT !.phase = phase]
  OBVIOUS
<1>2. n = [q EXCEPT !.text = x]
  BY <1>1, Zenon DEF WithText
<1>3. q = [phase |-> phase, mutation |-> p.mutation, seen |-> p.seen, text |-> p.text,
           loaded |-> p.loaded, owed |-> p.owed]
  BY <1>1, MovedOn
<1>4. n = [phase |-> phase, mutation |-> p.mutation, seen |-> p.seen, text |-> x,
           loaded |-> p.loaded, owed |-> p.owed]
  BY <1>2, <1>3
<1> QED BY <1>4 DEF Posted

WithCatalog(p, phase, x) == [p EXCEPT !.phase = phase, !.loaded = x]

LEMMA TookCatalog ==
  ASSUME NEW p, Posted(p), NEW phase, NEW x,
         NEW n, n = WithCatalog(p, phase, x)
  PROVE  Posted(n) /\ n.phase = phase /\ n.loaded = x /\ n.mutation = p.mutation /\ n.owed = p.owed
<1>1. PICK q : q = [p EXCEPT !.phase = phase]
  OBVIOUS
<1>2. n = [q EXCEPT !.loaded = x]
  BY <1>1, Zenon DEF WithCatalog
<1>3. q = [phase |-> phase, mutation |-> p.mutation, seen |-> p.seen, text |-> p.text,
           loaded |-> p.loaded, owed |-> p.owed]
  BY <1>1, MovedOn
<1>4. n = [phase |-> phase, mutation |-> p.mutation, seen |-> p.seen, text |-> p.text,
           loaded |-> x, owed |-> p.owed]
  BY <1>2, <1>3
<1> QED BY <1>4 DEF Posted

WithDebt(p, phase, x) == [p EXCEPT !.phase = phase, !.owed = x]

LEMMA TookDebt ==
  ASSUME NEW p, Posted(p), NEW phase, NEW x,
         NEW n, n = WithDebt(p, phase, x)
  PROVE  Posted(n) /\ n.phase = phase /\ n.owed = x
<1>1. PICK q : q = [p EXCEPT !.phase = phase]
  OBVIOUS
<1>2. n = [q EXCEPT !.owed = x]
  BY <1>1, Zenon DEF WithDebt
<1>3. q = [phase |-> phase, mutation |-> p.mutation, seen |-> p.seen, text |-> p.text,
           loaded |-> p.loaded, owed |-> p.owed]
  BY <1>1, MovedOn
<1>4. n = [phase |-> phase, mutation |-> p.mutation, seen |-> p.seen, text |-> p.text,
           loaded |-> p.loaded, owed |-> x]
  BY <1>2, <1>3
<1> QED BY <1>4 DEF Posted

LEMMA DroppedDebt ==
  ASSUME NEW p, Posted(p), NEW x, NEW n, n = [p EXCEPT !.owed = x]
  PROVE  /\ Posted(n) /\ n.phase = p.phase /\ n.mutation = p.mutation
         /\ n.loaded = p.loaded /\ n.owed = x
<1>1. PICK a, b, c, d, e, f : p = [phase |-> a, mutation |-> b, seen |-> c, text |-> d,
                                   loaded |-> e, owed |-> f]
  BY DEF Posted
<1>2. n = [phase |-> a, mutation |-> b, seen |-> c, text |-> d, loaded |-> e, owed |-> x]
  BY <1>1
<1> QED BY <1>1, <1>2 DEF Posted

LEMMA AskedFor ==
  ASSUME NEW m, NEW seen
  PROVE  LET n == [Idle EXCEPT !.phase = "posted", !.mutation = m, !.seen = seen] IN
         Posted(n) /\ Waiting(n)
<1>1. PICK p : p = [Idle EXCEPT !.phase = "posted"]
  OBVIOUS
<1>2. PICK q : q = [p EXCEPT !.mutation = m]
  OBVIOUS
<1>3. [Idle EXCEPT !.phase = "posted", !.mutation = m, !.seen = seen] = [q EXCEPT !.seen = seen]
  BY <1>1, <1>2, Zenon
<1>4. p = [phase |-> "posted", mutation |-> None, seen |-> None, text |-> None,
           loaded |-> None, owed |-> <<>>]
  BY <1>1 DEF Idle
<1>5. q = [phase |-> "posted", mutation |-> m, seen |-> None, text |-> None,
           loaded |-> None, owed |-> <<>>]
  BY <1>2, <1>4
<1>6. [q EXCEPT !.seen = seen] = [phase |-> "posted", mutation |-> m, seen |-> seen, text |-> None,
                                  loaded |-> None, owed |-> <<>>]
  BY <1>5
<1> QED BY <1>3, <1>6, ZenonT(30) DEF Posted, Waiting

LEMMA IdlePosted ==
  /\ Posted(Idle) /\ Waiting(Idle)
  /\ Posted([Idle EXCEPT !.phase = "done"]) /\ Waiting([Idle EXCEPT !.phase = "done"])
BY DEF Posted, Waiting, Idle

LEMMA OneChanges ==
  ASSUME KeptInv, NEW r \in Requests, NEW q \in Requests, q # r,
         editing = r \/ editing = None
  PROVE  Posted(post[q]) /\ Waiting(post[q])
BY NoneIsNoRequest DEF KeptInv, Carries

(* A step of the request that holds the lock.                              *)
LEMMA HolderSteps ==
  ASSUME KeptInv, NEW r \in Requests, NEW p,
         editing = r \/ editing = None,
         post' = [post EXCEPT ![r] = p], Carries(r, p)',
         Agrees(kept, manifest)', (up => Agrees(kept, catalog))'
  PROVE  KeptInv'
<1>1. post' = [q \in Requests |-> post'[q]] /\ post'[r] = p
      /\ \A q \in Requests \ {r} : post'[q] = post[q]
  BY DEF KeptInv
<1>2. ASSUME NEW q \in Requests PROVE Carries(q, post[q])'
  <2>1. CASE q = r BY <2>1, <1>1
  <2>2. CASE q # r
    <3>1. Posted(post[q]) /\ Waiting(post[q]) BY <2>2, OneChanges
    <3>2. PICK w : w = post[q] OBVIOUS
    <3>3. Carries(q, w)' BY <3>1, <3>2, WaitingCarries
    <3>4. post'[q] = w BY <3>2, <1>1, <2>2
    <3> QED BY <3>3, <3>4
  <2> QED BY <2>1, <2>2
<1> QED BY <1>1, <1>2 DEF KeptInv

(* A step of a request that waits and goes on waiting.                     *)
LEMMA WaiterSteps ==
  ASSUME KeptInv, NEW r \in Requests, NEW p, Posted(p), Waiting(p),
         post' = [post EXCEPT ![r] = p],
         UNCHANGED <<editing, kept, manifest, catalog, up>>
  PROVE  KeptInv'
<1>1. post' = [q \in Requests |-> post'[q]] /\ post'[r] = p
      /\ \A q \in Requests \ {r} : post'[q] = post[q]
  BY DEF KeptInv
<1>2. ASSUME NEW q \in Requests PROVE Carries(q, post[q])'
  <2>1. CASE q = r BY <2>1, <1>1, WaitingCarries
  <2>2. CASE q # r
    <3>1. post'[q] = post[q] /\ Carries(q, post[q]) BY <1>1, <2>2 DEF KeptInv
    <3> QED BY <3>1 DEF Carries
  <2> QED BY <2>1, <2>2
<1> QED BY <1>1, <1>2 DEF KeptInv

-----------------------------------------------------------------------------
(* Each step of a request, and of the world around it.                     *)
LEMMA RequestKeeps ==
  ASSUME KeptInv, NEW r \in Requests, CatalogStep(r)
  PROVE  KeptInv'
<1>0. /\ Carries(r, post[r]) /\ Agrees(kept, manifest) /\ (up => Agrees(kept, catalog))
      /\ Posted(post[r])
  BY DEF KeptInv, Carries
<1> DEFINE p == post[r]
<1>1. CASE \E m \in Mutations : Post(r, m)
  <2>1. PICK m \in Mutations : Post(r, m) BY <1>1
  <2> DEFINE n == [Idle EXCEPT !.phase = "posted", !.mutation = m, !.seen = Revision(sourceText, catalog)]
  <2>2. Posted(n) /\ Waiting(n) BY AskedFor
  <2>3. post' = [post EXCEPT ![r] = n] /\ UNCHANGED <<editing, kept, manifest, catalog, up>>
    BY <2>1 DEF Post, disk
  <2> HIDE DEF n
  <2> QED BY <2>2, <2>3, WaiterSteps
<1>2. CASE Accept(r)
  <2>1. PICK n : n = WithText(p, "check", sourceText)
    OBVIOUS
  <2>2. /\ editing = None /\ editing' = r /\ post' = [post EXCEPT ![r] = n]
        /\ UNCHANGED <<kept, manifest, catalog, up>>
    BY <1>2, <2>1 DEF Accept, disk, WithText
  <2>3. Posted(n) /\ n.phase = "check"
    BY <1>0, <2>1, TookText
  <2>4. Carries(r, n)'
    BY <2>2, <2>3 DEF Carries, Changing, Posted
  <2> QED BY <1>0, <2>2, <2>4, HolderSteps DEF Agrees
<1>3. CASE Check(r)
  <2>1. PICK n : n = [p EXCEPT !.phase = "load"]
    OBVIOUS
  <2>2. /\ p.phase = "check" /\ post' = [post EXCEPT ![r] = n]
        /\ UNCHANGED <<editing, kept, manifest, catalog, up>>
    BY <1>3, <2>1 DEF Check, GoTo, At, disk
  <2>3. Posted(n) /\ n.phase = "load"
    BY <1>0, <2>1, MovedOn
  <2>4. editing = r
    BY <1>0, <2>2 DEF Carries, Changing
  <2>5. Carries(r, n)'
    BY <2>2, <2>3, <2>4 DEF Carries, Changing, Posted
  <2> QED BY <1>0, <2>2, <2>4, <2>5, HolderSteps DEF Agrees
<1>4. CASE Load(r)
  <2>1. PICK n : n = WithCatalog(p, "stage", manifest)
    OBVIOUS
  <2>2. /\ p.phase = "load" /\ post' = [post EXCEPT ![r] = n]
        /\ UNCHANGED <<editing, kept, manifest, catalog, up>>
    BY <1>4, <2>1 DEF Load, Carry, At, disk, WithCatalog
  <2>3. Posted(n) /\ n.phase = "stage" /\ n.loaded = manifest
    BY <1>0, <2>1, TookCatalog
  <2>4. editing = r
    BY <1>0, <2>2 DEF Carries, Changing
  <2>5. Carries(r, n)'
    BY <1>0, <2>2, <2>3, <2>4 DEF Carries, Changing, Posted, Agrees
  <2> QED BY <1>0, <2>2, <2>4, <2>5, HolderSteps DEF Agrees
<1>5. CASE Stage(r)
  <2> DEFINE mut == p.mutation
             new == IF mut.op = "add"
                    THEN Over(Only(mut.name, ManifestEntry(mut, files[mut.path])), p.loaded)
                    ELSE Restrict(p.loaded, DOMAIN p.loaded \ {mut.name})
  <2>1. PICK n : n = WithCatalog(p, "publish", new)
    OBVIOUS
  <2>2. /\ p.phase = "stage" /\ post' = [post EXCEPT ![r] = n]
        /\ UNCHANGED <<editing, kept, manifest, catalog, up>>
    BY <1>5, <2>1 DEF Stage, Carry, At, disk, WithCatalog
  <2>3. DOMAIN new = IF mut.op = "add" THEN DOMAIN p.loaded \cup {mut.name}
                     ELSE DOMAIN p.loaded \ {mut.name}
    BY DEF Over, Only, Restrict
  <2> HIDE DEF new
  <2>4. Posted(n) /\ n.phase = "publish" /\ n.loaded = new /\ n.mutation = mut
    BY <1>0, <2>1, TookCatalog
  <2>5. editing = r /\ Agrees(kept, p.loaded)
    BY <1>0, <2>2 DEF Carries, Changing
  <2>6. Agrees(Restrict(kept, DOMAIN kept \ {n.mutation.name}), n.loaded)
    BY <2>3, <2>4, <2>5 DEF Agrees, Restrict
  <2>7. n.mutation.op = "add" <=> n.mutation.name \in DOMAIN n.loaded
    BY <2>3, <2>4
  <2>8. Carries(r, n)'
    BY <2>2, <2>4, <2>5, <2>6, <2>7 DEF Carries, Changing, Posted
  <2> QED BY <1>0, <2>2, <2>5, <2>8, HolderSteps DEF Agrees
<1>6. CASE Publish(r)
  <2> DEFINE mut == p.mutation
  <2>1. PICK n : n = WithDebt(p, "reload", Only(mut.name, mut.op))
    OBVIOUS
  <2>2. /\ p.phase = "publish" /\ post' = [post EXCEPT ![r] = n]
        /\ manifest' = p.loaded /\ kept' = Restrict(kept, DOMAIN kept \ {mut.name})
        /\ UNCHANGED <<editing, catalog, up>>
    BY <1>6, <2>1 DEF Publish, At, disk, WithDebt
  <2>3. Posted(n) /\ n.phase = "reload" /\ n.owed = Only(mut.name, mut.op)
    BY <1>0, <2>1, TookDebt
  <2>4. /\ editing = r
        /\ mut.op = "add" <=> mut.name \in DOMAIN p.loaded
        /\ Agrees(Restrict(kept, DOMAIN kept \ {mut.name}), p.loaded)
    BY <1>0, <2>2 DEF Carries, Changing
  <2>5. Agrees(n.owed, p.loaded)
    BY <2>3, <2>4, AgreesOne
  <2>6. Carries(r, n)'
    BY <2>2, <2>3, <2>4, <2>5 DEF Carries, Changing, Posted
  <2>7. up => Agrees(Restrict(kept, DOMAIN kept \ {mut.name}), catalog)
    BY <1>0 DEF Agrees, Restrict
  <2>8. Agrees(kept, manifest)' /\ (up => Agrees(kept, catalog))'
    BY <2>2, <2>4, <2>7
  <2> QED BY <2>2, <2>4, <2>6, <2>8, HolderSteps
<1>7. CASE Reload(r)
  <2>1. PICK n : n = WithCatalog(p, "install", manifest)
    OBVIOUS
  <2>2. /\ p.phase = "reload" /\ post' = [post EXCEPT ![r] = n]
        /\ UNCHANGED <<editing, kept, manifest, catalog, up>>
    BY <1>7, <2>1 DEF Reload, Carry, At, disk, WithCatalog
  <2>3. Posted(n) /\ n.phase = "install" /\ n.loaded = manifest /\ n.owed = p.owed
    BY <1>0, <2>1, TookCatalog
  <2>4. editing = r /\ Agrees(p.owed, manifest)
    BY <1>0, <2>2 DEF Carries, Changing
  <2>5. Carries(r, n)'
    BY <1>0, <2>2, <2>3, <2>4 DEF Carries, Changing, Posted, Agrees
  <2> QED BY <1>0, <2>2, <2>4, <2>5, HolderSteps DEF Agrees
<1>8. CASE SetProjectResources(r)
  <2>1. PICK n : n = [p EXCEPT !.phase = "reply"]
    OBVIOUS
  <2>2. /\ p.phase = "install" /\ post' = [post EXCEPT ![r] = n] /\ catalog' = p.loaded
        /\ UNCHANGED <<editing, kept, manifest, up>>
    BY <1>8, <2>1 DEF SetProjectResources, GoTo, At, disk
  <2>3. Posted(n) /\ n.phase = "reply" /\ n.owed = p.owed
    BY <1>0, <2>1, MovedOn
  <2>4. /\ editing = r
        /\ Agrees(p.owed, manifest) /\ Agrees(p.owed, p.loaded) /\ Agrees(kept, p.loaded)
    BY <1>0, <2>2 DEF Carries, Changing
  <2>5. Carries(r, n)'
    BY <1>0, <2>2, <2>3, <2>4 DEF Carries, Changing, Posted, Agrees
  <2> QED BY <1>0, <2>2, <2>4, <2>5, HolderSteps DEF Agrees
<1>9. CASE Reply(r)
  <2> DEFINE n == [Idle EXCEPT !.phase = "done"]
  <2>1. /\ p.phase = "reply" /\ post' = [post EXCEPT ![r] = n] /\ kept' = Over(p.owed, kept)
        /\ up /\ UNCHANGED <<manifest, catalog, up>>
    BY <1>9 DEF Reply, At, disk
  <2>2. editing = r /\ Agrees(p.owed, manifest) /\ Agrees(p.owed, catalog)
    BY <1>0, <2>1 DEF Carries, Changing
  <2>3. Posted(n) /\ Waiting(n) BY IdlePosted
  <2> HIDE DEF n
  <2>4. Carries(r, n)' BY <2>3, WaitingCarries
  <2>5. Agrees(Over(p.owed, kept), manifest) /\ Agrees(Over(p.owed, kept), catalog)
    BY <1>0, <2>1, <2>2, AgreesMore
  <2> QED BY <2>1, <2>2, <2>4, <2>5, HolderSteps
<1>10. CASE Refuse(r)
  <2> DEFINE n == [Idle EXCEPT !.phase = "done"]
  <2>1. /\ editing' = (IF editing = r THEN None ELSE editing) /\ post' = [post EXCEPT ![r] = n]
        /\ UNCHANGED <<kept, manifest, catalog, up>>
    BY <1>10 DEF Refuse, disk
  <2>2. Posted(n) /\ Waiting(n) BY IdlePosted
  <2> HIDE DEF n
  <2>3. Carries(r, n)' BY <2>2, WaitingCarries
  <2>4. CASE editing = r
    BY <1>0, <2>1, <2>3, <2>4, HolderSteps DEF Agrees
  <2>5. CASE editing # r
    BY <2>1, <2>2, <2>5, WaiterSteps
  <2> QED BY <2>4, <2>5
<1> QED BY <1>1, <1>2, <1>3, <1>4, <1>5, <1>6, <1>7, <1>8, <1>9, <1>10 DEF CatalogStep

LEMMA WorldKeeps ==
  ASSUME KeptInv, OutsideStep \/ Start \/ Killed \/ UNCHANGED catalogVars
  PROVE  KeptInv'
<1>1. CASE UNCHANGED catalogVars
  BY <1>1 DEF KeptInv, Carries, catalogVars
<1>2. CASE SaveSource
  BY <1>2 DEF SaveSource, Outside, KeptInv, Carries
<1>3. CASE \E p \in Paths : ReplaceFile(p)
  BY <1>3 DEF ReplaceFile, Outside, KeptInv, Carries
<1>4. CASE EditManifest
  <2>1. /\ kept' = <<>> /\ UNCHANGED <<catalog, up, editing>>
        /\ post' = [x \in Requests |-> [post[x] EXCEPT !.owed = <<>>]]
    BY <1>4 DEF EditManifest, Outside
  <2>2. Agrees(kept, manifest)' /\ Agrees(kept, catalog)'
    BY <2>1, AgreesWithNothing
  <2>3. ASSUME NEW r \in Requests PROVE Carries(r, post[r])'
    <3>0. PICK p, n : p = post[r] /\ n = [p EXCEPT !.owed = <<>>]
      OBVIOUS
    <3>1. Carries(r, p) /\ Posted(p)
      BY <3>0 DEF KeptInv, Carries
    <3>2. /\ Posted(n) /\ n.phase = p.phase /\ n.mutation = p.mutation /\ n.loaded = p.loaded
          /\ n.owed = <<>>
      BY <3>0, <3>1, DroppedDebt
    <3>3. post'[r] = n
      BY <2>1, <3>0
    <3>4. /\ kept' = n.owed /\ Agrees(n.owed, manifest') /\ Agrees(n.owed, catalog)
          /\ Agrees(n.owed, n.loaded)
      BY <2>1, <3>2, AgreesWithNothing
    <3>5. Agrees(Restrict(kept', DOMAIN kept' \ {n.mutation.name}), n.loaded)
      BY <3>4 DEF Agrees, Restrict
    <3>6. p.phase = "publish" => (n.mutation.op = "add" <=> n.mutation.name \in DOMAIN n.loaded)
      BY <3>1, <3>2 DEF Carries
    <3>7. p.phase \in Changing => editing' = r
      BY <2>1, <3>1 DEF Carries
    <3>8. n.phase \in Changing \/ Waiting(n)
      BY <3>1, <3>2 DEF Carries, Waiting
    <3>9. Carries(r, n)'
      BY <2>1, <3>2, <3>4, <3>5, <3>6, <3>7, <3>8 DEF Carries
    <3> QED BY <3>3, <3>9
  <2> QED BY <2>1, <2>2, <2>3 DEF KeptInv
<1>5. CASE Start
  BY <1>5 DEF Start, KeptInv, Carries, disk, Agrees
<1>6. CASE Killed
  <2>1. /\ up' = FALSE /\ UNCHANGED <<kept, manifest>>
        /\ post' = [r \in Requests |-> IF post[r].phase = "idle" THEN Idle ELSE [Idle EXCEPT !.phase = "done"]]
    BY <1>6 DEF Killed, disk
  <2>2. ASSUME NEW r \in Requests PROVE Carries(r, post[r])'
    <3>1. PICK n : n = post'[r] /\ Posted(n) /\ Waiting(n) BY <2>1, IdlePosted
    <3> QED BY <3>1, WaitingCarries
  <2> QED BY <2>1, <2>2 DEF KeptInv
<1> QED BY <1>1, <1>2, <1>3, <1>4, <1>5, <1>6 DEF OutsideStep

-----------------------------------------------------------------------------
(* What a change makes of a catalog that can be loaded can be loaded if it *)
(* is valid: the new entry has the digest of its file.                     *)
LEMMA ChangedLoads ==
  ASSUME NEW old, NEW mut, NEW new, Loadable(old), Valid(new),
         new = IF mut.op = "add" THEN Over(Only(mut.name, ManifestEntry(mut, files[mut.path])), old)
               ELSE Restrict(old, DOMAIN old \ {mut.name})
  PROVE  Loadable(new)
<1>1. ASSUME NEW n \in DOMAIN new PROVE files[new[n].path] = new[n].digest
  <2>1. CASE mut.op = "add" /\ n = mut.name
    <3>1. new[n] = ManifestEntry(mut, files[mut.path])
      BY <2>1 DEF Over, Only
    <3> QED BY <3>1 DEF ManifestEntry
  <2>2. CASE ~(mut.op = "add" /\ n = mut.name)
    <3>1. n \in DOMAIN old /\ new[n] = old[n]
      BY <1>1, <2>2 DEF Over, Only, Restrict
    <3> QED BY <3>1 DEF Loadable
  <2> QED BY <2>1, <2>2
<1> QED BY <1>1 DEF Loadable

LEMMA SoundSteps ==
  ASSUME KeptInv, WholeInv, NEW r \in Requests, NEW n, Sound(n),
         post' = [post EXCEPT ![r] = n], UNCHANGED <<files, spent>>, ManifestIsWhole'
  PROVE  WholeInv'
<1>1. post'[r] = n /\ \A q \in Requests \ {r} : post'[q] = post[q]
  BY DEF KeptInv
<1>2. ASSUME NEW q \in Requests PROVE Sound(post[q])'
  <2>1. PICK p : p = post'[q] /\ Sound(p)
    BY <1>1 DEF WholeInv
  <2> QED BY <2>1 DEF Sound, Loadable
<1> QED BY <1>2 DEF WholeInv

LEMMA OthersSound ==
  ASSUME NEW n, n.phase \notin {"stage", "publish"}
  PROVE  Sound(n) /\ Sound(n)'
BY DEF Sound

LEMMA RequestWhole ==
  ASSUME KeptInv, WholeInv, NEW r \in Requests, CatalogStep(r)
  PROVE  WholeInv'
<1> DEFINE p == post[r]
<1>0. Posted(p) /\ Sound(p) /\ ManifestIsWhole
  BY DEF KeptInv, Carries, WholeInv
<1>1. CASE Load(r)
  <2>1. PICK n : n = WithCatalog(p, "stage", manifest)
    OBVIOUS
  <2>2. /\ Loadable(manifest) /\ post' = [post EXCEPT ![r] = n]
        /\ UNCHANGED <<files, manifest, spent>>
    BY <1>1, <2>1 DEF Load, Carry, disk, WithCatalog
  <2>3. n.phase = "stage" /\ n.loaded = manifest
    BY <1>0, <2>1, TookCatalog
  <2>4. Sound(n)
    BY <2>2, <2>3 DEF Sound
  <2>5. ManifestIsWhole'
    BY <1>0, <2>2 DEF ManifestIsWhole, Loadable
  <2> QED BY <2>2, <2>4, <2>5, SoundSteps
<1>2. CASE Stage(r)
  <2> DEFINE mut == p.mutation
             new == IF mut.op = "add"
                    THEN Over(Only(mut.name, ManifestEntry(mut, files[mut.path])), p.loaded)
                    ELSE Restrict(p.loaded, DOMAIN p.loaded \ {mut.name})
  <2>1. PICK n : n = WithCatalog(p, "publish", new)
    OBVIOUS
  <2>2. /\ p.phase = "stage" /\ Valid(new) /\ post' = [post EXCEPT ![r] = n]
        /\ UNCHANGED <<files, manifest, spent>>
    BY <1>2, <2>1 DEF Stage, Carry, At, disk, Publishable, WithCatalog
  <2>3. spent.files = 0 => Loadable(new)
    BY <1>0, <2>2, ChangedLoads DEF Sound
  <2> HIDE DEF new
  <2>4. n.phase = "publish" /\ n.loaded = new
    BY <1>0, <2>1, TookCatalog
  <2>5. Sound(n)
    BY <2>2, <2>3, <2>4 DEF Sound, Valid
  <2>6. ManifestIsWhole'
    BY <1>0, <2>2 DEF ManifestIsWhole, Loadable
  <2> QED BY <2>2, <2>5, <2>6, SoundSteps
<1>3. CASE Publish(r)
  <2> DEFINE mut == p.mutation
  <2>1. PICK n : n = WithDebt(p, "reload", Only(mut.name, mut.op))
    OBVIOUS
  <2>2. /\ p.phase = "publish" /\ post' = [post EXCEPT ![r] = n]
        /\ manifest' = p.loaded /\ UNCHANGED <<files, spent>>
    BY <1>3, <2>1 DEF Publish, At, disk, WithDebt
  <2>3. n.phase = "reload"
    BY <1>0, <2>1, TookDebt
  <2>4. Sound(n)
    BY <2>3, OthersSound
  <2>5. ManifestIsWhole'
    BY <1>0, <2>2 DEF Sound, ManifestIsWhole, Loadable
  <2> QED BY <2>2, <2>4, <2>5, SoundSteps
<1>4. CASE Reload(r)
  <2>1. PICK n : n = WithCatalog(p, "install", manifest)
    OBVIOUS
  <2>2. post' = [post EXCEPT ![r] = n] /\ UNCHANGED <<files, manifest, spent>>
    BY <1>4, <2>1 DEF Reload, Carry, disk, WithCatalog
  <2>3. n.phase = "install"
    BY <1>0, <2>1, TookCatalog
  <2>4. Sound(n) /\ ManifestIsWhole'
    BY <1>0, <2>2, <2>3, OthersSound DEF ManifestIsWhole, Loadable
  <2> QED BY <2>2, <2>4, SoundSteps
<1>5. CASE Accept(r)
  <2>1. PICK n : n = WithText(p, "check", sourceText)
    OBVIOUS
  <2>2. post' = [post EXCEPT ![r] = n] /\ UNCHANGED <<files, manifest, spent>>
    BY <1>5, <2>1 DEF Accept, disk, WithText
  <2>3. n.phase = "check"
    BY <1>0, <2>1, TookText
  <2>4. Sound(n) /\ ManifestIsWhole'
    BY <1>0, <2>2, <2>3, OthersSound DEF ManifestIsWhole, Loadable
  <2> QED BY <2>2, <2>4, SoundSteps
<1>6. CASE Check(r) \/ SetProjectResources(r)
  <2>1. PICK phase \in {"load", "reply"} :
          post' = [post EXCEPT ![r].phase = phase] /\ UNCHANGED <<files, manifest, spent>>
    BY <1>6 DEF Check, SetProjectResources, GoTo, disk
  <2>2. PICK n : n = [p EXCEPT !.phase = phase]
    OBVIOUS
  <2>3. n.phase = phase
    BY <1>0, <2>2, MovedOn
  <2>4. Sound(n) /\ ManifestIsWhole'
    BY <1>0, <2>1, <2>3, OthersSound DEF ManifestIsWhole, Loadable
  <2> QED BY <2>1, <2>2, <2>4, SoundSteps
<1>7. CASE \E m \in Mutations : Post(r, m)
  <2>1. PICK m \in Mutations : Post(r, m)
    BY <1>7
  <2>2. PICK n : n = [Idle EXCEPT !.phase = "posted", !.mutation = m, !.seen = Revision(sourceText, catalog)]
    OBVIOUS
  <2>3. post' = [post EXCEPT ![r] = n] /\ UNCHANGED <<files, manifest, spent>>
    BY <2>1, <2>2 DEF Post, disk
  <2>4. Waiting(n)
    BY <2>2, AskedFor
  <2>5. Sound(n) /\ ManifestIsWhole'
    BY <1>0, <2>3, <2>4, OthersSound DEF ManifestIsWhole, Loadable, Waiting
  <2> QED BY <2>3, <2>5, SoundSteps
<1>8. CASE Reply(r) \/ Refuse(r)
  <2>1. PICK n : n = [Idle EXCEPT !.phase = "done"]
    OBVIOUS
  <2>2. post' = [post EXCEPT ![r] = n] /\ UNCHANGED <<files, manifest, spent>>
    BY <1>8, <2>1 DEF Reply, Refuse, disk
  <2>3. Waiting(n)
    BY <2>1, IdlePosted
  <2>4. Sound(n) /\ ManifestIsWhole'
    BY <1>0, <2>2, <2>3, OthersSound DEF ManifestIsWhole, Loadable, Waiting
  <2> QED BY <2>2, <2>4, SoundSteps
<1> QED BY <1>1, <1>2, <1>3, <1>4, <1>5, <1>6, <1>7, <1>8 DEF CatalogStep

LEMMA SpentAdds ==
  ASSUME NEW a \in [outside : Nat, files : Nat, crashes : Nat], NEW n \in Nat,
         NEW b, b = [a EXCEPT !.outside = @ + 1, !.files = @ + n]
  PROVE  b \in [outside : Nat, files : Nat, crashes : Nat] /\ b.files = a.files + n
<1>1. PICK c : c = [a EXCEPT !.outside = @ + 1]
  OBVIOUS
<1>2. c \in [outside : Nat, files : Nat, crashes : Nat] /\ c.files = a.files
  BY <1>1
<1>3. b = [c EXCEPT !.files = a.files + n]
  BY <1>1, Zenon
<1> QED BY <1>2, <1>3

LEMMA WorldWhole ==
  ASSUME KeptInv, WholeInv, OutsideStep \/ Start \/ Killed \/ UNCHANGED catalogVars
  PROVE  WholeInv'
<1>1. CASE UNCHANGED catalogVars \/ Start
  BY <1>1 DEF WholeInv, Sound, ManifestIsWhole, Loadable, catalogVars, Start, disk
<1>2. CASE SaveSource
  <2>1. PICK b : /\ b = [spent EXCEPT !.outside = @ + 1, !.files = @ + 0] /\ spent' = b
                 /\ UNCHANGED <<files, manifest, post>>
    BY <1>2 DEF SaveSource, Outside
  <2>2. b.files = spent.files + 0 /\ b \in [outside : Nat, files : Nat, crashes : Nat]
    BY <2>1, SpentAdds, Zenon DEF WholeInv
  <2> QED BY <2>1, <2>2 DEF WholeInv, Sound, ManifestIsWhole, Loadable
<1>3. CASE EditManifest \/ \E p \in Paths : ReplaceFile(p)
  <2>0. PICK b : b = [spent EXCEPT !.outside = @ + 1, !.files = @ + 1] /\ spent' = b
    BY <1>3 DEF EditManifest, ReplaceFile, Outside
  <2>1. b.files = spent.files + 1 /\ b \in [outside : Nat, files : Nat, crashes : Nat]
    BY <2>0, SpentAdds, Zenon DEF WholeInv
  <2>2. spent'.files # 0 /\ spent' \in [outside : Nat, files : Nat, crashes : Nat]
    BY <2>0, <2>1 DEF WholeInv
  <2>3. manifest' \in Manifests \/ ReplacementsHold(manifest')
    BY <1>3 DEF EditManifest, ReplaceFile, WholeInv, ManifestIsWhole
  <2>4. ASSUME NEW q \in Requests PROVE Sound(post[q])'
    <3>1. post'[q].phase = post[q].phase /\ post'[q].loaded = post[q].loaded
      <4>1. CASE EditManifest
        <5>1. PICK p, n : p = post[q] /\ n = [p EXCEPT !.owed = <<>>]
          OBVIOUS
        <5>2. post'[q] = n
          BY <4>1, <5>1 DEF EditManifest
        <5>3. Posted(p)
          BY <5>1 DEF KeptInv, Carries
        <5> QED BY <5>1, <5>2, <5>3, DroppedDebt
      <4>2. CASE \E p \in Paths : ReplaceFile(p)
        BY <4>2 DEF ReplaceFile
      <4> QED BY <1>3, <4>1, <4>2
    <3> QED BY <2>2, <3>1 DEF WholeInv, Sound
  <2> QED BY <2>2, <2>3, <2>4 DEF WholeInv, ManifestIsWhole
<1>4. CASE Killed
  <2>1. /\ spent' = [spent EXCEPT !.crashes = @ + 1] /\ UNCHANGED <<files, manifest>>
        /\ post' = [r \in Requests |-> IF post[r].phase = "idle" THEN Idle ELSE [Idle EXCEPT !.phase = "done"]]
    BY <1>4 DEF Killed, disk
  <2>2. spent'.files = spent.files /\ spent' \in [outside : Nat, files : Nat, crashes : Nat]
    BY <2>1 DEF WholeInv
  <2>3. ASSUME NEW q \in Requests PROVE Sound(post[q])'
    <3>1. PICK n : n = post'[q] /\ Waiting(n)
      BY <2>1, IdlePosted
    <3> QED BY <3>1, OthersSound DEF Waiting
  <2> QED BY <2>1, <2>2, <2>3 DEF WholeInv, ManifestIsWhole, Loadable
<1> QED BY <1>1, <1>2, <1>3, <1>4 DEF OutsideStep

-----------------------------------------------------------------------------
(* The reviews.                                                            *)
LEMMA ReviewWaits ==
  ASSUME NEW q, NEW v, Reviewed(v), v.phase \in NotWriting
  PROVE  ReviewCarries(q, v) /\ ReviewCarries(q, v)'
BY DEF ReviewCarries, NotWriting, Writing, Reviewed

LEMMA ReviewMovedOn ==
  ASSUME NEW v, Reviewed(v), NEW phase, NEW n, n = [v EXCEPT !.phase = phase]
  PROVE  /\ n = [phase |-> phase, kind |-> v.kind, seen |-> v.seen, copy |-> v.copy]
         /\ Reviewed(n) /\ n.phase = phase /\ n.kind = v.kind /\ n.copy = v.copy
<1>1. PICK a, b, c, d : v = [phase |-> a, kind |-> b, seen |-> c, copy |-> d]
  BY DEF Reviewed
<1>2. n = [phase |-> phase, kind |-> b, seen |-> c, copy |-> d]
  BY <1>1
<1> QED BY <1>1, <1>2 DEF Reviewed

WithCopy(v, phase, copy) == [v EXCEPT !.phase = phase, !.copy = copy]

LEMMA TookCopy ==
  ASSUME NEW v, Reviewed(v), NEW phase, NEW copy, NEW n, n = WithCopy(v, phase, copy)
  PROVE  Reviewed(n) /\ n.phase = phase /\ n.kind = v.kind /\ n.copy = copy
<1>1. PICK q : q = [v EXCEPT !.phase = phase]
  OBVIOUS
<1>2. n = [q EXCEPT !.copy = copy]
  BY <1>1, Zenon DEF WithCopy
<1>3. q = [phase |-> phase, kind |-> v.kind, seen |-> v.seen, copy |-> v.copy]
  BY <1>1, ReviewMovedOn
<1>4. n = [phase |-> phase, kind |-> v.kind, seen |-> v.seen, copy |-> copy]
  BY <1>2, <1>3
<1> QED BY <1>4 DEF Reviewed

LEMMA PostedReview ==
  ASSUME NEW kind, NEW seen, NEW n,
         n = [Fresh EXCEPT !.phase = "posted", !.kind = kind, !.seen = seen]
  PROVE  Reviewed(n) /\ n.phase \in NotWriting
<1>1. PICK p : p = [Fresh EXCEPT !.phase = "posted"]
  OBVIOUS
<1>2. PICK q : q = [p EXCEPT !.kind = kind]
  OBVIOUS
<1>3. n = [q EXCEPT !.seen = seen]
  BY <1>1, <1>2, Zenon
<1>4. p = [phase |-> "posted", kind |-> None, seen |-> None, copy |-> None]
  BY <1>1 DEF Fresh
<1>5. q = [phase |-> "posted", kind |-> kind, seen |-> None, copy |-> None]
  BY <1>2, <1>4
<1>6. n = [phase |-> "posted", kind |-> kind, seen |-> seen, copy |-> None]
  BY <1>3, <1>5
<1> QED BY <1>6 DEF Reviewed, NotWriting

LEMMA FreshReviewed ==
  /\ Reviewed(Fresh) /\ Fresh.phase \in NotWriting
  /\ Reviewed(Finished) /\ Finished.phase \in NotWriting
BY DEF Reviewed, NotWriting, Fresh, Finished

(* A step of a review that holds the lock, or takes or leaves it.          *)
LEMMA WriterSteps ==
  ASSUME ReviewInv, NEW r \in Reviewers, NEW n,
         reviewing = r \/ reviewing = None,
         review' = [review EXCEPT ![r] = n], ReviewCarries(r, n)',
         Complete(sidecar)', Readable(sidecar)', promised' \subseteq sidecar'.comments
  PROVE  ReviewInv'
<1>1. review' = [q \in Reviewers |-> review'[q]] /\ review'[r] = n
      /\ \A q \in Reviewers \ {r} : review'[q] = review[q]
  BY DEF ReviewInv
<1>2. ASSUME NEW q \in Reviewers PROVE ReviewCarries(q, review[q])'
  <2>1. CASE q = r BY <2>1, <1>1
  <2>2. CASE q # r
    <3>1. PICK w : w = review[q] OBVIOUS
    <3>2. Reviewed(w) /\ w.phase \in NotWriting
      BY <2>2, <3>1, NoneIsNoReviewer DEF ReviewInv, ReviewCarries, NotWriting
    <3>3. ReviewCarries(q, w)' BY <3>2, ReviewWaits
    <3>4. review'[q] = w BY <3>1, <1>1, <2>2
    <3> QED BY <3>3, <3>4
  <2> QED BY <2>1, <2>2
<1> QED BY <1>1, <1>2 DEF ReviewInv

(* A step of a review that waits.                                          *)
LEMMA ReaderSteps ==
  ASSUME ReviewInv, NEW r \in Reviewers, NEW n, Reviewed(n), n.phase \in NotWriting,
         review' = [review EXCEPT ![r] = n],
         UNCHANGED <<reviewing, sidecar, artifacts, promised>>
  PROVE  ReviewInv'
<1>1. review' = [q \in Reviewers |-> review'[q]] /\ review'[r] = n
      /\ \A q \in Reviewers \ {r} : review'[q] = review[q]
  BY DEF ReviewInv
<1>2. ASSUME NEW q \in Reviewers PROVE ReviewCarries(q, review[q])'
  <2>1. CASE q = r BY <2>1, <1>1, ReviewWaits
  <2>2. CASE q # r
    <3>1. review'[q] = review[q] /\ ReviewCarries(q, review[q]) BY <1>1, <2>2 DEF ReviewInv
    <3> QED BY <3>1 DEF ReviewCarries, Complete
  <2> QED BY <2>1, <2>2
<1> QED BY <1>1, <1>2 DEF ReviewInv, Complete

(* The three things that a request may make of the sidecar it read.        *)
LEMMA ChangedCopies ==
  ASSUME Complete(sidecar), NEW r, NEW digest, NEW diff,
         diff = None \/ {digest, diff} \subseteq artifacts
  PROVE  /\ LET copy == [sidecar EXCEPT !.comments = @ \cup {r}] IN
              Complete(copy) /\ copy.comments = sidecar.comments \cup {r}
         /\ LET copy == [sidecar EXCEPT !.reference = Reference(digest, diff)] IN
              Complete(copy) /\ copy.comments = sidecar.comments
<1>1. PICK a, b : sidecar = [comments |-> a, reference |-> b]
  BY DEF Complete
<1>2. /\ [sidecar EXCEPT !.comments = @ \cup {r}] = [comments |-> a \cup {r}, reference |-> b]
      /\ [sidecar EXCEPT !.reference = Reference(digest, diff)] =
           [comments |-> a, reference |-> Reference(digest, diff)]
  BY <1>1
<1>3. Reference(digest, diff).digest = digest /\ Reference(digest, diff).diff = diff
  BY DEF Reference
<1> QED BY <1>1, <1>2, <1>3 DEF Complete

LEMMA ReviewKeeps ==
  ASSUME ReviewInv, NEW r \in Reviewers, ReviewStep(r)
  PROVE  ReviewInv'
<1>0. PICK v : v = review[r]
  OBVIOUS
<1>1. /\ Reviewed(v) /\ ReviewCarries(r, v) /\ Complete(sidecar) /\ Readable(sidecar)
      /\ promised \subseteq sidecar.comments
  BY <1>0 DEF ReviewInv, ReviewCarries
<1>2. v.phase \in Writing => reviewing = r
  BY <1>1 DEF ReviewCarries
<1>3. CASE \E kind \in ReviewKinds : PostReview(r, kind)
  <2>1. PICK kind \in ReviewKinds : PostReview(r, kind)
    BY <1>3
  <2>2. PICK n : n = [Fresh EXCEPT !.phase = "posted", !.kind = kind, !.seen = Revision(sourceText, catalog)]
    OBVIOUS
  <2>3. /\ review' = [review EXCEPT ![r] = n]
        /\ UNCHANGED <<reviewing, sidecar, artifacts, promised>>
    BY <2>1, <2>2 DEF PostReview
  <2>4. Reviewed(n) /\ n.phase \in NotWriting
    BY <2>2, PostedReview
  <2> QED BY <2>3, <2>4, ReaderSteps
<1>4. CASE ValidateReviewMutation(r)
  <2>1. PICK n : n = [v EXCEPT !.phase = "lock"]
    OBVIOUS
  <2>2. /\ review' = [review EXCEPT ![r] = n]
        /\ UNCHANGED <<reviewing, sidecar, artifacts, promised>>
    BY <1>4, <1>0, <2>1 DEF ValidateReviewMutation
  <2>3. Reviewed(n) /\ n.phase \in NotWriting
    BY <1>1, <2>1, ReviewMovedOn DEF NotWriting
  <2> QED BY <2>2, <2>3, ReaderSteps
<1>5. CASE LockReview(r)
  <2>1. PICK n : n = [v EXCEPT !.phase = "read"]
    OBVIOUS
  <2>2. /\ reviewing = None /\ reviewing' = r /\ review' = [review EXCEPT ![r] = n]
        /\ UNCHANGED <<sidecar, artifacts, promised>>
    BY <1>5, <1>0, <2>1 DEF LockReview, Lockable
  <2>3. Reviewed(n) /\ n.phase = "read"
    BY <1>1, <2>1, ReviewMovedOn
  <2>4. ReviewCarries(r, n)'
    BY <2>2, <2>3 DEF ReviewCarries, Writing, Reviewed
  <2>5. Complete(sidecar)' /\ Readable(sidecar)' /\ promised' \subseteq sidecar'.comments
    BY <1>1, <2>2 DEF Complete, Readable
  <2> QED BY <2>2, <2>4, <2>5, WriterSteps
<1>6. CASE ReadReviewSidecar(r)
  <2> DEFINE next == IF v.kind = "reference" THEN "artifact" ELSE "write"
             copy == CASE v.kind = "comment"     -> [sidecar EXCEPT !.comments = @ \cup {r}]
                       [] v.kind = "calibration" -> [sidecar EXCEPT !.reference = Reference(r, None)]
                       [] OTHER                  -> sidecar
  <2>1. PICK n : n = WithCopy(v, next, copy)
    OBVIOUS
  <2>2. /\ v.phase = "read" /\ review' = [review EXCEPT ![r] = n]
        /\ UNCHANGED <<reviewing, sidecar, artifacts, promised>>
    BY <1>6, <1>0, <2>1 DEF ReadReviewSidecar, WithReview, TakeCopy, ReviewAt, WithCopy
  <2>3. /\ Complete(copy) /\ sidecar.comments \subseteq copy.comments
        /\ v.kind = "comment" => r \in copy.comments
        /\ v.kind = "reference" => copy = sidecar
    <3>1. CASE v.kind = "comment"
      BY <1>1, <3>1, ChangedCopies
    <3>2. CASE v.kind = "calibration"
      BY <1>1, <3>2, ChangedCopies
    <3>3. CASE v.kind \notin {"comment", "calibration"}
      BY <1>1, <3>3
    <3> QED BY <3>1, <3>2, <3>3
  <2> HIDE DEF copy
  <2>4. Reviewed(n) /\ n.phase = next /\ n.kind = v.kind /\ n.copy = copy
    BY <1>1, <2>1, TookCopy
  <2>5. ReviewCarries(r, n)'
    BY <1>2, <2>2, <2>3, <2>4 DEF ReviewCarries, Writing, Reviewed, Complete
  <2>6. Complete(sidecar)' /\ Readable(sidecar)' /\ promised' \subseteq sidecar'.comments
    BY <1>1, <2>2 DEF Complete, Readable
  <2> QED BY <1>2, <2>2, <2>5, <2>6, WriterSteps DEF Writing
<1>7. CASE WriteReferenceArtifact(r)
  <2>1. PICK n : n = [v EXCEPT !.phase = "diff"]
    OBVIOUS
  <2>2. /\ v.phase = "artifact" /\ review' = [review EXCEPT ![r] = n]
        /\ artifacts' = artifacts \cup {<<r>>}
        /\ UNCHANGED <<reviewing, sidecar, promised>>
    BY <1>7, <1>0, <2>1 DEF WriteReferenceArtifact, ReviewAt
  <2>3. Reviewed(n) /\ n.phase = "diff" /\ n.copy = v.copy /\ n.kind = v.kind
    BY <1>1, <2>1, ReviewMovedOn
  <2>4. reviewing = r /\ v.copy = sidecar /\ v.kind = "reference"
    BY <1>1, <1>2, <2>2 DEF ReviewCarries, Writing
  <2>5. ReviewCarries(r, n)'
    BY <2>2, <2>3, <2>4 DEF ReviewCarries, Writing, Reviewed
  <2>6. Complete(sidecar)' /\ Readable(sidecar)' /\ promised' \subseteq sidecar'.comments
    BY <1>1, <2>2 DEF Complete, Readable
  <2> QED BY <2>2, <2>4, <2>5, <2>6, WriterSteps
<1>8. CASE WriteDiffArtifact(r)
  <2> DEFINE copy == [v.copy EXCEPT !.reference = Reference(<<r>>, Diff(r))]
  <2>1. PICK n : n = WithCopy(v, "write", copy)
    OBVIOUS
  <2>2. /\ v.phase = "diff" /\ review' = [review EXCEPT ![r] = n]
        /\ artifacts' = artifacts \cup {Diff(r)}
        /\ UNCHANGED <<reviewing, sidecar, promised>>
    BY <1>8, <1>0, <2>1 DEF WriteDiffArtifact, WithDiff, TakeCopy, ReviewAt, WithCopy
  <2>3. reviewing = r /\ v.copy = sidecar /\ v.kind = "reference" /\ <<r>> \in artifacts
    BY <1>1, <1>2, <2>2 DEF ReviewCarries, Writing
  <2>4. PICK digest, diff : digest = <<r>> /\ diff = Diff(r)
    OBVIOUS
  <2>5. PICK a, b : sidecar = [comments |-> a, reference |-> b]
    BY <1>1 DEF Complete
  <2>6. copy = [comments |-> a, reference |-> Reference(digest, diff)]
    BY <2>3, <2>4, <2>5
  <2> HIDE DEF copy
  <2>7. Reviewed(n) /\ n.phase = "write" /\ n.kind = v.kind /\ n.copy = copy
    BY <1>1, <2>1, TookCopy
  <2>8. {digest, diff} \subseteq artifacts'
    BY <2>2, <2>3, <2>4
  <2>9. Reference(digest, diff).digest = digest /\ Reference(digest, diff).diff = diff
    BY DEF Reference
  <2>10. PICK ref : ref = Reference(digest, diff)
    OBVIOUS
  <2>11. Complete(n.copy)' /\ sidecar.comments \subseteq n.copy.comments
    BY <2>5, <2>6, <2>7, <2>8, <2>9, <2>10 DEF Complete
  <2>12. ReviewCarries(r, n)'
    BY <2>2, <2>3, <2>7, <2>11 DEF ReviewCarries, Writing, Reviewed
  <2>13. Complete(sidecar)' /\ Readable(sidecar)' /\ promised' \subseteq sidecar'.comments
    BY <1>1, <2>2 DEF Complete, Readable
  <2> QED BY <2>2, <2>3, <2>12, <2>13, WriterSteps
<1>9. CASE WriteReviewSidecar(r)
  <2>1. PICK n : n = [v EXCEPT !.phase = "reply"]
    OBVIOUS
  <2>2. /\ v.phase = "write" /\ Readable(v.copy) /\ review' = [review EXCEPT ![r] = n]
        /\ sidecar' = v.copy
        /\ UNCHANGED <<reviewing, artifacts, promised>>
    BY <1>9, <1>0, <2>1 DEF WriteReviewSidecar, ReviewAt
  <2>3. Reviewed(n) /\ n.phase = "reply" /\ n.copy = v.copy /\ n.kind = v.kind
    BY <1>1, <2>1, ReviewMovedOn
  <2>4. /\ reviewing = r /\ Complete(v.copy) /\ sidecar.comments \subseteq v.copy.comments
        /\ v.kind = "comment" => r \in v.copy.comments
    BY <1>1, <1>2, <2>2 DEF ReviewCarries, Writing
  <2>5. ReviewCarries(r, n)'
    BY <2>2, <2>3, <2>4 DEF ReviewCarries, Writing, Reviewed
  <2>6. Complete(sidecar)' /\ Readable(sidecar)' /\ promised' \subseteq sidecar'.comments
    BY <1>1, <2>2, <2>4 DEF Complete, Readable
  <2> QED BY <2>2, <2>4, <2>5, <2>6, WriterSteps
<1>10. CASE ReplyReview(r)
  <2>1. PICK n : n = Finished
    OBVIOUS
  <2>2. /\ v.phase = "reply" /\ review' = [review EXCEPT ![r] = n] /\ reviewing' = None
        /\ promised' = IF v.kind = "comment" THEN promised \cup {r} ELSE promised
        /\ UNCHANGED <<sidecar, artifacts>>
    BY <1>10, <1>0, <2>1 DEF ReplyReview, ReviewAt
  <2>3. reviewing = r /\ (v.kind = "comment" => r \in sidecar.comments)
    BY <1>1, <1>2, <2>2 DEF ReviewCarries, Writing
  <2>4. ReviewCarries(r, n)'
    BY <2>1, FreshReviewed, ReviewWaits
  <2>5. Complete(sidecar)' /\ Readable(sidecar)' /\ promised' \subseteq sidecar'.comments
    BY <1>1, <2>2, <2>3 DEF Complete, Readable
  <2> QED BY <2>2, <2>3, <2>4, <2>5, WriterSteps
<1>11. CASE RefuseReview(r)
  <2>1. PICK n : n = Finished
    OBVIOUS
  <2>2. /\ review' = [review EXCEPT ![r] = n]
        /\ reviewing' = (IF reviewing = r THEN None ELSE reviewing)
        /\ UNCHANGED <<sidecar, artifacts, promised>>
    BY <1>11, <2>1 DEF RefuseReview
  <2>3. Reviewed(n) /\ n.phase \in NotWriting /\ ReviewCarries(r, n)'
    BY <2>1, FreshReviewed, ReviewWaits
  <2>4. Complete(sidecar)' /\ Readable(sidecar)' /\ promised' \subseteq sidecar'.comments
    BY <1>1, <2>2 DEF Complete, Readable
  <2>5. CASE reviewing = r
    BY <2>2, <2>3, <2>4, <2>5, WriterSteps
  <2>6. CASE reviewing # r
    BY <2>2, <2>3, <2>6, ReaderSteps
  <2> QED BY <2>5, <2>6
<1> QED BY <1>3, <1>4, <1>5, <1>6, <1>7, <1>8, <1>9, <1>10, <1>11 DEF ReviewStep

LEMMA KilledKeepsReviews ==
  ASSUME ReviewInv, KilledWithReviews
  PROVE  ReviewInv'
<1>1. /\ review' = [r \in Reviewers |-> IF review[r].phase = "idle" THEN Fresh ELSE Finished]
      /\ UNCHANGED <<sidecar, artifacts, promised>>
  BY DEF KilledWithReviews
<1>2. ASSUME NEW r \in Reviewers PROVE ReviewCarries(r, review[r])'
  <2>1. PICK n : n = review'[r] /\ Reviewed(n) /\ n.phase \in NotWriting
    BY <1>1, FreshReviewed
  <2> QED BY <2>1, ReviewWaits
<1> QED BY <1>1, <1>2 DEF ReviewInv, Complete, Readable

-----------------------------------------------------------------------------
FilesInv == KeptInv /\ WholeInv /\ ReviewInv

LEMMA FilesBegin ==
  FilesInit => FilesInv
<1> SUFFICES ASSUME FilesInit PROVE FilesInv
  OBVIOUS
<1>1. KeptInv
  <2>1. ASSUME NEW r \in Requests PROVE Carries(r, post[r])
    BY IdlePosted, WaitingCarries DEF FilesInit, CatalogInit
  <2>2. kept = <<>> /\ catalog = manifest /\ post = [r \in Requests |-> post[r]]
    BY DEF FilesInit, CatalogInit
  <2> QED BY <2>1, <2>2, AgreesWithNothing DEF KeptInv
<1>2. WholeInv
  <2>1. ASSUME NEW r \in Requests PROVE Sound(post[r])
    BY OthersSound DEF FilesInit, CatalogInit, Idle
  <2>2. spent \in [outside : Nat, files : Nat, crashes : Nat]
    BY DEF FilesInit, CatalogInit
  <2> QED BY <2>1, <2>2 DEF WholeInv, ManifestIsWhole, FilesInit, CatalogInit
<1>3. ReviewInv
  <2>1. ASSUME NEW r \in Reviewers PROVE ReviewCarries(r, review[r])
    BY FreshReviewed, ReviewWaits DEF FilesInit
  <2>2. /\ sidecar = [comments |-> {}, reference |-> None] /\ promised = {}
        /\ review = [r \in Reviewers |-> review[r]]
    BY DEF FilesInit
  <2>3. Readable(sidecar)
    BY <2>2, FS_EmptySet, SidecarHasRoom DEF Readable
  <2> QED BY <2>1, <2>2, <2>3 DEF ReviewInv, Complete
<1> QED BY <1>1, <1>2, <1>3 DEF FilesInv

LEMMA ReviewsAside ==
  ASSUME ReviewInv, UNCHANGED reviewVars
  PROVE  ReviewInv'
BY DEF ReviewInv, ReviewCarries, Complete, Readable, reviewVars

LEMMA FilesInvKept ==
  FilesInv /\ [FilesNext]_<<catalogVars, reviewVars>> => FilesInv'
<1> SUFFICES ASSUME FilesInv, [FilesNext]_<<catalogVars, reviewVars>> PROVE FilesInv'
  OBVIOUS
<1> USE DEF FilesInv
<1>1. CASE \E r \in Requests : CatalogStep(r) /\ UNCHANGED reviewVars
  BY <1>1, RequestKeeps, RequestWhole, ReviewsAside
<1>2. CASE (OutsideStep \/ Start) /\ UNCHANGED reviewVars
  BY <1>2, WorldKeeps, WorldWhole, ReviewsAside
<1>3. CASE \E r \in Reviewers : ReviewStep(r)
  <2>1. UNCHANGED catalogVars
    BY <1>3 DEF ReviewStep, PostReview, ValidateReviewMutation, LockReview, ReadReviewSidecar,
                WriteReferenceArtifact, WriteDiffArtifact, WriteReviewSidecar, ReplyReview,
                RefuseReview
  <2> QED BY <1>3, <2>1, WorldKeeps, WorldWhole, ReviewKeeps
<1>4. CASE KilledWithReviews
  <2>1. Killed
    BY <1>4 DEF KilledWithReviews
  <2> QED BY <1>4, <2>1, WorldKeeps, WorldWhole, KilledKeepsReviews
<1>5. CASE UNCHANGED <<catalogVars, reviewVars>>
  BY <1>5, WorldKeeps, WorldWhole, ReviewsAside
<1> QED BY <1>1, <1>2, <1>3, <1>4, <1>5 DEF FilesNext

(* An acknowledged change of the catalog or comment is never lost: not to  *)
(* requests beside it, to one that fails half-way, or to a killed process  *)
(* (handleResourceCatalogMutation under editMu, handleReview under         *)
(* reviewMu), for any number of requests, names, files and restarts.       *)
THEOREM NothingAcknowledgedIsLost == FilesSpec => []AcknowledgedIsKept
<1>1. FilesInv => AcknowledgedIsKept
  BY DEF FilesInv, KeptInv, ReviewInv, AcknowledgedIsKept, CatalogKept, Agrees
<1> QED BY <1>1, FilesBegin, FilesInvKept, PTL DEF FilesSpec

(* What Studio wrote is complete: the manifest loads unless another        *)
(* program has changed a file, and every artifact that the sidecar's       *)
(* reference names was written before it (publishProjectManifest,          *)
(* applyReviewMutation), whatever failed or was killed on the way.         *)
THEOREM WhatIsWrittenIsComplete == FilesSpec => []ProjectIsWhole
<1>1. FilesInv => ProjectIsWhole
  BY DEF FilesInv, WholeInv, ReviewInv, ProjectIsWhole, Complete
<1> QED BY <1>1, FilesBegin, FilesInvKept, PTL DEF FilesSpec
=============================================================================

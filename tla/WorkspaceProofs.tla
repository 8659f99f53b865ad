---------------------------- MODULE WorkspaceProofs ----------------------------
(***************************************************************************)
(* Proofs about the authoring workspace, for any number of calls, handles, *)
(* keys and edits, any capacities and lifetimes: the edits of a candidate  *)
(* are one line, an answer is about the edit it was asked for, and a call  *)
(* with a handle that was gone does not succeed.  And for any order in     *)
(* which expired handles are removed: the capacities hold, and so do those *)
(* of the tombstones, which are about removed handles only.                *)
(***************************************************************************)
EXTENDS Workspace, TLAPS, SequenceTheorems, FiniteSetTheorems

Revisions == table["revision"]
Candidates == table["candidate"]
Opens == table["open"]
Authorities == table["authority"]

(* What the tables and the calls are made of.                              *)
Tables ==
  /\ table = [k \in Kinds |-> table[k]]
  /\ \A k \in Kinds : table[k] \in Seq(Entry(k))
  /\ now \in Nat

WellFormed == Tables /\ request \in [Requests -> Request]

(* A candidate's head follows from its base, and what is committed to it   *)
(* is between the two.                                                     *)
Lines ==
  /\ \A i \in DOMAIN Revisions : Revisions[i].candidate \in DOMAIN Candidates \cup {0}
  /\ \A c \in DOMAIN Candidates :
       /\ Candidates[c].base \in DOMAIN Revisions /\ Candidates[c].head \in DOMAIN Revisions
       /\ Candidates[c].base <= Candidates[c].head
  /\ HeadsAreLinear

(* What is remembered with a candidate is one of its revisions.            *)
Remembers(c, memo) ==
  /\ memo.revision \in DOMAIN Revisions
  /\ Revisions[memo.revision].parent = memo.head
  /\ Revisions[memo.revision].candidate = c
  /\ Revisions[memo.revision].payload = memo.payload

Memos ==
  \A c \in DOMAIN Candidates, k \in Keys :
    Candidates[c].idempotency[k] # None => Remembers(c, Candidates[c].idempotency[k])

(* A handle that was gone when the call was made is gone for good.         *)
GoneFor(call) ==
  /\ call.gone \subseteq {<<"open", call.open>>, <<"authority", call.authority>>}
  /\ <<"open", call.open>> \in call.gone => ~Live("open", call.open)
  /\ <<"authority", call.authority>> \in call.gone => ~Live("authority", call.authority)
  /\ call.phase \in {"authorize", "read", "commit", "done"} => <<"open", call.open>> \notin call.gone
  /\ call.phase \in {"read", "commit", "done"} => <<"authority", call.authority>> \notin call.gone

AnswerFits(call) ==
  /\ call.result \in DOMAIN Revisions
  /\ Revisions[call.result].parent = Opens[call.open].revision
  /\ Revisions[call.result].candidate = Opens[call.open].candidate
  /\ Revisions[call.result].payload = call.payload

CallFits(call) ==
  /\ call.open # 0 => call.open \in DOMAIN Opens /\ call.authority \in DOMAIN Authorities
                      /\ call.key \in Keys /\ call.payload \in Payloads
  /\ call.open = 0 => call.gone = {}
  /\ call.phase \in {"resolve", "authorize", "read", "commit"} => call.open # 0
  /\ call.phase = "plan" => call.open = 0
  /\ call.phase = "done" /\ call.open # 0 => AnswerFits(call)
  /\ GoneFor(call)

Calls == \A r \in Requests : CallFits(request[r])

WorkInv == WellFormed /\ Lines /\ Memos /\ Calls

-----------------------------------------------------------------------------
LEMMA EntryKinds ==
  /\ Entry("revision") = RevisionEntry /\ Entry("candidate") = CandidateEntry
  /\ Entry("open") = OpenEntry /\ Entry("authority") = AuthorityEntry
  /\ Entry("plan") = PlanEntry
BY DEF Entry

LEMMA Starts == Init => WorkInv
<1> SUFFICES ASSUME Init PROVE WorkInv
  OBVIOUS
<1>1. \A k \in Kinds : table[k] = <<>>
  BY DEF Init
<1>2. WellFormed
  <2>1. Idle \in Request
    BY DEF Idle, Request, Phases
  <2>. QED BY <1>1, <2>1 DEF Init, WellFormed, Tables
<1>3. Lines /\ Memos
  BY <1>1 DEF Lines, Memos, HeadsAreLinear, Revisions, Candidates, Kinds
<1>4. Calls
  BY DEF Calls, CallFits, GoneFor, Init, Idle
<1>. QED BY <1>2, <1>3, <1>4 DEF WorkInv

-----------------------------------------------------------------------------
(* The tables.                                                             *)

LEMMA TableFacts ==
  ASSUME Tables, NEW k \in Kinds
  PROVE  /\ table[k] \in Seq(Entry(k)) /\ Len(table[k]) \in Nat
         /\ DOMAIN table[k] = 1 .. Len(table[k])
         /\ \A i \in DOMAIN table[k] : table[k][i] \in Entry(k)
BY DEF Tables

(* Of an entry that grows older only `retained` changes.                   *)
Same(k, e, f) ==
  /\ f.expires = e.expires
  /\ k = "revision" => f.parent = e.parent /\ f.candidate = e.candidate /\ f.payload = e.payload
  /\ k = "candidate" => f.base = e.base /\ f.head = e.head /\ f.idempotency = e.idempotency
  /\ k = "open" => f.candidate = e.candidate /\ f.revision = e.revision

LEMMA OlderRevision ==
  ASSUME NEW e \in RevisionEntry, NEW b \in BOOLEAN
  PROVE  LET f == [e EXCEPT !.retained = b]
         IN  f \in RevisionEntry /\ f.retained = b /\ Same("revision", e, f)
<1>1. [e EXCEPT !.retained = b] \in RevisionEntry
  BY DEF RevisionEntry
<1>2. [e EXCEPT !.retained = b].retained = b /\ [e EXCEPT !.retained = b].expires = e.expires
  BY DEF RevisionEntry
<1>3. /\ [e EXCEPT !.retained = b].parent = e.parent
      /\ [e EXCEPT !.retained = b].candidate = e.candidate
      /\ [e EXCEPT !.retained = b].payload = e.payload
  BY DEF RevisionEntry
<1>. QED BY <1>1, <1>2, <1>3 DEF Same

LEMMA OlderCandidate ==
  ASSUME NEW e \in CandidateEntry, NEW b \in BOOLEAN
  PROVE  LET f == [e EXCEPT !.retained = b]
         IN  f \in CandidateEntry /\ f.retained = b /\ Same("candidate", e, f)
<1>1. [e EXCEPT !.retained = b] \in CandidateEntry
  BY DEF CandidateEntry
<1>2. [e EXCEPT !.retained = b].retained = b /\ [e EXCEPT !.retained = b].expires = e.expires
  BY DEF CandidateEntry
<1>3. /\ [e EXCEPT !.retained = b].base = e.base
      /\ [e EXCEPT !.retained = b].head = e.head
      /\ [e EXCEPT !.retained = b].idempotency = e.idempotency
  BY DEF CandidateEntry
<1>. QED BY <1>1, <1>2, <1>3 DEF Same

LEMMA OlderOpen ==
  ASSUME NEW e \in OpenEntry, NEW b \in BOOLEAN
  PROVE  LET f == [e EXCEPT !.retained = b]
         IN  f \in OpenEntry /\ f.retained = b /\ Same("open", e, f)
<1>1. [e EXCEPT !.retained = b] \in OpenEntry
  BY DEF OpenEntry
<1>2. [e EXCEPT !.retained = b].retained = b /\ [e EXCEPT !.retained = b].expires = e.expires
  BY DEF OpenEntry
<1>3. /\ [e EXCEPT !.retained = b].candidate = e.candidate
      /\ [e EXCEPT !.retained = b].revision = e.revision
  BY DEF OpenEntry
<1>. QED BY <1>1, <1>2, <1>3 DEF Same

LEMMA OlderAuthority ==
  ASSUME NEW e \in AuthorityEntry, NEW b \in BOOLEAN
  PROVE  LET f == [e EXCEPT !.retained = b]
         IN  f \in AuthorityEntry /\ f.retained = b /\ Same("authority", e, f)
<1>1. [e EXCEPT !.retained = b] \in AuthorityEntry
  BY DEF AuthorityEntry
<1>2. [e EXCEPT !.retained = b].retained = b /\ [e EXCEPT !.retained = b].expires = e.expires
  BY DEF AuthorityEntry
<1>. QED BY <1>1, <1>2 DEF Same

LEMMA OlderPlan ==
  ASSUME NEW e \in PlanEntry, NEW b \in BOOLEAN
  PROVE  LET f == [e EXCEPT !.retained = b]
         IN  f \in PlanEntry /\ f.retained = b /\ Same("plan", e, f)
<1>1. [e EXCEPT !.retained = b] \in PlanEntry
  BY DEF PlanEntry
<1>2. [e EXCEPT !.retained = b].retained = b /\ [e EXCEPT !.retained = b].expires = e.expires
  BY DEF PlanEntry
<1>. QED BY <1>1, <1>2 DEF Same

LEMMA OlderEntry ==
  ASSUME NEW k \in Kinds, NEW e \in Entry(k), NEW b \in BOOLEAN
  PROVE  LET f == [e EXCEPT !.retained = b]
         IN  f \in Entry(k) /\ f.retained = b /\ Same(k, e, f)
<1>1. CASE k = "revision"
  BY <1>1, EntryKinds, OlderRevision
<1>2. CASE k = "candidate"
  BY <1>2, EntryKinds, OlderCandidate
<1>3. CASE k = "open"
  BY <1>3, EntryKinds, OlderOpen
<1>4. CASE k = "authority"
  BY <1>4, EntryKinds, OlderAuthority
<1>5. CASE k = "plan"
  BY <1>5, EntryKinds, OlderPlan
<1>. QED BY <1>1, <1>2, <1>3, <1>4, <1>5 DEF Kinds

LEMMA EntryFields ==
  ASSUME NEW k \in Kinds, NEW e \in Entry(k)
  PROVE  e.retained \in BOOLEAN /\ e.expires \in Nat
<1>1. CASE k = "revision"
  <2>1. e \in RevisionEntry
    BY <1>1, EntryKinds
  <2>. QED BY <2>1 DEF RevisionEntry
<1>2. CASE k = "candidate"
  <2>1. e \in CandidateEntry
    BY <1>2, EntryKinds
  <2>. QED BY <2>1 DEF CandidateEntry
<1>3. CASE k = "open"
  <2>1. e \in OpenEntry
    BY <1>3, EntryKinds
  <2>. QED BY <2>1 DEF OpenEntry
<1>4. CASE k = "authority"
  <2>1. e \in AuthorityEntry
    BY <1>4, EntryKinds
  <2>. QED BY <2>1 DEF AuthorityEntry
<1>5. CASE k = "plan"
  <2>1. e \in PlanEntry
    BY <1>5, EntryKinds
  <2>. QED BY <2>1 DEF PlanEntry
<1>. QED BY <1>1, <1>2, <1>3, <1>4, <1>5 DEF Kinds

LEMMA PrunedFacts ==
  ASSUME Tables, NEW kinds, NEW k \in Kinds
  PROVE  /\ PrunedOf(kinds)[k] \in Seq(Entry(k))
         /\ Len(PrunedOf(kinds)[k]) = Len(table[k])
         /\ DOMAIN PrunedOf(kinds)[k] = DOMAIN table[k]
         /\ \A i \in DOMAIN table[k] :
              /\ Same(k, table[k][i], PrunedOf(kinds)[k][i])
              /\ PrunedOf(kinds)[k][i].retained => table[k][i].retained
              /\ PrunedOf(kinds)[k][i].retained /\ k \in kinds => Live(k, i)
<1> DEFINE n == Len(table[k])
           b(i) == table[k][i].retained /\ (k \in kinds => Live(k, i))
           new == PrunedOf(kinds)[k]
<1>1. new = [i \in 1 .. n |-> [table[k][i] EXCEPT !.retained = b(i)]] /\ n \in Nat
  BY TableFacts DEF PrunedOf
<1>2. ASSUME NEW i \in 1 .. n
      PROVE  /\ new[i] \in Entry(k) /\ Same(k, table[k][i], new[i])
             /\ (new[i].retained => table[k][i].retained)
             /\ (new[i].retained /\ k \in kinds => Live(k, i))
  <2>1. table[k][i] \in Entry(k)
    BY TableFacts
  <2>2. /\ b(i) \in BOOLEAN /\ (b(i) => table[k][i].retained)
        /\ (b(i) /\ k \in kinds => Live(k, i))
    BY <2>1, EntryFields
  <2>3. new[i] = [table[k][i] EXCEPT !.retained = b(i)]
    BY <1>1
  <2> HIDE DEF b, new
  <2>. QED BY <2>1, <2>2, <2>3, OlderEntry
<1>3. DOMAIN new = 1 .. n
  BY <1>1
<1> HIDE DEF new
<1>4. new \in [1 .. n -> Entry(k)]
  <2>1. new = [i \in 1 .. n |-> new[i]]
    BY <1>1
  <2>. QED BY <1>2, <2>1
<1>5. new \in Seq(Entry(k)) /\ Len(new) = n
  BY <1>1, <1>4
<1>. QED BY <1>2, <1>3, <1>5, TableFacts DEF new

-----------------------------------------------------------------------------
(* What a step does to the tables.                                         *)

(* No handle is lost, and those of some kinds only grow older.             *)
Aged(kinds) ==
  /\ Tables' /\ now <= now'
  /\ \A k \in Kinds : Len(table[k]) <= Len(table'[k])
  /\ \A k \in kinds : \A i \in 1 .. Len(table[k]) :
       Same(k, table[k][i], table'[k][i]) /\ (table'[k][i].retained => table[k][i].retained)

(* Some handles are removed, of some kinds all that have expired.          *)
Fewer(kinds) ==
  \A k \in Kinds :
    /\ DOMAIN table[k] \subseteq DOMAIN table'[k]
    /\ \A i \in DOMAIN table[k] :
         table'[k][i].retained => table[k][i].retained /\ (k \in kinds => Live(k, i))

(* Nothing new is committed to a candidate or remembered with one.         *)
Fresh ==
  /\ \A i \in DOMAIN Revisions' \ DOMAIN Revisions : Revisions'[i].candidate = 0
  /\ \A c \in DOMAIN Candidates' \ DOMAIN Candidates :
       /\ Candidates'[c].base \in DOMAIN Revisions' /\ Candidates'[c].head = Candidates'[c].base
       /\ Candidates'[c].idempotency = NoIdempotency

LEMMA Unmoved ==
  ASSUME Tables, table' = table, now' \in Nat, now <= now'
  PROVE  Aged(Kinds) /\ Fresh
<1>1. Tables'
  BY DEF Tables
<1>2. \A k \in Kinds : Len(table[k]) \in Nat
  BY TableFacts
<1>3. \A k, e : Same(k, e, e)
  BY DEF Same
<1>4. Fresh
  BY DEF Fresh, Revisions, Candidates
<1>. QED BY <1>1, <1>2, <1>3, <1>4 DEF Aged

LEMMA OnlyPruned ==
  ASSUME Tables, NEW kinds, table' = PrunedOf(kinds), now' = now
  PROVE  Aged(Kinds) /\ Fresh
<1>1. Tables'
  <2>1. table' = [k \in Kinds |-> table'[k]]
    BY DEF PrunedOf
  <2>2. \A k \in Kinds : table'[k] \in Seq(Entry(k))
    BY PrunedFacts
  <2>3. now' \in Nat
    BY DEF Tables
  <2>. QED BY <2>1, <2>2, <2>3 DEF Tables, Entry, RevisionEntry, CandidateEntry, OpenEntry, AuthorityEntry, PlanEntry
<1>2. \A k \in Kinds :
        /\ Len(table[k]) \in Nat /\ Len(table'[k]) = Len(table[k]) /\ DOMAIN table'[k] = DOMAIN table[k]
        /\ \A i \in 1 .. Len(table[k]) :
             Same(k, table[k][i], table'[k][i]) /\ (table'[k][i].retained => table[k][i].retained)
  BY PrunedFacts, TableFacts
<1>3. now <= now'
  BY DEF Tables
<1>4. Fresh
  BY <1>2 DEF Fresh, Revisions, Candidates, Kinds
<1>. QED BY <1>1, <1>2, <1>3, <1>4 DEF Aged

(* A new handle of some kinds, with what it stands for.                    *)
NewEntries(entry) ==
  /\ DOMAIN entry \subseteq Kinds
  /\ \A k \in DOMAIN entry : entry[k] \in Entry(k)
  /\ "revision" \in DOMAIN entry => entry["revision"].candidate = 0
  /\ "candidate" \in DOMAIN entry =>
       /\ entry["candidate"].head = entry["candidate"].base
       /\ entry["candidate"].idempotency = NoIdempotency
       /\ \/ entry["candidate"].base \in DOMAIN Revisions
          \/ "revision" \in DOMAIN entry /\ entry["candidate"].base = Len(Revisions) + 1

LEMMA IssuedTables ==
  ASSUME Tables, NEW entry, NewEntries(entry), Issue(entry), NEW k \in Kinds
  PROVE  /\ table'[k] \in Seq(Entry(k)) /\ DOMAIN table'[k] = 1 .. Len(table'[k])
         /\ \A i \in 1 .. Len(table[k]) :
              /\ Same(k, table[k][i], table'[k][i]) /\ (table'[k][i].retained => table[k][i].retained)
              /\ (table'[k][i].retained => Live(k, i))
         /\ k \in DOMAIN entry => Len(table'[k]) = Len(table[k]) + 1 /\ table'[k][Len(table[k]) + 1] = entry[k]
         /\ k \notin DOMAIN entry => Len(table'[k]) = Len(table[k])
<1> DEFINE old == Pruned[k]
<1>1. /\ old \in Seq(Entry(k)) /\ Len(old) = Len(table[k]) /\ Len(table[k]) \in Nat
      /\ \A i \in 1 .. Len(table[k]) :
           /\ Same(k, table[k][i], old[i]) /\ (old[i].retained => table[k][i].retained)
           /\ (old[i].retained => Live(k, i))
  BY PrunedFacts, TableFacts DEF Pruned
<1>2. table'[k] = IF k \in DOMAIN entry THEN Append(old, entry[k]) ELSE old
  BY DEF Issue
<1> HIDE DEF old
<1>3. CASE k \in DOMAIN entry
  <2>1. entry[k] \in Entry(k)
    BY <1>3 DEF NewEntries
  <2>2. table'[k] = Append(old, entry[k])
    BY <1>2, <1>3
  <2>3. table'[k] \in Seq(Entry(k)) /\ Len(table'[k]) = Len(table[k]) + 1
    BY <1>1, <2>1, <2>2
  <2>4. /\ \A i \in 1 .. Len(table[k]) : table'[k][i] = old[i]
        /\ table'[k][Len(table[k]) + 1] = entry[k]
    BY <1>1, <2>1, <2>2
  <2>5. DOMAIN table'[k] = 1 .. Len(table[k]) + 1
    BY <2>3
  <2>. QED BY <1>1, <1>3, <2>3, <2>4, <2>5
<1>4. CASE k \notin DOMAIN entry
  <2>1. table'[k] = old
    BY <1>2, <1>4
  <2>. QED BY <1>1, <1>4, <2>1
<1>. QED BY <1>3, <1>4

LEMMA Issues ==
  ASSUME Tables, NEW entry, NewEntries(entry), Issue(entry), now' = now
  PROVE  Aged(Kinds) /\ Fresh
<1>1. \A k \in Kinds :
        /\ table'[k] \in Seq(Entry(k)) /\ DOMAIN table'[k] = 1 .. Len(table'[k])
        /\ \A i \in 1 .. Len(table[k]) :
             Same(k, table[k][i], table'[k][i]) /\ (table'[k][i].retained => table[k][i].retained)
        /\ k \in DOMAIN entry => Len(table'[k]) = Len(table[k]) + 1 /\ table'[k][Len(table[k]) + 1] = entry[k]
        /\ k \notin DOMAIN entry => Len(table'[k]) = Len(table[k])
  BY IssuedTables
<1>2. Tables'
  <2>1. table' = [k \in Kinds |-> table'[k]]
    BY DEF Issue
  <2>2. \A k \in Kinds : table'[k] \in Seq(Entry(k))
    BY <1>1
  <2>3. now' \in Nat
    BY DEF Tables
  <2>. QED BY <2>1, <2>2, <2>3 DEF Tables, Entry, RevisionEntry, CandidateEntry, OpenEntry, AuthorityEntry, PlanEntry
<1>3. \A k \in Kinds : Len(table[k]) \in Nat /\ DOMAIN table[k] = 1 .. Len(table[k])
  BY TableFacts
<1>4. Aged(Kinds)
  <2>1. now <= now'
    BY DEF Tables
  <2>2. \A k \in Kinds : Len(table[k]) <= Len(table'[k])
    BY <1>1, <1>3
  <2>. QED BY <1>1, <1>2, <2>1, <2>2 DEF Aged
<1>5. Fresh
  <2>1. "revision" \in Kinds /\ "candidate" \in Kinds
    BY DEF Kinds
  <2>2. ASSUME NEW i \in DOMAIN Revisions' \ DOMAIN Revisions PROVE Revisions'[i].candidate = 0
    <3>1. "revision" \in DOMAIN entry /\ i = Len(table["revision"]) + 1
      BY <1>1, <1>3, <2>1 DEF Revisions
    <3>2. Revisions'[i] = entry["revision"]
      BY <1>1, <2>1, <3>1 DEF Revisions
    <3>. QED BY <3>1, <3>2 DEF NewEntries
  <2>3. ASSUME NEW c \in DOMAIN Candidates' \ DOMAIN Candidates
        PROVE  /\ Candidates'[c].base \in DOMAIN Revisions' /\ Candidates'[c].head = Candidates'[c].base
               /\ Candidates'[c].idempotency = NoIdempotency
    <3>1. "candidate" \in DOMAIN entry /\ c = Len(table["candidate"]) + 1
      BY <1>1, <1>3, <2>1 DEF Candidates
    <3>2. Candidates'[c] = entry["candidate"]
      BY <1>1, <2>1, <3>1 DEF Candidates
    <3>3. entry["candidate"].base \in DOMAIN Revisions'
      <4>1. /\ DOMAIN Revisions = 1 .. Len(Revisions) /\ DOMAIN Revisions' = 1 .. Len(Revisions')
            /\ Len(Revisions') >= Len(Revisions)
            /\ "revision" \in DOMAIN entry => Len(Revisions') = Len(Revisions) + 1
        BY <1>1, <1>3, <2>1 DEF Revisions
      <4>2. Len(Revisions) \in Nat
        BY <1>3, <2>1 DEF Revisions
      <4>3. \/ entry["candidate"].base \in DOMAIN Revisions
            \/ "revision" \in DOMAIN entry /\ entry["candidate"].base = Len(Revisions) + 1
        BY <3>1 DEF NewEntries
      <4>4. Len(Revisions') \in Nat
        BY <4>2, <1>1, <2>1 DEF Revisions
      <4>5. PICK b, n, m : b = entry["candidate"].base /\ n = Len(Revisions) /\ m = Len(Revisions')
        OBVIOUS
      <4>6. b \in 1 .. n \/ (m = n + 1 /\ b = n + 1)
        BY <4>1, <4>3, <4>5
      <4>7. n \in Nat /\ m \in Nat /\ m >= n
        BY <4>1, <4>2, <4>4, <4>5
      <4>8. b \in 1 .. m
        BY <4>6, <4>7
      <4>. QED BY <4>1, <4>5, <4>8
    <3>. QED BY <3>1, <3>2, <3>3 DEF NewEntries
  <2>. QED BY <2>2, <2>3 DEF Fresh
<1>. QED BY <1>4, <1>5

LEMMA Revokes ==
  ASSUME Tables, NEW kind \in {"open", "authority", "plan"}, NEW serial \in DOMAIN table[kind],
         Revoke(kind, serial), now' = now
  PROVE  Aged(Kinds) /\ Fresh
<1> DEFINE e == table[kind][serial]
           f == [e EXCEPT !.retained = FALSE]
           new == [table[kind] EXCEPT ![serial] = f]
<1>1. kind \in Kinds
  BY DEF Kinds
<1>2. f \in Entry(kind) /\ f.retained = FALSE /\ Same(kind, e, f)
  BY <1>1, TableFacts, OlderEntry
<1>3. table' = [table EXCEPT ![kind] = new]
  BY DEF Revoke
<1> HIDE DEF f
<1>4. new \in Seq(Entry(kind)) /\ Len(new) = Len(table[kind]) /\ DOMAIN new = DOMAIN table[kind]
  <2>1. table[kind] \in [1 .. Len(table[kind]) -> Entry(kind)] /\ Len(table[kind]) \in Nat
    BY <1>1, TableFacts
  <2>2. new \in [1 .. Len(table[kind]) -> Entry(kind)]
    BY <1>2, <2>1
  <2>. QED BY <2>1, <2>2
<1>5. \A i \in 1 .. Len(table[kind]) :
        Same(kind, table[kind][i], new[i]) /\ (new[i].retained => table[kind][i].retained)
  <2>1. \A x : Same(kind, x, x)
    BY DEF Same
  <2>2. DOMAIN table[kind] = 1 .. Len(table[kind])
    BY <1>1, TableFacts
  <2>. QED BY <1>2, <2>1, <2>2
<1> HIDE DEF new, e
<1>6. DOMAIN table = Kinds
  BY DEF Tables
<1>7. table'[kind] = new /\ \A k \in Kinds \ {kind} : table'[k] = table[k]
  BY <1>1, <1>3, <1>6
<1>8. Tables'
  <2>1. table' = [k \in Kinds |-> table'[k]]
    BY <1>3, <1>6
  <2>2. \A k \in Kinds : table'[k] \in Seq(Entry(k))
    BY <1>4, <1>7 DEF Tables
  <2>3. now' \in Nat
    BY DEF Tables
  <2>. QED BY <2>1, <2>2, <2>3 DEF Tables, Entry, RevisionEntry, CandidateEntry, OpenEntry, AuthorityEntry, PlanEntry
<1>9. \A k \in Kinds :
        /\ Len(table[k]) \in Nat /\ Len(table'[k]) = Len(table[k])
        /\ \A i \in 1 .. Len(table[k]) :
             Same(k, table[k][i], table'[k][i]) /\ (table'[k][i].retained => table[k][i].retained)
  <2>1. \A k, x : Same(k, x, x)
    BY DEF Same
  <2>2. \A k \in Kinds : Len(table[k]) \in Nat
    BY TableFacts
  <2>. QED BY <1>4, <1>5, <1>7, <2>1, <2>2
<1>10. Aged(Kinds)
  <2>1. now <= now'
    BY DEF Tables
  <2>. QED BY <1>8, <1>9, <2>1 DEF Aged
<1>11. Fresh
  <2>1. Revisions' = Revisions /\ Candidates' = Candidates
    BY <1>7 DEF Revisions, Candidates, Kinds
  <2>. QED BY <2>1 DEF Fresh
<1>. QED BY <1>10, <1>11

-----------------------------------------------------------------------------
(* What such a step keeps.                                                 *)

LEMMA KeepsOldFields ==
  ASSUME Tables, NEW kinds \in SUBSET Kinds, Aged(kinds)
  PROVE  /\ \A k \in Kinds : DOMAIN table[k] \subseteq DOMAIN table'[k]
         /\ "revision" \in kinds => \A i \in DOMAIN Revisions :
              /\ Revisions'[i].parent = Revisions[i].parent
              /\ Revisions'[i].candidate = Revisions[i].candidate
              /\ Revisions'[i].payload = Revisions[i].payload
         /\ "open" \in kinds => \A i \in DOMAIN Opens :
              Opens'[i].candidate = Opens[i].candidate /\ Opens'[i].revision = Opens[i].revision
         /\ \A k \in kinds : \A i \in DOMAIN table[k] : ~Live(k, i) => ~Live(k, i)'
<1>1. \A k \in Kinds : Len(table[k]) \in Nat /\ DOMAIN table[k] = 1 .. Len(table[k])
  BY TableFacts
<1>2. \A k \in Kinds : Len(table'[k]) \in Nat /\ DOMAIN table'[k] = 1 .. Len(table'[k])
  BY DEF Aged, Tables
<1>3. \A k \in Kinds : DOMAIN table[k] \subseteq DOMAIN table'[k]
  BY <1>1, <1>2 DEF Aged
<1>4. ASSUME NEW k \in kinds, NEW i \in DOMAIN table[k], ~Live(k, i) PROVE ~Live(k, i)'
  <2>1. k \in Kinds /\ table[k][i] \in Entry(k) /\ i \in 1 .. Len(table[k])
    BY <1>1, TableFacts
  <2>2. table'[k][i].expires = table[k][i].expires /\ (table'[k][i].retained => table[k][i].retained)
    BY <2>1 DEF Aged, Same
  <2>3. table[k][i].expires \in Nat
    BY <2>1, EntryFields
  <2>4. now \in Nat /\ now' \in Nat /\ now <= now'
    BY DEF Tables, Aged
  <2>5. ~(table[k][i].retained /\ table[k][i].expires > now)
    BY <1>4 DEF Live
  <2>6. ~(table'[k][i].retained /\ table'[k][i].expires > now')
    <3>1. PICK x : x = table[k][i].expires
      OBVIOUS
    <3>. QED BY <2>2, <2>3, <2>4, <2>5, <3>1
  <2>. QED BY <2>6 DEF Live
<1>5. "revision" \in kinds => \A i \in DOMAIN Revisions :
        /\ Revisions'[i].parent = Revisions[i].parent
        /\ Revisions'[i].candidate = Revisions[i].candidate
        /\ Revisions'[i].payload = Revisions[i].payload
  BY <1>1 DEF Aged, Same, Revisions
<1>6. "open" \in kinds => \A i \in DOMAIN Opens :
        Opens'[i].candidate = Opens[i].candidate /\ Opens'[i].revision = Opens[i].revision
  BY <1>1 DEF Aged, Same, Opens
<1>. QED BY <1>3, <1>4, <1>5, <1>6

LEMMA KeepsCall ==
  ASSUME Tables, NEW kinds \in SUBSET Kinds, {"revision", "open", "authority"} \subseteq kinds,
         Aged(kinds), NEW call, CallFits(call)
  PROVE  CallFits(call)'
<1>1. /\ DOMAIN Revisions \subseteq DOMAIN Revisions' /\ DOMAIN Opens \subseteq DOMAIN Opens'
      /\ DOMAIN Authorities \subseteq DOMAIN Authorities'
  BY KeepsOldFields DEF Kinds, Revisions, Opens, Authorities
<1>2. GoneFor(call)'
  <2>1. GoneFor(call)
    BY DEF CallFits
  <2>2. call.gone # {} => call.open \in DOMAIN table["open"] /\ call.authority \in DOMAIN table["authority"]
    BY DEF CallFits, Opens, Authorities
  <2>3. <<"open", call.open>> \in call.gone => ~Live("open", call.open)'
    BY <2>1, <2>2, KeepsOldFields DEF GoneFor
  <2>4. <<"authority", call.authority>> \in call.gone => ~Live("authority", call.authority)'
    BY <2>1, <2>2, KeepsOldFields DEF GoneFor
  <2>. QED BY <2>1, <2>3, <2>4 DEF GoneFor
<1>3. call.phase = "done" /\ call.open # 0 => AnswerFits(call)'
  <2>1. SUFFICES ASSUME call.phase = "done", call.open # 0 PROVE AnswerFits(call)'
    OBVIOUS
  <2>2. AnswerFits(call) /\ call.open \in DOMAIN Opens
    BY <2>1 DEF CallFits
  <2>3. call.result \in DOMAIN Revisions
    BY <2>2 DEF AnswerFits
  <2>. QED BY <1>1, <2>2, <2>3, KeepsOldFields DEF AnswerFits
<1>. QED BY <1>1, <1>2, <1>3 DEF CallFits

(* The edits of one candidate.                                             *)
LinearAt(c) ==
  LET Before(i) == {j \in Committed(c) \cup {Candidates[c].base} : j < i}
  IN  /\ \A i \in Committed(c) : Revisions[i].parent \in Before(i)
                                 /\ \A j \in Before(i) : j <= Revisions[i].parent
      /\ Candidates[c].head \in Committed(c) \cup {Candidates[c].base}
      /\ \A j \in Committed(c) : j <= Candidates[c].head

LEMMA LinearEach == HeadsAreLinear <=> \A c \in DOMAIN Candidates : LinearAt(c)
BY DEF HeadsAreLinear, LinearAt, Candidates, Revisions

LEMMA LineStays ==
  ASSUME NEW c, LinearAt(c), Committed(c)' = Committed(c),
         \A i \in Committed(c) : Revisions'[i].parent = Revisions[i].parent,
         Candidates'[c].base = Candidates[c].base, Candidates'[c].head = Candidates[c].head
  PROVE  LinearAt(c)'
BY DEF LinearAt

LEMMA KeepsLines ==
  ASSUME Tables, Lines, Aged(Kinds), Fresh
  PROVE  Lines'
<1>1. /\ DOMAIN Revisions = 1 .. Len(Revisions) /\ Len(Revisions) \in Nat
      /\ DOMAIN Candidates = 1 .. Len(Candidates) /\ Len(Candidates) \in Nat
      /\ DOMAIN Candidates' = 1 .. Len(Candidates') /\ Len(Candidates') \in Nat
      /\ DOMAIN Revisions' = 1 .. Len(Revisions') /\ Len(Revisions') \in Nat
      /\ DOMAIN Candidates \subseteq DOMAIN Candidates' /\ DOMAIN Revisions \subseteq DOMAIN Revisions'
  <2>1. "revision" \in Kinds /\ "candidate" \in Kinds
    BY DEF Kinds
  <2>2. \A k \in Kinds : DOMAIN table'[k] = 1 .. Len(table'[k]) /\ Len(table'[k]) \in Nat
    BY DEF Aged, Tables
  <2>. QED BY <2>1, <2>2, TableFacts, KeepsOldFields DEF Revisions, Candidates
<1>2. \A i \in DOMAIN Revisions :
        Revisions'[i].parent = Revisions[i].parent /\ Revisions'[i].candidate = Revisions[i].candidate
  BY KeepsOldFields DEF Kinds
<1>3. \A c \in DOMAIN Candidates :
        Candidates'[c].base = Candidates[c].base /\ Candidates'[c].head = Candidates[c].head
  BY <1>1 DEF Aged, Same, Candidates, Kinds
<1>4. \A i \in DOMAIN Revisions' : Revisions'[i].candidate \in DOMAIN Candidates \cup {0}
  BY <1>2 DEF Lines, Fresh
<1>5. ASSUME NEW c \in DOMAIN Candidates'
      PROVE  /\ Candidates'[c].base \in DOMAIN Revisions' /\ Candidates'[c].head \in DOMAIN Revisions'
             /\ Candidates'[c].base <= Candidates'[c].head
             /\ LinearAt(c)'
  <2>1. CASE c \in DOMAIN Candidates
    <3>1. Committed(c)' = Committed(c)
      <4>1. c # 0
        BY <1>1
      <4>2. \A i \in DOMAIN Revisions' : Revisions'[i].candidate = c => i \in DOMAIN Revisions
        BY <4>1 DEF Fresh
      <4>. QED BY <1>1, <1>2, <4>2 DEF Committed, Revisions
    <3>2. LinearAt(c)
      BY <2>1, LinearEach DEF Lines
    <3>3. \A i \in Committed(c) : Revisions'[i].parent = Revisions[i].parent
      BY <1>2 DEF Committed, Revisions
    <3>. QED BY <1>1, <1>3, <2>1, <3>1, <3>2, <3>3, LineStays DEF Lines
  <2>2. CASE c \notin DOMAIN Candidates
    <3>1. Committed(c)' = {}
      <4>1. c # 0
        BY <1>1
      <4>2. \A i \in DOMAIN Revisions' : Revisions'[i].candidate # c
        BY <1>4, <2>2, <4>1
      <4>. QED BY <4>2 DEF Committed, Revisions
    <3>2. Candidates'[c].base \in DOMAIN Revisions' /\ Candidates'[c].head = Candidates'[c].base
      BY <2>2 DEF Fresh
    <3>. QED BY <1>1, <3>1, <3>2 DEF LinearAt
  <2>. QED BY <2>1, <2>2
<1>6. HeadsAreLinear'
  <2>1. \A c \in DOMAIN Candidates' : LinearAt(c)'
    BY <1>5
  <2>. QED BY <2>1 DEF HeadsAreLinear, LinearAt, Candidates, Revisions
<1>. QED BY <1>1, <1>4, <1>5, <1>6 DEF Lines

LEMMA KeepsMemos ==
  ASSUME Tables, Memos, Aged(Kinds), Fresh
  PROVE  Memos'
<1>1. DOMAIN Candidates = 1 .. Len(Candidates) /\ DOMAIN Revisions \subseteq DOMAIN Revisions'
  BY TableFacts, KeepsOldFields DEF Revisions, Candidates, Kinds
<1>2. \A c \in DOMAIN Candidates : Candidates'[c].idempotency = Candidates[c].idempotency
  BY <1>1 DEF Aged, Same, Candidates, Kinds
<1>3. ASSUME NEW c \in DOMAIN Candidates', NEW k \in Keys, Candidates'[c].idempotency[k] # None
      PROVE  Remembers(c, Candidates[c].idempotency[k])'
  <2>1. c \in DOMAIN Candidates
    BY <1>3 DEF Fresh, NoIdempotency
  <2>2. PICK memo : memo = Candidates[c].idempotency[k]
    OBVIOUS
  <2>3. Candidates'[c].idempotency[k] = memo /\ Remembers(c, memo)
    BY <1>2, <1>3, <2>1, <2>2 DEF Memos
  <2>4. Remembers(c, memo)'
    <3>1. memo.revision \in DOMAIN Revisions
      BY <2>3 DEF Remembers
    <3>. QED BY <1>1, <2>3, <3>1, KeepsOldFields DEF Remembers, Kinds
  <2>. QED BY <2>3, <2>4 DEF Remembers
<1>. QED BY <1>3 DEF Memos

-----------------------------------------------------------------------------
(* The commit of an edit.                                                  *)

LEMMA LifetimesAreNatural == ASSUME NEW k \in Kinds PROVE Lifetime[k] \in Nat
BY WorkspaceConstants

LEMMA OpenFields ==
  ASSUME Tables, NEW o \in DOMAIN Opens
  PROVE  Opens[o].candidate \in Nat /\ Opens[o].revision \in Serial /\ Opens[o].edit \in BOOLEAN
<1>1. Opens[o] \in OpenEntry
  BY TableFacts, EntryKinds DEF Opens, Kinds
<1>. QED BY <1>1 DEF OpenEntry

LEMMA AdvancedEntry ==
  ASSUME NEW e \in CandidateEntry, NEW n \in Serial, NEW memos \in [Keys -> Memo \cup {None}]
  PROVE  LET f == [e EXCEPT !.head = n, !.idempotency = memos]
         IN  /\ f \in CandidateEntry /\ f.base = e.base /\ f.head = n /\ f.idempotency = memos
             /\ f.expires = e.expires /\ f.retained = e.retained
BY DEF CandidateEntry

(* What the publication of r's edit does to the tables.                    *)
PublishedBy(r) ==
  LET c == Opened(r).candidate
      n == Len(Revisions) + 1
  IN  table' = [Pruned EXCEPT
                  !["revision"] = Append(@, Child(r)),
                  !["candidate"] = [@ EXCEPT ![c] = Advanced(r, Pruned["candidate"][c], n)]]

Publishing(r) ==
  /\ CallFits(request[r]) /\ request[r].open # 0
  /\ Live("candidate", Opened(r).candidate) /\ HeadUnmoved(r)
  /\ now' = now /\ PublishedBy(r)

LEMMA ChildEntry ==
  ASSUME Tables, NEW r \in Requests, Publishing(r)
  PROVE  /\ Child(r) \in RevisionEntry
         /\ Child(r).parent = Opened(r).revision /\ Child(r).candidate = Opened(r).candidate
         /\ Child(r).payload = request[r].payload
<1>1. request[r].open \in DOMAIN Opens /\ request[r].payload \in Payloads
  BY DEF Publishing, CallFits
<1>2. Opened(r).candidate \in Nat /\ Opened(r).revision \in Nat
  BY <1>1, OpenFields DEF Opened, Opens, Serial
<1>3. now + Lifetime["revision"] \in Nat
  BY LifetimesAreNatural, SMTT(30) DEF Tables, Kinds
<1>. QED BY <1>1, <1>2, <1>3 DEF Child, Revision, RevisionEntry

LEMMA PublishedTables ==
  ASSUME Tables, NEW r \in Requests, Publishing(r)
  PROVE  LET c == Opened(r).candidate
             n == Len(Revisions) + 1
         IN  /\ Aged(Kinds \ {"candidate"})
             /\ c \in DOMAIN Candidates
             /\ Len(Revisions) \in Nat /\ DOMAIN Revisions = 1 .. Len(Revisions)
             /\ DOMAIN Revisions' = 1 .. n /\ Revisions'[n] = Child(r)
             /\ DOMAIN Candidates' = DOMAIN Candidates
             /\ \A d \in DOMAIN Candidates : Candidates'[d].base = Candidates[d].base
             /\ \A d \in DOMAIN Candidates \ {c} :
                  /\ Candidates'[d].head = Candidates[d].head
                  /\ Candidates'[d].idempotency = Candidates[d].idempotency
             /\ Candidates'[c].head = n
             /\ \A k \in Keys : Candidates'[c].idempotency[k] # None =>
                  /\ Candidates'[c].idempotency[k].revision = n
                  /\ Candidates'[c].idempotency[k].head = Opened(r).revision
                  /\ Candidates'[c].idempotency[k].payload = request[r].payload
             /\ Fewer(Kinds)
             /\ \A k \in Kinds \ {"revision"} : DOMAIN table'[k] = DOMAIN table[k]
<1> DEFINE c == Opened(r).candidate
           n == Len(Revisions) + 1
           R == Pruned["revision"]
           C == Pruned["candidate"]
<1>1. "revision" \in Kinds /\ "candidate" \in Kinds
  BY DEF Kinds
<1>2. \A k \in Kinds :
        /\ Pruned[k] \in Seq(Entry(k)) /\ Len(Pruned[k]) = Len(table[k])
        /\ DOMAIN Pruned[k] = DOMAIN table[k]
        /\ \A i \in DOMAIN table[k] :
             /\ Same(k, table[k][i], Pruned[k][i])
             /\ Pruned[k][i].retained => table[k][i].retained /\ Live(k, i)
  BY PrunedFacts DEF Pruned
<1>3. \A k \in Kinds : Len(table[k]) \in Nat /\ DOMAIN table[k] = 1 .. Len(table[k])
  BY TableFacts
<1>4. DOMAIN Pruned = Kinds
  BY DEF Pruned, PrunedOf
<1>5. /\ table'["revision"] = Append(R, Child(r))
      /\ table'["candidate"] = [C EXCEPT ![c] = Advanced(r, C[c], n)]
      /\ \A k \in Kinds \ {"revision", "candidate"} : table'[k] = Pruned[k]
      /\ DOMAIN table' = Kinds
  BY <1>1, <1>4 DEF Publishing, PublishedBy
<1>6. c \in DOMAIN Candidates
  BY DEF Publishing, Live, Candidates
<1>7. n \in Serial /\ Len(Revisions) \in Nat /\ DOMAIN Revisions = 1 .. Len(Revisions)
  BY <1>1, <1>3 DEF Revisions, Serial
<1>8. PICK memos : memos = [k \in Keys |->
                     IF k = request[r].key
                     THEN [head |-> Opened(r).revision, payload |-> request[r].payload, revision |-> n]
                     ELSE None]
  OBVIOUS
<1>9. memos \in [Keys -> Memo \cup {None}]
  <2>1. request[r].open \in DOMAIN Opens /\ request[r].payload \in Payloads
    BY DEF Publishing, CallFits
  <2>2. Opened(r).revision \in Serial
    BY <2>1, OpenFields DEF Opened, Opens
  <2>3. [head |-> Opened(r).revision, payload |-> request[r].payload, revision |-> n] \in Memo
    BY <1>7, <2>1, <2>2 DEF Memo
  <2>. QED BY <1>8, <2>3
<1>10. Advanced(r, C[c], n) = [C[c] EXCEPT !.head = n, !.idempotency = memos]
  BY <1>8 DEF Advanced
<1>11. C \in Seq(CandidateEntry) /\ Len(C) = Len(Candidates) /\ c \in 1 .. Len(C) /\ Len(C) \in Nat
  BY <1>1, <1>2, <1>3, <1>6, EntryKinds DEF Candidates
<1>12. PICK a : a = Advanced(r, C[c], n)
  OBVIOUS
<1>13. /\ a \in CandidateEntry /\ a.base = C[c].base /\ a.head = n /\ a.idempotency = memos
       /\ a.expires = C[c].expires /\ a.retained = C[c].retained
  <2>1. C[c] \in CandidateEntry
    BY <1>11
  <2>2. PICK e : e = C[c]
    OBVIOUS
  <2>3. e \in CandidateEntry /\ a = [e EXCEPT !.head = n, !.idempotency = memos]
    BY <1>10, <1>12, <2>1, <2>2
  <2>4. n \in Serial
    BY <1>7
  <2> HIDE DEF n
  <2>5. /\ a \in CandidateEntry /\ a.base = e.base /\ a.head = n /\ a.idempotency = memos
        /\ a.expires = e.expires /\ a.retained = e.retained
    BY <1>9, <2>3, <2>4 DEF CandidateEntry
  <2>. QED BY <2>2, <2>5
<1>14. R \in Seq(RevisionEntry) /\ Len(R) = Len(Revisions)
  BY <1>1, <1>2, EntryKinds DEF Revisions
<1>15. Child(r) \in RevisionEntry
  BY ChildEntry
<1>16. /\ table'["revision"] \in Seq(RevisionEntry) /\ Len(table'["revision"]) = n
       /\ \A i \in 1 .. Len(Revisions) : table'["revision"][i] = R[i]
       /\ table'["revision"][n] = Child(r)
  BY <1>5, <1>7, <1>14, <1>15
<1>17. /\ table'["candidate"] \in Seq(CandidateEntry) /\ Len(table'["candidate"]) = Len(Candidates)
       /\ \A d \in 1 .. Len(Candidates) : d # c => table'["candidate"][d] = C[d]
       /\ table'["candidate"][c] = a
       /\ DOMAIN table'["candidate"] = DOMAIN Candidates
  <2>1. C \in [1 .. Len(C) -> CandidateEntry]
    BY <1>11
  <2>2. table'["candidate"] \in [1 .. Len(C) -> CandidateEntry]
    BY <1>5, <1>12, <1>13, <2>1
  <2>3. table'["candidate"] \in Seq(CandidateEntry) /\ Len(table'["candidate"]) = Len(Candidates)
    BY <1>11, <2>2
  <2>4. /\ \A d \in 1 .. Len(Candidates) : d # c => table'["candidate"][d] = C[d]
        /\ table'["candidate"][c] = a
    BY <1>5, <1>11, <1>12, <2>1
  <2>5. DOMAIN Candidates = 1 .. Len(Candidates)
    BY <1>1, <1>3 DEF Candidates
  <2>. QED BY <1>11, <2>2, <2>3, <2>4, <2>5
<1> HIDE DEF R, C, n, c
<1>18. Tables'
  <2>1. \A k \in Kinds : table'[k] \in Seq(Entry(k))
    BY <1>2, <1>5, <1>16, <1>17, EntryKinds
  <2>2. table' = [k \in Kinds |-> table'[k]]
    BY ZenonT(30) DEF Publishing, PublishedBy, Pruned, PrunedOf
  <2>3. now' \in Nat
    BY DEF Publishing, Tables
  <2>. QED BY <2>1, <2>2, <2>3 DEF Tables, Entry, RevisionEntry, CandidateEntry, OpenEntry, AuthorityEntry, PlanEntry
<1>19. Aged(Kinds \ {"candidate"})
  <2>1. now <= now'
    BY DEF Publishing, Tables
  <2>2. ASSUME NEW k \in Kinds PROVE Len(table[k]) <= Len(table'[k])
    <3>1. CASE k = "revision"
      BY <1>3, <1>7, <1>16, <3>1 DEF Revisions, n
    <3>2. CASE k = "candidate"
      BY <1>3, <1>1, <1>17, <3>2 DEF Candidates
    <3>3. CASE k \notin {"revision", "candidate"}
      BY <1>2, <1>3, <1>5, <3>3
    <3>. QED BY <3>1, <3>2, <3>3
  <2>3. ASSUME NEW k \in Kinds \ {"candidate"}, NEW i \in 1 .. Len(table[k])
        PROVE  Same(k, table[k][i], table'[k][i]) /\ (table'[k][i].retained => table[k][i].retained)
    <3>1. CASE k = "revision"
      BY <1>2, <1>3, <1>16, <3>1 DEF Revisions, R
    <3>2. CASE k # "revision"
      BY <1>2, <1>3, <1>5, <3>2
    <3>. QED BY <3>1, <3>2
  <2>. QED BY <1>18, <2>1, <2>2, <2>3 DEF Aged
<1>20. DOMAIN Revisions' = 1 .. n /\ Revisions'[n] = Child(r)
  BY <1>7, <1>16 DEF Revisions, Serial
<1>21. DOMAIN Candidates' = DOMAIN Candidates
  BY <1>17 DEF Candidates
<1>22. \A d \in DOMAIN Candidates :
         /\ C[d].base = Candidates[d].base /\ C[d].head = Candidates[d].head
         /\ C[d].idempotency = Candidates[d].idempotency
  BY <1>1, <1>2 DEF Same, Candidates, C
<1>23. DOMAIN Candidates = 1 .. Len(Candidates)
  BY <1>1, <1>3 DEF Candidates
<1>24. \A d \in DOMAIN Candidates : Candidates'[d] = IF d = c THEN a ELSE C[d]
  BY <1>17, <1>23 DEF Candidates
<1>25. \A k \in Keys : memos[k] # None =>
         memos[k].revision = n /\ memos[k].head = Opened(r).revision /\ memos[k].payload = request[r].payload
  BY <1>8 DEF n
<1>26. /\ \A d \in DOMAIN Candidates : Candidates'[d].base = Candidates[d].base
       /\ \A d \in DOMAIN Candidates \ {c} :
            /\ Candidates'[d].head = Candidates[d].head
            /\ Candidates'[d].idempotency = Candidates[d].idempotency
       /\ Candidates'[c].head = n
       /\ Candidates'[c].idempotency = memos
  BY <1>6, <1>13, <1>22, <1>24
<1>27. ASSUME NEW k \in Kinds \ {"revision"} PROVE DOMAIN table'[k] = DOMAIN table[k]
  <2>1. CASE k = "candidate"
    BY <1>17, <2>1 DEF Candidates
  <2>2. CASE k # "candidate"
    BY <1>2, <1>5, <2>2
  <2>. QED BY <2>1, <2>2
<1>28. Fewer(Kinds)
  <2> SUFFICES ASSUME NEW k \in Kinds
               PROVE  /\ DOMAIN table[k] \subseteq DOMAIN table'[k]
                      /\ \A i \in DOMAIN table[k] :
                           table'[k][i].retained => table[k][i].retained /\ Live(k, i)
    BY DEF Fewer
  <2>1. CASE k = "revision"
    <3>1. DOMAIN table[k] = 1 .. Len(Revisions) /\ DOMAIN table'[k] = 1 .. n
      BY <1>7, <1>20, <2>1 DEF Revisions
    <3>2. \A i \in DOMAIN table[k] : table'[k][i] = Pruned[k][i]
      BY <1>16, <2>1, <3>1 DEF R
    <3>3. 1 .. Len(Revisions) \subseteq 1 .. n
      BY <1>7 DEF n
    <3>. QED BY <1>2, <3>1, <3>2, <3>3
  <2>2. CASE k = "candidate"
    <3>1. \A i \in DOMAIN table[k] : table'[k][i].retained = Pruned[k][i].retained
      BY <1>13, <1>24, <2>2 DEF Candidates, C
    <3>. QED BY <1>2, <1>27, <2>2, <3>1
  <2>3. CASE k \notin {"revision", "candidate"}
    BY <1>2, <1>5, <2>3
  <2>. QED BY <2>1, <2>2, <2>3
<1>. QED BY <1>6, <1>7, <1>19, <1>20, <1>21, <1>25, <1>26, <1>27, <1>28 DEF n, c

LEMMA PublishKeepsLines ==
  ASSUME Tables, Lines, Memos, NEW r \in Requests, Publishing(r)
  PROVE  Lines' /\ Memos'
<1> DEFINE n == Len(Revisions) + 1
<1>0. PICK c : c = Opened(r).candidate
  OBVIOUS
<1>1. /\ c \in DOMAIN Candidates
      /\ Len(Revisions) \in Nat /\ DOMAIN Revisions = 1 .. Len(Revisions)
      /\ DOMAIN Revisions' = 1 .. n /\ Revisions'[n] = Child(r)
      /\ DOMAIN Candidates' = DOMAIN Candidates
      /\ \A d \in DOMAIN Candidates : Candidates'[d].base = Candidates[d].base
      /\ \A d \in DOMAIN Candidates \ {c} :
           /\ Candidates'[d].head = Candidates[d].head
           /\ Candidates'[d].idempotency = Candidates[d].idempotency
      /\ Candidates'[c].head = n
      /\ \A k \in Keys : Candidates'[c].idempotency[k] # None =>
           /\ Candidates'[c].idempotency[k].revision = n
           /\ Candidates'[c].idempotency[k].head = Opened(r).revision
           /\ Candidates'[c].idempotency[k].payload = request[r].payload
  BY <1>0, PublishedTables
<1>2. \A i \in DOMAIN Revisions :
        /\ Revisions'[i].parent = Revisions[i].parent
        /\ Revisions'[i].candidate = Revisions[i].candidate
        /\ Revisions'[i].payload = Revisions[i].payload
  <2>1. PICK kinds \in SUBSET Kinds : kinds = Kinds \ {"candidate"}
    OBVIOUS
  <2>2. "revision" \in kinds
    BY <2>1 DEF Kinds
  <2>3. Aged(kinds)
    BY <2>1, PublishedTables
  <2>. QED BY <2>2, <2>3, KeepsOldFields
<1>3. /\ Revisions'[n].parent = Candidates[c].head /\ Revisions'[n].candidate = c
      /\ Revisions'[n].parent = Opened(r).revision /\ Revisions'[n].payload = request[r].payload
  <2>1. Candidates[c].head = Opened(r).revision
    BY <1>0 DEF Publishing, HeadUnmoved, Candidate, Candidates
  <2>. QED BY <1>0, <1>1, <2>1, ChildEntry
<1>4. PICK m : m = n
  OBVIOUS
<1>5. m \in Nat \ {0} /\ m \notin DOMAIN Revisions /\ DOMAIN Revisions' = DOMAIN Revisions \cup {m}
      /\ \A i \in DOMAIN Revisions : i \in Nat /\ i < m
  BY <1>1, <1>4
<1> HIDE DEF n
<1>6. /\ Committed(c)' = Committed(c) \cup {m}
      /\ \A d \in DOMAIN Candidates \ {c} : Committed(d)' = Committed(d)
  <2>1. \A i \in DOMAIN Revisions : Revisions'[i].candidate = Revisions[i].candidate
    BY <1>2
  <2>2. Revisions'[m].candidate = c
    BY <1>3, <1>4
  <2>3. DOMAIN Revisions' = DOMAIN Revisions \cup {m} /\ m \notin DOMAIN Revisions
    BY <1>5
  <2>4. PICK R, S : R = Revisions /\ S = Revisions'
    OBVIOUS
  <2>5. ASSUME NEW d
        PROVE  /\ Committed(d) = {i \in DOMAIN R : R[i].candidate = d}
               /\ Committed(d)' = {i \in DOMAIN S : S[i].candidate = d}
    BY <2>4 DEF Committed, Revisions
  <2>6. /\ DOMAIN S = DOMAIN R \cup {m} /\ m \notin DOMAIN R /\ S[m].candidate = c
        /\ \A i \in DOMAIN R : S[i].candidate = R[i].candidate
    BY <2>1, <2>2, <2>3, <2>4
  <2>7. Committed(c)' = Committed(c) \cup {m}
    BY <2>5, <2>6
  <2>8. ASSUME NEW d \in DOMAIN Candidates \ {c} PROVE Committed(d)' = Committed(d)
    BY <2>5, <2>6
  <2>. QED BY <2>7, <2>8
<1>7. \A d \in DOMAIN Candidates \ {c} : Committed(d)' = Committed(d)
  BY <1>6
<1>8. \A d \in DOMAIN Candidates : Committed(d) \subseteq DOMAIN Revisions
  BY DEF Committed, Revisions
<1>9. /\ Candidates[c].base \in DOMAIN Revisions /\ Candidates[c].head \in DOMAIN Revisions
      /\ Candidates[c].base <= Candidates[c].head /\ LinearAt(c)
  BY <1>1, LinearEach DEF Lines
<1>10. LinearAt(c)'
  <2>1. PICK b, h : b = Candidates[c].base /\ h = Candidates[c].head
    OBVIOUS
  <2>2. Candidates'[c].base = b /\ Candidates'[c].head = m
    BY <1>1, <1>4, <2>1
  <2>3. /\ \A i \in Committed(c) : /\ Revisions[i].parent \in {j \in Committed(c) \cup {b} : j < i}
                                   /\ \A j \in Committed(c) \cup {b} : j < i => j <= Revisions[i].parent
        /\ h \in Committed(c) \cup {b} /\ \A j \in Committed(c) : j <= h
        /\ b \in DOMAIN Revisions /\ h \in DOMAIN Revisions /\ b <= h
    BY <1>9, <2>1 DEF LinearAt
  <2>4. ASSUME NEW i \in Committed(c)
        PROVE  /\ Revisions'[i].parent \in {j \in Committed(c) \cup {m} \cup {b} : j < i}
               /\ \A j \in Committed(c) \cup {m} \cup {b} : j < i => j <= Revisions'[i].parent
    <3>1. i \in DOMAIN Revisions /\ ~(m < i)
      BY <1>1, <1>5, <1>8
    <3>2. Revisions'[i].parent = Revisions[i].parent
      BY <1>2, <3>1
    <3>. QED BY <2>3, <3>1, <3>2
  <2>5. /\ Revisions'[m].parent \in {j \in Committed(c) \cup {m} \cup {b} : j < m}
        /\ \A j \in Committed(c) \cup {m} \cup {b} : j < m => j <= Revisions'[m].parent
    <3>1. Revisions'[m].parent = h
      BY <1>3, <1>4, <2>1
    <3>2. h < m
      BY <1>5, <2>3
    <3>3. ~(m < m)
      BY <1>5
    <3>. QED BY <2>3, <3>1, <3>2, <3>3
  <2>6. \A j \in Committed(c) \cup {m} : j <= m
    BY <1>1, <1>5, <1>8
  <2>7. Committed(c)' \cup {Candidates'[c].base} = Committed(c) \cup {m} \cup {b}
    BY <1>6, <2>2
  <2>. QED BY <1>6, <2>2, <2>4, <2>5, <2>6, <2>7 DEF LinearAt
<1>11. HeadsAreLinear'
  <2>1. ASSUME NEW d \in DOMAIN Candidates, d # c PROVE LinearAt(d)'
    <3>1. LinearAt(d)
      BY LinearEach DEF Lines
    <3>2. \A i \in Committed(d) : Revisions'[i].parent = Revisions[i].parent
      BY <1>2, <1>8
    <3>. QED BY <1>1, <1>7, <2>1, <3>1, <3>2, LineStays
  <2>2. \A d \in DOMAIN Candidates' : LinearAt(d)'
    BY <1>1, <1>10, <2>1
  <2>. QED BY <2>2 DEF HeadsAreLinear, LinearAt, Candidates, Revisions
<1>12. Lines'
  <2>1. \A i \in DOMAIN Revisions' : Revisions'[i].candidate \in DOMAIN Candidates' \cup {0}
    BY <1>1, <1>2, <1>3, <1>4, <1>5 DEF Lines
  <2>2. \A d \in DOMAIN Candidates' :
          /\ Candidates'[d].base \in DOMAIN Revisions' /\ Candidates'[d].head \in DOMAIN Revisions'
          /\ Candidates'[d].base <= Candidates'[d].head
    <3>1. ASSUME NEW d \in DOMAIN Candidates
          PROVE  /\ Candidates'[d].base \in DOMAIN Revisions' /\ Candidates'[d].head \in DOMAIN Revisions'
                 /\ Candidates'[d].base <= Candidates'[d].head
      <4>1. /\ Candidates[d].base \in DOMAIN Revisions /\ Candidates[d].head \in DOMAIN Revisions
            /\ Candidates[d].base <= Candidates[d].head
        BY DEF Lines
      <4>2. CASE d = c
        <5>1. Candidates'[d].base = Candidates[d].base /\ Candidates'[d].head = m
          BY <1>1, <1>4, <4>2
        <5>2. Candidates[d].base < m
          BY <1>5, <4>1
        <5>. QED BY <1>5, <4>1, <5>1, <5>2
      <4>3. CASE d # c
        BY <1>1, <1>5, <4>1, <4>3
      <4>. QED BY <4>2, <4>3
    <3>. QED BY <1>1, <3>1
  <2>. QED BY <1>11, <2>1, <2>2 DEF Lines
<1>13. Memos'
  <2>1. ASSUME NEW d \in DOMAIN Candidates', NEW k \in Keys, Candidates'[d].idempotency[k] # None
        PROVE  Remembers(d, Candidates[d].idempotency[k])'
    <3>1. PICK memo : memo = Candidates'[d].idempotency[k]
      OBVIOUS
    <3>2. CASE d = c
      <4>1. memo.revision = m /\ memo.head = Opened(r).revision /\ memo.payload = request[r].payload
        BY <1>1, <1>4, <2>1, <3>1, <3>2
      <4>. QED BY <1>3, <1>4, <1>5, <3>1, <3>2, <4>1 DEF Remembers
    <3>3. CASE d # c
      <4>1. Candidates[d].idempotency[k] = memo /\ d \in DOMAIN Candidates
        BY <1>1, <3>1, <3>3
      <4>2. Remembers(d, memo)
        BY <2>1, <3>1, <4>1 DEF Memos
      <4>. QED BY <1>2, <1>5, <3>1, <4>2 DEF Remembers
    <3>. QED BY <3>2, <3>3
  <2>. QED BY <2>1 DEF Memos
<1>. QED BY <1>12, <1>13

-----------------------------------------------------------------------------
(* The calls.                                                              *)

(* r's call becomes another one that fits.                                 *)
Moves(r) == \E call \in Request : request' = [request EXCEPT ![r] = call] /\ CallFits(call)

LEMMA CallMoves ==
  ASSUME WorkInv, NEW r \in Requests, Moves(r),
         Aged(Kinds \ {"candidate"}), Lines', Memos'
  PROVE  WorkInv'
<1>1. PICK call \in Request : request' = [request EXCEPT ![r] = call] /\ CallFits(call)
  BY DEF Moves
<1>2. Tables /\ request \in [Requests -> Request]
  BY DEF WorkInv, WellFormed
<1>3. \A q \in Requests : request'[q] = IF q = r THEN call ELSE request[q]
  BY <1>1, <1>2
<1>4. ASSUME NEW q \in Requests PROVE CallFits(request[q])'
  <2>1. PICK x : x = request'[q]
    OBVIOUS
  <2>2. CallFits(x)
    BY <1>1, <1>3, <2>1 DEF WorkInv, Calls
  <2>3. CallFits(x)'
    BY <1>2, <2>2, KeepsCall DEF Kinds
  <2>. QED BY <2>1, <2>3
<1>5. WellFormed'
  BY <1>1, <1>2 DEF WellFormed, Aged
<1>. QED BY <1>4, <1>5 DEF WorkInv, Calls

LEMMA TablesMove ==
  ASSUME WorkInv, Aged(Kinds), Fresh, request' = request
  PROVE  WorkInv'
<1>1. Tables /\ Lines /\ Memos /\ request \in [Requests -> Request]
  BY DEF WorkInv, WellFormed
<1>2. Lines' /\ Memos'
  BY <1>1, KeepsLines, KeepsMemos
<1>3. ASSUME NEW q \in Requests PROVE CallFits(request[q])'
  <2>1. PICK x : x = request[q]
    OBVIOUS
  <2>2. CallFits(x)
    BY <2>1 DEF WorkInv, Calls
  <2>3. CallFits(x)'
    BY <1>1, <2>2, KeepsCall DEF Kinds
  <2>. QED BY <2>1, <2>3
<1>4. WellFormed'
  BY <1>1 DEF WellFormed, Aged
<1>. QED BY <1>2, <1>3, <1>4 DEF WorkInv, Calls

LEMMA OnlyTheCall ==
  ASSUME WorkInv, NEW r \in Requests, Moves(r), UNCHANGED <<table, now>>
  PROVE  WorkInv'
<1>1. Tables /\ Lines /\ Memos /\ now \in Nat
  BY DEF WorkInv, WellFormed, Tables
<1>2. Aged(Kinds) /\ Fresh
  BY <1>1, Unmoved
<1>3. Lines' /\ Memos'
  BY <1>1, <1>2, KeepsLines, KeepsMemos
<1>4. Aged(Kinds \ {"candidate"})
  BY <1>2 DEF Aged
<1>. QED BY <1>3, <1>4, CallMoves

LEMMA MovedFields ==
  ASSUME NEW call \in Request, NEW phase \in Phases
  PROVE  LET new == [call EXCEPT !.phase = phase]
         IN  /\ new \in Request /\ new.phase = phase /\ new.open = call.open
             /\ new.authority = call.authority /\ new.key = call.key
             /\ new.payload = call.payload /\ new.result = call.result /\ new.gone = call.gone
BY DEF Request

LEMMA AnsweredFields ==
  ASSUME NEW call \in Request, NEW revision \in Nat
  PROVE  LET new == [call EXCEPT !.phase = "done", !.result = revision]
         IN  /\ new \in Request /\ new.phase = "done" /\ new.open = call.open
             /\ new.authority = call.authority /\ new.key = call.key
             /\ new.payload = call.payload /\ new.result = revision /\ new.gone = call.gone
BY DEF Request, Phases

LEMMA Going ==
  ASSUME WorkInv, NEW r \in Requests, NEW phase \in Phases, GoTo(r, phase),
         phase \in {"authorize", "read", "commit"} => request[r].open # 0,
         phase \notin {"resolve", "plan"},
         phase \in {"authorize", "read", "commit", "done"} => <<"open", request[r].open>> \notin request[r].gone,
         phase \in {"read", "commit", "done"} => <<"authority", request[r].authority>> \notin request[r].gone,
         phase = "done" => request[r].open = 0
  PROVE  Moves(r)
<1>1. PICK call : call = request[r]
  OBVIOUS
<1>2. call \in Request /\ CallFits(call)
  BY <1>1 DEF WorkInv, WellFormed, Calls
<1>3. PICK new : new = [call EXCEPT !.phase = phase]
  OBVIOUS
<1>4. /\ new \in Request /\ new.phase = phase /\ new.open = call.open
      /\ new.authority = call.authority /\ new.key = call.key
      /\ new.payload = call.payload /\ new.result = call.result /\ new.gone = call.gone
  BY <1>2, <1>3, MovedFields
<1>5. request' = [request EXCEPT ![r] = new]
  BY <1>1, <1>3 DEF GoTo
<1>6. GoneFor(new)
  <2>1. GoneFor(call)
    BY <1>2 DEF CallFits
  <2>. QED BY <1>1, <1>4, <2>1 DEF GoneFor
<1>7. CallFits(new)
  BY <1>1, <1>2, <1>4, <1>6 DEF CallFits
<1>. QED BY <1>4, <1>5, <1>7 DEF Moves

LEMMA Failing ==
  ASSUME WorkInv, NEW r \in Requests, GoTo(r, "failed")
  PROVE  Moves(r)
BY Going DEF Phases

LEMMA Calling ==
  ASSUME WorkInv, NEW r \in Requests,
         NEW open \in DOMAIN table["open"], NEW authority \in DOMAIN table["authority"],
         NEW key \in Keys, NEW payload \in Payloads, PaperMutation(r, open, authority, key, payload)
  PROVE  Moves(r)
<1>1. open \in Serial /\ authority \in Serial
  <2>1. "open" \in Kinds /\ "authority" \in Kinds
    BY DEF Kinds
  <2>2. Tables
    BY DEF WorkInv, WellFormed
  <2>3. DOMAIN table["open"] = 1 .. Len(table["open"]) /\ DOMAIN table["authority"] = 1 .. Len(table["authority"])
    BY <2>1, <2>2, TableFacts
  <2>4. Len(table["open"]) \in Nat /\ Len(table["authority"]) \in Nat
    BY <2>1, <2>2, TableFacts
  <2>. QED BY <2>3, <2>4 DEF Serial
<1>2. PICK gone : gone = {h \in {<<"open", open>>, <<"authority", authority>>} : ~Live(h[1], h[2])}
  OBVIOUS
<1>3. gone \subseteq {<<"open", open>>, <<"authority", authority>>} /\ gone \in SUBSET Handle
  BY <1>1, <1>2 DEF Handle, Kinds
<1>4. /\ <<"open", open>> \in gone => ~Live("open", open)
      /\ <<"authority", authority>> \in gone => ~Live("authority", authority)
  BY <1>2
<1>5. PICK new : new = [Idle EXCEPT !.phase = "resolve", !.open = open, !.authority = authority,
                          !.key = key, !.payload = payload, !.gone = gone]
  OBVIOUS
<1>6. request' = [request EXCEPT ![r] = new]
  BY <1>2, <1>5 DEF PaperMutation
<1>7. Idle \in Request
  BY DEF Idle, Request, Phases
<1>8. /\ new \in Request /\ new.phase = "resolve" /\ new.open = open /\ new.authority = authority
      /\ new.key = key /\ new.payload = payload /\ new.gone = gone
  <2>1. open \in Nat /\ authority \in Nat /\ "resolve" \in Phases
    BY <1>1 DEF Serial, Phases
  <2>. QED BY <1>3, <1>5, <1>7, <2>1 DEF Request
<1>9. CallFits(new)
  <2>1. open # 0 /\ open \in DOMAIN Opens /\ authority \in DOMAIN Authorities
    BY <1>1 DEF Serial, Opens, Authorities
  <2>2. GoneFor(new)
    BY <1>3, <1>4, <1>8 DEF GoneFor
  <2>. QED BY <1>8, <2>1, <2>2 DEF CallFits
<1>. QED BY <1>6, <1>8, <1>9 DEF Moves

LEMMA Resting ==
  ASSUME WorkInv, NEW r \in Requests, NEW call \in Request,
         request' = [request EXCEPT ![r] = call],
         call.open = 0, call.gone = {}, call.phase \in {"idle", "plan", "done"}
  PROVE  Moves(r)
<1>1. CallFits(call)
  BY DEF CallFits, GoneFor
<1>. QED BY <1>1 DEF Moves

LEMMA ResolveStep ==
  ASSUME WorkInv, NEW r \in Requests, MutationRevision(r)
  PROVE  Moves(r)
<1>1. CallFits(request[r]) /\ request[r].phase = "resolve"
  BY DEF WorkInv, Calls, MutationRevision
<1>2. CASE Live("open", request[r].open) /\ GoTo(r, "authorize")
  <2>1. request[r].open # 0 /\ <<"open", request[r].open>> \notin request[r].gone
    BY <1>1, <1>2 DEF CallFits, GoneFor
  <2>. QED BY <1>2, <2>1, Going DEF Phases
<1>3. CASE GoTo(r, "failed")
  BY <1>3, Failing
<1>. QED BY <1>2, <1>3 DEF MutationRevision

LEMMA AuthorizeStep ==
  ASSUME WorkInv, NEW r \in Requests, AuthorizeMutation(r)
  PROVE  Moves(r)
<1>1. CallFits(request[r]) /\ request[r].phase = "authorize"
  BY DEF WorkInv, Calls, AuthorizeMutation
<1>2. CASE Live("authority", request[r].authority) /\ GoTo(r, "read")
  <2>1. /\ request[r].open # 0 /\ <<"open", request[r].open>> \notin request[r].gone
        /\ <<"authority", request[r].authority>> \notin request[r].gone
    BY <1>1, <1>2 DEF CallFits, GoneFor
  <2>. QED BY <1>2, <2>1, Going DEF Phases
<1>3. CASE GoTo(r, "failed")
  BY <1>3, Failing
<1>. QED BY <1>2, <1>3 DEF AuthorizeMutation

(* A repeated call is answered with the revision of the edit it repeats.   *)
LEMMA Replaying ==
  ASSUME WorkInv, NEW r \in Requests, request[r].phase \in {"read", "commit"},
         Live("candidate", Opened(r).candidate), Remembered(r) # None, Replay(r)
  PROVE  Moves(r)
<1>1. CASE GoTo(r, "failed")
  BY <1>1, Failing
<1>2. CASE /\ Remembered(r).head = Opened(r).revision /\ Remembered(r).payload = request[r].payload
           /\ Answer(r, Remembered(r).revision)
  <2>1. PICK call : call = request[r]
    OBVIOUS
  <2>2. call \in Request /\ CallFits(call) /\ Tables /\ Memos
    BY <2>1 DEF WorkInv, WellFormed, Calls
  <2>3. /\ call.open # 0 /\ call.open \in DOMAIN Opens /\ call.authority \in DOMAIN Authorities
        /\ call.key \in Keys /\ call.payload \in Payloads
    BY <2>1, <2>2 DEF CallFits
  <2>4. PICK c, memo : c = Opened(r).candidate /\ memo = Candidates[c].idempotency[call.key]
    OBVIOUS
  <2>5. c \in DOMAIN Candidates /\ memo = Remembered(r)
    BY <2>1, <2>4 DEF Live, Candidates, Remembered, Candidate
  <2>6. Remembers(c, memo)
    BY <2>2, <2>3, <2>4, <2>5 DEF Memos
  <2>7. memo.revision \in DOMAIN Revisions /\ memo.revision \in Nat
    <3>1. DOMAIN Revisions = 1 .. Len(Revisions)
      BY <2>2, TableFacts DEF Revisions, Kinds
    <3>. QED BY <2>6, <3>1 DEF Remembers
  <2>8. PICK new : new = [call EXCEPT !.phase = "done", !.result = memo.revision]
    OBVIOUS
  <2>9. /\ new \in Request /\ new.phase = "done" /\ new.open = call.open
        /\ new.authority = call.authority /\ new.key = call.key
        /\ new.payload = call.payload /\ new.result = memo.revision /\ new.gone = call.gone
    BY <2>2, <2>7, <2>8, AnsweredFields, ZenonT(30)
  <2>10. request' = [request EXCEPT ![r] = new]
    BY <1>2, <2>1, <2>5, <2>8 DEF Answer
  <2>11. AnswerFits(new)
    <3>1. /\ Opens[call.open].candidate = c /\ Opens[call.open].revision = memo.head
          /\ call.payload = memo.payload
      BY <1>2, <2>1, <2>4, <2>5 DEF Opened, Opens
    <3>. QED BY <2>6, <2>7, <2>9, <3>1 DEF AnswerFits, Remembers
  <2>12. GoneFor(new)
    <3>1. GoneFor(call) /\ call.phase \in {"read", "commit"}
      BY <2>1, <2>2 DEF CallFits
    <3>. QED BY <2>9, <3>1 DEF GoneFor
  <2>13. CallFits(new)
    BY <2>3, <2>9, <2>11, <2>12 DEF CallFits
  <2>. QED BY <2>9, <2>10, <2>13 DEF Moves
<1>. QED BY <1>1, <1>2 DEF Replay

LEMMA ReadStep ==
  ASSUME WorkInv, NEW r \in Requests, ReadHead(r)
  PROVE  Moves(r)
<1>1. CallFits(request[r]) /\ request[r].phase = "read"
  BY DEF WorkInv, Calls, ReadHead
<1>2. CASE GoTo(r, "failed")
  BY <1>2, Failing
<1>3. CASE GoTo(r, "commit")
  <2>1. /\ request[r].open # 0 /\ <<"open", request[r].open>> \notin request[r].gone
        /\ <<"authority", request[r].authority>> \notin request[r].gone
    BY <1>1 DEF CallFits, GoneFor
  <2>. QED BY <1>3, <2>1, Going DEF Phases
<1>4. CASE Live("candidate", Opened(r).candidate) /\ Remembered(r) # None /\ Replay(r)
  BY <1>1, <1>4, Replaying
<1>. QED BY <1>2, <1>3, <1>4 DEF ReadHead

LEMMA PruningStep ==
  ASSUME WorkInv, NEW r \in Requests, Moves(r), table' = Pruned, now' = now
  PROVE  WorkInv'
<1>1. Tables /\ Lines /\ Memos
  BY DEF WorkInv, WellFormed
<1>2. Aged(Kinds) /\ Fresh
  BY <1>1, OnlyPruned DEF Pruned
<1>3. Lines' /\ Memos'
  BY <1>1, <1>2, KeepsLines, KeepsMemos
<1>4. Aged(Kinds \ {"candidate"})
  BY <1>2 DEF Aged
<1>. QED BY <1>3, <1>4, CallMoves

LEMMA PublishStep ==
  ASSUME WorkInv, NEW r \in Requests, request[r].phase = "commit", Publishing(r),
         Answer(r, Len(Revisions) + 1)
  PROVE  WorkInv'
<1>1. Tables /\ Lines /\ Memos /\ request \in [Requests -> Request]
  BY DEF WorkInv, WellFormed
<1>2. PICK call : call = request[r]
  OBVIOUS
<1>3. call \in Request /\ CallFits(call) /\ call.phase = "commit"
  BY <1>1, <1>2 DEF WorkInv, Calls
<1>4. PICK n : n = Len(Revisions) + 1
  OBVIOUS
<1>5. /\ Aged(Kinds \ {"candidate"}) /\ n \in Nat
      /\ n \in DOMAIN Revisions' /\ Revisions'[n] = Child(r)
  <2>1. Aged(Kinds \ {"candidate"})
    BY <1>1, PublishedTables
  <2>2. /\ Len(Revisions) \in Nat /\ DOMAIN Revisions' = 1 .. Len(Revisions) + 1
        /\ Revisions'[Len(Revisions) + 1] = Child(r)
    BY <1>1, PublishedTables
  <2>3. n \in Nat /\ n \in 1 .. n
    BY <1>4, <2>2
  <2>. QED BY <1>4, <2>1, <2>2, <2>3
<1>6. Lines' /\ Memos'
  BY <1>1, PublishKeepsLines
<1>7. PICK new : new = [call EXCEPT !.phase = "done", !.result = n]
  OBVIOUS
<1>8. /\ new \in Request /\ new.phase = "done" /\ new.open = call.open
      /\ new.authority = call.authority /\ new.key = call.key
      /\ new.payload = call.payload /\ new.result = n /\ new.gone = call.gone
  BY <1>3, <1>5, <1>7, AnsweredFields, ZenonT(30)
<1>9. request' = [request EXCEPT ![r] = new]
  BY <1>2, <1>4, <1>7 DEF Answer
<1>10. CallFits(new)'
  <2>1. CallFits(call)'
    BY <1>1, <1>3, <1>5, KeepsCall DEF Kinds
  <2>2. GoneFor(new)'
    <3>1. GoneFor(call)'
      BY <2>1 DEF CallFits
    <3>. QED BY <1>3, <1>8, <3>1 DEF GoneFor
  <2>3. call.open # 0 /\ call.open \in DOMAIN Opens
    BY <1>3 DEF CallFits
  <2>4. AnswerFits(new)'
    <3>1. Opens'[call.open].revision = Opens[call.open].revision
          /\ Opens'[call.open].candidate = Opens[call.open].candidate
      BY <1>1, <1>5, <2>3, KeepsOldFields DEF Kinds
    <3>2. /\ Revisions'[n].parent = Opens[call.open].revision
          /\ Revisions'[n].candidate = Opens[call.open].candidate
          /\ Revisions'[n].payload = call.payload
      BY <1>1, <1>2, <1>5, ChildEntry DEF Opened, Opens
    <3>. QED BY <1>5, <1>8, <3>1, <3>2 DEF AnswerFits
  <2>. QED BY <1>8, <2>1, <2>2, <2>3, <2>4 DEF CallFits
<1>11. \A q \in Requests : request'[q] = IF q = r THEN new ELSE request[q]
  BY <1>1, <1>9
<1>12. ASSUME NEW q \in Requests PROVE CallFits(request[q])'
  <2>1. CASE q = r
    BY <1>10, <1>11, <2>1
  <2>2. CASE q # r
    <3>1. PICK x : x = request[q]
      OBVIOUS
    <3>2. CallFits(x) /\ request'[q] = x
      BY <1>11, <2>2, <3>1 DEF WorkInv, Calls
    <3>3. CallFits(x)'
      BY <1>1, <1>5, <3>2, KeepsCall DEF Kinds
    <3>. QED BY <3>2, <3>3
  <2>. QED BY <2>1, <2>2
<1>13. WellFormed'
  BY <1>1, <1>5, <1>8, <1>9 DEF WellFormed, Aged
<1>. QED BY <1>6, <1>12, <1>13 DEF WorkInv, Calls

LEMMA CommitStep ==
  ASSUME WorkInv, NEW r \in Requests, Commit(r)
  PROVE  WorkInv'
<1>1. CallFits(request[r]) /\ request[r].phase = "commit" /\ now' = now
  BY DEF WorkInv, Calls, Commit
<1>2. request[r].open # 0
  BY <1>1 DEF CallFits
<1>3. CASE /\ table' = Pruned
           /\ \/ GoTo(r, "failed")
              \/ Live("candidate", Opened(r).candidate) /\ Remembered(r) # None /\ Replay(r)
  <2>1. Moves(r)
    BY <1>1, <1>3, Failing, Replaying
  <2>. QED BY <1>1, <1>3, <2>1, PruningStep
<1>4. CASE /\ Live("candidate", Opened(r).candidate) /\ HeadUnmoved(r)
           /\ PublishedBy(r) /\ Answer(r, Len(Revisions) + 1)
  <2>1. Publishing(r)
    BY <1>1, <1>2, <1>4 DEF Publishing
  <2>. QED BY <1>1, <1>4, <2>1, PublishStep
<1>. QED BY <1>3, <1>4 DEF Commit, PublishedBy, NextSerial, Revisions

LEMMA NewPlan ==
  ASSUME Tables, NEW revision, Live("revision", revision)
  PROVE  NewEntries([plan |-> PlanOf(revision)])
<1>1. revision \in Serial
  <2>1. DOMAIN table["revision"] = 1 .. Len(table["revision"]) /\ Len(table["revision"]) \in Nat
    BY TableFacts DEF Kinds
  <2>. QED BY <2>1 DEF Live, Serial
<1>2. now + Lifetime["plan"] \in Nat
  BY LifetimesAreNatural, SMTT(30) DEF Tables, Kinds
<1>3. PlanOf(revision) \in PlanEntry
  BY <1>1, <1>2 DEF PlanOf, PlanEntry
<1>. QED BY <1>3, EntryKinds DEF NewEntries, Kinds

LEMMA PlanStep ==
  ASSUME WorkInv, NEW r \in Requests, PublishPlan(r)
  PROVE  WorkInv'
<1>1. CallFits(request[r]) /\ request[r].phase = "plan" /\ now' = now /\ request[r] \in Request
  BY DEF WorkInv, WellFormed, Calls, PublishPlan
<1>2. request[r].open = 0 /\ request[r].gone = {}
  BY <1>1 DEF CallFits
<1>3. Moves(r)
  <2>1. GoTo(r, "done") \/ GoTo(r, "failed")
    BY DEF PublishPlan
  <2>. QED BY <1>2, <2>1, Going DEF Phases
<1>4. CASE table' = Pruned
  BY <1>1, <1>3, <1>4, PruningStep
<1>5. CASE Live("revision", request[r].revision) /\ Issue([plan |-> PlanOf(request[r].revision)])
  <2>1. Tables /\ Lines /\ Memos
    BY DEF WorkInv, WellFormed
  <2>4. NewEntries([plan |-> PlanOf(request[r].revision)])
    BY <1>5, <2>1, NewPlan
  <2>5. Aged(Kinds) /\ Fresh
    BY <1>1, <1>5, <2>1, <2>4, Issues
  <2>6. Lines' /\ Memos' /\ Aged(Kinds \ {"candidate"})
    BY <2>1, <2>5, KeepsLines, KeepsMemos DEF Aged
  <2>. QED BY <1>3, <2>6, CallMoves
<1>. QED BY <1>4, <1>5 DEF PublishPlan

-----------------------------------------------------------------------------
(* The handles.                                                            *)

LEMMA Natural ==
  ASSUME Tables, NEW k \in Kinds
  PROVE  /\ now + Lifetime[k] \in Nat
         /\ \A i \in DOMAIN table[k] : i \in Serial
         /\ Len(table[k]) + 1 \in Serial
<1>1. DOMAIN table[k] = 1 .. Len(table[k]) /\ Len(table[k]) \in Nat
  BY TableFacts
<1>2. now + Lifetime[k] \in Nat
  BY LifetimesAreNatural DEF Tables
<1>. QED BY <1>1, <1>2 DEF Serial

(* A step that only makes new handles.                                     *)
Issuing == \E entry : NewEntries(entry) /\ Issue(entry) /\ now' = now

LEMMA IssueStep ==
  ASSUME WorkInv, Issuing, request' = request
  PROVE  WorkInv'
<1>1. Tables
  BY DEF WorkInv, WellFormed
<1>2. PICK entry : NewEntries(entry) /\ Issue(entry) /\ now' = now
  BY DEF Issuing
<1>. QED BY <1>1, <1>2, Issues, TablesMove

LEMMA NewBranch ==
  ASSUME Tables, NEW base \in Serial
  PROVE  /\ Branch(base) \in CandidateEntry /\ Branch(base).base = base /\ Branch(base).head = base
         /\ Branch(base).idempotency = NoIdempotency
<1>1. now + Lifetime["candidate"] \in Nat
  BY Natural DEF Kinds
<1>2. NoIdempotency \in [Keys -> Memo \cup {None}]
  BY DEF NoIdempotency
<1>. QED BY <1>1, <1>2 DEF Branch, CandidateEntry

LEMMA NewSource ==
  ASSUME Tables, NEW payload \in Payloads
  PROVE  Source(payload) \in RevisionEntry /\ Source(payload).candidate = 0
<1>1. now + Lifetime["revision"] \in Nat
  BY Natural DEF Kinds
<1>. QED BY <1>1 DEF Source, Revision, RevisionEntry

LEMMA Creates ==
  ASSUME WorkInv, NEW payload \in Payloads, CreateRevision(payload) \/ PaperCreate(payload)
  PROVE  Issuing /\ request' = request
<1>1. Tables
  BY DEF WorkInv, WellFormed
<1>2. Source(payload) \in RevisionEntry /\ Source(payload).candidate = 0
  BY <1>1, NewSource
<1>3. CASE CreateRevision(payload)
  <2>1. NewEntries([revision |-> Source(payload)])
    BY <1>2, EntryKinds DEF NewEntries, Kinds
  <2>. QED BY <1>3, <2>1 DEF CreateRevision, Issuing
<1>4. CASE PaperCreate(payload)
  <2>1. PICK n : n = NextSerial("revision")
    OBVIOUS
  <2>2. n \in Serial /\ n = Len(Revisions) + 1
    BY <1>1, <2>1, Natural DEF NextSerial, Revisions, Kinds
  <2>3. PICK b : b = Branch(n)
    OBVIOUS
  <2>4. b \in CandidateEntry /\ b.base = n /\ b.head = n /\ b.idempotency = NoIdempotency
    BY <1>1, <2>2, <2>3, NewBranch
  <2>5. PICK entry : entry = [revision |-> Source(payload), candidate |-> b]
    OBVIOUS
  <2>6. /\ DOMAIN entry = {"revision", "candidate"}
        /\ entry["revision"] = Source(payload) /\ entry["candidate"] = b
    BY <2>5
  <2>7. NewEntries(entry)
    BY <1>2, <2>2, <2>4, <2>6, EntryKinds DEF NewEntries, Kinds
  <2>8. Issue(entry) /\ UNCHANGED <<now, request>>
    BY <1>4, <2>1, <2>3, <2>5 DEF PaperCreate
  <2>. QED BY <2>7, <2>8 DEF Issuing
<1>. QED BY <1>3, <1>4

LEMMA Branches ==
  ASSUME WorkInv, NEW base \in DOMAIN table["revision"], NewCandidate(base)
  PROVE  Issuing /\ request' = request
<1>1. Tables
  BY DEF WorkInv, WellFormed
<1>2. base \in Serial /\ base \in DOMAIN Revisions
  BY <1>1, Natural DEF Kinds, Revisions
<1>3. PICK b : b = Branch(base)
  OBVIOUS
<1>4. b \in CandidateEntry /\ b.base = base /\ b.head = base /\ b.idempotency = NoIdempotency
  BY <1>1, <1>2, <1>3, NewBranch
<1>5. NewEntries([candidate |-> b])
  BY <1>2, <1>4, EntryKinds DEF NewEntries, Kinds
<1>. QED BY <1>3, <1>5 DEF NewCandidate, Issuing

LEMMA OpensNew ==
  ASSUME WorkInv, NEW candidate \in DOMAIN table["candidate"] \cup {0},
         NEW revision \in DOMAIN table["revision"], NEW edit \in BOOLEAN,
         PaperOpen(candidate, revision, edit)
  PROVE  Issuing /\ request' = request
<1>1. Tables
  BY DEF WorkInv, WellFormed
<1>2. candidate \in Nat /\ revision \in Serial /\ now + Lifetime["open"] \in Nat
  <2>1. revision \in Serial
    BY <1>1, Natural DEF Kinds
  <2>2. now + Lifetime["open"] \in Nat
    BY <1>1, Natural DEF Kinds
  <2>3. \A i \in DOMAIN table["candidate"] : i \in Serial
    BY <1>1, Natural DEF Kinds
  <2>4. candidate \in Nat
    BY <2>3 DEF Serial
  <2>. QED BY <2>1, <2>2, <2>4
<1>3. OpenAt(candidate, revision, edit) \in OpenEntry
  BY <1>2 DEF OpenAt, OpenEntry
<1>4. NewEntries([open |-> OpenAt(candidate, revision, edit)])
  BY <1>3, EntryKinds DEF NewEntries, Kinds
<1>. QED BY <1>4 DEF PaperOpen, Issuing

LEMMA Grants ==
  ASSUME WorkInv, NEW open \in DOMAIN table["open"], GrantMutationAuthority(open)
  PROVE  Issuing /\ request' = request
<1>1. Tables
  BY DEF WorkInv, WellFormed
<1>2. open \in Serial /\ now + Lifetime["authority"] \in Nat
  BY <1>1, Natural DEF Kinds
<1>3. AuthorityFor(open) \in AuthorityEntry
  BY <1>2 DEF AuthorityFor, AuthorityEntry
<1>4. NewEntries([authority |-> AuthorityFor(open)])
  BY <1>3, EntryKinds DEF NewEntries, Kinds
<1>. QED BY <1>4 DEF GrantMutationAuthority, Issuing

LEMMA RevokeStep ==
  ASSUME WorkInv, NEW kind \in {"open", "authority", "plan"}, NEW serial \in DOMAIN table[kind],
         Revoke(kind, serial), UNCHANGED <<now, request>>
  PROVE  WorkInv'
<1>1. Tables
  BY DEF WorkInv, WellFormed
<1>. QED BY <1>1, Revokes, TablesMove

LEMMA PruneStep ==
  ASSUME WorkInv, PruneExpiredHandles \/ PruneExpiredPlans
  PROVE  WorkInv'
<1>1. Tables
  BY DEF WorkInv, WellFormed
<1>2. Aged(Kinds) /\ Fresh
  BY <1>1, OnlyPruned DEF PruneExpiredHandles, PruneExpiredPlans, Pruned
<1>3. request' = request
  BY DEF PruneExpiredHandles, PruneExpiredPlans
<1>. QED BY <1>2, <1>3, TablesMove

-----------------------------------------------------------------------------
(* The calls of one request.                                               *)

LEMMA RequestStep ==
  ASSUME WorkInv, NEW r \in Requests,
         \/ \E open \in DOMAIN table["open"], authority \in DOMAIN table["authority"],
               key \in Keys, payload \in Payloads :
              PaperMutation(r, open, authority, key, payload)
         \/ MutationRevision(r) \/ AuthorizeMutation(r) \/ ReadHead(r)
         \/ EditFails(r) \/ PlanFails(r) \/ Return(r)
         \/ \E revision \in DOMAIN table["revision"] : CreatePlan(r, revision)
  PROVE  WorkInv'
<1>1. UNCHANGED <<table, now>>
  BY DEF PaperMutation, MutationRevision, AuthorizeMutation, ReadHead, EditFails, PlanFails,
         Return, CreatePlan
<1>2. Idle \in Request /\ Idle.open = 0 /\ Idle.gone = {} /\ Idle.phase = "idle"
  BY DEF Idle, Request, Phases
<1>3. CASE Return(r)
  <2>1. Moves(r)
    BY <1>2, <1>3, Resting DEF Return
  <2>. QED BY <1>1, <2>1, OnlyTheCall
<1>4. ASSUME NEW revision \in DOMAIN table["revision"], CreatePlan(r, revision) PROVE WorkInv'
  <2>1. revision \in Nat
    <3>1. Tables
      BY DEF WorkInv, WellFormed
    <3>. QED BY <3>1, Natural DEF Kinds, Serial
  <2>2. PICK call : call = [Idle EXCEPT !.phase = "plan", !.revision = revision]
    OBVIOUS
  <2>3. call \in Request /\ call.open = 0 /\ call.gone = {} /\ call.phase = "plan"
    BY <2>1, <2>2 DEF Idle, Request, Phases
  <2>4. request' = [request EXCEPT ![r] = call]
    BY <1>4, <2>2 DEF CreatePlan
  <2>5. Moves(r)
    BY <2>3, <2>4, Resting
  <2>. QED BY <1>1, <2>5, OnlyTheCall
<1>5. CASE MutationRevision(r) \/ AuthorizeMutation(r) \/ ReadHead(r)
  <2>1. Moves(r)
    BY <1>5, ResolveStep, AuthorizeStep, ReadStep
  <2>. QED BY <1>1, <2>1, OnlyTheCall
<1>6. CASE EditFails(r) \/ PlanFails(r)
  <2>1. GoTo(r, "failed")
    BY <1>6 DEF EditFails, PlanFails
  <2>. QED BY <1>1, <2>1, Failing, OnlyTheCall
<1>7. ASSUME NEW open \in DOMAIN table["open"], NEW authority \in DOMAIN table["authority"],
             NEW key \in Keys, NEW payload \in Payloads,
             PaperMutation(r, open, authority, key, payload)
      PROVE  WorkInv'
  <2>1. Moves(r)
    BY <1>7, Calling
  <2>. QED BY <1>1, <2>1, OnlyTheCall
<1>. QED BY <1>3, <1>4, <1>5, <1>6, <1>7

LEMMA Steps == WorkInv /\ [Next]_vars => WorkInv'
<1> SUFFICES ASSUME WorkInv, [Next]_vars PROVE WorkInv'
  OBVIOUS
<1>1. Tables /\ now \in Nat
  BY DEF WorkInv, WellFormed, Tables
<1>2. CASE Tick
  <2>1. table' = table /\ request' = request /\ now' \in Nat /\ now <= now'
    BY <1>1, <1>2 DEF Tick
  <2>. QED BY <1>1, <2>1, Unmoved, TablesMove
<1>3. CASE UNCHANGED vars
  <2>1. table' = table /\ request' = request /\ now' \in Nat /\ now <= now'
    BY <1>1, <1>3 DEF vars
  <2>. QED BY <1>1, <2>1, Unmoved, TablesMove
<1>4. ASSUME NEW payload \in Payloads, CreateRevision(payload) \/ PaperCreate(payload) PROVE WorkInv'
  BY <1>4, Creates, IssueStep
<1>5. ASSUME NEW base \in DOMAIN table["revision"], NewCandidate(base) PROVE WorkInv'
  BY <1>5, Branches, IssueStep
<1>6. ASSUME NEW candidate \in DOMAIN table["candidate"] \cup {0},
             NEW revision \in DOMAIN table["revision"], NEW edit \in BOOLEAN,
             PaperOpen(candidate, revision, edit)
      PROVE  WorkInv'
  BY <1>6, OpensNew, IssueStep
<1>7. ASSUME NEW open \in DOMAIN table["open"], GrantMutationAuthority(open) \/ ClosePaperOpen(open)
      PROVE  WorkInv'
  BY <1>7, Grants, IssueStep, RevokeStep DEF ClosePaperOpen
<1>8. ASSUME NEW authority \in DOMAIN table["authority"], RevokeMutationAuthority(authority)
      PROVE  WorkInv'
  BY <1>8, RevokeStep DEF RevokeMutationAuthority
<1>9. ASSUME NEW plan \in DOMAIN table["plan"], ReleasePlan(plan) PROVE WorkInv'
  BY <1>9, RevokeStep DEF ReleasePlan
<1>10. CASE PruneExpiredHandles \/ PruneExpiredPlans
  BY <1>10, PruneStep
<1>11. ASSUME NEW r \in Requests, Commit(r) \/ PublishPlan(r) PROVE WorkInv'
  BY <1>11, CommitStep, PlanStep
<1>12. ASSUME NEW r \in Requests,
              \/ \E open \in DOMAIN table["open"], authority \in DOMAIN table["authority"],
                    key \in Keys, payload \in Payloads :
                   PaperMutation(r, open, authority, key, payload)
              \/ MutationRevision(r) \/ AuthorizeMutation(r) \/ ReadHead(r)
              \/ EditFails(r) \/ PlanFails(r) \/ Return(r)
              \/ \E revision \in DOMAIN table["revision"] : CreatePlan(r, revision)
       PROVE  WorkInv'
  BY <1>12, RequestStep
<1>. QED BY <1>2, <1>3, <1>4, <1>5, <1>6, <1>7, <1>8, <1>9, <1>10, <1>11, <1>12 DEF Next

LEMMA Invariance == Spec => []WorkInv
BY Starts, Steps, PTL DEF Spec

-----------------------------------------------------------------------------
(* The revisions committed to a candidate are one line from its base to    *)
(* its head, however the commits of several calls, the expiry of handles   *)
(* and the other operations of paperd interleave: the comparison of the    *)
(* head under the lock is enough.                                          *)
THEOREM HeadsStayLinear == Spec => []HeadsAreLinear
<1>1. WorkInv => HeadsAreLinear
  BY DEF WorkInv, Lines
<1>. QED BY Invariance, <1>1, PTL

(* A mutation that succeeds names a revision that resulted from its own    *)
(* edit of the head it was made for, also when PaperMutation answers it    *)
(* from the remembered idempotency key.                                    *)
THEOREM AnswersFit == Spec => []AnswersDescribeTheEdit
<1>1. WorkInv => AnswersDescribeTheEdit
  BY DEF WorkInv, Calls, CallFits, AnswerFits, AnswersDescribeTheEdit, Opened, Opens, Revisions
<1>. QED BY Invariance, <1>1, PTL

(* No mutation succeeds with an open or an authority that was unavailable  *)
(* when it was called: a handle that expired or was revoked never becomes  *)
(* available again, and each is looked up after the call began.            *)
THEOREM NothingGoneSucceeds == Spec => []NothingGoneIsUsed
<1>1. WorkInv => NothingGoneIsUsed
  <2> SUFFICES ASSUME WorkInv, NEW r \in Requests, request[r].phase = "done"
               PROVE  request[r].gone = {}
    BY DEF NothingGoneIsUsed
  <2>1. CallFits(request[r])
    BY DEF WorkInv, Calls
  <2>2. GoneFor(request[r])
    BY <2>1 DEF CallFits
  <2>. QED BY <2>1, <2>2 DEF CallFits, GoneFor
<1>. QED BY Invariance, <1>1, PTL

-----------------------------------------------------------------------------
(* The tombstones.  They are about handles that are gone, at most one      *)
(* about each, and not too many.                                           *)

Why == {"revoked", "expired"}

Reasons(D) == UNION {[d -> Why] : d \in SUBSET D}

Tombstones(D) ==
  {t \in [order : Seq(Handle), reasons : Reasons(D)] :
     /\ Len(t.order) <= MaxRevocations
     /\ DOMAIN t.reasons = {t.order[i] : i \in 1 .. Len(t.order)}
     /\ \A i, j \in 1 .. Len(t.order) : t.order[i] = t.order[j] => i = j}

LEMMA MoreTombstones ==
  ASSUME NEW D, NEW E, D \subseteq E, NEW t \in Tombstones(D)
  PROVE  t \in Tombstones(E)
BY DEF Tombstones, Reasons

LEMMA RecordKeeps ==
  ASSUME NEW D \in SUBSET Handle, NEW t \in Tombstones(D), NEW h \in D, NEW reason \in Why
  PROVE  Recorded(t, h, reason) \in Tombstones(D)
<1>1. /\ t.order \in Seq(Handle) /\ t.reasons \in Reasons(D)
      /\ Len(t.order) <= MaxRevocations
      /\ DOMAIN t.reasons = {t.order[i] : i \in 1 .. Len(t.order)}
      /\ \A i, j \in 1 .. Len(t.order) : t.order[i] = t.order[j] => i = j
  BY DEF Tombstones
<1>2. DOMAIN t.reasons \in SUBSET D /\ \A x \in DOMAIN t.reasons : t.reasons[x] \in Why
  BY <1>1 DEF Reasons
<1>3. MaxRevocations \in Nat \ {0} /\ Len(t.order) \in Nat
  BY <1>1, WorkspaceConstants
<1>4. CASE h \in DOMAIN t.reasons
  BY <1>4 DEF Recorded
<1>5. CASE h \notin DOMAIN t.reasons
  <2> DEFINE n == Len(t.order)
             full == n >= MaxRevocations
             dropped == IF full THEN {t.order[1]} ELSE {}
             kept == IF full THEN Tail(t.order) ELSE t.order
             d == IF full THEN 1 ELSE 0
             order == Append(kept, h)
             reasons == [x \in (DOMAIN t.reasons \ dropped) \cup {h} |->
                           IF x = h THEN reason ELSE t.reasons[x]]
  <2>1. Recorded(t, h, reason) = [order |-> order, reasons |-> reasons]
    BY <1>5 DEF Recorded
  <2>2. reasons \in Reasons(D)
    <3>1. (DOMAIN t.reasons \ dropped) \cup {h} \in SUBSET D
      BY <1>2
    <3>2. \A x \in (DOMAIN t.reasons \ dropped) \cup {h} :
            (IF x = h THEN reason ELSE t.reasons[x]) \in Why
      BY <1>2
    <3> DEFINE about == (DOMAIN t.reasons \ dropped) \cup {h}
    <3> HIDE DEF dropped
    <3>3. reasons \in [about -> Why]
      BY <3>2
    <3>4. about \in SUBSET D
      BY <3>1
    <3> HIDE DEF about, reasons
    <3>. QED BY <3>3, <3>4 DEF Reasons
  <2>3. /\ kept \in Seq(Handle) /\ Len(kept) = n - d
        /\ \A i \in 1 .. n - d : kept[i] = t.order[i + d]
    <3>1. CASE full
      BY <1>1, <1>3, <3>1
    <3>2. CASE ~full
      BY <1>1, <1>3, <3>2
    <3>. QED BY <3>1, <3>2
  <2>4. d \in 0 .. n /\ n - d < MaxRevocations /\ h \in Handle
    <3>1. n \in Nat /\ n <= MaxRevocations
      BY <1>1, <1>3
    <3>4. h \in Handle
      OBVIOUS
    <3> HIDE DEF n
    <3>2. CASE full
      BY <1>3, <3>1, <3>2
    <3>3. CASE ~full
      BY <1>3, <3>1, <3>3
    <3>. QED BY <3>2, <3>3, <3>4
  <2>5. dropped = {t.order[i] : i \in 1 .. d}
    <3>1. CASE full
      <4>1. 1 .. d = {1}
        BY <3>1
      <4>. QED BY <3>1, <4>1
    <3>2. CASE ~full
      <4>1. 1 .. d = {}
        BY <3>2
      <4>. QED BY <3>2, <4>1
    <3>. QED BY <3>1, <3>2
  <2>6. n \in Nat
    BY <1>3
  <2> HIDE DEF kept, n, d, dropped
  <2>7. /\ order \in Seq(Handle) /\ Len(order) = n - d + 1
        /\ \A i \in 1 .. n - d : order[i] = t.order[i + d]
        /\ order[n - d + 1] = h
    BY <2>3, <2>4, <2>6
  <2>8. DOMAIN reasons = (DOMAIN t.reasons \ dropped) \cup {h}
    OBVIOUS
  <2> HIDE DEF order, reasons
  <2>9. Len(order) <= MaxRevocations
    BY <1>3, <2>4, <2>6, <2>7
  <2>10. \A i \in 1 .. n : t.order[i] # h
    BY <1>1, <1>5 DEF n
  <2>11. \A i, j \in 1 .. n : t.order[i] = t.order[j] => i = j
    BY <1>1 DEF n
  <2>12. DOMAIN t.reasons = {t.order[i] : i \in 1 .. n}
    BY <1>1 DEF n
  <2>13. \A i, j \in 1 .. Len(order) : order[i] = order[j] => i = j
    <3> SUFFICES ASSUME NEW i \in 1 .. n - d + 1, NEW j \in 1 .. n - d + 1, order[i] = order[j]
                 PROVE  i = j
      BY <2>7
    <3>1. CASE i <= n - d /\ j <= n - d
      <4>1. t.order[i + d] = t.order[j + d] /\ i + d \in 1 .. n /\ j + d \in 1 .. n
        BY <2>4, <2>6, <2>7, <3>1
      <4>2. i + d = j + d
        BY <2>11, <4>1
      <4>. QED BY <2>4, <2>6, <4>2
    <3>2. CASE i <= n - d /\ j = n - d + 1
      <4>1. t.order[i + d] = h /\ i + d \in 1 .. n
        BY <2>4, <2>6, <2>7, <3>2
      <4>. QED BY <2>10, <4>1
    <3>3. CASE i = n - d + 1 /\ j <= n - d
      <4>1. t.order[j + d] = h /\ j + d \in 1 .. n
        BY <2>4, <2>6, <2>7, <3>3
      <4>. QED BY <2>10, <4>1
    <3>4. CASE i = n - d + 1 /\ j = n - d + 1
      BY <3>4
    <3>. QED BY <2>4, <2>6, <3>1, <3>2, <3>3, <3>4
  <2>14. DOMAIN reasons = {order[i] : i \in 1 .. Len(order)}
    <3>1. ASSUME NEW x \in DOMAIN reasons PROVE \E i \in 1 .. Len(order) : x = order[i]
      <4>1. CASE x = h
        BY <2>4, <2>6, <2>7, <4>1
      <4>2. CASE x # h
        <5>1. PICK i \in 1 .. n : x = t.order[i]
          BY <2>8, <2>12, <4>2
        <5>2. i \notin 1 .. d
          BY <2>5, <2>8, <4>2, <5>1
        <5>3. i - d \in 1 .. n - d /\ (i - d) + d = i
          BY <2>4, <2>6, <5>2
        <5>. QED BY <2>4, <2>6, <2>7, <5>1, <5>3
      <4>. QED BY <4>1, <4>2
    <3>2. ASSUME NEW i \in 1 .. Len(order) PROVE order[i] \in DOMAIN reasons
      <4>1. CASE i = n - d + 1
        BY <2>7, <2>8, <4>1
      <4>2. CASE i <= n - d
        <5>1. order[i] = t.order[i + d] /\ i + d \in 1 .. n /\ i + d \notin 1 .. d
          BY <2>4, <2>6, <2>7, <4>2
        <5>2. order[i] \notin dropped
          <6>1. \A j \in 1 .. d : j \in 1 .. n
            BY <2>4, <2>6
          <6>. QED BY <2>5, <2>11, <5>1, <6>1
        <5>. QED BY <2>8, <2>12, <5>1, <5>2
      <4>. QED BY <2>4, <2>6, <2>7, <4>1, <4>2
    <3>. QED BY <3>1, <3>2
  <2>. QED BY <2>1, <2>2, <2>7, <2>9, <2>13, <2>14 DEF Tombstones
<1>. QED BY <1>4, <1>5

(* Removing expired handles one after another is a left fold.              *)
Expire(handle, tombs) == Recorded(tombs, handle, "expired")
Largest(s) == CHOOSE x \in s : \A y \in s : x >= y

Removal == INSTANCE FoldLemmas WITH op <- Expire, pick <- Largest

LEMMA ExpiredHandles ==
  ASSUME Tables, NEW kinds \in SUBSET Kinds
  PROVE  IsFiniteSet(Expired(kinds)) /\ Expired(kinds) \subseteq Handle
<1> DEFINE All == UNION {{k} \X DOMAIN table[k] : k \in kinds}
<1>1. ASSUME NEW k \in Kinds PROVE IsFiniteSet({k} \X DOMAIN table[k])
  <2>1. IsFiniteSet(DOMAIN table[k])
    BY TableFacts, FS_Interval
  <2>. QED BY <2>1, FS_Singleton, FS_Product
<1>2. IsFiniteSet({{k} \X DOMAIN table[k] : k \in kinds})
  <2>1. IsFiniteSet(Kinds)
    <3>1. IsFiniteSet({"revision"} \cup {"candidate"})
      BY FS_Singleton, FS_Union
    <3>2. IsFiniteSet({"open"} \cup {"authority"})
      BY FS_Singleton, FS_Union
    <3>3. IsFiniteSet(({"revision"} \cup {"candidate"}) \cup ({"open"} \cup {"authority"}))
      BY <3>1, <3>2, FS_Union
    <3>4. IsFiniteSet((({"revision"} \cup {"candidate"}) \cup ({"open"} \cup {"authority"})) \cup {"plan"})
      BY <3>3, FS_AddElement
    <3>5. Kinds = (({"revision"} \cup {"candidate"}) \cup ({"open"} \cup {"authority"})) \cup {"plan"}
      BY DEF Kinds
    <3>. QED BY <3>4, <3>5
  <2>2. IsFiniteSet(kinds)
    BY <2>1, FS_Subset
  <2>3. PICK f : f = [k \in kinds |-> {k} \X DOMAIN table[k]]
    OBVIOUS
  <2>4. f \in Surjection(kinds, {{k} \X DOMAIN table[k] : k \in kinds})
    BY <2>3 DEF Surjection
  <2>. QED BY <2>2, <2>4, FS_Surjection
<1>3. IsFiniteSet(All)
  BY <1>1, <1>2, FS_UNION
<1>4. All \subseteq Handle
  BY TableFacts DEF Handle, Serial
<1>. QED BY <1>3, <1>4, FS_Subset DEF Expired

LEMMA RemovalKeeps ==
  ASSUME Tables, NEW kinds \in SUBSET Kinds, NEW D \in SUBSET Handle,
         tombstones \in Tombstones(D), PruneTombstonesOf(kinds)
  PROVE  tombstones' \in Tombstones(D \cup Expired(kinds))
<1>1. IsFiniteSet(Expired(kinds)) /\ Expired(kinds) \subseteq Handle
  BY ExpiredHandles
<1>2. PICK order \in SetToSeqs(Expired(kinds)) :
        tombstones' = FoldLeft(LAMBDA tombs, h : Recorded(tombs, h, "expired"), tombstones, order)
  BY Zenon DEF PruneTombstonesOf
<1> DEFINE n == Cardinality(Expired(kinds))
           V == Tombstones(D \cup Expired(kinds))
           Runs(g) == g = [s \in SUBSET (1 .. n) |-> IF s = {} THEN tombstones
                             ELSE Recorded(g[s \ {CHOOSE x \in s : \A y \in s : x >= y}],
                                           order[CHOOSE x \in s : \A y \in s : x >= y], "expired")]
<1>3. n \in Nat /\ order \in [1 .. n -> Expired(kinds)] /\ DOMAIN order = 1 .. n
  BY <1>1, FS_CardinalityType DEF SetToSeqs
<1>4. tombstones' = (CHOOSE g : Runs(g))[1 .. n]
  BY <1>2, <1>3, Zenon DEF FoldLeft, MapThenFoldSet, Max
<1>5. Removal!FoldOf(order, tombstones, 1 .. n) = (CHOOSE g : Runs(g))[1 .. n]
  BY Zenon DEF Removal!FoldOf, Removal!Folds, Removal!FoldsOn, Expire, Largest
<1> HIDE DEF Runs
<1>6. Removal!IsFiniteSet(1 .. n) /\ Removal!Picks(1 .. n)
  <2>1. IsFiniteSet(1 .. n)
    BY <1>3, FS_Interval
  <2>2. Removal!IsFiniteSet(1 .. n)
    BY <2>1, Zenon DEF IsFiniteSet, Removal!IsFiniteSet
  <2>3. \A s : Largest(s) = CHOOSE x \in s : \A y \in s : x >= y
    BY DEF Largest
  <2> HIDE DEF n
  <2>. QED BY <1>3, <2>2, <2>3, Removal!LastPicks
<1>7. tombstones \in V
  BY <1>1, MoreTombstones
<1>8. \A i \in 1 .. n : \A v \in V : Expire(order[i], v) \in V
  <2> TAKE i \in 1 .. n
  <2> TAKE v \in V
  <2>1. order[i] \in D \cup Expired(kinds) /\ D \cup Expired(kinds) \in SUBSET Handle
    BY <1>1, <1>3
  <2>. QED BY <2>1, RecordKeeps DEF Expire, Why
<1> HIDE DEF V, n
<1>9. Removal!FoldOf(order, tombstones, 1 .. n) \in V
  BY <1>6, <1>7, <1>8, Removal!FoldStays
<1>. QED BY <1>4, <1>5, <1>9 DEF V

-----------------------------------------------------------------------------
(* The capacities.                                                         *)

Gone == {h \in Handle : h[2] \in DOMAIN table[h[1]] /\ ~table[h[1]][h[2]].retained}

Retained(k) == {i \in DOMAIN table[k] : table[k][i].retained}

(* The tombstones are about removed handles: with WorkInv, an inductive    *)
(* invariant.                                                              *)
Caps ==
  /\ now \in 0 .. MaxTime
  /\ tombstones \in Tombstones(Gone)
  /\ \A k \in Kinds : Cardinality(Retained(k)) <= Limit[k]

LEMMA GoneGrows ==
  ASSUME Tables, NEW kinds \in SUBSET Kinds, Fewer(kinds)
  PROVE  Gone \cup Expired(kinds) \subseteq Gone'
<1>1. ASSUME NEW h \in Gone PROVE h \in Gone'
  <2>1. h \in Handle /\ h[1] \in Kinds /\ h[2] \in DOMAIN table[h[1]] /\ ~table[h[1]][h[2]].retained
    BY DEF Gone, Handle
  <2>2. h[2] \in DOMAIN table'[h[1]] /\ ~table'[h[1]][h[2]].retained
    BY <2>1 DEF Fewer
  <2>. QED BY <2>1, <2>2 DEF Gone
<1>2. ASSUME NEW h \in Expired(kinds) PROVE h \in Gone'
  <2>1. h \in Handle
    BY ExpiredHandles
  <2>2. /\ h[1] \in kinds /\ h[2] \in DOMAIN table[h[1]]
        /\ table[h[1]][h[2]].retained /\ table[h[1]][h[2]].expires <= now
    BY DEF Expired
  <2>3. table[h[1]][h[2]].expires \in Nat /\ now \in Nat
    BY <2>2, TableFacts, EntryFields DEF Tables
  <2>4. ~Live(h[1], h[2])
    BY <2>2, <2>3 DEF Live
  <2>5. h[2] \in DOMAIN table'[h[1]] /\ ~table'[h[1]][h[2]].retained
    BY <2>2, <2>4 DEF Fewer
  <2>. QED BY <2>1, <2>5 DEF Gone
<1>. QED BY <1>1, <1>2

LEMMA TablesAreFinite ==
  ASSUME Tables, NEW k \in Kinds
  PROVE  /\ IsFiniteSet(Retained(k)) /\ Cardinality(Retained(k)) \in Nat
         /\ IsFiniteSet(LiveSerials(k)) /\ Cardinality(LiveSerials(k)) \in Nat
<1>1. IsFiniteSet(DOMAIN table[k])
  BY TableFacts, FS_Interval
<1>2. IsFiniteSet(Retained(k)) /\ IsFiniteSet(LiveSerials(k))
  BY <1>1, FS_Subset DEF Retained, LiveSerials
<1>. QED BY <1>2, FS_CardinalityType

(* A table keeps its capacity: no handle is new, or one is, and those that *)
(* remain were available and fewer than the limit.                         *)
Roomy(kinds, k) ==
  \/ DOMAIN table'[k] = DOMAIN table[k]
  \/ /\ k \in kinds /\ DOMAIN table'[k] = 1 .. Len(table[k]) + 1
     /\ Cardinality(LiveSerials(k)) < Limit[k]

LEMMA KeepsCapacity ==
  ASSUME Tables, NEW kinds \in SUBSET Kinds, Fewer(kinds), NEW k \in Kinds, Roomy(kinds, k),
         Cardinality(Retained(k)) <= Limit[k]
  PROVE  Cardinality(Retained(k)') <= Limit[k]
<1>0. Limit[k] \in Nat
  BY WorkspaceConstants
<1>1. CASE DOMAIN table'[k] = DOMAIN table[k]
  <2>1. Retained(k)' \subseteq Retained(k)
    BY <1>1 DEF Fewer, Retained
  <2>2. IsFiniteSet(Retained(k)) /\ Cardinality(Retained(k)) \in Nat
    BY TablesAreFinite
  <2>3. Cardinality(Retained(k)') <= Cardinality(Retained(k)) /\ Cardinality(Retained(k)') \in Nat
    BY <2>1, <2>2, FS_Subset, FS_CardinalityType
  <2>. QED BY <1>0, <2>2, <2>3
<1>2. CASE /\ k \in kinds /\ DOMAIN table'[k] = 1 .. Len(table[k]) + 1
           /\ Cardinality(LiveSerials(k)) < Limit[k]
  <2> DEFINE new == Len(table[k]) + 1
             live == LiveSerials(k)
  <2>1. IsFiniteSet(live) /\ Cardinality(live) \in Nat
    BY TablesAreFinite
  <2>2. DOMAIN table[k] = 1 .. Len(table[k]) /\ Len(table[k]) \in Nat
    BY TableFacts
  <2>3. Retained(k)' \subseteq live \cup {new}
    <3> SUFFICES ASSUME NEW i \in 1 .. new, table'[k][i].retained PROVE i \in live \cup {new}
      BY <1>2 DEF Retained
    <3>1. CASE i \in DOMAIN table[k]
      BY <1>2, <3>1 DEF Fewer, LiveSerials
    <3>. QED BY <2>2, <3>1
  <2>4. /\ IsFiniteSet(live \cup {new}) /\ Cardinality(live \cup {new}) \in Nat
        /\ Cardinality(live \cup {new}) <= Cardinality(live) + 1
    <3> HIDE DEF live, new
    <3>1. /\ IsFiniteSet(live \cup {new})
          /\ Cardinality(live \cup {new}) = IF new \in live THEN Cardinality(live) ELSE Cardinality(live) + 1
      BY <2>1, FS_AddElement
    <3>. QED BY <2>1, <3>1
  <2>5. /\ Cardinality(Retained(k)') <= Cardinality(live \cup {new})
        /\ Cardinality(Retained(k)') \in Nat
    BY <2>3, <2>4, FS_Subset, FS_CardinalityType
  <2>6. Cardinality(live) < Limit[k]
    BY <1>2
  <2> HIDE DEF live, new
  <2>. QED BY <1>0, <2>1, <2>4, <2>5, <2>6
<1>. QED BY <1>1, <1>2 DEF Roomy

LEMMA PrunesAndKeepsCaps ==
  ASSUME Tables, Caps, NEW kinds \in SUBSET Kinds, PruneTombstonesOf(kinds), Fewer(kinds),
         \A k \in Kinds : Roomy(kinds, k), now' = now
  PROVE  Caps'
<1>1. Gone \in SUBSET Handle /\ Expired(kinds) \in SUBSET Handle
  BY ExpiredHandles DEF Gone
<1>2. tombstones' \in Tombstones(Gone \cup Expired(kinds))
  BY <1>1, RemovalKeeps DEF Caps
<1>3. tombstones' \in Tombstones(Gone')
  BY <1>2, GoneGrows, MoreTombstones
<1>4. ASSUME NEW k \in Kinds PROVE Cardinality(Retained(k)') <= Limit[k]
  BY KeepsCapacity DEF Caps
<1>5. now' \in 0 .. MaxTime
  BY DEF Caps
<1>6. tombstones' \in Tombstones(Gone)'
  BY <1>3 DEF Tombstones
<1>. QED BY <1>4, <1>5, <1>6 DEF Caps

LEMMA PruningKeepsCaps ==
  ASSUME Tables, Caps, NEW kinds \in SUBSET Kinds, PruneTombstonesOf(kinds),
         table' = PrunedOf(kinds), now' = now
  PROVE  Caps'
<1>1. Fewer(kinds)
  BY PrunedFacts DEF Fewer
<1>2. \A k \in Kinds : Roomy(kinds, k)
  BY PrunedFacts DEF Roomy
<1>. QED BY <1>1, <1>2, PrunesAndKeepsCaps

LEMMA IssuingKeepsCaps ==
  ASSUME Tables, Caps, NEW entry, NewEntries(entry), Issue(entry), now' = now
  PROVE  Caps'
<1>1. \A k \in Kinds :
        /\ DOMAIN table'[k] = 1 .. Len(table'[k])
        /\ \A i \in 1 .. Len(table[k]) :
             /\ table'[k][i].retained => table[k][i].retained
             /\ table'[k][i].retained => Live(k, i)
        /\ k \in DOMAIN entry => Len(table'[k]) = Len(table[k]) + 1
        /\ k \notin DOMAIN entry => Len(table'[k]) = Len(table[k])
  BY IssuedTables
<1>2. \A k \in Kinds : DOMAIN table[k] = 1 .. Len(table[k]) /\ Len(table[k]) \in Nat
  BY TableFacts
<1>3. Fewer(Kinds)
  <2> SUFFICES ASSUME NEW k \in Kinds
               PROVE  /\ DOMAIN table[k] \subseteq DOMAIN table'[k]
                      /\ \A i \in DOMAIN table[k] :
                           table'[k][i].retained => table[k][i].retained /\ Live(k, i)
    BY DEF Fewer
  <2>1. DOMAIN table[k] \subseteq DOMAIN table'[k]
    <3>1. CASE k \in DOMAIN entry
      BY <1>1, <1>2, <3>1
    <3>2. CASE k \notin DOMAIN entry
      BY <1>1, <1>2, <3>2
    <3>. QED BY <3>1, <3>2
  <2>. QED BY <1>1, <1>2, <2>1
<1>4. ASSUME NEW k \in Kinds PROVE Roomy(Kinds, k)
  <2>1. CASE k \in DOMAIN entry
    <3>1. Cardinality(LiveSerials(k)) < Limit[k]
      BY <2>1 DEF Issue
    <3>. QED BY <1>1, <2>1, <3>1 DEF Roomy
  <2>2. CASE k \notin DOMAIN entry
    BY <1>1, <1>2, <2>2 DEF Roomy
  <2>. QED BY <2>1, <2>2
<1>5. PruneTombstonesOf(Kinds)
  BY DEF Issue, PruneTombstones
<1>. QED BY <1>3, <1>4, <1>5, PrunesAndKeepsCaps

LEMMA RevokingKeepsCaps ==
  ASSUME Tables, Caps, NEW kind \in {"open", "authority", "plan"}, NEW serial \in DOMAIN table[kind],
         Revoke(kind, serial), now' = now
  PROVE  Caps'
<1> DEFINE revoked == [table[kind][serial] EXCEPT !.retained = FALSE]
<1>0. kind \in Kinds
  BY DEF Kinds
<1>1. revoked.retained = FALSE /\ table' = [table EXCEPT ![kind] = [@ EXCEPT ![serial] = revoked]]
  <2>1. table[kind][serial] \in Entry(kind)
    BY <1>0, TableFacts
  <2>2. revoked.retained = FALSE
    BY <1>0, <2>1, OlderEntry
  <2>. QED BY <2>2 DEF Revoke
<1> HIDE DEF revoked
<1>2. ASSUME NEW k \in Kinds
      PROVE  /\ DOMAIN table'[k] = DOMAIN table[k]
             /\ \A i \in DOMAIN table[k] :
                  table'[k][i] = IF k = kind /\ i = serial THEN revoked ELSE table[k][i]
  <2>1. table'[k] = IF k = kind THEN [table[k] EXCEPT ![serial] = revoked] ELSE table[k]
    BY <1>0, <1>1 DEF Tables
  <2>. QED BY <2>1
<1>3. Fewer({})
  BY <1>1, <1>2 DEF Fewer
<1>4. Gone \subseteq Gone'
  BY <1>3, GoneGrows
<1>5. <<kind, serial>> \in Gone'
  <2>1. <<kind, serial>> \in Handle
    BY <1>0, TableFacts DEF Handle, Serial
  <2>2. serial \in DOMAIN table'[kind] /\ ~table'[kind][serial].retained
    BY <1>0, <1>1, <1>2
  <2>. QED BY <2>1, <2>2 DEF Gone
<1>6. Gone' \in SUBSET Handle
  BY DEF Gone
<1>7. PICK D : D = Gone'
  OBVIOUS
<1>8. tombstones \in Tombstones(D)
  BY <1>4, <1>7, MoreTombstones DEF Caps
<1>9. tombstones' \in Tombstones(D)
  BY <1>5, <1>6, <1>7, <1>8, RecordKeeps DEF Revoke, Why
<1>10. tombstones' \in Tombstones(Gone)'
  BY <1>7, <1>9 DEF Tombstones
<1>11. ASSUME NEW k \in Kinds PROVE Cardinality(Retained(k)') <= Limit[k]
  <2>1. Roomy({}, k)
    BY <1>2 DEF Roomy
  <2>. QED BY <1>3, <2>1, KeepsCapacity DEF Caps
<1>. QED BY <1>10, <1>11 DEF Caps

LEMMA PublishingKeepsCaps ==
  ASSUME Tables, Caps, NEW r \in Requests, Publishing(r), PruneTombstones,
         Cardinality(LiveSerials("revision")) < Limit["revision"]
  PROVE  Caps'
<1>1. /\ Fewer(Kinds) /\ DOMAIN Revisions' = 1 .. Len(Revisions) + 1
      /\ \A k \in Kinds \ {"revision"} : DOMAIN table'[k] = DOMAIN table[k]
  BY PublishedTables
<1>2. \A k \in Kinds : Roomy(Kinds, k)
  BY <1>1 DEF Roomy, Revisions
<1>3. now' = now /\ PruneTombstonesOf(Kinds)
  BY DEF Publishing, PruneTombstones
<1>. QED BY <1>1, <1>2, <1>3, PrunesAndKeepsCaps

LEMMA CommittingKeepsCaps ==
  ASSUME WorkInv, Caps, NEW r \in Requests, Commit(r)
  PROVE  Caps'
<1>1. /\ CallFits(request[r]) /\ request[r].open # 0 /\ now' = now /\ Tables
      /\ PruneTombstonesOf(Kinds)
  BY DEF WorkInv, WellFormed, Calls, CallFits, Commit, PruneTombstones
<1>2. CASE table' = Pruned
  BY <1>1, <1>2, PruningKeepsCaps DEF Pruned
<1>3. CASE /\ Live("candidate", Opened(r).candidate) /\ HeadUnmoved(r) /\ PublishedBy(r)
           /\ Cardinality(LiveSerials("revision")) < Limit["revision"]
  <2>1. Publishing(r)
    BY <1>1, <1>3 DEF Publishing
  <2>. QED BY <1>1, <1>3, <2>1, PublishingKeepsCaps DEF PruneTombstones
<1>. QED BY <1>2, <1>3 DEF Commit, PublishedBy, NextSerial, Revisions

LEMMA PlanningKeepsCaps ==
  ASSUME WorkInv, Caps, NEW r \in Requests, PublishPlan(r)
  PROVE  Caps'
<1>1. Tables /\ now' = now
  BY DEF WorkInv, WellFormed, PublishPlan
<1>2. CASE PruneTombstones /\ table' = Pruned
  BY <1>1, <1>2, PruningKeepsCaps DEF Pruned, PruneTombstones
<1>3. CASE Live("revision", request[r].revision) /\ Issue([plan |-> PlanOf(request[r].revision)])
  <2>1. NewEntries([plan |-> PlanOf(request[r].revision)])
    BY <1>1, <1>3, NewPlan
  <2>. QED BY <1>1, <1>3, <2>1, IssuingKeepsCaps
<1>. QED BY <1>2, <1>3 DEF PublishPlan

LEMMA CapsStart == Init => Caps
<1> SUFFICES ASSUME Init PROVE Caps
  OBVIOUS
<1>1. \A k \in Kinds : table[k] = <<>>
  BY DEF Init
<1>2. now \in 0 .. MaxTime
  BY WorkspaceConstants DEF Init
<1>3. tombstones \in Tombstones(Gone)
  <2>1. tombstones.order = <<>> /\ tombstones.reasons = <<>>
    BY DEF Init
  <2>2. tombstones.reasons \in Reasons(Gone)
    <3>1. tombstones.reasons \in [{} -> Why]
      BY <2>1
    <3>2. {} \in SUBSET Gone
      OBVIOUS
    <3>. QED BY <3>1, <3>2 DEF Reasons
  <2>. QED BY <2>1, <2>2, WorkspaceConstants DEF Tombstones, Init
<1>4. \A k \in Kinds : Cardinality(Retained(k)) <= Limit[k]
  <2> TAKE k \in Kinds
  <2>1. Retained(k) = {}
    BY <1>1 DEF Retained
  <2>. QED BY <2>1, FS_EmptySet, WorkspaceConstants
<1>. QED BY <1>2, <1>3, <1>4 DEF Caps

LEMMA CapsKept == WorkInv /\ Caps /\ [Next]_vars => Caps'
<1> SUFFICES ASSUME WorkInv, Caps, [Next]_vars PROVE Caps'
  OBVIOUS
<1>0. Tables
  BY DEF WorkInv, WellFormed
<1>1. CASE UNCHANGED <<table, tombstones>> /\ now' \in 0 .. MaxTime
  BY <1>1 DEF Caps, Gone, Retained, Tombstones
<1>2. CASE Tick
  BY <1>0, <1>1, <1>2, WorkspaceConstants DEF Tick, Caps
<1>3. CASE UNCHANGED vars
  BY <1>1, <1>3 DEF vars, Caps
<1>4. CASE Issuing
  BY <1>0, <1>4, IssuingKeepsCaps DEF Issuing
<1>5. ASSUME NEW payload \in Payloads, CreateRevision(payload) \/ PaperCreate(payload) PROVE Caps'
  BY <1>4, <1>5, Creates
<1>6. ASSUME NEW base \in DOMAIN table["revision"], NewCandidate(base) PROVE Caps'
  BY <1>4, <1>6, Branches
<1>7. ASSUME NEW candidate \in DOMAIN table["candidate"] \cup {0},
             NEW revision \in DOMAIN table["revision"], NEW edit \in BOOLEAN,
             PaperOpen(candidate, revision, edit)
      PROVE  Caps'
  BY <1>4, <1>7, OpensNew
<1>8. ASSUME NEW open \in DOMAIN table["open"], GrantMutationAuthority(open) \/ ClosePaperOpen(open)
      PROVE  Caps'
  BY <1>0, <1>4, <1>8, Grants, RevokingKeepsCaps DEF ClosePaperOpen
<1>9. ASSUME NEW authority \in DOMAIN table["authority"], RevokeMutationAuthority(authority)
      PROVE  Caps'
  BY <1>0, <1>9, RevokingKeepsCaps DEF RevokeMutationAuthority
<1>10. ASSUME NEW plan \in DOMAIN table["plan"], ReleasePlan(plan) PROVE Caps'
  BY <1>0, <1>10, RevokingKeepsCaps DEF ReleasePlan
<1>11. CASE PruneExpiredHandles
  BY <1>0, <1>11, PruningKeepsCaps DEF PruneExpiredHandles, PruneTombstones, Pruned
<1>12. CASE PruneExpiredPlans
  <2>1. {"plan"} \in SUBSET Kinds
    BY DEF Kinds
  <2>. QED BY <1>0, <1>12, <2>1, PruningKeepsCaps DEF PruneExpiredPlans
<1>13. ASSUME NEW r \in Requests, Commit(r) \/ PublishPlan(r) PROVE Caps'
  BY <1>13, CommittingKeepsCaps, PlanningKeepsCaps
<1>14. ASSUME NEW r \in Requests,
              \/ \E open \in DOMAIN table["open"], authority \in DOMAIN table["authority"],
                    key \in Keys, payload \in Payloads :
                   PaperMutation(r, open, authority, key, payload)
              \/ MutationRevision(r) \/ AuthorizeMutation(r) \/ ReadHead(r)
              \/ EditFails(r) \/ PlanFails(r) \/ Return(r)
              \/ \E revision \in DOMAIN table["revision"] : CreatePlan(r, revision)
       PROVE  Caps'
  <2>1. UNCHANGED <<table, tombstones, now>>
    BY <1>14 DEF PaperMutation, MutationRevision, AuthorizeMutation, ReadHead, EditFails,
                 PlanFails, Return, CreatePlan
  <2>. QED BY <1>1, <2>1 DEF Caps
<1>. QED BY <1>2, <1>3, <1>5, <1>6, <1>7, <1>8, <1>9, <1>10, <1>11, <1>12, <1>13, <1>14 DEF Next

(* There are as many tombstones as handles they are about.                 *)
LEMMA OneTombstoneEach ==
  ASSUME NEW D \in SUBSET Handle, NEW t \in Tombstones(D)
  PROVE  Cardinality(DOMAIN t.reasons) = Len(t.order)
<1>1. /\ t.order \in Seq(Handle)
      /\ DOMAIN t.reasons = {t.order[i] : i \in 1 .. Len(t.order)}
      /\ \A i, j \in 1 .. Len(t.order) : t.order[i] = t.order[j] => i = j
  BY DEF Tombstones
<1>2. PICK n : n = Len(t.order)
  OBVIOUS
<1>3. n \in Nat
  BY <1>1, <1>2
<1>4. PICK f : f = [i \in 1 .. n |-> t.order[i]]
  OBVIOUS
<1>5. f \in Bijection(1 .. n, DOMAIN t.reasons)
  <2>1. f \in [1 .. n -> DOMAIN t.reasons]
    BY <1>1, <1>2, <1>4
  <2>2. \A i, j \in 1 .. n : f[i] = f[j] => i = j
    BY <1>1, <1>2, <1>4
  <2>3. \A x \in DOMAIN t.reasons : \E i \in 1 .. n : f[i] = x
    BY <1>1, <1>2, <1>4
  <2>. QED BY <2>1, <2>2, <2>3 DEF Bijection, Injection, Surjection, IsInjective
<1>6. IsFiniteSet(1 .. n) /\ Cardinality(1 .. n) = n
  BY <1>3, FS_Interval
<1>7. Cardinality(DOMAIN t.reasons) = n
  BY <1>5, <1>6, FS_Bijection DEF ExistsBijection
<1>. QED BY <1>2, <1>7

LEMMA CapsSuffice == WorkInv /\ Caps => CapacitiesHold
<1> SUFFICES ASSUME WorkInv, Caps PROVE CapacitiesHold
  OBVIOUS
<1>1. Tables /\ request \in [Requests -> Request]
  BY DEF WorkInv, WellFormed
<1>2. Gone \in SUBSET Handle /\ tombstones \in Tombstones(Gone)
  BY DEF Gone, Caps
<1>3. /\ DOMAIN tombstones.reasons \subseteq Gone
      /\ \A h \in DOMAIN tombstones.reasons : tombstones.reasons[h] \in Why
  BY <1>2 DEF Tombstones, Reasons
<1>4. /\ tombstones.order \in Seq(Handle) /\ Len(tombstones.order) <= MaxRevocations
      /\ DOMAIN tombstones.reasons = {tombstones.order[i] : i \in 1 .. Len(tombstones.order)}
  BY <1>2 DEF Tombstones
<1>5. TypeOK
  BY <1>1, <1>2, <1>3, <1>4 DEF TypeOK, Tables, Caps, Why
<1>6. TombstonesAgree
  <2>1. Cardinality(DOMAIN tombstones.reasons) = Len(tombstones.order)
    BY <1>2, OneTombstoneEach
  <2>2. \A h \in DOMAIN tombstones.reasons : ~table[h[1]][h[2]].retained
    BY <1>3 DEF Gone
  <2>3. DOMAIN tombstones.order = 1 .. Len(tombstones.order)
    BY <1>4
  <2>. QED BY <1>4, <2>1, <2>2, <2>3 DEF TombstonesAgree
<1>. QED BY <1>5, <1>6 DEF CapacitiesHold, Caps, Retained

(* No kind of handle ever has more than its capacity, and the tombstones   *)
(* are bounded, one about each handle and none about an available one,     *)
(* whatever expires while calls run and in whatever order a Go map lists   *)
(* what has expired.                                                       *)
THEOREM CapacitiesStay == Spec => []CapacitiesHold
<1>1. Init => Caps
  BY CapsStart
<1>2. WorkInv /\ Caps /\ [Next]_vars => Caps'
  BY CapsKept
<1>. QED BY <1>1, <1>2, CapsSuffice, Invariance, PTL DEF Spec

================================================================================

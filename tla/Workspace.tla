------------------------------ MODULE Workspace ------------------------------
(***************************************************************************)
(* The authoring workspace of internal/paperd.  It hands out opaque        *)
(* handles to revisions, candidates (a movable head), opens (a revision    *)
(* pinned for one reader or editor), mutation authorities and plans.  Each *)
(* handle expires; a removed one leaves a tombstone, of which a bounded    *)
(* number is kept.  A mutation runs mostly outside the workspace's lock:   *)
(* it resolves its open, is authorized, reads the candidate, edits, and    *)
(* commits if the head is still the one it edited.                         *)
(*                                                                         *)
(* A handle is its kind and serial number; a serial is never used twice.   *)
(* The tables keep what was removed, not retained any more, because a      *)
(* caller may still hold the handle.                                       *)
(***************************************************************************)
EXTENDS Integers, Sequences, SequencesExt, TLC

CONSTANTS
  Requests,        \* calls that may be in flight together
  Keys,            \* idempotency keys
  Payloads,        \* what an edit or a new source says
  Limit,           \* Limit[k]: how many handles of kind k may be retained
  Lifetime,        \* Lifetime[k]: after how long a handle of kind k expires
  MaxRevocations,  \* tombstones kept
  Issued,          \* bound of the model: handles of each kind ever issued
  MaxTime,         \* bound of the model: the clock
  None

Kinds == {"revision", "candidate", "open", "authority", "plan"}

ASSUME WorkspaceConstants ==
  /\ Limit \in [Kinds -> Nat \ {0}]
  /\ Lifetime \in [Kinds -> Nat \ {0}]
  /\ Issued \in [Kinds -> Nat]
  /\ MaxRevocations \in Nat \ {0} /\ MaxTime \in Nat
  /\ None \notin Payloads

VARIABLES
  table,       \* the handles of each kind, by serial number
  tombstones,  \* why the latest removed handles are unavailable, oldest first
  now,         \* the clock
  request      \* the state of each call

vars == <<table, tombstones, now, request>>

Serial == Nat \ {0}
Handle == Kinds \X Serial

(* Besides what it stands for, a handle has an expiry and may be retained. *)
(* The candidate a revision was committed to is history.                   *)
Memo == [head : Serial, payload : Payloads, revision : Serial]
RevisionEntry ==
  [parent : Nat, candidate : Nat, payload : Payloads, expires : Nat, retained : BOOLEAN]
CandidateEntry ==
  [base : Serial, head : Serial, idempotency : [Keys -> Memo \cup {None}],
   expires : Nat, retained : BOOLEAN]
OpenEntry ==
  [candidate : Nat, revision : Serial, edit : BOOLEAN, expires : Nat, retained : BOOLEAN]
AuthorityEntry == [open : Serial, expires : Nat, retained : BOOLEAN]
PlanEntry == [revision : Serial, expires : Nat, retained : BOOLEAN]

Entry(kind) ==
  CASE kind = "revision" -> RevisionEntry
    [] kind = "candidate" -> CandidateEntry
    [] kind = "open" -> OpenEntry
    [] kind = "authority" -> AuthorityEntry
    [] kind = "plan" -> PlanEntry

Phases == {"idle", "resolve", "authorize", "read", "commit", "plan", "done", "failed"}

(* gone is history: the handles of the call that were unavailable when it  *)
(* was made.                                                               *)
Request == [phase : Phases, open : Nat, authority : Nat, revision : Nat,
            key : Keys \cup {None}, payload : Payloads \cup {None},
            result : Nat, gone : SUBSET Handle]

Idle == [phase |-> "idle", open |-> 0, authority |-> 0, revision |-> 0,
         key |-> None, payload |-> None, result |-> 0, gone |-> {}]

TypeOK ==
  /\ \A k \in Kinds : table[k] \in Seq(Entry(k))
  /\ DOMAIN tombstones.reasons \subseteq Handle
  /\ \A h \in DOMAIN tombstones.reasons : tombstones.reasons[h] \in {"revoked", "expired"}
  /\ tombstones.order \in Seq(Handle)
  /\ now \in 0 .. MaxTime
  /\ request \in [Requests -> Request]

Init ==
  /\ table = [k \in Kinds |-> <<>>]
  /\ tombstones = [order |-> <<>>, reasons |-> <<>>]
  /\ now = 0
  /\ request = [r \in Requests |-> Idle]
-----------------------------------------------------------------------------
Live(kind, serial) ==
  /\ serial \in DOMAIN table[kind]
  /\ table[kind][serial].retained
  /\ table[kind][serial].expires > now

LiveSerials(kind) == {serial \in DOMAIN table[kind] : Live(kind, serial)}

(* The oldest tombstone makes room for a new one.                          *)
Recorded(tombs, handle, reason) ==
  LET full    == Len(tombs.order) >= MaxRevocations
      dropped == IF full THEN {tombs.order[1]} ELSE {}
  IN  IF handle \in DOMAIN tombs.reasons THEN tombs
      ELSE [order   |-> Append(IF full THEN Tail(tombs.order) ELSE tombs.order, handle),
            reasons |-> [h \in (DOMAIN tombs.reasons \ dropped) \cup {handle} |->
                           IF h = handle THEN reason ELSE tombs.reasons[h]]]

Expired(kinds) ==
  {h \in UNION {{k} \X DOMAIN table[k] : k \in kinds} :
     table[h[1]][h[2]].retained /\ table[h[1]][h[2]].expires <= now}

PrunedOf(kinds) ==
  [k \in Kinds |-> [i \in DOMAIN table[k] |->
     [table[k][i] EXCEPT !.retained = table[k][i].retained /\ (k \in kinds => Live(k, i))]]]

Pruned == PrunedOf(Kinds)

PruneOrder == <<"revision", "candidate", "authority", "plan", "open">>
Rank(handle) == CHOOSE i \in DOMAIN PruneOrder : PruneOrder[i] = handle[1]

(* The kinds are pruned in turn, each in the order of a Go map, which is   *)
(* any order.                                                              *)
PruneTombstonesOf(kinds) ==
  \E order \in SetToSeqs(Expired(kinds)) :
    /\ \A i, j \in DOMAIN order : i < j => Rank(order[i]) <= Rank(order[j])
    /\ tombstones' = FoldLeft(LAMBDA tombs, h : Recorded(tombs, h, "expired"), tombstones, order)

PruneTombstones == PruneTombstonesOf(Kinds)

(* Mutant: a handle too many of a kind.                                    *)
IssueOneMore(entry) ==
  /\ \A k \in DOMAIN entry :
       /\ Len(table[k]) < Issued[k]
       /\ Cardinality(LiveSerials(k)) <= Limit[k]
  /\ PruneTombstones
  /\ table' = [k \in Kinds |->
       IF k \in DOMAIN entry
       THEN Append(Pruned[k], entry[k])
       ELSE Pruned[k]]

(* Every writer first removes what has expired; then a new handle of each  *)
(* kind in DOMAIN entry is made, if there is room for all.                 *)
Issue(entry) ==
  /\ \A k \in DOMAIN entry :
       /\ Len(table[k]) < Issued[k]
       /\ Cardinality(LiveSerials(k)) < Limit[k]
  /\ PruneTombstones
  /\ table' = [k \in Kinds |->
       IF k \in DOMAIN entry
       THEN Append(Pruned[k], entry[k])
       ELSE Pruned[k]]

NextSerial(kind) == Len(table[kind]) + 1

(* The entries of new handles.                                             *)
Revision(parent, candidate, payload) ==
  [parent |-> parent, candidate |-> candidate, payload |-> payload,
   expires |-> now + Lifetime["revision"], retained |-> TRUE]

Source(payload) == Revision(0, 0, payload)

NoIdempotency == [k \in Keys |-> None]

Branch(base) ==
  [base |-> base, head |-> base, idempotency |-> NoIdempotency,
   expires |-> now + Lifetime["candidate"], retained |-> TRUE]

OpenAt(candidate, revision, edit) ==
  [candidate |-> candidate, revision |-> revision, edit |-> edit,
   expires |-> now + Lifetime["open"], retained |-> TRUE]

AuthorityFor(open) ==
  [open |-> open, expires |-> now + Lifetime["authority"], retained |-> TRUE]

PlanOf(revision) ==
  [revision |-> revision, expires |-> now + Lifetime["plan"], retained |-> TRUE]

(* Also what a call does that is refused after it pruned.                 *)
PruneExpiredHandles ==
  /\ Expired(Kinds) # {}
  /\ PruneTombstones
  /\ table' = Pruned
  /\ UNCHANGED <<now, request>>

PruneExpiredPlans ==
  /\ Expired({"plan"}) # {}
  /\ PruneTombstonesOf({"plan"})
  /\ table' = PrunedOf({"plan"})
  /\ UNCHANGED <<now, request>>

CreateRevision(payload) ==
  /\ Issue([revision |-> Source(payload)])
  /\ UNCHANGED <<now, request>>

NewCandidate(base) ==
  /\ Live("revision", base)
  /\ Issue([candidate |-> Branch(base)])
  /\ UNCHANGED <<now, request>>

(* A revision and a candidate for it, or neither.                          *)
PaperCreate(payload) ==
  /\ Issue([revision |-> Source(payload), candidate |-> Branch(NextSerial("revision"))])
  /\ UNCHANGED <<now, request>>

(* An open names a candidate only at its head; 0 is none.                  *)
PaperOpen(candidate, revision, edit) ==
  /\ Live("revision", revision)
  /\ candidate # 0 =>
       Live("candidate", candidate) /\ table["candidate"][candidate].head = revision
  /\ Issue([open |-> OpenAt(candidate, revision, edit)])
  /\ UNCHANGED <<now, request>>

GrantMutationAuthority(open) ==
  /\ Live("open", open)
  /\ table["open"][open].edit /\ table["open"][open].candidate # 0
  /\ Live("revision", table["open"][open].revision)
  /\ Issue([authority |-> AuthorityFor(open)])
  /\ UNCHANGED <<now, request>>

Revoke(kind, serial) ==
  LET revoked == [table[kind][serial] EXCEPT !.retained = FALSE] IN
  /\ table' = [table EXCEPT ![kind] = [@ EXCEPT ![serial] = revoked]]
  /\ tombstones' = Recorded(tombstones, <<kind, serial>>, "revoked")

ClosePaperOpen(open) ==
  /\ Live("open", open)
  /\ Revoke("open", open)
  /\ UNCHANGED <<now, request>>

ReleasePlan(plan) ==
  /\ Live("plan", plan)
  /\ Revoke("plan", plan)
  /\ UNCHANGED <<now, request>>

(* Unlike the other two, a revocation does not look whether the handle is  *)
(* still available.                                                        *)
RevokeMutationAuthority(authority) ==
  /\ Revoke("authority", authority)
  /\ UNCHANGED <<now, request>>
-----------------------------------------------------------------------------
(* A mutation carries an open, with the candidate and head the open was    *)
(* made for, an authority, an idempotency key and an edit.                 *)
PaperMutation(r, open, authority, key, payload) ==
  LET handles == {<<"open", open>>, <<"authority", authority>>} IN
  /\ request[r].phase = "idle"
  /\ request' = [request EXCEPT ![r] =
       [Idle EXCEPT !.phase = "resolve", !.open = open, !.authority = authority,
                    !.key = key, !.payload = payload,
                    !.gone = {h \in handles : ~Live(h[1], h[2])}]]
  /\ UNCHANGED <<table, tombstones, now>>

Opened(r) == table["open"][request[r].open]
Candidate(r) == table["candidate"][Opened(r).candidate]

GoTo(r, phase) == request' = [request EXCEPT ![r] = [@ EXCEPT !.phase = phase]]

Answer(r, revision) ==
  request' = [request EXCEPT ![r] = [@ EXCEPT !.phase = "done", !.result = revision]]

MutationRevision(r) ==
  /\ request[r].phase = "resolve"
  /\ GoTo(r, IF /\ Live("open", request[r].open)
                /\ Opened(r).edit /\ Opened(r).candidate # 0
                /\ Live("revision", Opened(r).revision)
             THEN "authorize" ELSE "failed")
  /\ UNCHANGED <<table, tombstones, now>>

(* Mutant: a revoked authority is found as long as it has not expired.     *)
AuthorizeRevoked(r) ==
  /\ request[r].phase = "authorize"
  /\ GoTo(r, IF /\ table["authority"][request[r].authority].expires > now
                /\ table["authority"][request[r].authority].open = request[r].open
             THEN "read" ELSE "failed")
  /\ UNCHANGED <<table, tombstones, now>>

AuthorizeMutation(r) ==
  /\ request[r].phase = "authorize"
  /\ GoTo(r, IF /\ Live("authority", request[r].authority)
                /\ table["authority"][request[r].authority].open = request[r].open
             THEN "read" ELSE "failed")
  /\ UNCHANGED <<table, tombstones, now>>

Remembered(r) == Candidate(r).idempotency[request[r].key]

(* Mutant: the edit is not compared with the remembered one.               *)
ReplayAnyPayload(r) == Answer(r, Remembered(r).revision)

(* A key that was used for another edit is a conflict.                     *)
Replay(r) ==
  IF /\ Remembered(r).head = Opened(r).revision
     /\ Remembered(r).payload = request[r].payload
  THEN Answer(r, Remembered(r).revision)
  ELSE GoTo(r, "failed")

ReadHead(r) ==
  /\ request[r].phase = "read"
  /\ IF ~Live("candidate", Opened(r).candidate) THEN GoTo(r, "failed")
     ELSE IF Remembered(r) # None THEN Replay(r)
     ELSE GoTo(r, IF /\ Candidate(r).head = Opened(r).revision
                     /\ Live("revision", Opened(r).revision)
                  THEN "commit" ELSE "failed")
  /\ UNCHANGED <<table, tombstones, now>>

(* The target is absent, the authority does not reach it, a preview does   *)
(* not compile, or the edit is rejected.                                   *)
EditFails(r) ==
  /\ request[r].phase \in {"authorize", "read", "commit"}
  /\ GoTo(r, "failed")
  /\ UNCHANGED <<table, tombstones, now>>

Child(r) == Revision(Opened(r).revision, Opened(r).candidate, request[r].payload)

(* Mutant: the head is not compared again under the lock.                  *)
HeadUnchecked(r) == TRUE

HeadUnmoved(r) == Candidate(r).head = Opened(r).revision

(* The head moves, and only the answer to this edit is remembered.         *)
Advanced(r, candidate, revision) ==
  [candidate EXCEPT !.head = revision,
     !.idempotency = [k \in Keys |->
       IF k = request[r].key
       THEN [head |-> Opened(r).revision, payload |-> request[r].payload, revision |-> revision]
       ELSE None]]

(* The locked part: remember, compare, and publish.  A failure still       *)
(* prunes.                                                                 *)
Commit(r) ==
  LET c        == Opened(r).candidate
      revision == NextSerial("revision")
      room     == Cardinality(LiveSerials("revision")) < Limit["revision"]
      publish  == Live("candidate", c) /\ Remembered(r) = None /\ HeadUnmoved(r) /\ room
  IN
  /\ request[r].phase = "commit"
  /\ publish => Len(table["revision"]) < Issued["revision"]
  /\ PruneTombstones
  /\ table' = IF ~publish THEN Pruned
              ELSE [Pruned EXCEPT
                      !["revision"] = Append(@, Child(r)),
                      !["candidate"] = [@ EXCEPT ![c] = Advanced(r, Pruned["candidate"][c], revision)]]
  /\ IF publish THEN Answer(r, revision)
     ELSE IF Live("candidate", c) /\ Remembered(r) # None THEN Replay(r)
     ELSE GoTo(r, "failed")
  /\ UNCHANGED now

(* CreatePlan reads a revision, plans it unlocked, and retains the plan if *)
(* the revision is still available.                                        *)
CreatePlan(r, revision) ==
  /\ request[r].phase = "idle"
  /\ Live("revision", revision)
  /\ request' = [request EXCEPT ![r] = [Idle EXCEPT !.phase = "plan", !.revision = revision]]
  /\ UNCHANGED <<table, tombstones, now>>

PublishPlan(r) ==
  /\ request[r].phase = "plan"
  /\ IF /\ Live("revision", request[r].revision)
        /\ Cardinality(LiveSerials("plan")) < Limit["plan"]
     THEN Issue([plan |-> PlanOf(request[r].revision)]) /\ GoTo(r, "done")
     ELSE PruneTombstones /\ table' = Pruned /\ GoTo(r, "failed")
  /\ UNCHANGED now

PlanFails(r) ==
  /\ request[r].phase = "plan"
  /\ GoTo(r, "failed")
  /\ UNCHANGED <<table, tombstones, now>>

Return(r) ==
  /\ request[r].phase \in {"done", "failed"}
  /\ request' = [request EXCEPT ![r] = Idle]
  /\ UNCHANGED <<table, tombstones, now>>

Tick ==
  /\ now < MaxTime
  /\ now' = now + 1
  /\ UNCHANGED <<table, tombstones, request>>

Next ==
  \/ \E payload \in Payloads : CreateRevision(payload) \/ PaperCreate(payload)
  \/ \E base \in DOMAIN table["revision"] : NewCandidate(base)
  \/ \E candidate \in DOMAIN table["candidate"] \cup {0}, revision \in DOMAIN table["revision"],
        edit \in BOOLEAN : PaperOpen(candidate, revision, edit)
  \/ \E open \in DOMAIN table["open"] : GrantMutationAuthority(open) \/ ClosePaperOpen(open)
  \/ \E authority \in DOMAIN table["authority"] : RevokeMutationAuthority(authority)
  \/ \E plan \in DOMAIN table["plan"] : ReleasePlan(plan)
  \/ PruneExpiredHandles
  \/ PruneExpiredPlans
  \/ \E r \in Requests :
       \/ \E open \in DOMAIN table["open"], authority \in DOMAIN table["authority"],
             key \in Keys, payload \in Payloads :
            PaperMutation(r, open, authority, key, payload)
       \/ MutationRevision(r)
       \/ AuthorizeMutation(r)
       \/ ReadHead(r)
       \/ EditFails(r)
       \/ Commit(r)
       \/ \E revision \in DOMAIN table["revision"] : CreatePlan(r, revision)
       \/ PublishPlan(r)
       \/ PlanFails(r)
       \/ Return(r)
  \/ Tick

Spec == Init /\ [][Next]_vars
-----------------------------------------------------------------------------
Committed(candidate) ==
  {i \in DOMAIN table["revision"] : table["revision"][i].candidate = candidate}

(* The revisions committed to a candidate are one line from its base to    *)
(* its head: of several edits of one head only one is published, whatever  *)
(* expires meanwhile.                                                      *)
HeadsAreLinear ==
  \A c \in DOMAIN table["candidate"] :
    LET line == Committed(c)
        Before(i) == {j \in line \cup {table["candidate"][c].base} : j < i}
    IN  /\ \A i \in line : table["revision"][i].parent \in Before(i)
                           /\ \A j \in Before(i) : j <= table["revision"][i].parent
        /\ table["candidate"][c].head \in line \cup {table["candidate"][c].base}
        /\ \A j \in line : j <= table["candidate"][c].head

(* A mutation that succeeds, replayed or not, names the revision that      *)
(* resulted from its own edit of the head it was made for.                 *)
AnswersDescribeTheEdit ==
  \A r \in Requests : request[r].phase = "done" /\ request[r].open # 0 =>
    LET revision == table["revision"][request[r].result] IN
    /\ revision.parent = Opened(r).revision
    /\ revision.candidate = Opened(r).candidate
    /\ revision.payload = request[r].payload

(* No mutation succeeds with an open or an authority that was unavailable  *)
(* when it was called, replays included.                                   *)
NothingGoneIsUsed ==
  \A r \in Requests : request[r].phase = "done" => request[r].gone = {}

(* The tombstones are bounded, each handle has at most one, and an         *)
(* available handle has none.                                              *)
TombstonesAgree ==
  /\ Len(tombstones.order) <= MaxRevocations
  /\ Cardinality(DOMAIN tombstones.reasons) = Len(tombstones.order)
  /\ DOMAIN tombstones.reasons = {tombstones.order[i] : i \in DOMAIN tombstones.order}
  /\ \A h \in DOMAIN tombstones.reasons : ~table[h[1]][h[2]].retained

(* The tables and the calls have their types, and the capacities hold for  *)
(* every kind, whatever runs concurrently, as do those of the tombstones.  *)
CapacitiesHold ==
  /\ TypeOK /\ TombstonesAgree
  /\ \A k \in Kinds : Cardinality({i \in DOMAIN table[k] : table[k][i].retained}) <= Limit[k]
=============================================================================

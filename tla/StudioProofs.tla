---------------------------- MODULE StudioProofs ----------------------------
(***************************************************************************)
(* Proofs about what Studio serves, for any number of requests, sources,   *)
(* imports, catalogs and scenarios: a reply describes what its own request *)
(* read, the cache keeps its bound, and a catalog that is replaced while   *)
(* nothing is planned is the catalog of all that is cached.                *)
(* Then about the stream of changes that a browser follows, for any number *)
(* of saves, messages, refreshes and breaks of the stream: the browser's   *)
(* refreshes run one at a time, so that it never shows an earlier save     *)
(* after a later one.                                                      *)
(* And about edits, undo and redo, for every set of texts, labels, sizes   *)
(* and limits: the file is always whole, an action replaces only what its  *)
(* caller saw, undo and redo move the file by the entry they took, and the *)
(* journal holds what became of the file.                                  *)
(***************************************************************************)
EXTENDS StudioSnapshots, ChangeStream, StudioHistory, FiniteSetTheorems, SequenceTheorems, TLAPS

(* A plan with pages of a source that imports names the import.            *)
Traced(snapshot) ==
  snapshot.plan.source \in Importing /\ snapshot.ok => snapshot.plan.import # None

(* What a call may rely on at each of its points.                          *)
CallFits(k) ==
  /\ k \in Request
  /\ k.phase # "idle" => import \in k.seen /\ k.catalog \in Catalogs
  /\ k.phase \in {"check", "watch", "plan", "publish", "done"} => k.source \in Sources
  /\ k.phase \in {"watch", "publish", "done"} =>
       /\ k.result \in Snapshot
       /\ k.result.plan.source = k.source
       /\ k.result.plan.scenario = k.scenario
       /\ Traced(k.result)
  /\ k.phase = "publish" => k.result.plan.import \in k.seen \cup {None}
  /\ k.phase = "done" /\ k.source \in Importing /\ k.result.ok
       => k.result.plan.import \in k.seen

CacheFits ==
  \A s \in Scenarios : snapshots[s] # None =>
    snapshots[s].plan.scenario = s /\ Traced(snapshots[s])

CallsInv == /\ TypeOK
            /\ CacheFits
            /\ \A r \in Requests : CallFits(request[r])

(* The cache never grows past its limit.                                   *)
RoomInv == IsFiniteSet(Occupied) /\ Cardinality(Occupied) <= CacheLimit

(* What is cached or being planned has the catalog of the server.          *)
QuietInv ==
  ~overlapped =>
    /\ \A s \in Scenarios : snapshots[s] # None => snapshots[s].plan.catalog = catalog
    /\ \A r \in Requests :
         /\ request[r].phase \in {"read", "check", "watch", "plan", "publish"}
              => request[r].catalog = catalog
         /\ request[r].phase = "publish" => request[r].result.plan.catalog = catalog
-----------------------------------------------------------------------------
LEMMA Starts == Init => CallsInv /\ RoomInv /\ QuietInv
<1> SUFFICES ASSUME Init PROVE CallsInv /\ RoomInv /\ QuietInv
  OBVIOUS
<1>1. Idle \in Request /\ Idle.phase = "idle"
  BY SnapshotConstants DEF Idle, Request, Phases
<1>2. CallsInv
  <2>1. TypeOK
    <3>1. writes \in 0 .. MaxWrites
      BY SnapshotConstants DEF Init
    <3>2. request \in [Requests -> Request] /\ snapshots \in [Scenarios -> Snapshot \cup {None}]
      BY <1>1 DEF Init
    <3> QED BY <3>1, <3>2 DEF Init, TypeOK
  <2> CacheFits
    BY DEF Init, CacheFits
  <2>2. ASSUME NEW r \in Requests PROVE CallFits(request[r])
    <3>1. request[r] = Idle
      BY DEF Init
    <3> QED BY <1>1, <3>1 DEF CallFits
  <2> QED BY <2>1, <2>2 DEF CallsInv
<1>3. Occupied = {}
  BY DEF Init, Occupied
<1>4. RoomInv
  BY <1>3, FS_EmptySet, SnapshotConstants DEF RoomInv
<1> QED BY <1>1, <1>2, <1>4 DEF Init, QuietInv

(* A step of one call that changes no shared state.                        *)
LEMMA CallSteps ==
  ASSUME CallsInv, NEW r \in Requests, NEW k, CallFits(k),
         request' = [request EXCEPT ![r] = k],
         UNCHANGED <<disk, resources, cache>>
  PROVE  CallsInv'
<1>1. k \in Request
  BY DEF CallFits
<1>2. TypeOK'
  BY <1>1 DEF CallsInv, TypeOK, disk, resources, cache
<1>3. CacheFits'
  BY DEF CallsInv, CacheFits, Traced, cache
<1>4. ASSUME NEW q \in Requests PROVE CallFits(request[q])'
  <2>1. CallFits(request[q]) /\ import' = import
    BY DEF CallsInv, disk
  <2>2. request'[q] = IF q = r THEN k ELSE request[q]
    BY DEF CallsInv, TypeOK
  <2> QED BY <2>1, <2>2, SMTT(30) DEF CallFits, Traced
<1> QED BY <1>2, <1>3, <1>4 DEF CallsInv

LEMMA Begins ==
  ASSUME CallsInv, NEW r \in Requests, NEW s \in Scenarios, Begin(r, s)
  PROVE  CallsInv'
<1>1. PICK k : k = [Idle EXCEPT !.phase = "read", !.scenario = s, !.catalog = catalog,
                                !.seen = {import}]
  OBVIOUS
<1>2. CallFits(k)
  BY <1>1, SnapshotConstants, ZenonT(30) DEF CallsInv, TypeOK, CallFits, Idle, Request, Phases
<1> QED BY <1>1, <1>2, CallSteps DEF Begin

LEMMA Reads ==
  ASSUME CallsInv, NEW r \in Requests, ReadSource(r)
  PROVE  CallsInv'
<1>1. PICK k : k = [request[r] EXCEPT !.source = file, !.phase = "check"]
  OBVIOUS
<1>2. CallFits(request[r]) /\ request[r].phase = "read" /\ file \in Sources
  BY DEF CallsInv, ReadSource, TypeOK
<1>3. CallFits(k)
  BY <1>1, <1>2 DEF CallFits, Request, Phases
<1> QED BY <1>1, <1>3, CallSteps DEF ReadSource

LEMMA Watches ==
  ASSUME CallsInv, NEW r \in Requests, Watch(r)
  PROVE  CallsInv'
<1>1. PICK phase : phase = IF <<request[r].source, import>> = SourceRevision(request[r].result.plan)
                           THEN "done" ELSE "plan"
  OBVIOUS
<1>2. PICK k : k = [request[r] EXCEPT !.phase = phase]
  OBVIOUS
<1>3. CallFits(request[r]) /\ request[r].phase = "watch"
  BY DEF CallsInv, Watch
<1>4. phase = "done" => request[r].result.plan.import \in request[r].seen
  BY <1>1, <1>3 DEF SourceRevision, CallFits
<1>5. CallFits(k)
  BY <1>1, <1>2, <1>3, <1>4 DEF CallFits, Request, Phases
<1>6. request' = [request EXCEPT ![r] = k]
  BY <1>1, <1>2 DEF Watch
<1> QED BY <1>5, <1>6, CallSteps DEF Watch

LEMMA Plans ==
  ASSUME CallsInv, NEW r \in Requests, NEW cancelled \in BOOLEAN, PlanSource(r, cancelled)
  PROVE  CallsInv'
<1>1. PICK i \in IF request[r].source \notin Importing THEN {None}
                 ELSE IF cancelled THEN {import, None} ELSE {import} :
        request' = [request EXCEPT ![r] = [@ EXCEPT
          !.phase = "publish",
          !.result =
            [plan |-> [source |-> request[r].source, import |-> i,
                       catalog |-> request[r].catalog, scenario |-> request[r].scenario],
             ok |-> request[r].source \in Plannable /\ ~cancelled,
             baseline |-> request[r].baseline]]]
  BY DEF PlanSource
<1>2. CallFits(request[r]) /\ request[r].phase = "plan" /\ import \in Imports /\ import # None
  BY SnapshotConstants DEF CallsInv, PlanSource, TypeOK
<1>3. PICK plan : plan = [source |-> request[r].source, import |-> i,
                          catalog |-> request[r].catalog, scenario |-> request[r].scenario]
  OBVIOUS
<1>4. PICK ok \in BOOLEAN : ok = (request[r].source \in Plannable /\ ~cancelled)
  OBVIOUS
<1>5. PICK x : x = [plan |-> plan, ok |-> ok, baseline |-> request[r].baseline]
  OBVIOUS
<1>6. /\ plan \in Plan /\ plan.source = request[r].source /\ plan.scenario = request[r].scenario
      /\ plan.import = i
  BY <1>1, <1>2, <1>3 DEF Plan, CallFits, Request
<1>7. x \in Snapshot /\ x.plan = plan
  BY <1>2, <1>5, <1>6 DEF Snapshot, CallFits, Request
<1>8. Traced(x)
  BY <1>1, <1>2, <1>4, <1>5, <1>6 DEF Traced
<1>9. PICK k : k = [request[r] EXCEPT !.phase = "publish", !.result = x]
  OBVIOUS
<1>10. i \in request[r].seen \cup {None}
  BY <1>1, <1>2 DEF CallFits
<1>11. CallFits(k)
  BY <1>2, <1>6, <1>7, <1>8, <1>9, <1>10 DEF CallFits, Request, Phases
<1>12. request' = [request EXCEPT ![r] = k]
  BY <1>1, <1>3, <1>4, <1>5, <1>9
<1> QED BY <1>11, <1>12, CallSteps DEF PlanSource

LEMMA Ends ==
  ASSUME CallsInv, NEW r \in Requests, Fail(r) \/ Reply(r)
  PROVE  CallsInv'
<1>1. CallFits(Idle)
  BY SnapshotConstants DEF CallFits, Idle, Request, Phases
<1> QED BY <1>1, CallSteps DEF Fail, Reply

(* The two locked sections.                                                *)
LEMMA Checks ==
  ASSUME CallsInv, NEW r \in Requests, Check(r)
  PROVE  CallsInv'
<1>1. CallFits(request[r]) /\ request[r].phase = "check" /\ request[r] \in Request
      /\ request[r].source \in Sources /\ request[r].scenario \in Scenarios
  BY DEF CallsInv, Check, CallFits, Request
<1>2. PICK cached : cached = Cleared(r)[request[r].scenario]
  OBVIOUS
<1>3. /\ Cleared(r) \in [Scenarios -> Snapshot \cup {None}]
      /\ \A s \in Scenarios : Cleared(r)[s] # None =>
           Cleared(r)[s] = snapshots[s] /\ snapshots[s] # None
  BY DEF Cleared, CallsInv, TypeOK
<1>4. previous' \in Plan \cup {None}
  BY <1>1 DEF Check, Detached, CallsInv, TypeOK, Snapshot
<1>5. PICK k : k = [request[r] EXCEPT
        !.phase = IF ~Hit(cached, request[r].source) THEN "plan"
                  ELSE IF request[r].source \in Importing THEN "watch" ELSE "done",
        !.result = IF Hit(cached, request[r].source) THEN cached ELSE None,
        !.baseline = previous']
  OBVIOUS
<1>6. cached \in Snapshot \cup {None}
  BY <1>1, <1>2, <1>3
<1>7. Hit(cached, request[r].source) =>
        /\ cached \in Snapshot /\ cached.plan.source = request[r].source
        /\ cached.plan.scenario = request[r].scenario /\ Traced(cached)
  BY <1>1, <1>2, <1>3, <1>6 DEF Hit, CallsInv, CacheFits
<1>8. k \in Request
  BY <1>1, <1>4, <1>5, <1>6 DEF Request, Phases
<1>9. CallFits(k)
  <2>1. CASE Hit(cached, request[r].source)
    BY <1>1, <1>5, <1>7, <1>8, <2>1 DEF CallFits, Request
  <2>2. CASE ~Hit(cached, request[r].source)
    BY <1>1, <1>5, <1>8, <2>2 DEF CallFits, Request
  <2> QED BY <2>1, <2>2
<1>10. request' = [request EXCEPT ![r] = k]
  BY <1>2, <1>5 DEF Check
<1>11. TypeOK'
  BY <1>1, <1>3, <1>4, <1>8, <1>10 DEF Check, CallsInv, TypeOK, disk, resources
<1>12. CacheFits'
  BY <1>3 DEF Check, CallsInv, CacheFits, Traced
<1>13. ASSUME NEW q \in Requests PROVE CallFits(request[q])'
  <2>1. CallFits(request[q]) /\ import' = import
    BY DEF CallsInv, Check, disk
  <2>2. request'[q] = IF q = r THEN k ELSE request[q]
    BY <1>10 DEF CallsInv, TypeOK
  <2> QED BY <1>9, <2>1, <2>2 DEF CallFits, Traced
<1> QED BY <1>11, <1>12, <1>13 DEF CallsInv

LEMMA Publishes ==
  ASSUME CallsInv, NEW r \in Requests, Publish(r)
  PROVE  CallsInv'
<1>1. CallFits(request[r]) /\ request[r].phase = "publish" /\ request[r] \in Request
      /\ request[r].scenario \in Scenarios
  BY DEF CallsInv, Publish, CallFits, Request
<1>2. PICK result \in Snapshot : result = request[r].result
  BY <1>1 DEF CallFits
<1>3. PICK cached : cached = snapshots[request[r].scenario]
  OBVIOUS
<1>4. cached \in Snapshot \cup {None}
  BY <1>1, <1>3 DEF CallsInv, TypeOK
<1>5. PICK detached : detached = Detached(cached, result.baseline)
  OBVIOUS
<1>6. detached \in Plan \cup {None}
  BY <1>2, <1>4, <1>5 DEF Detached, Snapshot
<1>7. PICK snapshot : snapshot = [result EXCEPT !.baseline = detached]
  OBVIOUS
<1>8. snapshot \in Snapshot /\ snapshot.plan = result.plan /\ snapshot.ok = result.ok
  BY <1>2, <1>6, <1>7 DEF Snapshot
<1>9. snapshot = [request[r].result EXCEPT !.baseline = Detached(cached, @)]
  BY <1>2, <1>5, <1>7
<1>10. PICK x : x = IF cached # None /\ SourceRevision(cached.plan) = SourceRevision(result.plan)
                    THEN cached ELSE snapshot
  OBVIOUS
<1>11. /\ result.plan.source = request[r].source
       /\ result.plan.scenario = request[r].scenario
       /\ Traced(result)
       /\ result.plan.import \in request[r].seen \cup {None}
  BY <1>1, <1>2 DEF CallFits
<1>12. cached # None => cached.plan.scenario = request[r].scenario /\ Traced(cached)
  BY <1>1, <1>3 DEF CallsInv, CacheFits
<1>13. /\ x \in Snapshot
       /\ x.plan.source = request[r].source
       /\ x.plan.scenario = request[r].scenario
       /\ x.plan.import = result.plan.import
       /\ Traced(x)
  <2>1. CASE cached # None /\ SourceRevision(cached.plan) = SourceRevision(result.plan)
    BY <1>4, <1>10, <1>11, <1>12, <2>1 DEF SourceRevision
  <2>2. CASE ~(cached # None /\ SourceRevision(cached.plan) = SourceRevision(result.plan))
    BY <1>8, <1>10, <1>11, <2>2 DEF Traced
  <2> QED BY <2>1, <2>2
<1>14. PICK k : k = [request[r] EXCEPT !.phase = "done", !.result = x]
  OBVIOUS
<1>15. CallFits(k)
  BY <1>1, <1>11, <1>13, <1>14 DEF CallFits, Request, Phases, Traced
<1>16. request' = [request EXCEPT ![r] = k]
  BY <1>2, <1>3, <1>9, <1>10, <1>14 DEF Publish
<1>17. snapshots' = snapshots \/ snapshots' = [snapshots EXCEPT ![request[r].scenario] = snapshot]
  BY <1>3, <1>9 DEF Publish
<1>18. previous' \in Plan \cup {None}
  BY <1>3, <1>4 DEF Publish, Detached, CallsInv, TypeOK, Snapshot
<1>19. TypeOK'
  <2>1. /\ file' = file /\ import' = import /\ writes' = writes
        /\ catalog' = catalog /\ overlapped' = overlapped
    BY DEF Publish, disk, resources
  <2>2. sourceHash' \in Sources \cup {None}
    BY <1>1 DEF Publish, CallsInv, TypeOK, CallFits, Request
  <2>3. snapshots' \in [Scenarios -> Snapshot \cup {None}]
    BY <1>1, <1>8, <1>17 DEF CallsInv, TypeOK
  <2>4. request' \in [Requests -> Request]
    BY <1>15, <1>16 DEF CallsInv, TypeOK, CallFits
  <2> QED BY <1>18, <2>1, <2>2, <2>3, <2>4 DEF CallsInv, TypeOK
<1>20. CacheFits'
  BY <1>1, <1>8, <1>11, <1>17 DEF CallsInv, TypeOK, CacheFits, Traced
<1>21. ASSUME NEW q \in Requests PROVE CallFits(request[q])'
  <2>1. CallFits(request[q]) /\ import' = import
    BY DEF CallsInv, Publish, disk
  <2>2. request'[q] = IF q = r THEN k ELSE request[q]
    BY <1>16 DEF CallsInv, TypeOK
  <2> QED BY <1>15, <2>1, <2>2 DEF CallFits, Traced
<1> QED BY <1>19, <1>20, <1>21 DEF CallsInv

(* What happens beside the calls.                                          *)
LEMMA Replaces ==
  ASSUME CallsInv, NEW c \in Catalogs, SetProjectResources(c)
  PROVE  CallsInv'
<1>1. writes' \in 0 .. MaxWrites /\ overlapped' \in BOOLEAN
  BY SnapshotConstants DEF SetProjectResources, CallsInv, TypeOK
<1>2. TypeOK' /\ CacheFits'
  BY <1>1 DEF SetProjectResources, CallsInv, TypeOK, CacheFits
<1> QED BY <1>2 DEF SetProjectResources, CallsInv, CallFits, Traced

LEMMA Writes ==
  ASSUME CallsInv, NEW s \in Sources, WriteSource(s)
  PROVE  CallsInv'
<1>1. writes' \in 0 .. MaxWrites
  BY SnapshotConstants DEF WriteSource, CallsInv, TypeOK
<1>2. TypeOK' /\ CacheFits'
  BY <1>1 DEF WriteSource, CallsInv, TypeOK, CacheFits, Traced, resources, cache
<1> QED BY <1>2 DEF WriteSource, CallsInv, CallFits, Traced

LEMMA Imported ==
  ASSUME CallsInv, NEW i \in Imports, WriteImport(i)
  PROVE  CallsInv'
<1>1. writes' \in 0 .. MaxWrites
  BY SnapshotConstants DEF WriteImport, CallsInv, TypeOK
<1>2. ASSUME NEW r \in Requests PROVE CallFits(request[r])'
  <2>1. CallFits(request[r]) /\ import' = i
    BY DEF CallsInv, WriteImport
  <2>2. CASE request[r].phase = "idle"
    BY <2>1, <2>2 DEF WriteImport, CallFits
  <2>3. CASE request[r].phase # "idle"
    <3>1. request'[r] = [request[r] EXCEPT !.seen = @ \cup {i}]
      BY <2>3 DEF WriteImport
    <3>2. request[r] \in Request
      BY <2>1 DEF CallFits
    <3> QED BY <2>1, <3>1, <3>2 DEF CallFits, Request, Traced
  <2> QED BY <2>2, <2>3
<1>3. request' \in [Requests -> Request]
  BY <1>2 DEF WriteImport, CallFits
<1>4. TypeOK' /\ CacheFits'
  BY <1>1, <1>3 DEF WriteImport, CallsInv, TypeOK, CacheFits, Traced, resources, cache
<1> QED BY <1>2, <1>4 DEF CallsInv

LEMMA CallsKept == CallsInv /\ [Next]_vars => CallsInv'
<1> SUFFICES ASSUME CallsInv, [Next]_vars PROVE CallsInv'
  OBVIOUS
<1>1. CASE UNCHANGED vars
  BY <1>1 DEF CallsInv, TypeOK, CacheFits, CallFits, Traced, vars
<1>2. CASE Next
  BY <1>2, Begins, Reads, Checks, Watches, Plans, Publishes, Ends, Replaces, Writes, Imported
     DEF Next
<1> QED BY <1>1, <1>2

(* Room in the cache: only Publish adds a scenario, where there is room.   *)
LEMMA RoomKept == CallsInv /\ RoomInv /\ [Next]_vars => RoomInv'
<1> SUFFICES ASSUME CallsInv, RoomInv, [Next]_vars PROVE RoomInv'
  OBVIOUS
<1>1. CASE snapshots' = snapshots
  BY <1>1 DEF RoomInv, Occupied
<1>2. CASE snapshots' = [s \in Scenarios |-> None]
  <2>1. Occupied' = {}
    BY <1>2 DEF Occupied
  <2> QED BY <2>1, FS_EmptySet, SnapshotConstants DEF RoomInv
<1>3. ASSUME NEW r \in Requests, Publish(r) PROVE RoomInv'
  <2>1. PICK s, snapshot :
          /\ s = request[r].scenario /\ snapshot.plan.scenario = s
          /\ \/ snapshots' = snapshots
             \/ Cacheable(snapshot) /\ snapshots' = [snapshots EXCEPT ![s] = snapshot]
    <3>1. PICK snapshot :
            snapshot = [request[r].result EXCEPT !.baseline = Detached(snapshots[request[r].scenario], @)]
      OBVIOUS
    <3>2. request[r].result \in Snapshot /\ request[r].result.plan.scenario = request[r].scenario
      BY <1>3 DEF Publish, CallsInv, CallFits
    <3>3. snapshot.plan = request[r].result.plan
      BY <3>1, <3>2 DEF Snapshot
    <3> QED BY <1>3, <3>1, <3>2, <3>3 DEF Publish
  <2>2. CASE snapshots' = snapshots
    BY <1>1, <2>2
  <2>3. CASE Cacheable(snapshot) /\ snapshots' = [snapshots EXCEPT ![s] = snapshot]
    <3>1. snapshots \in [Scenarios -> Snapshot \cup {None}]
      BY DEF CallsInv, TypeOK
    <3>2. CASE snapshots[s] # None
      <4>1. Occupied' \subseteq Occupied
        BY <2>3, <3>1, <3>2 DEF Occupied
      <4>2. IsFiniteSet(Occupied') /\ Cardinality(Occupied') <= Cardinality(Occupied)
        BY <4>1, FS_Subset DEF RoomInv
      <4> QED BY <4>2, FS_CardinalityType, SnapshotConstants DEF RoomInv
    <3>3. CASE snapshots[s] = None
      <4>1. Cardinality(Occupied) < CacheLimit
        BY <2>1, <2>3, <3>3 DEF Cacheable
      <4>2. Occupied' \subseteq Occupied \cup {s}
        BY <2>3, <3>1 DEF Occupied
      <4>3. /\ IsFiniteSet(Occupied \cup {s})
            /\ Cardinality(Occupied \cup {s}) <= Cardinality(Occupied) + 1
        BY FS_AddElement, FS_CardinalityType DEF RoomInv
      <4>4. IsFiniteSet(Occupied') /\ Cardinality(Occupied') <= Cardinality(Occupied \cup {s})
        BY <4>2, <4>3, FS_Subset
      <4>5. Cardinality(Occupied') \in Nat /\ Cardinality(Occupied \cup {s}) \in Nat
            /\ Cardinality(Occupied) \in Nat
        BY <4>3, <4>4, FS_CardinalityType DEF RoomInv
      <4> QED BY <4>1, <4>3, <4>4, <4>5, SnapshotConstants DEF RoomInv
    <3> QED BY <3>2, <3>3
  <2> QED BY <2>1, <2>2, <2>3
<1>4. ASSUME NEW r \in Requests, Check(r) PROVE RoomInv'
  BY <1>1, <1>2, <1>4 DEF Check, Cleared
<1> QED BY <1>1, <1>2, <1>3, <1>4
     DEF Next, Begin, ReadSource, Watch, PlanSource, Fail, Reply, SetProjectResources,
         WriteSource, WriteImport, cache, vars

(* The catalogs of what is cached and of what is under way.                *)
LEMMA QuietKept == CallsInv /\ QuietInv /\ [Next]_vars => QuietInv'
<1> SUFFICES ASSUME CallsInv, QuietInv, [Next]_vars, ~overlapped' PROVE QuietInv'
  BY DEF QuietInv
<1> DEFINE Busy == {"read", "check", "watch", "plan", "publish"}
           Agrees(k) == /\ k.phase \in Busy => k.catalog = catalog
                        /\ k.phase = "publish" => k.result.plan.catalog = catalog
<1>1. \A r \in Requests : request[r] \in Request /\ CallFits(request[r])
  BY DEF CallsInv, CallFits
<1>2. ASSUME NEW r \in Requests, NEW k, Agrees(k),
             request' = [request EXCEPT ![r] = k], UNCHANGED resources,
             \A s \in Scenarios : snapshots'[s] # None => snapshots'[s].plan.catalog = catalog
      PROVE  QuietInv'
  <2>1. \A q \in Requests : request'[q] = IF q = r THEN k ELSE request[q]
    BY <1>2 DEF CallsInv, TypeOK
  <2>2. ~overlapped /\ catalog' = catalog
    BY <1>2 DEF resources
  <2> QED BY <1>2, <2>1, <2>2 DEF QuietInv
<1>3. ASSUME NEW r \in Requests, NEW k, Agrees(k),
             request' = [request EXCEPT ![r] = k], UNCHANGED <<resources, cache>>
      PROVE  QuietInv'
  <2>1. \A s \in Scenarios : snapshots'[s] # None => snapshots'[s].plan.catalog = catalog
    BY <1>3 DEF QuietInv, resources, cache
  <2> QED BY <1>2, <1>3, <2>1
<1>4. CASE UNCHANGED vars
  BY <1>4 DEF QuietInv, vars
<1>5. ASSUME NEW r \in Requests, NEW s \in Scenarios, Begin(r, s) PROVE QuietInv'
  <2>1. PICK k : k = [Idle EXCEPT !.phase = "read", !.scenario = s, !.catalog = catalog,
                                  !.seen = {import}]
    OBVIOUS
  <2>2. Agrees(k)
    BY <2>1 DEF Idle
  <2> QED BY <1>3, <1>5, <2>1, <2>2 DEF Begin
<1>6. ASSUME NEW r \in Requests, ReadSource(r) PROVE QuietInv'
  <2>1. PICK k : k = [request[r] EXCEPT !.source = file, !.phase = "check"]
    OBVIOUS
  <2>2. Agrees(k)
    BY <1>1, <1>6, <2>1 DEF ReadSource, Request, QuietInv, resources
  <2> QED BY <1>3, <1>6, <2>1, <2>2 DEF ReadSource
<1>7. ASSUME NEW r \in Requests, Check(r) PROVE QuietInv'
  <2> PICK baseline, cached : baseline = previous' /\ cached = Cleared(r)[request[r].scenario]
    OBVIOUS
  <2> PICK phase, x :
        /\ phase = IF ~Hit(cached, request[r].source) THEN "plan"
                   ELSE IF request[r].source \in Importing THEN "watch" ELSE "done"
        /\ x = IF Hit(cached, request[r].source) THEN cached ELSE None
    OBVIOUS
  <2>1. /\ phase \in {"plan", "watch", "done"}
        /\ request' = [request EXCEPT ![r] =
             [@ EXCEPT !.phase = phase, !.result = x, !.baseline = baseline]]
        /\ UNCHANGED resources
    BY <1>7 DEF Check
  <2>2. PICK k : k = [request[r] EXCEPT !.phase = phase, !.result = x, !.baseline = baseline]
    OBVIOUS
  <2>3. Agrees(k)
    BY <1>1, <1>7, <2>1, <2>2, SMTT(30) DEF Check, Request, QuietInv, resources
  <2>4. \A s \in Scenarios : snapshots'[s] # None => snapshots'[s].plan.catalog = catalog
    BY <1>7 DEF Check, Cleared, QuietInv, resources
  <2>5. request' = [request EXCEPT ![r] = k]
    BY <2>1, <2>2
  <2> QED BY <1>2, <2>1, <2>3, <2>4, <2>5
<1>8. ASSUME NEW r \in Requests, Watch(r) PROVE QuietInv'
  <2>1. PICK phase \in {"plan", "done"} : request' = [request EXCEPT ![r] = [@ EXCEPT !.phase = phase]]
    BY <1>8 DEF Watch
  <2>2. PICK k : k = [request[r] EXCEPT !.phase = phase]
    OBVIOUS
  <2>3. Agrees(k)
    BY <1>1, <1>8, <2>1, <2>2 DEF Watch, Request, QuietInv, resources
  <2> QED BY <1>3, <1>8, <2>1, <2>2, <2>3 DEF Watch
<1>9. ASSUME NEW r \in Requests, NEW cancelled \in BOOLEAN, PlanSource(r, cancelled)
      PROVE  QuietInv'
  <2>1. PICK i : request' = [request EXCEPT ![r] = [@ EXCEPT
          !.phase = "publish",
          !.result =
            [plan |-> [source |-> request[r].source, import |-> i,
                       catalog |-> request[r].catalog, scenario |-> request[r].scenario],
             ok |-> request[r].source \in Plannable /\ ~cancelled,
             baseline |-> request[r].baseline]]]
    BY <1>9 DEF PlanSource
  <2>2. PICK x : x = [plan |-> [source |-> request[r].source, import |-> i,
                       catalog |-> request[r].catalog, scenario |-> request[r].scenario],
             ok |-> request[r].source \in Plannable /\ ~cancelled,
             baseline |-> request[r].baseline]
    OBVIOUS
  <2>3. x.plan.catalog = request[r].catalog
    BY <2>2
  <2>4. PICK k : k = [request[r] EXCEPT !.phase = "publish", !.result = x]
    OBVIOUS
  <2>5. request[r].catalog = catalog
    BY <1>9 DEF PlanSource, QuietInv, resources
  <2>6. Agrees(k)
    BY <1>1, <2>3, <2>4, <2>5 DEF Request
  <2>7. request' = [request EXCEPT ![r] = k]
    BY <2>1, <2>2, <2>4
  <2> QED BY <1>3, <1>9, <2>6, <2>7 DEF PlanSource
<1>10. ASSUME NEW r \in Requests, Publish(r) PROVE QuietInv'
  <2>1. PICK snapshot, x :
          /\ snapshot = [request[r].result EXCEPT !.baseline = Detached(snapshots[request[r].scenario], @)]
          /\ request' = [request EXCEPT ![r] = [@ EXCEPT !.phase = "done", !.result = x]]
          /\ \/ snapshots' = snapshots
             \/ snapshots' = [snapshots EXCEPT ![request[r].scenario] = snapshot]
    BY <1>10 DEF Publish
  <2>2. request[r].result \in Snapshot /\ request[r].result.plan.catalog = catalog /\ ~overlapped
    BY <1>1, <1>10 DEF Publish, CallFits, QuietInv, resources
  <2>3. snapshot.plan.catalog = catalog
    BY <2>1, <2>2 DEF Snapshot
  <2>4. \A s \in Scenarios : snapshots'[s] # None => snapshots'[s].plan.catalog = catalog
    BY <2>1, <2>2, <2>3 DEF QuietInv, CallsInv, TypeOK
  <2>5. PICK k : k = [request[r] EXCEPT !.phase = "done", !.result = x]
    OBVIOUS
  <2>6. Agrees(k)
    BY <1>1, <2>5 DEF Request
  <2> QED BY <1>2, <1>10, <2>1, <2>4, <2>5, <2>6 DEF Publish
<1>11. ASSUME NEW r \in Requests, Fail(r) \/ Reply(r) PROVE QuietInv'
  <2>1. Agrees(Idle)
    BY DEF Idle
  <2> QED BY <1>3, <1>11, <2>1 DEF Fail, Reply
<1>12. ASSUME NEW c \in Catalogs, SetProjectResources(c) PROVE QuietInv'
  <2>1. \A r \in Requests : request[r].phase \notin Busy
    BY <1>1, <1>12 DEF SetProjectResources, InFlight, Request, Phases
  <2> QED BY <1>12, <2>1 DEF SetProjectResources, QuietInv
<1>13. ASSUME NEW s \in Sources, WriteSource(s) PROVE QuietInv'
  BY <1>13 DEF WriteSource, QuietInv, resources, cache
<1>14. ASSUME NEW i \in Imports, WriteImport(i) PROVE QuietInv'
  <2>1. ASSUME NEW r \in Requests
        PROVE  /\ request'[r].phase = request[r].phase
               /\ request'[r].catalog = request[r].catalog
               /\ request'[r].result = request[r].result
    BY <1>1, <1>14 DEF WriteImport, Request
  <2> QED BY <1>14, <2>1 DEF WriteImport, QuietInv, resources, cache
<1> QED BY <1>4, <1>5, <1>6, <1>7, <1>8, <1>9, <1>10, <1>11, <1>12, <1>13, <1>14 DEF Next
-----------------------------------------------------------------------------
(* Whatever other requests, saves and catalog changes do while a request   *)
(* has the mutex released, its answer is a plan of the source that it read *)
(* itself, for its own scenario and an import it could have read.          *)
THEOREM RepliesDescribeTheirRead == Spec => []ReplyDescribesRead
<1>1. CallsInv => ReplyDescribesRead
  BY DEF CallsInv, CallFits, ReplyDescribesRead, Done
<1> QED BY Starts, CallsKept, <1>1, PTL DEF Spec

(* The cache never holds more scenarios than its limit, however many       *)
(* requests plan different scenarios together (current, the test under the *)
(* second lock).                                                           *)
THEOREM CacheStaysBounded == Spec => []CacheBounded
<1>1. CallsInv /\ RoomInv => CacheBounded
  BY DEF CallsInv, RoomInv, CacheBounded
<1> QED BY Starts, CallsKept, RoomKept, <1>1, PTL DEF Spec

(* A catalog that is never replaced under a planning is the catalog of all *)
(* that is cached (setProjectResources clears, Publish adds).              *)
THEOREM QuietChangesAreSeen == Spec => []QuietCatalogChangeSeen
<1>1. QuietInv => QuietCatalogChangeSeen
  BY DEF QuietInv, QuietCatalogChangeSeen, Retained, Occupied
<1> QED BY Starts, CallsKept, QuietKept, <1>1, PTL DEF Spec

-----------------------------------------------------------------------------
(* The change stream.                                                      *)

(* The texts are the numbers of their saves.                               *)
SavesAreNumbered ==
  /\ MainSaves \in Seq(Nat) /\ \A i \in DOMAIN MainSaves : MainSaves[i] = i
  /\ ImportSaves \in Seq(Nat) /\ \A i \in DOMAIN ImportSaves : ImportSaves[i] = i
  /\ Nothing \notin Nat /\ Nothing \notin Fetches /\ Nothing \notin Revisions

StreamTypeOK ==
  /\ saved \in [main : DOMAIN MainSaves, import : DOMAIN ImportSaves]
  /\ shown \in Revisions \cup {Nothing}
  /\ promise \in Fetches \cup {Nothing}
  /\ fetch \in [Fetches -> Fetch]
  /\ query \in Revisions \cup {Nothing}
  /\ stream \in Stream
  /\ pipe \in Seq(Revisions)

(* The server has read a text wherever it goes on with one.                *)
StreamFits == stream.phase \in {"source", "polling"} => stream.main \in Texts

(* a is no later than what the files hold now, or than b.                  *)
NotAhead(a) ==
  a.main <= saved.main /\ (a.import # Nothing => a.import <= saved.import)

NoLater(a, b) ==
  a.main <= b.main /\ (Nothing \in {a.import, b.import} \/ a.import <= b.import)

(* At most one refresh is under way, the one that is promised; what it has *)
(* read is no earlier than what is shown.                                  *)
Singly ==
  /\ \A f \in Fetches : fetch[f].phase # "free" => promise = f
  /\ shown # Nothing => NotAhead(shown)
  /\ \A f \in Fetches :
       /\ fetch[f].phase = "source" =>
            /\ fetch[f].main \in Texts /\ fetch[f].main <= saved.main
            /\ shown # Nothing => shown.main <= fetch[f].main
       /\ fetch[f].phase = "answered" =>
            /\ fetch[f].read \in Revisions /\ NotAhead(fetch[f].read)
            /\ shown # Nothing => NoLater(shown, fetch[f].read)

StreamInv == StreamTypeOK /\ StreamFits /\ Singly
-----------------------------------------------------------------------------
LEMMA Numbers ==
  ASSUME SavesAreNumbered
  PROVE  /\ Texts = DOMAIN MainSaves /\ ImportTexts = DOMAIN ImportSaves
         /\ DOMAIN MainSaves = 1 .. Len(MainSaves) /\ DOMAIN ImportSaves = 1 .. Len(ImportSaves)
         /\ Len(MainSaves) \in Nat /\ Len(ImportSaves) \in Nat
<1>1. /\ DOMAIN MainSaves = 1 .. Len(MainSaves) /\ DOMAIN ImportSaves = 1 .. Len(ImportSaves)
      /\ Len(MainSaves) \in Nat /\ Len(ImportSaves) \in Nat
  BY LenProperties DEF SavesAreNumbered
<1>2. /\ \A i \in DOMAIN MainSaves : MainSaves[i] = i
      /\ \A i \in DOMAIN ImportSaves : ImportSaves[i] = i
  BY DEF SavesAreNumbered
<1>3. Texts = DOMAIN MainSaves /\ ImportTexts = DOMAIN ImportSaves
  BY <1>2 DEF Texts, ImportTexts
<1> QED BY <1>1, <1>3

(* What the server reads is what is saved.                                 *)
LEMMA Reading ==
  ASSUME SavesAreNumbered, StreamTypeOK
  PROVE  /\ Main \in Texts /\ Main = saved.main
         /\ Import \in ImportTexts /\ Import = saved.import
<1>1. saved.main \in DOMAIN MainSaves /\ saved.import \in DOMAIN ImportSaves
  BY DEF StreamTypeOK
<1>2. Main = saved.main /\ Import = saved.import
  BY <1>1 DEF Main, Import, SavesAreNumbered
<1>3. Main \in Texts /\ Import \in ImportTexts
  BY <1>1, <1>2, Numbers
<1> QED BY <1>2, <1>3

LEMMA FreeFetches ==
  /\ Free \in Fetch /\ Free.phase = "free"
  /\ \A messages \in SUBSET Revisions :
       Requested(messages) \in Fetch /\ Requested(messages).phase = "sent"
BY DEF Free, Requested, Fetch

LEMMA StreamStarts == SavesAreNumbered /\ StreamInit => StreamInv
<1> SUFFICES ASSUME SavesAreNumbered, StreamInit PROVE StreamInv
  OBVIOUS
<1>1. saved \in [main : DOMAIN MainSaves, import : DOMAIN ImportSaves]
  <2>1. 1 \in DOMAIN MainSaves /\ 1 \in DOMAIN ImportSaves
    BY Numbers, ChangeStreamConstants
  <2> QED BY <2>1 DEF StreamInit
<1>2. PICK f \in Fetches : promise = f /\ fetch = [g \in Fetches |-> IF g = f THEN Requested({}) ELSE Free]
  BY DEF StreamInit
<1>3. fetch \in [Fetches -> Fetch]
  BY <1>2, FreeFetches
<1>4. \A g \in Fetches : fetch[g].phase \in {"free", "sent"} /\ (fetch[g].phase # "free" => g = f)
  BY <1>2, FreeFetches
<1>5. stream \in Stream /\ stream.phase = "unopened"
  BY DEF StreamInit, Stream
<1>6. pipe \in Seq(Revisions)
  BY DEF StreamInit
<1> QED BY <1>1, <1>2, <1>3, <1>4, <1>5, <1>6 DEF StreamInit, StreamInv, StreamTypeOK, StreamFits, Singly

(* A save leaves everything that was read where it was, or behind.         *)
LEMMA Saves ==
  ASSUME SavesAreNumbered, StreamInv, SaveMain \/ SaveImport
  PROVE  StreamInv'
<1>1. /\ saved'.main \in DOMAIN MainSaves /\ saved'.import \in DOMAIN ImportSaves
      /\ saved' \in [main : DOMAIN MainSaves, import : DOMAIN ImportSaves]
      /\ saved.main <= saved'.main /\ saved.import <= saved'.import
  BY Numbers DEF SaveMain, SaveImport, StreamInv, StreamTypeOK
<1>2. UNCHANGED <<browser, query, stream, pipe>>
  BY DEF SaveMain, SaveImport
<1>3. saved.main \in Nat /\ saved.import \in Nat /\ saved'.main \in Nat /\ saved'.import \in Nat
  BY <1>1, Numbers DEF StreamInv, StreamTypeOK
<1>4. ASSUME NEW a \in Revisions, NotAhead(a)
      PROVE  a.main <= saved'.main /\ (a.import # Nothing => a.import <= saved'.import)
  <2>1. a.main \in Nat /\ (a.import # Nothing => a.import \in Nat)
    BY <1>4, Numbers DEF Revisions
  <2> QED BY <1>1, <1>3, <1>4, <2>1 DEF NotAhead
<1>5. \A t \in Texts : t <= saved.main => t <= saved'.main
  BY <1>1, <1>3, Numbers
<1>6. StreamTypeOK' /\ StreamFits'
  BY <1>1, <1>2 DEF StreamInv, StreamTypeOK, StreamFits, browser
<1>7. Singly'
  BY <1>2, <1>4, <1>5 DEF StreamInv, StreamTypeOK, Singly, NotAhead, NoLater, browser
<1> QED BY <1>6, <1>7 DEF StreamInv

(* A step that changes fetch and promise, not what is shown.               *)
LEMMA FetchSteps ==
  ASSUME StreamInv, StreamTypeOK', StreamFits', UNCHANGED <<saved, shown>>,
         \A f \in Fetches : fetch'[f].phase # "free" => promise' = f,
         \A f \in Fetches :
           \/ fetch'[f].phase \in {"free", "sent", "loading"}
           \/ /\ fetch'[f].phase = fetch[f].phase
              /\ fetch'[f].main = fetch[f].main /\ fetch'[f].read = fetch[f].read
  PROVE  StreamInv'
BY DEF StreamInv, Singly, NotAhead, NoLater

LEMMA Refreshes ==
  ASSUME SavesAreNumbered, StreamInv, NEW messages \in SUBSET Revisions, NEW explicit \in BOOLEAN,
         Refresh(messages, explicit), UNCHANGED <<saved, shown, query, stream>>,
         pipe' \in Seq(Revisions)
  PROVE  StreamInv'
<1>1. StreamTypeOK /\ fetch \in [Fetches -> Fetch]
  BY DEF StreamInv, StreamTypeOK
<1>2. CASE RefreshPending
  <2>1. promise \in Fetches /\ fetch[promise] \in Fetch /\ UNCHANGED promise
    BY <1>1, <1>2 DEF RefreshPending, StreamTypeOK, Refresh
  <2> DEFINE k == [fetch[promise] EXCEPT !.then = @ \cup messages, !.again = @ \/ explicit]
  <2>3. /\ k \in Fetch /\ k.phase = fetch[promise].phase /\ k.main = fetch[promise].main
        /\ k.read = fetch[promise].read
    BY <2>1 DEF Fetch
  <2>4. fetch' = [fetch EXCEPT ![promise] = k]
    BY <1>2 DEF Refresh
  <2> HIDE DEF k
  <2>5. StreamTypeOK' /\ StreamFits'
    BY <1>1, <2>1, <2>3, <2>4 DEF StreamInv, StreamTypeOK, StreamFits
  <2>6. \A f \in Fetches : fetch'[f].phase # "free" => promise' = f
    BY <1>1, <2>1, <2>3, <2>4 DEF StreamInv, Singly
  <2>7. \A f \in Fetches : /\ fetch'[f].phase = fetch[f].phase
                           /\ fetch'[f].main = fetch[f].main /\ fetch'[f].read = fetch[f].read
    BY <1>1, <2>1, <2>3, <2>4
  <2> QED BY <2>5, <2>6, <2>7, FetchSteps
<1>3. CASE ~RefreshPending
  <2>1. PICK f \in Fetches : promise' = f /\ fetch' = [fetch EXCEPT ![f] = Requested(messages)]
    BY <1>3 DEF Refresh
  <2>2. \A g \in Fetches : fetch[g].phase = "free"
    BY <1>3 DEF RefreshPending, StreamInv, Singly, SavesAreNumbered
  <2>3. \A g \in Fetches : /\ fetch'[g].phase \in {"free", "sent"}
                           /\ fetch'[g].phase # "free" => g = f
    BY <1>1, <2>1, <2>2, FreeFetches
  <2>4. StreamTypeOK' /\ StreamFits'
    BY <1>1, <2>1, FreeFetches DEF StreamInv, StreamTypeOK, StreamFits
  <2> QED BY <2>1, <2>3, <2>4, FetchSteps
<1> QED BY <1>2, <1>3

LEMMA Reacts ==
  ASSUME SavesAreNumbered, StreamInv, ExplicitRefresh \/ HandleChangeFrame
  PROVE  StreamInv'
<1>1. pipe \in Seq(Revisions)
  BY DEF StreamInv, StreamTypeOK
<1>2. CASE ExplicitRefresh
  <2>1. Refresh({}, TRUE) /\ UNCHANGED <<saved, shown, query, stream>> /\ pipe' = pipe
    BY <1>2 DEF ExplicitRefresh
  <2> QED BY <1>1, <2>1, Refreshes
<1>3. CASE HandleChangeFrame
  <2>1. Head(pipe) \in Revisions /\ Tail(pipe) \in Seq(Revisions) /\ pipe' = Tail(pipe)
    BY <1>1, <1>3 DEF HandleChangeFrame
  <2>2. UNCHANGED <<saved, shown, query, stream>>
    BY <1>3 DEF HandleChangeFrame
  <2>3. CASE Refresh({Head(pipe)}, FALSE)
    BY <2>1, <2>2, <2>3, Refreshes
  <2>4. CASE UNCHANGED <<promise, fetch>>
    <3>1. StreamTypeOK' /\ StreamFits'
      BY <2>1, <2>2, <2>4 DEF StreamInv, StreamTypeOK, StreamFits
    <3>2. \A f \in Fetches : fetch'[f].phase # "free" => promise' = f
      BY <2>4 DEF StreamInv, Singly
    <3> QED BY <2>2, <2>4, <3>1, <3>2, FetchSteps
  <2> QED BY <1>3, <2>3, <2>4 DEF HandleChangeFrame
<1> QED BY <1>2, <1>3

LEMMA Serves ==
  ASSUME SavesAreNumbered, StreamInv, NEW f \in Fetches, ServeSource(f) \/ ServeImports(f)
  PROVE  StreamInv'
<1>1. StreamTypeOK /\ fetch \in [Fetches -> Fetch] /\ fetch[f] \in Fetch
  BY DEF StreamInv, StreamTypeOK
<1>2. /\ UNCHANGED <<saved, shown, promise, query, stream, pipe>>
      /\ promise = f
  BY DEF ServeSource, ServeImports, StreamInv, Singly
<1>3. ASSUME NEW k \in Fetch, fetch' = [fetch EXCEPT ![f] = k],
             \/ /\ k.phase = "source" /\ k.main \in Texts /\ k.main <= saved.main
                /\ shown # Nothing => shown.main <= k.main
             \/ /\ k.phase = "answered" /\ k.read \in Revisions /\ NotAhead(k.read)
                /\ shown # Nothing => NoLater(shown, k.read)
      PROVE  StreamInv'
  <2>1. StreamTypeOK' /\ StreamFits'
    BY <1>1, <1>2, <1>3 DEF StreamInv, StreamTypeOK, StreamFits
  <2>2. \A g \in Fetches : fetch'[g] = IF g = f THEN k ELSE fetch[g]
    BY <1>1, <1>3
  <2> QED BY <1>2, <1>3, <2>1, <2>2 DEF StreamInv, Singly, NotAhead, NoLater
<1>4. shown # Nothing =>
        /\ shown.main \in Nat /\ shown.main <= saved.main
        /\ shown.import # Nothing => shown.import \in Nat /\ shown.import <= saved.import
  BY Numbers DEF StreamInv, StreamTypeOK, Singly, NotAhead, Revisions
<1>5. saved.main \in Nat /\ saved.import \in Nat
  BY <1>1, Numbers DEF StreamTypeOK
<1>6. CASE ServeSource(f)
  <2>1. PICK text : text = Main
    OBVIOUS
  <2>2. text \in Texts /\ text = saved.main
    BY <1>1, <2>1, Reading
  <2>3. PICK k : k = [fetch[f] EXCEPT !.phase = "source", !.main = text]
    OBVIOUS
  <2>4. k \in Fetch /\ k.phase = "source" /\ k.main = text
    BY <1>1, <2>2, <2>3 DEF Fetch
  <2>5. fetch' = [fetch EXCEPT ![f] = k]
    BY <1>6, <2>1, <2>3 DEF ServeSource
  <2>6. k.main \in Texts /\ k.main <= saved.main /\ (shown # Nothing => shown.main <= k.main)
    BY <1>4, <1>5, <2>2, <2>4
  <2> QED BY <1>3, <2>4, <2>5, <2>6
<1>7. CASE ServeImports(f)
  <2>1. /\ fetch[f].main \in Texts /\ fetch[f].main <= saved.main
        /\ shown # Nothing => shown.main <= fetch[f].main
    BY <1>7 DEF ServeImports, StreamInv, Singly
  <2>2. PICK read : read = SourceManifestRevision(fetch[f].main, fetch[f].main \in Importers)
    OBVIOUS
  <2>3. /\ read \in Revisions /\ read.main = fetch[f].main
        /\ read.import \in {Nothing, saved.import}
    BY <1>1, <2>1, <2>2, Reading DEF SourceManifestRevision, Revisions
  <2>4. PICK k : k = [fetch[f] EXCEPT !.phase = "answered", !.read = read]
    OBVIOUS
  <2>5. k \in Fetch /\ k.phase = "answered" /\ k.read = read
    BY <1>1, <2>3, <2>4 DEF Fetch
  <2>6. fetch' = [fetch EXCEPT ![f] = k]
    BY <1>7, <2>2, <2>4 DEF ServeImports
  <2>7. NotAhead(read)
    BY <1>5, <2>1, <2>3 DEF NotAhead
  <2>8. shown # Nothing => NoLater(shown, read)
    BY <1>4, <1>5, <2>1, <2>3 DEF NoLater
  <2> QED BY <1>3, <2>3, <2>5, <2>6, <2>7, <2>8
<1> QED BY <1>6, <1>7

(* The answer is shown; nothing else is under way.                         *)
LEMMA Shows ==
  ASSUME SavesAreNumbered, StreamInv, NEW f \in Fetches, ApplyWorkspace(f)
  PROVE  /\ StreamInv'
         /\ shown' \in Revisions /\ (shown # Nothing => NoLater(shown, shown'))
<1>1. StreamTypeOK /\ fetch \in [Fetches -> Fetch] /\ fetch[f] \in Fetch /\ promise = f
  BY DEF StreamInv, StreamTypeOK, ApplyWorkspace, Singly
<1>2. /\ fetch[f].read \in Revisions /\ NotAhead(fetch[f].read)
      /\ shown # Nothing => NoLater(shown, fetch[f].read)
  BY DEF StreamInv, Singly, ApplyWorkspace
<1>3. PICK k : k = [fetch[f] EXCEPT !.phase = "loading"]
  OBVIOUS
<1>4. k \in Fetch /\ k.phase = "loading"
  BY <1>1, <1>3 DEF Fetch
<1>5. /\ shown' = fetch[f].read /\ fetch' = [fetch EXCEPT ![f] = k]
      /\ UNCHANGED <<saved, promise, query, stream, pipe>>
  BY <1>3 DEF ApplyWorkspace
<1>6. \A g \in Fetches : fetch'[g].phase \in {"free", "loading"} /\ (fetch'[g].phase # "free" => g = f)
  BY <1>1, <1>4, <1>5 DEF StreamInv, Singly
<1>7. StreamTypeOK' /\ StreamFits'
  BY <1>1, <1>2, <1>4, <1>5 DEF StreamInv, StreamTypeOK, StreamFits
<1>8. Singly'
  BY <1>1, <1>2, <1>5, <1>6 DEF Singly, NotAhead
<1> QED BY <1>2, <1>5, <1>7, <1>8 DEF StreamInv

LEMMA Settles ==
  ASSUME SavesAreNumbered, StreamInv, NEW f \in Fetches, FinishRefresh(f) \/ FailRefresh(f)
  PROVE  StreamInv'
<1>1. /\ StreamTypeOK /\ fetch \in [Fetches -> Fetch] /\ fetch[f].phase # "free" /\ promise = f
      /\ UNCHANGED <<saved, shown, pipe>> /\ Settle(f) /\ ConnectChangeStream
  BY DEF FinishRefresh, FailRefresh, StreamInv, StreamTypeOK, Singly
<1>2. PICK k : k = IF WantsAnother(f) THEN Requested({}) ELSE Free
  OBVIOUS
<1>3. k \in Fetch /\ k.phase \in {"free", "sent"}
  BY <1>2, FreeFetches
<1>4. fetch' = [fetch EXCEPT ![f] = k]
  BY <1>1, <1>2 DEF Settle
<1>5. promise' \in {f, Nothing} /\ (k.phase # "free" => promise' = f)
  BY <1>1, <1>2, FreeFetches DEF Settle
<1>6. \A g \in Fetches : /\ fetch'[g].phase \in {"free", "sent"}
                         /\ fetch'[g].phase # "free" => promise' = g
  BY <1>1, <1>3, <1>4, <1>5 DEF StreamInv, Singly
<1>7. stream' \in Stream /\ query' \in Revisions \cup {Nothing}
      /\ (stream'.phase \in {"source", "polling"} => stream'.main \in Texts)
  <2>1. PICK phase : phase = IF stream.phase = "unopened" THEN "connect" ELSE stream.phase
    OBVIOUS
  <2>2. stream' = [stream EXCEPT !.phase = phase]
    BY <1>1, <2>1 DEF ConnectChangeStream
  <2> QED BY <1>1, <2>1, <2>2
          DEF ConnectChangeStream, StreamInv, StreamTypeOK, StreamFits, Stream
<1>8. StreamTypeOK' /\ StreamFits'
  BY <1>1, <1>3, <1>4, <1>5, <1>7 DEF StreamTypeOK, StreamFits
<1> QED BY <1>1, <1>6, <1>8, FetchSteps

(* The server's side of the stream.                                        *)
LEMMA Streams ==
  ASSUME SavesAreNumbered, StreamInv, StreamStep \/ PollUnreadable \/ Break
  PROVE  StreamInv'
<1>1. StreamTypeOK /\ UNCHANGED <<saved, browser, query>> /\ stream \in Stream
      /\ pipe \in Seq(Revisions)
  BY DEF StreamInv, StreamTypeOK, StreamStep, ConnectSource, ConnectImports, PollSource,
         PollImports, PollUnreadable, Polled, Break
<1>2. ASSUME NEW s \in Stream, stream' = s, s.phase \in {"source", "polling"} => s.main \in Texts,
             pipe' \in Seq(Revisions)
      PROVE  StreamInv'
  <2>1. StreamTypeOK' /\ StreamFits'
    BY <1>1, <1>2 DEF StreamTypeOK, StreamFits, browser
  <2>2. \A f \in Fetches : fetch'[f] = fetch[f] /\ (fetch'[f].phase # "free" => promise' = f)
    BY <1>1 DEF StreamInv, Singly, browser
  <2> QED BY <1>1, <2>1, <2>2, FetchSteps DEF browser
<1>3. CASE ConnectSource \/ PollSource
  <2>1. PICK text : text = Main
    OBVIOUS
  <2>2. text \in Texts
    BY <1>1, <2>1, Reading
  <2>3. PICK phase : phase = IF stream.phase = "connect" THEN "source" ELSE "polling"
    OBVIOUS
  <2>4. PICK s : s = [stream EXCEPT !.phase = phase, !.main = text]
    OBVIOUS
  <2>5. stream' = s /\ pipe' = pipe
    BY <1>3, <2>1, <2>3, <2>4 DEF ConnectSource, PollSource
  <2>6. s \in Stream /\ s.main = text
    BY <1>1, <2>2, <2>3, <2>4 DEF Stream
  <2> QED BY <1>1, <1>2, <2>2, <2>5, <2>6
<1>4. CASE ConnectImports
  <2>1. stream.main \in Texts
    BY <1>4 DEF ConnectImports, StreamInv, StreamFits
  <2>2. PICK watching : watching = (stream.main \in Importers)
    OBVIOUS
  <2>3. PICK revision : revision = SourceManifestRevision(stream.main, watching)
    OBVIOUS
  <2>4. watching \in BOOLEAN
    BY <2>2
  <2>5. revision \in Revisions
    BY <1>1, <2>1, <2>3, Reading DEF SourceManifestRevision, Revisions
  <2>6. PICK s : s = [stream EXCEPT !.phase = "open", !.watching = watching, !.last = revision]
    OBVIOUS
  <2>7. s \in Stream /\ s.phase = "open"
    BY <1>1, <2>4, <2>5, <2>6 DEF Stream
  <2>8. stream' = s /\ pipe' \in {<<>>, <<revision>>}
    BY <1>4, <2>2, <2>3, <2>6 DEF ConnectImports
  <2>9. <<>> \in Seq(Revisions) /\ <<revision>> \in Seq(Revisions)
    BY <2>5
  <2> QED BY <1>2, <2>7, <2>8, <2>9
<1>5. CASE PollImports \/ PollUnreadable
  <2>1. stream.main \in Texts /\ stream.watching \in BOOLEAN
    BY <1>1, <1>5 DEF PollImports, PollUnreadable, Polled, StreamInv, StreamFits, Stream
  <2>2. PICK watching \in BOOLEAN : Polled(SourceManifestRevision(stream.main, watching))
    BY <1>5, <2>1 DEF PollImports, PollUnreadable
  <2>8. PICK revision : revision = SourceManifestRevision(stream.main, watching)
    OBVIOUS
  <2>3. revision \in Revisions
    BY <1>1, <2>1, <2>8, Reading DEF SourceManifestRevision, Revisions
  <2>4. PICK s : s = [stream EXCEPT !.phase = "open", !.last = revision]
    OBVIOUS
  <2>5. s \in Stream /\ s.phase = "open"
    BY <1>1, <2>3, <2>4 DEF Stream
  <2>6. stream' = s /\ pipe' \in {pipe, Append(pipe, revision)}
    BY <2>2, <2>4, <2>8 DEF Polled
  <2>7. pipe' \in Seq(Revisions)
    BY <1>1, <2>3, <2>6
  <2> QED BY <1>2, <2>5, <2>6, <2>7
<1>6. CASE Break
  <2>1. PICK s : s = [stream EXCEPT !.phase = "connect"]
    OBVIOUS
  <2>2. s \in Stream /\ s.phase = "connect" /\ stream' = s /\ pipe' = <<>>
    BY <1>1, <1>6, <2>1 DEF Break, Stream
  <2>3. pipe' \in Seq(Revisions)
    BY <2>2
  <2> QED BY <1>2, <2>2, <2>3
<1> QED BY <1>3, <1>4, <1>5, <1>6 DEF StreamStep

LEMMA InvKept == SavesAreNumbered /\ StreamInv /\ [StreamNext]_streamVars => StreamInv'
<1> SUFFICES ASSUME SavesAreNumbered, StreamInv, [StreamNext]_streamVars PROVE StreamInv'
  OBVIOUS
<1>1. CASE UNCHANGED streamVars
  BY <1>1 DEF StreamInv, StreamTypeOK, StreamFits, Singly, NotAhead, NoLater, streamVars, browser
<1>2. CASE StreamNext
  BY <1>2, Saves, Reacts, Serves, Shows, Settles, Streams DEF StreamNext, FetchStep
<1> QED BY <1>1, <1>2

(* Whatever the order of messages, edits, reconnections and answers, a     *)
(* browser that showed one save of a file never goes back to an earlier    *)
(* one: refresh() of studio.js runs one request at a time.                 *)
THEOREM TheBrowserNeverGoesBack ==
  ASSUME SavesAreNumbered
  PROVE  StreamSpec => NeverGoesBack
<1>1. StreamInv /\ [StreamNext]_streamVars =>
        [shown # Nothing =>
           /\ shown'.main >= shown.main
           /\ Nothing \in {shown.import, shown'.import} \/ shown'.import >= shown.import]_streamVars
  <2> SUFFICES ASSUME StreamInv, [StreamNext]_streamVars, shown # Nothing
               PROVE  /\ shown'.main >= shown.main
                      /\ Nothing \in {shown.import, shown'.import} \/ shown'.import >= shown.import
    OBVIOUS
  <2>1. /\ shown \in Revisions
        /\ \A a \in Revisions : a.main \in Nat /\ a.import \in Nat \cup {Nothing}
    BY Numbers DEF StreamInv, StreamTypeOK, Revisions
  <2>2. CASE shown' = shown
    BY <2>1, <2>2
  <2>3. ASSUME NEW f \in Fetches, ApplyWorkspace(f)
        PROVE  shown' \in Revisions /\ NoLater(shown, shown')
    BY <2>3, Shows
  <2>4. shown' = shown \/ \E f \in Fetches : ApplyWorkspace(f)
    BY DEF StreamNext, FetchStep, StreamStep, SaveMain, SaveImport, ExplicitRefresh, HandleChangeFrame,
           ServeSource, ServeImports, FinishRefresh, FailRefresh, ConnectSource, ConnectImports,
           PollSource, PollImports, PollUnreadable, Polled, Break, streamVars, browser
  <2>5. CASE \E f \in Fetches : ApplyWorkspace(f)
    <3>1. shown' \in Revisions /\ NoLater(shown, shown')
      BY <2>3, <2>5
    <3> QED BY <2>1, <3>1 DEF NoLater
  <2> QED BY <2>2, <2>4, <2>5
<1>2. StreamInit => StreamInv
  BY StreamStarts
<1>3. StreamInv /\ [StreamNext]_streamVars => StreamInv'
  BY InvKept
<1> QED BY <1>1, <1>2, <1>3, PTL DEF StreamSpec, NeverGoesBack

-----------------------------------------------------------------------------
(* Edits and history.                                                      *)

(* The lists of the journal: taking the newest entry and putting it back.  *)
LEMMA TakeAndPut ==
  ASSUME NEW S, NEW s \in Seq(S), Len(s) > 0
  PROVE  /\ J!Front(s) \in Seq(S) /\ J!Newest(s) \in S
         /\ Append(J!Front(s), J!Newest(s)) = s
<1> DEFINE n == Len(s) - 1
           front == SubSeq(s, 1, n)
<1>1. n \in Nat /\ \A i \in 1 .. n : s[i] \in S
  BY ElementOfSeq
<1>2. /\ front \in Seq(S)
      /\ Len(front) = IF 1 <= n THEN n - 1 + 1 ELSE 0
      /\ \A i \in 1 .. (n - 1 + 1) : front[i] = s[1 + i - 1]
  BY <1>1, SubSeqProperties
<1>3. J!Front(s) = front
  BY DEF J!Front
<1>4. J!Newest(s) = s[Len(s)] /\ s[Len(s)] \in S
  BY ElementOfSeq DEF J!Newest
<1> HIDE DEF front, n
<1>5. front \in Seq(S) /\ Len(front) = n /\ \A i \in 1 .. n : front[i] = s[i]
  BY <1>1, <1>2
<1>6. n + 1 = Len(s) /\ n \in Nat
  BY <1>1 DEF n
<1>7. /\ Append(front, s[Len(s)]) \in Seq(S)
      /\ Len(Append(front, s[Len(s)])) = n + 1
      /\ \A i \in 1 .. n : Append(front, s[Len(s)])[i] = s[i]
      /\ Append(front, s[Len(s)])[n + 1] = s[Len(s)]
  BY <1>4, <1>5, <1>6
<1>8. Append(front, s[Len(s)]) = s
  <2>1. \A i \in 1 .. Len(s) : Append(front, s[Len(s)])[i] = s[i]
    BY <1>6, <1>7
  <2> QED BY <1>6, <1>7, <2>1, SeqEqual
<1> QED BY <1>3, <1>4, <1>5, <1>8

LEMMA PutAndTake ==
  ASSUME NEW S, NEW s \in Seq(S), NEW x \in S
  PROVE  /\ Append(s, x) \in Seq(S) /\ Len(Append(s, x)) > 0
         /\ J!Front(Append(s, x)) = s /\ J!Newest(Append(s, x)) = x
<1>1. /\ Append(s, x) \in Seq(S) /\ Len(Append(s, x)) = Len(s) + 1 /\ Len(s) \in Nat
      /\ \A i \in 1 .. Len(s) : Append(s, x)[i] = s[i]
      /\ Append(s, x)[Len(s) + 1] = x
  OBVIOUS
<1> DEFINE n == Len(s)
           front == SubSeq(Append(s, x), 1, n)
<1>2. n \in Nat /\ \A i \in 1 .. n : Append(s, x)[i] \in S
  BY <1>1, ElementOfSeq
<1>3. /\ front \in Seq(S)
      /\ Len(front) = IF 1 <= n THEN n - 1 + 1 ELSE 0
      /\ \A i \in 1 .. (n - 1 + 1) : front[i] = Append(s, x)[1 + i - 1]
  BY <1>2, SubSeqProperties
<1>4. J!Front(Append(s, x)) = front
  BY <1>1 DEF J!Front
<1> HIDE DEF front
<1>5. front \in Seq(S) /\ Len(front) = Len(s) /\ \A i \in 1 .. Len(s) : s[i] = front[i]
  BY <1>1, <1>2, <1>3
<1>6. s = front
  BY <1>5, SeqEqual
<1> QED BY <1>1, <1>4, <1>6 DEF J!Newest

(* The texts that a list offers.                                           *)
LEMMA TextsOfFront ==
  ASSUME NEW s \in Seq(J!Entry), Len(s) > 0
  PROVE  /\ OfferedTexts(J!Front(s)) \subseteq OfferedTexts(s)
         /\ J!Newest(s).before \in OfferedTexts(s) /\ J!Newest(s).after \in OfferedTexts(s)
<1>1. J!Newest(s).before \in OfferedTexts(s) /\ J!Newest(s).after \in OfferedTexts(s)
  BY DEF J!Newest, OfferedTexts
<1>2. OfferedTexts(J!Front(s)) \subseteq OfferedTexts(s)
  <2>1. /\ J!Front(s) \in Seq(J!Entry) /\ J!Newest(s) \in J!Entry
        /\ Append(J!Front(s), J!Newest(s)) = s
    BY TakeAndPut
  <2>2. \A i \in DOMAIN J!Front(s) : i \in DOMAIN s /\ s[i] = J!Front(s)[i]
    BY <2>1
  <2> QED BY <2>2 DEF OfferedTexts
<1> QED BY <1>1, <1>2

LEMMA TextsOfAppend ==
  ASSUME NEW s \in Seq(J!Entry), NEW x \in J!Entry
  PROVE  OfferedTexts(Append(s, x)) \subseteq OfferedTexts(s) \cup {x.before, x.after}
BY DEF OfferedTexts

(* A commit offers the texts it found and the ends of its own entry.       *)
LEMMA Committed ==
  ASSUME J!TypeOK, NEW e \in J!Entry, J!Commit(e, TRUE)
  PROVE  /\ J!TypeOK'
         /\ OfferedTexts(undo') \subseteq OfferedTexts(undo) \cup {e.before, e.after}
         /\ redo' = <<>> /\ source' = e.after
<1> DEFINE list == J!Extended(e, TRUE)
<1>1. PICK k \in 0 .. (Len(list) - 1) :
        undo' = J!DropOldest(list, k) /\ redo' = <<>> /\ source' = e.after
        /\ sequence' = sequence + 1
  BY DEF J!Commit
<1>2. list \in Seq(J!Entry) /\ OfferedTexts(list) \subseteq OfferedTexts(undo) \cup {e.before, e.after}
  <2>1. CASE J!Coalesces(e)
    <3>1. Len(undo) > 0 /\ undo \in Seq(J!Entry) /\ J!Newest(undo) \in J!Entry
          /\ J!Newest(undo).before \in OfferedTexts(undo)
      BY <2>1, TakeAndPut, TextsOfFront DEF J!Coalesces, J!TypeOK
    <3>2. DiffBytes[J!Newest(undo).before][e.after] \in Nat
      BY <3>1, HistoryConstants DEF J!Entry
    <3>3. PICK f : f = [seq |-> e.seq, kind |-> e.kind, group |-> e.group,
                        before |-> J!Newest(undo).before, after |-> e.after,
                        diff |-> DiffBytes[J!Newest(undo).before][e.after]]
      OBVIOUS
    <3>4. f \in J!Entry /\ f.after = e.after /\ f.before = J!Newest(undo).before
      BY <3>1, <3>2, <3>3 DEF J!Entry
    <3>5. list = [undo EXCEPT ![Len(undo)] = f]
      BY <2>1, <3>3 DEF J!Extended
    <3> HIDE DEF list
    <3>6. list \in Seq(J!Entry)
      BY <3>1, <3>4, <3>5
    <3>7. \A i \in DOMAIN list : i \in DOMAIN undo /\ (list[i] = undo[i] \/ list[i] = f)
      BY <3>1, <3>5
    <3>8. OfferedTexts(list) \subseteq OfferedTexts(undo) \cup {e.before, e.after}
      BY <3>1, <3>4, <3>7 DEF OfferedTexts
    <3> QED BY <3>6, <3>8
  <2>2. CASE ~J!Coalesces(e)
    <3>1. list = Append(undo, e) /\ undo \in Seq(J!Entry)
      BY <2>2 DEF J!Extended, J!TypeOK
    <3>2. Append(undo, e) \in Seq(J!Entry)
      BY <3>1
    <3> QED BY <3>1, <3>2, TextsOfAppend
  <2> QED BY <2>1, <2>2
<1> HIDE DEF list
<1>3. /\ J!DropOldest(list, k) \in Seq(J!Entry)
      /\ \A i \in DOMAIN J!DropOldest(list, k) :
           k + i \in DOMAIN list /\ J!DropOldest(list, k)[i] = list[k + i]
  BY <1>2 DEF J!DropOldest
<1>4. OfferedTexts(J!DropOldest(list, k)) \subseteq OfferedTexts(list)
  BY <1>3 DEF OfferedTexts
<1>5. <<>> \in Seq(J!Entry) /\ e.after \in FileTexts
  BY DEF J!Entry
<1> QED BY <1>1, <1>2, <1>3, <1>4, <1>5 DEF J!TypeOK

-----------------------------------------------------------------------------
(* What the file is, and what a power loss would leave of it.              *)
FileInv == /\ onDisk \in Content /\ onDisk.text \in past
           /\ settled \in Content /\ settled.text \in past

Writing == {"stage", "flush", "recheck", "rename"}
ReadingFile == Writing \cup {"open", "record", "check", "sync", "compensate"}

(* How far an action has come, by its phase: what it read is what its      *)
(* caller saw, what it will write is flushed and keeps the rest, and an    *)
(* edit goes to the journal after it went to the file.                     *)
HandlerFits ==
  /\ handler.action = "list" =>
       handler.phase \in {"idle", "read", "open", "record", "reply", "failed"}
  /\ handler.phase \in ReadingFile =>
       /\ handler.read \in Content /\ handler.read.text \in past
       /\ handler.action # "list" => handler.read.text = handler.expected
  /\ handler.phase \in Writing =>
       /\ handler.after \in FileTexts
       /\ handler.base \in Content /\ handler.base.text = handler.read.text
  /\ handler.phase \in {"flush", "recheck", "rename"} =>
       /\ handler.temp \in Content
       /\ handler.temp.text = handler.after /\ handler.temp.rest = handler.base.rest
  /\ handler.phase \in {"recheck", "rename", "sync"} => handler.flushed
  /\ handler.phase = "rename" /\ ~handler.raced => onDisk = handler.base
  /\ handler.action = "edit" /\ handler.phase \in {"sync", "open", "record"} =>
       handler.after \in FileTexts /\ handler.after \in past

(* The journal b with its newest entry taken by the action.                *)
Taken(b) ==
  IF handler.action = "undo"
  THEN /\ Len(b.undo) > 0 /\ J!Newest(b.undo).after = b.source
       /\ undo = J!Front(b.undo) /\ redo = Append(b.redo, J!Newest(b.undo))
       /\ source = J!Newest(b.undo).before
  ELSE /\ Len(b.redo) > 0 /\ J!Newest(b.redo).before = b.source
       /\ redo = J!Front(b.redo) /\ undo = Append(b.undo, J!Newest(b.redo))
       /\ source = J!Newest(b.redo).after

(* An undo or redo under way holds one entry that it can put back.         *)
JournalFits ==
  handler.action \in {"undo", "redo"} =>
    /\ handler.phase \in {"idle", "read", "open"} => handler.before = NoContent
    /\ handler.phase = "record" => handler.before = JournalNow
    /\ handler.phase \in Writing \cup {"check", "compensate"} =>
         /\ handler.before \in JournalState
         /\ handler.before.source = handler.read.text
         /\ Taken(handler.before)
         /\ handler.after = source
    /\ handler.phase = "failed" => handler.before = NoContent \/ handler.before = JournalNow

HistInv == HistoryTyped /\ FileInv /\ HandlerFits /\ JournalFits /\ OffersWereOnDisk

LEMMA PostStarts == HistoryInit => HistInv
<1> SUFFICES ASSUME HistoryInit PROVE HistInv
  OBVIOUS
<1>1. PICK c \in Content : onDisk = c /\ settled = c /\ past = {c.text} /\ source = c.text
  BY DEF HistoryInit
<1>2. c.text \in FileTexts
  BY DEF Content
<1>3. NoHandler \in Handler /\ NoHandler.phase = "idle" /\ NoHandler.action = "list" /\ NoHandler.before = NoContent
  BY HistoryConstants DEF NoHandler, Handler, HandlerPhases, Actions
<1>4. J!TypeOK
  BY <1>1, <1>2 DEF HistoryInit, J!TypeOK
<1>5. external \in 0 .. MaxExternal /\ crashes \in 0 .. MaxCrashes
  BY HistoryConstants DEF HistoryInit
<1>6. HistoryTyped
  BY <1>1, <1>2, <1>3, <1>4, <1>5 DEF HistoryInit, HistoryTyped
<1>7. handler = NoHandler /\ ~open
  BY DEF HistoryInit
<1>8. HandlerFits
  BY <1>3, <1>7 DEF HandlerFits, ReadingFile, Writing
<1> QED BY <1>1, <1>3, <1>6, <1>7, <1>8 DEF HistInv, FileInv, JournalFits, OffersWereOnDisk

(* A step of the handler that touches neither the file nor the journal.    *)
LEMMA HandlerSteps ==
  ASSUME HistInv, handler' \in Handler, HandlerFits', JournalFits',
         UNCHANGED <<journal, stored, environment, past>>
  PROVE  HistInv'
<1>1. HistoryTyped' /\ FileInv'
  BY DEF HistInv, HistoryTyped, FileInv, J!TypeOK, journal, stored, environment
<1>2. OffersWereOnDisk'
  BY DEF HistInv, OffersWereOnDisk, OfferedTexts, journal
<1> QED BY <1>1, <1>2 DEF HistInv

LEMMA Posts ==
  ASSUME HistInv,
         NEW action \in Actions, NEW expected \in FileTexts \cup {NoContent}, NEW group \in Groups,
         Post(action, expected, group)
  PROVE  HistInv'
<1>1. PICK h : h = [NoHandler EXCEPT !.phase = "read", !.action = action,
                                !.expected = expected, !.group = group]
  OBVIOUS
<1>2. h \in Handler /\ h.phase = "read" /\ h.action = action /\ h.before = NoContent
  BY <1>1, HistoryConstants DEF NoHandler, Handler, HandlerPhases, Actions
<1>3. handler' = h
  BY <1>1 DEF Post
<1>4. HandlerFits' /\ JournalFits'
  BY <1>2, <1>3 DEF HandlerFits, JournalFits, ReadingFile, Writing
<1> QED BY <1>2, <1>3, <1>4, HandlerSteps DEF Post

(* An action that fails before it wrote.                                   *)
LEMMA Failures ==
  ASSUME HistInv, Fails, UNCHANGED <<journal, stored, environment, past>>,
         handler.action \in {"undo", "redo"} =>
           handler.before = NoContent \/ handler.before = JournalNow
  PROVE  HistInv'
<1>1. handler \in Handler
  BY DEF HistInv, HistoryTyped
<1>2. PICK h : h = [handler EXCEPT !.phase = "failed"]
  OBVIOUS
<1>3. h \in Handler /\ h.phase = "failed" /\ h.action = handler.action /\ h.before = handler.before
  BY <1>1, <1>2 DEF Handler, HandlerPhases
<1>4. handler' = h
  BY <1>2 DEF Fails, GoTo
<1>5. HandlerFits' /\ JournalFits'
  BY <1>3, <1>4 DEF HandlerFits, JournalFits, JournalNow, ReadingFile, Writing, journal
<1> QED BY <1>3, <1>4, <1>5, HandlerSteps

LEMMA Currents ==
  ASSUME HistInv, ReadFile
  PROVE  HistInv'
<1>1. /\ handler \in Handler /\ handler.phase = "read" /\ UNCHANGED <<journal, stored, environment, past>>
      /\ onDisk \in Content /\ onDisk.text \in past
      /\ handler.action \in {"undo", "redo"} => handler.before = NoContent
  BY DEF ReadFile, HistInv, HistoryTyped, FileInv, JournalFits
<1>2. CASE Fails
  BY <1>1, <1>2, Failures
<1>3. CASE ~Fails
  <2>1. PICK phase : phase = IF handler.action = "edit" THEN "check" ELSE "open"
    OBVIOUS
  <2>2. PICK h : h = [handler EXCEPT !.read = onDisk, !.phase = phase]
    OBVIOUS
  <2>3. handler' = h /\ (handler.action # "list" => handler.expected = onDisk.text)
    BY <1>3, <2>1, <2>2 DEF ReadFile
  <2>4. /\ h \in Handler /\ h.read = onDisk /\ h.phase = phase /\ h.action = handler.action
        /\ h.expected = handler.expected /\ h.before = handler.before
    BY <1>1, <2>1, <2>2, ZenonT(30) DEF Handler, HandlerPhases
  <2>5. HandlerFits' /\ JournalFits'
    BY <1>1, <2>1, <2>3, <2>4 DEF HandlerFits, JournalFits, ReadingFile, Writing
  <2> QED BY <1>1, <2>3, <2>4, <2>5, HandlerSteps
<1> QED BY <1>2, <1>3

LEMMA Lists ==
  ASSUME HistInv, List \/ (\E after \in FileTexts : Mutate(after)) \/ Answer
  PROVE  HistInv'
<1>1. handler \in Handler
  BY DEF HistInv, HistoryTyped
<1>2. CASE List
  <2>1. PICK h : h = [handler EXCEPT !.phase = "reply"]
    OBVIOUS
  <2>2. /\ handler' = h /\ h \in Handler /\ h.phase = "reply" /\ h.action = "list"
    BY <1>1, <1>2, <2>1 DEF List, GoTo, Handler, HandlerPhases
  <2>3. HandlerFits' /\ JournalFits'
    BY <2>2 DEF HandlerFits, JournalFits, ReadingFile, Writing
  <2> QED BY <1>2, <2>2, <2>3, HandlerSteps DEF List
<1>3. ASSUME NEW after \in FileTexts, Mutate(after) PROVE HistInv'
  <2>1. PICK h : h = [handler EXCEPT !.after = after]
    OBVIOUS
  <2>2. /\ handler' = h /\ h \in Handler /\ h.phase = "check" /\ h.action = "edit"
        /\ h.read = handler.read /\ h.expected = handler.expected
    BY <1>1, <1>3, <2>1 DEF Mutate, Handler
  <2>3. HandlerFits' /\ JournalFits'
    BY <1>3, <2>2 DEF Mutate, HistInv, HandlerFits, JournalFits, ReadingFile, Writing
  <2> QED BY <1>3, <2>2, <2>3, HandlerSteps DEF Mutate
<1>4. CASE Answer
  <2>1. NoHandler \in Handler /\ NoHandler.phase = "idle" /\ NoHandler.action = "list" /\ NoHandler.before = NoContent
    BY HistoryConstants DEF NoHandler, Handler, HandlerPhases, Actions
  <2>2. HandlerFits' /\ JournalFits'
    BY <1>4, <2>1 DEF Answer, HandlerFits, JournalFits, ReadingFile, Writing
  <2> QED BY <1>4, <2>1, <2>2, HandlerSteps DEF Answer
<1> QED BY <1>2, <1>3, <1>4

(* The steps of a commit up to the rename.                                 *)
LEMMA CASFailures ==
  ASSUME HistInv, CASFails, handler.phase \in Writing \cup {"check"},
         UNCHANGED <<journal, stored, environment, past>>
  PROVE  HistInv'
<1>1. handler \in Handler
  BY DEF HistInv, HistoryTyped
<1>2. PICK phase : phase = IF handler.action = "edit" THEN "failed" ELSE "compensate"
  OBVIOUS
<1>3. PICK h : h = [handler EXCEPT !.temp = NoContent, !.phase = phase]
  OBVIOUS
<1>4. handler' = h
  BY <1>2, <1>3 DEF CASFails
<1>5. /\ h \in Handler /\ h.phase = phase /\ h.action = handler.action
      /\ h.read = handler.read /\ h.expected = handler.expected
      /\ h.before = handler.before /\ h.after = handler.after
  <2>1. phase \in HandlerPhases
    BY <1>2 DEF HandlerPhases
  <2> QED BY <1>1, <1>3, <2>1 DEF Handler
<1>6. HandlerFits'
  BY <1>2, <1>4, <1>5 DEF HistInv, HandlerFits, ReadingFile, Writing
<1>7. JournalFits'
  BY <1>2, <1>4, <1>5 DEF HistInv, JournalFits, Writing, Taken, journal
<1> QED BY <1>4, <1>5, <1>6, <1>7, HandlerSteps

LEMMA Commits ==
  ASSUME HistInv, CheckFile \/ Stage \/ Flush \/ Recheck
  PROVE  HistInv'
<1>1. /\ handler \in Handler /\ handler.phase \in Writing \cup {"check"}
      /\ UNCHANGED <<journal, stored, environment, past>>
      /\ onDisk \in Content
      /\ handler.read \in Content /\ handler.read.text \in past
  BY DEF HistInv, HistoryTyped, FileInv, HandlerFits, CheckFile, Stage, Flush, Recheck, ReadingFile, Writing
<1>2. CASE CASFails
  BY <1>1, <1>2, CASFailures
<1>3. ASSUME NEW h \in Handler, handler' = h, HandlerFits',
             h.phase \in Writing, h.action = handler.action, h.before = handler.before,
             h.after = handler.after, h.read = handler.read
      PROVE  HistInv'
  <2>1. JournalFits'
    BY <1>1, <1>3 DEF HistInv, JournalFits, Writing, Taken, journal
  <2> QED BY <1>1, <1>3, <2>1, HandlerSteps
<1>4. CASE CheckFile /\ ~CASFails
  <2>1. PICK h : h = [handler EXCEPT !.base = onDisk, !.phase = "stage"]
    OBVIOUS
  <2>2. /\ handler' = h /\ h \in Handler /\ h.phase = "stage" /\ h.action = handler.action
        /\ h.read = handler.read /\ h.expected = handler.expected
        /\ h.before = handler.before /\ h.after = handler.after /\ h.base = onDisk
        /\ h.after \in FileTexts /\ onDisk.text = handler.read.text /\ handler.phase = "check"
    BY <1>1, <1>4, <2>1 DEF CheckFile, Handler, HandlerPhases
  <2>3. HandlerFits'
    BY <1>1, <2>2 DEF HistInv, HandlerFits, ReadingFile, Writing, stored
  <2> QED BY <1>3, <2>2, <2>3 DEF Writing
<1>5. CASE Stage /\ ~CASFails
  <2>1. PICK t : t = [text |-> handler.after, rest |-> handler.base.rest]
    OBVIOUS
  <2>2. PICK h : h = [handler EXCEPT !.phase = "flush", !.temp = t]
    OBVIOUS
  <2>3. t \in Content /\ t.text = handler.after /\ t.rest = handler.base.rest
    BY <1>5, <2>1 DEF Stage, HistInv, HandlerFits, Content, Writing
  <2>4. /\ handler' = h /\ h \in Handler /\ h.phase = "flush" /\ h.action = handler.action
        /\ h.read = handler.read /\ h.expected = handler.expected
        /\ h.before = handler.before /\ h.after = handler.after /\ h.base = handler.base
        /\ h.temp = t /\ handler.phase = "stage"
    BY <1>1, <1>5, <2>1, <2>2, <2>3 DEF Stage, Handler, HandlerPhases
  <2>5. HandlerFits'
    BY <1>1, <2>3, <2>4 DEF HistInv, HandlerFits, ReadingFile, Writing, stored
  <2> QED BY <1>3, <2>4, <2>5 DEF Writing
<1>6. CASE Flush /\ ~CASFails
  <2>1. PICK h : h = [handler EXCEPT !.flushed = TRUE, !.phase = "recheck"]
    OBVIOUS
  <2>2. /\ handler' = h /\ h \in Handler /\ h.phase = "recheck" /\ h.action = handler.action
        /\ h.read = handler.read /\ h.expected = handler.expected
        /\ h.before = handler.before /\ h.after = handler.after /\ h.base = handler.base
        /\ h.temp = handler.temp /\ h.flushed /\ handler.phase = "flush"
    BY <1>1, <1>6, <2>1 DEF Flush, Handler, HandlerPhases
  <2>3. HandlerFits'
    BY <1>1, <2>2 DEF HistInv, HandlerFits, ReadingFile, Writing, stored
  <2> QED BY <1>3, <2>2, <2>3 DEF Writing
<1>7. CASE Recheck /\ ~CASFails
  <2>1. PICK h : h = [handler EXCEPT !.phase = "rename"]
    OBVIOUS
  <2>2. /\ handler' = h /\ h \in Handler /\ h.phase = "rename" /\ h.action = handler.action
        /\ h.read = handler.read /\ h.expected = handler.expected
        /\ h.before = handler.before /\ h.after = handler.after /\ h.base = handler.base
        /\ h.temp = handler.temp /\ h.flushed = handler.flushed /\ handler.phase = "recheck"
        /\ onDisk = handler.base
    BY <1>1, <1>7, <2>1 DEF Recheck, GoTo, Handler, HandlerPhases
  <2>3. HandlerFits'
    BY <1>1, <2>2 DEF HistInv, HandlerFits, ReadingFile, Writing, stored
  <2> QED BY <1>3, <2>2, <2>3 DEF Writing
<1> QED BY <1>2, <1>4, <1>5, <1>6, <1>7

(* The rename and what follows it.                                         *)
LEMMA Renames ==
  ASSUME HistInv, Rename
  PROVE  HistInv'
<1>1. /\ handler \in Handler /\ handler.phase = "rename" /\ UNCHANGED <<journal, environment>>
      /\ handler.read \in Content /\ handler.read.text \in past
      /\ handler.temp \in Content /\ handler.temp.text = handler.after
      /\ handler.flushed
      /\ handler.after \in FileTexts
      /\ handler.action # "list" => handler.read.text = handler.expected
      /\ handler.action # "list"
  BY DEF Rename, HistInv, HistoryTyped, HandlerFits, ReadingFile, Writing
<1>2. CASE CASFails /\ UNCHANGED <<stored, past>>
  BY <1>1, <1>2, CASFailures DEF Writing
<1>3. CASE /\ onDisk' = handler.temp /\ past' = past \cup {handler.temp.text}
           /\ GoTo("sync") /\ UNCHANGED settled
  <2>1. PICK h : h = [handler EXCEPT !.phase = "sync"]
    OBVIOUS
  <2>2. /\ handler' = h /\ h \in Handler /\ h.phase = "sync" /\ h.action = handler.action
        /\ h.read = handler.read /\ h.expected = handler.expected
        /\ h.after = handler.after /\ h.flushed = handler.flushed
    BY <1>1, <1>3, <2>1 DEF GoTo, Handler, HandlerPhases
  <2>3. past' \subseteq FileTexts /\ past \subseteq past' /\ handler.after \in past'
    BY <1>1, <1>3 DEF HistInv, HistoryTyped
  <2>4. HistoryTyped'
    BY <1>1, <1>3, <2>2, <2>3 DEF HistInv, HistoryTyped, J!TypeOK, journal, environment
  <2>5. FileInv'
    BY <1>1, <1>3, <2>3 DEF HistInv, FileInv
  <2>6. HandlerFits'
    BY <1>1, <2>2, <2>3 DEF HandlerFits, ReadingFile, Writing
  <2>7. JournalFits'
    BY <2>2 DEF JournalFits, Writing
  <2>8. OffersWereOnDisk'
    BY <1>1, <2>3 DEF HistInv, OffersWereOnDisk, OfferedTexts, journal
  <2> QED BY <2>4, <2>5, <2>6, <2>7, <2>8 DEF HistInv
<1> QED BY <1>2, <1>3 DEF Rename

LEMMA Syncs ==
  ASSUME HistInv, SyncDirectory
  PROVE  HistInv'
<1>1. /\ handler \in Handler /\ handler.phase = "sync"
      /\ handler.read \in Content /\ handler.read.text \in past
      /\ handler.action # "list"
      /\ handler.read.text = handler.expected
      /\ handler.action = "edit" => handler.after \in FileTexts /\ handler.after \in past
  BY DEF SyncDirectory, HistInv, HistoryTyped, HandlerFits, ReadingFile
<1>2. PICK phase : phase = IF handler.action = "edit" THEN "open" ELSE "reply"
  OBVIOUS
<1>3. PICK h : h = [handler EXCEPT !.phase = phase]
  OBVIOUS
<1>4. /\ handler' = h /\ h \in Handler /\ h.phase = phase /\ h.action = handler.action
      /\ h.read = handler.read /\ h.expected = handler.expected /\ h.after = handler.after
  <2>1. phase \in HandlerPhases
    BY <1>2 DEF HandlerPhases
  <2> QED BY <1>1, <1>2, <1>3, <2>1 DEF SyncDirectory, GoTo, Handler
<1>5. settled' \in Content /\ settled'.text \in past /\ past' = past /\ onDisk' = onDisk
  BY DEF SyncDirectory, HistInv, FileInv
<1>6. HistoryTyped'
  BY <1>4, <1>5 DEF SyncDirectory, HistInv, HistoryTyped, J!TypeOK, journal, environment
<1>7. FileInv'
  BY <1>5 DEF HistInv, FileInv
<1>8. HandlerFits' /\ JournalFits'
  BY <1>1, <1>2, <1>4, <1>5 DEF HandlerFits, JournalFits, ReadingFile, Writing
<1>9. OffersWereOnDisk'
  BY <1>5 DEF SyncDirectory, HistInv, OffersWereOnDisk, OfferedTexts, journal
<1> QED BY <1>6, <1>7, <1>8, <1>9 DEF HistInv

(* A step of the handler that moves the journal and not the file.          *)
LEMMA JournalSteps ==
  ASSUME HistInv, handler' \in Handler, HandlerFits', JournalFits',
         J!TypeOK', open' \in BOOLEAN,
         open' => /\ source' \in past
                  /\ OfferedTexts(undo') \subseteq past /\ OfferedTexts(redo') \subseteq past,
         UNCHANGED <<stored, environment, past>>
  PROVE  HistInv'
<1>1. HistoryTyped' /\ FileInv'
  BY DEF HistInv, HistoryTyped, FileInv, stored, environment
<1>2. OffersWereOnDisk'
  BY DEF OffersWereOnDisk, OfferedTexts
<1> QED BY <1>1, <1>2 DEF HistInv

LEMMA Opens ==
  ASSUME HistInv, OpenHistory
  PROVE  HistInv'
<1>1. /\ handler \in Handler /\ handler.phase = "open"
      /\ handler.read \in Content /\ handler.read.text \in past /\ handler.read.text \in FileTexts
      /\ handler.action # "list" => handler.read.text = handler.expected
      /\ handler.action = "edit" => handler.after \in FileTexts /\ handler.after \in past
      /\ UNCHANGED <<stored, environment, past>>
      /\ J!TypeOK
  BY DEF OpenHistory, HistInv, HistoryTyped, HandlerFits, ReadingFile, Content
<1>2. CASE Reusable(handler.read.text) /\ UNCHANGED journal
           /\ handler' = [handler EXCEPT !.before = JournalNow, !.phase = "record"]
  <2>1. PICK j : j = JournalNow
    OBVIOUS
  <2>2. j \in JournalState
    BY <1>1, <2>1 DEF JournalNow, JournalState, J!TypeOK
  <2>3. PICK h : h = [handler EXCEPT !.before = j, !.phase = "record"]
    OBVIOUS
  <2>4. /\ handler' = h /\ h \in Handler /\ h.phase = "record" /\ h.action = handler.action
        /\ h.read = handler.read /\ h.expected = handler.expected /\ h.after = handler.after
        /\ h.before = j
    BY <1>1, <1>2, <2>1, <2>2, <2>3 DEF Handler, HandlerPhases
  <2>5. JournalNow' = j
    BY <1>2, <2>1 DEF JournalNow, journal
  <2>6. HandlerFits' /\ JournalFits'
    BY <1>1, <2>4, <2>5 DEF HandlerFits, JournalFits, ReadingFile, Writing
  <2> QED BY <1>1, <1>2, <2>4, <2>6, HandlerSteps
<1>3. CASE /\ open' = TRUE
           /\ source' = handler.read.text /\ sequence' = 0 /\ undo' = <<>> /\ redo' = <<>>
           /\ handler' = [handler EXCEPT
                !.before = [source |-> handler.read.text, undo |-> <<>>, redo |-> <<>>],
                !.phase = "record"]
  <2>1. PICK j : j = [source |-> handler.read.text, undo |-> <<>>, redo |-> <<>>]
    OBVIOUS
  <2>2. j \in JournalState
    BY <1>1, <2>1 DEF JournalState
  <2>3. PICK h : h = [handler EXCEPT !.before = j, !.phase = "record"]
    OBVIOUS
  <2>4. /\ handler' = h /\ h \in Handler /\ h.phase = "record" /\ h.action = handler.action
        /\ h.read = handler.read /\ h.expected = handler.expected /\ h.after = handler.after
        /\ h.before = j
    BY <1>1, <1>3, <2>1, <2>2, <2>3 DEF Handler, HandlerPhases
  <2>5. JournalNow' = j
    BY <1>3, <2>1 DEF JournalNow
  <2>6. HandlerFits' /\ JournalFits'
    BY <1>1, <2>4, <2>5 DEF HandlerFits, JournalFits, ReadingFile, Writing
  <2>7. J!TypeOK' /\ OfferedTexts(undo') = {} /\ OfferedTexts(redo') = {}
    BY <1>1, <1>3 DEF J!TypeOK, OfferedTexts
  <2> QED BY <1>1, <1>3, <2>4, <2>6, <2>7, JournalSteps
<1> QED BY <1>2, <1>3 DEF OpenHistory

(* An entry that moves from one list to the other.                         *)
LEMMA Moved ==
  ASSUME J!TypeOK, NEW expected, J!Undo(expected) \/ J!Redo(expected)
  PROVE  /\ J!TypeOK'
         /\ source' \in OfferedTexts(undo) \cup OfferedTexts(redo)
         /\ OfferedTexts(undo') \subseteq OfferedTexts(undo) \cup OfferedTexts(redo)
         /\ OfferedTexts(redo') \subseteq OfferedTexts(undo) \cup OfferedTexts(redo)
<1>1. undo \in Seq(J!Entry) /\ redo \in Seq(J!Entry)
  BY DEF J!TypeOK
<1>2. CASE J!Undo(expected)
  <2>1. /\ Len(undo) > 0 /\ undo' = J!Front(undo) /\ redo' = Append(redo, J!Newest(undo))
        /\ source' = J!Newest(undo).before /\ sequence' = sequence
    BY <1>2 DEF J!Undo
  <2>2. /\ J!Front(undo) \in Seq(J!Entry) /\ J!Newest(undo) \in J!Entry
        /\ Append(redo, J!Newest(undo)) \in Seq(J!Entry)
        /\ J!Newest(undo).before \in FileTexts
    <3>1. J!Front(undo) \in Seq(J!Entry) /\ J!Newest(undo) \in J!Entry
      BY <1>1, <2>1, TakeAndPut
    <3>2. Append(redo, J!Newest(undo)) \in Seq(J!Entry)
      BY <1>1, <3>1, PutAndTake
    <3> QED BY <3>1, <3>2 DEF J!Entry
  <2>3. /\ OfferedTexts(J!Front(undo)) \subseteq OfferedTexts(undo)
        /\ J!Newest(undo).before \in OfferedTexts(undo) /\ J!Newest(undo).after \in OfferedTexts(undo)
        /\ OfferedTexts(Append(redo, J!Newest(undo))) \subseteq
             OfferedTexts(redo) \cup {J!Newest(undo).before, J!Newest(undo).after}
    BY <1>1, <2>1, <2>2, TextsOfFront, TextsOfAppend
  <2> QED BY <2>1, <2>2, <2>3 DEF J!TypeOK
<1>3. CASE J!Redo(expected)
  <2>1. /\ Len(redo) > 0 /\ redo' = J!Front(redo) /\ undo' = Append(undo, J!Newest(redo))
        /\ source' = J!Newest(redo).after /\ sequence' = sequence
    BY <1>3 DEF J!Redo
  <2>2. /\ J!Front(redo) \in Seq(J!Entry) /\ J!Newest(redo) \in J!Entry
        /\ Append(undo, J!Newest(redo)) \in Seq(J!Entry)
        /\ J!Newest(redo).after \in FileTexts
    <3>1. J!Front(redo) \in Seq(J!Entry) /\ J!Newest(redo) \in J!Entry
      BY <1>1, <2>1, TakeAndPut
    <3>2. Append(undo, J!Newest(redo)) \in Seq(J!Entry)
      BY <1>1, <3>1, PutAndTake
    <3> QED BY <3>1, <3>2 DEF J!Entry
  <2>3. /\ OfferedTexts(J!Front(redo)) \subseteq OfferedTexts(redo)
        /\ J!Newest(redo).before \in OfferedTexts(redo) /\ J!Newest(redo).after \in OfferedTexts(redo)
        /\ OfferedTexts(Append(undo, J!Newest(redo))) \subseteq
             OfferedTexts(undo) \cup {J!Newest(redo).before, J!Newest(redo).after}
    BY <1>1, <2>1, <2>2, TextsOfFront, TextsOfAppend
  <2> QED BY <2>1, <2>2, <2>3 DEF J!TypeOK
<1> QED BY <1>2, <1>3

LEMMA MovedOnDisk ==
  ASSUME HistInv, NEW expected, J!Undo(expected) \/ J!Redo(expected), UNCHANGED open
  PROVE  /\ J!TypeOK' /\ open' \in BOOLEAN
         /\ open' => /\ source' \in past
                     /\ OfferedTexts(undo') \subseteq past /\ OfferedTexts(redo') \subseteq past
<1>1. J!TypeOK /\ open \in BOOLEAN
  BY DEF HistInv, HistoryTyped
<1>2. open => OfferedTexts(undo) \subseteq past /\ OfferedTexts(redo) \subseteq past
  BY DEF HistInv, OffersWereOnDisk
<1> QED BY <1>1, <1>2, Moved

LEMMA Takes ==
  ASSUME HistInv, TakeEntry
  PROVE  HistInv'
<1>1. /\ handler \in Handler /\ handler.phase = "record" /\ handler.action \in {"undo", "redo"}
      /\ handler.before = JournalNow
      /\ handler.read \in Content /\ handler.read.text \in past
      /\ handler.read.text = handler.expected
      /\ UNCHANGED <<open, stored, environment, past>>
      /\ J!TypeOK
  BY DEF TakeEntry, HistInv, HistoryTyped, HandlerFits, JournalFits, ReadingFile
<1>2. CASE Fails /\ UNCHANGED <<source, sequence, undo, redo>>
  BY <1>1, <1>2, Failures DEF journal
<1>3. CASE /\ IF handler.action = "undo" THEN J!Undo(handler.read.text) ELSE J!Redo(handler.read.text)
           /\ handler' = [handler EXCEPT !.after = source', !.phase = "check"]
  <2>1. J!Undo(handler.read.text) \/ J!Redo(handler.read.text)
    BY <1>3
  <2>2. /\ J!TypeOK' /\ open' \in BOOLEAN
        /\ open' => /\ source' \in past
                    /\ OfferedTexts(undo') \subseteq past /\ OfferedTexts(redo') \subseteq past
    BY <1>1, <2>1, MovedOnDisk
  <2>3. PICK s : s = source'
    OBVIOUS
  <2>4. PICK h : h = [handler EXCEPT !.after = s, !.phase = "check"]
    OBVIOUS
  <2>5. s \in FileTexts
    BY <2>2, <2>3 DEF J!TypeOK
  <2>6. /\ handler' = h /\ h \in Handler /\ h.phase = "check" /\ h.action = handler.action
        /\ h.read = handler.read /\ h.expected = handler.expected /\ h.after = s
        /\ h.before = handler.before
    BY <1>1, <1>3, <2>3, <2>4, <2>5 DEF Handler, HandlerPhases
  <2>7. HandlerFits'
    BY <1>1, <2>6 DEF HandlerFits, ReadingFile, Writing
  <2>8. handler.before \in JournalState
    BY <1>1 DEF JournalNow, JournalState, J!TypeOK
  <2>9. /\ handler.before.source = source /\ handler.before.undo = undo
        /\ handler.before.redo = redo
    BY <1>1 DEF JournalNow
  <2>10. handler.before.source = handler.read.text
    BY <1>3, <2>9 DEF J!Undo, J!Redo
  <2>11. Taken(handler.before)'
    BY <1>1, <1>3, <2>6, <2>9 DEF Taken, J!Undo, J!Redo
  <2>12. JournalFits'
    BY <2>3, <2>6, <2>8, <2>10, <2>11 DEF JournalFits, Writing
  <2> QED BY <1>1, <2>2, <2>6, <2>7, <2>12, JournalSteps
<1> QED BY <1>2, <1>3 DEF TakeEntry

LEMMA Records ==
  ASSUME HistInv, Record
  PROVE  HistInv'
<1>1. /\ handler \in Handler /\ handler.phase = "record" /\ handler.action = "edit"
      /\ handler.after \in FileTexts /\ handler.after \in past /\ handler.group \in Groups
      /\ UNCHANGED <<open, stored, environment, past>>
      /\ J!TypeOK /\ open \in BOOLEAN
  BY DEF Record, HistInv, HistoryTyped, HandlerFits, Handler
<1>2. ASSUME NEW phase \in {"reply", "failed"}, GoTo(phase)
      PROVE  handler' \in Handler /\ HandlerFits' /\ JournalFits'
  <2>1. PICK h : h = [handler EXCEPT !.phase = phase]
    OBVIOUS
  <2>2. handler' = h /\ h \in Handler /\ h.phase = phase /\ h.action = "edit"
    BY <1>1, <1>2, <2>1 DEF GoTo, Handler, HandlerPhases
  <2> QED BY <1>2, <2>2 DEF HandlerFits, JournalFits, ReadingFile, Writing
<1>3. CASE UNCHANGED <<source, sequence, undo, redo>> /\ (GoTo("reply") \/ Fails)
  <2>1. handler' \in Handler /\ HandlerFits' /\ JournalFits'
    BY <1>2, <1>3 DEF Fails
  <2> QED BY <1>1, <1>3, <2>1, HandlerSteps DEF journal
<1>4. CASE J!ApplySource(handler.read.text, handler.group, handler.after) /\ GoTo("reply")
  <2>1. handler' \in Handler /\ HandlerFits' /\ JournalFits'
    BY <1>2, <1>4
  <2>2. PICK e : e = J!NewEntry("source_edit", handler.group, handler.after,
                                DiffBytes[source][handler.after])
    OBVIOUS
  <2>3. e \in J!Entry /\ e.before = source /\ e.after = handler.after
    <3>1. source \in FileTexts /\ sequence + 1 \in Nat \ {0} /\ "source_edit" \in J!Kinds
      BY <1>1 DEF J!TypeOK, J!Kinds
    <3>2. DiffBytes[source][handler.after] \in Nat
      BY <1>1, <3>1, HistoryConstants
    <3> QED BY <1>1, <2>2, <3>1, <3>2 DEF J!NewEntry, J!Entry
  <2>4. J!Commit(e, TRUE)
    BY <1>4, <2>2 DEF J!ApplySource, J!ApplySourceLocked
  <2>5. /\ J!TypeOK' /\ OfferedTexts(undo') \subseteq OfferedTexts(undo) \cup {e.before, e.after}
        /\ redo' = <<>> /\ source' = e.after
    BY <1>1, <2>3, <2>4, Committed
  <2>6. open => source \in past /\ OfferedTexts(undo) \subseteq past
    BY DEF HistInv, OffersWereOnDisk
  <2>7. OfferedTexts(redo') = {}
    BY <2>5 DEF OfferedTexts
  <2>8. open' => source' \in past /\ OfferedTexts(undo') \subseteq past /\ OfferedTexts(redo') \subseteq past
    BY <1>1, <2>3, <2>5, <2>6, <2>7
  <2> QED BY <1>1, <2>1, <2>5, <2>8, JournalSteps
<1> QED BY <1>3, <1>4 DEF Record

LEMMA Compensates ==
  ASSUME HistInv, Compensate
  PROVE  HistInv'
<1>1. /\ handler \in Handler /\ handler.phase = "compensate"
      /\ UNCHANGED <<open, stored, environment, past>>
      /\ handler.action = "undo" => J!Redo(source)
      /\ handler.action # "undo" => J!Undo(source)
      /\ J!TypeOK /\ handler.action # "list"
  BY DEF Compensate, HistInv, HistoryTyped, HandlerFits
<1>2. PICK h : h = [handler EXCEPT !.phase = "failed"]
  OBVIOUS
<1>3. /\ handler' = h /\ h \in Handler /\ h.phase = "failed" /\ h.action = handler.action
      /\ h.before = handler.before
  BY <1>1, <1>2 DEF Compensate, Fails, GoTo, Handler, HandlerPhases
<1>4. /\ J!TypeOK' /\ open' \in BOOLEAN
      /\ open' => /\ source' \in past
                  /\ OfferedTexts(undo') \subseteq past /\ OfferedTexts(redo') \subseteq past
  BY <1>1, MovedOnDisk
<1>5. ASSUME handler.action \in {"undo", "redo"}
      PROVE  handler.before = JournalNow'
  <2>1. PICK b \in JournalState : b = handler.before /\ Taken(b)
    BY <1>1, <1>5 DEF HistInv, JournalFits
  <2>2. /\ b.undo \in Seq(J!Entry) /\ b.redo \in Seq(J!Entry)
        /\ b = [source |-> b.source, undo |-> b.undo, redo |-> b.redo]
    BY DEF JournalState
  <2>3. CASE handler.action = "undo"
    <3>1. /\ Len(b.undo) > 0 /\ J!Newest(b.undo).after = b.source
          /\ undo = J!Front(b.undo) /\ redo = Append(b.redo, J!Newest(b.undo))
      BY <2>1, <2>3 DEF Taken
    <3>2. J!Newest(b.undo) \in J!Entry /\ Append(undo, J!Newest(b.undo)) = b.undo
      BY <2>2, <3>1, TakeAndPut
    <3>3. J!Front(redo) = b.redo /\ J!Newest(redo) = J!Newest(b.undo)
      BY <2>2, <3>1, <3>2, PutAndTake
    <3>4. /\ redo' = J!Front(redo) /\ undo' = Append(undo, J!Newest(redo))
          /\ source' = J!Newest(redo).after
      BY <1>1, <2>3 DEF J!Redo
    <3> QED BY <2>1, <2>2, <3>1, <3>2, <3>3, <3>4 DEF JournalNow
  <2>4. CASE handler.action = "redo"
    <3>1. /\ Len(b.redo) > 0 /\ J!Newest(b.redo).before = b.source
          /\ redo = J!Front(b.redo) /\ undo = Append(b.undo, J!Newest(b.redo))
      BY <2>1, <2>4 DEF Taken
    <3>2. J!Newest(b.redo) \in J!Entry /\ Append(redo, J!Newest(b.redo)) = b.redo
      BY <2>2, <3>1, TakeAndPut
    <3>3. J!Front(undo) = b.undo /\ J!Newest(undo) = J!Newest(b.redo)
      BY <2>2, <3>1, <3>2, PutAndTake
    <3>4. /\ undo' = J!Front(undo) /\ redo' = Append(redo, J!Newest(undo))
          /\ source' = J!Newest(undo).before
      BY <1>1, <2>4 DEF J!Undo
    <3> QED BY <2>1, <2>2, <3>1, <3>2, <3>3, <3>4 DEF JournalNow
  <2> QED BY <1>5, <2>3, <2>4
<1>6. HandlerFits'
  BY <1>1, <1>3 DEF HandlerFits, ReadingFile, Writing
<1>7. JournalFits'
  BY <1>3, <1>5 DEF JournalFits, Writing
<1> QED BY <1>1, <1>3, <1>4, <1>6, <1>7, JournalSteps

(* What happens to the file and the machine beside the handler.            *)
LEMMA OtherSaves ==
  ASSUME HistInv, NEW content \in Content, ExternalWrite(content)
  PROVE  HistInv'
<1>1. /\ handler \in Handler /\ external' \in 0 .. MaxExternal /\ crashes' = crashes
      /\ onDisk' = content /\ settled' = content /\ past' = past \cup {content.text}
      /\ UNCHANGED journal /\ content.text \in FileTexts
  BY HistoryConstants DEF ExternalWrite, HistInv, HistoryTyped, Content
<1>2. PICK raced \in BOOLEAN : raced = (handler.raced \/ handler.phase = "rename")
  OBVIOUS
<1>3. PICK h : h = [handler EXCEPT !.raced = raced]
  OBVIOUS
<1>4. /\ handler' = h /\ h \in Handler /\ h.phase = handler.phase /\ h.action = handler.action
      /\ h.expected = handler.expected /\ h.read = handler.read /\ h.base = handler.base
      /\ h.after = handler.after /\ h.temp = handler.temp /\ h.flushed = handler.flushed
      /\ h.before = handler.before /\ h.raced = raced
  BY <1>1, <1>2, <1>3 DEF ExternalWrite, Handler
<1>5. HistoryTyped'
  BY <1>1, <1>4 DEF HistInv, HistoryTyped, J!TypeOK, journal
<1>6. FileInv'
  BY <1>1 DEF FileInv
<1>7. HandlerFits'
  BY <1>1, <1>2, <1>4 DEF HistInv, HandlerFits, ReadingFile, Writing
<1>8. JournalFits'
  BY <1>1, <1>4 DEF HistInv, JournalFits, Taken, JournalNow, Writing, journal
<1>9. OffersWereOnDisk'
  BY <1>1 DEF HistInv, OffersWereOnDisk, OfferedTexts, journal
<1> QED BY <1>5, <1>6, <1>7, <1>8, <1>9 DEF HistInv

LEMMA Crashes ==
  ASSUME HistInv, Crash
  PROVE  HistInv'
<1>1. handler.phase = "sync" => handler.flushed
  BY DEF HistInv, HandlerFits
<1>2. onDisk' \in {onDisk, settled}
  BY <1>1 DEF Crash
<1>3. /\ onDisk' \in Content /\ onDisk'.text \in past /\ settled' = onDisk' /\ past' = past
      /\ onDisk'.text \in FileTexts /\ onDisk' # Torn
  BY <1>2, HistoryConstants DEF Crash, HistInv, FileInv, Content
<1>4. NoHandler \in Handler /\ NoHandler.phase = "idle" /\ NoHandler.action = "list" /\ NoHandler.before = NoContent
  BY HistoryConstants DEF NoHandler, Handler, HandlerPhases, Actions
<1>5. crashes' \in 0 .. MaxCrashes
  BY HistoryConstants DEF Crash, HistInv, HistoryTyped
<1>6. J!TypeOK'
  BY <1>3 DEF Crash, J!TypeOK
<1>7. HistoryTyped'
  BY <1>3, <1>4, <1>5, <1>6 DEF Crash, HistInv, HistoryTyped
<1>8. FileInv'
  BY <1>3 DEF FileInv
<1>9. HandlerFits' /\ JournalFits'
  BY <1>4 DEF Crash, HandlerFits, JournalFits, ReadingFile, Writing
<1> QED BY <1>7, <1>8, <1>9 DEF Crash, HistInv, OffersWereOnDisk

LEMMA HistoryInvKept == HistInv /\ [HistoryNext]_historyVars => HistInv'
<1> SUFFICES ASSUME HistInv, [HistoryNext]_historyVars PROVE HistInv'
  OBVIOUS
<1>1. CASE UNCHANGED historyVars
  <2>1. UNCHANGED <<handler, journal, stored, environment, past>>
    BY <1>1 DEF historyVars
  <2>2. handler' \in Handler
    BY <2>1 DEF HistInv, HistoryTyped
  <2>3. HandlerFits'
    BY <2>1 DEF HistInv, HandlerFits, stored
  <2>4. JournalFits'
    BY <2>1 DEF HistInv, JournalFits, Taken, JournalNow, journal
  <2> QED BY <2>1, <2>2, <2>3, <2>4, HandlerSteps
<1>2. CASE HistoryNext
  <2>1. ASSUME NEW action \in Actions, NEW expected \in FileTexts \cup {NoContent}, NEW group \in Groups,
               Post(action, expected, group)
        PROVE  HistInv'
    BY <2>1, Posts
  <2>2. "edit" \in Actions /\ "undo" \in Actions /\ "redo" \in Actions /\ "list" \in Actions
        /\ NoGroup \in Groups
    BY HistoryConstants DEF Actions
  <2> QED BY <1>2, <2>1, <2>2, Currents, Lists, Commits, Renames, Syncs, Opens, Takes, Records,
             Compensates, OtherSaves, Crashes
          DEF HistoryNext
<1> QED BY <1>1, <1>2

LEMMA HistAlways == HistorySpec => []HistInv
BY PostStarts, HistoryInvKept, PTL DEF HistorySpec

(* Whatever step of an edit, undo or redo a crash or a failure hits, the   *)
(* file is a complete text that was meant to be there (replaceStudioSource *)
(* flushes the temporary file before it takes the name).                   *)
THEOREM FileStaysWhole == HistorySpec => []FileIsWhole
<1>1. HistInv => FileIsWhole
  BY HistoryConstants DEF HistInv, FileInv, FileIsWhole, Content
<1> QED BY <1>1, HistAlways, PTL

(* The journal offers only texts that the file has held, and an undo or    *)
(* redo that fails is taken back entirely (the edit and history handlers). *)
THEOREM HistoryMatchesTheDisk == HistorySpec => []HistoryWasOnDisk
<1>1. HistInv => HistoryWasOnDisk
  BY DEF HistInv, JournalFits, HistoryWasOnDisk, FailedHistoryActionUndone
<1> QED BY <1>1, HistAlways, PTL

(* Only the rename takes a handler from "rename" to "sync".                *)
LEMMA OnlyRenameReplaces ==
  ASSUME HistInv, [HistoryNext]_historyVars, handler.phase = "rename", handler'.phase = "sync"
  PROVE  /\ onDisk' = handler.temp /\ UNCHANGED journal
         /\ handler.action # "list"
         /\ handler.temp.text = handler.after /\ handler.temp.rest = handler.base.rest
         /\ handler.base.text = handler.read.text /\ handler.read.text = handler.expected
         /\ ~handler.raced => onDisk = handler.base
<1>1. /\ handler.action # "list"
      /\ handler.temp.text = handler.after /\ handler.temp.rest = handler.base.rest
      /\ handler.base.text = handler.read.text /\ handler.read.text = handler.expected
      /\ ~handler.raced => onDisk = handler.base
  BY DEF HistInv, HandlerFits, ReadingFile, Writing
<1>2. handler \in Handler
  BY DEF HistInv, HistoryTyped
<1>3. handler' # handler
  OBVIOUS
<1>4. NoHandler.phase = "idle"
  BY DEF NoHandler
<1>5. CASE Rename
  <2>1. ~CASFails
    BY <1>2 DEF CASFails, Handler
  <2> QED BY <1>1, <1>5, <2>1 DEF Rename
<1>6. ASSUME NEW content \in Content, ExternalWrite(content) PROVE FALSE
  BY <1>2, <1>6 DEF ExternalWrite, Handler
<1>7. CASE Crash
  BY <1>4, <1>7 DEF Crash
<1>8. Rename \/ Crash \/ \E content \in Content : ExternalWrite(content)
  BY <1>3 DEF HistoryNext, historyVars, Post, ReadFile, OpenHistory, Mutate, TakeEntry, List, Record,
       CheckFile, Stage, Flush, Recheck, SyncDirectory, Compensate, Answer
<1> QED BY <1>5, <1>6, <1>7, <1>8

(* An edit, undo or redo replaces only the content it was decided on,      *)
(* unless another editor saves between the last comparison and the rename  *)
(* (writeStudioSourceCAS, replaceStudioSource).                            *)
THEOREM OnlyWhatWasSeenIsReplaced == HistorySpec => ReplacesWhatTheCallerSaw
<1>1. HistInv /\ [HistoryNext]_historyVars =>
        [handler.phase = "rename" /\ handler'.phase = "sync" /\ ~handler.raced
           => onDisk.text = handler.expected /\ onDisk'.rest = onDisk.rest]_historyVars
  BY OnlyRenameReplaces
<1> QED BY <1>1, HistAlways, PTL DEF HistorySpec, ReplacesWhatTheCallerSaw

(* An undo takes the file back over exactly the transition that it took    *)
(* from the journal, a redo forward over it.                               *)
THEOREM EachActionMovesOneEntry == HistorySpec => HistoryMovesTheFileOneEntry
<1>1. HistInv /\ [HistoryNext]_historyVars =>
        [handler.phase = "rename" /\ handler'.phase = "sync" /\ ~handler.raced =>
           /\ handler.action = "undo" =>
                redo # <<>> /\ J!Newest(redo).after = onDisk.text /\ J!Newest(redo).before = onDisk'.text
           /\ handler.action = "redo" =>
                undo # <<>> /\ J!Newest(undo).before = onDisk.text /\ J!Newest(undo).after = onDisk'.text]_historyVars
  <2> SUFFICES ASSUME HistInv, [HistoryNext]_historyVars, handler.phase = "rename", handler'.phase = "sync",
                      ~handler.raced, handler.action \in {"undo", "redo"}
               PROVE  /\ handler.action = "undo" =>
                           redo # <<>> /\ J!Newest(redo).after = onDisk.text
                           /\ J!Newest(redo).before = onDisk'.text
                      /\ handler.action = "redo" =>
                           undo # <<>> /\ J!Newest(undo).before = onDisk.text
                           /\ J!Newest(undo).after = onDisk'.text
    OBVIOUS
  <2>1. onDisk.text = handler.read.text /\ onDisk'.text = handler.after
    BY OnlyRenameReplaces
  <2>2. PICK b \in JournalState :
          Taken(b) /\ b.source = handler.read.text /\ handler.after = source
    BY DEF HistInv, JournalFits, Writing
  <2>3. b.undo \in Seq(J!Entry) /\ b.redo \in Seq(J!Entry)
    BY DEF JournalState
  <2>4. CASE handler.action = "undo"
    <3>1. /\ Len(b.undo) > 0 /\ J!Newest(b.undo).after = b.source
          /\ redo = Append(b.redo, J!Newest(b.undo)) /\ source = J!Newest(b.undo).before
      BY <2>2, <2>4 DEF Taken
    <3>2. J!Newest(b.undo) \in J!Entry
      BY <2>3, <3>1, TakeAndPut
    <3>3. Len(redo) > 0 /\ J!Newest(redo) = J!Newest(b.undo)
      BY <2>3, <3>1, <3>2, PutAndTake
    <3> QED BY <2>1, <2>2, <2>4, <3>1, <3>3
  <2>5. CASE handler.action = "redo"
    <3>1. /\ Len(b.redo) > 0 /\ J!Newest(b.redo).before = b.source
          /\ undo = Append(b.undo, J!Newest(b.redo)) /\ source = J!Newest(b.redo).after
      BY <2>2, <2>5 DEF Taken
    <3>2. J!Newest(b.redo) \in J!Entry
      BY <2>3, <3>1, TakeAndPut
    <3>3. Len(undo) > 0 /\ J!Newest(undo) = J!Newest(b.redo)
      BY <2>3, <3>1, <3>2, PutAndTake
    <3> QED BY <2>1, <2>2, <2>5, <3>1, <3>3
  <2> QED BY <2>4, <2>5
<1> QED BY <1>1, HistAlways, PTL DEF HistorySpec, HistoryMovesTheFileOneEntry
=============================================================================

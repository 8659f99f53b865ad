--------------------------- MODULE StudioSnapshots ---------------------------
(***************************************************************************)
(* The snapshot cache of the Studio server (cmd/paper-studio/main.go).     *)
(* Handlers call current() concurrently: it copies the asset catalog,      *)
(* reads the source file, looks into the cache, plans outside the mutex    *)
(* and publishes what it planned.  Meanwhile an editor outside the server  *)
(* writes the source and its import, the resource panel replaces the       *)
(* catalog, and a client may hang up, which cancels the planning.          *)
(*                                                                         *)
(* A source stands for its text and its SHA-256; an import for the one     *)
(* imported file's text and digest.  A source revision is the source with, *)
(* when it imports, the import it was compiled with.                       *)
(***************************************************************************)
EXTENDS Naturals, FiniteSets

CONSTANTS
  Sources,        \* texts of the main file
  Importing,      \* those that import the other file
  Plannable,      \* those that compile and lay out
  Imports,        \* texts of the imported file
  Catalogs,       \* asset catalogs
  Scenarios,      \* scenario names, Default included
  Default,        \* no scenario selected
  Requests,       \* requests that may be in flight together
  CacheLimit,     \* studioScenarioCacheLimit
  MaxWrites,      \* bound of the model: writes by others
  None

ASSUME SnapshotConstants ==
  /\ Importing \subseteq Sources /\ Plannable \subseteq Sources
  /\ Default \in Scenarios
  /\ CacheLimit \in Nat \ {0} /\ MaxWrites \in Nat
  /\ None \notin Sources \cup Imports \cup Catalogs \cup Scenarios

VARIABLES
  file, import,  \* what is on disk
  writes,        \* writes by others so far
  catalog,       \* the server's asset catalog
  snapshots,     \* the cache, by scenario
  sourceHash,    \* the digest last seen, None if hasSourceHash is false
  previous,      \* the detached plan of the previous source
  request,       \* the state of each call of current()
  overlapped     \* history: the catalog was replaced under a call in flight

vars == <<file, import, writes, catalog, snapshots, sourceHash, previous, request, overlapped>>

disk == <<file, import, writes>>
resources == <<catalog, overlapped>>
cache == <<snapshots, sourceHash, previous>>

(* A plan is a function of what it was computed from.                      *)
Plan == [source : Sources, import : Imports \cup {None},
         catalog : Catalogs, scenario : Scenarios]

(* ok says whether there are pages; a snapshot without pages carries the   *)
(* inputs of the attempt.                                                  *)
Snapshot == [plan : Plan, ok : BOOLEAN, baseline : Plan \cup {None}]

Phases == {"idle", "read", "check", "watch", "plan", "publish", "done"}

(* seen is history: the imports the disk held since the request began.     *)
Request == [phase : Phases, scenario : Scenarios, catalog : Catalogs \cup {None},
            source : Sources \cup {None}, baseline : Plan \cup {None},
            result : Snapshot \cup {None}, seen : SUBSET Imports]

Idle == [phase |-> "idle", scenario |-> Default, catalog |-> None, source |-> None,
         baseline |-> None, result |-> None, seen |-> {}]

TypeOK ==
  /\ file \in Sources /\ import \in Imports /\ writes \in 0 .. MaxWrites
  /\ catalog \in Catalogs
  /\ snapshots \in [Scenarios -> Snapshot \cup {None}]
  /\ sourceHash \in Sources \cup {None}
  /\ previous \in Plan \cup {None}
  /\ request \in [Requests -> Request]
  /\ overlapped \in BOOLEAN

Init ==
  /\ file \in Sources /\ import \in Imports /\ writes = 0
  /\ catalog \in Catalogs
  /\ snapshots = [s \in Scenarios |-> None]
  /\ sourceHash = None /\ previous = None
  /\ request = [r \in Requests |-> Idle]
  /\ overlapped = FALSE
-----------------------------------------------------------------------------
(* The steps of current().                                                 *)
Begin(r, scenario) ==
  /\ request[r].phase = "idle"
  /\ request' = [request EXCEPT ![r] =
       [Idle EXCEPT !.phase = "read", !.scenario = scenario, !.catalog = catalog,
                    !.seen = {import}]]
  /\ UNCHANGED <<disk, resources, cache>>

ReadSource(r) ==
  /\ request[r].phase = "read"
  /\ request' = [request EXCEPT ![r] = [@ EXCEPT !.source = file, !.phase = "check"]]
  /\ UNCHANGED <<disk, resources, cache>>

(* A usable plan is detached when its source is replaced.                  *)
Detached(snapshot, otherwise) ==
  IF snapshot # None /\ snapshot.ok THEN snapshot.plan ELSE otherwise

Cleared(r) ==
  IF sourceHash # request[r].source
  THEN [s \in Scenarios |-> None]
  ELSE snapshots

(* Mutant: the digest of a cached snapshot is not compared.                *)
HitAny(cached, source) == cached # None

Hit(cached, source) == cached # None /\ cached.plan.source = source

(* The locked part after the read: notice a new source, then answer from   *)
(* the cache, compare the imports, or plan.                                *)
Check(r) ==
  LET source   == request[r].source
      scenario == request[r].scenario
      changed  == sourceHash # source
      cached   == Cleared(r)[scenario]
      hit      == Hit(cached, source)
  IN
  /\ request[r].phase = "check"
  /\ snapshots' = Cleared(r)
  /\ previous' = IF changed THEN Detached(snapshots[scenario], None) ELSE previous
  /\ sourceHash' = source
  /\ request' = [request EXCEPT ![r] = [@ EXCEPT
       !.phase = IF ~hit THEN "plan" ELSE IF source \in Importing THEN "watch" ELSE "done",
       !.result = IF hit THEN cached ELSE None,
       !.baseline = previous']]
  /\ UNCHANGED <<disk, resources>>

SourceRevision(plan) == <<plan.source, plan.import>>

(* Outside the mutex, the imports of a cached snapshot are read again.     *)
Watch(r) ==
  /\ request[r].phase = "watch"
  /\ request' = [request EXCEPT ![r] = [@ EXCEPT
       !.phase = IF <<request[r].source, import>> = SourceRevision(request[r].result.plan)
                 THEN "done" ELSE "plan"]]
  /\ UNCHANGED <<disk, resources, cache>>

(* Planning, with the catalog copied at the start.  A cancelled context    *)
(* yields no pages whatever the source, before or after the import was     *)
(* read.                                                                   *)
PlanSource(r, cancelled) ==
  /\ request[r].phase = "plan"
  /\ \E i \in IF request[r].source \notin Importing THEN {None}
             ELSE IF cancelled THEN {import, None} ELSE {import} :
       request' = [request EXCEPT ![r] = [@ EXCEPT
         !.phase = "publish",
         !.result =
           [plan |-> [source |-> request[r].source, import |-> i,
                      catalog |-> request[r].catalog, scenario |-> request[r].scenario],
            ok |-> request[r].source \in Plannable /\ ~cancelled,
            baseline |-> request[r].baseline]]]
  /\ UNCHANGED <<disk, resources, cache>>

Occupied == {s \in Scenarios : snapshots[s] # None}

(* Mutant: the scenario limit is not tested.                               *)
CacheableUnlimited(snapshot) ==
  /\ snapshot.plan.source \in Importing => snapshot.ok
  /\ snapshot.plan.scenario = Default \/ snapshot.ok

Cacheable(snapshot) ==
  /\ snapshot.plan.source \in Importing => snapshot.ok
  /\ snapshots[snapshot.plan.scenario] # None \/ Cardinality(Occupied) < CacheLimit
  /\ snapshot.plan.scenario = Default \/ snapshot.ok

(* The locked part at the end: another call may have published meanwhile.  *)
Publish(r) ==
  LET scenario == request[r].scenario
      cached   == snapshots[scenario]
      twin     == /\ cached # None
                  /\ SourceRevision(cached.plan) = SourceRevision(request[r].result.plan)
      snapshot == [request[r].result EXCEPT !.baseline = Detached(cached, @)]
  IN
  /\ request[r].phase = "publish"
  /\ previous' = IF twin THEN previous ELSE Detached(cached, previous)
  /\ snapshots' = IF ~twin /\ Cacheable(snapshot)
                  THEN [snapshots EXCEPT ![scenario] = snapshot]
                  ELSE snapshots
  /\ request' = [request EXCEPT ![r] = [@ EXCEPT
       !.phase = "done", !.result = IF twin THEN cached ELSE snapshot]]
  /\ UNCHANGED <<disk, resources, sourceHash>>

(* The source cannot be read, or the plan cannot be summarised: the call   *)
(* ends with an error and publishes nothing.                               *)
Fail(r) ==
  /\ request[r].phase \in {"read", "plan"}
  /\ request' = [request EXCEPT ![r] = Idle]
  /\ UNCHANGED <<disk, resources, cache>>

Reply(r) ==
  /\ request[r].phase = "done"
  /\ request' = [request EXCEPT ![r] = Idle]
  /\ UNCHANGED <<disk, resources, cache>>
-----------------------------------------------------------------------------
InFlight == {r \in Requests : request[r].phase \notin {"idle", "done"}}

(* Mutant: neither the snapshots nor the digest are forgotten.             *)
SetResourcesKeepingSnapshots(c) ==
  /\ writes < MaxWrites
  /\ writes' = writes + 1
  /\ catalog' = c
  /\ overlapped' = (overlapped \/ InFlight # {})
  /\ UNCHANGED <<file, import, previous, request, snapshots, sourceHash>>

(* setProjectResources; readers do not hold the mutex that serialises it   *)
(* with edits.                                                             *)
SetProjectResources(c) ==
  /\ writes < MaxWrites
  /\ writes' = writes + 1
  /\ catalog' = c
  /\ overlapped' = (overlapped \/ InFlight # {})
  /\ snapshots' = [s \in Scenarios |-> None]
  /\ sourceHash' = None
  /\ UNCHANGED <<file, import, previous, request>>

(* Another program saves the source or the import.                         *)
WriteSource(s) ==
  /\ writes < MaxWrites
  /\ writes' = writes + 1
  /\ file' = s
  /\ UNCHANGED <<import, resources, cache, request>>

WriteImport(i) ==
  /\ writes < MaxWrites
  /\ writes' = writes + 1
  /\ import' = i
  /\ request' = [r \in Requests |->
       IF request[r].phase = "idle" THEN request[r]
       ELSE [request[r] EXCEPT !.seen = @ \cup {i}]]
  /\ UNCHANGED <<file, resources, cache>>

Next ==
  \/ \E r \in Requests :
       \/ \E s \in Scenarios : Begin(r, s)
       \/ ReadSource(r)
       \/ Check(r)
       \/ Watch(r)
       \/ \E cancelled \in BOOLEAN : PlanSource(r, cancelled)
       \/ Publish(r)
       \/ Fail(r)
       \/ Reply(r)
  \/ \E c \in Catalogs \ {catalog} : SetProjectResources(c)
  \/ \E s \in Sources \ {file} : WriteSource(s)
  \/ \E i \in Imports \ {import} : WriteImport(i)

Spec == Init /\ [][Next]_vars
-----------------------------------------------------------------------------
Done(r) == request[r].phase = "done"

Retained == {snapshots[s] : s \in Occupied}

(* A reply describes the source its own request read, for the scenario it  *)
(* asked for, and an import that was on disk while it ran: however slow    *)
(* other requests fill or clear the cache, none is answered with another   *)
(* source's plan.                                                          *)
ReplyDescribesRead ==
  \A r \in Requests : Done(r) =>
    /\ request[r].result.plan.source = request[r].source
    /\ request[r].result.plan.scenario = request[r].scenario
    /\ request[r].source \in Importing /\ request[r].result.ok
         => request[r].result.plan.import \in request[r].seen

(* The state has its types, and the cache never holds more scenarios than  *)
(* its limit, although the limit is tested after a planning that other     *)
(* requests overlap.                                                       *)
CacheBounded == TypeOK /\ Cardinality(Occupied) <= CacheLimit

(* A catalog that is only ever replaced while no planning is in flight is  *)
(* the catalog of every retained snapshot.  A planning in flight publishes *)
(* with the catalog it copied before, and the code keeps that snapshot.    *)
QuietCatalogChangeSeen ==
  ~overlapped => \A snapshot \in Retained : snapshot.plan.catalog = catalog
=============================================================================

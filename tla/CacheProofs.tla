---------------------------- MODULE CacheProofs -----------------------------
(***************************************************************************)
(* Proofs about the caches that processes and documents share.             *)
(*                                                                         *)
(* PackageCache, for any number of callers, processes, packages, files and *)
(* stripes: a published tree is complete, also after a power loss at any   *)
(* moment, and the installs of one process agree.                          *)
(*                                                                         *)
(* ResourceCaches, for any number of documents, files and versions: the    *)
(* byte counts and eviction queues stay true of the entries, and fonts and *)
(* loaded resources are no older than the keys they were looked up with.   *)
(***************************************************************************)
EXTENDS PackageCache, ResourceCaches, FiniteSetTheorems, WellFoundedInduction, TLAPS


(* A tree whose every file is flushed, and its names with it.              *)
Durable(tree) ==
  /\ tree \in Tree
  /\ \A n \in Names : tree.content[n] = "synced" /\ n \in tree.listed

(* How far a stage has come, by the phase of its install.                  *)
StageFits(phase, tree) ==
  /\ phase = "write" =>
       tree \in Tree /\ \A n \in Names : tree.content[n] \in {"absent", "synced"}
  /\ phase \in {"manifest", "sync", "publish"} =>
       tree \in Tree /\ \A n \in Files : tree.content[n] = "synced"
  /\ phase \in {"sync", "publish"} => tree.content[Manifest] = "synced"
  /\ phase = "publish" => tree.listed = Names

DurableInv ==
  /\ TypeOK
  /\ \A p \in Packages : base[p] = NoTree \/ Durable(base[p])
  /\ \A c \in Callers : StageFits(call[c].phase, stage[c])

-----------------------------------------------------------------------------
LEMMA IdleCall == Idle \in Call /\ Idle.phase = "idle" /\ \A t : StageFits("idle", t)
BY DEF Idle, Call, Phases, LookupPhases, StageFits

LEMMA Started ==
  ASSUME NEW p \in Packages
  PROVE  /\ [Idle EXCEPT !.phase = "lookup", !.package = p] \in Call
         /\ [Idle EXCEPT !.phase = "lookup", !.package = p].phase = "lookup"
         /\ [Idle EXCEPT !.phase = "wait", !.package = p, !.install = TRUE] \in Call
         /\ [Idle EXCEPT !.phase = "wait", !.package = p, !.install = TRUE].phase = "wait"
BY DEF Idle, Call, Phases, LookupPhases

LEMMA Gone ==
  ASSUME NEW k \in Call, NEW phase \in Phases
  PROVE  LET n == [k EXCEPT !.phase = phase, !.reading = "manifest"] IN
         /\ n \in Call /\ n.phase = phase /\ n.package = k.package /\ n.install = k.install
         /\ n.cancelled = k.cancelled /\ n.errors = k.errors /\ n.reading = "manifest"
BY DEF Call

LEMMA Ended ==
  ASSUME NEW k \in Call, NEW errors \in SUBSET {"cancelled", "corrupt", "io"}
  PROVE  LET n == [k EXCEPT !.phase = "done", !.errors = errors] IN
         /\ n \in Call /\ n.phase = "done" /\ n.package = k.package /\ n.install = k.install
         /\ n.cancelled = k.cancelled /\ n.errors = errors
BY DEF Call, Phases, LookupPhases

CallTypes ==
  /\ process \in [Callers -> Processes]
  /\ lock \in [Processes -> [Stripes -> Callers \cup {None}]]

(* A step of one caller that leaves what is published alone.               *)
LEMMA CallerSteps ==
  ASSUME DurableInv, NEW c \in Callers, NEW k \in Call, NEW t \in Tree \cup {NoTree},
         call' = [call EXCEPT ![c] = k], stage' = [stage EXCEPT ![c] = t],
         StageFits(k.phase, t), UNCHANGED base, CallTypes'
  PROVE  DurableInv'
<1>1. /\ call'[c] = k /\ stage'[c] = t
      /\ \A d \in Callers \ {c} : call'[d] = call[d] /\ stage'[d] = stage[d]
  BY DEF DurableInv, TypeOK
<1>2. TypeOK'
  BY DEF DurableInv, TypeOK, CallTypes
<1>3. ASSUME NEW d \in Callers PROVE StageFits(call[d].phase, stage[d])'
  BY <1>1 DEF DurableInv, StageFits
<1> QED BY <1>2, <1>3 DEF DurableInv, Durable

LEMMA Goes ==
  ASSUME DurableInv, NEW c \in Callers, NEW phase \in Phases, GoTo(c, phase),
         NEW t \in Tree \cup {NoTree}, stage' = [stage EXCEPT ![c] = t],
         StageFits(phase, t), UNCHANGED base, CallTypes'
  PROVE  DurableInv'
<1>1. PICK k : k = [call[c] EXCEPT !.phase = phase, !.reading = "manifest"]
  OBVIOUS
<1>2. call[c] \in Call
  BY DEF DurableInv, TypeOK
<1>3. k \in Call /\ k.phase = phase
  BY <1>1, <1>2, Gone
<1>4. call' = [call EXCEPT ![c] = k]
  BY <1>1 DEF GoTo
<1> QED BY <1>3, <1>4, CallerSteps

LEMMA Finishes ==
  ASSUME DurableInv, NEW c \in Callers, NEW errors \in SUBSET {"cancelled", "corrupt", "io"},
         Finish(c, errors), UNCHANGED <<stage, base>>, CallTypes'
  PROVE  DurableInv'
<1>1. PICK k : k = [call[c] EXCEPT !.phase = "done", !.errors = errors]
  OBVIOUS
<1>2. call[c] \in Call /\ stage[c] \in Tree \cup {NoTree} /\ stage' = [stage EXCEPT ![c] = stage[c]]
  BY DEF DurableInv, TypeOK
<1>3. k \in Call /\ k.phase = "done"
  BY <1>1, <1>2 DEF Call, Phases, LookupPhases
<1>4. call' = [call EXCEPT ![c] = k]
  BY <1>1 DEF Finish
<1>5. StageFits(k.phase, stage[c])
  BY <1>3 DEF StageFits
<1> QED BY <1>2, <1>3, <1>4, <1>5, CallerSteps

(* A step of a lookup.                                                     *)
LEMMA LooksUp ==
  ASSUME DurableInv, NEW c \in Callers,
         ReadManifest(c) \/ StatDirectory(c) \/ ReadFiles(c) \/ ReadError(c), UNCHANGED process
  PROVE  DurableInv'
<1>1. CallTypes' /\ UNCHANGED <<stage, base, lock>> /\ call[c].phase \in LookupPhases
      /\ call[c] \in Call /\ stage[c] \in Tree \cup {NoTree} /\ stage' = [stage EXCEPT ![c] = stage[c]]
  BY DEF ReadManifest, StatDirectory, ReadFiles, ReadError, DurableInv, TypeOK, CallTypes
<1>2. ASSUME NEW errors \in SUBSET {"cancelled", "corrupt", "io"}, Finish(c, errors)
      PROVE  DurableInv'
  BY <1>1, <1>2, Finishes
<1>3. ASSUME ReadFails(c) PROVE DurableInv'
  BY <1>2, <1>3 DEF ReadFails
<1>4. ASSUME GoTo(c, "stage") PROVE DurableInv'
  <2>1. "stage" \in Phases /\ StageFits("stage", stage[c])
    BY DEF Phases, StageFits
  <2> QED BY <1>1, <1>4, <2>1, Goes
<1>5. ASSUME NEW reading \in {"directory", "files"}, call' = [call EXCEPT ![c].reading = reading]
      PROVE  DurableInv'
  <2>1. PICK k : k = [call[c] EXCEPT !.reading = reading]
    OBVIOUS
  <2>2. k \in Call /\ k.phase = call[c].phase
    BY <1>1, <2>1 DEF Call
  <2>3. StageFits(k.phase, stage[c])
    BY <1>1, <2>2 DEF StageFits, LookupPhases
  <2> QED BY <1>1, <1>5, <2>1, <2>2, <2>3, CallerSteps
<1>6. CASE ReadManifest(c)
  BY <1>2, <1>3, <1>5, <1>6 DEF ReadManifest
<1>7. CASE StatDirectory(c)
  BY <1>1, <1>2, <1>4, <1>7 DEF StatDirectory, Missing, LookupPhases
<1>8. CASE ReadFiles(c)
  BY <1>2, <1>3, <1>8 DEF ReadFiles, Found
<1>9. CASE ReadError(c)
  BY <1>2, <1>9 DEF ReadError
<1> QED BY <1>6, <1>7, <1>8, <1>9

LEMMA WrittenFits ==
  ASSUME NEW t \in Tree, NEW n \in Names
  PROVE  /\ Written(t, n) \in Tree /\ Written(t, n).content[n] = "synced"
         /\ \A f \in Names \ {n} : Written(t, n).content[f] = t.content[f]
BY DEF Written, Tree

LEMMA ListedFits ==
  ASSUME NEW t \in Tree, NEW S \in SUBSET Names
  PROVE  LET u == [t EXCEPT !.listed = S] IN
         u \in Tree /\ u.content = t.content /\ u.listed = S
BY DEF Tree

(* The steps of an install that has its lock.                              *)
LEMMA Stages ==
  ASSUME DurableInv, NEW c \in Callers, UNCHANGED process,
         \/ CreateStage(c) \/ (\E f \in Files : WriteFile(c, f)) \/ SyncDirectories(c)
         \/ WriteManifest(c) \/ SyncStage(c) \/ SyncProject(c) \/ Fail(c)
  PROVE  DurableInv'
<1>1. CallTypes' /\ UNCHANGED <<base, lock>> /\ call[c] \in Call
      /\ stage[c] \in Tree \cup {NoTree} /\ stage = [stage EXCEPT ![c] = stage[c]]
      /\ StageFits(call[c].phase, stage[c])
  BY DEF CreateStage, WriteFile, SyncDirectories, WriteManifest, SyncStage, SyncProject, Fail,
         DurableInv, TypeOK, CallTypes
<1>2. ASSUME NEW errors \in {{"cancelled"}, {"io"}}, Finish(c, errors), UNCHANGED stage
      PROVE  DurableInv'
  BY <1>1, <1>2, Finishes
<1>3. CASE CreateStage(c)
  <2>1. EmptyTree \in Tree /\ StageFits("write", EmptyTree) /\ "write" \in Phases
    BY DEF EmptyTree, Tree, StageFits, Phases
  <2> QED BY <1>1, <1>3, <2>1, Goes DEF CreateStage
<1>4. ASSUME NEW f \in Files, WriteFile(c, f) PROVE DurableInv'
  <2>1. CASE call[c].cancelled
    BY <1>2, <1>4, <2>1 DEF WriteFile
  <2>2. CASE ~call[c].cancelled
    <3>1. PICK t : t = Written(stage[c], f)
      OBVIOUS
    <3>2. /\ call[c].phase = "write" /\ stage' = [stage EXCEPT ![c] = t]
          /\ call' = [call EXCEPT ![c] = call[c]]
      BY <1>4, <2>2, <3>1 DEF WriteFile, DurableInv, TypeOK
    <3>3. stage[c] \in Tree /\ \A n \in Names : stage[c].content[n] \in {"absent", "synced"}
      BY <1>1, <3>2 DEF StageFits
    <3>4. f \in Names
      BY DEF Names
    <3>5. t \in Tree /\ \A n \in Names : t.content[n] \in {"absent", "synced"}
      BY <3>1, <3>3, <3>4, WrittenFits
    <3>6. StageFits(call[c].phase, t)
      BY <3>2, <3>5 DEF StageFits
    <3> QED BY <1>1, <3>2, <3>5, <3>6, CallerSteps
  <2> QED BY <2>1, <2>2
<1>5. CASE SyncDirectories(c)
  <2>1. PICK t : t = [stage[c] EXCEPT !.listed = Files]
    OBVIOUS
  <2>2. /\ call[c].phase = "write" /\ stage' = [stage EXCEPT ![c] = t] /\ GoTo(c, "manifest")
        /\ \A f \in Files : stage[c].content[f] # "absent"
    BY <1>5, <2>1 DEF SyncDirectories
  <2>3. stage[c] \in Tree /\ \A n \in Names : stage[c].content[n] \in {"absent", "synced"}
    BY <1>1, <2>2 DEF StageFits
  <2>4. t \in Tree /\ t.content = stage[c].content
    BY <2>1, <2>3 DEF Tree, Names
  <2>5. \A n \in Files : t.content[n] = "synced"
    BY <2>2, <2>3, <2>4 DEF Names
  <2>6. StageFits("manifest", t) /\ "manifest" \in Phases
    BY <2>4, <2>5 DEF StageFits, Phases
  <2> QED BY <1>1, <2>2, <2>4, <2>6, Goes
<1>6. CASE WriteManifest(c)
  <2>1. CASE call[c].cancelled
    BY <1>2, <1>6, <2>1 DEF WriteManifest
  <2>2. CASE ~call[c].cancelled
    <3>1. PICK t : t = Written(stage[c], Manifest)
      OBVIOUS
    <3>2. call[c].phase = "manifest" /\ stage' = [stage EXCEPT ![c] = t] /\ GoTo(c, "sync")
      BY <1>6, <2>2, <3>1 DEF WriteManifest
    <3>3. stage[c] \in Tree /\ \A n \in Files : stage[c].content[n] = "synced"
      BY <1>1, <3>2 DEF StageFits
    <3>4. Manifest \in Names /\ Files \subseteq Names
      BY DEF Names
    <3>5. t \in Tree /\ t.content[Manifest] = "synced" /\ \A n \in Files : t.content[n] = "synced"
      <4>1. PICK old : old = stage[c]
        OBVIOUS
      <4>2. /\ t \in Tree /\ t.content[Manifest] = "synced"
            /\ \A n \in Names \ {Manifest} : t.content[n] = old.content[n]
        BY <3>1, <3>3, <3>4, <4>1, WrittenFits, ZenonT(30)
      <4> QED BY <3>3, <3>4, <4>1, <4>2
    <3>6. StageFits("sync", t) /\ "sync" \in Phases
      BY <3>5 DEF StageFits, Phases
    <3> QED BY <1>1, <3>2, <3>5, <3>6, Goes
  <2> QED BY <2>1, <2>2
<1>7. CASE SyncStage(c)
  <2>1. PICK t : t = [stage[c] EXCEPT !.listed = Names]
    OBVIOUS
  <2>2. call[c].phase = "sync" /\ stage' = [stage EXCEPT ![c] = t] /\ GoTo(c, "publish")
    BY <1>7, <2>1 DEF SyncStage
  <2>3. /\ stage[c] \in Tree /\ \A n \in Files : stage[c].content[n] = "synced"
        /\ stage[c].content[Manifest] = "synced"
    BY <1>1, <2>2 DEF StageFits
  <2>4. t \in Tree /\ t.content = stage[c].content /\ t.listed = Names
    BY <2>1, <2>3 DEF Tree
  <2>5. StageFits("publish", t) /\ "publish" \in Phases
    BY <2>3, <2>4 DEF StageFits, Phases
  <2> QED BY <1>1, <2>2, <2>4, <2>5, Goes
<1>8. CASE SyncProject(c)
  <2>1. StageFits("confirm", stage[c]) /\ "confirm" \in Phases
    BY DEF StageFits, Phases, LookupPhases
  <2> QED BY <1>1, <1>8, <2>1, Goes DEF SyncProject
<1>9. CASE Fail(c)
  BY <1>2, <1>9 DEF Fail
<1> QED BY <1>3, <1>4, <1>5, <1>6, <1>7, <1>8, <1>9

LEMMA Publishes ==
  ASSUME DurableInv, NEW c \in Callers, UNCHANGED process, Publish(c)
  PROVE  DurableInv'
<1>1. CallTypes' /\ UNCHANGED lock /\ call[c] \in Call
      /\ stage[c] \in Tree \cup {NoTree} /\ stage = [stage EXCEPT ![c] = stage[c]]
      /\ call[c].phase = "publish" /\ StageFits("publish", stage[c])
  BY DEF Publish, DurableInv, TypeOK, CallTypes
<1>2. CASE call[c].cancelled
  BY <1>1, <1>2, Finishes DEF Publish
<1>3. CASE GoTo(c, "verify") /\ UNCHANGED <<base, stage>>
  <2>1. StageFits("verify", stage[c]) /\ "verify" \in Phases
    BY DEF StageFits, Phases, LookupPhases
  <2> QED BY <1>1, <1>3, <2>1, Goes
<1>4. CASE /\ base' = [base EXCEPT ![call[c].package] = stage[c]]
           /\ stage' = [stage EXCEPT ![c] = NoTree] /\ GoTo(c, "flush")
  <2>1. /\ base' = [base EXCEPT ![call[c].package] = stage[c]]
        /\ stage' = [stage EXCEPT ![c] = NoTree] /\ GoTo(c, "flush")
    BY <1>4
  <2>2. Durable(stage[c])
    BY <1>1 DEF StageFits, Durable, Names
  <2>3. base' \in [Packages -> Tree \cup {NoTree}]
        /\ \A p \in Packages : base'[p] = NoTree \/ Durable(base'[p])
    BY <2>1, <2>2 DEF DurableInv, TypeOK, Durable
  <2>4. PICK k : k = [call[c] EXCEPT !.phase = "flush", !.reading = "manifest"]
    OBVIOUS
  <2>5. k \in Call /\ k.phase = "flush" /\ call' = [call EXCEPT ![c] = k]
    BY <1>1, <2>1, <2>4 DEF Call, Phases, GoTo
  <2>6. TypeOK'
    BY <1>1, <2>1, <2>3, <2>5 DEF DurableInv, TypeOK, CallTypes
  <2>7. ASSUME NEW d \in Callers PROVE StageFits(call'[d].phase, stage'[d])
    <3>1. CASE d = c
      BY <2>5, <3>1 DEF StageFits, DurableInv, TypeOK
    <3>2. CASE d # c
      BY <2>1, <2>5, <3>2 DEF DurableInv, TypeOK
    <3> QED BY <3>1, <3>2
  <2> QED BY <2>3, <2>6, <2>7 DEF DurableInv, StageFits, Durable
<1> QED BY <1>2, <1>3, <1>4 DEF Publish

(* The steps that take a lock, wait for it or give it back.                *)
LEMMA ReleasedTyped ==
  ASSUME DurableInv, NEW c \in Callers
  PROVE  Released(c) \in [Processes -> [Stripes -> Callers \cup {None}]]
BY DEF Released, DurableInv, TypeOK

LEMMA Locks ==
  ASSUME DurableInv, NEW c \in Callers, UNCHANGED process,
         \/ (\E p \in Packages : Lookup(c, p) \/ Install(c, p)) \/ Cancel(c) \/ Acquire(c)
         \/ GiveUp(c) \/ Return(c)
  PROVE  DurableInv'
<1>1. /\ UNCHANGED base /\ call[c] \in Call /\ stage[c] \in Tree \cup {NoTree}
      /\ stage = [stage EXCEPT ![c] = stage[c]] /\ StageFits(call[c].phase, stage[c])
      /\ process \in [Callers -> Processes] /\ CallTypes
  BY DEF Lookup, Install, Cancel, Acquire, GiveUp, Return, DurableInv, TypeOK, CallTypes
<1>2. ASSUME NEW p \in Packages, Lookup(c, p) \/ Install(c, p) PROVE DurableInv'
  <2>1. PICK k \in Call : k.phase \in {"lookup", "wait"} /\ call' = [call EXCEPT ![c] = k]
    BY <1>2, Started DEF Lookup, Install
  <2>2. StageFits(k.phase, stage[c]) /\ UNCHANGED <<stage, lock>>
    BY <1>2, <2>1 DEF StageFits, Lookup, Install
  <2> QED BY <1>1, <2>1, <2>2, CallerSteps DEF CallTypes
<1>3. CASE Cancel(c)
  <2>1. PICK k : k = [call[c] EXCEPT !.cancelled = TRUE]
    OBVIOUS
  <2>2. k \in Call /\ k.phase = call[c].phase
    BY <1>1, <2>1 DEF Call
  <2>3. call' = [call EXCEPT ![c] = k] /\ UNCHANGED <<stage, lock>>
    BY <1>3, <2>1 DEF Cancel
  <2> QED BY <1>1, <2>2, <2>3, CallerSteps DEF CallTypes
<1>4. CASE Acquire(c)
  <2>1. CallTypes' /\ UNCHANGED stage /\ GoTo(c, "check")
    BY <1>1, <1>4, CacheConstants DEF Acquire, CallTypes
  <2>2. StageFits("check", stage[c]) /\ "check" \in Phases
    BY DEF StageFits, Phases, LookupPhases
  <2> QED BY <1>1, <2>1, <2>2, Goes
<1>5. CASE GiveUp(c)
  BY <1>1, <1>5, Finishes DEF GiveUp, CallTypes
<1>6. CASE Return(c)
  <2>1. CallTypes'
    BY <1>1, <1>6, ReleasedTyped DEF Return, CallTypes
  <2>2. call' = [call EXCEPT ![c] = Idle] /\ stage' = [stage EXCEPT ![c] = NoTree]
    BY <1>6 DEF Return
  <2>3. StageFits(Idle.phase, NoTree) /\ Idle \in Call
    BY IdleCall
  <2> QED BY <1>1, <2>1, <2>2, <2>3, CallerSteps
<1> QED BY <1>2, <1>3, <1>4, <1>5, <1>6

(* A process that dies, and a loss of power: what is flushed with its name *)
(* survives as it is, or is gone with the whole tree.                      *)
LEMMA KilledTyped ==
  ASSUME DurableInv, NEW S, Killed(S)
  PROVE  /\ call' \in [Callers -> Call] /\ stage' \in [Callers -> Tree \cup {NoTree}]
         /\ \A c \in Callers : StageFits(call'[c].phase, stage'[c])
<1>1. ASSUME NEW c \in Callers
      PROVE  /\ call'[c] \in Call /\ stage'[c] \in Tree \cup {NoTree}
             /\ StageFits(call'[c].phase, stage'[c])
  BY IdleCall DEF Killed, DurableInv, TypeOK
<1> QED BY <1>1 DEF Killed

LEMMA Dies ==
  ASSUME DurableInv, NEW proc \in Processes, ProcessDies(proc), UNCHANGED process
  PROVE  DurableInv'
<1>1. lock' \in [Processes -> [Stripes -> Callers \cup {None}]] /\ UNCHANGED base
  BY DEF ProcessDies, DurableInv, TypeOK
<1>2. /\ call' \in [Callers -> Call] /\ stage' \in [Callers -> Tree \cup {NoTree}]
      /\ \A c \in Callers : StageFits(call'[c].phase, stage'[c])
  BY KilledTyped DEF ProcessDies
<1> QED BY <1>1, <1>2 DEF DurableInv, TypeOK, StageFits, Durable

LEMMA DurableSurvives ==
  ASSUME NEW tree, tree = NoTree \/ Durable(tree), NEW left \in Surviving(tree)
  PROVE  left \in Tree \cup {NoTree} /\ (left = NoTree \/ Durable(left))
<1>1. CASE left = NoTree
  BY <1>1
<1>2. CASE left # NoTree
  <2>1. Durable(tree)
    BY <1>2 DEF Surviving
  <2>2. tree # NoTree
    BY <2>1, NoTreeIsNone DEF Durable
  <2>3. PICK content \in [Names -> {"absent", "synced", "torn"}] :
          /\ \A n \in Names : content[n] \in Remains(tree, n)
          /\ left = [content |-> content, listed |-> {n \in Names : content[n] # "absent"}]
    BY <1>2, <2>2 DEF Surviving
  <2>4. \A n \in Names : Remains(tree, n) = {"synced"}
    BY <2>1 DEF Remains, Durable
  <2>5. \A n \in Names : content[n] = "synced"
    BY <2>3, <2>4
  <2> QED BY <2>3, <2>5 DEF Durable, Tree
<1> QED BY <1>1, <1>2

LEMMA LosesPower ==
  ASSUME DurableInv, PowerLoss, UNCHANGED process
  PROVE  DurableInv'
<1>1. /\ lock' = [proc \in Processes |-> [s \in Stripes |-> None]]
      /\ DOMAIN base' = Packages /\ base' = [p \in Packages |-> base'[p]]
      /\ \A p \in Packages : base'[p] \in Surviving(base[p])
  BY DEF PowerLoss
<1>2. \A p \in Packages : base'[p] \in Tree \cup {NoTree} /\ (base'[p] = NoTree \/ Durable(base'[p]))
  BY <1>1, DurableSurvives DEF DurableInv
<1>3. base' \in [Packages -> Tree \cup {NoTree}]
  BY <1>1, <1>2
<1>4. lock' \in [Processes -> [Stripes -> Callers \cup {None}]]
  BY <1>1
<1>5. /\ call' \in [Callers -> Call] /\ stage' \in [Callers -> Tree \cup {NoTree}]
      /\ \A c \in Callers : StageFits(call'[c].phase, stage'[c])
  BY KilledTyped DEF PowerLoss
<1> QED BY <1>2, <1>3, <1>4, <1>5 DEF DurableInv, TypeOK, StageFits, Durable

LEMMA InitDurable == Init => DurableInv
<1> SUFFICES ASSUME Init PROVE DurableInv
  OBVIOUS
<1>1. TypeOK
  BY IdleCall DEF Init, TypeOK
<1>2. \A c \in Callers : StageFits(call[c].phase, stage[c])
  BY IdleCall DEF Init
<1> QED BY <1>1, <1>2 DEF DurableInv, Init

LEMMA NextDurable == DurableInv /\ [Next]_vars => DurableInv'
<1> SUFFICES ASSUME DurableInv, [Next]_vars PROVE DurableInv'
  OBVIOUS
<1>1. CASE UNCHANGED vars
  BY <1>1 DEF DurableInv, TypeOK, StageFits, Durable, vars
<1>2. CASE Next
  <2>1. UNCHANGED process
    BY <1>2 DEF Next
  <2>2. ASSUME NEW c \in Callers, Step(c) PROVE DurableInv'
    BY <2>1, <2>2, LooksUp, Stages, Publishes, Locks DEF Step
  <2> QED BY <1>2, <2>1, <2>2, LooksUp, Stages, Locks, Dies, LosesPower DEF Next, Action
<1> QED BY <1>1, <1>2

(* What is published is complete at every moment, also after a loss of     *)
(* power at any step of any install (writeTree, Install): a damaged tree   *)
(* would never be replaced.                                                *)
THEOREM PublishedIsWhole == Spec => []BaseIsWhole
<1>1. DurableInv => BaseIsWhole
  BY DEF DurableInv, BaseIsWhole, Durable, Whole, Readable
<1> QED BY <1>1, InitDurable, NextDurable, PTL DEF Spec

-----------------------------------------------------------------------------
(* Installs of one process agree: between two of one package stands the    *)
(* lock, so that what one has read of the published tree still holds when  *)
(* it reads on.                                                            *)
OneProcess == \A c, d \in Callers : process[c] = process[d]

Held == {"check", "verify", "confirm", "stage", "write", "manifest", "sync", "publish", "flush"}

CallFits(c, k) ==
  /\ k.phase \in Held =>
       k.install /\ k.package \in Packages /\ lock[process[c]][Stripe[k.package]] = c
  /\ k.phase = "wait" => k.install /\ k.package \in Packages
  /\ k.install => k.phase # "lookup"
  /\ OneProcess /\ k.install /\ ~k.cancelled =>
       /\ k.phase = "done" => k.errors = {} \/ "io" \in k.errors
       /\ k.phase \in {"confirm", "flush"} =>
            base[k.package] # NoTree /\ k.reading # "directory"
       /\ k.phase \in {"check", "verify"} /\ k.reading = "directory" => base[k.package] = NoTree
       /\ k.phase \in LookupPhases /\ k.reading = "files" => base[k.package] # NoTree

AgreeInv == \A c \in Callers : CallFits(c, call[c])

LEMMA IdleFits ==
  ASSUME NEW c
  PROVE  CallFits(c, Idle) /\ CallFits(c, Idle)'
BY DEF CallFits, Idle, Held, LookupPhases

LEMMA ReadableBase ==
  ASSUME DurableInv, NEW c \in Callers, call[c].package \in Packages, Base(c) # NoTree
  PROVE  Readable(Base(c), Manifest) /\ Base(c).content[Manifest] # "absent" /\ Whole(Base(c))
BY DEF DurableInv, Base, Durable, Whole, Readable, Names

LEMMA AgreeSteps ==
  ASSUME DurableInv, AgreeInv, NEW c \in Callers, NEW k, call' = [call EXCEPT ![c] = k],
         CallFits(c, k), UNCHANGED <<process, base, lock>>
  PROVE  AgreeInv'
<1>1. call'[c] = k /\ \A d \in Callers \ {c} : call'[d] = call[d]
  BY DEF DurableInv, TypeOK
<1>2. ASSUME NEW d \in Callers PROVE CallFits(d, call[d])'
  <2>1. PICK j : j = call'[d] /\ CallFits(d, j)
    BY <1>1 DEF AgreeInv
  <2>2. CallFits(d, j)'
    BY <2>1 DEF CallFits, OneProcess
  <2> QED BY <2>1, <2>2
<1> QED BY <1>2 DEF AgreeInv

(* Going on while the lock is held.                                        *)
LEMMA AgreeGoes ==
  ASSUME DurableInv, AgreeInv, NEW c \in Callers, NEW phase \in Phases \ {"done", "lookup", "wait"},
         call[c].phase \in Held, GoTo(c, phase),
         phase \in {"confirm", "flush"} /\ OneProcess /\ ~call[c].cancelled =>
           base[call[c].package] # NoTree,
         UNCHANGED <<process, base, lock>>
  PROVE  AgreeInv'
<1>1. PICK k : k = [call[c] EXCEPT !.phase = phase, !.reading = "manifest"]
  OBVIOUS
<1>2. call[c] \in Call /\ CallFits(c, call[c])
  BY DEF DurableInv, TypeOK, AgreeInv
<1>3. /\ k.phase = phase /\ k.package = call[c].package /\ k.install = call[c].install
      /\ k.cancelled = call[c].cancelled /\ k.reading = "manifest"
      /\ call' = [call EXCEPT ![c] = k]
  BY <1>1, <1>2 DEF Call, GoTo
<1>4. CallFits(c, k)
  BY <1>2, <1>3 DEF CallFits, Held
<1> QED BY <1>3, <1>4, AgreeSteps

LEMMA AgreeFinishes ==
  ASSUME DurableInv, AgreeInv, NEW c \in Callers, NEW errors, Finish(c, errors),
         OneProcess /\ call[c].install /\ ~call[c].cancelled => errors = {} \/ "io" \in errors,
         UNCHANGED <<process, base, lock>>
  PROVE  AgreeInv'
<1>1. PICK k : k = [call[c] EXCEPT !.phase = "done", !.errors = errors]
  OBVIOUS
<1>2. call[c] \in Call /\ CallFits(c, call[c])
  BY DEF DurableInv, TypeOK, AgreeInv
<1>3. /\ k.phase = "done" /\ k.install = call[c].install /\ k.errors = errors
      /\ k.cancelled = call[c].cancelled /\ call' = [call EXCEPT ![c] = k]
  BY <1>1, <1>2 DEF Call, Finish
<1>4. CallFits(c, k)
  BY <1>2, <1>3 DEF CallFits, Held, LookupPhases
<1> QED BY <1>3, <1>4, AgreeSteps

LEMMA AgreeLooksUp ==
  ASSUME DurableInv, AgreeInv, NEW c \in Callers, UNCHANGED process,
         ReadManifest(c) \/ StatDirectory(c) \/ ReadFiles(c) \/ ReadError(c)
  PROVE  AgreeInv'
<1>1. UNCHANGED <<base, lock>> /\ call[c].phase \in LookupPhases /\ call[c] \in Call
      /\ CallFits(c, call[c])
  BY DEF ReadManifest, StatDirectory, ReadFiles, ReadError, DurableInv, TypeOK, AgreeInv
<1> DEFINE free == OneProcess /\ call[c].install /\ ~call[c].cancelled
<1>2. free => /\ call[c].phase \in {"check", "verify", "confirm"} /\ call[c].package \in Packages
              /\ Base(c) # NoTree =>
                   /\ Readable(Base(c), Manifest) /\ Base(c).content[Manifest] # "absent"
                   /\ Whole(Base(c))
              /\ call[c].phase = "confirm" =>
                   Base(c) # NoTree /\ call[c].reading # "directory"
              /\ call[c].reading = "directory" => Base(c) = NoTree
              /\ call[c].reading = "files" => Base(c) # NoTree
  <2>1. free => call[c].phase \in {"check", "verify", "confirm"}
    BY <1>1 DEF CallFits, LookupPhases
  <2>2. free => call[c].package \in Packages
    BY <1>1, <2>1 DEF CallFits, Held
  <2> QED BY <1>1, <2>1, <2>2, ReadableBase DEF CallFits, Base, LookupPhases
<1>3. ASSUME NEW errors, Finish(c, errors), free => errors = {} \/ "io" \in errors PROVE AgreeInv'
  BY <1>1, <1>3, AgreeFinishes
<1>4. ASSUME ~free, ReadFails(c) PROVE AgreeInv'
  BY <1>3, <1>4 DEF ReadFails
<1>5. ASSUME NEW reading \in {"directory", "files"}, call' = [call EXCEPT ![c].reading = reading],
             free => (reading = "directory" => Base(c) = NoTree) /\ (reading = "files" => Base(c) # NoTree)
      PROVE  AgreeInv'
  <2>1. PICK k : k = [call[c] EXCEPT !.reading = reading]
    OBVIOUS
  <2>2. /\ k.phase = call[c].phase /\ k.package = call[c].package /\ k.install = call[c].install
        /\ k.cancelled = call[c].cancelled /\ k.reading = reading /\ k.errors = call[c].errors
        /\ call' = [call EXCEPT ![c] = k]
    BY <1>1, <1>5, <2>1 DEF Call
  <2>3. CallFits(c, k)
    BY <1>1, <1>2, <1>5, <2>2 DEF CallFits, Base, Held, LookupPhases
  <2> QED BY <1>1, <2>2, <2>3, AgreeSteps
<1>6. CASE ReadManifest(c)
  <2>1. CASE call[c].cancelled /\ Finish(c, {"cancelled"})
    BY <1>3, <2>1
  <2>2. CASE call' = [call EXCEPT ![c].reading = "directory"]
             /\ (Base(c) = NoTree \/ Base(c).content[Manifest] = "absent")
    BY <1>2, <1>5, <2>2
  <2>3. CASE ReadFails(c) /\ (call[c].cancelled \/ ~Readable(Base(c), Manifest)) /\ Base(c) # NoTree
    BY <1>2, <1>4, <2>3
  <2>4. CASE call' = [call EXCEPT ![c].reading = "files"] /\ Base(c) # NoTree
    BY <1>5, <2>4
  <2> QED BY <1>6, <2>1, <2>2, <2>3, <2>4 DEF ReadManifest
<1>7. CASE StatDirectory(c)
  <2>1. CASE Base(c) # NoTree
    BY <1>2, <1>3, <1>7, <2>1 DEF StatDirectory
  <2>2. CASE Base(c) = NoTree /\ call[c].phase = "check"
    <3>1. GoTo(c, "stage") /\ "stage" \in Phases \ {"done", "lookup", "wait"} /\ call[c].phase \in Held
      BY <1>7, <2>2 DEF StatDirectory, Missing, Phases, Held
    <3> QED BY <1>1, <3>1, AgreeGoes
  <2>3. CASE Base(c) = NoTree /\ call[c].phase = "verify"
    <3>1. Finish(c, {"io"})
      BY <1>7, <2>3 DEF StatDirectory, Missing
    <3> QED BY <1>3, <3>1
  <2>4. CASE Base(c) = NoTree /\ call[c].phase \notin {"check", "verify"}
    <3>1. PICK errors : Finish(c, errors)
      BY <1>1, <1>7, <2>4 DEF StatDirectory, Missing, LookupPhases
    <3>2. ~free
      BY <1>2, <1>7, <2>4 DEF StatDirectory
    <3> QED BY <1>3, <3>1, <3>2
  <2> QED BY <2>1, <2>2, <2>3, <2>4
<1>8. CASE ReadFiles(c)
  <2>1. CASE Found(c)
    BY <1>3, <2>1 DEF Found
  <2>2. CASE ReadFails(c) /\ (call[c].cancelled \/ Base(c) = NoTree \/ ~Whole(Base(c)))
    BY <1>2, <1>4, <1>8, <2>2 DEF ReadFiles
  <2> QED BY <1>8, <2>1, <2>2 DEF ReadFiles
<1>9. CASE ReadError(c)
  <2>1. Finish(c, {"corrupt", "io"})
    BY <1>9 DEF ReadError
  <2> QED BY <1>3, <2>1
<1> QED BY <1>6, <1>7, <1>8, <1>9

LEMMA AgreeStages ==
  ASSUME DurableInv, AgreeInv, NEW c \in Callers, UNCHANGED process,
         \/ CreateStage(c) \/ (\E f \in Files : WriteFile(c, f)) \/ SyncDirectories(c)
         \/ WriteManifest(c) \/ SyncStage(c) \/ SyncProject(c) \/ Fail(c)
  PROVE  AgreeInv'
<1>1. /\ UNCHANGED <<base, lock>> /\ call[c].phase \in Held /\ call[c] \in Call
      /\ CallFits(c, call[c])
  BY DEF CreateStage, WriteFile, SyncDirectories, WriteManifest, SyncStage, SyncProject, Fail,
         DurableInv, TypeOK, AgreeInv, Held
<1>2. CASE CreateStage(c) \/ SyncDirectories(c) \/ SyncStage(c)
  <2>1. PICK phase \in {"write", "manifest", "publish"} : GoTo(c, phase)
    BY <1>2 DEF CreateStage, SyncDirectories, SyncStage
  <2>2. phase \in Phases \ {"done", "lookup", "wait"} /\ phase \notin {"verify", "confirm", "flush"}
    BY DEF Phases
  <2> QED BY <1>1, <2>1, <2>2, AgreeGoes
<1>3. ASSUME NEW f \in Files, WriteFile(c, f) PROVE AgreeInv'
  <2>1. CASE call[c].cancelled
    <3>1. Finish(c, {"cancelled"}) BY <1>3, <2>1 DEF WriteFile
    <3> QED BY <1>1, <2>1, <3>1, AgreeFinishes
  <2>2. CASE ~call[c].cancelled
    <3>1. UNCHANGED call BY <1>3, <2>2 DEF WriteFile
    <3> QED BY <1>1, <3>1 DEF AgreeInv, CallFits, OneProcess
  <2> QED BY <2>1, <2>2
<1>4. CASE WriteManifest(c)
  <2>1. CASE call[c].cancelled
    <3>1. Finish(c, {"cancelled"}) BY <1>4, <2>1 DEF WriteManifest
    <3> QED BY <1>1, <2>1, <3>1, AgreeFinishes
  <2>2. CASE ~call[c].cancelled
    <3>1. GoTo(c, "sync") BY <1>4, <2>2 DEF WriteManifest
    <3>2. "sync" \in Phases \ {"done", "lookup", "wait"} BY DEF Phases
    <3> QED BY <1>1, <3>1, <3>2, AgreeGoes
  <2> QED BY <2>1, <2>2
<1>5. CASE SyncProject(c)
  <2>1. GoTo(c, "confirm") /\ call[c].phase = "flush" BY <1>5 DEF SyncProject
  <2>2. OneProcess /\ ~call[c].cancelled => base[call[c].package] # NoTree
    BY <1>1, <2>1 DEF CallFits, Held
  <2>3. "confirm" \in Phases \ {"done", "lookup", "wait"} BY DEF Phases, LookupPhases
  <2> QED BY <1>1, <2>1, <2>2, <2>3, AgreeGoes
<1>6. CASE Fail(c)
  <2>1. Finish(c, {"io"}) BY <1>6 DEF Fail
  <2> QED BY <1>1, <2>1, AgreeFinishes
<1> QED BY <1>2, <1>3, <1>4, <1>5, <1>6

(* A tree is published while the lock of its package is held, so that no   *)
(* other install of the process is reading there.                          *)
LEMMA AgreePublishes ==
  ASSUME DurableInv, AgreeInv, NEW c \in Callers, UNCHANGED process, Publish(c)
  PROVE  AgreeInv'
<1>1. /\ UNCHANGED lock /\ call[c].phase = "publish" /\ call[c] \in Call /\ CallFits(c, call[c])
      /\ call[c].phase \in Held
  BY DEF Publish, DurableInv, TypeOK, AgreeInv, Held
<1>2. CASE call[c].cancelled
  <2>1. Finish(c, {"cancelled"}) /\ UNCHANGED base BY <1>2 DEF Publish
  <2> QED BY <1>1, <1>2, <2>1, AgreeFinishes
<1>3. CASE GoTo(c, "verify") /\ UNCHANGED base
  <2>1. "verify" \in Phases \ {"done", "lookup", "wait"} BY DEF Phases, LookupPhases
  <2> QED BY <1>1, <1>3, <2>1, AgreeGoes
<1>4. CASE base' = [base EXCEPT ![call[c].package] = stage[c]] /\ GoTo(c, "flush")
  <2> DEFINE p == call[c].package
  <2>1. base' = [base EXCEPT ![p] = stage[c]] /\ GoTo(c, "flush")
    BY <1>4
  <2>2. p \in Packages /\ lock[process[c]][Stripe[p]] = c
    BY <1>1 DEF CallFits
  <2>3. base'[p] # NoTree /\ \A q \in Packages \ {p} : base'[q] = base[q]
    BY <1>1, <2>1, <2>2, NoTreeIsNone DEF DurableInv, TypeOK, StageFits
  <2>4. PICK k : k = [call[c] EXCEPT !.phase = "flush", !.reading = "manifest"]
    OBVIOUS
  <2>5. /\ k.phase = "flush" /\ k.package = p /\ k.install = call[c].install
        /\ k.cancelled = call[c].cancelled /\ k.reading = "manifest"
        /\ call' = [call EXCEPT ![c] = k]
    BY <1>1, <2>1, <2>4 DEF Call, GoTo
  <2>6. CallFits(c, k)'
    BY <1>1, <2>2, <2>3, <2>5 DEF CallFits, Held, LookupPhases
  <2>7. ASSUME NEW d \in Callers, d # c PROVE CallFits(d, call[d])'
    <3>1. PICK j : j = call[d] /\ call'[d] = j
      BY <2>5, <2>7 DEF DurableInv, TypeOK
    <3>2. CallFits(d, j)
      BY <3>1 DEF AgreeInv
    <3>3. CASE j.phase \in Held
      <4>1. j.package \in Packages /\ lock[process[d]][Stripe[j.package]] = d
        BY <3>2, <3>3 DEF CallFits
      <4>2. OneProcess => j.package # p
        BY <2>2, <2>7, <4>1 DEF OneProcess
      <4>3. CallFits(d, j)'
        BY <1>1, <2>3, <3>2, <4>1, <4>2 DEF CallFits, OneProcess
      <4> QED BY <3>1, <4>3
    <3>4. CASE j.phase \notin Held
      <4>1. CallFits(d, j)'
        BY <3>2, <3>4 DEF CallFits, OneProcess, Held, LookupPhases
      <4> QED BY <3>1, <4>1
    <3> QED BY <3>3, <3>4
  <2>8. call'[c] = k
    BY <2>5 DEF DurableInv, TypeOK
  <2> QED BY <2>6, <2>7, <2>8 DEF AgreeInv
<1> QED BY <1>2, <1>3, <1>4 DEF Publish

(* A lock is taken when it is free and given back by its holder.           *)
LEMMA AgreeLocks ==
  ASSUME DurableInv, AgreeInv, NEW c \in Callers, UNCHANGED process,
         \/ (\E p \in Packages : Lookup(c, p) \/ Install(c, p)) \/ Cancel(c) \/ Acquire(c)
         \/ GiveUp(c) \/ Return(c)
  PROVE  AgreeInv'
<1>1. UNCHANGED base /\ call[c] \in Call /\ CallFits(c, call[c]) /\ process[c] \in Processes
  BY DEF Lookup, Install, Cancel, Acquire, GiveUp, Return, DurableInv, TypeOK, AgreeInv
<1>2. ASSUME NEW p \in Packages, Lookup(c, p) \/ Install(c, p) PROVE AgreeInv'
  <2>1. /\ [Idle EXCEPT !.phase = "lookup", !.package = p].install = FALSE
        /\ [Idle EXCEPT !.phase = "lookup", !.package = p].phase = "lookup"
        /\ [Idle EXCEPT !.phase = "wait", !.package = p, !.install = TRUE].phase = "wait"
        /\ [Idle EXCEPT !.phase = "wait", !.package = p, !.install = TRUE].package = p
        /\ [Idle EXCEPT !.phase = "wait", !.package = p, !.install = TRUE].install = TRUE
    BY IdleCall DEF Call, Idle
  <2>2. PICK k : /\ call' = [call EXCEPT ![c] = k]
                 /\ \/ k.phase = "wait" /\ k.package = p /\ k.install
                    \/ k.phase = "lookup" /\ ~k.install
    BY <1>2, <2>1 DEF Lookup, Install
  <2>3. CallFits(c, k)
    BY <2>2 DEF CallFits, Held, LookupPhases
  <2>4. UNCHANGED lock
    BY <1>2 DEF Lookup, Install
  <2> QED BY <1>1, <2>2, <2>3, <2>4, AgreeSteps
<1>3. CASE Cancel(c)
  <2>1. PICK k : k = [call[c] EXCEPT !.cancelled = TRUE]
    OBVIOUS
  <2>2. /\ k.phase = call[c].phase /\ k.package = call[c].package /\ k.install = call[c].install
        /\ k.cancelled /\ call' = [call EXCEPT ![c] = k] /\ UNCHANGED lock
    BY <1>1, <1>3, <2>1 DEF Call, Cancel
  <2>3. CallFits(c, k)
    BY <1>1, <2>2 DEF CallFits
  <2> QED BY <1>1, <2>2, <2>3, AgreeSteps
<1>4. CASE GiveUp(c)
  <2>1. Finish(c, {"cancelled"}) /\ call[c].cancelled /\ UNCHANGED lock
    BY <1>4 DEF GiveUp
  <2> QED BY <1>1, <2>1, AgreeFinishes
<1>5. CASE Acquire(c)
  <2> DEFINE s == Stripe[call[c].package]
  <2>1. /\ call[c].phase = "wait" /\ lock[process[c]][s] = None
        /\ lock' = [lock EXCEPT ![process[c]][s] = c] /\ GoTo(c, "check")
    BY <1>5 DEF Acquire
  <2>2. PICK k : k = [call[c] EXCEPT !.phase = "check", !.reading = "manifest"]
    OBVIOUS
  <2>3. /\ k.phase = "check" /\ k.package = call[c].package /\ k.install = call[c].install
        /\ k.cancelled = call[c].cancelled /\ k.reading = "manifest"
        /\ call' = [call EXCEPT ![c] = k]
    BY <1>1, <2>1, <2>2 DEF Call, GoTo
  <2>4. call[c].install /\ call[c].package \in Packages /\ s \in Stripes
    BY <1>1, <2>1, CacheConstants DEF CallFits
  <2>5. lock'[process[c]][s] = c
    BY <1>1, <2>1, <2>4 DEF DurableInv, TypeOK
  <2>6. CallFits(c, k)'
    BY <1>1, <2>3, <2>4, <2>5 DEF CallFits, LookupPhases
  <2>7. ASSUME NEW d \in Callers, d # c PROVE CallFits(d, call[d])'
    <3>1. PICK j : j = call[d] /\ call'[d] = j /\ CallFits(d, j)
      BY <2>3, <2>7 DEF DurableInv, TypeOK, AgreeInv
    <3>2. j.phase \in Held => lock'[process[d]][Stripe[j.package]] = d
      <4>1. ASSUME j.phase \in Held PROVE lock'[process[d]][Stripe[j.package]] = d
        <5>1. /\ j.package \in Packages /\ lock[process[d]][Stripe[j.package]] = d
              /\ Stripe[j.package] \in Stripes /\ process[d] \in Processes
          BY <3>1, <4>1, CacheConstants DEF CallFits, DurableInv, TypeOK
        <5>2. ~(process[d] = process[c] /\ Stripe[j.package] = s)
          BY <2>1, <5>1, CacheConstants
        <5> QED BY <1>1, <2>1, <2>4, <5>1, <5>2 DEF DurableInv, TypeOK
      <4> QED BY <4>1
    <3>3. CallFits(d, j)'
      BY <1>1, <3>1, <3>2 DEF CallFits, OneProcess
    <3> QED BY <3>1, <3>3
  <2>8. call'[c] = k
    BY <2>3 DEF DurableInv, TypeOK
  <2> QED BY <2>6, <2>7, <2>8 DEF AgreeInv
<1>6. CASE Return(c)
  <2>1. call' = [call EXCEPT ![c] = Idle] /\ lock' = Released(c)
    BY <1>6 DEF Return
  <2>2. call'[c] = Idle /\ \A d \in Callers \ {c} : call'[d] = call[d]
    BY <2>1 DEF DurableInv, TypeOK
  <2>3. ASSUME NEW d \in Callers PROVE CallFits(d, call[d])'
    <3>1. CASE d = c
      BY <2>2, <3>1, IdleFits
    <3>2. CASE d # c
      <4>1. PICK j : j = call[d] /\ call'[d] = j /\ CallFits(d, j)
        BY <2>2, <3>2 DEF AgreeInv
      <4>2. ASSUME j.phase \in Held PROVE lock'[process[d]][Stripe[j.package]] = d
        <5>1. /\ j.package \in Packages /\ lock[process[d]][Stripe[j.package]] = d
              /\ Stripe[j.package] \in Stripes /\ process[d] \in Processes
          BY <4>1, <4>2, CacheConstants DEF CallFits, DurableInv, TypeOK
        <5> QED BY <1>1, <2>1, <3>2, <5>1 DEF Released, DurableInv, TypeOK
      <4>3. CallFits(d, j)'
        BY <1>1, <4>1, <4>2 DEF CallFits, OneProcess
      <4> QED BY <4>1, <4>3
    <3> QED BY <3>1, <3>2
  <2> QED BY <2>3 DEF AgreeInv
<1> QED BY <1>2, <1>3, <1>4, <1>5, <1>6

LEMMA AgreeEnds ==
  ASSUME DurableInv, AgreeInv, UNCHANGED process,
         (\E proc \in Processes : ProcessDies(proc)) \/ PowerLoss
  PROVE  AgreeInv'
<1>1. CASE PowerLoss
  <2>1. \A c \in Callers : call'[c] = Idle
    BY <1>1 DEF PowerLoss, Killed
  <2> QED BY <2>1, IdleFits DEF AgreeInv
<1>2. ASSUME NEW proc \in Processes, ProcessDies(proc) PROVE AgreeInv'
  <2>1. UNCHANGED base /\ lock' = [lock EXCEPT ![proc] = [s \in Stripes |-> None]]
    BY <1>2 DEF ProcessDies
  <2>2. ASSUME NEW c \in Callers PROVE CallFits(c, call[c])'
    <3>1. CASE process[c] = proc
      <4>1. call'[c] = Idle
        BY <1>2, <3>1 DEF ProcessDies, Killed, CallersOf
      <4> QED BY <4>1, IdleFits
    <3>2. CASE process[c] # proc
      <4>1. PICK j : j = call[c] /\ call'[c] = j /\ CallFits(c, j)
        BY <1>2, <3>2 DEF ProcessDies, Killed, CallersOf, AgreeInv
      <4>2. lock'[process[c]] = lock[process[c]]
        BY <2>1, <3>2 DEF DurableInv, TypeOK
      <4>3. CallFits(c, j)'
        BY <2>1, <4>1, <4>2 DEF CallFits, OneProcess
      <4> QED BY <4>1, <4>3
    <3> QED BY <3>1, <3>2
  <2> QED BY <2>2 DEF AgreeInv
<1> QED BY <1>1, <1>2

LEMMA NextAgrees == DurableInv /\ AgreeInv /\ [Next]_vars => AgreeInv'
<1> SUFFICES ASSUME DurableInv, AgreeInv, [Next]_vars PROVE AgreeInv'
  OBVIOUS
<1>1. CASE UNCHANGED vars
  BY <1>1 DEF AgreeInv, CallFits, OneProcess, vars
<1>2. CASE Next
  <2>1. UNCHANGED process
    BY <1>2 DEF Next
  <2>2. ASSUME NEW c \in Callers, Step(c) PROVE AgreeInv'
    BY <2>1, <2>2, AgreeLooksUp, AgreeStages, AgreePublishes, AgreeLocks DEF Step
  <2> QED BY <1>2, <2>1, <2>2, AgreeLooksUp, AgreeStages, AgreeLocks, AgreeEnds DEF Next, Action
<1> QED BY <1>1, <1>2

(* Concurrent installs of one process agree: one that is not cancelled     *)
(* finds or publishes the package or reports the file operation that       *)
(* failed, whatever others install, look up, cancel or die of meanwhile    *)
(* (Install and its three lookups, under the lock of the package's         *)
(* stripe).                                                                *)
THEOREM InstallsOfAProcessAgree == Spec => []InstallsAgree
<1>1. Init => AgreeInv
  BY IdleFits DEF Init, AgreeInv
<1>2. AgreeInv => InstallsAgree
  BY DEF AgreeInv, CallFits, InstallsAgree, OneProcess
<1> QED BY <1>1, <1>2, InitDurable, NextDurable, NextAgrees, PTL DEF Spec

-----------------------------------------------------------------------------
(* The resource caches.  The bytes of a cache are a sum over its keys.     *)
Plus(x, y) == x + y
AnyOf(s) == CHOOSE x \in s : TRUE

Sums == INSTANCE FoldLemmas WITH op <- Plus, pick <- AnyOf

\* What the entry of each key takes.
Costs(entries) == [k \in DOMAIN entries |-> Cost(entries[k])]

CacheTyped(cache) ==
  /\ DOMAIN cache.entries \subseteq Key
  /\ \A k \in DOMAIN cache.entries : cache.entries[k] \in Parsed
  /\ cache.order \in Seq(Key) /\ cache.bytes \in Int

LEMMA CostIsNatural ==
  ASSUME NEW entry \in Parsed
  PROVE  Cost(entry) \in Nat
BY CachesAssumption DEF Cost, Parsed

LEMMA SummingCosts ==
  ASSUME NEW entries, IsFiniteSet(DOMAIN entries),
         \A k \in DOMAIN entries : entries[k] \in Parsed
  PROVE  Sums!Summing(Costs(entries), DOMAIN entries)
<1>1. Sums!IsFiniteSet(DOMAIN entries)
  BY Zenon DEF IsFiniteSet, Sums!IsFiniteSet
<1>2. Sums!Picks(DOMAIN entries)
  BY Sums!AnyPicks DEF AnyOf
<1>3. \A x, y \in Nat : Plus(x, y) = x + y
  BY DEF Plus
<1>4. \A k \in DOMAIN entries : Costs(entries)[k] \in Nat
  BY CostIsNatural DEF Costs
<1>. QED BY <1>1, <1>2, <1>3, <1>4, Zenon DEF Sums!Summing

LEMMA BytesAreSum ==
  ASSUME NEW entries, NEW keys \in SUBSET (DOMAIN entries)
  PROVE  BytesOf(entries, keys) = Sums!FoldOf(Costs(entries), 0, keys)
<1> DEFINE Adds(g) == g = [s \in SUBSET keys |-> IF s = {} THEN 0
                             ELSE Cost(entries[CHOOSE x \in s : TRUE])
                                    + g[s \ {CHOOSE x \in s : TRUE}]]
           Takes(g) == g = [s \in SUBSET keys |-> IF s = {} THEN 0
                             ELSE Costs(entries)[CHOOSE x \in s : TRUE]
                                    + g[s \ {CHOOSE x \in s : TRUE}]]
<1>1. BytesOf(entries, keys) = (CHOOSE g : Adds(g))[keys]
  BY Zenon DEF BytesOf, MapThenSumSet, MapThenFoldSet
<1>2. Sums!FoldOf(Costs(entries), 0, keys) = (CHOOSE g : Takes(g))[keys]
  BY Zenon DEF Sums!FoldOf, Sums!Folds, Sums!FoldsOn, Plus, AnyOf
<1>3. \A s \in SUBSET keys : s # {} =>
        Costs(entries)[CHOOSE x \in s : TRUE] = Cost(entries[CHOOSE x \in s : TRUE])
  BY DEF Costs
<1>4. \A g : [s \in SUBSET keys |-> IF s = {} THEN 0
                             ELSE Cost(entries[CHOOSE x \in s : TRUE])
                                    + g[s \ {CHOOSE x \in s : TRUE}]]
           = [s \in SUBSET keys |-> IF s = {} THEN 0
                             ELSE Costs(entries)[CHOOSE x \in s : TRUE]
                                    + g[s \ {CHOOSE x \in s : TRUE}]]
  BY <1>3
<1>5. \A g : Adds(g) <=> Takes(g)
  BY <1>4
<1>6. (CHOOSE g : Adds(g)) = (CHOOSE g : Takes(g))
  <2> HIDE DEF Adds, Takes
  <2>. QED BY <1>5
<1>. QED BY <1>1, <1>2, <1>6, Zenon

LEMMA HeldIsFinite ==
  ASSUME NEW cache, CacheTyped(cache), Counted(cache)
  PROVE  IsFiniteSet(DOMAIN cache.entries)
<1> DEFINE n == Len(cache.order)
<1>1. n \in Nat /\ cache.order \in [1 .. n -> Key] /\ DOMAIN cache.order = 1 .. n
  BY DEF CacheTyped
<1>2. cache.order \in Surjection(1 .. n, DOMAIN cache.entries)
  BY <1>1 DEF Counted, Surjection
<1>3. IsFiniteSet(1 .. n)
  BY <1>1, FS_Interval
<1>. QED BY <1>2, <1>3, FS_Surjection

(* The first number that has what N has.                                   *)
LEMMA FirstOf ==
  ASSUME NEW N \in Nat, NEW S \in SUBSET (0 .. N), N \in S
  PROVE  \E k \in S : \A j \in 0 .. (k - 1) : j \notin S
<1>1. S \subseteq Nat /\ S # {}
  OBVIOUS
<1>2. PICK k \in S : \A j \in S : ~(<<j, k>> \in OpToRel(<, Nat))
  BY <1>1, WFMin, NatLessThanWellFounded
<1>3. \A j \in Nat : j < k => <<j, k>> \in OpToRel(<, Nat)
  BY <1>1, Zenon DEF OpToRel
<1>4. \A j \in 0 .. (k - 1) : j \in Nat /\ j < k
  BY <1>1
<1>. QED BY <1>2, <1>3, <1>4, Zenon

(* An entry is added: in place, or at the end of the order.                *)
LEMMA AddedIsCounted ==
  ASSUME NEW cache, CacheTyped(cache), Counted(cache), NEW key \in Key, NEW entry \in Parsed
  PROVE  LET added == Added(cache, key, entry) IN
         /\ CacheTyped(added) /\ Counted(added)
         /\ DOMAIN added.entries = DOMAIN cache.entries \cup {key}
         /\ added.entries[key] = entry
         /\ \A k \in DOMAIN cache.entries \ {key} : added.entries[k] = cache.entries[k]
<1> DEFINE old == cache.entries
           D == DOMAIN cache.entries
           new == Put(cache.entries, key, entry)
           order == IF key \in D THEN cache.order ELSE Append(cache.order, key)
           bytes == cache.bytes + Cost(entry) - (IF key \in D THEN Cost(cache.entries[key]) ELSE 0)
<1>1. Added(cache, key, entry) = [entries |-> new, order |-> order, bytes |-> bytes]
  BY Zenon DEF Added
<1>2. /\ DOMAIN new = D \cup {key} /\ new[key] = entry
      /\ \A k \in D \ {key} : new[k] = old[k]
  BY DEF Put
<1>3. /\ D \subseteq Key /\ (\A k \in D : old[k] \in Parsed) /\ cache.order \in Seq(Key)
      /\ cache.bytes \in Int /\ IsFiniteSet(D) /\ D = {cache.order[i] : i \in DOMAIN cache.order}
      /\ (\A i, j \in DOMAIN cache.order : cache.order[i] = cache.order[j] => i = j)
      /\ cache.bytes = BytesOf(old, D)
  BY HeldIsFinite DEF CacheTyped, Counted, IsInjective
<1>4. IsFiniteSet(D \cup {key}) /\ \A k \in D \cup {key} : new[k] \in Parsed
  BY <1>2, <1>3, FS_AddElement
<1>5. order \in Seq(Key) /\ DOMAIN new = {order[i] : i \in DOMAIN order} /\ IsInjective(order)
  <2>1. CASE key \in D
    <3>1. DOMAIN new = D /\ order = cache.order
      BY <1>2, <2>1
    <3>. QED BY <1>3, <3>1 DEF IsInjective
  <2>2. CASE key \notin D
    <3>1. PICK m \in Nat : m = Len(cache.order)
      BY <1>3
    <3>2. /\ order = Append(cache.order, key) /\ order \in Seq(Key)
          /\ DOMAIN cache.order = 1 .. m /\ DOMAIN order = 1 .. (m + 1)
          /\ order[m + 1] = key /\ \A i \in 1 .. m : order[i] = cache.order[i]
      BY <1>3, <2>2, <3>1
    <3> HIDE DEF order, new
    <3>3. 1 .. (m + 1) = (1 .. m) \cup {m + 1}
      BY <3>1
    <3>4. {order[i] : i \in DOMAIN order} = DOMAIN new
      BY <1>2, <1>3, <3>2, <3>3
    <3>5. \A i, j \in 1 .. (m + 1) : order[i] = order[j] => i = j
      BY <1>3, <2>2, <3>2, <3>3, SMTT(30)
    <3>. QED BY <3>2, <3>4, <3>5 DEF IsInjective
  <2>. QED BY <2>1, <2>2
<1> HIDE DEF new
<1>6. bytes = BytesOf(new, DOMAIN new)
  <2> DEFINE now == Costs(new)
             before == Costs(old)
  <2>1. Sums!Summing(now, D \cup {key}) /\ Sums!Summing(before, D)
    BY <1>2, <1>3, <1>4, SummingCosts
  <2>2. /\ now[key] = Cost(entry) /\ (\A k \in D \ {key} : now[k] = before[k])
        /\ (\A k \in D : before[k] = Cost(old[k])) /\ Cost(entry) \in Nat
    BY <1>2, CostIsNatural DEF Costs
  <2>3. BytesOf(new, DOMAIN new) = Sums!FoldOf(now, 0, D \cup {key})
        /\ BytesOf(old, D) = Sums!FoldOf(before, 0, D)
    BY <1>2, BytesAreSum
  <2> HIDE DEF now, before
  <2> DEFINE rest == D \ {key}
  <2>4. Sums!FoldOf(now, 0, rest) = Sums!FoldOf(before, 0, rest)
    <3>1. Sums!Picks(rest)
      BY Sums!AnyPicks DEF AnyOf
    <3>. QED BY <2>2, <3>1, Sums!FoldOfSame
  <2>5. /\ Sums!FoldOf(now, 0, D \cup {key}) = Cost(entry) + Sums!FoldOf(before, 0, rest)
        /\ Sums!FoldOf(before, 0, rest) \in Nat
    <3>1. (D \cup {key}) \ {key} = rest /\ key \in D \cup {key}
      OBVIOUS
    <3>. QED BY <2>1, <2>2, <2>4, <3>1, Sums!SumWithout
  <2>6. CASE key \in D
    <3>1. /\ Sums!FoldOf(before, 0, D) = before[key] + Sums!FoldOf(before, 0, rest)
          /\ before[key] \in Nat /\ before[key] = Cost(old[key])
      BY <2>1, <2>2, <2>6, Sums!SumWithout
    <3>. QED BY <1>3, <2>2, <2>3, <2>5, <2>6, <3>1
  <2>7. CASE key \notin D
    <3>1. rest = D
      BY <2>7
    <3> HIDE DEF rest
    <3>2. BytesOf(new, DOMAIN new) = Cost(entry) + BytesOf(old, D) /\ BytesOf(old, D) \in Nat
      BY <2>3, <2>5, <3>1
    <3>3. bytes = cache.bytes + Cost(entry) - 0
      BY <2>7
    <3>. QED BY <1>3, <2>2, <3>2, <3>3
  <2>. QED BY <2>6, <2>7
<1>7. bytes \in Int
  BY <1>3, CostIsNatural
<1> HIDE DEF order, bytes
<1>8. PICK added : added = Added(cache, key, entry)
  OBVIOUS
<1>9. added.entries = new /\ added.order = order /\ added.bytes = bytes
  BY <1>1, <1>8
<1>10. CacheTyped(added) /\ Counted(added)
  <2>1. CacheTyped(added)
    <3>1. DOMAIN new \subseteq Key /\ \A k \in DOMAIN new : new[k] \in Parsed
      BY <1>2, <1>3, <1>4
    <3>. QED BY <1>5, <1>7, <1>9, <3>1 DEF CacheTyped
  <2>2. Counted(added)
    BY <1>5, <1>6, <1>9, Zenon DEF Counted
  <2>. QED BY <2>1, <2>2
<1>. QED BY <1>2, <1>8, <1>9, <1>10

(* What is left of a cache when the oldest keys are dropped: the count is  *)
(* true of the others, and all dropped is nothing left.                    *)
LEMMA TrimmedIsAccounted ==
  ASSUME NEW cache, CacheTyped(cache), Counted(cache)
  PROVE  LET trimmed == Trimmed(cache) IN
         /\ CacheTyped(trimmed) /\ Accounted(trimmed)
         /\ DOMAIN trimmed.entries \subseteq DOMAIN cache.entries
         /\ \A k \in DOMAIN trimmed.entries : trimmed.entries[k] = cache.entries[k]
<1> DEFINE entries == cache.entries
           D == DOMAIN cache.entries
           order == cache.order
           left(k) == cache.bytes - Freed(cache.entries, cache.order, k)
           Enough(k) == k = Len(cache.order) \/ left(k) <= MaxBytes
           First(k) == Enough(k) /\ \A j \in 0 .. (k - 1) : left(j) > MaxBytes
           n == CHOOSE k \in 0 .. Len(cache.order) : First(k)
           oldest == Oldest(cache.entries, cache.order, n)
           rest == D \ oldest
           kept == Restrict(cache.entries, rest)
           tail == SubSeq(cache.order, n + 1, Len(cache.order))
<1>1. PICK m \in Nat : m = Len(order)
  BY DEF CacheTyped
<1>2. /\ D \subseteq Key /\ (\A k \in D : entries[k] \in Parsed) /\ order \in Seq(Key)
      /\ IsFiniteSet(D) /\ D = {order[i] : i \in 1 .. m} /\ DOMAIN order = 1 .. m
      /\ (\A i, j \in 1 .. m : order[i] = order[j] => i = j)
      /\ cache.bytes = BytesOf(entries, D)
  <2>1. order \in Seq(Key) /\ DOMAIN order = 1 .. m
    BY <1>1 DEF CacheTyped
  <2>. QED BY <2>1, HeldIsFinite DEF CacheTyped, Counted, IsInjective
<1>3. Sums!Summing(Costs(entries), D)
  BY <1>2, SummingCosts
<1>4. ASSUME NEW X \in SUBSET D
      PROVE  cache.bytes - BytesOf(entries, X) = BytesOf(entries, D \ X) /\ BytesOf(entries, D \ X) \in Nat
  <2>1. /\ BytesOf(entries, X) = Sums!FoldOf(Costs(entries), 0, X)
        /\ BytesOf(entries, D \ X) = Sums!FoldOf(Costs(entries), 0, D \ X)
        /\ BytesOf(entries, D) = Sums!FoldOf(Costs(entries), 0, D)
    BY BytesAreSum
  <2>2. /\ BytesOf(entries, X) \in Nat /\ BytesOf(entries, D \ X) \in Nat
        /\ BytesOf(entries, D) = BytesOf(entries, X) + BytesOf(entries, D \ X)
    BY <1>3, <2>1, Sums!SumOfRest
  <2>3. \A a, b, c : a \in Nat /\ b \in Nat /\ c = a + b => c - a = b
    OBVIOUS
  <2>. QED BY <1>2, <2>2, <2>3, Zenon
<1>5. \A k : Oldest(entries, order, k) \in SUBSET D
  BY DEF Oldest
<1>6. \A k : left(k) = BytesOf(entries, D \ Oldest(entries, order, k)) /\ left(k) \in Nat
  BY <1>4, <1>5 DEF Freed
<1>7. n \in 0 .. m /\ Enough(n)
  <2> DEFINE S == {k \in 0 .. m : Enough(k)}
  <2>1. m \in S
    BY <1>1
  <2>2. PICK k \in S : \A j \in 0 .. (k - 1) : j \notin S
    <3> HIDE DEF S
    <3>. QED BY <2>1, FirstOf DEF S
  <2>3. MaxBytes \in Nat
    BY CachesAssumption
  <2>4. \A j \in 0 .. (k - 1) : left(j) > MaxBytes
    <3> TAKE j \in 0 .. (k - 1)
    <3>1. j \in 0 .. m /\ ~Enough(j)
      BY <2>2
    <3> HIDE DEF left
    <3>2. left(j) \in Nat /\ ~(left(j) <= MaxBytes)
      BY <1>6, <3>1
    <3>. QED BY <2>3, <3>2
  <2>5. k \in 0 .. Len(cache.order) /\ First(k)
    BY <1>1, <2>2, <2>4
  <2> HIDE DEF First
  <2>6. n \in 0 .. Len(cache.order) /\ First(n)
    BY <2>5, Zenon
  <2>. QED BY <1>1, <2>6 DEF First
<1>8. Trimmed(cache) = [entries |-> kept, order |-> tail, bytes |-> left(n)]
  BY Zenon DEF Trimmed
<1> HIDE DEF n
<1>9. /\ oldest = {order[i] : i \in 1 .. n} /\ rest = {order[i] : i \in (n + 1) .. m}
  BY <1>2, <1>7 DEF Oldest
<1>10. /\ DOMAIN kept = rest /\ \A k \in rest : kept[k] = entries[k]
  BY DEF Restrict
<1>11. /\ tail \in Seq(Key) /\ DOMAIN tail = 1 .. (m - n)
       /\ \A i \in 1 .. (m - n) : tail[i] = order[n + i]
  BY <1>1, <1>2, <1>7
<1> HIDE DEF tail, kept, rest, oldest
<1>12. rest = {tail[i] : i \in DOMAIN tail} /\ IsInjective(tail)
  <2>1. \A i \in (n + 1) .. m : i - n \in 1 .. (m - n) /\ n + (i - n) = i
    BY <1>1, <1>7
  <2>2. \A i \in 1 .. (m - n) : n + i \in (n + 1) .. m /\ n + i \in 1 .. m
    BY <1>1, <1>7
  <2>3. \A i \in (n + 1) .. m : order[i] = tail[i - n]
    BY <1>11, <2>1
  <2>4. rest = {tail[i] : i \in 1 .. (m - n)}
    BY <1>9, <1>11, <2>1, <2>2, <2>3
  <2>5. \A i, j \in 1 .. (m - n) : tail[i] = tail[j] => i = j
    <3> TAKE i, j \in 1 .. (m - n)
    <3>1. tail[i] = tail[j] => n + i = n + j
      BY <1>2, <1>11, <2>2
    <3>. QED BY <1>7, <3>1
  <2>. QED BY <1>11, <2>4, <2>5 DEF IsInjective
<1>13. left(n) = BytesOf(kept, rest) /\ left(n) \in Nat
  <2>1. left(n) = BytesOf(entries, rest) /\ left(n) \in Nat
    BY <1>6 DEF rest, oldest
  <2>2. rest \in SUBSET D /\ rest \in SUBSET (DOMAIN kept)
    BY <1>10 DEF rest
  <2>3. /\ BytesOf(entries, rest) = Sums!FoldOf(Costs(entries), 0, rest)
        /\ BytesOf(kept, rest) = Sums!FoldOf(Costs(kept), 0, rest)
    BY <2>2, BytesAreSum
  <2>4. Sums!Picks(rest)
    BY Sums!AnyPicks DEF AnyOf
  <2>5. \A k \in rest : Costs(entries)[k] = Costs(kept)[k]
    BY <1>10, <2>2 DEF Costs
  <2>6. Sums!FoldOf(Costs(entries), 0, rest) = Sums!FoldOf(Costs(kept), 0, rest)
    BY <2>4, <2>5, Sums!FoldOfSame
  <2>. QED BY <2>1, <2>3, <2>6
<1>14. left(n) <= MaxBytes
  <2>1. CASE n = m
    <3>1. rest = {}
      BY <1>1, <1>9, <2>1
    <3>2. left(n) = BytesOf(entries, {})
      BY <1>6, <3>1 DEF rest, oldest
    <3>3. BytesOf(entries, {}) = 0
      BY BytesAreSum, Sums!FoldOfNone
    <3>. QED BY <3>2, <3>3, CachesAssumption
  <2>2. CASE n # m
    BY <1>1, <1>7, <2>2
  <2>. QED BY <2>1, <2>2
<1>15. PICK trimmed : trimmed = Trimmed(cache)
  OBVIOUS
<1> HIDE DEF left
<1>16. trimmed.entries = kept /\ trimmed.order = tail /\ trimmed.bytes = left(n)
  BY <1>8, <1>15
<1>17. rest \subseteq D
  BY DEF rest
<1>18. CacheTyped(trimmed)
  BY <1>2, <1>10, <1>11, <1>13, <1>16, <1>17 DEF CacheTyped
<1>19. Counted(trimmed)
  BY <1>10, <1>12, <1>13, <1>16, Zenon DEF Counted
<1>. QED BY <1>10, <1>14, <1>15, <1>16, <1>17, <1>18, <1>19 DEF Accounted

LEMMA StoredIsAccounted ==
  ASSUME NEW cache, CacheTyped(cache), Counted(cache), NEW key \in Key, NEW entry \in Parsed
  PROVE  LET stored == Stored(cache, key, entry) IN
         /\ CacheTyped(stored) /\ Accounted(stored)
         /\ \A k \in DOMAIN stored.entries :
              \/ k = key /\ stored.entries[k] = entry
              \/ k \in DOMAIN cache.entries /\ stored.entries[k] = cache.entries[k]
<1>1. PICK added : added = Added(cache, key, entry)
  OBVIOUS
<1>2. /\ CacheTyped(added) /\ Counted(added) /\ DOMAIN added.entries = DOMAIN cache.entries \cup {key}
      /\ added.entries[key] = entry
      /\ \A k \in DOMAIN cache.entries \ {key} : added.entries[k] = cache.entries[k]
  BY <1>1, AddedIsCounted
<1>3. PICK stored : stored = Trimmed(added)
  OBVIOUS
<1>4. /\ CacheTyped(stored) /\ Accounted(stored) /\ DOMAIN stored.entries \subseteq DOMAIN added.entries
      /\ \A k \in DOMAIN stored.entries : stored.entries[k] = added.entries[k]
  BY <1>2, <1>3, TrimmedIsAccounted
<1>5. stored = Stored(cache, key, entry)
  BY <1>1, <1>3 DEF Stored
<1>6. \A k \in DOMAIN stored.entries :
        \/ k = key /\ stored.entries[k] = entry
        \/ k \in DOMAIN cache.entries /\ stored.entries[k] = cache.entries[k]
  BY <1>2, <1>4
<1>. QED BY <1>4, <1>5, <1>6

-----------------------------------------------------------------------------
(* What an entry of a font or loaded resource owes to its key.             *)
Loaded == Fonts \cup Resources

CacheFits(cache) ==
  /\ CacheTyped(cache) /\ Accounted(cache)
  /\ \A k \in DOMAIN cache.entries : k.path \in Loaded => NotOlder(k, cache.entries[k])

Requests == [step: Steps, key: Key \cup Wish \cup {Nothing}, image: Parsed \cup {Nothing}]

(* A request under way has a key, no newer than its file until the file is *)
(* read, and an image once it is past that.                                *)
RequestFits(r, files) ==
  /\ r \in Requests
  /\ r.step = "missed" => r.key \in Wish
  /\ r.step \notin {"idle", "missed"} => r.key \in Key
  /\ r.step \in {"lookup", "read"} => r.key.version <= files[r.key.path]
  /\ r.step \in {"found", "parsed", "published", "keyed", "loaded"} => r.image \in Parsed
  /\ r.step = "found" => r.key.path \notin Fonts
  /\ r.step = "published" => r.key.path \in Images
  /\ r.step \in {"found", "parsed"} /\ r.key.path \in Loaded => NotOlder(r.key, r.image)
  /\ r.step \in {"keyed", "loaded"} => NotOlder(r.key, r.image)
  /\ r.step = "done" /\ r.key.path \in Loaded /\ r.image # Nothing => NotOlder(r.key, r.image)

(* A FontCache holds under a name what was parsed for it, no older than    *)
(* the key it was looked up with.                                          *)
NamedFit(fontCache) ==
  /\ DOMAIN fontCache \subseteq Options
  /\ \A o \in DOMAIN fontCache :
       /\ fontCache[o] \in [key: Key, image: Parsed] /\ fontCache[o].key.options = o
       /\ NotOlder(fontCache[o].key, fontCache[o].image)

(* No document has found a file newer than it is.                          *)
ExaminedFit(seen, files) ==
  /\ seen = [c \in Documents |-> seen[c]]
  /\ \A c \in Documents :
       /\ DOMAIN seen[c] \subseteq Fonts
       /\ \A p \in DOMAIN seen[c] : seen[c][p] \in Versions /\ seen[c][p] <= files[p]

DocumentsFit(given, own) == given \subseteq Documents /\ own \in [Documents -> SUBSET Options]

NamesFit(names) ==
  /\ DOMAIN names \subseteq Images \cup Resources
  /\ \A n \in DOMAIN names : names[n] \in Parsed

CachesInv ==
  /\ disk \in [Paths -> Versions]
  /\ NamesFit(published)
  /\ CacheFits(images) /\ CacheFits(fonts)
  /\ NamedFit(named) /\ DocumentsFit(sharing, registered) /\ ExaminedFit(examined, disk)
  /\ request = [c \in Documents |-> request[c]]
  /\ \A c \in Documents : RequestFits(request[c], disk)

LEMMA CachesFit ==
  ASSUME CachesInv
  PROVE  CachesAccounted /\ NoneOlderThanItsKey
<1>1. CachesTyped
  <2>1. \A c \in Documents : /\ request[c].step \in Steps
                             /\ request[c].key \in Key \cup Wish \cup {Nothing}
                             /\ request[c].image \in Parsed \cup {Nothing}
    BY DEF CachesInv, RequestFits, Requests
  <2>2. \A c \in Documents : /\ DOMAIN examined[c] \subseteq Fonts
                             /\ \A p \in DOMAIN examined[c] : examined[c][p] \in Versions
    BY DEF CachesInv, ExaminedFit
  <2>3. /\ DOMAIN named \subseteq Options
        /\ \A o \in DOMAIN named : named[o] \in [key: Key, image: Parsed]
        /\ sharing \subseteq Documents /\ registered \in [Documents -> SUBSET Options]
    BY DEF CachesInv, NamedFit, DocumentsFit
  <2>4. /\ disk \in [Paths -> Versions] /\ DOMAIN published \subseteq Images \cup Resources
        /\ \A n \in DOMAIN published : published[n] \in Parsed
        /\ CacheTyped(images) /\ CacheTyped(fonts)
    BY DEF CachesInv, NamesFit, CacheFits
  <2>. QED BY <2>1, <2>2, <2>3, <2>4 DEF CachesTyped, CacheTyped
<1>2. CachesAccounted
  BY <1>1 DEF CachesInv, CacheFits, CachesAccounted
<1>3. ASSUME NEW c \in Documents, At(c, "done"), Path(c) \in Fonts \cup Resources
      PROVE  Fresh(c)
  <2>1. RequestFits(request[c], disk)
    BY DEF CachesInv
  <2>. QED BY <1>3, <2>1 DEF RequestFits, Fresh, At, Path, Loaded
<1>4. \A o \in DOMAIN named : named[o].key.options = o /\ NotOlder(named[o].key, named[o].image)
  BY DEF CachesInv, NamedFit
<1>. QED BY <1>2, <1>3, <1>4 DEF NoneOlderThanItsKey

LEMMA EmptyFits == CacheFits(EmptyCache) /\ NamesFit(Empty)
<1>1. /\ EmptyCache.entries = Empty /\ EmptyCache.order = << >> /\ EmptyCache.bytes = 0
      /\ DOMAIN Empty = {}
  BY DEF EmptyCache, Empty
<1>2. << >> \in Seq(Key) /\ DOMAIN << >> = {}
  OBVIOUS
<1>3. BytesOf(Empty, {}) = 0
  BY BytesAreSum, Sums!FoldOfNone
<1>4. IsInjective(<< >>)
  BY <1>2 DEF IsInjective
<1>5. CacheTyped(EmptyCache)
  BY <1>1, <1>2 DEF CacheTyped
<1>6. Accounted(EmptyCache)
  <2>1. {EmptyCache.order[i] : i \in DOMAIN EmptyCache.order} = DOMAIN EmptyCache.entries
    BY <1>1, <1>2
  <2>. QED BY <1>1, <1>3, <1>4, <2>1, CachesAssumption DEF Accounted, Counted
<1>. QED BY <1>1, <1>5, <1>6 DEF CacheFits, NamesFit

(* What a step that stores needs: the entry keeps what its key promises.   *)
LEMMA StoredFits ==
  ASSUME NEW cache, CacheFits(cache), NEW key \in Key, NEW entry \in Parsed,
         key.path \in Loaded => NotOlder(key, entry)
  PROVE  CacheFits(Stored(cache, key, entry))
<1>1. PICK stored : stored = Stored(cache, key, entry)
  OBVIOUS
<1>2. CacheTyped(cache) /\ Counted(cache)
  BY DEF CacheFits, Accounted
<1>3. /\ CacheTyped(stored) /\ Accounted(stored)
      /\ \A k \in DOMAIN stored.entries :
           \/ k = key /\ stored.entries[k] = entry
           \/ k \in DOMAIN cache.entries /\ stored.entries[k] = cache.entries[k]
  BY <1>1, <1>2, StoredIsAccounted
<1>4. \A k \in DOMAIN stored.entries : k.path \in Loaded => NotOlder(k, stored.entries[k])
  BY <1>3 DEF CacheFits
<1>. QED BY <1>1, <1>3, <1>4 DEF CacheFits

LEMMA NamesAfter ==
  ASSUME NEW names, NamesFit(names)
  PROVE  /\ \A S : NamesFit(Restrict(names, DOMAIN names \ S))
         /\ \A p \in Images \cup Resources : \A image \in Parsed : NamesFit(Put(names, p, image))
<1>1. ASSUME NEW S PROVE NamesFit(Restrict(names, DOMAIN names \ S))
  BY DEF NamesFit, Restrict
<1>2. ASSUME NEW p \in Images \cup Resources, NEW image \in Parsed
      PROVE  NamesFit(Put(names, p, image))
  BY DEF NamesFit, Put
<1>. QED BY <1>1, <1>2

LEMMA StoreImageFits ==
  ASSUME NEW names, NamesFit(names), CacheFits(images), NEW key \in Key, NEW image \in Parsed,
         key.path \in Loaded => NotOlder(key, image), StoreImageIn(names, key, image)
  PROVE  NamesFit(published') /\ CacheFits(images')
<1>1. CASE Fits(image)
  <2>1. images' = Stored(images, key, image) /\ \E S : published' = Restrict(names, DOMAIN names \ S)
    BY <1>1 DEF StoreImageIn
  <2>. QED BY <2>1, StoredFits, NamesAfter
<1>2. CASE ~Fits(image)
  <2>1. images' = images /\ \E S : published' = Restrict(names, DOMAIN names \ S)
    BY <1>2 DEF StoreImageIn
  <2>. QED BY <2>1, NamesAfter
<1>. QED BY <1>1, <1>2

-----------------------------------------------------------------------------
(* The steps.                                                              *)
LEMMA CachesStart == CachesInit => CachesInv
<1>1. SUFFICES ASSUME CachesInit PROVE CachesInv
  OBVIOUS
<1>2. disk \in [Paths -> Versions] /\ request = [c \in Documents |-> NoRequest]
  <2>1. 1 \in Versions
    BY CachesAssumption DEF Versions
  <2>. QED BY <1>1, <2>1 DEF CachesInit
<1>3. ASSUME NEW c \in Documents PROVE RequestFits(request[c], disk)
  <2>1. request[c] = NoRequest
    BY <1>2
  <2>. QED BY <2>1 DEF NoRequest, RequestFits, Requests, Steps
<1>4. request = [c \in Documents |-> request[c]]
  BY <1>2
<1>5. NamesFit(published) /\ CacheFits(images) /\ CacheFits(fonts)
  BY <1>1, EmptyFits DEF CachesInit
<1>6. NamedFit(named) /\ DocumentsFit(sharing, registered) /\ ExaminedFit(examined, disk)
  BY <1>1 DEF CachesInit, NamedFit, DocumentsFit, ExaminedFit, Empty
<1>. QED BY <1>2, <1>3, <1>4, <1>5, <1>6 DEF CachesInv

(* A step of one document that leaves the files alone, and one that leaves *)
(* alone what is kept by name and by document as well.                     *)
LEMMA FontSteps ==
  ASSUME CachesInv, NEW c \in Documents, NEW r, RequestFits(r, disk),
         request' = [request EXCEPT ![c] = r], UNCHANGED disk,
         NamesFit(published'), CacheFits(images'), CacheFits(fonts'),
         NamedFit(named'), DocumentsFit(sharing', registered'), ExaminedFit(examined', disk)
  PROVE  CachesInv'
<1>1. \A d \in Documents : request'[d] = IF d = c THEN r ELSE request[d]
  BY DEF CachesInv
<1>2. request' = [d \in Documents |-> request'[d]]
  BY DEF CachesInv
<1>3. \A d \in Documents : RequestFits(request'[d], disk')
  BY <1>1 DEF CachesInv
<1>4. disk' \in [Paths -> Versions] /\ ExaminedFit(examined', disk')
  BY DEF CachesInv
<1>. QED BY <1>2, <1>3, <1>4 DEF CachesInv

LEMMA RequestSteps ==
  ASSUME CachesInv, NEW c \in Documents, NEW r, RequestFits(r, disk),
         request' = [request EXCEPT ![c] = r], UNCHANGED <<disk, fontVars>>,
         NamesFit(published'), CacheFits(images'), CacheFits(fonts')
  PROVE  CachesInv'
<1>1. NamedFit(named') /\ DocumentsFit(sharing', registered') /\ ExaminedFit(examined', disk)
  BY DEF CachesInv, fontVars
<1>2. UNCHANGED disk
  OBVIOUS
<1>. QED BY <1>1, <1>2, FontSteps

(* What the request becomes.                                               *)
LEMMA Advanced ==
  ASSUME CachesInv, NEW c \in Documents, NEW step \in Steps, NEW image \in Parsed \cup {Nothing},
         Advance(c, step, image)
  PROVE  \E r : /\ request' = [request EXCEPT ![c] = r] /\ r \in Requests
                /\ r.step = step /\ r.key = request[c].key /\ r.image = image
<1>1. PICK r : r = [request[c] EXCEPT !.step = step, !.image = image]
  OBVIOUS
<1>2. request[c] \in Requests
  BY DEF CachesInv, RequestFits
<1>3. r \in Requests /\ r.step = step /\ r.key = request[c].key /\ r.image = image
  BY <1>1, <1>2 DEF Requests
<1>4. request' = [request EXCEPT ![c] = r]
  BY <1>1 DEF Advance, CachesInv
<1>. QED BY <1>3, <1>4

(* The steps that begin a request.                                         *)
LEMMA Begun ==
  ASSUME NEW c \in Documents, NEW step \in Steps, NEW key \in Key \cup Wish \cup {Nothing},
         NEW image \in Parsed \cup {Nothing}, Start(c, step, key, image)
  PROVE  \E r : /\ request' = [request EXCEPT ![c] = r] /\ r \in Requests
                /\ r.step = step /\ r.key = key /\ r.image = image
<1>1. PICK r : r = [step |-> step, key |-> key, image |-> image]
  OBVIOUS
<1>2. r \in Requests /\ r.step = step /\ r.key = key /\ r.image = image
  BY <1>1 DEF Requests
<1>. QED BY <1>1, <1>2 DEF Start

LEMMA ExamineFits ==
  ASSUME CachesInv, NEW c \in Documents, NEW p \in Paths, NEW o \in Options, Examine(c, p, o)
  PROVE  CachesInv'
<1>1. PICK k : k = [path |-> p, version |-> disk[p], options |-> o]
  OBVIOUS
<1>2. k \in Key /\ k.path = p /\ k.version = disk[p] /\ disk[p] <= disk[p]
  BY <1>1 DEF Key, Parsed, CachesInv, Versions
<1>3. Start(c, "lookup", k, Nothing)
  BY <1>1 DEF Examine
<1>4. PICK r : /\ request' = [request EXCEPT ![c] = r] /\ r \in Requests
               /\ r.step = "lookup" /\ r.key = k /\ r.image = Nothing
  BY <1>2, <1>3, Begun DEF Steps
<1>5. RequestFits(r, disk)
  BY <1>2, <1>4 DEF RequestFits
<1>6. UNCHANGED <<disk, fontVars>> /\ NamesFit(published') /\ CacheFits(images') /\ CacheFits(fonts')
  BY DEF Examine, CachesInv
<1>. QED BY <1>4, <1>5, <1>6, RequestSteps

LEMMA FindNamedFits ==
  ASSUME CachesInv, NEW c \in Documents, NEW o \in Options, FindNamed(c, o)
  PROVE  CachesInv'
<1>1. PICK key, image : /\ key = named[o].key /\ image = named[o].image
                        /\ key \in Key /\ image \in Parsed /\ NotOlder(key, image)
  BY DEF FindNamed, CachesInv, NamedFit
<1>2. Start(c, "done", key, image)
  BY <1>1 DEF FindNamed
<1>3. PICK r : /\ request' = [request EXCEPT ![c] = r] /\ r \in Requests
               /\ r.step = "done" /\ r.key = key /\ r.image = image
  BY <1>1, <1>2, Begun DEF Steps
<1>4. RequestFits(r, disk)
  BY <1>1, <1>3 DEF RequestFits
<1>5. UNCHANGED <<disk, fontVars>> /\ NamesFit(published') /\ CacheFits(images') /\ CacheFits(fonts')
  BY DEF FindNamed, CachesInv
<1>. QED BY <1>3, <1>4, <1>5, RequestSteps

LEMMA MissNamedFits ==
  ASSUME CachesInv, NEW c \in Documents, NEW p \in Fonts, NEW o \in Options,
         MissNamed(c, p, o) \/ Load(c, p, o)
  PROVE  CachesInv'
<1>1. UNCHANGED <<disk, fontVars>> /\ NamesFit(published') /\ CacheFits(images') /\ CacheFits(fonts')
  BY DEF MissNamed, Load, CachesInv
<1>2. CASE MissNamed(c, p, o)
  <2>1. PICK w : w = [path |-> p, options |-> o]
    OBVIOUS
  <2>2. w \in Wish /\ Start(c, "missed", w, Nothing)
    BY <1>2, <2>1 DEF Wish, MissNamed
  <2>3. PICK r : /\ request' = [request EXCEPT ![c] = r] /\ r \in Requests
                 /\ r.step = "missed" /\ r.key = w /\ r.image = Nothing
    BY <2>2, Begun DEF Steps
  <2>4. RequestFits(r, disk)
    BY <2>2, <2>3 DEF RequestFits
  <2>. QED BY <1>1, <2>3, <2>4, RequestSteps
<1>3. CASE Load(c, p, o)
  <2>1. PICK k : k = [path |-> p, version |-> disk[p], options |-> o]
    OBVIOUS
  <2>2. k \in Key /\ k \in Parsed /\ k.version >= k.version
    BY <2>1 DEF Key, Parsed, CachesInv, Paths, Versions
  <2>3. NotOlder(k, k) /\ Start(c, "loaded", k, k)
    BY <1>3, <2>1, <2>2 DEF NotOlder, Load
  <2>4. PICK r : /\ request' = [request EXCEPT ![c] = r] /\ r \in Requests
                 /\ r.step = "loaded" /\ r.key = k /\ r.image = k
    BY <2>2, <2>3, Begun DEF Steps
  <2>5. RequestFits(r, disk)
    BY <2>2, <2>3, <2>4 DEF RequestFits
  <2>. QED BY <1>1, <2>4, <2>5, RequestSteps
<1>. QED BY <1>2, <1>3

LEMMA ExamineFontFits ==
  ASSUME CachesInv, NEW c \in Documents, ExamineFont(c)
  PROVE  CachesInv'
<1>1. PICK w : w = request[c].key
  OBVIOUS
<1>2. w \in Wish /\ w.path \in Fonts /\ w.path \in Paths /\ w.options \in Options
  BY <1>1 DEF ExamineFont, At, CachesInv, RequestFits, Wish, Paths
<1>3. PICK version : version = IF w.path \in DOMAIN examined[c] THEN examined[c][w.path] ELSE disk[w.path]
  OBVIOUS
<1>4. version \in Versions /\ version <= disk[w.path]
  <2>1. disk[w.path] \in Versions /\ disk[w.path] <= disk[w.path]
    BY <1>2 DEF CachesInv, Versions
  <2>2. w.path \in DOMAIN examined[c] =>
          examined[c][w.path] \in Versions /\ examined[c][w.path] <= disk[w.path]
    BY DEF CachesInv, ExaminedFit
  <2>. QED BY <1>3, <2>1, <2>2
<1>5. PICK k : k = [path |-> w.path, version |-> version, options |-> w.options]
  OBVIOUS
<1>6. k \in Key /\ k.version <= disk[k.path]
  BY <1>2, <1>4, <1>5 DEF Key, Parsed
<1>7. /\ examined' = [examined EXCEPT ![c] = Put(@, w.path, version)]
      /\ Start(c, "lookup", k, Nothing)
  BY <1>1, <1>3, <1>5 DEF ExamineFont, Path
<1>8. PICK r : /\ request' = [request EXCEPT ![c] = r] /\ r \in Requests
               /\ r.step = "lookup" /\ r.key = k /\ r.image = Nothing
  BY <1>6, <1>7, Begun DEF Steps
<1>9. RequestFits(r, disk)
  BY <1>6, <1>8 DEF RequestFits
<1>10. ExaminedFit(examined', disk)
  <2>1. ExaminedFit(examined, disk)
    BY DEF CachesInv
  <2>2. \A d \in Documents : examined'[d] = IF d = c THEN Put(examined[c], w.path, version) ELSE examined[d]
    BY <1>7, <2>1 DEF ExaminedFit
  <2>3. examined' = [d \in Documents |-> examined'[d]]
    BY <1>7, <2>1 DEF ExaminedFit
  <2>4. ASSUME NEW d \in Documents
        PROVE  /\ DOMAIN examined'[d] \subseteq Fonts
               /\ \A p \in DOMAIN examined'[d] : examined'[d][p] \in Versions /\ examined'[d][p] <= disk[p]
    <3>1. PICK seen : seen = Put(examined[c], w.path, version)
      OBVIOUS
    <3>2. /\ DOMAIN seen \subseteq Fonts
          /\ \A p \in DOMAIN seen : seen[p] \in Versions /\ seen[p] <= disk[p]
      BY <1>2, <1>4, <2>1, <3>1 DEF ExaminedFit, Put
    <3>3. CASE d = c
      BY <2>2, <3>1, <3>2, <3>3
    <3>4. CASE d # c
      BY <2>1, <2>2, <3>4 DEF ExaminedFit
    <3>. QED BY <3>3, <3>4
  <2>. QED BY <2>3, <2>4 DEF ExaminedFit
<1>11. /\ UNCHANGED disk /\ NamesFit(published') /\ CacheFits(images') /\ CacheFits(fonts')
       /\ NamedFit(named') /\ DocumentsFit(sharing', registered')
  BY DEF ExamineFont, CachesInv
<1>. QED BY <1>8, <1>9, <1>10, <1>11, FontSteps

(* The steps that store nothing.                                           *)
LEMMA FindFits ==
  ASSUME CachesInv, NEW c \in Documents, Find(c)
  PROVE  CachesInv'
<1> DEFINE key == request[c].key
<1>1. /\ At(c, "lookup") /\ RequestFits(request[c], disk) /\ CacheFits(fonts) /\ CacheFits(images)
  BY DEF Find, CachesInv
<1>2. key \in Key /\ key.version <= disk[key.path]
  BY <1>1 DEF At, RequestFits
<1>3. UNCHANGED <<disk, fontVars>> /\ NamesFit(published') /\ CacheFits(images') /\ CacheFits(fonts')
  BY DEF Find, CachesInv
<1>4. ASSUME NEW entry \in Parsed, NEW step \in {"keyed", "found"}, Advance(c, step, entry),
             key.path \in Loaded => NotOlder(key, entry),
             step = "found" => key.path \notin Fonts, step = "keyed" => key.path \in Fonts
      PROVE  CachesInv'
  <2>1. step \in Steps
    BY DEF Steps
  <2>2. PICK r : /\ request' = [request EXCEPT ![c] = r] /\ r \in Requests
                 /\ r.step = step /\ r.key = key /\ r.image = entry
    BY <1>4, <2>1, Advanced
  <2>3. RequestFits(r, disk)
    BY <1>2, <1>4, <2>2 DEF RequestFits, Loaded
  <2>. QED BY <1>3, <2>2, <2>3, RequestSteps
<1>5. ASSUME Advance(c, "read", Nothing) PROVE CachesInv'
  <2>1. PICK r : /\ request' = [request EXCEPT ![c] = r] /\ r \in Requests
                 /\ r.step = "read" /\ r.key = key
    BY <1>5, Advanced DEF Steps
  <2>2. RequestFits(r, disk)
    BY <1>2, <2>1 DEF RequestFits
  <2>. QED BY <1>3, <2>1, <2>2, RequestSteps
<1>6. CASE Path(c) \in Fonts /\ key \in DOMAIN fonts.entries
  <2>1. Advance(c, "keyed", fonts.entries[key]) /\ key.path \in Fonts
    BY <1>6 DEF Find, Path
  <2>2. fonts.entries[key] \in Parsed /\ (key.path \in Loaded => NotOlder(key, fonts.entries[key]))
    BY <1>1, <1>6 DEF CacheFits, CacheTyped
  <2>. QED BY <1>4, <2>1, <2>2
<1>7. CASE Path(c) \notin Fonts /\ key \in DOMAIN images.entries
  <2>1. Advance(c, "found", images.entries[key])
    BY <1>7 DEF Find
  <2>2. images.entries[key] \in Parsed /\ (key.path \in Loaded => NotOlder(key, images.entries[key]))
    BY <1>1, <1>7 DEF CacheFits, CacheTyped
  <2>. QED BY <1>4, <1>7, <2>1, <2>2 DEF Path
<1>8. CASE key \notin DOMAIN (IF Path(c) \in Fonts THEN fonts ELSE images).entries
  BY <1>5, <1>8 DEF Find
<1>. QED BY <1>6, <1>7, <1>8

LEMMA ReadFits ==
  ASSUME CachesInv, NEW c \in Documents, Read(c)
  PROVE  CachesInv'
<1> DEFINE key == request[c].key
<1>1. At(c, "read") /\ RequestFits(request[c], disk)
  BY DEF Read, CachesInv
<1>2. key \in Key /\ key.version <= disk[key.path] /\ disk \in [Paths -> Versions]
  BY <1>1 DEF At, RequestFits, CachesInv
<1>3. UNCHANGED <<disk, fontVars>> /\ NamesFit(published') /\ CacheFits(images') /\ CacheFits(fonts')
  BY DEF Read, CachesInv
<1>4. ASSUME NEW image \in Parsed, Advance(c, "parsed", image), NotOlder(key, image)
      PROVE  CachesInv'
  <2>1. PICK r : /\ request' = [request EXCEPT ![c] = r] /\ r \in Requests
                 /\ r.step = "parsed" /\ r.key = key /\ r.image = image
    BY <1>4, Advanced DEF Steps
  <2>2. RequestFits(r, disk)
    BY <1>2, <1>4, <2>1 DEF RequestFits
  <2>. QED BY <1>3, <2>1, <2>2, RequestSteps
<1>5. ASSUME Advance(c, "done", Nothing) PROVE CachesInv'
  <2>1. PICK r : /\ request' = [request EXCEPT ![c] = r] /\ r \in Requests
                 /\ r.step = "done" /\ r.key = key /\ r.image = Nothing
    BY <1>5, Advanced DEF Steps
  <2>2. RequestFits(r, disk)
    BY <1>2, <2>1 DEF RequestFits
  <2>. QED BY <1>3, <2>1, <2>2, RequestSteps
<1>6. PICK now : now = [key EXCEPT !.version = disk[Path(c)]]
  OBVIOUS
<1>7. key \in Parsed /\ now \in Parsed /\ NotOlder(key, key) /\ NotOlder(key, now)
  <2>1. key.path \in Paths /\ key.version \in Versions /\ disk[key.path] \in Versions
    BY <1>2 DEF Key, Parsed
  <2>2. key.version >= key.version /\ disk[key.path] >= key.version
    BY <1>2, <2>1 DEF Versions
  <2>3. key \in Parsed /\ now \in Parsed /\ now.path = key.path /\ now.options = key.options
        /\ now.version = disk[key.path]
    BY <1>2, <1>6, <2>1 DEF Key, Parsed, Path
  <2>. QED BY <2>2, <2>3 DEF NotOlder
<1>. QED BY <1>4, <1>5, <1>6, <1>7 DEF Read

(* The steps that publish or store, and the end of a request.              *)
LEMMA PublishFits ==
  ASSUME CachesInv, NEW c \in Documents, PublishFound(c) \/ PublishParsed(c)
  PROVE  CachesInv'
<1> DEFINE key == request[c].key
           image == request[c].image
<1>1. RequestFits(request[c], disk) /\ request[c].step \in {"found", "parsed"}
      /\ (request[c].step = "parsed" => PublishParsed(c))
      /\ (request[c].step = "found" => PublishFound(c))
  BY DEF PublishFound, PublishParsed, At, CachesInv
<1>2. key \in Key /\ image \in Parsed /\ (key.path \in Loaded => NotOlder(key, image))
  BY <1>1 DEF RequestFits
<1>3. key.path \in Images \cup Resources
  BY <1>1, <1>2 DEF RequestFits, PublishParsed, Path, Key, Parsed, Paths
<1>4. /\ UNCHANGED <<disk, images, fonts, fontVars>> /\ published' = Put(published, key.path, image)
      /\ \E step \in {"done", "published"} :
           Advance(c, step, image) /\ (step = "published" => key.path \in Images)
  BY DEF PublishFound, PublishParsed, Path
<1>5. NamesFit(published') /\ CacheFits(images') /\ CacheFits(fonts')
  BY <1>2, <1>3, <1>4, NamesAfter DEF CachesInv
<1>6. PICK step \in {"done", "published"} :
        Advance(c, step, image) /\ (step = "published" => key.path \in Images)
  BY <1>4
<1>7. PICK r : /\ request' = [request EXCEPT ![c] = r] /\ r \in Requests
               /\ r.step = step /\ r.key = key /\ r.image = image
  BY <1>2, <1>6, Advanced DEF Steps
<1>8. RequestFits(r, disk)
  BY <1>2, <1>6, <1>7 DEF RequestFits
<1>. QED BY <1>4, <1>5, <1>7, <1>8, RequestSteps

LEMMA StoreFits ==
  ASSUME CachesInv, NEW c \in Documents, StorePublished(c) \/ StoreResource(c) \/ StoreFont(c)
  PROVE  CachesInv'
<1> DEFINE key == request[c].key
           image == request[c].image
<1>1. /\ RequestFits(request[c], disk) /\ UNCHANGED <<disk, fontVars>>
      /\ \E step \in {"done", "keyed"} :
           Advance(c, step, image) /\ (step = "keyed" => StoreFont(c))
      /\ NamesFit(published) /\ CacheFits(images) /\ CacheFits(fonts)
  BY DEF StorePublished, StoreResource, StoreFont, CachesInv
<1>2. request[c].step \in {"parsed", "published"}
  BY DEF StorePublished, StoreResource, StoreFont, At
<1>3. /\ key \in Key /\ image \in Parsed
      /\ (request[c].step = "parsed" /\ key.path \in Loaded => NotOlder(key, image))
      /\ (request[c].step = "published" => key.path \in Images /\ key.path \notin Loaded)
  BY <1>1, <1>2, CachesAssumption DEF RequestFits, Loaded
<1>4. PICK step \in {"done", "keyed"} :
        Advance(c, step, image) /\ (step = "keyed" => StoreFont(c))
  BY <1>1
<1>5. PICK r : /\ request' = [request EXCEPT ![c] = r] /\ r \in Requests
               /\ r.step = step /\ r.key = key /\ r.image = image
  BY <1>3, <1>4, Advanced DEF Steps
<1>6. RequestFits(r, disk)
  <2>1. step = "keyed" => request[c].step = "parsed" /\ key.path \in Loaded
    BY <1>4 DEF StoreFont, At, Path, Loaded
  <2>. QED BY <1>2, <1>3, <1>5, <2>1 DEF RequestFits
<1>7. NamesFit(published') /\ CacheFits(images') /\ CacheFits(fonts')
  <2>1. CASE StorePublished(c)
    <3>1. request[c].step = "published" /\ UNCHANGED fonts
      BY <2>1 DEF StorePublished, At
    <3>2. CASE key.path \in DOMAIN published
      <4>1. StoreImageIn(published, key, published[key.path]) /\ published[key.path] \in Parsed
        BY <1>1, <2>1, <3>2 DEF StorePublished, NamesFit, Path
      <4>. QED BY <1>1, <1>3, <3>1, <4>1, StoreImageFits
    <3>3. CASE key.path \notin DOMAIN published
      BY <1>1, <2>1, <3>3 DEF StorePublished, Path
    <3>. QED BY <3>2, <3>3
  <2>2. CASE StoreResource(c)
    <3>1. /\ request[c].step = "parsed" /\ UNCHANGED fonts /\ key.path \in Resources
          /\ StoreImageIn(Put(published, key.path, image), key, image)
      BY <2>2 DEF StoreResource, At, Path
    <3>2. NamesFit(Put(published, key.path, image))
      BY <1>1, <1>3, <3>1, NamesAfter
    <3>. QED BY <1>1, <1>3, <3>1, <3>2, StoreImageFits
  <2>3. CASE StoreFont(c)
    <3>1. /\ request[c].step = "parsed" /\ UNCHANGED <<published, images>>
          /\ fonts' = IF Fits(image) THEN Stored(fonts, key, image) ELSE fonts
      BY <2>3 DEF StoreFont, At
    <3>. QED BY <1>1, <1>3, <3>1, StoredFits
  <2>. QED BY <2>1, <2>2, <2>3
<1>. QED BY <1>1, <1>5, <1>6, <1>7, RequestSteps

LEMMA NoRequestFits == RequestFits(NoRequest, disk)
BY DEF NoRequest, RequestFits, Requests, Steps

LEMMA PutNamedFits ==
  ASSUME CachesInv, NEW c \in Documents, PutNamed(c) \/ PutLoaded(c)
  PROVE  CachesInv'
<1> DEFINE key == request[c].key
           image == request[c].image
<1>1. /\ request[c].step \in {"keyed", "loaded"} /\ RequestFits(request[c], disk) /\ NamedFit(named)
      /\ UNCHANGED <<disk, sharing, registered, examined>>
      /\ NamesFit(published') /\ CacheFits(images') /\ CacheFits(fonts')
      /\ named' \in {named, NamedAfter(c)}
  BY DEF PutNamed, PutLoaded, At, CachesInv
<1>2. key \in Key /\ image \in Parsed /\ NotOlder(key, image) /\ key.options \in Options
  BY <1>1 DEF RequestFits, Key, Parsed
<1>3. NamedFit(NamedAfter(c))
  <2>1. PICK e : e = [key |-> key, image |-> image]
    OBVIOUS
  <2>2. e \in [key: Key, image: Parsed] /\ e.key = key /\ e.image = image
    BY <1>2, <2>1
  <2>3. NamedAfter(c) = Put(named, key.options, e)
    BY <2>1 DEF NamedAfter
  <2>. QED BY <1>1, <1>2, <2>2, <2>3 DEF NamedFit, Put
<1>4. NamedFit(named')
  BY <1>1, <1>3
<1>5. DocumentsFit(sharing', registered') /\ ExaminedFit(examined', disk) /\ UNCHANGED disk
  BY <1>1 DEF CachesInv
<1>6. CASE PutNamed(c)
  <2>1. PICK r : /\ request' = [request EXCEPT ![c] = r] /\ r \in Requests
                 /\ r.step = "done" /\ r.key = key /\ r.image = image
    BY <1>2, <1>6, Advanced DEF Steps, PutNamed
  <2>2. RequestFits(r, disk)
    BY <1>2, <2>1 DEF RequestFits
  <2>. QED BY <1>1, <1>4, <1>5, <2>1, <2>2, FontSteps
<1>7. CASE PutLoaded(c)
  <2>1. request' = [request EXCEPT ![c] = NoRequest]
    BY <1>7 DEF PutLoaded
  <2>. QED BY <1>1, <1>4, <1>5, <2>1, NoRequestFits, FontSteps
<1>. QED BY <1>6, <1>7

LEMMA AnswerFits ==
  ASSUME CachesInv, NEW c \in Documents, Answer(c)
  PROVE  CachesInv'
<1>1. /\ request' = [request EXCEPT ![c] = NoRequest] /\ UNCHANGED disk
      /\ NamesFit(published') /\ CacheFits(images') /\ CacheFits(fonts')
      /\ NamedFit(named') /\ ExaminedFit(examined', disk)
  BY DEF Answer, CachesInv
<1>2. request[c].key.options \in Options
  BY DEF Answer, At, CachesInv, RequestFits, Key, Parsed
<1>3. DocumentsFit(sharing', registered')
  <2>1. sharing' \subseteq Documents /\ registered \in [Documents -> SUBSET Options]
    BY DEF Answer, CachesInv, DocumentsFit
  <2>2. \/ registered' = registered
        \/ registered' = [registered EXCEPT ![c] = @ \cup {request[c].key.options}]
    BY DEF Answer
  <2>. QED BY <1>2, <2>1, <2>2 DEF DocumentsFit
<1>. QED BY <1>1, <1>3, NoRequestFits, FontSteps

(* A document that forgets, or is begun anew.                              *)
LEMMA ForgetFits ==
  ASSUME CachesInv, NEW c \in Documents, SetFontLocation(c) \/ NewDocument(c)
  PROVE  CachesInv'
<1>1. /\ UNCHANGED <<disk, published, images, fonts, named, request>>
      /\ examined' = [examined EXCEPT ![c] = Empty]
      /\ sharing' \in {sharing, sharing \cup {c}, sharing \ {c}}
      /\ registered' \in {registered, [registered EXCEPT ![c] = {}]}
  BY DEF SetFontLocation, NewDocument
<1>2. DocumentsFit(sharing', registered')
  <2>1. sharing \subseteq Documents /\ registered \in [Documents -> SUBSET Options]
    BY DEF CachesInv, DocumentsFit
  <2>2. sharing' \subseteq Documents
    BY <1>1, <2>1
  <2>3. registered' \in [Documents -> SUBSET Options]
    BY <1>1, <2>1
  <2>. QED BY <2>2, <2>3 DEF DocumentsFit
<1>3. ExaminedFit(examined', disk)
  <2>1. ExaminedFit(examined, disk) /\ DOMAIN Empty = {}
    BY DEF CachesInv, Empty
  <2>. QED BY <1>1, <2>1 DEF ExaminedFit
<1>. QED BY <1>1, <1>2, <1>3 DEF CachesInv

LEMMA CachesStep == CachesInv /\ [CachesNext]_cacheVars => CachesInv'
<1>1. SUFFICES ASSUME CachesInv, [CachesNext]_cacheVars PROVE CachesInv'
  OBVIOUS
<1> USE <1>1
<1>2. ASSUME NEW c \in Documents,
             \/ \E p \in Paths, o \in Options : Examine(c, p, o)
             \/ \E o \in Options : FindNamed(c, o)
             \/ \E p \in Fonts, o \in Options : MissNamed(c, p, o) \/ Load(c, p, o)
             \/ ExamineFont(c) \/ Find(c) \/ PublishFound(c) \/ Read(c) \/ PublishParsed(c)
             \/ StorePublished(c) \/ StoreResource(c) \/ StoreFont(c)
             \/ PutNamed(c) \/ PutLoaded(c) \/ Answer(c)
             \/ SetFontLocation(c) \/ NewDocument(c)
      PROVE  CachesInv'
  BY <1>2, ExamineFits, FindNamedFits, MissNamedFits, ExamineFontFits, FindFits, ReadFits,
     PublishFits, StoreFits, PutNamedFits, AnswerFits, ForgetFits
<1>3. CASE ClearImages \/ ClearFonts \/ ClearNamed
  <2>1. NamedFit(Empty)
    BY DEF NamedFit, Empty
  <2>2. /\ UNCHANGED <<disk, request, sharing, registered, examined>>
        /\ NamesFit(published') /\ CacheFits(images') /\ CacheFits(fonts') /\ NamedFit(named')
    BY <1>3, <2>1, EmptyFits DEF ClearImages, ClearFonts, ClearNamed, CachesInv, fontVars
  <2>. QED BY <2>2 DEF CachesInv
<1>4. ASSUME NEW p \in Paths, Replace(p) PROVE CachesInv'
  <2>1. /\ disk' = [disk EXCEPT ![p] = @ + 1] /\ disk[p] < MaxVersion
        /\ UNCHANGED <<published, images, fonts, fontVars, request>> /\ disk \in [Paths -> Versions]
    BY <1>4 DEF Replace, CachesInv
  <2>2. disk' \in [Paths -> Versions] /\ \A q \in Paths : disk[q] <= disk'[q] /\ disk[q] \in Int /\ disk'[q] \in Int
    BY <2>1, CachesAssumption DEF Versions
  <2>3. ASSUME NEW c \in Documents PROVE RequestFits(request[c], disk')
    <3>1. RequestFits(request[c], disk)
      BY DEF CachesInv
    <3>2. \A k \in Key : k.path \in Paths /\ k.version \in Int
      BY DEF Key, Parsed, Versions
    <3>3. request[c].step \in {"lookup", "read"} =>
            request[c].key.version <= disk'[request[c].key.path]
      BY <2>2, <3>1, <3>2 DEF RequestFits
    <3>. QED BY <3>1, <3>3 DEF RequestFits
  <2>4. NamesFit(published') /\ CacheFits(images') /\ CacheFits(fonts')
    BY <2>1 DEF CachesInv
  <2>5. ExaminedFit(examined', disk')
    <3>1. examined' = examined /\ ExaminedFit(examined, disk)
      BY <2>1 DEF CachesInv, fontVars
    <3>2. \A c \in Documents : \A q \in DOMAIN examined[c] :
            /\ q \in Paths /\ examined[c][q] \in Int /\ examined[c][q] <= disk'[q]
      BY <2>2, <3>1 DEF ExaminedFit, Versions, Paths
    <3>. QED BY <3>1, <3>2 DEF ExaminedFit
  <2>6. NamedFit(named') /\ DocumentsFit(sharing', registered') /\ UNCHANGED request
    BY <2>1 DEF CachesInv, fontVars
  <2>. QED BY <2>2, <2>3, <2>4, <2>5, <2>6 DEF CachesInv
<1>5. CASE UNCHANGED cacheVars
  BY <1>5 DEF cacheVars, CachesInv
<1>. QED BY <1>2, <1>3, <1>4, <1>5 DEF CachesNext

(* Through replaced entries, oversized entries, evictions and clearing, in *)
(* any interleaving, a cache's queue holds each stored key exactly once    *)
(* and its count is what the entries take, within the limit (storeFile-    *)
(* ImageLocked, storeSharedUTF8FontFile).                                  *)
THEOREM CachesStayAccounted == CachesSpec => []CachesAccounted
BY CachesStart, CachesStep, CachesFit, PTL DEF CachesSpec

(* However calls, replacements of files, evictions and clearings           *)
(* interleave, a font or loaded resource is answered no older than the key *)
(* it was looked up with, by this call or by the one that put it in the    *)
(* FontCache (cachedUTF8FontFromFile, addUTF8Font, storeResourceImage).    *)
THEOREM NothingOutlivesItsKey == CachesSpec => []NoneOlderThanItsKey
BY CachesStart, CachesStep, CachesFit, PTL DEF CachesSpec
=============================================================================

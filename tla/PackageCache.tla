---------------------------- MODULE PackageCache ----------------------------
(***************************************************************************)
(* The content-addressed package cache of internal/paperpkg: Install       *)
(* stages a tree beside its final place, flushes it, and renames it there; *)
(* lookup reads and verifies a published tree and takes no lock.           *)
(*                                                                         *)
(* Processes share the directory.  The striped install locks are memory of *)
(* one process.  A process can die, which frees its locks and abandons its *)
(* stages under names that nobody uses again, and the machine can lose     *)
(* power, which also loses what was not flushed.  The directory of the     *)
(* project is flushed but the directory that holds it never is, so a power *)
(* loss may take any published tree away.                                  *)
(***************************************************************************)
EXTENDS FiniteSets

CONSTANTS
  Callers,     \* goroutines that use the cache
  Processes,
  Packages,    \* addresses: a project and a content digest
  Stripes,
  Stripe,      \* Stripe[p]: the lock of package p
  Files,       \* the files of a package
  Manifest,    \* the name of its manifest
  NoTree,
  None

ASSUME CacheConstants ==
  /\ Stripe \in [Packages -> Stripes]
  /\ Manifest \notin Files
  /\ None \notin Callers \cup Packages

VARIABLES
  process,  \* process[c]: where caller c runs
  base,   \* base[p]: the published tree of package p
  stage,  \* stage[c]: the tree that caller c is staging
  lock,   \* lock[proc][s]: who holds stripe s in process proc
  call    \* the state of each call

vars == <<process, base, stage, lock, call>>

Names == Files \cup {Manifest}

(* What a tree holds under each name, and which names its directories were *)
(* flushed with.                                                           *)
Tree == [content : [Names -> {"absent", "unsynced", "synced", "torn"}], listed : SUBSET Names]
ASSUME NoTreeIsNone == NoTree \notin Tree

EmptyTree == [content |-> [n \in Names |-> "absent"], listed |-> {}]

Readable(tree, n) == tree.content[n] \in {"unsynced", "synced"}
Whole(tree) == \A n \in Names : Readable(tree, n)

(* A lookup runs on its own and three times in an Install: before staging, *)
(* when the rename fails, and after it.                                    *)
LookupPhases == {"lookup", "check", "verify", "confirm"}
Phases == LookupPhases \cup
  {"idle", "wait", "stage", "write", "manifest", "sync", "publish", "flush", "done"}

(* reading is how far a lookup is.                                         *)
Call == [phase : Phases, package : Packages \cup {None}, install : BOOLEAN,
         reading : {"manifest", "directory", "files"}, cancelled : BOOLEAN,
         errors : SUBSET {"cancelled", "corrupt", "io"}]

Idle == [phase |-> "idle", package |-> None, install |-> FALSE, reading |-> "manifest",
         cancelled |-> FALSE, errors |-> {}]

TypeOK ==
  /\ process \in [Callers -> Processes]
  /\ base \in [Packages -> Tree \cup {NoTree}]
  /\ stage \in [Callers -> Tree \cup {NoTree}]
  /\ lock \in [Processes -> [Stripes -> Callers \cup {None}]]
  /\ call \in [Callers -> Call]

Init ==
  /\ process \in [Callers -> Processes]
  /\ base = [p \in Packages |-> NoTree]
  /\ stage = [c \in Callers |-> NoTree]
  /\ lock = [proc \in Processes |-> [s \in Stripes |-> None]]
  /\ call = [c \in Callers |-> Idle]
-----------------------------------------------------------------------------
Base(c) == base[call[c].package]

GoTo(c, phase) ==
  call' = [call EXCEPT ![c] = [@ EXCEPT !.phase = phase, !.reading = "manifest"]]

Finish(c, errors) ==
  call' = [call EXCEPT ![c] = [@ EXCEPT !.phase = "done", !.errors = errors]]

Lookup(c, p) ==
  /\ call[c].phase = "idle"
  /\ call' = [call EXCEPT ![c] = [Idle EXCEPT !.phase = "lookup", !.package = p]]
  /\ UNCHANGED <<base, stage, lock>>

(* The plan was validated and its digest is the address.                   *)
Install(c, p) ==
  /\ call[c].phase = "idle"
  /\ call' = [call EXCEPT ![c] = [Idle EXCEPT !.phase = "wait", !.package = p, !.install = TRUE]]
  /\ UNCHANGED <<base, stage, lock>>

(* The caller's context ends.                                              *)
Cancel(c) ==
  /\ call[c].phase \notin {"idle", "done"}
  /\ call' = [call EXCEPT ![c].cancelled = TRUE]
  /\ UNCHANGED <<base, stage, lock>>

(* Mutant: an install does not wait for the others.                        *)
AcquireUnlocked(c) ==
  /\ call[c].phase = "wait"
  /\ GoTo(c, "check")
  /\ UNCHANGED <<base, stage, lock>>

Acquire(c) ==
  LET s == Stripe[call[c].package] IN
  /\ call[c].phase = "wait"
  /\ lock[process[c]][s] = None
  /\ lock' = [lock EXCEPT ![process[c]][s] = c]
  /\ GoTo(c, "check")
  /\ UNCHANGED <<base, stage>>

GiveUp(c) ==
  /\ call[c].phase = "wait"
  /\ call[c].cancelled
  /\ Finish(c, {"cancelled"})
  /\ UNCHANGED <<base, stage, lock>>
-----------------------------------------------------------------------------
(* Where a lookup goes when there is no package, and when there is one.    *)
Missing(c) ==
  CASE call[c].phase = "lookup"  -> Finish(c, {})
    [] call[c].phase = "check"   -> GoTo(c, "stage")
    [] call[c].phase = "verify"  -> Finish(c, {"io"})
    [] call[c].phase = "confirm" -> Finish(c, {"corrupt"})

Found(c) == Finish(c, {})

(* A cancellation while a file is read is reported as corruption too.      *)
ReadFails(c) ==
  Finish(c, IF call[c].cancelled THEN {"corrupt", "cancelled"} ELSE {"corrupt"})

(* A cancellation is seen before the manifest is opened, or while it is    *)
(* read.                                                                   *)
ReadManifest(c) ==
  /\ call[c].phase \in LookupPhases /\ call[c].reading = "manifest"
  /\ \/ call[c].cancelled /\ Finish(c, {"cancelled"})
     \/ IF Base(c) = NoTree \/ Base(c).content[Manifest] = "absent"
        THEN call' = [call EXCEPT ![c].reading = "directory"]
        ELSE IF call[c].cancelled \/ ~Readable(Base(c), Manifest) THEN ReadFails(c)
        ELSE call' = [call EXCEPT ![c].reading = "files"]
  /\ UNCHANGED <<base, stage, lock>>

(* No manifest: corrupt if there is a directory by now.                    *)
StatDirectory(c) ==
  /\ call[c].phase \in LookupPhases /\ call[c].reading = "directory"
  /\ IF Base(c) = NoTree THEN Missing(c) ELSE Finish(c, {"corrupt"})
  /\ UNCHANGED <<base, stage, lock>>

ReadFiles(c) ==
  /\ call[c].phase \in LookupPhases /\ call[c].reading = "files"
  /\ IF call[c].cancelled \/ Base(c) = NoTree \/ ~Whole(Base(c)) THEN ReadFails(c) ELSE Found(c)
  /\ UNCHANGED <<base, stage, lock>>

(* Whatever else prevents reading is reported as corruption, with the      *)
(* error of the file system.                                               *)
ReadError(c) ==
  /\ call[c].phase \in LookupPhases
  /\ Finish(c, {"corrupt", "io"})
  /\ UNCHANGED <<base, stage, lock>>
-----------------------------------------------------------------------------
CreateStage(c) ==
  /\ call[c].phase = "stage"
  /\ stage' = [stage EXCEPT ![c] = EmptyTree]
  /\ GoTo(c, "write")
  /\ UNCHANGED <<base, lock>>

(* Mutant: a staged file is closed without being flushed.                  *)
WrittenUnsynced(tree, n) == [tree EXCEPT !.content[n] = "unsynced"]

Written(tree, n) == [tree EXCEPT !.content[n] = "synced"]

WriteFile(c, f) ==
  /\ call[c].phase = "write"
  /\ stage[c].content[f] = "absent"
  /\ IF call[c].cancelled
     THEN Finish(c, {"cancelled"}) /\ UNCHANGED stage
     ELSE stage' = [stage EXCEPT ![c] = Written(@, f)] /\ UNCHANGED call
  /\ UNCHANGED <<base, lock>>

(* The directories of the stage are flushed, the deepest first.            *)
SyncDirectories(c) ==
  /\ call[c].phase = "write"
  /\ \A f \in Files : stage[c].content[f] # "absent"
  /\ stage' = [stage EXCEPT ![c].listed = Files]
  /\ GoTo(c, "manifest")
  /\ UNCHANGED <<base, lock>>

WriteManifest(c) ==
  /\ call[c].phase = "manifest"
  /\ IF call[c].cancelled
     THEN Finish(c, {"cancelled"}) /\ UNCHANGED stage
     ELSE stage' = [stage EXCEPT ![c] = Written(@, Manifest)] /\ GoTo(c, "sync")
  /\ UNCHANGED <<base, lock>>

SyncStage(c) ==
  /\ call[c].phase = "sync"
  /\ stage' = [stage EXCEPT ![c].listed = Names]
  /\ GoTo(c, "publish")
  /\ UNCHANGED <<base, lock>>

(* A rename does not replace a tree, and may fail where there is none.     *)
Publish(c) ==
  /\ call[c].phase = "publish"
  /\ IF call[c].cancelled
     THEN Finish(c, {"cancelled"}) /\ UNCHANGED <<base, stage>>
     ELSE \/ GoTo(c, "verify") /\ UNCHANGED <<base, stage>>
          \/ /\ Base(c) = NoTree
             /\ base' = [base EXCEPT ![call[c].package] = stage[c]]
             /\ stage' = [stage EXCEPT ![c] = NoTree]
             /\ GoTo(c, "flush")
  /\ UNCHANGED lock

SyncProject(c) ==
  /\ call[c].phase = "flush"
  /\ GoTo(c, "confirm")
  /\ UNCHANGED <<base, stage, lock>>

(* Creating, writing or flushing fails.                                    *)
Fail(c) ==
  /\ call[c].phase \in {"stage", "write", "manifest", "sync", "flush"}
  /\ Finish(c, {"io"})
  /\ UNCHANGED <<base, stage, lock>>

Released(c) ==
  [lock EXCEPT ![process[c]] = [s \in Stripes |-> IF @[s] = c THEN None ELSE @[s]]]

(* Mutant: a failed install keeps its lock.                                *)
ReturnLocked(c) ==
  /\ call[c].phase = "done"
  /\ stage' = [stage EXCEPT ![c] = NoTree]
  /\ lock' = IF call[c].errors = {} THEN Released(c) ELSE lock
  /\ call' = [call EXCEPT ![c] = Idle]
  /\ UNCHANGED base

(* The deferred functions remove an unpublished stage and free the lock.   *)
Return(c) ==
  /\ call[c].phase = "done"
  /\ stage' = [stage EXCEPT ![c] = NoTree]
  /\ lock' = Released(c)
  /\ call' = [call EXCEPT ![c] = Idle]
  /\ UNCHANGED base
-----------------------------------------------------------------------------
CallersOf(proc) == {c \in Callers : process[c] = proc}

Killed(callers) ==
  /\ call' = [c \in Callers |-> IF c \in callers THEN Idle ELSE call[c]]
  /\ stage' = [c \in Callers |-> IF c \in callers THEN NoTree ELSE stage[c]]

ProcessDies(proc) ==
  /\ Killed(CallersOf(proc))
  /\ lock' = [lock EXCEPT ![proc] = [s \in Stripes |-> None]]
  /\ UNCHANGED base

(* What can be left of a name that was not flushed.                        *)
Remains(tree, n) ==
  (CASE tree.content[n] = "unsynced" -> {"synced", "torn"}
     [] OTHER -> {tree.content[n]})
  \cup (IF n \in tree.listed THEN {} ELSE {"absent"})

Surviving(tree) ==
  IF tree = NoTree THEN {NoTree}
  ELSE {NoTree} \cup
       {[content |-> content, listed |-> {n \in Names : content[n] # "absent"}] :
          content \in {f \in [Names -> {"absent", "synced", "torn"}] :
                         \A n \in Names : f[n] \in Remains(tree, n)}}

PowerLoss ==
  /\ base' \in {b \in [Packages -> UNION {Surviving(base[p]) : p \in Packages}] :
                  \A p \in Packages : b[p] \in Surviving(base[p])}
  /\ Killed(Callers)
  /\ lock' = [proc \in Processes |-> [s \in Stripes |-> None]]

Step(c) ==
  \/ GiveUp(c)
  \/ ReadManifest(c)
  \/ StatDirectory(c)
  \/ ReadFiles(c)
  \/ CreateStage(c)
  \/ \E f \in Files : WriteFile(c, f)
  \/ SyncDirectories(c)
  \/ WriteManifest(c)
  \/ SyncStage(c)
  \/ Publish(c)
  \/ SyncProject(c)
  \/ Return(c)

Action ==
  \/ \E c \in Callers :
       \/ \E p \in Packages : Lookup(c, p) \/ Install(c, p)
       \/ Cancel(c)
       \/ Acquire(c)
       \/ Step(c)
       \/ ReadError(c) \/ Fail(c)
  \/ \E proc \in Processes : ProcessDies(proc)
  \/ PowerLoss

Next == Action /\ UNCHANGED process

(* Goroutines run, and a Go channel serves those who wait for it in turn.  *)
Fairness == \A c \in Callers : WF_vars(Step(c) /\ UNCHANGED process) /\ SF_vars(Acquire(c) /\ UNCHANGED process)

Spec == Init /\ [][Next]_vars /\ Fairness
-----------------------------------------------------------------------------
(* The trees, locks and calls have their types, and what is published is   *)
(* complete, also after a power loss at any point of an install: a damaged *)
(* tree would never be replaced.                                           *)
BaseIsWhole ==
  TypeOK /\ \A p \in Packages : base[p] # NoTree => Whole(base[p])

(* Concurrent installs of one process agree: one that is not cancelled     *)
(* finds or publishes the package, or reports the file operation that      *)
(* failed it.  (Of two processes one may see the other's directory after   *)
(* it missed the manifest, and reports a healthy package as corrupt.)      *)
InstallsAgree ==
  (\A c, d \in Callers : process[c] = process[d]) =>
    \A c \in Callers : call[c].phase = "done" /\ call[c].install /\ ~call[c].cancelled
                         => call[c].errors = {} \/ "io" \in call[c].errors

(* Every call returns, whoever else installs, fails or is cancelled.       *)
CallsReturn ==
  \A c \in Callers : (call[c].phase # "idle") ~> (call[c].phase = "idle")
=============================================================================

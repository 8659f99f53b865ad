# A verification of PaperRune

PaperRune compiles `.paper` sources into an immutable page plan and paints the
plan as PDF, HTML or pixels. Around that pipeline run a local editor with a web
page (Paper Studio), an authoring server for tools (`paperd`), and a package
store. This directory models the parts of it whose correctness depends on the
order of steps, checks the models with TLC and proves the central facts with
TLAPS.

Contents: [inventory](#1-inventory), [the models](#2-the-models),
[the runs](#3-the-runs), [bounds](#4-bounds), [fairness](#5-fairness),
[proofs](#6-proofs), [disagreements with the code](#7-disagreements-with-the-code),
[what is left out](#8-what-is-not-modelled), [the plan](#9-the-plan),
[how to run it](#10-how-to-run-it).

## 1. Inventory

### How the parts interact

```
                 HTTP                                   calls
  web page  ───────────────▶  Paper Studio  ───────────────────────▶  compiler, planner
  studio.js ◀── event stream  cmd/paper-studio                        document, layoutengine
                                │      │                                 ▲           │
                     reads and  │      │ undo, redo                      │ plans     │ parses
                     renames    ▼      ▼                                 │           ▼
                         source file   working-copy journal     authoring       image and font
                         imports       internal/paperedit       workspace       caches of the
                         manifest                               internal/paperd process
                         review sidecar
  package cache (internal/paperpkg): a directory shared by processes, locks within one
```

Everything that plans a document calls the same sequential planners, so what is
concurrent is around them: HTTP handlers on one `studioServer`, tool calls on one
`Workspace`, installs on one cache directory, documents that share the caches of
parsed images and fonts, and the browser's callbacks. The planners are hard for
another reason: constraints that are checked at one place are honoured at another,
several iterations or a whole planning later.

### Components that are modelled

**Working-copy journal** (`internal/paperedit/journal.go`). State: the head, an
undo list and a redo list of transitions, a sequence counter. Operations: semantic
edits, source edits, external reloads, undo, redo, export and restore. Hard:
edits of one label within a pause are coalesced into the newest entry, and two
limits trim the list from its old end, while undo and redo move the head without
looking at the limits. Correct when the lists always meet at the head, are in
order, bounded, and what is exported can be restored.

**Studio snapshots** (`cmd/paper-studio/main.go`, `current`). State: up to eight
planned snapshots by scenario, the digest of the source they belong to, a
baseline plan, the project's resource catalog. Operations: answer a request,
replace the catalog. Hard: the mutex is released while a request plans, so any
number of requests, saves and catalog changes happen between the look at the
cache and the publication in it. Correct when no answer describes another
source, scenario or import than its own request read, and the cache stays
within its bounds and is emptied when it must be.

**Studio edits and history** (`studio_edit.go`, `studio_paperdoc.go`). State: the
source file (or a Paper Document holding it), the journal, a mutex for edits.
Operations: edit, undo, redo, list. Hard: another editor can write the file at
any time, the file is replaced by a temporary file in five system calls each of
which may fail or be cut off by a crash, and the journal is moved before or after
the file depending on the operation. Correct when no text is lost that the user
did not ask to replace, and file and journal stay in step.

**Studio catalog editing** (`studio_resource_catalog.go`, `internal/paperassets`).
State: the manifest on disk, the files it names with their digests, the catalog in
memory, `editMu`. Operations: add or remove a resource, start. Hard: a change is
published by a rename and only then read again and taken into memory; files and
manifest may be changed by others; the process may be killed at any step. Correct
when an acknowledged change stays, and what Studio wrote can be loaded.

**Studio review sidecar** (`studio_review.go`). State: the sidecar of comments and
of a reference, and artifacts named by digest, under `reviewMu`. Operations: post a
comment, a reference or its calibration. Hard: validated before the lock and merged
after it, three files for one reference. Correct when no acknowledged comment is
lost and the sidecar names only artifacts that are there.

**Authoring workspace** (`internal/paperd/workspace.go` and its helpers; partly).
State: revisions, candidates with a movable head and an idempotency memo, opens,
mutation authorities, plans, tombstones; each handle expires. Operations: create,
open, grant, mutate, plan, release, revoke. Hard: a mutation runs mostly outside
the lock and finds its head moved, its open closed or its capacity used up when
it comes back; callers retry with idempotency keys; every entry point prunes.
Correct when the edits of a candidate form a line, retries get their own answer,
nothing expired or revoked is used and the capacities hold.

**Package cache** (`internal/paperpkg/cache.go`). State: a directory tree per
package, a stage per install, 64 striped locks per process. Operations: install,
lookup. Hard: processes share the directory but not the locks, lookups take no
lock, and power may fail between any two file operations. Correct when a
published tree is complete, installs of one process agree, and calls return.

**Studio change stream** (`handleChanges` in `main.go`; `refreshWorkspace` and
`connectChangeStream` in `web/studio.js`). State: what the browser shows, the
refresh under way, the stream's last revision, the messages between. Operations:
save, poll, message, refresh, reconnect. Hard: three unsynchronised readers of
the same files. Correct when the browser ends up showing what is on disk and
never shows an older state after a newer one.

**Body pagination** (`document/paper.go`, `internal/layoutengine/paragraph.go`).
State: the page, the room left on it, the block and the line reached, a pending
break. Operations: place a block or part of a paragraph, turn the page, check a
keep constraint, take an explicit break. Hard: orphans, widows, keep-together,
keep-with-next, explicit breaks and bodies of different heights decide together,
over several iterations, where pages end. Correct when every line is placed once
and in order, every page turn has its reason, a constraint is either met or
reported, and planning fails only where it must.

**Page-number shells** (`document/typed_page_template.go`; partly). State: a guess
of the total, the shells loaded for it, a count of corrections. Operations: plan
the body under a guess, correct the guess, compose, give up. Hard: what headers and
footers leave for the body may depend on the total that they print. Correct when
a composed document prints its own number of pages and was paginated between its
own headers, and only a document that can swing is given up.

**Resource caches** (`document/image_cache.go`, `font_cache.go`, `font_runtime.go`;
partly). State: the process-wide maps of parsed images and fonts, each with an order
and a byte count, the names under which images are published, a `FontCache` that
documents may share, and what each document remembers of the font files it examined.
Operations: look up, parse and store, evict, clear. Hard: the locks are released
between examining a file, reading it and storing what was parsed, the file may be
replaced in between, and a font may be answered by its name or under a remembered
size and time. Correct when an answer is no older than the key it was looked up
with, and the accounts agree.

**Table pagination** (`internal/layoutengine/table.go`). State: the groups of rows
still to be placed, the page, the room left. Operations: resolve widths, heights
and groups, place a group, turn the page, divide a group that fits no page. Hard:
rows joined by spanning cells, kept rows, orphans and widows are merged into groups
that may be too large, headers repeat. Correct when rows stay in order and whole,
policies hold or are reported, and reports say what happened.

**Row and column planning** (`row_column.go`, `row_column_wrap.go`,
`document/paper_row_column.go`; partly). State: lines, sizes, frozen children, and
the phase of a container's measuring. Operations: form lines, size a line, a round
of freezing, place; probe, measure, plan. Hard: shares are rounded and handed out
again between minima and maxima, and a container is planned twice with the
contents measured in between. Correct when lines are full, sizes within bounds,
boxes apart, and a box holds what was measured for it.

**Planning budget** (`request_budget.go`; partly): one meter for all planners of a
request. That it may run out at any time is the step `Abandon` of the planners.

### Components that are not modelled

| component | state | what would make it correct | why not |
|---|---|---|---|
| Mixed documents, table cells and grids | a resumable flow | as for the parts it calls | joins plans of the modelled planners; large, next in the plan |
| Studio delivery and authoring metadata | none between requests | an answer from one snapshot | reads only |
| Browser editor, canvas, render worker | selections, pending edits, tiles | only what is current is shown | not planned beyond the stream |
| `document` facade and PDF serializer | page buffers, object numbers | bytes | single owner, sequential, data |
| Layout engine beyond the planners | none between calls | geometry, encodings | pure functions on data |
| Layout document model | none | — | plain data |
| Compiler, language, expressions, formats, scenarios, themes | none between calls | functions from text to plan input | import limits planned last |
| Semantic edits (`edit.go`) | none | source and transaction to source | a function; its result is arbitrary in the models |
| Workspace tools (`internal/paperd`) | two audit logs that nothing reads back | answers about a revision | reads only |
| Archives, lock files, resolver, signatures | none | verdicts on bytes | functions; the cache needs the verdict only |
| Command line, release tooling | none | — | sequential drivers |

`PROJECT.json` lists all of them with their files, and under `hazards` what is
hard to test in the code, each at its line with the properties that watch it or
the reason that none does.

## 2. The models

Each component's module declares its state, one action per operation or per
section of code that nothing can interrupt, and its properties. An `MC` module
gives the constants of the runs. Mutants (definitions that repeat one of the
code's with a plausible bug, placed before the original) are not used by any
specification; each shows that a property notices the bug.

### Journal, LinearHistory, JournalHistory

`source`, `sequence`, `undo`, `redo` are the fields of `Journal`. `ApplySemantic`,
`ApplySource` and `ReloadExternal` end in `Commit` (`commitLocked`): coalesce or
append, drop the redo list, trim. `Undo` and `Redo` move one transition between
the lists. Sources are model values with a size, and a diff is its byte count,
since the limits see nothing else. `RestoreAdmits` is the list of checks of
`RestoreJournal`, applied to the present state. `LinearHistory` is what a user
expects: a line of texts and a cursor; undo and redo move the cursor, a commit cuts
the line after it, appends, and may drop texts from the far end.
`JournalHistory!ImplementsHistory` maps the two lists onto the line.

### StudioSnapshots

A request goes through `Begin` (locks and copies the catalog), `ReadSource`,
`Check` (the locked look at the cache, with the clearing of stale entries),
`Watch` (the revision of imports, read outside the lock), `PlanSource`, `Publish`
(the second locked section) and `Reply`; `Fail` is every error return. Beside
them run `SetProjectResources`, `WriteSource` and `WriteImport`. A plan is the
record of what it was made from. `seen` and `overlapped` are history variables for
the properties.

### StudioHistory

It `INSTANCE`s `Journal`, so `commitLocked` is modelled once. `handler` is the
request that holds `editMu`. An edit goes `Post`, `ReadFile`, `Mutate`,
`CheckFile`, `Stage`, `Flush`, `Recheck`, `Rename`, `SyncDirectory`, then
`OpenHistory` and `Record`; an undo or redo takes its entry first and is put back by
`Compensate` when the file cannot be written. `ExternalWrite` may happen between
any two steps, `Crash` ends the process or the power, and `settled` is what a power
loss would leave. A Paper Document's other entries are `rest`, so a plain source
and a package are the same file with and without something besides the text.

### ResourceCatalog, ReviewSidecar

The two handlers that write a project's other files; one run composes them, since
both look at the plan, which changes with the source and the catalog. A catalog
request goes `Post`, `Accept` (`editMu`), `Check` (revisions of source, catalog and
plan, and whether the source still uses the name), `Load`, `Stage` (change and
validate), `Publish` (the rename), `Reload`, `SetProjectResources` and `Reply`;
`Refuse` is every error return after which nothing more happens. A review request
is validated, locked, read, and then writes its artifacts and the sidecar. Other
programs save the source, replace files and edit the manifest; `Killed` and `Start`
are the process ending and beginning again. A content is its own digest. `kept` and
`promised` record what was acknowledged.

### Workspace

`table[k]` lists the handles of kind `k` by serial number. Every locked section is
one action, starting with the pruning it does: revisions, candidates, authorities,
plans, opens, each in any order, as Go ranges over maps. A mutation is
`PaperMutation` (call), `MutationRevision`, `AuthorizeMutation`, `ReadHead`, the
edit (any payload, or `EditFails`) and `Commit`. The clock moves between sections
only, since the code reads it once in each. `paperedit.Apply` reports success only
when it has applied something, so there is no commit of an unapplied edit.

### PackageCache

`base` is the published tree of each package, `stage` each caller's unpublished
one. A file's content is `absent`, `unsynced`, `synced` or `torn`, and a directory
remembers which names it was flushed with; `PowerLoss` keeps what was flushed and
any part of the rest. Lookups read the manifest, look for the directory and read
the files in three steps without a lock, each of which may fail (`ReadError`). `process` says where each caller runs and
is fixed at the start: both together or apart.

### ChangeStream

`saved` counts the saves of the source and of one import; the text of save *i* is
`MainSaves[i]`. Server: `ConnectSource`, `ConnectImports`, `PollSource`,
`PollImports`, or `PollUnreadable` for a poll that leaves out an import it cannot read,
writing to `pipe`. Browser: `HandleChangeFrame`, the refreshes
(`ExplicitRefresh`, `Refresh`), and the answer's way through `ServeSource`,
`ServeImports`, `ApplyWorkspace`, `FinishRefresh` or `FailRefresh`, each a point
where JavaScript awaits or the server reads another file. `Fetches` has a slot more
than the code ever uses: that two refreshes never run at once is part of the
invariant behind `NeverGoesBack` (section 6).

### Paragraph, Pagination, PagedDocument

`Paragraph` is the fragmenter, a function: `FragmentContext(policy, space, token)`
answers how many lines go here, whether constraints were relaxed, and where to go
on, choosing among the legal splits as `FragmentContext` of `paragraph.go` does.
A line is its bottom edge. `Pagination` is the loop of
`planPaperTextBlocksMappedBodiesContext` over measured blocks: text, boxes that
are placed whole, canvases and explicit breaks. `at` says where in the iteration
for block `index` the loop is; `turning` marks a pending page turn, which every
path takes through `AdvanceBodyPage` or `ExceedPageLimit`. Planning is sequential:
the only choice is the document, picked by `Init`.

`PagedDocument` runs `Pagination` again and again: `PlanBody` is a step of the
current pagination, and when it has planned, `Compose` accepts the plan if the
guess was its page count, `Correct` replans under the count that came out (the bodies
are then what the shells for that total leave, `BodiesFor`), and `GiveUp` answers
`errTypedPageCounterUnstable` when the corrections are used up. `loaded` is the
cache of shells. `Abandon` is a cancelled request or an empty budget, at any step.

### ResourceCaches

A call for an image examines the file (`Examine`: path, size and time make the key),
looks the key up, and on a miss reads, parses and stores; images are also published
under a name (`PublishFound`, `PublishParsed`) and copied from there into the keyed
cache (`StorePublished`), images of a resource loader and fonts are stored directly
(`StoreResource`, `StoreFont`). A call for a font may be over before any of this: a
document with a `FontCache` (`sharing`) answers from it by name (`FindNamed`), and one
that does not find the name (`MissNamed`) examines the file only if it has not done so
before (`ExamineFont`, `examined`); what it comes to is put in the `FontCache`
(`PutNamed`), where a program may also put a font that it loads itself (`Load`,
`PutLoaded`). `Stored` is the whole of the storing functions: reject what is larger
than the limit, replace (`Added`), evict from the old end (`Trimmed`). A file is its
version, and so is a parsed entry; `Replace` may happen between any two steps.

A font that is answered may thus be older than its file was at the call, by design:
the `FontCache` is asked by name, and a document keeps the size and time it found. What
can be expected, and `NoneOlderThanItsKey` states, is that a key is never answered
with something older than the key, so that a document that did look at a newer file is
not given the older one that another document had read.

### TableGrid, TablePlan

`TableGrid` are the functions that `PlanTable` starts with: the checks of the
dimensions, the columns, the cells and the grid (`SurfaceValid`, `ColumnValid`,
`SpanValid`, `Tiled`; `IsTable` is what the types of the input say before them), the widths of columns (minima of spanning cells given away in rounds under maxima,
then preferences, then weights), the heights of rows, and the groups that
spanning cells, kept rows, orphans and widows merge the rows into. `TablePlan`
places the groups: `ResolveTable`, then `PlaceHere`, `PlaceOnNextPage` or
`RelaxGroup` (divide a group that fits no page into its members), with
`RejectTable`, `ExceedPageLimit` and `Abandon` as the errors.

### RowColumn, MeasuredContainer

`RowColumn` is one planning: `AddToLines` and `FormLines`, `SizeLine`, `FreezeRound`
(share the free space, freeze the children that hit a bound) and `Place`. `MeasuredContainer` is
what calls it for an authored container, in phases: a row is probed without
heights, its children measured at the widths that gave, and planned with the
heights; a column is measured first, and probed when it wraps and has no width. A
child's content says how high it becomes at each width.

## 3. The runs

| run | distinct states | shows |
|---|---|---|
| `journal` | 44,453 | the lists are one line that meets at the head, numbers increase, the entry limit holds over both lists, a journal with nothing to redo can be restored, and the whole implements `LinearHistory` |
| `snapshots` | 2,116,092 | two overlapping requests among saves, import saves and catalog changes: answers describe what their request read; the cache is bounded and drops plans of a replaced catalog unless one was being planned |
| `studio_history` | 493,642 | the file is always whole, only texts that were on disk are offered and failed undos are taken back, only the text the caller saw is replaced, and each undo moves the file by the entry it took |
| `project_files` | 895,141 | two requests, to the catalog or a review, beside other programs and a restart: what was acknowledged stays, what was written is complete |
| `workspace` | 247,392 | two mutations of one head with equal or different keys and edits: one is published, every answer is about its own edit; and expiry, revocation, pruning and a repeated key around a mutation: refused, remembered and counted consistently |
| `package_cache` | 194,728 | published trees are whole across power losses, the installs of a process agree while no file operation fails, every call returns |
| `change_stream` | 600,238 | the browser comes to show the files or an error, and never goes back |
| `paged_document` | 1,466,734 | documents of up to four blocks under steady and varying shells: lines in order, relaxations reported, turns explained, groups kept, failures and overflows only for what is too tall, totals true, no page turned that is empty |
| `resource_caches` | 554,555 | two documents, with a shared `FontCache` or without, and replaced files: the accounts agree and stay in the limit, fonts and loaded images are never older than the key they were looked up with |
| `table_plan` | 360,356 | rows in order and whole, cells given their minimum widths and heights, policies held or reported, reports true |
| `row_column` | 746,503 | lines filled, sizes in their bounds, boxes apart, contents held by the boxes they were measured for |
| `row_column_freeze` | (violation) | freezing can end in a refusal (section 7) |

Several properties are conjunctions of parts that one question holds together:
`HistoryWasOnDisk` of `OffersWereOnDisk` and `FailedHistoryActionUndone`,
`TotalsAgree` of `ComposedTotalsAgree` and `UnstableOnlyByItsTotal`,
`TallContentOnly` of `OverflowIsAlone` and `FailureIsDeserved`, `LinesAreFilled` of
`LinesAreGreedy`, `RoomIsTaken` and `OverflowIsDeserved`, `ContentIsHeld` of
`HeldByBoxes` and `IntrinsicWidthSuffices`, and `CapacitiesHold` and
`CachesAccounted` include the types of their modules.

Deadlock is checked in all runs but `workspace`, where all handles that the bound
`Issued` allows may have been issued and every call answered, and `project_files`,
where all requests may have been answered. For the planners the deadlock check is
a result of its own: planning never gets stuck before it is planned or has failed
(`AtRest`, `Stopped`, `Done` and `Ended` are the steps of what has ended).

## 4. Bounds

- `journal`: three texts of 1, 2 and 6 bytes, one label besides none, three
  entries, 32 bytes, four commits. The large text makes the byte limit bite before
  the entry limit and the small ones after it, so both trimmings, coalescing, and a
  refused commit occur; four commits fill the list and push one out. `MaxSequence`
  is the only bound that the code does not have.
- `snapshots`: a source without, one with import, one that does not compile;
  two requests, two scenarios and room for one, two writes. A cache that is full, a
  clearing during a planning, and a planning that is overtaken all need exactly two
  requests. Requests, imports and catalogs are interchangeable and declared
  symmetric; all properties are invariants, for which that is sound.
- `studio_history`: one handler, as `editMu` admits one; three texts, two other
  contents of a package, one outside write, one crash, two commits. Failures are
  possible at every system call without a bound.
- `project_files`: three names, three files, sources that use none, an image or a
  font; four manifests, among them one with a replacement and one whose replaced
  name is missing; two requests of either kind, one change by another program, one
  restart, room for one comment. Failures are unbounded. Two requests are what
  loses or interleaves an update; what a third adds is covered by the theorems.
- `workspace`: the constraint `RaceOrExpiry` joins two families of behaviours:
  two calls on one candidate and three revisions while the clock stands still; and
  one call at a time with two revisions, two opens and two authorities in turn, and a
  clock that ticks once past the lifetimes. Both at once is too large; what needs
  both is an expiry during a race, in which each call is checked on its own by
  the second family. Tombstones: two, so that the oldest is dropped.
- `package_cache`: two callers, two packages of one stripe, one file and the
  manifest. Two callers are enough to have one hold the lock, look up or publish
  under the other's feet; process deaths and power losses are unbounded.
- `change_stream`: three saves of the source (two of its texts import), two of the
  import, two request slots, one break of the stream or one poll that cannot read the
import (`MaxBreaks` counts both).
- `paged_document`: up to three blocks of twelve shapes and four of five shapes on
  bodies of two to five units, with every possible keep group where bodies are
  equal, five pages, totals that are told apart up to three, four corrections. That
  has paragraphs over three pages, lines and boxes taller than a page, leading,
  trailing and repeated breaks, bodies that grow and shrink from page to page and
  from guess to guess, a document that swings, and the page limit.
- `resource_caches`: two callers, a file of each kind, three versions of 2, 3 and 6
  bytes and a limit of 5: the first two do not fit together, the third does not
  fit at all. The caches share no state, so each is explored while the other rests. One
name for the font is enough for two documents to overwrite each other's in the
`FontCache`; several names are covered by the theorem.
- `table_plan`: up to five rows with a column of spanning cells for the pages
  (every division that leaves at most two joins, four row shapes, header and caption or
  not, 24 policies, bodies of equal and of unequal height; one shape has rows of no
  height, which may come after rows that overflow); three columns of four kinds with
  every division of two rows for the widths; and six malformed tables.
- `row_column`: three children of eleven kinds for the sizes, of six for the
  placement in every justification; authored containers of three items of eight
  kinds in a body of eight by six. Three is the least number with which a
  round of freezing can leave another one to do and a line can break behind the first.

## 5. Fairness

Only two specifications state any. `PackageCache`: a caller that can step does
(goroutines run; weak), and a caller that waits for a stripe gets it (strong: the
lock is a Go channel, which serves its waiters in turn). Starting, cancelling,
failing and dying are not fair. `ChangeStream`: requests under way go on, the
server's ticker ticks, and a written message is read (weak, each). Saves, explicit
refreshes, failures and breaks are not fair, and breaks are bounded: a stream that
breaks for ever need not inform anybody. The other components promise safety only;
that the planners come to an end is stated as what each step does
(`PagesAreFilled`) together with the deadlock check.

## 6. Proofs

Eight modules hold theorems. None takes anything on trust beyond the assumptions
on the constants that the specifications state (`TLC` evaluates them in every run).

**`FoldLemmas`** is about the sums in the models. The byte count of a journal, the
bytes of a cache and the height of a page or of a keep group are folds over a finite
set, and the community modules define such a fold by a function chosen to satisfy
its recursion. The module proves that this function exists and that equal summands have equal folds
(for any operation and any way of picking an element), and, for an operation whose
elements can be exchanged, that the fold is the same whichever element is taken first,
what it is with one element more or less, and that a sum of naturals bounds the sums
over its parts. The induction over naturals and over the parts of a set is done here once,
for sets of numbers and from the well-foundedness of `<` (`SetInduction`,
`PartsInduction`), as the library's induction theorems take an operator. From it
follows what two of the modules need to compare plannings: what takes the same steps from
the same beginning goes the same way (`StepForStep`), and what has come to an end
stays there (`StaysAsItIs`). The
proofs of the other modules use the results with `INSTANCE`. `FoldSteps` does the same
for a fold over a sequence: there is a function from the number of items to the
results, and each result comes from the one before it and the next item (`FoldAlong`
carries a fact along it).

**`StoredProofs`**, first the journal: `TypeOK`, `HistoryIsOneLine`, `SequencesIncrease` and
`EntriesBounded` for every set of sources, sizes and limits. Each is
inductive together with the types: the sequence numbers only because the
invariant also bounds them by the counter on both lists and orders them across the
head, the entry limit only because it speaks of both lists at once. The work is in
the lemmas about `Commit` (what dropping old entries and extending the newest one
keep) and about a transition that moves between the lists, which `Undo` and `Redo`
share.
`Restorable` (`NewestRestorable`) rests on `WholeFits`: the journal as it would be
with everything redone, its entries (`Whole`) and its head (`Tip`), is within every
limit. A commit makes it so, undo and redo leave it as it is, and with an empty
redo list it is the journal itself.
`KeepsALinearHistory` is the refinement `ImplementsHistory`: `Line` describes the
abstract line by positions (before-texts of the undo list, the head, after-texts of the
redo list backwards); an undo or redo moves the cursor and leaves every position as it
was, a commit is the abstract record with as many texts dropped as entries.
Then the catalog and the reviews: `AcknowledgedIsKept` (`NothingAcknowledgedIsLost`) and
`ProjectIsWhole` (`WhatIsWrittenIsComplete`), for any number of requests, names and
files. `KeptInv` ties a request's copy of the manifest to the manifest while it
holds `editMu`, unless another program has edited it; `WholeInv` says that what is
staged is valid; `ReviewInv` that a sidecar about to be written names artifacts
already written and includes every comment acknowledged before.

**`StudioProofs`**: `ReplyDescribesRead`, `CacheBounded` and
`QuietCatalogChangeSeen`, for any number of requests, scenarios and catalogs. What a
request holds between its locked sections is the invariant `CallsInv` (its plan was
made from what it read), the cache's room is `RoomInv` (publishing looks at the
number of entries again), and `QuietInv` says of every cached plan and every
planning under way that it was made with the current catalog as long as none was
replaced under a planning. The module also proves `NeverGoesBack` of the change stream from
`StreamInv`: at most one request is under way, and what it carries is not older
than what is shown. The theorem's hypothesis `SavesAreNumbered` says that no save
has the text of an earlier one; a reverted save looks like the older one and cannot
be told from it.

Last the edits and their history: `FileIsWhole`, `HistoryWasOnDisk`,
`ReplacesWhatTheCallerSaw` and `HistoryMovesTheFileOneEntry`. The invariant
`HistInv` describes the handler at each of its steps: what is staged, what the
journal looked like before an undo took its entry, and that the texts of both lists
were on disk. The last two are action properties and follow from it.

**`CacheProofs`**, first the package cache: `BaseIsWhole` (`PublishedIsWhole`) from
`DurableInv`, which says at each step of an install what of its stage is already
flushed, so that a tree is durable before it is named; `InstallsAgree`
(`InstallsOfAProcessAgree`) from `AgreeInv`: between `Acquire` and the return a caller
holds its stripe alone, so the lookup it made is still true when it publishes. A failing
read is reported as corruption with its own error, which the property excepts. The
liveness of `CallsReturn` is TLC's.
Then the caches of images and fonts: `CachesStayAccounted` (`CachesAccounted`) and
`NothingOutlivesItsKey` (`NoneOlderThanItsKey`), for any number of documents, files,
names, versions and any sizes and limits. `CachesInv` says that each cache's queue holds
each key once and its counted bytes are the sum over the stored entries (`CacheFits`),
what a request knows at each of its steps (`RequestFits`: the key it has, the version it
read), and that an entry stands under the key of its file and options and is
not older than it (`NotOlder`), in the keyed cache and, with the key it was looked up
with, in the `FontCache`. A version that a document remembers is one the file
had. `StoredIsAccounted` is the heart: replacing takes the old entry's bytes off
before adding the new ones, and evicting takes entries from the old end until what is
left fits, so the sum over the rest is the sum less the evicted. Image files are not in
`NoneOlderThanItsKey`; section 7 says why.

**`WorkspaceProofs`**: `HeadsStayLinear` (`HeadsAreLinear`), `AnswersFit`
(`AnswersDescribeTheEdit`), `NothingGoneSucceeds` (`NothingGoneIsUsed`) and
`CapacitiesStay` (`CapacitiesHold`), for any
number of calls, handles, keys and edits, any capacities and any positive lifetimes.
`WorkInv` has four parts: `WellFormed`, the types of tables and calls; `Lines`, which
adds to `HeadsAreLinear` that a revision names a candidate that exists and that a
base does not follow its head; `Memos`, that what a candidate remembers under a key
is one of its own revisions; and `Calls`, what a call knows at each of its steps. A
step of the tables is first shown to age them (`Aged`: no handle is lost, and one
that was gone stays gone), and `KeepsCall` carries a call over every such step, so
that the interleaving is dealt with once. Only the publication of an edit touches a
candidate's head; there the comparison under the lock gives the line its next link
(`PublishKeepsLines`). For the capacities (`Caps`), the available handles of a table are
a finite set of serial numbers: pruning only shrinks it, and an action that adds
a handle has compared the count after the pruning with the limit. The tombstones are a
list and a map; a prune is a fold that buries expired handles in any order
and drops the oldest tombstones on the way, so what one burial keeps
(`RecordKeeps`) is carried over the fold (`RemovalKeeps`, from `FoldLemmas`); list and
map go on to agree because only handles that are gone have a tombstone, and none
that is gone comes back.

**`PaginationProofs`** begins with the fragmenter as a function. `MaxIsGreatest`
establishes the chosen maximum from the well-foundedness of the order;
`FittingPrefixFits` and `SplitsAreBounded` bound the candidates; `PlacedCases`
reduces an answer to the few ways in which it is built. From these follow
`PlacementAdvances` (every placing answer makes progress and hands on the next
line), `EmptyRegionsAreUsed` (it never defers in an empty region), `OrphansHonoured`,
`WidowsPromised` and `WidowsReceived`. The loop follows, for all documents, bodies and
page limits. The assumptions are what measuring and compiling leave behind:
`DocumentsAreMeasured` (lines end at increasing heights, policies are positive, and
keep groups nest and hold no explicit break, as they are built from the nesting of
kept elements, `paper.go:2428`), bodies of positive height (`resolveBody` refuses
others, `paper.go:915`; so does the planning of shells,
`typed_page_template.go:124`), and `MaxPagesIsNatural`.

- `TypeCorrect`: `Typed` adds to `TypeOK` that the document is one of the set and
  that the loop's position fits the block it is at.
- `LinesStayInOrder`: `LinesInOrder` speaks of placed fragments only; the invariant
  adds `Frontier`, that the last fragment ends where the token stands, which every
  action has to keep whatever it does to the page.
- `CutsAreReported`: the reason that widows arrive is a promise made with the next
  body's height and kept some steps later. `Promise` says what holds in between:
  in the middle of a paragraph, the widows that were promised fit the page that is
  being turned to, and nothing is placed on it before them.
- `TurnsAreExplained`: one decision per page turn, between consecutive fragments, and
  called explicit exactly where a break marker stands between them. `Standing`
  relates the loop's position to the last fragment: either nothing is placed yet,
  or all decisions so far are before it and what lies between it and the loop are
  break markers that are (or are not) remembered in the pending break.
- `OnlyTallContentOverflows` (`TallContentOnly`): `Spaced` ties the running room to
  what it stands for, the height of the body less the sum of the page's fragments, and
  says that the room is negative only after content taller than a body.
- `TurnedPagesAreFilled` (`PagesAreFilled`): an action property. A region is empty
  exactly as long as nothing is on its page, and every way to a turn starts from a
  region that is not.
- `GroupsStayTogether` (`GroupsKept`): the keep check is made anew at each block of a
  group, with the room that is left there. `Keeping` says that while a group is under
  way its rest fits (`RestFits`), so that every later check finds what the first one
  promised; `Behind` says that nothing of a group is placed before it is begun. The
  heights compared are sums over the blocks, split at each block by `FoldLemmas`.
- `EveryPagination`: the invariant above, over the correction loop of `PagedDocument`,
  where each `Correct` begins a fresh pagination of the same document with the
  bodies of other shells; the three theorems before it are of that specification, too.
- `TotalsSettle` (`TotalsAgree`): a document is composed only with the total that its
  bodies were made for, and a document whose shells do not differ with the total is
  settled by its second pagination and never refused. The second half compares two
  paginations. `Onward` gives the situation that a step of the loop leads to, and each
  action is shown to take that step; from one beginning there is then only one end
  (`OneEnd`). Where the shells are the same for every total, so are the bodies
  (`Steady`), and the second pagination ends where the first one did, with the number
  of pages that it was made for. The assumption that more than one pagination is allowed
  (`CorrectionLimit`, 8 in `typed_page_template.go:18`) is needed here: with one, the
  first guess of the total would be the last.

**`TableProofs`**: `RowsAreInOrder` (`RowsInOrder`), `EveryCellHasRoom`
(`CellsHaveRoom`), `WhatIsWantedIsKept` (`PoliciesHold`) and `ReportsAreRight`
(`ReportsAreTrue`), for every table, every page height and every page limit. The
assumption (`TablesAssumption`) is what the types of the input and the checks of the
selected body say (`table.go:382`); the planner's own refusals are in the model, so
that malformed tables are tables, too.

- First the functions of the grid. Each is a fold over rows, cells or rounds in their
  order; all are instances of one step function (`StepTo`), so that `FoldSteps` gives
  the states between. `GroupsAreMade`: the groups follow each other from the first body
  row to the last, each ends where no cell crosses (`Boundaries`), and what a policy
  asks for (`Asked`) is inside one of them; merging two neighbours keeps that
  (`MergeKeeps`) and only ever makes a group larger. `HeightsAreEnough`: the shares
  of a deficit add up to it (`SharesAddUp`, a quotient for each row and one more
  for the first ones), rows only grow, so a cell that had room keeps it.
- `WidthsAreEnough` is the hard one. A round gives every growing column an
  equal share, less where a maximum is near, so it may end before everything is
  given. `GrowReaches` and `RoundReaches` say that a round gives something away or
  closes a column, so that the code's loop ends with nothing left or no
  column to grow (`DistributeReaches`); what was given is exactly what the columns
  have more (`GivenAddsUp`). Minima, preferences and the table's width are then three
  folds that keep `FairWidths` and only widen.
- Then the plan: `TableInv`. `Spread` says where each placed unit stands: after the
  one before it or at the top of the next page behind a header, and that the cursor is
  where the last one ends. `GroupsToCome` says that the rest are groups from the row
  that is due; `PageUsed` that no page is turned before a body row is on it;
  `PoliciesKept` that what a policy asks for is still inside a group to come, or
  has been placed as one, or is excused by a note on its rows. Relaxing a group
  (`RelaxKeeps`) replaces it by its members and writes the note in the same step.
  `ReportsAreTrue` is kept by following the last unit: only it can be without its report.

The proof changed three things in the model. `RowsInOrder` had spoken
of a concatenation of rows, which no prover can take apart; it now says of each unit which row is
due. `ReportsAreTrue` was false for rows of no height behind rows that overflow, which the
code lets pass without a report (nothing of them is outside); no table of the run
had such rows, and one has now. The bounds of columns and the measures of cells, which
the code checks (`table.go:361`, `table.go:412`), had been left to the inputs of the run.

**`RowProofs`**: `EveryLineIsFilled` (`LinesAreFilled`), `EverySizeIsInBounds`
(`SizesInBounds`), `EveryBoxIsApart` (`BoxesApart`) and `EveryContentIsHeld`
(`ContentIsHeld`), for every container, with any
number of children of any tracks, bounds and weights, whether it is planned on its
own or in one of the phases of an authored container, and whatever its contents need
at each width. The assumptions
(`ContainersAreAuthored`, `AuthoredAssumption`) are what the types of the input and
`validateRowColumnChild` say, and that an image in a column is not wider than the body.

- `SharesMakeUp` is about the arithmetic: shares by weight, each rounded down and the
  rest given to the first ones, add up to the amount exactly, since the rest is smaller
  than the number of those who share and each place in the order is taken once.
- The lines (`LinesFormed`): they follow each other (`Chained`), each is within the room
  unless it has one child, and its next child did not fit (`Packed`). The last line is
  compared with the room before a child is added, and a sum over a line is split at
  its last child, so that this is what `Fits` has asked.
- The rounds (`FlexLine`): who is no longer active wants no more as long as room is left,
  and is at its smallest size as long as room is missing. `GrowKeeps` and `ShrinkKeeps`
  show that a round never gives or takes more than there is, because the shares make
  up the free space and a bound only makes a share smaller, so that the direction
  stays the same until a line is done. A line that is given up for lack of
  room then has every child at its smallest size (`OverflowIsDeserved`), and one that
  keeps room has nobody who could take it (`RoomIsTaken`).
- The boxes (`BoxesApart`): the free space is spread in slots that add up to
  it (`EvenSlots`, `Justified`), so the last child ends within the room; offsets are
  running sums, so neighbours do not overlap and by induction no two do; the lines of a
  wrapped container are laid out by the same lemmas on the cross axis.
- `EveryPlanning` carries `RowInv` through the phases of `MeasuredContainer`
  (`MeasuredInv`): what each phase begins is a container of the kind that `RowInv` was
  proved for, whatever has been measured.
- `EveryContentIsHeld` compares two plannings of one container that are several
  phases apart, so no invariant of one of them is enough. What bears on the main axis
  (`MainView`: the children without their cross sizes, the room, the gap and the
  wrapping) determines a planning but for its cross sizes. `Situation` is what of the
  planner's state is determined so, and `Onward` what a step makes of it
  (`StepIsOnward`: each action of the planner is this step), so that the steps that lead
  from the beginning to a situation are the same in both plannings, and two that come to
  an end come to the same one (`OneEnd`). The invariant `HeldSoFar` carries the
  end of the probe along: while a row is planned for good, that its beginning leads to
  the widths its children were measured at (`RowIsProbed`); while a column is planned
  in the width of its probe, that its beginning leads to lines which need that
  width (`WidthIsProbed`). A row's heights, and the width of a column, are not in
  `MainView`, and so cannot change either.
- Lines of the same children also have the same cross sizes, since each is as high
  as its highest child and not higher (`HighEnough`, `Exactly`, `SameCrosses`). That is why
  the width that the probe of a column asks for (`RequiredCross`) is the width its
  plan needs, and the plan cannot overflow it.

The proofs changed two things in the model. Two arms of the factor of a child
overlapped (`Weight`). And `ContentIsHeld` was false of larger instances than the run's: a
stretched child of a row that does not wrap and has a height of its own gets that
height, whatever was measured (`paper_row_column.go` compares only the children that
have a height of their own, and the planner does not compare stretched ones). The
property now says so, and one item of the run is such a child.

Model-checked only: the two liveness properties, `CallsReturn` and `KeptInformed`, as
fairness needs ENABLED. Every invariant and every action property of the runs
is stated by a theorem.

## 7. Disagreements with the code

One run ends in a violation of something that a comment in the code says.
`row_column_freeze`: "Min/max constraints freeze an item and the remainder is
recomputed" (`row_column.go:720`), but the number of rounds is compared with the
children that are still active, and these shrink from round to round
(`row_column.go:725`). When the last flexible children reach a bound in one round and
room is left (one child with `flex-grow` and a `max-width` in a wider row is enough),
the loop ends before the round that would find nothing left to share, and the
container is refused.

The following were met while modelling. Where a definition is named, it is in the
modules, and the constants given refute it; there is no run for it because a
run is better spent on a component.

- `change_stream`: a stream watches the imports it knew when it was opened
  (`main.go:773`); one that is added later is saved unnoticed. `Importers = {2}`
  refutes `KeptInformed`.
- `pagination`: two headings before a paragraph that fills the page
  (`paper.go:1257`): the first is held to the paragraph's beginning, the second to
  all of it, so the second moves on and leaves the first at the foot of the page
  without a report (`KeptWithNext` over `HeadingDocuments`). `GroupsKept` therefore
  leaves out groups whose last block is kept with the next.
- Image files (`image_cache.go:150`): an image is published by name under one lock
  and copied by that name under another, so of two readers with different options
  one can be stored under the other's key. `Options = {x, y}` refutes `ImagesFresh`;
  the type's comment says "Its methods are safe for concurrent use"
  (`image_cache.go:19`).
- A font found in a `FontCache`, or under the size and time that a document remembers
  (`font_runtime.go:67`, `font_runtime.go:268`), is answered as it was then, however
  often the file is replaced. No document promises otherwise.
- Published resource names are never evicted, though `types.go:188` speaks of
  "bounded package-level caches".
- A `font/ttf` file that begins with `true` passes the catalog's validation
  (`loader.go:455`) but not the asset catalog (`papercompile/asset_catalog.go:225`):
  adding it publishes the manifest, answers 500, keeps the old catalog in memory, and
  Studio does not start again; `docs/paper-assets.md:82` says Studio "validates
  the complete catalog".
- Removing a font that the source uses is not refused (`studioASTUsesResource`
  looks at images only), though the documentation says that referenced removals are
  rejected. `StillUsed` follows the code.
- An edit of the manifest by another program between load and rename is lost; the
  review sidecar and its artifacts are renamed without flushing their directory; the
  difference of a reference to an older plan is served with the current plan's
  revision; a listing of the catalog may join the plan's old revision with new
  resources.
- `ExportState` after an undo to a larger text returns a state that
  `RestoreJournal` refuses, because only commits trim and they do not count the redo
  list or the head to come.
- A request that is cancelled while it plans the default scenario of a source
  without imports leaves a snapshot without pages (`main.go:588`), which then
  answers every request for that source. A slow request may also publish a snapshot
  of an older source, which is never answered from, and one of a catalog that was
  replaced while it planned (`main.go:580`), which is; `QuietCatalogChangeSeen`
  excepts that case.
- A lookup beside a publication can report the package as corrupt
  (`cache.go:340`).
- A text block after an overfull line is refused instead of moved to a new page
  (`paragraph.go:288`).
- A browser can miss a save in two more ways: when it is reverted while its
  refresh is under way, and when the page's first load failed.
- Tables: a caption is not counted in the room below the header (`table.go:902`), so
  a group may overflow its page although `table.go:1182` says "so only
  rowspan-closed units may overflow a page"; minimum widths are given away
  greedily, which can refuse a table that has a solution.
- Rows and columns: where a maximum and a measured minimum disagree the maximum
  wins, though the comment of `RowColumnTrack` calls the measured minimum "an
  additional lower bound"; a stretched child's minimum is not compared with a row
  that does not wrap, nor is its measured height with the height of such a row; `max-height` clips measured content silently; in a column
  with a `width:`, stretched children are measured at the width of the body and
  placed in the narrower box (`docs/reference/layout.md:27`), and other alignments
  are refused as overflow.

## 8. What is not modelled

Besides the components of section 1: contents of plans, of diffs and of messages;
paths, permissions, digests and byte budgets of packages; keep-alives and
scenarios of the change stream; the audit logs and read tools of the workspace and
the choice of effects that a typed tool needs (any edit may be refused); geometry,
measuring and expansion of blocks (a row's children excepted), the meter of the
planning budget, and overflow of the 64-bit fixed-point coordinates, whose
additions are checked in the code and end in an error. In `RowColumn` a child's cross bounds are
lengths with the minimum not above the maximum: percentages, which the code resolves
against the room at one place and against the line at another (`row_column_wrap.go:84`,
`row_column.go:932`), are left out, as are flexible bases in percent. The probe of a row
keeps each child's alignment where the code takes `start` for children without one
(`paper_row_column.go:181`): the model goes on with containers that the code refuses
there, those with a child that only its container stretches and whose minimum is above
the row's height; the code makes fewer plans than the model.
The typed layout interface
has all keep policies, `.paper` sources set them on table rows and captions only:
the model allows each on any block. How headers and footers are planned and joined
with the body, fonts from a resource loader or given as bytes, image and font file
caches of a single document, geometry
inside table rows, nested containers and the pages of a nested table are left out of
the modules that model their surroundings.

Most of the repository's lines are functions on data: the compiler and its language,
the serializer, fonts, raster, encodings. They keep no state between calls and a
model of them would repeat the code; the models stop where they begin, and take
their results as arbitrary.

## 9. The plan

Written so far, in this order: `Journal`, `LinearHistory`, `StudioSnapshots`,
`StudioHistory` (which composes `Journal`), `Workspace`, `PackageCache`,
`ChangeStream`, `Paragraph`, `Pagination` (which composes `Paragraph`),
`ResourceCaches`, `PagedDocument` (which composes `Pagination`), `TableGrid`,
`TablePlan`, `RowColumn`, `MeasuredContainer` (which composes `RowColumn`),
`ResourceCatalog`, `ReviewSidecar` (which composes it), and the proofs of section 6.

What would come next, most important first:

1. Mixed documents: the flow that calls the planners of text, tables and containers
   in turn and joins their plans, over `Pagination` and `TablePlan`.
2. The export handler, as a further action of `StudioHistory`.
3. Import resolution of the compiler: a graph with cycle and depth limits.
4. The keyed caches of one document, in `ResourceCaches`.

Proofs: the new modules' invariants; of the present ones only liveness is left to TLC.

## 10. How to run it

```
tlc -workers 2 -config Journal.cfg MCJournal.tla        # likewise the others
tlapm StoredProofs.tla                                  # likewise
```

The proof modules are `FoldLemmas`, `StoredProofs`, `StudioProofs`,
`WorkspaceProofs`, `CacheProofs`, `PaginationProofs`, `TableProofs` and `RowProofs`;
`TableProofs` takes some ten minutes and `RowProofs` some fifteen, the others less. `PROJECT.json` gives
the module and configuration of each run, the mutant of each property, the source
lines of each definition, the hazards and the theorems.

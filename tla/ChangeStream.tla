---------------------------- MODULE ChangeStream ----------------------------
(***************************************************************************)
(* How a browser follows a source file.  handleChanges of cmd/paper-studio *)
(* polls the source and the imports it knew when the stream was opened,    *)
(* and sends each new revision; studio.js answers a message it does not    *)
(* show yet by refreshing, one request at a time.                          *)
(*                                                                         *)
(* The files are saved any number of times, in the order of MainSaves and  *)
(* ImportSaves.  A revision is the main text with the import it used:      *)
(* planning reads one after the other, and only the texts in Importers     *)
(* parse and import the other file.  Scenarios, keep-alives and the waits  *)
(* between attempts are left out.                                          *)
(***************************************************************************)
EXTENDS Naturals, Sequences

CONSTANTS
  MainSaves,    \* the texts of the source file, in the order of the saves
  ImportSaves,  \* the texts of the other file
  Importers,    \* the main texts that parse and import the other file
  Fetches,      \* slots for overlapping workspace requests
  MaxBreaks,    \* bound: how often the stream breaks or a poll cannot read the import
  FirstLoadFails,  \* whether the first load of a page may fail
  Nothing

ASSUME ChangeStreamConstants ==
  /\ Len(MainSaves) > 0 /\ Len(ImportSaves) > 0
  /\ Fetches # {}
  /\ MaxBreaks \in Nat
  /\ FirstLoadFails \in BOOLEAN

VARIABLES
  saved,    \* how often each file was saved
  shown,    \* state.sourceRevision: what the browser shows
  failed,   \* whether it shows a workspace error
  promise,  \* state.refreshPromise
  fetch,    \* the refreshes under way
  query,    \* the revision in the query of the stream, fixed when it is opened
  stream,   \* the server's side of the stream
  pipe,     \* messages that are written and not yet read
  breaks

browser == <<shown, failed, promise, fetch>>
streamVars == <<saved, browser, query, stream, pipe, breaks>>

Texts == {MainSaves[i] : i \in DOMAIN MainSaves}
ImportTexts == {ImportSaves[i] : i \in DOMAIN ImportSaves}

Main == MainSaves[saved.main]
Import == ImportSaves[saved.import]

Revisions == [main : Texts, import : ImportTexts \cup {Nothing}]

SourceManifestRevision(text, watching) ==
  [main |-> text, import |-> IF watching THEN Import ELSE Nothing]

(* What a request for the workspace would show now.                        *)
Current == SourceManifestRevision(Main, Main \in Importers)

(* then and again are what waits for a refresh to finish: messages, which  *)
(* look at the result, and explicit refreshes, which want a new one.       *)
Fetch == [phase : {"free", "sent", "source", "answered", "loading"}, main : Texts \cup {Nothing},
          read : Revisions \cup {Nothing}, then : SUBSET Revisions, again : BOOLEAN]

Free == [phase |-> "free", main |-> Nothing, read |-> Nothing, then |-> {}, again |-> FALSE]
Requested(messages) == [Free EXCEPT !.phase = "sent", !.then = messages]

Stream == [phase : {"unopened", "connect", "source", "open", "polling"}, main : Texts \cup {Nothing},
           watching : BOOLEAN, last : Revisions \cup {Nothing}]

(* The page is loading the workspace for the first time.                   *)
StreamInit ==
  /\ saved = [main |-> 1, import |-> 1]
  /\ shown = Nothing /\ failed = FALSE
  /\ \E f \in Fetches :
       /\ promise = f
       /\ fetch = [g \in Fetches |-> IF g = f THEN Requested({}) ELSE Free]
  /\ query = Nothing
  /\ stream = [phase |-> "unopened", main |-> Nothing, watching |-> FALSE, last |-> Nothing]
  /\ pipe = <<>>
  /\ breaks = 0

----------------------------------------------------------------------------
(* Other programs, and Studio's own edits, save the files.                 *)

SaveMain ==
  /\ saved.main < Len(MainSaves)
  /\ saved' = [saved EXCEPT !.main = @ + 1]
  /\ UNCHANGED <<browser, query, stream, pipe, breaks>>

SaveImport ==
  /\ saved.import < Len(ImportSaves)
  /\ saved' = [saved EXCEPT !.import = @ + 1]
  /\ UNCHANGED <<browser, query, stream, pipe, breaks>>

----------------------------------------------------------------------------
(* refresh() of the browser.                                               *)

(* Mutant: a refresh does not look for one that is under way.              *)
NeverPending == FALSE
RefreshPending == promise # Nothing

(* A refresh starts, or waits for the one under way.                       *)
Refresh(messages, explicit) ==
  IF RefreshPending
    THEN /\ fetch' = [fetch EXCEPT ![promise] =
             [@ EXCEPT !.then = fetch[promise].then \cup messages,
                       !.again = fetch[promise].again \/ explicit]]
         /\ UNCHANGED promise
    ELSE \E f \in Fetches :
           /\ fetch[f].phase = "free"
           /\ promise' = f
           /\ fetch' = [fetch EXCEPT ![f] = Requested(messages)]

(* The button, a finished edit, or an answer that calls for a refresh.     *)
ExplicitRefresh ==
  /\ stream.phase # "unopened"
  /\ Refresh({}, TRUE)
  /\ UNCHANGED <<saved, shown, failed, query, stream, pipe, breaks>>

HandleChangeFrame ==
  /\ Len(pipe) > 0
  /\ pipe' = Tail(pipe)
  /\ IF Head(pipe) = shown THEN UNCHANGED <<promise, fetch>> ELSE Refresh({Head(pipe)}, FALSE)
  /\ UNCHANGED <<saved, shown, failed, query, stream, breaks>>

(* The server answers a request: it reads the source, then the import.     *)
ServeSource(f) ==
  /\ fetch[f].phase = "sent"
  /\ fetch' = [fetch EXCEPT ![f] = [@ EXCEPT !.phase = "source", !.main = Main]]
  /\ UNCHANGED <<saved, shown, failed, promise, query, stream, pipe, breaks>>

ServeImports(f) ==
  /\ fetch[f].phase = "source"
  /\ fetch' = [fetch EXCEPT ![f] = [@ EXCEPT !.phase = "answered",
       !.read = SourceManifestRevision(fetch[f].main, fetch[f].main \in Importers)]]
  /\ UNCHANGED <<saved, shown, failed, promise, query, stream, pipe, breaks>>

ApplyWorkspace(f) ==
  /\ fetch[f].phase = "answered"
  /\ shown' = fetch[f].read
  /\ fetch' = [fetch EXCEPT ![f] = [@ EXCEPT !.phase = "loading"]]
  /\ UNCHANGED <<saved, failed, promise, query, stream, pipe, breaks>>

(* Mutant: a message is satisfied by the refresh it waited for.            *)
AnyAnswerWillDo(f) == fetch[f].again
WantsAnother(f) == fetch[f].again \/ \E revision \in fetch[f].then : revision # shown

Settle(f) ==
  /\ fetch' = [fetch EXCEPT ![f] = IF WantsAnother(f) THEN Requested({}) ELSE Free]
  /\ promise' = IF WantsAnother(f) THEN f ELSE IF promise = f THEN Nothing ELSE promise

(* The first load opens the stream with what it shows, or with nothing.    *)
ConnectChangeStream ==
  /\ stream' = [stream EXCEPT !.phase = IF @ = "unopened" THEN "connect" ELSE @]
  /\ query' = IF stream.phase = "unopened" THEN shown ELSE query

FinishRefresh(f) ==
  /\ fetch[f].phase = "loading"
  /\ failed' = FALSE
  /\ Settle(f)
  /\ ConnectChangeStream
  /\ UNCHANGED <<saved, shown, pipe, breaks>>

(* performRefresh catches every error and shows it.                        *)
FailRefresh(f) ==
  /\ fetch[f].phase # "free"
  /\ FirstLoadFails \/ stream.phase # "unopened"
  /\ failed' = TRUE
  /\ Settle(f)
  /\ ConnectChangeStream
  /\ UNCHANGED <<saved, shown, pipe, breaks>>

----------------------------------------------------------------------------
(* handleChanges of the server.                                            *)

ConnectSource ==
  /\ stream.phase = "connect"
  /\ stream' = [stream EXCEPT !.phase = "source", !.main = Main]
  /\ UNCHANGED <<saved, browser, query, pipe, breaks>>

(* The imports to watch are those of the snapshot the stream starts with.  *)
ConnectImports ==
  LET watching == stream.main \in Importers
      revision == SourceManifestRevision(stream.main, watching)
  IN /\ stream.phase = "source"
     /\ stream' = [stream EXCEPT !.phase = "open", !.watching = watching, !.last = revision]
     /\ pipe' = IF query \in {Nothing, revision} THEN <<>> ELSE <<revision>>
     /\ UNCHANGED <<saved, browser, query, breaks>>

PollSource ==
  /\ stream.phase = "open"
  /\ stream' = [stream EXCEPT !.phase = "polling", !.main = Main]
  /\ UNCHANGED <<saved, browser, query, pipe, breaks>>

Polled(revision) ==
  /\ stream.phase = "polling"
  /\ stream' = [stream EXCEPT !.phase = "open", !.last = revision]
  /\ pipe' = IF revision = stream.last THEN pipe ELSE Append(pipe, revision)

PollImports ==
  /\ Polled(SourceManifestRevision(stream.main, stream.watching))
  /\ UNCHANGED <<saved, browser, query, breaks>>

(* A poll leaves out an import that it cannot read, as while another       *)
(* program replaces it; one that cannot read the source does nothing.      *)
PollUnreadable ==
  /\ stream.watching
  /\ breaks < MaxBreaks
  /\ breaks' = breaks + 1
  /\ Polled(SourceManifestRevision(stream.main, FALSE))
  /\ UNCHANGED <<saved, browser, query>>

(* The connection is lost, or its first planning fails; the browser opens  *)
(* the stream again, with the query it had.                                *)
Break ==
  /\ stream.phase \in {"source", "open", "polling"}
  /\ breaks < MaxBreaks
  /\ breaks' = breaks + 1
  /\ stream' = [stream EXCEPT !.phase = "connect"]
  /\ pipe' = <<>>
  /\ UNCHANGED <<saved, browser, query>>

FetchStep ==
  \E f \in Fetches : ServeSource(f) \/ ServeImports(f) \/ ApplyWorkspace(f) \/ FinishRefresh(f)

StreamStep == ConnectSource \/ ConnectImports \/ PollSource \/ PollImports

StreamNext ==
  \/ SaveMain
  \/ SaveImport
  \/ ExplicitRefresh
  \/ HandleChangeFrame
  \/ FetchStep
  \/ \E f \in Fetches : FailRefresh(f)
  \/ StreamStep
  \/ PollUnreadable
  \/ Break

(* Requests are answered, the ticker ticks and written messages are read.  *)
Fairness == WF_streamVars(FetchStep) /\ WF_streamVars(StreamStep) /\ WF_streamVars(HandleChangeFrame)

StreamSpec == StreamInit /\ [][StreamNext]_streamVars /\ Fairness

----------------------------------------------------------------------------
(* handleChanges keeps the browser informed: once the files are no longer  *)
(* saved, the browser comes to show what they hold, or shows an error.     *)
KeptInformed == <>[](shown = Current \/ failed)

(* Refreshes run one at a time, so whatever the order of messages, edits   *)
(* and reconnections, a browser that showed one save of a file never goes  *)
(* back to an earlier one (the texts are taken to be save numbers).        *)
NeverGoesBack ==
  [][shown # Nothing =>
       /\ shown'.main >= shown.main
       /\ Nothing \in {shown.import, shown'.import} \/ shown'.import >= shown.import]_streamVars
=============================================================================

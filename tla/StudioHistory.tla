---------------------------- MODULE StudioHistory ----------------------------
(***************************************************************************)
(* Committed edits, undo and redo of the Studio server                     *)
(* (cmd/paper-studio/studio_edit.go), together with the working-copy       *)
(* journal of module Journal and the file on disk.  editMu lets one of     *)
(* these handlers run at a time; the file is also written by editors that  *)
(* know nothing of it, between any two steps of a handler, and the machine *)
(* may go down at any step.                                                *)
(*                                                                         *)
(* A source file holds one text.  A Paper Document also holds its imports  *)
(* and resources, which an edit has to carry over: they are the rest of    *)
(* the content, a single value for a plain source file.                    *)
(***************************************************************************)
EXTENDS Integers, Sequences

CONSTANTS
  FileTexts, Groups, NoGroup, Size, GroupBytes, DiffBytes, SemanticDiffs,
  FileBytes, MaxSourceBytes, MaxEntries, MaxBytes, MaxSequence,  \* of Journal
  Rests,          \* what a Paper Document holds besides its source
  NoContent,      \* no content
  Torn,           \* a file whose bytes were not flushed
  MaxExternal,    \* bound of the model: writes by other editors
  MaxCrashes      \* bound of the model: crashes

ASSUME HistoryConstants ==
  /\ NoContent # Torn /\ Torn \notin [text : FileTexts, rest : Rests]
  /\ NoGroup \in Groups
  /\ DiffBytes \in [FileTexts -> [FileTexts -> Nat]]
  /\ FileBytes + MaxSourceBytes <= MaxBytes  \* 8 MiB of source, 32 MiB of journal
  /\ MaxExternal \in Nat /\ MaxCrashes \in Nat

VARIABLES
  source, sequence, undo, redo,  \* the journal; they matter only if it is open
  open,      \* whether the server has a journal
  onDisk,    \* the content of the file
  settled,   \* the content a power loss would leave in the directory
  handler,   \* the request that holds editMu
  external,  \* writes by other editors so far
  crashes,   \* crashes so far
  past       \* history: every text the file has held

J == INSTANCE Journal WITH Sources <- FileTexts

journal == <<source, sequence, undo, redo, open>>
stored == <<onDisk, settled>>
environment == <<external, crashes>>
historyVars == <<journal, stored, handler, environment, past>>

Content == [text : FileTexts, rest : Rests]

HandlerPhases == {"idle", "read", "check", "stage", "flush", "recheck", "rename", "sync",
           "open", "record", "compensate", "reply", "failed"}

Actions == {"edit", "undo", "redo", "list"}

JournalState == [source : FileTexts, undo : Seq(J!Entry), redo : Seq(J!Entry)]

(* expected is the text the caller saw; read what current() read; base and *)
(* temp are the content and the temporary file of the commit.  raced is    *)
(* history: another editor wrote after the last check; before is history:  *)
(* the journal the action started from.                                    *)
Handler == [phase : HandlerPhases, action : Actions,
            expected : FileTexts \cup {NoContent}, read : Content \cup {NoContent},
            base : Content \cup {NoContent},
            after : FileTexts \cup {NoContent}, group : Groups,
            temp : Content \cup {NoContent}, flushed : BOOLEAN, raced : BOOLEAN,
            before : JournalState \cup {NoContent}]

NoHandler ==
  [phase |-> "idle", action |-> "list", expected |-> NoContent, read |-> NoContent,
   base |-> NoContent, after |-> NoContent, group |-> NoGroup, temp |-> NoContent,
   flushed |-> FALSE, raced |-> FALSE, before |-> NoContent]

HistoryTyped ==
  /\ J!TypeOK
  /\ open \in BOOLEAN
  /\ onDisk \in Content \cup {Torn} /\ settled \in Content \cup {Torn}
  /\ handler \in Handler
  /\ external \in 0 .. MaxExternal /\ crashes \in 0 .. MaxCrashes
  /\ past \subseteq FileTexts

HistoryInit ==
  /\ \E c \in Content :
       /\ Size[c.text] <= MaxSourceBytes
       /\ onDisk = c /\ settled = c /\ past = {c.text}
       /\ source = c.text
  /\ sequence = 0 /\ undo = <<>> /\ redo = <<>> /\ open = FALSE
  /\ handler = NoHandler
  /\ external = 0 /\ crashes = 0
-----------------------------------------------------------------------------
GoTo(phase) == handler' = [handler EXCEPT !.phase = phase]

Fails == GoTo("failed")

JournalNow == [source |-> source, undo |-> undo, redo |-> redo]

(* A client posts an edit or a history action for the revision it saw, or  *)
(* lists the history.                                                      *)
Post(action, expected, group) ==
  /\ handler.phase = "idle"
  /\ action = "edit" => sequence < MaxSequence
  /\ handler' = [NoHandler EXCEPT !.phase = "read", !.action = action,
                                  !.expected = expected, !.group = group]
  /\ UNCHANGED <<journal, stored, environment, past>>

(* current() reads the file; a caller that saw another text is refused, as *)
(* is one that saw other imports.                                          *)
ReadFile ==
  /\ handler.phase = "read"
  /\ \/ Fails
     \/ /\ onDisk # Torn /\ Size[onDisk.text] <= MaxSourceBytes
        /\ IF handler.action # "list" /\ handler.expected # onDisk.text
           THEN Fails
           ELSE handler' = [handler EXCEPT
                  !.read = onDisk,
                  !.phase = IF handler.action = "edit" THEN "check" ELSE "open"]
  /\ UNCHANGED <<journal, stored, environment, past>>

Reusable(text) == open /\ source = text

(* studioHistory: a journal whose head is not the text read is replaced by *)
(* an empty one.  A history action takes its entry at once; an edit is     *)
(* recorded after it was written.                                          *)
OpenHistory ==
  LET text == handler.read.text IN
  /\ handler.phase = "open"
  /\ \/ /\ Reusable(text)
        /\ UNCHANGED journal
        /\ handler' = [handler EXCEPT !.before = JournalNow, !.phase = "record"]
     \/ /\ ~Reusable(text)
        /\ open' = TRUE
        /\ source' = text /\ sequence' = 0 /\ undo' = <<>> /\ redo' = <<>>
        /\ handler' = [handler EXCEPT !.before = [source |-> text, undo |-> <<>>, redo |-> <<>>],
                                      !.phase = "record"]
  /\ UNCHANGED <<stored, environment, past>>

(* The semantic transaction on the text read: any admissible text, and     *)
(* possibly the same one.                                                  *)
Mutate(after) ==
  /\ handler.phase = "check" /\ handler.action = "edit" /\ handler.after = NoContent
  /\ Size[after] <= MaxSourceBytes
  /\ handler' = [handler EXCEPT !.after = after]
  /\ UNCHANGED <<journal, stored, environment, past>>

(* Mutant: the text to write is read before the entry is taken.            *)
TakeEntryStale ==
  /\ handler.phase = "record" /\ handler.action \in {"undo", "redo"}
  /\ \/ /\ IF handler.action = "undo" THEN J!Undo(handler.read.text) ELSE J!Redo(handler.read.text)
        /\ handler' = [handler EXCEPT !.after = source, !.phase = "check"]
     \/ /\ IF handler.action = "undo" THEN undo = <<>> ELSE redo = <<>>
        /\ UNCHANGED <<source, sequence, undo, redo>>
        /\ Fails
  /\ UNCHANGED <<open, stored, environment, past>>

(* Undo and redo move the journal before the file is written.              *)
TakeEntry ==
  /\ handler.phase = "record" /\ handler.action \in {"undo", "redo"}
  /\ \/ /\ IF handler.action = "undo" THEN J!Undo(handler.read.text) ELSE J!Redo(handler.read.text)
        /\ handler' = [handler EXCEPT !.after = source', !.phase = "check"]
     \/ /\ IF handler.action = "undo" THEN undo = <<>> ELSE redo = <<>>
        /\ UNCHANGED <<source, sequence, undo, redo>>
        /\ Fails
  /\ UNCHANGED <<open, stored, environment, past>>

List ==
  /\ handler.phase = "record" /\ handler.action = "list"
  /\ GoTo("reply")
  /\ UNCHANGED <<journal, stored, environment, past>>

Refused(after) ==
  LET e    == J!NewEntry("source_edit", handler.group, after, DiffBytes[source][after])
      list == J!Extended(e, TRUE)
  IN  \A k \in 0 .. (Len(list) - 1) : ~J!LeastDrop(after, list, k)

(* The journal learns of an edit after the file was replaced.  An edit     *)
(* that reproduced its text adds no entry, and one that exceeds the        *)
(* journal's limits is reported as failed.                                 *)
Record ==
  /\ handler.phase = "record" /\ handler.action = "edit"
  /\ \/ /\ J!ApplySource(handler.read.text, handler.group, handler.after)
        /\ GoTo("reply")
     \/ /\ handler.after = source
        /\ UNCHANGED <<source, sequence, undo, redo>>
        /\ GoTo("reply")
     \/ /\ handler.after # source /\ Refused(handler.after)
        /\ UNCHANGED <<source, sequence, undo, redo>>
        /\ Fails
  /\ UNCHANGED <<open, stored, environment, past>>
-----------------------------------------------------------------------------
(* writeStudioSourceCAS.  A failed write of an undo or redo is undone in   *)
(* the journal.                                                            *)
CASFails ==
  handler' = [handler EXCEPT !.temp = NoContent,
                !.phase = IF handler.action = "edit" THEN "failed" ELSE "compensate"]

(* The text is compared, and the rest of a Paper Document is carried over. *)
CheckFile ==
  /\ handler.phase = "check" /\ handler.after # NoContent
  /\ \/ CASFails
     \/ /\ onDisk # Torn /\ onDisk.text = handler.read.text
        /\ handler' = [handler EXCEPT !.base = onDisk, !.phase = "stage"]
  /\ UNCHANGED <<journal, stored, environment, past>>

Stage ==
  /\ handler.phase = "stage"
  /\ \/ CASFails
     \/ handler' = [handler EXCEPT !.phase = "flush",
                      !.temp = [text |-> handler.after, rest |-> handler.base.rest]]
  /\ UNCHANGED <<journal, stored, environment, past>>

(* Mutant: the temporary file is closed without being flushed.             *)
CloseWithoutFlush ==
  /\ handler.phase = "flush"
  /\ \/ CASFails
     \/ GoTo("recheck")
  /\ UNCHANGED <<journal, stored, environment, past>>

Flush ==
  /\ handler.phase = "flush"
  /\ \/ CASFails
     \/ handler' = [handler EXCEPT !.flushed = TRUE, !.phase = "recheck"]
  /\ UNCHANGED <<journal, stored, environment, past>>

(* Mutant: the file is not compared again before it is replaced.           *)
SkipRecheck ==
  /\ handler.phase = "recheck"
  /\ GoTo("rename")
  /\ UNCHANGED <<journal, stored, environment, past>>

(* A plain file compares its text again, a Paper Document all its bytes.   *)
Recheck ==
  /\ handler.phase = "recheck"
  /\ \/ CASFails
     \/ onDisk = handler.base /\ GoTo("rename")
  /\ UNCHANGED <<journal, stored, environment, past>>

(* Mutant: an error of the rename is ignored.                              *)
RenameUnchecked ==
  /\ handler.phase = "rename"
  /\ \/ GoTo("sync") /\ UNCHANGED <<stored, past>>
     \/ /\ onDisk' = handler.temp
        /\ past' = past \cup {handler.temp.text}
        /\ GoTo("sync")
        /\ UNCHANGED settled
  /\ UNCHANGED <<journal, environment>>

Rename ==
  /\ handler.phase = "rename"
  /\ \/ CASFails /\ UNCHANGED <<stored, past>>
     \/ /\ onDisk' = handler.temp
        /\ past' = past \cup {handler.temp.text}
        /\ GoTo("sync")
        /\ UNCHANGED settled
  /\ UNCHANGED <<journal, environment>>

(* The directory is flushed; a failure to do so is ignored.                *)
SyncDirectory ==
  /\ handler.phase = "sync"
  /\ settled' \in {onDisk, settled}
  /\ GoTo(IF handler.action = "edit" THEN "open" ELSE "reply")
  /\ UNCHANGED <<journal, onDisk, environment, past>>

Compensate ==
  /\ handler.phase = "compensate"
  /\ IF handler.action = "undo" THEN J!Redo(source) ELSE J!Undo(source)
  /\ Fails
  /\ UNCHANGED <<open, stored, environment, past>>

(* The answer describes what current() reads now, or reports its error.    *)
Answer ==
  /\ handler.phase \in {"reply", "failed"}
  /\ handler' = NoHandler
  /\ UNCHANGED <<journal, stored, environment, past>>
-----------------------------------------------------------------------------
(* Another editor replaces the file; it flushes its own writes.            *)
ExternalWrite(content) ==
  /\ external < MaxExternal
  /\ external' = external + 1
  /\ onDisk' = content /\ settled' = content
  /\ past' = past \cup {content.text}
  /\ handler' = [handler EXCEPT !.raced = @ \/ handler.phase = "rename"]
  /\ UNCHANGED <<journal, crashes>>

(* The server dies with its journal.  If the machine dies with it, the     *)
(* directory may still name the old file, and a file that was never        *)
(* flushed may have lost its bytes.                                        *)
Crash ==
  LET torn == handler.phase = "sync" /\ ~handler.flushed IN
  /\ crashes < MaxCrashes
  /\ crashes' = crashes + 1
  /\ onDisk' \in {onDisk, settled} \cup (IF torn THEN {Torn} ELSE {})
  /\ settled' = onDisk'
  /\ handler' = NoHandler
  /\ open' = FALSE
  /\ source' = IF onDisk' = Torn THEN source ELSE onDisk'.text
  /\ sequence' = 0 /\ undo' = <<>> /\ redo' = <<>>
  /\ UNCHANGED <<external, past>>

HistoryNext ==
  \/ \E expected \in FileTexts :
       \/ \E group \in Groups \ {NoGroup} : Post("edit", expected, group)
       \/ \E action \in {"undo", "redo"} : Post(action, expected, NoGroup)
  \/ Post("list", NoContent, NoGroup)
  \/ ReadFile
  \/ OpenHistory
  \/ \E after \in FileTexts : Mutate(after)
  \/ TakeEntry
  \/ List
  \/ Record
  \/ CheckFile
  \/ Stage
  \/ Flush
  \/ Recheck
  \/ Rename
  \/ SyncDirectory
  \/ Compensate
  \/ Answer
  \/ \E content \in Content : ExternalWrite(content)
  \/ Crash

HistorySpec == HistoryInit /\ [][HistoryNext]_historyVars
-----------------------------------------------------------------------------
OfferedTexts(list) == {list[i].before : i \in DOMAIN list} \cup {list[i].after : i \in DOMAIN list}

(* The file, the journal and the handler have their types; and whatever    *)
(* step a crash or a failure hits, the file is a complete text that it     *)
(* held before or that an action meant it to hold: a temporary file is     *)
(* flushed before it takes the file's name.                                *)
FileIsWhole == HistoryTyped /\ onDisk # Torn /\ onDisk.text \in past

(* An edit, undo or redo only replaces the very content it was decided on: *)
(* the text the caller saw, with the rest of a Paper Document carried      *)
(* over.  The exception is a write that falls between the last check and   *)
(* the rename.                                                             *)
ReplacesWhatTheCallerSaw ==
  [][handler.phase = "rename" /\ handler'.phase = "sync" /\ ~handler.raced
       => onDisk.text = handler.expected /\ onDisk'.rest = onDisk.rest]_historyVars

(* An undo takes the file from the end to the start of the transition it   *)
(* took, a redo from its start to its end, as other editors come and go.   *)
HistoryMovesTheFileOneEntry ==
  [][handler.phase = "rename" /\ handler'.phase = "sync" /\ ~handler.raced =>
       /\ handler.action = "undo" =>
            redo # <<>> /\ J!Newest(redo).after = onDisk.text /\ J!Newest(redo).before = onDisk'.text
       /\ handler.action = "redo" =>
            undo # <<>> /\ J!Newest(undo).before = onDisk.text /\ J!Newest(undo).after = onDisk'.text]_historyVars

(* The journal only offers texts the file has held: nothing whose write    *)
(* failed can be reached by undo or redo.                                  *)
OffersWereOnDisk == open => {source} \cup OfferedTexts(undo) \cup OfferedTexts(redo) \subseteq past

(* An undo or redo that took its entry and whose write fails leaves the    *)
(* journal where it was.  (One whose answer cannot be planned after the    *)
(* write is answered with an error, too, and has taken place.)             *)
FailedHistoryActionUndone ==
  handler.phase = "failed" /\ handler.action \in {"undo", "redo"} /\ handler.before # NoContent
    => JournalNow = handler.before

(* What the journal holds is what became of the file, and nothing that was *)
(* tried and failed.                                                       *)
HistoryWasOnDisk == OffersWereOnDisk /\ FailedHistoryActionUndone
=============================================================================

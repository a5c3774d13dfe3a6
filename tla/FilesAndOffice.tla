---------------------------- MODULE FilesAndOffice ----------------------------
(* mg-files-one: the tree of a user's files on disk, and the editing of one *)
(* in the document server.                                                  *)
EXTENDS Naturals, Sequences, FiniteSets, FiniteSetsExt

-----------------------------------------------------------------------------
(* The file tree of one user, mg-files-one/server/store.ts. Changes of the     *)
(* metadata are transactions one after the other, each written to a new file   *)
(* and renamed; the bytes of a file are an object written before the metadata  *)
(* names it and removed after nothing names it any more. The process may stop  *)
(* at any point: only the metadata on disk and the objects are left.           *)
CONSTANTS
    Folder,     \* folders beside the root
    File,       \* files, each uploaded once
    Quota,      \* space of the user
    MaxKey      \* bound on the objects ever written

ASSUME FileAssumption ==
    /\ IsFiniteSet(Folder) /\ IsFiniteSet(File) /\ Folder \cap File = {}
    /\ {"root", "none"} \cap (Folder \cup File) = {}
    /\ Quota \in Nat /\ MaxKey \in Nat

VARIABLES
    entry,      \* Folder \cup File -> [parent, trash, size, key], or Absent
    objects,    \* keys of the objects on disk
    nextKey,    \* next object to be written
    upload,     \* File -> the upload in hand, or NoUpload
    swap,       \* replacement of a content in hand, or NoSwap
    doomed      \* objects whose removal follows a transaction

fileVars == <<entry, objects, nextKey, upload, swap, doomed>>

Entry == Folder \cup File
NoEntry == [parent |-> "none", trash |-> "none", size |-> 0, key |-> 0]
NoUpload == [stage |-> "none", parent |-> "none", size |-> 0, key |-> 0]
NoSwap == [file |-> "none", key |-> 0, size |-> 0]

FileInit ==
    /\ entry = [e \in Entry |-> NoEntry] /\ objects = {} /\ nextKey = 1
    /\ upload = [f \in File |-> NoUpload] /\ swap = NoSwap /\ doomed = {}

There(e) == entry[e] # NoEntry
Live(e) == There(e) /\ entry[e].trash = "none"
IsFolder(e) == e = "root" \/ (e \in Folder /\ Live(e))
Usage == MapThenSumSet(LAMBDA e : entry[e].size, Entry)
Reserved == MapThenSumSet(LAMBDA f : upload[f].size, File)

\* A transaction runs when no other one does: a replacement is one that waits for a disk.
Turn == swap = NoSwap
OnlyEntries == UNCHANGED <<objects, nextKey, upload, swap, doomed>>

CreateFolder(e, p) ==
    /\ Turn /\ ~There(e) /\ IsFolder(p)
    /\ entry' = [entry EXCEPT ![e] = [NoEntry EXCEPT !.parent = p]]
    /\ OnlyEntries

\* The folders from p up to the root, p included.
Ancestors(p) ==
    LET up[n \in 0 .. Cardinality(Folder) + 1] ==
            IF n = 0 THEN {p}
            ELSE LET below == up[n - 1]
                 IN  below \cup {entry[x].parent : x \in below \cap Folder}
    IN  up[Cardinality(Folder) + 1]

\* Faulty variant: only the folder itself is refused as its new place.
ElsewhereThan(e, p) == p # e
Outside(e, p) == e \notin Ancestors(p)

Move(e, p) ==
    /\ Turn /\ Live(e) /\ IsFolder(p) /\ Outside(e, p)
    /\ entry' = [entry EXCEPT ![e].parent = p]
    /\ OnlyEntries

Below(e) == {x \in Entry : Live(x) /\ (x = e \/ e \in Ancestors(entry[x].parent))}

TrashEntry(e) ==
    /\ Turn /\ Live(e)
    /\ entry' = [x \in Entry |->
           IF x \in Below(e) THEN [entry[x] EXCEPT !.trash = e] ELSE entry[x]]
    /\ OnlyEntries

\* Back to where it was, or to the root when that has gone.
Place(e) == IF IsFolder(entry[e].parent) THEN entry[e].parent ELSE "root"

Restore(e) ==
    /\ Turn /\ There(e) /\ entry[e].trash = e
    /\ entry' = [x \in Entry |->
           IF x = e THEN [entry[x] EXCEPT !.trash = "none", !.parent = Place(e)]
           ELSE IF entry[x].trash = e THEN [entry[x] EXCEPT !.trash = "none"] ELSE entry[x]]
    /\ OnlyEntries

Permanent(e) ==
    /\ Turn /\ There(e) /\ entry[e].trash = e
    /\ LET gone == {x \in Entry : entry[x].trash = e} IN
       /\ entry' = [x \in Entry |-> IF x \in gone THEN NoEntry ELSE entry[x]]
       /\ doomed' = doomed \cup ({entry[x].key : x \in gone} \ {0})
    /\ UNCHANGED <<objects, nextKey, upload, swap>>

RemoveObject ==
    /\ doomed # {} /\ objects' = objects \ doomed /\ doomed' = {}
    /\ UNCHANGED <<entry, nextKey, upload, swap>>

\* upload: space is reserved in turn, the bytes arrive, the entry is made in turn.
\* Faulty variant: what other uploads have reserved is not counted.
RoomNow(size) == Usage + size <= Quota
Room(size) == Usage + Reserved + size <= Quota

Reserve(f, p, size) ==
    /\ Turn /\ ~There(f) /\ upload[f] = NoUpload /\ IsFolder(p) /\ Room(size)
    /\ upload' = [upload EXCEPT ![f] =
           [stage |-> "reserved", parent |-> p, size |-> size, key |-> 0]]
    /\ UNCHANGED <<entry, objects, nextKey, swap, doomed>>

Receive(f) ==
    /\ upload[f].stage = "reserved" /\ nextKey <= MaxKey
    /\ upload' = [upload EXCEPT ![f].stage = "written", ![f].key = nextKey]
    /\ objects' = objects \cup {nextKey} /\ nextKey' = nextKey + 1
    /\ UNCHANGED <<entry, swap, doomed>>

\* The folder is looked up once more: it may have gone while the bytes arrived.
StillThere(f) == IsFolder(upload[f].parent)

FinishUpload(f) ==
    /\ Turn /\ upload[f].stage = "written" /\ StillThere(f)
    /\ entry' = [entry EXCEPT ![f] = [NoEntry EXCEPT !.parent = upload[f].parent,
                                      !.size = upload[f].size, !.key = upload[f].key]]
    /\ upload' = [upload EXCEPT ![f] = NoUpload]
    /\ UNCHANGED <<objects, nextKey, swap, doomed>>

\* The connection, the check or the transaction failed: the object goes.
UploadFails(f) ==
    /\ upload[f] # NoUpload
    /\ objects' = objects \ {upload[f].key} /\ upload' = [upload EXCEPT ![f] = NoUpload]
    /\ UNCHANGED <<entry, nextKey, swap, doomed>>

\* replaceContent: the new object is written inside the transaction, the old one
\* goes after it.
\* Faulty variant: the old object makes room for the new one.
WrittenOver(f) == (objects \ {entry[f].key}) \cup {nextKey}
WrittenBeside(f) == objects \cup {nextKey}

Replace(f, size) ==
    /\ Turn /\ Live(f) /\ nextKey <= MaxKey
    /\ Usage - entry[f].size + size + Reserved <= Quota
    /\ swap' = [file |-> f, key |-> nextKey, size |-> size]
    /\ objects' = WrittenBeside(f) /\ nextKey' = nextKey + 1
    /\ UNCHANGED <<entry, upload, doomed>>

CommitReplace ==
    /\ swap # NoSwap
    /\ doomed' = doomed \cup {entry[swap.file].key}
    /\ entry' = [entry EXCEPT ![swap.file].key = swap.key, ![swap.file].size = swap.size]
    /\ swap' = NoSwap /\ UNCHANGED <<objects, nextKey, upload>>

ReplaceFails ==
    /\ swap # NoSwap /\ objects' = objects \ {swap.key} /\ swap' = NoSwap
    /\ UNCHANGED <<entry, nextKey, upload, doomed>>

\* The process stops: what it had in hand is forgotten, orphans stay on disk.
StopFiles ==
    /\ upload' = [f \in File |-> NoUpload] /\ swap' = NoSwap /\ doomed' = {}
    /\ upload # upload' \/ swap # NoSwap \/ doomed # {}
    /\ UNCHANGED <<entry, objects, nextKey>>

FileNext ==
    \/ \E e \in Folder, p \in Folder \cup {"root"} : CreateFolder(e, p)
    \/ \E e \in Entry, p \in Folder \cup {"root"} : Move(e, p)
    \/ \E e \in Entry : TrashEntry(e) \/ Restore(e) \/ Permanent(e)
    \/ \E f \in File, p \in Folder \cup {"root"}, size \in 1..2 : Reserve(f, p, size)
    \/ \E f \in File : Receive(f) \/ FinishUpload(f) \/ UploadFails(f)
    \/ \E f \in File, size \in 1..2 : Replace(f, size)
    \/ CommitReplace \/ ReplaceFails \/ RemoveObject \/ StopFiles

FileSpec == FileInit /\ [][FileNext]_fileVars

-----------------------------------------------------------------------------
FileTypeOK ==
    /\ \A e \in Entry : /\ entry[e].parent \in Folder \cup {"root", "none"}
                       /\ entry[e].trash \in Entry \cup {"none"}
    /\ objects \subseteq 1..MaxKey /\ nextKey \in 1..MaxKey + 1

\* Every entry that is not in the trash hangs from the root by folders that are not
\* either: no cycle by a move, no file that arrives after its folder was removed,
\* nothing restored into a folder that has gone (store.ts:52, :82).
TreeHangsTogether ==
    \A e \in Entry : Live(e) =>
        LET above == Ancestors(entry[e].parent)
        IN "root" \in above /\ \A x \in above : IsFolder(x)

\* Space is never promised twice: files and reserved uploads fit the quota (store.ts:73).
QuotaKept == Usage + Reserved <= Quota

\* The metadata names no object that is not on disk, wherever the process stops
\* (store.ts:56-70).
ContentIsThere == \A f \in File : There(f) => entry[f].key \in objects \ doomed

\* Through uploads, moves, the trash and crashes every entry has a place and its bytes,
\* and nobody has more than the quota.
FilesHold == TreeHangsTogether /\ QuotaKept /\ ContentIsThere

-----------------------------------------------------------------------------
(* Editing one office file, mg-files-one/server/office.ts. The file service     *)
(* opens editing sessions, each tied to the version of the file it saw; the     *)
(* document server (external) keeps the paper of a session and calls back with  *)
(* what it has to save. Openings and callbacks are worked off one at a time;    *)
(* a callback without an answer is sent again. Sessions outlive the process in  *)
(* sessions.json. A text is the edits of each session that it holds.             *)
CONSTANTS
    Desk,           \* editing sessions
    MaxEdit,        \* bound on the edits of a session
    MaxFileVersion, \* bound on the versions of the file
    MaxCalls        \* bound on what waits to be worked off

ASSUME OfficeAssumption ==
    "none" \notin Desk /\ MaxEdit \in Nat /\ MaxFileVersion \in Nat \ {0} /\ MaxCalls \in Nat

VARIABLES
    file,       \* [version, text]
    office,     \* Desk -> the session in memory, or NoDesk
    kept,       \* Desk -> the session as sessions.json has it
    paper,      \* Desk -> [base, edits, state, again] on the document server
    unheard,    \* Desk -> the callback the document server awaits an answer to
    calls,      \* what waits to be worked off
    hand        \* the callback in hand, with what was stored of it

officeVars == <<file, office, kept, paper, unheard, calls, hand>>

NewText == [d \in Desk |-> 0]
NoDesk == [version |-> 0, digest |-> 0, closed |-> FALSE, saved |-> {}]
NoPaper == [base |-> NewText, edits |-> 0, state |-> "none", again |-> FALSE]
NoCall == [kind |-> "none", desk |-> "none", number |-> 0]
Idle == [call |-> NoCall, stage |-> "none", version |-> 0]

OfficeInit ==
    /\ file = [version |-> 1, text |-> NewText]
    /\ office = [d \in Desk |-> NoDesk] /\ kept = office
    /\ paper = [d \in Desk |-> NoPaper] /\ unheard = [d \in Desk |-> NoCall]
    /\ calls = <<>> /\ hand = Idle

QueueUp(c) == Len(calls) < MaxCalls /\ calls' = Append(calls, c)

\* The version is read when the request comes, the session sought in its turn.
AskOpen ==
    /\ QueueUp([NoCall EXCEPT !.kind = "open", !.number = file.version])
    /\ UNCHANGED <<file, office, kept, paper, unheard, hand>>

Shared(v) == {d \in Desk : office[d].version = v /\ ~office[d].closed}

\* A session gets a random id: which of the unused ones makes no difference.
Unused == {d \in Desk : office[d] = NoDesk}
NewDesk == CHOOSE d \in Unused : TRUE

OpenDesk ==
    /\ hand = Idle /\ calls # <<>> /\ Head(calls).kind = "open"
    /\ calls' = Tail(calls)
    /\ LET v == Head(calls).number IN
       IF Shared(v) # {} THEN UNCHANGED <<office, kept>>
       ELSE /\ Unused # {}
            /\ office' = [office EXCEPT ![NewDesk].version = v]
            /\ kept' = office'
    /\ UNCHANGED <<file, paper, unheard, hand>>

\* The document server fetches the file, which must still be the version of the session;
\* that the session may be closed by now is not asked.
Fetchable(d) == office[d] # NoDesk /\ file.version = office[d].version

Load(d) ==
    /\ paper[d].state = "none" /\ Fetchable(d)
    /\ paper' = [paper EXCEPT ![d] = [NoPaper EXCEPT !.base = file.text, !.state = "open"]]
    /\ UNCHANGED <<file, office, kept, unheard, calls, hand>>

\* Another window of the session comes after the last one left: it joins the paper while
\* the document server still has to save it, and has the file fetched again after that.
\* One session is come back to, once.
LoadAgain(d) ==
    /\ paper[d].state = "left" /\ \A e \in Desk : ~paper[e].again
    /\ LET open == [paper[d] EXCEPT !.state = "open", !.again = TRUE] IN
       \/ /\ unheard[d] # NoCall
          /\ paper' = [paper EXCEPT ![d] = open]
       \/ /\ unheard[d] = NoCall /\ Fetchable(d)
          /\ paper' = [paper EXCEPT ![d] = [open EXCEPT !.base = file.text, !.edits = file.text[d]]]
    /\ UNCHANGED <<file, office, kept, unheard, calls, hand>>

EditPaper(d) ==
    /\ paper[d].state = "open" /\ paper[d].edits < MaxEdit
    /\ paper' = [paper EXCEPT ![d].edits = @ + 1]
    /\ UNCHANGED <<file, office, kept, unheard, calls, hand>>

CallBack(d, kind) ==
    LET c == [kind |-> kind, desk |-> d, number |-> paper[d].edits] IN
    /\ unheard[d] = NoCall /\ QueueUp(c)
    /\ unheard' = [unheard EXCEPT ![d] = c]

\* A save the user asks for, or the editor's own, which asks nobody whether the session is
\* still open.
Unsaved(d) == paper[d].edits > paper[d].base[d]

SaveNow(d) ==
    /\ paper[d].state = "open" /\ Unsaved(d)
    /\ CallBack(d, "save")
    /\ UNCHANGED <<file, office, kept, paper, hand>>

\* The last window closes.
Leave(d) ==
    /\ paper[d].state = "open"
    /\ CallBack(d, IF Unsaved(d) THEN "close" ELSE "unchanged")
    /\ paper' = [paper EXCEPT ![d].state = "left"]
    /\ UNCHANGED <<file, office, kept, hand>>

SendAgain(d) ==
    /\ unheard[d] # NoCall /\ QueueUp(unheard[d])
    /\ UNCHANGED <<file, office, kept, paper, unheard, hand>>

\* The document server stops trying to have a save taken; the paper goes on.
GiveUpCall(d) ==
    /\ unheard[d].kind = "save"
    /\ unheard' = [unheard EXCEPT ![d] = NoCall]
    /\ UNCHANGED <<file, office, kept, paper, calls, hand>>

\* Renaming, moving or starring the file makes a version of the same text.
Touch ==
    /\ file.version < MaxFileVersion
    /\ file' = [file EXCEPT !.version = @ + 1]
    /\ UNCHANGED <<office, kept, paper, unheard, calls, hand>>

Heard(c) == [unheard EXCEPT ![c.desk] = IF @ = c THEN NoCall ELSE @]

\* A callback of a session that is closed is answered at once when it closes again.
AlreadyDone(c) == c.kind = "close" /\ office[c.desk].closed

Take ==
    /\ hand = Idle /\ calls # <<>> /\ Head(calls).kind # "open"
    /\ calls' = Tail(calls)
    /\ LET c == Head(calls) IN
       \/ /\ AlreadyDone(c)
          /\ unheard' = Heard(c) /\ UNCHANGED <<office, kept, hand>>
       \/ /\ c.kind = "unchanged"
          /\ office' = [office EXCEPT ![c.desk].closed = TRUE]
          /\ kept' = office' /\ unheard' = Heard(c) /\ UNCHANGED hand
       \/ /\ c.kind \in {"save", "close"} /\ ~office[c.desk].closed
          /\ hand' = [Idle EXCEPT !.call = c, !.stage = "read"]
          /\ UNCHANGED <<office, kept, unheard>>
       \/ /\ c.kind = "save" /\ office[c.desk].closed
          /\ UNCHANGED <<office, kept, unheard, hand>>
    /\ UNCHANGED <<file, paper>>

\* The callback is refused; the message the session keeps of it is left out.
Refused == hand' = Idle /\ UNCHANGED <<office, kept>>

\* The result cannot be fetched, or is no office file.
FetchFails ==
    /\ hand.stage = "read"
    /\ Refused
    /\ UNCHANGED <<file, paper, unheard, calls>>

StoredBefore(d, n) == office[d].digest = n
\* Faulty variant: the version of the file is not compared when its content is replaced.
MutableWhatever(d) == file.version < MaxFileVersion
Mutable(d) == file.version = office[d].version /\ file.version < MaxFileVersion

Store ==
    /\ hand.stage = "read"
    /\ LET d == hand.call.desk
           n == hand.call.number IN
       \/ /\ StoredBefore(d, n)
          /\ hand' = [hand EXCEPT !.stage = "stored", !.version = office[d].version]
          /\ UNCHANGED <<file, office, kept>>
       \/ /\ ~StoredBefore(d, n) /\ Mutable(d)
          /\ file' = [version |-> file.version + 1, text |-> [paper[d].base EXCEPT ![d] = n]]
          /\ hand' = [hand EXCEPT !.stage = "stored", !.version = file.version + 1]
          /\ UNCHANGED <<office, kept>>
       \/ /\ ~StoredBefore(d, n) /\ ~Mutable(d)
          /\ Refused /\ UNCHANGED file
    /\ UNCHANGED <<paper, unheard, calls>>

\* Faulty variant: a session is confirmed as soon as its result was read.
ReadyAtOnce == hand.stage \in {"read", "stored"}
Ready == hand.stage = "stored"

Confirm ==
    /\ Ready
    /\ LET c == hand.call IN
       /\ office' = [office EXCEPT ![c.desk] =
              [version |-> hand.version, digest |-> c.number,
               closed |-> c.kind = "close",
               saved |-> @.saved \cup (IF c.kind = "save" THEN {c.number} ELSE {})]]
       /\ kept' = office' /\ unheard' = Heard(c)
    /\ hand' = Idle
    /\ UNCHANGED <<file, paper, calls>>

\* The file service stops and starts again with the sessions it had written.
Restart ==
    /\ office' = kept /\ calls' = <<>> /\ hand' = Idle
    /\ UNCHANGED <<file, kept, paper, unheard>>

OfficeNext ==
    \/ AskOpen \/ OpenDesk \/ Touch \/ Take \/ FetchFails \/ Store \/ Confirm \/ Restart
    \/ \E d \in Desk : Load(d) \/ LoadAgain(d) \/ EditPaper(d)
    \/ \E d \in Desk : SaveNow(d) \/ Leave(d) \/ SendAgain(d) \/ GiveUpCall(d)

OfficeSpec == OfficeInit /\ [][OfficeNext]_officeVars

Texts == [Desk -> 0 .. MaxEdit]
Calls == [kind : {"open", "save", "close", "unchanged", "none"}, desk : Desk \cup {"none"},
          number : 0 .. (MaxEdit + MaxFileVersion)]
Desks == [version : 0 .. MaxFileVersion, digest : 0 .. MaxEdit, closed : BOOLEAN,
          saved : SUBSET (0 .. MaxEdit)]

OfficeTypeOK ==
    /\ file \in [version : 1 .. MaxFileVersion, text : Texts]
    /\ office \in [Desk -> Desks] /\ kept \in [Desk -> Desks]
    /\ paper \in [Desk -> [base : Texts, edits : 0 .. MaxEdit, state : {"none", "open", "left"},
                           again : BOOLEAN]]
    /\ unheard \in [Desk -> Calls] /\ calls \in Seq(Calls)
    /\ hand.call \in Calls /\ hand.stage \in {"none", "read", "stored"}

\* A save the user was told of, and what a closed session had edited, is in the file: no
\* later save of another window, no repeated callback and no restart takes it out. Excused
\* are the edits of a window that came to a session after its last window had left: the
\* session closes under it, its saves are refused, and when it leaves, office.ts:103 takes
\* its callback for a repeated one and confirms it without storing anything.
ConfirmedIsInFile ==
    \A d \in Desk :
        /\ \A n \in office[d].saved \cup kept[d].saved : file.text[d] >= n
        /\ office[d].closed /\ ~paper[d].again => file.text[d] >= paper[d].edits

\* An office save takes nobody's edits out of the file, and never has fewer of its own
\* session than that session saved before.
OthersWorkKept == [][\A d \in Desk : file'.text[d] >= file.text[d]]_officeVars

ContentSpec == FileSpec /\ OfficeSpec

\* The files of a user hang together within their quota, and what was edited in the office
\* and confirmed to anybody is in the file, whatever comes late, twice or after a crash.
ContentHolds == [](FilesHold /\ ConfirmedIsInFile) /\ OthersWorkKept
=============================================================================

------------------------------ MODULE MediaSync ------------------------------
(***************************************************************************)
(* The media files of one account, kept like AnkiWeb's:                    *)
(* sync_media_direct (sync/media_http.py) and the file helpers it uses     *)
(* (sync/media_files.py).                                                  *)
(*                                                                         *)
(* AnkiWeb numbers its changes (usn) and keeps one entry per file, the     *)
(* last.  A session asks for the entries after last_usn, a page at a time, *)
(* downloads the files named, then deletes the deleted ones, and writes    *)
(* the usn AnkiWeb named when the session began.  SyncFlow runs one        *)
(* session at a time; AnkiWeb changes at any moment, and a session may     *)
(* fail, or the process stop, at any point.                                *)
(*                                                                         *)
(* Left out: the wire format, malformed entries and names that are no file *)
(* name, which the code skips, and the progress numbers.  A file's content *)
(* stands for its sha1.                                                    *)
(***************************************************************************)
EXTENDS Naturals, FiniteSets

CONSTANTS
    File,         \* file names
    Supported,    \* those with an extension that is downloaded
    Content,      \* what a file may hold
    Oversize,     \* the contents longer than media_max_file_bytes
    Absent,
    Partial,      \* what an interrupted write leaves
    PageSize,     \* _MEDIA_CHANGES_BATCH
    BatchLimit,   \* files per downloadFiles request
    MaxUsn        \* bound: changes AnkiWeb makes

ASSUME FileAssumption == Supported \subseteq File /\ IsFiniteSet(File)
ASSUME ContentAssumption ==
    Oversize \subseteq Content /\ Absent \notin Content \cup {Partial} /\ Partial \notin Content
ASSUME SizeAssumption == PageSize \in Nat \ {0} /\ BatchLimit \in Nat \ {0} /\ MaxUsn \in Nat

VARIABLES
    server, latestUsn,              \* AnkiWeb: the entry of each file, its last usn
    media, lastUsn,                 \* on disk: collection.media and last_usn as it reads
    phase,                          \* of the session: "idle" when there is none
    serverUsn, cursor,              \* the session's usn and its place in the listing
    allFiles, toDelete,             \* the entries it still has to deal with
    stuck,                          \* observer: files that could not be deleted
    heard                           \* observer: the last content listed for each file

serverVars  == <<server, latestUsn>>
diskVars    == <<media, lastUsn, stuck>>
sessionVars == <<phase, serverUsn, cursor, allFiles, toDelete, heard>>
vars == <<serverVars, diskVars, sessionVars>>

Contents == Content \cup {Absent}
Entry    == [fname : File, sha1 : Content]

TypeOK ==
    /\ server \in [File -> [usn : Nat, content : Contents]]
    /\ latestUsn \in Nat
    /\ media \in [File -> Contents \cup {Partial}]
    /\ lastUsn \in Nat
    /\ phase \in {"idle", "changes", "files"}
    /\ serverUsn \in Nat /\ cursor \in Nat
    /\ allFiles \subseteq Entry
    /\ toDelete \subseteq File
    /\ stuck \subseteq File
    /\ heard \in [File -> Contents]

Init ==
    /\ server = [f \in File |-> [usn |-> 0, content |-> Absent]]
    /\ latestUsn = 0
    /\ media = [f \in File |-> Absent]
    /\ lastUsn = 0
    /\ phase = "idle"
    /\ serverUsn = 0 /\ cursor = 0
    /\ allFiles = {} /\ toDelete = {}
    /\ stuck = {}
    /\ heard = [f \in File |-> Absent]

-----------------------------------------------------------------------------
(* Another client of the user adds, replaces or deletes a file. *)
ServerChanges(f, c) ==
    /\ latestUsn < MaxUsn
    /\ server[f].content # c
    /\ latestUsn' = latestUsn + 1
    /\ server' = [server EXCEPT ![f] = [usn |-> latestUsn + 1, content |-> c]]
    /\ UNCHANGED <<diskVars, sessionVars>>

(* _begin_session and _read_last_usn. *)
Begin ==
    /\ phase = "idle"
    /\ phase' = "changes"
    /\ serverUsn' = latestUsn
    /\ cursor' = lastUsn
    /\ allFiles' = {} /\ toDelete' = {}
    /\ UNCHANGED <<serverVars, diskVars, heard>>

(* The answer to mediaChanges: the first entries after the cursor. *)
After(u) == {f \in File : server[f].usn > u}

IsPage(page) ==
    /\ page \subseteq After(cursor)
    /\ \A f \in page, g \in After(cursor) \ page : server[f].usn < server[g].usn
    /\ Cardinality(page) <= PageSize
    /\ page # After(cursor) => Cardinality(page) = PageSize

ToDownload_DeletedToo(page) ==
    {[fname |-> f, sha1 |-> server[f].content] : f \in page \cap Supported}

ToDownload(page) ==
    {[fname |-> f, sha1 |-> server[f].content] :
        f \in {g \in page \cap Supported : server[g].content # Absent}}

EndsAt_CursorKept(page) == UNCHANGED cursor

EndsAt(page) ==
    \/ page = {} /\ UNCHANGED cursor
    \/ \E f \in page : /\ \A g \in page : server[g].usn <= server[f].usn
                       /\ cursor' = server[f].usn

(* One round of the loop of _collect_changes, which sorts the entries. *)
ListPage(page) ==
    /\ phase = "changes"
    /\ IsPage(page)
    /\ toDelete' = toDelete \cup {f \in page : server[f].content = Absent}
    /\ allFiles' = allFiles \cup ToDownload(page)
    /\ EndsAt(page)
    /\ phase' = IF Cardinality(page) < PageSize THEN "files" ELSE "changes"
    /\ heard' = [f \in File |-> IF f \in page THEN server[f].content ELSE heard[f]]
    /\ UNCHANGED <<serverVars, diskVars, serverUsn>>

(* The next entries of the list; the order does not matter here. *)
IsBatch(batch) ==
    /\ batch \subseteq allFiles
    /\ batch # {}
    /\ Cardinality(batch) <= BatchLimit
    /\ batch # allFiles => Cardinality(batch) = BatchLimit

(* _filter_batch_by_local_hash *)
Wanted(batch) ==
    {f \in File : \E p \in batch : p.fname = f /\ media[f] # p.sha1}

(* The zip holds what AnkiWeb has at that moment, and nothing for a file it*)
(* deleted since.                                                          *)
InZip(batch)     == {f \in Wanted(batch) : server[f].content # Absent}
Extracted(batch) == {f \in InZip(batch) : server[f].content \notin Oversize}

(* _extract_entry for the files it opens, which it empties first: one that *)
(* turns out to be too long is removed, one may be cut short by a failure. *)
Extract(opened, cut) ==
    /\ cut \subseteq opened
    /\ media' = [f \in File |->
          IF f \notin opened THEN media[f]
          ELSE IF f \in cut THEN Partial
          ELSE IF server[f].content \in Oversize THEN Absent ELSE server[f].content]
    /\ stuck' = stuck \ opened

(* An oversize file is not opened, unless its header understates its size. *)
DownloadBatch(batch) ==
    /\ phase = "files"
    /\ IsBatch(batch)
    /\ \E opened \in SUBSET InZip(batch) :
          Extracted(batch) \subseteq opened /\ Extract(opened, {})
    /\ allFiles' = allFiles \ batch
    /\ UNCHANGED <<serverVars, lastUsn, phase, serverUsn, cursor, toDelete, heard>>

(* _apply_deletions comes after the last batch. *)
Deleting(f) ==
    /\ phase = "files"
    /\ allFiles = {}
    /\ f \in toDelete
    /\ toDelete' = toDelete \ {f}
    /\ UNCHANGED <<serverVars, lastUsn, phase, serverUsn, cursor, allFiles, heard>>

Unlink(f) ==
    /\ Deleting(f)
    /\ media' = [media EXCEPT ![f] = Absent]
    /\ stuck' = stuck \ {f}

(* safe_unlink logs the error and the loop goes on. *)
UnlinkFails(f) ==
    /\ Deleting(f)
    /\ media[f] # Absent
    /\ stuck' = stuck \cup {f}
    /\ UNCHANGED media

Handled ==
    /\ phase = "files" /\ allFiles = {} /\ toDelete = {}
    /\ phase' = "idle"
    /\ UNCHANGED <<serverVars, media, stuck, serverUsn, cursor, allFiles, toDelete, heard>>

WriteLastUsn_EndOfListing == Handled /\ lastUsn' = cursor

WriteLastUsn == Handled /\ lastUsn' = serverUsn

-----------------------------------------------------------------------------
(* A request fails or the process stops: the session is gone. *)
Interrupted ==
    /\ phase # "idle"
    /\ phase' = "idle"
    /\ UNCHANGED <<serverVars, diskVars, serverUsn, cursor, allFiles, toDelete, heard>>

(* In extract_zip, between two files or in the middle of one. *)
ExtractionInterrupted(batch) ==
    /\ phase = "files"
    /\ IsBatch(batch)
    /\ phase' = "idle"
    /\ \E opened \in SUBSET InZip(batch) : \E cut \in SUBSET opened :
          Cardinality(cut) <= 1 /\ Extract(opened, cut)
    /\ UNCHANGED <<serverVars, lastUsn, serverUsn, cursor, allFiles, toDelete, heard>>

(* In write_text, which empties the file first; empty reads as 0. *)
WriteInterrupted ==
    /\ Handled
    /\ lastUsn' = 0

Failure ==
    \/ Interrupted
    \/ \E batch \in SUBSET allFiles : ExtractionInterrupted(batch)
    \/ WriteInterrupted

Work ==
    \/ \E page \in SUBSET File : ListPage(page)
    \/ \E batch \in SUBSET allFiles : DownloadBatch(batch)
    \/ \E f \in toDelete : Unlink(f) \/ UnlinkFails(f)
    \/ WriteLastUsn

Next ==
    \/ \E f \in File, c \in Contents : ServerChanges(f, c)
    \/ Begin \/ Work \/ Failure

Spec == Init /\ [][Next]_vars

(* The user syncs again and again, and the thread of a session runs on. *)
FairSpec == Spec /\ WF_vars(Begin) /\ WF_vars(Work)
-----------------------------------------------------------------------------
Mirrors(f) == media[f] = IF f \in Supported THEN server[f].content ELSE Absent

(* AnkiWeb's state of the file is on disk or was given up. *)
Kept(f) == Mirrors(f) \/ server[f].content \in Oversize \/ f \in stuck

(* A change AnkiWeb will not list again, because last_usn has passed it,   *)
(* has reached the disk, whatever failed and whatever changed during the   *)
(* session; only oversize files and failed deletions are given up.         *)
NothingMissed == \A f \in File : server[f].usn <= lastUsn => Kept(f)

(* No session, cut short or not, touches a file whose last change is       *)
(* behind last_usn, and last_usn goes back only when its writing is cut.   *)
TouchesOnlyNews ==
    [][/\ \A f \in File : media'[f] # media[f] => server[f].usn > lastUsn
       /\ lastUsn' >= lastUsn \/ lastUsn' = 0]_vars

(* When sessions stop failing, AnkiWeb's last change is passed for good.   *)
CatchesUp == <>[][~Failure]_vars => <>[](lastUsn = latestUsn)
-----------------------------------------------------------------------------
(* _apply_deletions (media_http.py:365) "Removes files AnkiWeb has         *)
(* deleted": not a file that the session's listing named again later.      *)
RemovesOnlyDeleted ==
    [][\A f \in File : media[f] # Absent /\ media'[f] = Absent => heard[f] = Absent]_vars
=============================================================================

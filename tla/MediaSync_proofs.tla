--------------------------- MODULE MediaSync_proofs ---------------------------
(***************************************************************************)
(* Theorems about MediaSync, for any files, contents, page size, batch     *)
(* limit and number of changes.                                            *)
(***************************************************************************)
EXTENDS MediaSync, TLAPS

LEMMA ExtractTypes ==
  ASSUME TypeOK, NEW batch, NEW opened \in SUBSET InZip(batch), NEW cut, Extract(opened, cut)
  PROVE  media' \in [File -> Contents \cup {Partial}] /\ stuck' \subseteq File
BY DEF TypeOK, Extract, Contents

(* The types of the variables are kept by every step.                      *)
LEMMA TypeStep == TypeOK /\ [Next]_vars => TypeOK'
<1> SUFFICES ASSUME TypeOK, [Next]_vars PROVE TypeOK'
  OBVIOUS
<1> USE FileAssumption, ContentAssumption, SizeAssumption
    DEF TypeOK, Contents, vars, serverVars, diskVars, sessionVars
<1>1. ASSUME NEW f \in File, NEW c \in Contents, ServerChanges(f, c)
      PROVE  TypeOK'
  BY <1>1 DEF ServerChanges
<1>2. CASE Begin
  BY <1>2 DEF Begin
<1>3. ASSUME NEW page \in SUBSET File, ListPage(page)
      PROVE  TypeOK'
  <2>1. ToDownload(page) \subseteq Entry
    BY DEF ToDownload, Entry
  <2>2. cursor' \in Nat
    BY <1>3 DEF ListPage, EndsAt
  <2>3. QED
    BY <1>3, <2>1, <2>2 DEF ListPage
<1>4. ASSUME NEW batch \in SUBSET allFiles, DownloadBatch(batch)
      PROVE  TypeOK'
  <2>1. media' \in [File -> Contents \cup {Partial}] /\ stuck' \subseteq File
    BY <1>4, ExtractTypes, Zenon DEF DownloadBatch
  <2>2. QED
    BY <1>4, <2>1 DEF DownloadBatch
<1>5. ASSUME NEW f \in toDelete, Unlink(f)
      PROVE  TypeOK'
  BY <1>5 DEF Unlink, Deleting
<1>6. ASSUME NEW f \in toDelete, UnlinkFails(f)
      PROVE  TypeOK'
  BY <1>6 DEF UnlinkFails, Deleting
<1>7. CASE WriteLastUsn
  BY <1>7 DEF WriteLastUsn, Handled
<1>8. CASE Interrupted
  BY <1>8 DEF Interrupted
<1>9. ASSUME NEW batch \in SUBSET allFiles, ExtractionInterrupted(batch)
      PROVE  TypeOK'
  <2>1. media' \in [File -> Contents \cup {Partial}] /\ stuck' \subseteq File
    BY <1>9, ExtractTypes, Zenon DEF ExtractionInterrupted
  <2>2. QED
    BY <1>9, <2>1 DEF ExtractionInterrupted
<1>10. CASE WriteInterrupted
  BY <1>10 DEF WriteInterrupted, Handled
<1>11. CASE UNCHANGED vars
  BY <1>11
<1>12. QED
  BY <1>1, <1>2, <1>3, <1>4, <1>5, <1>6, <1>7, <1>8, <1>9, <1>10, <1>11
     DEF Next, Work, Failure

LEMMA TypeInit == Init => TypeOK
BY FileAssumption, ContentAssumption DEF Init, TypeOK, Contents, Entry

(* TypeOK is inductive by itself.                                          *)
THEOREM TypeCorrect == Spec => []TypeOK
<1>1. QED
  BY TypeInit, TypeStep, PTL DEF Spec

-----------------------------------------------------------------------------
(* What no one else can have changed since the session began.              *)
Settled(f) == server[f].usn <= serverUsn

(* AnkiWeb's usn only grows and the client's knowledge is behind it.       *)
UsnsOrdered ==
    /\ \A f \in File : server[f].usn <= latestUsn
    /\ lastUsn <= latestUsn
    /\ phase # "idle" => lastUsn <= serverUsn /\ serverUsn <= latestUsn /\ lastUsn <= cursor

(* A file that is never downloaded is never on disk.                       *)
OnlySupported == \A f \in File \ Supported : media[f] = Absent

(* What the session has queued is news, and right for settled files.       *)
QueueSound ==
    phase # "idle" =>
       /\ \A p \in allFiles : /\ p.fname \in Supported
                              /\ server[p.fname].usn > lastUsn
                              /\ Settled(p.fname) => p.sha1 = server[p.fname].content
       /\ \A f \in toDelete : /\ server[f].usn > lastUsn
                              /\ Settled(f) => server[f].content = Absent

Queued(f) ==
    \/ f \in toDelete /\ server[f].content = Absent
    \/ \E p \in allFiles : p.fname = f /\ p.sha1 = server[f].content

(* A settled change the session has read is on disk or still queued.       *)
QueueComplete ==
    phase # "idle" =>
       \A f \in File : /\ Settled(f)
                       /\ server[f].usn > lastUsn
                       /\ phase = "files" \/ server[f].usn <= cursor
                       => Kept(f) \/ Queued(f)

IInv ==
    /\ TypeOK
    /\ UsnsOrdered
    /\ OnlySupported
    /\ QueueSound
    /\ QueueComplete
    /\ NothingMissed

LEMMA InitInv == Init => IInv
<1> SUFFICES ASSUME Init PROVE IInv
  OBVIOUS
<1>1. TypeOK
  BY TypeInit
<1>2. \A f \in File : Kept(f)
  BY DEF Init, Kept, Mirrors
<1>3. QED
  BY <1>1, <1>2 DEF Init, IInv, UsnsOrdered, OnlySupported, QueueSound, QueueComplete, NothingMissed

-----------------------------------------------------------------------------
(* A short page ends the listing: nothing is left after it.                *)
LEMMA ShortPageIsLast ==
  ASSUME NEW page, IsPage(page), TypeOK, Cardinality(page) < PageSize
  PROVE  page = After(cursor)
BY SizeAssumption DEF IsPage

(* What the cursor passes by is in the page.                               *)
LEMMA PageIsPrefix ==
  ASSUME TypeOK, NEW page, IsPage(page), EndsAt(page),
         NEW f \in File, server[f].usn > cursor, server[f].usn <= cursor'
  PROVE  f \in page
<1>1. page \subseteq File /\ f \in After(cursor)
  BY DEF IsPage, After
<1>2. ASSUME f \notin page PROVE FALSE
  <2>1. \A g \in page : server[g].usn < server[f].usn
    BY <1>1, <1>2 DEF IsPage
  <2>2. CASE page = {} /\ UNCHANGED cursor
    BY <2>2 DEF TypeOK
  <2>3. CASE \E g \in page : cursor' = server[g].usn
    BY <1>1, <2>1, <2>3 DEF TypeOK
  <2>4. QED
    BY <2>2, <2>3 DEF EndsAt
<1>3. QED
  BY <1>2

LEMMA CursorGrows ==
  ASSUME TypeOK, NEW page, IsPage(page), EndsAt(page)
  PROVE  cursor <= cursor'
<1>1. CASE page = {} /\ UNCHANGED cursor
  BY <1>1 DEF TypeOK
<1>2. CASE \E g \in page : cursor' = server[g].usn
  BY <1>2 DEF TypeOK, IsPage, After
<1>3. QED
  BY <1>1, <1>2 DEF EndsAt

(* AnkiWeb gives the changed file a usn beyond the session's.              *)
LEMMA ServerChangesStep ==
  ASSUME IInv, TypeOK', NEW g \in File, NEW c \in Contents, ServerChanges(g, c)
  PROVE  IInv'
<1> USE DEF IInv
<1>1. /\ \A f \in File \ {g} : server'[f] = server[f]
      /\ server'[g].usn = latestUsn + 1
      /\ latestUsn' = latestUsn + 1
  BY DEF ServerChanges, TypeOK
<1>2. UNCHANGED <<media, lastUsn, stuck, phase, serverUsn, cursor, allFiles, toDelete>>
  BY DEF ServerChanges, diskVars, sessionVars
<1>3. UsnsOrdered'
  BY <1>1, <1>2 DEF UsnsOrdered, TypeOK
<1>4. OnlySupported'
  BY <1>2 DEF OnlySupported
<1>5. /\ server'[g].usn > lastUsn
      /\ phase # "idle" => server'[g].usn > serverUsn
  BY <1>1 DEF UsnsOrdered, TypeOK
<1>6. \A f \in File \ {g} : Kept(f)' <=> Kept(f)
  BY <1>1, <1>2 DEF Kept, Mirrors
<1>7. NothingMissed'
  BY <1>1, <1>2, <1>5, <1>6 DEF NothingMissed, TypeOK
<1>8. QueueSound'
  <2>1. \A f \in File : /\ server'[f].usn > lastUsn \/ server'[f] = server[f]
                        /\ phase # "idle" /\ Settled(f)' => server'[f] = server[f]
    <3>1. phase # "idle" => ~Settled(g)'
      BY <1>2, <1>5 DEF Settled, TypeOK
    <3>2. QED
      BY <1>1, <1>5, <3>1
  <2>2. \A f \in File : server'[f] = server[f] => (Settled(f)' <=> Settled(f))
    BY <1>2 DEF Settled
  <2>3. \A p \in allFiles : p.fname \in File
    BY DEF TypeOK, Entry
  <2>4. \A f \in toDelete : f \in File
    BY DEF TypeOK
  <2>5. QED
    BY <1>2, <2>1, <2>2, <2>3, <2>4, Zenon DEF QueueSound
<1>9. QueueComplete'
  BY <1>1, <1>2, <1>5, <1>6 DEF QueueComplete, Settled, Queued, TypeOK
<1>10. QED
  BY <1>3, <1>4, <1>7, <1>8, <1>9

LEMMA BeginStep ==
  ASSUME IInv, TypeOK', Begin
  PROVE  IInv'
<1> USE DEF IInv, Begin, serverVars, diskVars
<1>1. UsnsOrdered' /\ OnlySupported' /\ QueueSound'
  BY DEF UsnsOrdered, OnlySupported, QueueSound, TypeOK
<1>2. NothingMissed'
  BY DEF NothingMissed, Kept, Mirrors
<1>3. QueueComplete'
  BY DEF QueueComplete, TypeOK
<1>4. QED
  BY <1>1, <1>2, <1>3

(* A page queues what it names.                                            *)
LEMMA ListPageStep ==
  ASSUME IInv, TypeOK', NEW page \in SUBSET File, ListPage(page)
  PROVE  IInv'
<1> USE DEF IInv
<1>1. UNCHANGED <<server, latestUsn, media, lastUsn, stuck, serverUsn>>
  BY DEF ListPage, serverVars, diskVars
<1>2. phase = "changes" /\ IsPage(page) /\ EndsAt(page)
  BY DEF ListPage
<1>3. /\ toDelete' = toDelete \cup {f \in page : server[f].content = Absent}
      /\ allFiles' = allFiles \cup ToDownload(page)
  BY DEF ListPage
<1>4. cursor <= cursor'
  BY <1>2, CursorGrows
<1>5. UsnsOrdered' /\ OnlySupported' /\ NothingMissed'
  BY <1>1, <1>2, <1>4 DEF UsnsOrdered, OnlySupported, NothingMissed, Kept, Mirrors, TypeOK
<1>6. \A f \in page : server[f].usn > lastUsn
  BY <1>2 DEF IsPage, After, UsnsOrdered, TypeOK
<1>7. \A p \in ToDownload(page) :
         p.fname \in page \cap Supported /\ p.sha1 = server[p.fname].content
  BY DEF ToDownload
<1>8. QueueSound'
  BY <1>1, <1>2, <1>3, <1>6, <1>7 DEF QueueSound, Settled
<1>9. ASSUME NEW f \in page
      PROVE  (Kept(f) \/ Queued(f))'
  <2>1. CASE server[f].content = Absent
    BY <1>1, <1>3, <2>1 DEF Queued
  <2>2. CASE server[f].content # Absent /\ f \in Supported
    <3>1. [fname |-> f, sha1 |-> server[f].content] \in allFiles'
      BY <1>3, <2>2 DEF ToDownload
    <3>2. QED
      BY <1>1, <3>1 DEF Queued
  <2>3. CASE f \notin Supported
    BY <1>1, <2>3 DEF Kept, Mirrors, OnlySupported
  <2>4. QED
    BY <2>1, <2>2, <2>3
<1>10. ASSUME NEW f \in File, Kept(f) \/ Queued(f)
       PROVE  (Kept(f) \/ Queued(f))'
  BY <1>1, <1>3, <1>10 DEF Kept, Mirrors, Queued
<1>11. ASSUME NEW f \in File, server[f].usn > cursor,
              phase' = "files" \/ server[f].usn <= cursor'
       PROVE  f \in page
  <2>1. CASE phase' = "files"
    <3>1. Cardinality(page) < PageSize
      BY <2>1 DEF ListPage
    <3>2. page = After(cursor)
      BY <1>2, <3>1, ShortPageIsLast
    <3>3. QED
      BY <1>11, <3>2 DEF After
  <2>2. CASE server[f].usn <= cursor'
    BY <1>2, <1>11, <2>2, PageIsPrefix
  <2>3. QED
    BY <1>11, <2>1, <2>2
<1>12. ASSUME NEW f \in File, Settled(f)', server[f].usn > lastUsn,
              phase' = "files" \/ server[f].usn <= cursor'
       PROVE  (Kept(f) \/ Queued(f))'
  <2>1. CASE server[f].usn <= cursor
    BY <1>1, <1>2, <1>10, <1>12, <2>1 DEF QueueComplete, Settled
  <2>2. CASE server[f].usn > cursor
    BY <1>9, <1>11, <1>12, <2>2
  <2>3. QED
    BY <2>1, <2>2 DEF TypeOK
<1>13. QueueComplete'
  BY <1>1, <1>12 DEF QueueComplete
<1>14. QED
  BY <1>5, <1>8, <1>13

(* The files in the zip are news, and never ones that are not downloaded.  *)
LEMMA ZipFacts ==
  ASSUME IInv, phase # "idle", NEW batch \in SUBSET allFiles, NEW f \in InZip(batch)
  PROVE  f \in File /\ f \in Supported /\ server[f].usn > lastUsn
<1>1. PICK p \in batch : p.fname = f /\ media[f] # p.sha1
  BY DEF InZip, Wanted
<1>2. QED
  BY <1>1 DEF IInv, QueueSound, InZip, Wanted

(* What the extraction leaves alone, and what is then as AnkiWeb has it.   *)
LEMMA ExtractFacts ==
  ASSUME IInv, phase # "idle", NEW batch \in SUBSET allFiles,
         NEW opened \in SUBSET InZip(batch), NEW cut, Extract(opened, cut)
  PROVE  /\ \A f \in File : media'[f] # media[f] => f \in InZip(batch)
         /\ \A f \in File : f \in stuck /\ f \notin stuck' => f \in InZip(batch)
         /\ \A f \in File : f \in InZip(batch) =>
               f \in Supported /\ server[f].usn > lastUsn
         /\ cut = {} =>
               \A f \in opened : \/ media'[f] = server[f].content
                                 \/ server[f].content \in Oversize
<1>1. \A f \in InZip(batch) : f \in File /\ f \in Supported /\ server[f].usn > lastUsn
  BY ZipFacts
<1>2. opened \subseteq InZip(batch)
  OBVIOUS
<1>3. QED
  BY <1>1, <1>2 DEF Extract

LEMMA DownloadBatchStep ==
  ASSUME IInv, TypeOK', NEW batch \in SUBSET allFiles, DownloadBatch(batch)
  PROVE  IInv'
<1> USE DEF IInv
<1>1. /\ UNCHANGED <<server, latestUsn, lastUsn, phase, serverUsn, cursor, toDelete>>
      /\ phase = "files"
      /\ allFiles' = allFiles \ batch
  BY DEF DownloadBatch, serverVars
<1>2. PICK opened \in SUBSET InZip(batch) : Extracted(batch) \subseteq opened /\ Extract(opened, {})
  BY Zenon DEF DownloadBatch
<1>3. /\ \A f \in File : media'[f] # media[f] => f \in Supported
      /\ \A f \in opened : media'[f] = server[f].content \/ server[f].content \in Oversize
      /\ \A f \in opened : f \in Supported
      /\ \A f \in File \ opened : media'[f] = media[f] /\ (f \in stuck => f \in stuck')
  <2>1. \A f \in File \ opened : media'[f] = media[f] /\ (f \in stuck => f \in stuck')
    BY <1>2 DEF Extract
  <2>2. \A f \in opened : f \in InZip(batch) /\ f \in File
    BY <1>2 DEF InZip, Wanted
  <2>3. QED
    BY <1>1, <1>2, <2>1, <2>2, ExtractFacts
<1>4. UsnsOrdered' /\ OnlySupported' /\ QueueSound'
  BY <1>1, <1>3 DEF UsnsOrdered, OnlySupported, QueueSound, Settled
<1>5. ASSUME NEW f \in File, Kept(f)
      PROVE  Kept(f)'
  <2>1. CASE f \in opened
    BY <1>1, <1>3, <2>1 DEF Kept, Mirrors
  <2>2. CASE f \notin opened
    BY <1>1, <1>3, <1>5, <2>2 DEF Kept, Mirrors
  <2>3. QED
    BY <2>1, <2>2
<1>6. NothingMissed'
  BY <1>1, <1>5 DEF NothingMissed
<1>7. ASSUME NEW f \in File, NEW p \in batch, p.fname = f, p.sha1 = server[f].content
      PROVE  Kept(f)'
  <2>1. f \in Supported /\ server[f].content \in Content
    BY <1>1, <1>7 DEF QueueSound, TypeOK, Entry
  <2>2. CASE media[f] = p.sha1
    BY <1>5, <1>7, <2>1, <2>2 DEF Kept, Mirrors
  <2>3. CASE media[f] # p.sha1 /\ server[f].content \in Oversize
    BY <1>1, <2>3 DEF Kept
  <2>4. CASE media[f] # p.sha1 /\ server[f].content \notin Oversize
    <3>1. f \in Extracted(batch)
      BY <1>7, <2>1, <2>4, ContentAssumption DEF Extracted, InZip, Wanted
    <3>2. media'[f] = server[f].content
      BY <1>2, <1>3, <2>4, <3>1, Zenon
    <3>3. QED
      BY <1>1, <2>1, <3>2 DEF Kept, Mirrors
  <2>5. QED
    BY <2>2, <2>3, <2>4
<1>8. ASSUME NEW f \in File, Queued(f)
      PROVE  (Kept(f) \/ Queued(f))'
  <2>1. CASE f \in toDelete /\ server[f].content = Absent
    BY <1>1, <2>1 DEF Queued
  <2>2. ASSUME NEW p \in allFiles, p.fname = f, p.sha1 = server[f].content
        PROVE  (Kept(f) \/ Queued(f))'
    <3>1. CASE p \in batch
      BY <1>7, <2>2, <3>1
    <3>2. CASE p \notin batch
      BY <1>1, <2>2, <3>2 DEF Queued
    <3>3. QED
      BY <3>1, <3>2
  <2>3. QED
    BY <1>8, <2>1, <2>2 DEF Queued
<1>9. QueueComplete'
  BY <1>1, <1>5, <1>8 DEF QueueComplete, Settled
<1>10. QED
  BY <1>4, <1>6, <1>9

(* A settled file that is deleted is one AnkiWeb has deleted.              *)
LEMMA UnlinkStep ==
  ASSUME IInv, TypeOK', NEW g \in toDelete, Unlink(g) \/ UnlinkFails(g)
  PROVE  IInv'
<1> USE DEF IInv
<1>1. /\ UNCHANGED <<server, latestUsn, lastUsn, phase, serverUsn, cursor, allFiles>>
      /\ phase = "files"
      /\ toDelete' = toDelete \ {g}
  BY DEF Unlink, UnlinkFails, Deleting, serverVars
<1>2. g \in File /\ server[g].usn > lastUsn
  BY <1>1 DEF TypeOK, QueueSound
<1>3. /\ \A f \in File \ {g} : media'[f] = media[f] /\ (f \in stuck' <=> f \in stuck)
      /\ media'[g] = Absent \/ g \in stuck'
      /\ media'[g] \in {media[g], Absent}
  BY <1>2 DEF Unlink, UnlinkFails, Deleting, TypeOK
<1>4. UsnsOrdered' /\ OnlySupported' /\ QueueSound'
  BY <1>1, <1>3 DEF UsnsOrdered, OnlySupported, QueueSound, Settled
<1>5. \A f \in File \ {g} : Kept(f)' <=> Kept(f)
  BY <1>1, <1>3 DEF Kept, Mirrors
<1>6. NothingMissed'
  BY <1>1, <1>2, <1>5 DEF NothingMissed, TypeOK
<1>7. Settled(g) => Kept(g)'
  BY <1>1, <1>2, <1>3 DEF QueueSound, Kept, Mirrors
<1>8. \A f \in File \ {g} : Queued(f) => Queued(f)'
  BY <1>1 DEF Queued
<1>9. QueueComplete'
  BY <1>1, <1>5, <1>7, <1>8 DEF QueueComplete, Settled
<1>10. QED
  BY <1>4, <1>6, <1>9

(* With the queues empty every settled change is on disk.                  *)
LEMMA WriteStep ==
  ASSUME IInv, TypeOK', WriteLastUsn \/ WriteInterrupted
  PROVE  IInv'
<1> USE DEF IInv
<1>1. /\ UNCHANGED <<server, latestUsn, media, stuck>>
      /\ phase = "files" /\ allFiles = {} /\ toDelete = {}
      /\ phase' = "idle"
      /\ lastUsn' \in {serverUsn, 0}
  BY DEF WriteLastUsn, WriteInterrupted, Handled, serverVars
<1>2. UsnsOrdered' /\ OnlySupported' /\ QueueSound' /\ QueueComplete'
  BY <1>1 DEF UsnsOrdered, OnlySupported, QueueSound, QueueComplete, TypeOK
<1>3. ASSUME NEW f \in File, server[f].usn <= lastUsn'
      PROVE  Kept(f)
  <2>1. CASE server[f].usn <= lastUsn
    BY <2>1 DEF NothingMissed
  <2>2. CASE server[f].usn > lastUsn
    <3>1. Settled(f)
      BY <1>1, <1>3, <2>2 DEF Settled, TypeOK
    <3>2. QED
      BY <1>1, <2>2, <3>1 DEF QueueComplete, Queued
  <2>3. QED
    BY <2>1, <2>2 DEF TypeOK
<1>4. NothingMissed'
  BY <1>1, <1>3 DEF NothingMissed, Kept, Mirrors
<1>5. QED
  BY <1>2, <1>4

LEMMA InterruptedStep ==
  ASSUME IInv, TypeOK', Interrupted
  PROVE  IInv'
BY DEF IInv, Interrupted, UsnsOrdered, OnlySupported, QueueSound, QueueComplete, NothingMissed,
       Kept, Mirrors, serverVars, diskVars

(* The file cut short is one that the next session lists again.            *)
LEMMA ExtractionInterruptedStep ==
  ASSUME IInv, TypeOK', NEW batch \in SUBSET allFiles, ExtractionInterrupted(batch)
  PROVE  IInv'
<1> USE DEF IInv
<1>1. /\ UNCHANGED <<server, latestUsn, lastUsn>>
      /\ phase = "files" /\ phase' = "idle"
  BY DEF ExtractionInterrupted, serverVars
<1>2. PICK opened \in SUBSET InZip(batch) : \E cut \in SUBSET opened : Extract(opened, cut)
  BY Zenon DEF ExtractionInterrupted
<1>3. /\ \A f \in File : media'[f] # media[f] => f \in InZip(batch)
      /\ \A f \in File : f \in stuck /\ f \notin stuck' => f \in InZip(batch)
      /\ \A f \in File : f \in InZip(batch) => f \in Supported /\ server[f].usn > lastUsn
  BY <1>1, <1>2, ExtractFacts
<1>4. OnlySupported'
  BY <1>3 DEF OnlySupported
<1>5. ASSUME NEW f \in File, server'[f].usn <= lastUsn'
      PROVE  Kept(f)'
  <2>1. f \notin InZip(batch) /\ Kept(f)
    BY <1>1, <1>3, <1>5 DEF NothingMissed, TypeOK
  <2>2. QED
    BY <1>1, <1>3, <2>1 DEF Kept, Mirrors
<1>6. NothingMissed'
  BY <1>5 DEF NothingMissed
<1>7. UsnsOrdered' /\ QueueSound' /\ QueueComplete'
  BY <1>1 DEF UsnsOrdered, QueueSound, QueueComplete
<1>8. QED
  BY <1>4, <1>6, <1>7

LEMMA InductiveInv == IInv /\ [Next]_vars => IInv'
<1> SUFFICES ASSUME IInv, [Next]_vars PROVE IInv'
  OBVIOUS
<1>1. TypeOK'
  BY TypeStep DEF IInv
<1>2. CASE UNCHANGED vars
  <2>1. UNCHANGED <<server, latestUsn, media, lastUsn, stuck>> /\ UNCHANGED <<phase, serverUsn, cursor, allFiles, toDelete>>
    BY <1>2 DEF vars, serverVars, diskVars, sessionVars
  <2>2. UsnsOrdered' /\ OnlySupported' /\ QueueSound' /\ NothingMissed'
    BY <2>1 DEF IInv, UsnsOrdered, OnlySupported, QueueSound, NothingMissed, Kept, Mirrors, Settled
  <2>3. QueueComplete'
    BY <2>1 DEF IInv, QueueComplete, Kept, Mirrors, Settled, Queued
  <2>4. QED
    BY <1>1, <2>2, <2>3 DEF IInv
<1>3. QED
  BY <1>1, <1>2, ServerChangesStep, BeginStep, ListPageStep, DownloadBatchStep, UnlinkStep,
     WriteStep, InterruptedStep, ExtractionInterruptedStep
     DEF Next, Work, Failure

(* However AnkiWeb changes and wherever sessions die, last_usn never       *)
(* passes a change that is not dealt with.                                 *)
THEOREM AlwaysNothingMissed == Spec => []NothingMissed
<1>1. IInv => NothingMissed
  BY DEF IInv
<1>2. QED
  BY InitInv, InductiveInv, <1>1, PTL DEF Spec

(* What a step of a session, or a failure in it, does to the disk concerns *)
(* entries AnkiWeb has numbered above last_usn.                            *)
LEMMA NewsStep ==
  ASSUME IInv, [Next]_vars
  PROVE  /\ \A f \in File : media'[f] # media[f] => server[f].usn > lastUsn
         /\ lastUsn' >= lastUsn \/ lastUsn' = 0
<1> USE DEF IInv, TypeOK
<1>1. ASSUME UNCHANGED <<media, lastUsn>>
      PROVE  /\ \A f \in File : media'[f] # media[f] => server[f].usn > lastUsn
             /\ lastUsn' >= lastUsn \/ lastUsn' = 0
  BY <1>1
<1>2. CASE \E f \in File, c \in Contents : ServerChanges(f, c)
  BY <1>1, <1>2 DEF ServerChanges, diskVars
<1>3. CASE Begin \/ Interrupted \/ \E page \in SUBSET File : ListPage(page)
  BY <1>1, <1>3 DEF Begin, Interrupted, ListPage, diskVars
<1>4. ASSUME NEW batch \in SUBSET allFiles, DownloadBatch(batch)
      PROVE  /\ \A f \in File : media'[f] # media[f] => server[f].usn > lastUsn
             /\ lastUsn' = lastUsn
  <2>1. phase # "idle"
    BY <1>4 DEF DownloadBatch
  <2>2. PICK opened \in SUBSET InZip(batch) : Extract(opened, {})
    BY <1>4, Zenon DEF DownloadBatch
  <2>3. QED
    BY <1>4, <2>1, <2>2, ExtractFacts DEF DownloadBatch
<1>5. ASSUME NEW f \in toDelete, Unlink(f) \/ UnlinkFails(f)
      PROVE  /\ \A g \in File : media'[g] # media[g] => server[g].usn > lastUsn
             /\ lastUsn' = lastUsn
  BY <1>5 DEF Unlink, UnlinkFails, Deleting, QueueSound
<1>6. CASE WriteLastUsn \/ WriteInterrupted
  BY <1>6 DEF WriteLastUsn, WriteInterrupted, Handled, UsnsOrdered
<1>7. ASSUME NEW batch \in SUBSET allFiles, ExtractionInterrupted(batch)
      PROVE  /\ \A f \in File : media'[f] # media[f] => server[f].usn > lastUsn
             /\ lastUsn' = lastUsn
  <2>1. phase # "idle"
    BY <1>7 DEF ExtractionInterrupted
  <2>2. PICK opened \in SUBSET InZip(batch) : \E cut \in SUBSET opened : Extract(opened, cut)
    BY <1>7, Zenon DEF ExtractionInterrupted
  <2>3. QED
    BY <1>7, <2>1, <2>2, ExtractFacts DEF ExtractionInterrupted
<1>8. CASE UNCHANGED vars
  BY <1>1, <1>8 DEF vars, diskVars
<1>9. QED
  BY <1>2, <1>3, <1>4, <1>5, <1>6, <1>7, <1>8 DEF Next, Work, Failure

(* Wherever sessions die, a file whose last change is behind last_usn is   *)
(* left alone, and last_usn goes back only when its writing is cut short.  *)
THEOREM AlwaysTouchesOnlyNews == Spec => TouchesOnlyNews
<1>1. IInv /\ [Next]_vars =>
        [/\ \A f \in File : media'[f] # media[f] => server[f].usn > lastUsn
         /\ lastUsn' >= lastUsn \/ lastUsn' = 0]_vars
  BY NewsStep
<1>2. QED
  BY InitInv, InductiveInv, <1>1, PTL DEF Spec, TouchesOnlyNews
===============================================================================

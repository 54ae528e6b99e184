----------------------------- MODULE LocalFiles -----------------------------
(***************************************************************************)
(* One name in the folder and everything in the daemon that can take its   *)
(* content away: the delta pass (delta.rs) that puts placeholders over it  *)
(* or removes it, the eviction sweep (reclaim.rs, place.rs) that exchanges *)
(* it for a placeholder, and the upload (upload.rs) that gives it its id,  *)
(* while its user edits in place, saves over it and deletes it. The three  *)
(* threads look first and act later, and share nothing but the file, the   *)
(* queue and the lineage record (lineage.rs).                              *)
(*                                                                         *)
(* A content is a number and never recurs; the version a tag names is the  *)
(* content it was given for. Renames and folders are left to Removals, the *)
(* requests of an upload to Sink, the rounds of the feed to DeltaFeed.     *)
(***************************************************************************)
EXTENDS Naturals, FiniteSets

CONSTANTS
    Inode,          \* inode numbers, positive; the first file has 1
    MaxBody,        \* bound: contents written by anyone
    MaxObject,      \* bound: objects the drive ever has
    MaxTurns        \* bound: passes, sweeps and uploads begun, and restarts of the daemon; when
                    \* the last is over nobody acts any more

ASSUME LocalAssumption ==
    /\ Inode \subseteq Nat \ {0} /\ 1 \in Inode
    /\ MaxBody \in Nat \ {0} /\ MaxObject \in Nat \ {0} /\ MaxTurns \in Nat

VARIABLES
    drive,      \* what the drive holds under the name: object 0 for none
    known,      \* what of it the delta thread has accepted
    file,       \* [Inode -> File]
    at,         \* the inode under the name, 0 for none
    scratch,    \* the inode an eviction has exchanged out
    hidden,     \* inodes preserved under scratch names for good
    held,       \* the inode a user's process has open for writing
    record,     \* the lineage file's entry for the name
    waiting,    \* Queue::waiting
    sending,    \* Queue::in_flight
    dAt,        \* where the delta thread stands,
    batch,      \* the changes it applies,
    snap,       \* the snapshot of the queue it took before
    claims,     \* and the object its index says the name is
    looked,     \* what its last look at the file saw
    eAt,        \* where the eviction thread stands,
    eSnap,      \* the snapshot it took,
    guard,      \* the file it approved (and history: the contents there were when it compared)
    own,        \* and the placeholder it made
    uAt,        \* where the upload thread stands,
    job,        \* the inode it sends,
    base,       \* the object and tag its request names,
    observed,   \* the content it saw before sending
    uploaded,   \* and what the drive answered
    unsent,     \* history: contents of the user's that the drive never had
    basis,      \* history: the contents each content was written over
    last,       \* history: what the user deleted under the name
    top,        \* contents so far
    objects,    \* objects so far
    strayed,    \* history: contents whose upload read another file than it began with
    late,       \* history: an upload has landed since the pass took its batch
    crossed,    \* history: two of the threads have come between each other (NoBlindOverwrite)
    turns       \* passes, sweeps, uploads and restarts so far

world  == <<drive, unsent, basis, last, top, objects>>
disk   == <<file, at, scratch, hidden, record>>
queue  == <<waiting, sending>>
delta  == <<known, dAt, batch, snap, claims, looked>>
evict  == <<eAt, eSnap, guard, own>>
upload == <<uAt, job, base, observed, uploaded>>
past   == <<strayed, late, crossed>>
daemon == <<queue, delta, evict, upload, past, turns>>
vars   == <<world, disk, held, daemon>>

None   == MaxBody + 1
Body   == 0 .. MaxBody
Object == 0 .. MaxObject
At     == Inode \cup {0}

Version == [obj : Object, body : Body]
Nothing == [obj |-> 0, body |-> 0]

\* A file: whether the mark says it is a placeholder, the id and the tag it carries, the
\* content its stamp describes (None: it has no stamp) and what it holds.
File  == [mark : BOOLEAN, ver : Version, stamp : Body \cup {None}, body : Body]
Blank == [mark |-> FALSE, ver |-> Nothing, stamp |-> None, body |-> 0]

WorldOK ==
    /\ drive \in Version /\ known \in Version /\ top \in Body /\ objects \in Object
    /\ unsent \subseteq Body /\ basis \in [Body -> SUBSET Body] /\ last \in Body
    /\ strayed \subseteq Body /\ late \in BOOLEAN /\ crossed \in BOOLEAN

FilesOK ==
    /\ file \in [Inode -> File] /\ at \in At /\ scratch \in At /\ held \in At
    /\ hidden \subseteq Inode /\ record \in Version

QueueOK == waiting \subseteq Inode /\ sending \subseteq Inode /\ turns \in 0 .. MaxTurns

PassOK ==
    /\ dAt \in {"idle", "pulled", "remove", "unlink", "put", "place", "done"}
    /\ batch \in [gone : Object, put : Version] /\ snap \subseteq Inode /\ claims \in Object
    /\ looked \in [body : Body, stamped : BOOLEAN]

SweepOK ==
    /\ eAt \in {"idle", "chosen", "guarded", "judged", "exchanged", "drop", "restore"}
    /\ eSnap \subseteq Inode /\ own \in At
    /\ guard \in [ino : At, body : Body, ver : Version, top : Body]

UploadOK ==
    /\ uAt \in {"idle", "begun", "sent", "found", "named", "gone"} /\ job \in At /\ base \in Version
    /\ observed \in Body /\ uploaded \in Version

\* An inode has one place, and only an eviction in progress holds one outside the name.
OnePlace ==
    /\ at # 0 => at # scratch /\ at \notin hidden
    /\ scratch # 0 => eAt \in {"exchanged", "drop", "restore"}

TypeOK == WorldOK /\ FilesOK /\ QueueOK /\ PassOK /\ SweepOK /\ UploadOK /\ OnePlace

Turn == turns < MaxTurns /\ turns' = turns + 1

NoBatch == [gone |-> 0, put |-> Nothing]
NoGuard == [ino |-> 0, body |-> 0, ver |-> Nothing, top |-> 0]
Unseen  == [body |-> 0, stamped |-> TRUE]

\* The file is on the drive, here, and clean.
Init ==
    /\ drive = [obj |-> 1, body |-> 1] /\ known = drive
    /\ at = 1 /\ scratch = 0 /\ hidden = {} /\ held = 0
    /\ file = [[i \in Inode |-> Blank] EXCEPT ![1] = [Blank EXCEPT !.ver = drive, !.stamp = 1,
                                                                   !.body = 1]]
    /\ record = drive /\ waiting = {} /\ sending = {}
    /\ dAt = "idle" /\ batch = NoBatch /\ snap = {} /\ claims = 0 /\ looked = Unseen
    /\ eAt = "idle" /\ eSnap = {} /\ guard = NoGuard /\ own = 0
    /\ uAt = "idle" /\ job = 0 /\ base = Nothing /\ observed = 0 /\ uploaded = Nothing
    /\ unsent = {} /\ basis = [c \in Body |-> {}] /\ last = 0 /\ top = 1 /\ objects = 1
    /\ turns = 0 /\ strayed = {} /\ late = FALSE /\ crossed = FALSE

-----------------------------------------------------------------------------
(* Files.                                                                  *)

\* stamp::state: an unstamped file is neither.
Clean(f) == f.stamp = f.body
Dirty(f) == f.stamp \notin {None, f.body}

\* A new inode, of a number nothing speaks of any more.
Free == Inode \ ({at, scratch, held, job, own, guard.ino} \cup hidden \cup waiting \cup sending
                 \cup snap \cup eSnap)
Fresh == CHOOSE i \in Free : TRUE

\* TmpfilePlacer::placeholder: mark, id, tag, size and stamp, and no content.
Placeholder(v) == [mark |-> TRUE, ver |-> v, stamp |-> 0, body |-> 0]

\* An inode lives while it has a name or is open.
Living(f, roots) == [i \in Inode |-> IF i \in roots THEN f[i] ELSE Blank]

\* Store::lookup: what the file says of itself, or what the record says of its name.
Identity(f) == IF f.ver.obj # 0 THEN f.ver ELSE record

\* Store::scan and Lineage::absorb: a file with an id refreshes the record, one without keeps
\* it, and a name that is empty or a placeholder loses it.
Absorbed ==
    IF at = 0 \/ (at # 0 /\ file[at].mark) THEN Nothing
    ELSE Identity(file[at])

-----------------------------------------------------------------------------
(* The user's processes and the drive: external. A notification of an edit *)
(* may come at any time, or never.                                         *)

Write(c, over) ==
    /\ top < MaxBody /\ c = top + 1 /\ top' = c
    /\ basis' = [basis EXCEPT ![c] = basis[over] \cup {over}]

Edit == Write(top + 1, file[held].body) /\ unsent' = unsent \cup {top + 1}

SaveInPlace ==
    /\ held # 0 /\ Edit
    /\ file' = [file EXCEPT ![held].body = top + 1]
    /\ UNCHANGED <<drive, last, objects, at, scratch, hidden, record, held, daemon>>

\* What an editor writes over: the content, or the version a placeholder stands for, or what
\* the user has just deleted to make room.
Showing == IF at = 0 THEN last ELSE IF file[at].mark THEN file[at].ver.body ELSE file[at].body

SaveOver ==
    /\ Free # {} /\ Write(top + 1, Showing) /\ unsent' = unsent \cup {top + 1}
    /\ at' = Fresh /\ last' = 0
    /\ file' = [Living(file, {scratch, held} \cup hidden) EXCEPT
                    ![Fresh] = [Blank EXCEPT !.body = top + 1]]
    /\ UNCHANGED <<drive, objects, scratch, hidden, record, held, daemon>>

\* Opening a placeholder for writing fills it first.
Open == held = 0 /\ at # 0 /\ ~ file[at].mark /\ held' = at
        /\ UNCHANGED <<world, disk, daemon>>

Close == /\ held # 0 /\ held' = 0 /\ file' = Living(file, {at, scratch} \cup hidden)
         /\ UNCHANGED <<world, at, scratch, hidden, record, daemon>>

Delete ==
    /\ at # 0 /\ at' = 0 /\ last' = Showing /\ file' = Living(file, {scratch, held} \cup hidden)
    /\ UNCHANGED <<drive, unsent, basis, top, objects, scratch, hidden, record, held, daemon>>

Notice ==
    /\ at # 0 /\ turns < MaxTurns /\ waiting' = waiting \cup {at}
    /\ UNCHANGED <<world, disk, held, sending, delta, evict, upload, past, turns>>

\* The helper fills the placeholder with what the drive has under its id.
Hydrate ==
    /\ at # 0 /\ file[at].mark /\ drive.obj = file[at].ver.obj
    /\ file' = [file EXCEPT ![at] = [@ EXCEPT !.mark = FALSE, !.body = drive.body,
                                              !.stamp = drive.body]]
    /\ UNCHANGED <<world, at, scratch, hidden, record, held, daemon>>

DriveEdit ==
    /\ drive.obj # 0 /\ Write(top + 1, drive.body) /\ drive' = [drive EXCEPT !.body = top + 1]
    /\ UNCHANGED <<unsent, last, objects, disk, held, daemon>>

DriveDelete ==
    /\ drive.obj # 0 /\ drive' = Nothing
    /\ UNCHANGED <<unsent, basis, last, top, objects, disk, held, daemon>>

DriveCreate ==
    /\ drive.obj = 0 /\ objects < MaxObject /\ objects' = objects + 1 /\ Write(top + 1, 0)
    /\ drive' = [obj |-> objects', body |-> top + 1]
    /\ UNCHANGED <<unsent, last, disk, held, daemon>>

External == \/ SaveInPlace \/ SaveOver \/ Open \/ Close \/ Delete \/ Notice \/ Hydrate
            \/ DriveEdit \/ DriveDelete \/ DriveCreate

-----------------------------------------------------------------------------
(* The delta pass.                                                         *)

Rest == <<world, held, queue, evict, upload, strayed>>
DeltaOnly == UNCHANGED <<Rest, late, crossed, turns>>

\* Discover::changes reports what differs from what was accepted, a removal first; the snapshot
\* of the queue is taken before the pass, and leaves out what is being sent.
Pull ==
    /\ dAt = "idle" /\ drive # known /\ dAt' = "pulled"
    /\ batch' = [gone |-> IF known.obj \in {0, drive.obj} THEN 0 ELSE known.obj, put |-> drive]
    /\ snap' = waiting
    /\ Turn /\ late' = FALSE /\ UNCHANGED <<known, claims, looked, disk, crossed, Rest>>

\* The pass walks the tree, and this store is the one that writes the record.
Scan ==
    /\ dAt = "pulled" /\ dAt' = IF batch.gone = 0 THEN "put" ELSE "remove"
    /\ record' = Absorbed
    /\ claims' = IF at = 0 THEN 0
                 ELSE IF file[at].ver.obj # 0 THEN file[at].ver.obj ELSE Absorbed.obj
    /\ UNCHANGED <<known, batch, snap, looked, file, at, scratch, hidden>> /\ DeltaOnly

\* The walk fails: the cursor stays where it is.
ScanFails ==
    /\ dAt = "pulled" /\ dAt' = "idle" /\ batch' = NoBatch /\ snap' = {}
    /\ UNCHANGED <<known, claims, looked, disk>> /\ DeltaOnly

Look == looked' = [body |-> file[at].body, stamped |-> file[at].stamp # None]

\* A deletion is applied to the file the index names, unless an edit waits or the stamp says
\* there is one.
RemoveLook ==
    /\ dAt = "remove"
    /\ IF claims = batch.gone /\ at # 0 /\ at \notin snap /\ ~ Dirty(file[at])
       THEN dAt' = "unlink" /\ Look
       ELSE dAt' = "put" /\ UNCHANGED looked
    /\ UNCHANGED <<known, batch, snap, claims, disk>> /\ DeltaOnly

\* An upload is between its look at the name and what it writes on whatever has it.
Recording == uAt \in {"found", "named"}

Unlink ==
    /\ dAt = "unlink" /\ dAt' = "put"
    /\ at' = 0 /\ file' = Living(file, {scratch, held} \cup hidden) /\ looked' = Unseen
    /\ crossed' = (crossed \/ Recording)
    /\ UNCHANGED <<known, batch, snap, claims, scratch, hidden, record, late, turns, Rest>>

\* A removal that fails is reported, and the pass goes on.
UnlinkFails ==
    /\ dAt = "unlink" /\ dAt' = "put" /\ looked' = Unseen
    /\ UNCHANGED <<known, batch, snap, claims, disk>> /\ DeltaOnly

\* is_current: id, tag and size.
Current(f) == f.ver = batch.put

\* Fault: the stamp is not asked.
KeptIfQueued(i) == i \in snap \/ (file[i].ver.obj = 0 /\ file[i].body # 0)
\* The reasons to keep what is here: an edit waits, or it was never uploaded, or it changed.
KeptLocal(i) == i \in snap \/ (file[i].ver.obj = 0 /\ file[i].body # 0) \/ Dirty(file[i])

PutLook ==
    /\ dAt = "put"
    /\ \/ /\ batch.put.obj # 0 /\ at = 0
          /\ dAt' = "place" /\ UNCHANGED looked
       \/ /\ batch.put.obj # 0 /\ at # 0 /\ ~ Current(file[at]) /\ ~ KeptLocal(at)
          /\ dAt' = "place" /\ Look
       \/ /\ batch.put.obj = 0 \/ (at # 0 /\ (Current(file[at]) \/ KeptLocal(at)))
          /\ dAt' = "done" /\ UNCHANGED looked
    /\ UNCHANGED <<known, batch, snap, claims, disk>> /\ DeltaOnly

\* link_into_place: what is under the name by now is replaced, whatever it is.
Place ==
    /\ dAt = "place" /\ dAt' = "done" /\ Free # {}
    /\ at' = Fresh
    /\ file' = [Living(file, {scratch, held} \cup hidden) EXCEPT
                    ![Fresh] = Placeholder(batch.put)]
    /\ looked' = Unseen /\ crossed' = (crossed \/ late \/ Recording)
    /\ UNCHANGED <<known, batch, snap, claims, scratch, hidden, record, late, turns, Rest>>

\* A placement that fails is reported, and the pass goes on.
PlaceFails ==
    /\ dAt = "place" /\ dAt' = "done" /\ looked' = Unseen
    /\ UNCHANGED <<known, batch, snap, claims, disk>> /\ DeltaOnly

\* A pass with nothing to retry moves the cursor.
Accept ==
    /\ dAt = "done" /\ dAt' = "idle" /\ known' = batch.put
    /\ batch' = NoBatch /\ snap' = {} /\ claims' = 0
    /\ UNCHANGED <<looked, disk>> /\ DeltaOnly

Pass == Pull \/ Scan \/ ScanFails \/ RemoveLook \/ Unlink \/ UnlinkFails \/ PutLook \/ Place
        \/ PlaceFails \/ Accept

-----------------------------------------------------------------------------
(* The eviction sweep.                                                     *)

Others == <<world, record, held, queue, delta, upload, strayed, late>>
EvictOnly == UNCHANGED <<Others, crossed, turns>>

Quit == eAt' = "idle" /\ eSnap' = {} /\ guard' = NoGuard /\ own' = 0

Evictable(f) == ~ f.mark /\ f.ver.obj # 0 /\ Clean(f)

\* Space is short and no delta pass is running: the queue is read, and a candidate is found.
Choose ==
    /\ eAt = "idle" /\ dAt \in {"idle", "pulled"} /\ at # 0 /\ Evictable(file[at])
    /\ eAt' = "chosen" /\ eSnap' = waiting \cup sending
    /\ Turn /\ UNCHANGED <<guard, own, file, at, scratch, hidden, crossed, Others>>

\* reclaim_with looks at the file before it asks anything else about the path.
Guard ==
    /\ eAt = "chosen"
    /\ IF at = 0 THEN Quit
       ELSE /\ eAt' = "guarded" /\ guard' = [NoGuard EXCEPT !.ino = at, !.body = file[at].body]
            /\ UNCHANGED <<eSnap, own>>
    /\ UNCHANGED <<file, at, scratch, hidden>> /\ EvictOnly

\* Refused: gone, a placeholder already, pinned (at any time), queued or being sent, without
\* an id, or not clean. Otherwise what the placeholder will say is read from the path.
Judge ==
    /\ eAt = "guarded"
    /\ \/ Quit
       \/ /\ at # 0 /\ guard.ino \notin eSnap /\ Evictable(file[at])
          /\ eAt' = "judged" /\ guard' = [guard EXCEPT !.ver = file[at].ver]
          /\ UNCHANGED <<eSnap, own>>
    /\ UNCHANGED <<file, at, scratch, hidden>> /\ EvictOnly

\* The placeholder stands for a version that does not descend from the one the record names.
Outdated == record.obj = drive.obj /\ record.body \notin basis[guard.ver.body] \cup {guard.ver.body}

\* The placeholder goes to a scratch name and changes places with whatever the name has now.
Exchange ==
    /\ eAt = "judged"
    /\ IF at = 0 THEN Quit /\ UNCHANGED <<file, at, scratch, crossed>>
       ELSE /\ Free # {} /\ eAt' = "exchanged" /\ own' = Fresh /\ at' = Fresh /\ scratch' = at
            /\ file' = [file EXCEPT ![Fresh] = Placeholder(guard.ver)]
            /\ crossed' = (crossed \/ Recording \/ file[at].ver # guard.ver \/ Outdated)
            /\ UNCHANGED <<eSnap, guard>>
    /\ UNCHANGED <<hidden, turns, Others>>

SameInode  == scratch = guard.ino   \* Fault: the times are not compared.
\* Inode, size and times of what came out, against what was approved.
AsApproved == scratch = guard.ino /\ file[scratch].body = guard.body

Compare ==
    /\ eAt = "exchanged" /\ eAt' = IF AsApproved THEN "drop" ELSE "restore"
    /\ guard' = [guard EXCEPT !.top = top] /\ crossed' = (crossed \/ ~ AsApproved)
    /\ UNCHANGED <<eSnap, own, file, at, scratch, hidden, turns, Others>>

Drop ==
    /\ eAt = "drop" /\ Quit
    /\ scratch' = 0 /\ file' = Living(file, {at, held} \cup hidden)
    /\ UNCHANGED <<at, hidden>> /\ EvictOnly

\* The exchange is undone; what comes back is unlinked only if it is the placeholder, and
\* preserved where it is otherwise, or when the name is gone.
Restore ==
    /\ eAt = "restore" /\ Quit /\ scratch' = 0
    /\ IF at = 0 THEN hidden' = hidden \cup {scratch} /\ UNCHANGED <<at, file>>
       ELSE /\ at' = scratch
            /\ hidden' = IF at = own THEN hidden ELSE hidden \cup {at}
            /\ file' = Living(file, {scratch, held} \cup hidden')
    /\ EvictOnly

Evict == Choose \/ Guard \/ Judge \/ Exchange \/ Compare \/ Drop \/ Restore

-----------------------------------------------------------------------------
(* The upload.                                                             *)

Beside == <<objects, basis, last, top, scratch, hidden, record, held, delta, evict, past>>
UploadOnly == UNCHANGED <<Beside, turns>>

\* The outcome is in: the file leaves the sending set, and a failure queues it again.
Finished(failed) ==
    /\ uAt' = "idle" /\ sending' = {} /\ job' = 0 /\ base' = Nothing /\ observed' = 0
    /\ uploaded' = Nothing /\ waiting' = IF failed THEN waiting \cup {job} ELSE waiting

\* A file the index does not know is nothing to do.
Begin(i) ==
    /\ uAt = "idle" /\ i \in waiting
    /\ IF i = at
       THEN /\ uAt' = "begun" /\ waiting' = waiting \ {i} /\ sending' = {i} /\ job' = i
            /\ base' = Identity(file[i]) /\ observed' = file[i].body /\ UNCHANGED uploaded
       ELSE waiting' = waiting \ {i} /\ UNCHANGED <<sending, upload>>
    /\ Turn /\ UNCHANGED <<file, at, drive, unsent, Beside>>

\* The drive takes the content of the path, over the version named or under a new id, and says
\* under which tag, or there is none: one request of Sink's.
Put(i, obj) ==
    /\ drive' = [obj |-> obj, body |-> file[i].body]
    /\ uploaded' \in {drive', [drive' EXCEPT !.body = 0]} /\ uAt' = "sent"
    /\ unsent' = unsent \ {file[i].body}
    /\ strayed' = IF at = job THEN strayed ELSE strayed \cup {observed}
    /\ late' = TRUE
    /\ UNCHANGED <<queue, job, base, observed, file, at, basis, last, top>>
    /\ UNCHANGED <<scratch, hidden, record, held, delta, evict, crossed, turns>>

Replace ==
    /\ uAt = "begun" /\ at # 0 /\ ~ file[at].mark
    /\ drive.obj # 0 /\ base = drive /\ base.body # 0
    /\ Put(at, drive.obj) /\ UNCHANGED objects

\* There is no object to replace, or it is gone, and nothing under the name.
Create ==
    /\ uAt = "begun" /\ at # 0 /\ ~ file[at].mark /\ drive.obj = 0 /\ objects < MaxObject
    /\ Put(at, objects + 1) /\ objects' = objects + 1

\* The drive has this very content under the name already.
Settle ==
    /\ uAt = "begun" /\ at # 0 /\ ~ file[at].mark /\ drive.obj # 0 /\ drive.body = file[at].body
    /\ Put(at, drive.obj) /\ UNCHANGED objects

\* The tag was not in the answer, and when it is read back it is another device's.
ReadBack ==
    /\ uAt = "sent" /\ uploaded.body # 0 /\ drive.obj = uploaded.obj /\ drive # uploaded
    /\ uploaded' = drive /\ crossed' = TRUE
    /\ UNCHANGED <<uAt, job, base, observed, queue, file, at, drive, unsent, strayed, late>>
    /\ UNCHANGED <<objects, basis, last, top, scratch, hidden, record, held, delta, evict, turns>>

\* Refused, not there, a placeholder, the drive is out of reach or does not say what it has done;
\* or the outcome cannot be written on the file.
Fails ==
    /\ uAt \in {"begun", "sent", "found", "gone"} /\ Finished(TRUE)
    /\ UNCHANGED <<file, at, drive, unsent>> /\ UploadOnly

\* The index is asked whether the name still leads to the file that was begun.
Lookup ==
    /\ uAt = "sent" /\ uAt' = IF at = job THEN "found" ELSE "gone"
    /\ UNCHANGED <<queue, job, base, observed, uploaded, file, at, drive, unsent>> /\ UploadOnly

\* A tag that is none leaves the former one, which is of no use to another object.
Tagged(v) == IF uploaded.body # 0 THEN uploaded
             ELSE [obj |-> uploaded.obj, body |-> IF v.obj = uploaded.obj THEN v.body ELSE 0]

\* Fault: the tag is asked for when it is written down.
AdoptLatest ==
    /\ uAt = "found" /\ at # 0 /\ uAt' = "named"
    /\ file' = [file EXCEPT ![at].ver = drive]
    /\ UNCHANGED <<queue, job, base, observed, uploaded, at, drive, unsent>> /\ UploadOnly

\* Whatever has the name by now gets the id and the tag (adopt_cloud_id, whose two writes follow
\* each other), then the stamp of what was seen before.
Adopt ==
    /\ uAt = "found" /\ at # 0 /\ uAt' = "named"
    /\ file' = [file EXCEPT ![at].ver = Tagged(@)]
    /\ UNCHANGED <<queue, job, base, observed, uploaded, at, drive, unsent>> /\ UploadOnly

Stamp ==
    /\ uAt = "named" /\ Finished(FALSE)
    /\ file' \in {file} \cup (IF at = 0 THEN {} ELSE {[file EXCEPT ![at].stamp = observed]})
    /\ UNCHANGED <<at, drive, unsent>> /\ UploadOnly

\* The file was deleted meanwhile, and so is the object, unless the drive has another version of
\* it by now than the sink knows of; if it knows of none it is not asked for.
RemoveInstead ==
    /\ uAt = "gone"
    /\ \/ drive.obj = uploaded.obj /\ uploaded.body \in {0, drive.body}
          /\ drive' = Nothing /\ Finished(FALSE)
       \/ drive # uploaded /\ UNCHANGED drive /\ Finished(drive.obj = uploaded.obj)
    /\ UNCHANGED <<file, at, unsent>> /\ UploadOnly

Upload == (\E i \in Inode : Begin(i)) \/ Replace \/ Create \/ Settle \/ ReadBack \/ Fails
          \/ Lookup \/ Adopt \/ Stamp \/ RemoveInstead

\* The daemon dies and comes back: the queue and what the threads were doing is gone, and the
\* sweep at startup takes away a scratch file that carries the mark.
Crash ==
    /\ Turn
    /\ waiting' = {} /\ sending' = {}
    /\ dAt' = "idle" /\ batch' = NoBatch /\ snap' = {} /\ claims' = 0 /\ looked' = Unseen
    /\ Quit /\ scratch' = 0
    /\ uAt' = "idle" /\ job' = 0 /\ base' = Nothing /\ observed' = 0 /\ uploaded' = Nothing
    /\ hidden' = IF scratch = 0 \/ (scratch # 0 /\ file[scratch].mark) THEN hidden
                 ELSE hidden \cup {scratch}
    /\ file' = Living(file, {at, held} \cup hidden')
    /\ UNCHANGED <<world, known, at, record, held, past>>

Going == turns < MaxTurns \/ dAt # "idle" \/ eAt # "idle" \/ uAt # "idle"

Next == (Going /\ External) \/ Pass \/ Evict \/ Upload \/ Crash

Spec == Init /\ [][Next]_vars

-----------------------------------------------------------------------------
(* Properties.                                                             *)

\* The user's contents that some name leads to, and those a step takes away for good.
Here     == {file[i].body : i \in ({at, scratch} \cup hidden) \ {0}}
Perished == (unsent \cap Here) \ Here'

\* Types, and: what a pass saw when it looked (delta.rs: the guards before place and remove)
\* is not destroyed by it when the drive never had it, if the file has a stamp to go by: but
\* for a content that was stamped for an upload that read another file (run_upload).
SeenIsKept ==
    /\ []TypeOK
    /\ [][dAt # dAt' =>
             \A c \in Perished \ strayed : c # looked.body \/ ~ looked.stamped]_vars

\* An eviction takes away no content the drive never had, but for one written in place after
\* the comparison (place_if_unchanged) or into the placeholder it then withdrew
\* (restore_target), and for one stamped as above; nor does a restart.
EvictedIsSent ==
    [][eAt # eAt' => \A c \in Perished \ strayed :
                        (guard.top # 0 /\ c > guard.top) \/ (eAt = "restore" /\ c = file[own].body)
      ]_vars

\* An upload of the file it began with replaces no version on the drive that its content was
\* not written over: what the three threads and the record (Store::lookup, adopt_cloud_id)
\* leave on a file is never newer than its content, also when the user saves over it or deletes
\* it while the outcome of an upload is being written. That is until two of the threads have
\* come between each other (`crossed`): a pass or a sweep changes what has the name while the
\* outcome of an upload is being written on it (run_upload); a pass puts in place a version that
\* an upload has replaced since it was listed; a sweep exchanges for a placeholder what has
\* another tag, or an older one than the record, or takes out what it did not approve and has
\* to put it back (place_if_unchanged); or a tag that is read back is another device's (settle).
NoBlindOverwrite ==
    [][~ crossed /\ uAt # uAt' /\ at = job
          /\ drive # drive' /\ 0 \notin {drive.obj, drive'.obj}
        => drive.body \in basis[drive'.body]]_vars
=============================================================================

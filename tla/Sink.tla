-------------------------------- MODULE Sink --------------------------------
(***************************************************************************)
(* The requests of one upload (GraphSink in hydration-graph/src/lib.rs): a *)
(* file sent in one piece or through an upload session, over the version   *)
(* it is based on or under a new name, its object renamed or removed, and  *)
(* a folder removed; while the user saves the file, other devices write to *)
(* the drive, and any request may be answered with an error or not at all, *)
(* applied or not.                                                         *)
(*                                                                         *)
(* A content is a number and a version of the object is a number, which is *)
(* its tag. A file is two fragments long: a body on the drive is a pair.   *)
(* run_upload, which calls the sink, is here as far as it decides what to  *)
(* do with the outcome; its queue is in Changes.                           *)
(***************************************************************************)
EXTENDS Naturals

CONSTANTS
    MaxAttempts,    \* MAX_WRITE_ATTEMPTS
    MaxFaults,      \* MAX_FRAGMENT_FAULTS
    MaxStalls,      \* MAX_FRAGMENT_STALLS
    Headroom,       \* FRAGMENT_HEADROOM
    MaxSaves,       \* bound: what the user does
    MaxRemote       \* bound: what other devices do

ASSUME SinkAssumption ==
    /\ MaxAttempts \in Nat \ {0} /\ MaxFaults \in Nat \ {0} /\ MaxStalls \in Nat \ {0}
    /\ Headroom \in Nat /\ MaxSaves \in Nat /\ MaxRemote \in Nat

VARIABLES
    drive,      \* the object under the name, and the session the service holds
    folder,     \* a folder on the drive: whether it exists, its tag, how many children
    file,       \* the local file: inode and content (0: gone, or a placeholder)
    attrs,      \* its id, tag and stamp
    known,      \* GraphSink::known: object -> tag, 0 for none
    large,      \* the file is longer than simple_upload_max
    pc,         \* the request being made
    attempt,    \* call: how often it has been sent
    job,        \* run_upload: the inode, what was seen of it, and the object it claims
    fd,         \* the file as it is open: inode, snapshot and what the inode holds by now
    data,       \* what goes on the wire
    xfer,       \* the transfer's counters
    done,       \* Uploaded: object and version, and whether there is a tag of it
    seen,       \* the tag the last read found: of the object, before the commit; of the folder
    lent,       \* history: tags of others' versions that were read back as the sink's own
    saves, others

call    == <<job, fd, data, xfer, done, seen>>
vars    == <<drive, folder, file, attrs, known, large, pc, attempt, job, fd, data, xfer, done, seen,
             lent, saves, others>>

\* Every object but the first takes the place of one that was removed.
Obj == 1 .. (1 + MaxSaves + MaxRemote)

Last == 1           \* the fragment that completes the file
Total == Last + 1
Ceiling == Total + Headroom + 1

NoJob  == [ino |-> 0, body |-> 0, obj |-> 0]
NoFd   == [ino |-> 0, snap |-> 0, body |-> 0]
NoXfer == [at |-> 0, sent |-> 0, stalls |-> 0, faults |-> 0, rechecked |-> FALSE]
NoObj  == [obj |-> 0, ver |-> 0, tag |-> FALSE]
Shut   == [open |-> FALSE, into |-> 0, got |-> 0, part |-> 0]

Points == {"idle", "open", "put", "create", "putPath", "reconcile", "session", "check", "read",
           "recheck", "send", "probe", "range", "cancel", "done", "remove", "patch",
           "children", "meta", "rmdir", "readback"}

Session == [open : BOOLEAN, into : Nat, got : 0 .. Last, part : Nat]

Drive   == [obj : Nat, ver : Nat, body : Nat \X Nat, top : Nat, objs : Nat, session : Session]

DriveOK == drive \in Drive

FilesOK ==
    /\ folder \in [is : BOOLEAN, ver : Nat, kids : Nat]
    /\ file \in [ino : Nat, body : Nat] /\ attrs \in [obj : Nat, ver : Nat, stamp : Nat]
    /\ large \in BOOLEAN /\ saves \in 0 .. MaxSaves /\ others \in 0 .. MaxRemote

CallOK ==
    /\ pc \in Points /\ attempt \in 1 .. MaxAttempts
    /\ job \in [ino : Nat, body : Nat, obj : Nat] /\ fd \in [ino : Nat, snap : Nat, body : Nat]
    /\ data \in Nat \X Nat /\ done \in [obj : Nat, ver : Nat, tag : BOOLEAN] /\ seen \in Nat

XferOK ==
    xfer \in [at : 0 .. Last, sent : 0 .. Ceiling + 1, stalls : 0 .. MaxStalls,
              faults : 0 .. MaxFaults, rechecked : BOOLEAN]

\* The sink never holds a tag the drive has not given out.
KnownOK == /\ known \in [Obj -> Nat] /\ \A o \in Obj : known[o] <= drive.top
           /\ lent \in SUBSET Nat

TypeOK == DriveOK /\ FilesOK /\ CallOK /\ XferOK /\ KnownOK

\* The file has been sent once; the process that sends it has been started since.
Init ==
    /\ drive = [obj |-> 1, ver |-> 1, body |-> <<1, 1>>, top |-> 1, objs |-> 1, session |-> Shut]
    /\ folder \in [is : BOOLEAN, ver : {1}, kids : {0}]
    /\ file = [ino |-> 1, body |-> 1] /\ attrs = [obj |-> 1, ver |-> 1, stamp |-> 1]
    /\ known = [o \in Obj |-> 0] /\ large \in BOOLEAN
    /\ pc = "idle" /\ attempt = 1 /\ job = NoJob /\ fd = NoFd /\ data = <<0, 0>> /\ xfer = NoXfer
    /\ done = NoObj /\ seen = 0 /\ lent = {} /\ saves = 0 /\ others = 0

-----------------------------------------------------------------------------
(* The user, and the other devices: external.                              *)

SaveInPlace ==
    /\ saves < MaxSaves /\ saves' = saves + 1 /\ file.body # 0
    /\ file' = [file EXCEPT !.body = saves + 2]
    /\ fd' = IF fd.ino = file.ino THEN [fd EXCEPT !.body = saves + 2] ELSE fd
    /\ UNCHANGED <<drive, folder, attrs, known, large, pc, attempt, job, data, xfer, done, seen,
                   lent, others>>

\* A new inode, or none: what it carries is what the record remembers (Store::lookup).
SaveOver ==
    /\ saves < MaxSaves /\ saves' = saves + 1
    /\ \E body \in {0, saves + 2} : file' = [ino |-> file.ino + 1, body |-> body]
    /\ attrs' = [attrs EXCEPT !.stamp = 0]
    /\ UNCHANGED <<drive, folder, known, large, pc, attempt, job, fd, data, xfer, done, seen,
                   lent, others>>

Foreign == others < MaxRemote /\ others' = others + 1
           /\ UNCHANGED <<file, attrs, known, large, pc, attempt, job, fd, data, xfer, done, seen,
                          lent, saves>>

RemoteEdit ==
    /\ drive.obj # 0 /\ Foreign
    /\ drive' = [drive EXCEPT !.ver = drive.top + 1, !.top = drive.top + 1,
                              !.body = <<100 + others, 100 + others>>]
    /\ UNCHANGED folder

RemoteRemove ==
    /\ drive.obj # 0 /\ Foreign /\ drive' = [drive EXCEPT !.obj = 0, !.ver = 0, !.body = <<0, 0>>]
    /\ UNCHANGED folder

RemoteChild ==
    /\ folder.is /\ Foreign /\ folder' = [folder EXCEPT !.kids = @ + 1, !.ver = @ + 1]
    /\ UNCHANGED drive

\* The service lets a session expire.
Expire ==
    /\ drive.session.open /\ Foreign /\ drive' = [drive EXCEPT !.session = Shut]
    /\ UNCHANGED folder

External == SaveInPlace \/ SaveOver \/ RemoteEdit \/ RemoteRemove \/ RemoteChild \/ Expire

-----------------------------------------------------------------------------
(* Requests. What the service does with one is a drive after it; whether   *)
(* it is done and whether the answer arrives are two matters.              *)

Goto(p) == pc' = p /\ attempt' = 1

\* The upload is over with an error: run_upload reports it and the queue keeps the file.
Fails == /\ Goto("idle") /\ job' = NoJob /\ fd' = NoFd /\ data' = <<0, 0>> /\ xfer' = NoXfer
         /\ done' = NoObj /\ seen' = 0 /\ UNCHANGED known

\* call: an answer, or 429 or 5xx and the same request again as often as it may be sent, or no
\* connection.
Ask(after, answered, failed) ==
    \/ drive' = after /\ answered
    \/ /\ drive' \in {drive, after} /\ attempt < MaxAttempts /\ attempt' = attempt + 1
       /\ UNCHANGED <<pc, known, call>>
    \/ drive' \in {drive, after} /\ failed

Unasked == UNCHANGED drive
Here     == UNCHANGED <<folder, file, attrs, large, saves, others>>
SinkOnly == Here /\ UNCHANGED lent

\* call_session: where a lost answer is not asked for again.
Again == attempt < MaxAttempts /\ attempt' = attempt + 1 /\ UNCHANGED <<pc, known, call>>

\* precondition, read_tag, collided_on_name: what an update is conditional on, or 0; what a read
\* of the item answers, 0 when it is gone; and whether the name has been taken.
Precondition(obj) == known[obj]
ReadTag(obj)      == IF drive.obj = obj THEN drive.ver ELSE 0
Collided          == drive.obj # 0

\* outstanding_offset: the range the session waits for.
Outstanding == drive.session.got

\* The service's side of a write: a new version of an object.
Written(d, obj, body) == [d EXCEPT !.obj = obj, !.ver = d.top + 1, !.top = d.top + 1, !.body = body,
                                   !.objs = IF obj > d.objs THEN obj ELSE d.objs]

\* settle: the answer names the object, and its tag, which the sink remembers, or none.
Settle(obj, ver) ==
    /\ done' = [obj |-> obj, ver |-> ver, tag |-> TRUE] /\ UNCHANGED <<job, fd, data, xfer, seen>>
    /\ \/ known' = [known EXCEPT ![obj] = ver] /\ Goto("done")
       \/ UNCHANGED known /\ Goto("readback")

\* Then the tag is read back: of the object as it is by now, or still none; an error is the
\* upload's.
ReadBack ==
    /\ pc = "readback" /\ Here
    /\ \/ UNCHANGED lent /\ Ask(drive, /\ ReadTag(done.obj) # 0 /\ done' = [done EXCEPT !.tag = FALSE]
                                       /\ Goto("done") /\ UNCHANGED <<known, job, fd, data, xfer, seen>>,
                             Fails)
       \/ /\ ReadTag(done.obj) # 0 /\ Unasked /\ Goto("done")
          /\ done' = [done EXCEPT !.ver = drive.ver]
          /\ known' = [known EXCEPT ![done.obj] = drive.ver]
          /\ lent' = lent \cup ({drive.ver} \ {done.ver})
          /\ UNCHANGED <<job, fd, data, xfer, seen>>

-----------------------------------------------------------------------------
(* One upload.                                                             *)

\* run_upload: the identity is looked up and the state is observed before the sink is called,
\* which takes the file's tag only when it has none of its own.
Start ==
    /\ pc = "idle" /\ file.body # 0 /\ attrs.stamp # file.body
    /\ job' = [ino |-> file.ino, body |-> file.body, obj |-> attrs.obj]
    /\ known' = IF attrs.obj # 0 /\ known[attrs.obj] = 0
                THEN [known EXCEPT ![attrs.obj] = attrs.ver] ELSE known
    /\ Goto("open") /\ Unasked /\ UNCHANGED <<fd, data, xfer, done, seen>> /\ SinkOnly

Opened == fd' = [ino |-> file.ino, snap |-> file.body, body |-> file.body]
          /\ data' = <<file.body, file.body>>

\* upload: the file is opened, refused when it is a placeholder, looked at, and sent by its length.
OpenFile ==
    /\ pc = "open" /\ Unasked /\ SinkOnly
    /\ IF file.body = 0 THEN Fails
       ELSE /\ Opened /\ UNCHANGED <<known, job, xfer, done, seen>>
            /\ Goto(IF large THEN "session" ELSE IF job.obj # 0 THEN "put" ELSE "putPath")

\* put_at_item: with if-match; only a 404 turns the update into a create.
PutAtItem ==
    /\ pc = "put" /\ SinkOnly
    /\ IF Precondition(job.obj) = 0 THEN Fails /\ Unasked
       ELSE IF drive.obj # job.obj
       THEN Ask(drive, Goto("create") /\ UNCHANGED <<known, call>>, Fails)
       ELSE IF drive.ver # Precondition(job.obj) THEN Ask(drive, Fails, Fails)
       ELSE Ask(Written(drive, job.obj, data),
                Settle(job.obj, drive.top + 1), Fails)

\* create: opened and judged again.
Create ==
    /\ pc = "create" /\ Unasked /\ SinkOnly
    /\ IF file.body = 0 THEN Fails
       ELSE /\ Opened /\ job' = [job EXCEPT !.obj = 0] /\ UNCHANGED <<known, xfer, done, seen>>
            /\ Goto(IF large THEN "session" ELSE "putPath")

\* put_at_path: never over what has the name already.
PutAtPath ==
    /\ pc = "putPath" /\ SinkOnly
    /\ IF Collided
       THEN Ask(drive, Goto("reconcile") /\ UNCHANGED <<known, call>>, Fails)
       ELSE Ask(Written(drive, drive.objs + 1, data), Settle(drive.objs + 1, drive.top + 1), Fails)

\* reconcile_by_content: what has the name is adopted when it is this content, proved.
Reconcile ==
    /\ pc = "reconcile" /\ SinkOnly
    /\ Ask(drive, IF drive.obj # 0 /\ drive.body = data THEN Settle(drive.obj, drive.ver) ELSE Fails,
           Fails)

-----------------------------------------------------------------------------
(* The session.                                                            *)

\* upload_session: an update needs a tag before it begins, and its session is opened at the
\* item without one.
OpenSession ==
    /\ pc = "session" /\ SinkOnly
    /\ LET opened == [drive EXCEPT !.session = [Shut EXCEPT !.open = TRUE, !.into = job.obj]]
       IN  IF job.obj # 0 /\ Precondition(job.obj) = 0 THEN Fails /\ Unasked
           ELSE IF job.obj # 0 /\ drive.obj # job.obj
           THEN Ask(drive, Goto("create") /\ UNCHANGED <<known, call>>, Fails)
           ELSE IF job.obj = 0 /\ Collided THEN Ask(drive, Fails, Fails)
           ELSE Ask(opened, /\ Goto("check") /\ xfer' = NoXfer
                            /\ UNCHANGED <<known, job, fd, data, done, seen>>, Fails)

Same == UNCHANGED <<known, job, fd, data, done, seen>>

\* The head of the loop: never more fragments than the ceiling, and none once the path leads to
\* another inode or the file was written (unchanged).
Unmoved == file.ino = fd.ino /\ file.body = fd.snap

CheckForever ==   \* Fault: no ceiling.
    /\ pc = "check" /\ Unasked /\ SinkOnly /\ Same
    /\ IF ~ Unmoved THEN Goto("cancel") /\ UNCHANGED xfer
       ELSE Goto("read") /\ UNCHANGED xfer

Check ==
    /\ pc = "check" /\ Unasked /\ SinkOnly /\ Same
    /\ IF xfer.sent > Ceiling \/ ~ Unmoved THEN Goto("cancel") /\ UNCHANGED xfer
       ELSE Goto("read") /\ xfer' = [xfer EXCEPT !.sent = @ + 1]

\* The bytes are read through the descriptor, and before the fragment that completes an update,
\* once, the tag is read back.
Read ==
    /\ pc = "read" /\ Unasked /\ SinkOnly
    /\ data' = <<fd.body, data[2]>>
    /\ Goto(IF xfer.at = Last /\ job.obj # 0 /\ ~ xfer.rechecked THEN "recheck" ELSE "send")
    /\ UNCHANGED <<known, job, fd, xfer, done, seen>>

RecheckAny ==   \* Fault: whatever the tag is.
    /\ pc = "recheck" /\ SinkOnly
    /\ Ask(drive, /\ Goto("send") /\ seen' = drive.ver
                  /\ xfer' = [xfer EXCEPT !.rechecked = TRUE]
                  /\ UNCHANGED <<known, job, fd, data, done>>,
           Goto("cancel") /\ UNCHANGED <<known, call>>)

\* A tag that is not the one known, or none, is the end of the transfer.
Recheck ==
    /\ pc = "recheck" /\ SinkOnly
    /\ LET moved == ReadTag(job.obj) # Precondition(job.obj)
       IN  Ask(drive,
               IF moved THEN Goto("cancel") /\ UNCHANGED <<known, call>>
               ELSE /\ Goto("send") /\ seen' = drive.ver
                    /\ xfer' = [xfer EXCEPT !.rechecked = TRUE]
                    /\ UNCHANGED <<known, job, fd, data, done>>,
               Goto("cancel") /\ UNCHANGED <<known, call>>)

\* The service has the range it expects; the last one makes it assemble the file, unless the
\* object is gone or the name has been taken.
Assembled ==
    LET d == [drive EXCEPT !.session = Shut]
        obj == IF drive.session.into # 0 THEN drive.session.into ELSE drive.objs + 1
    IN  IF drive.session.into = drive.obj THEN Written(d, obj, <<drive.session.part, data[1]>>)
        ELSE drive

Taken == IF xfer.at = Last THEN Assembled
         ELSE [drive EXCEPT !.session = [@ EXCEPT !.got = 1, !.part = data[1]]]

Expected == drive.session.open /\ drive.session.got = xfer.at
Commits  == Expected /\ xfer.at = Last /\ drive.session.into = drive.obj

\* 202: the range the service asks for next is honoured, also when it goes backwards.
NextRange(next) ==
    /\ attempt' = 1 /\ Same
    /\ IF next > xfer.at
       THEN xfer' = [xfer EXCEPT !.at = next, !.stalls = 0] /\ pc' = "check"
       ELSE /\ xfer' = [xfer EXCEPT !.at = next, !.stalls = @ + 1]
            /\ pc' = IF xfer.stalls + 1 >= MaxStalls THEN "cancel" ELSE "check"

\* transfer: a fragment is offered. It is taken and answered with 202 or, the last one, with
\* 201; or the service asks for a range it is missing, it may have lost some, or refuses this
\* one (416) or the file; or the session is not there any more; or there is no answer at all.
Send ==
    /\ pc = "send" /\ SinkOnly
    /\ \/ /\ Commits /\ drive' = Assembled
          /\ Settle(drive'.obj, drive'.ver)
       \/ Expected /\ xfer.at # Last /\ drive' = Taken /\ NextRange(1)
       \/ /\ drive.session.open /\ \E next \in 0 .. drive.session.got :
                drive' = [drive EXCEPT !.session = [@ EXCEPT !.got = next]] /\ NextRange(next)
       \/ drive.session.open /\ Unasked /\ Goto("range") /\ Same /\ UNCHANGED xfer
       \/ drive.session.open /\ Unasked /\ Goto("cancel") /\ Same /\ UNCHANGED xfer
       \/ ~ drive.session.open /\ Unasked /\ Fails
       \/ /\ drive' \in {drive} \cup (IF Expected THEN {Taken} ELSE {})
          /\ \/ Again
             \/ /\ attempt' = 1 /\ Same /\ xfer' = [xfer EXCEPT !.faults = @ + 1]
                /\ pc' = IF xfer.faults + 1 >= MaxFaults THEN "cancel" ELSE "probe"

\* probe: the range outstanding is asked for. After a 416 no answer is the end of the transfer,
\* after a lost fragment the same one goes again.
Probe ==
    /\ pc \in {"probe", "range"} /\ Unasked /\ SinkOnly /\ Same
    /\ \/ /\ drive.session.open /\ Goto("check")
          /\ xfer' = [xfer EXCEPT !.at = Outstanding]
       \/ Goto(IF pc = "probe" THEN "check" ELSE "cancel") /\ UNCHANGED xfer

\* The staged bytes are given up with one DELETE, whatever becomes of it.
Cancel ==
    /\ pc = "cancel" /\ drive' \in {drive, [drive EXCEPT !.session = Shut]} /\ Fails /\ SinkOnly

-----------------------------------------------------------------------------
(* The outcome, and the other requests.                                    *)

\* run_upload: the file is still the one that was sent, and gets the id, the tag if there is one
\* (adopt_cloud_id leaves the former one otherwise) and the stamp of what was seen before; or it
\* is not, and the object goes.
Tagged(body) == attrs' = [obj |-> done.obj, stamp |-> body,
                          ver |-> IF done.tag THEN done.ver ELSE attrs.ver]

AdoptNow ==   \* Fault: the stamp is of the file as it is.
    /\ pc = "done" /\ Unasked /\ UNCHANGED <<folder, file, large, saves, others, lent>>
    /\ IF file.ino = job.ino /\ file.body # 0 THEN Tagged(file.body) /\ Fails
       ELSE Goto("remove") /\ UNCHANGED <<attrs, known, call>>

Adopt ==
    /\ pc = "done" /\ Unasked /\ UNCHANGED <<folder, file, large, saves, others, lent>>
    /\ IF file.ino = job.ino /\ file.body # 0 THEN Tagged(job.body) /\ Fails
       ELSE Goto("remove") /\ UNCHANGED <<attrs, known, call>>

\* remove: conditional on the tag the sink knows, if it knows one; an object that is gone already
\* is removed.
Remove ==
    /\ pc = "remove" /\ SinkOnly
    /\ Ask(IF drive.obj = done.obj /\ known[done.obj] \in {0, drive.ver}
           THEN [drive EXCEPT !.obj = 0, !.ver = 0, !.body = <<0, 0>>] ELSE drive, Fails, Fails)

\* move_item: a rename is conditional on the tag, which it changes.
Move ==
    /\ pc = "idle" /\ saves < MaxSaves /\ saves' = saves + 1 /\ attrs.obj # 0 /\ file.body # 0
    /\ known' = IF known[attrs.obj] = 0 THEN [known EXCEPT ![attrs.obj] = attrs.ver] ELSE known
    /\ job' = [ino |-> file.ino, body |-> attrs.stamp, obj |-> attrs.obj] /\ Goto("patch")
    /\ Unasked /\ UNCHANGED <<folder, file, attrs, fd, data, xfer, done, seen, lent, others, large>>

\* (A version that is not the sink's own is still not when it has a new name.)
Patch ==
    /\ pc = "patch" /\ Here
    /\ IF drive.obj = job.obj /\ drive.ver = known[job.obj]
       THEN /\ Ask(Written(drive, job.obj, drive.body), Settle(job.obj, drive.top + 1), Fails)
            /\ lent' = IF drive.ver \in lent /\ drive' # drive THEN lent \cup {drive'.ver} ELSE lent
       ELSE Ask(drive, Fails, Fails) /\ UNCHANGED lent

\* remove_folder: its children are asked for, then its tag is read, and it is deleted under that.
RemoveFolder == /\ pc = "idle" /\ folder.is /\ saves < MaxSaves /\ saves' = saves + 1
                /\ Goto("children") /\ Unasked
                /\ UNCHANGED <<folder, file, attrs, others, large, known, lent, call>>

AskFolder(answered) ==
    /\ Unasked /\ UNCHANGED <<file, attrs, large, saves, others, lent>>
    /\ \/ answered
       \/ attempt < MaxAttempts /\ attempt' = attempt + 1 /\ UNCHANGED <<folder, pc, known, call>>
       \/ Fails /\ UNCHANGED folder

Children ==
    /\ pc = "children"
    /\ AskFolder(/\ UNCHANGED folder
                 /\ IF folder.kids = 0 THEN Goto("meta") /\ UNCHANGED <<known, call>> ELSE Fails)

Meta ==
    /\ pc = "meta"
    /\ AskFolder(/\ UNCHANGED folder /\ Goto("rmdir") /\ seen' = folder.ver
                 /\ UNCHANGED <<known, job, fd, data, xfer, done>>)

DeleteAnyFolder ==   \* Fault: without if-match.
    /\ pc = "rmdir" /\ AskFolder(folder' = [folder EXCEPT !.is = FALSE] /\ Fails)

DeleteFolder ==
    /\ pc = "rmdir"
    /\ AskFolder(/\ folder' = IF folder.ver = seen THEN [folder EXCEPT !.is = FALSE] ELSE folder
                 /\ Fails)

Step == \/ Start \/ OpenFile \/ PutAtItem \/ Create \/ PutAtPath \/ Reconcile
        \/ OpenSession \/ Check \/ Read \/ Recheck \/ Send \/ Probe \/ Cancel
        \/ ReadBack \/ Adopt \/ Remove \/ Patch \/ Children \/ Meta \/ DeleteFolder

Next == External \/ Step \/ Move \/ RemoveFolder

Spec == Init /\ [][Next]_vars

\* Every request is answered or given up: the transport has deadlines.
LiveSpec == Spec /\ WF_vars(Step)

-----------------------------------------------------------------------------
(* Properties.                                                             *)

Wrote == drive'.top # drive.top /\ pc # "idle" /\ others' = others

\* A write of the sink replaces only the version it takes for its base (which may be another
\* device's, `lent`), or, at the end of a session, one that came after the tag was read back
\* (put_at_item, transfer, move_item).
ReplacesOnlyItsBase ==
    [][Wrote /\ drive.obj # 0
        => drive.ver = known[drive.obj] \/ (pc = "send" /\ seen = known[drive.obj])]_vars

\* Types, and: whoever looks at the stamp and finds the file clean finds what it holds, whole,
\* under its id and tag on the drive, unless others have written since; or the tag is another
\* device's, whose write came between the sink's and the reading back of its tag (run_upload,
\* unchanged, transfer, settle).
CleanIsThere ==
    /\ TypeOK
    /\ attrs.stamp = file.body /\ file.body # 0 /\ drive.obj = attrs.obj /\ drive.ver = attrs.ver
        => drive.body = <<file.body, file.body>> \/ attrs.ver \in lent

\* Nothing is deleted at a version the sink has not seen: an object that is removed for a file
\* that went away during its upload is at the version that upload made of it, or read back in its
\* place, unless the sink never learnt a tag of it (remove), and a child that arrives after a
\* folder's tag was read is not deleted with it (remove_folder).
DeletesOnlyWhatItSaw ==
    [][/\ pc = "remove" /\ drive.obj # 0 /\ drive'.obj = 0 /\ others' = others
            => drive.ver = done.ver \/ known[drive.obj] = 0
       /\ folder.is /\ ~ folder'.is => folder.ver = seen]_vars

\* Whatever the service answers, an upload comes to its end (call, transfer: the ceiling, the
\* stalls and the faults).
UploadReturns == pc # "idle" ~> pc = "idle"
=============================================================================

------------------------------- MODULE Changes -------------------------------
(***************************************************************************)
(* How a local edit reaches the cloud: the kernel's notify queue, the      *)
(* helper's drainer and sender (hydrationd/src/report.rs, watch.rs), the   *)
(* socket, the daemon's serving thread (hydration-client/src/lib.rs) and   *)
(* its upload driver (daemon_loop.rs, upload.rs).                          *)
(*                                                                         *)
(* A file is an inode and its content a version number.  What the daemon   *)
(* can learn from the file itself is its stamp (the version it was last    *)
(* known to hold when it was sent; 0 is no stamp) and whether it carries a *)
(* cloud id.  Time is abstracted: a waiting file may come due at any time. *)
(***************************************************************************)
EXTENDS Naturals, FiniteSets, Sequences

CONSTANTS
    File,           \* the inodes of the sync directory
    NoFile,         \* the upload driver has no file in hand
    MaxEdits,       \* bound: writes by the user
    MaxTroubles,    \* bound: renames, deletions, restarts of either process, and
                    \* everything that fails (overflow, read, walk, scan, send, socket)
    WireCap         \* messages the socket holds before its sender blocks

ASSUME NoFileAssumption == NoFile \notin File

ASSUME BoundsAssumption ==
    /\ MaxEdits \in Nat /\ MaxTroubles \in Nat /\ WireCap \in Nat \ {0}

VARIABLES
    present,    \* the files that exist
    ver,        \* [File -> Nat]: the version a file holds, 0 if never written
    stamp,      \* [File -> Nat]: the version its stamp describes
    id,         \* the files that carry a cloud id
    cloud,      \* [File -> Nat]: the version the provider holds, 0 for none
    up,         \* the helper runs, so there is a notify group
    queue,      \* the files with an event in the group
    over,       \* the group's overflow marker
    dirty,      \* Dirty::files
    lost,       \* Dirty::lost
    batch,      \* the files the sender thread has taken
    admit,      \* and whether it has a Resync to send first
    conn,       \* the socket: "down", "backlog" (connected, not accepted) or "up"
    wire,       \* messages in the socket
    peerLost,   \* the flag that makes the fetch thread reconnect
    resync,     \* the daemon's resync flag
    waiting,    \* Queue::waiting
    at,         \* where the upload thread stands
    cur,        \* the file it is working on
    obs,        \* the version it observed before sending
    todo,       \* the rest of the batch that came due
    index,      \* files the upload driver's store resolves
    edits,      \* writes so far
    troubles,   \* troubles so far
    missed      \* history: why a file's edit was let go of, if it was

files  == <<present, ver, stamp, id>>
kernel == <<up, queue, over>>
helper == <<queue, over, dirty, lost, batch, admit>>
socket == <<conn, wire, peerLost>>
daemon == <<resync, waiting, at, cur, obs, todo, index>>
spent  == <<edits, troubles>>
vars   == <<present, ver, stamp, id, cloud, up, queue, over, dirty, lost, batch,
            admit, conn, wire, peerLost, resync, waiting, at, cur, obs, todo,
            index, edits, troubles, missed>>

Resync    == [kind |-> "Resync", files |-> {}]
Changed(S) == [kind |-> "Changed", files |-> S]
Message == [kind : {"Resync", "Changed"}, files : SUBSET File]

Stages  == {"idle", "walk", "begun", "observed", "again", "sent", "adopt", "stamp"}
Reasons == {"no", "lookup", "walk", "withdrawn"}

Unsent(f) == f \in present /\ ver[f] # 0 /\ cloud[f] # ver[f]

\* What a resync walk queues: stamped and changed since, or with content and
\* neither stamp nor cloud id.
WalkFinds(f) ==
    /\ f \in present
    /\ \/ stamp[f] # 0 /\ stamp[f] # ver[f]
       \/ stamp[f] = 0 /\ ver[f] # 0 /\ f \notin id

\* A cloud id without a stamp: the state the walk has no arm for.
Unwalkable(f) == f \in id /\ stamp[f] = 0

TypeOK ==
    /\ present \in SUBSET File /\ id \in SUBSET File
    /\ ver \in [File -> Nat] /\ stamp \in [File -> Nat]
    /\ cloud \in [File -> Nat]
    /\ up \in BOOLEAN /\ queue \in SUBSET File /\ over \in BOOLEAN
    /\ dirty \in SUBSET File /\ lost \in BOOLEAN
    /\ batch \in SUBSET File /\ admit \in BOOLEAN
    /\ conn \in {"down", "backlog", "up"}
    /\ wire \in Seq(Message)
    /\ peerLost \in BOOLEAN
    /\ resync \in BOOLEAN /\ waiting \in SUBSET File
    /\ at \in Stages /\ cur \in File \cup {NoFile} /\ obs \in Nat
    /\ at \notin {"idle", "walk"} => cur \in File
    /\ todo \in SUBSET File /\ index \in SUBSET File
    /\ edits \in Nat /\ troubles \in Nat
    /\ missed \in [File -> Reasons]

\* Everything is either settled (sent, stamped, identified) or not yet there;
\* the helper has just started, so it knows it has missed something.
Init ==
    /\ present \in SUBSET File /\ id = present
    /\ ver = [f \in File |-> IF f \in present THEN 1 ELSE 0]
    /\ stamp = ver /\ cloud = ver
    /\ up = TRUE /\ queue = {} /\ over = FALSE
    /\ dirty = {} /\ lost = TRUE /\ batch = {} /\ admit = FALSE
    /\ conn = "backlog" /\ wire = <<>> /\ peerLost = FALSE
    /\ resync = TRUE /\ waiting = {} /\ todo = {} /\ index = {}
    /\ at = "idle" /\ cur = NoFile /\ obs = 0
    /\ edits = 0 /\ troubles = 0
    /\ missed = [f \in File |-> "no"]

Trouble == /\ troubles < MaxTroubles
           /\ troubles' = troubles + 1
           /\ UNCHANGED edits

-----------------------------------------------------------------------------
(* The user, and the kernel's notify group.                                *)

\* A write (or a creation).  The kernel coalesces per inode; a full queue
\* drops the event and leaves its marker; without a group nobody is told.
Edit(f) ==
    /\ edits < MaxEdits /\ edits' = edits + 1
    /\ f \in present \/ ver[f] = 0
    /\ present' = present \cup {f} /\ ver' = [ver EXCEPT ![f] = @ + 1]
    /\ missed' = [missed EXCEPT ![f] = "no"]
    /\ \/ /\ queue' = IF up THEN queue \cup {f} ELSE queue
          /\ UNCHANGED <<over, troubles>>
       \/ /\ up /\ troubles < MaxTroubles
          /\ over' = TRUE /\ troubles' = troubles + 1
          /\ UNCHANGED queue
    /\ UNCHANGED <<stamp, id, cloud, up, dirty, lost, batch, admit, socket, daemon>>

\* A rename: the recorded path no longer holds the inode.
Rename(f) ==
    /\ f \in index /\ Trouble
    /\ index' = index \ {f}
    /\ UNCHANGED <<files, cloud, up, helper, socket, resync, waiting, at, cur, obs, todo, missed>>

Delete(f) ==
    /\ f \in present /\ Trouble
    /\ present' = present \ {f} /\ index' = index \ {f}
    /\ UNCHANGED <<ver, stamp, id, cloud, up, helper, socket, resync, waiting, at, cur, obs,
                   todo, missed>>

-----------------------------------------------------------------------------
(* The helper: report.rs.                                                  *)

\* Fault: the overflow marker is read and not understood.
DrainBlind ==
    /\ up /\ (queue # {} \/ over)
    /\ dirty' = dirty \cup queue /\ queue' = {} /\ over' = FALSE
    /\ UNCHANGED <<files, cloud, up, lost, batch, admit, socket, daemon, spent, missed>>

Drain ==
    /\ up /\ (queue # {} \/ over)
    /\ dirty' = dirty \cup queue
    /\ lost' = (lost \/ over)
    /\ queue' = {} /\ over' = FALSE
    /\ UNCHANGED <<files, cloud, up, batch, admit, socket, daemon, spent, missed>>

\* The read fails (EMFILE) and the events are gone.
DrainFails ==
    /\ up /\ queue # {} /\ Trouble
    /\ queue' = {} /\ lost' = TRUE
    /\ UNCHANGED <<files, cloud, up, over, dirty, batch, admit, socket, daemon, missed>>

Take ==
    /\ up /\ batch = {} /\ ~admit /\ (lost \/ dirty # {})
    /\ batch' = dirty /\ admit' = lost
    /\ dirty' = {} /\ lost' = FALSE
    /\ UNCHANGED <<files, cloud, kernel, socket, daemon, spent, missed>>

\* A resync goes before the batch it qualifies.
Send ==
    /\ up /\ conn # "down" /\ Len(wire) < WireCap
    /\ \/ admit /\ wire' = Append(wire, Resync) /\ admit' = FALSE /\ UNCHANGED batch
       \/ ~admit /\ batch # {} /\ wire' = Append(wire, Changed(batch)) /\ batch' = {}
          /\ UNCHANGED admit
    /\ UNCHANGED <<files, cloud, kernel, dirty, lost, conn, peerLost, daemon, spent, missed>>

\* Fault: the fetch thread, idle, is not told that the connection is gone.
SendFailsUnnoticed ==
    /\ up /\ (admit \/ batch # {}) /\ conn = "down"
    /\ batch' = {} /\ admit' = FALSE /\ lost' = TRUE
    /\ UNCHANGED <<files, cloud, kernel, dirty, conn, wire, peerLost, daemon, spent, missed>>

\* The batch is dropped; what is kept is that something was.
SendFails ==
    /\ up /\ (admit \/ batch # {}) /\ conn = "down"
    /\ batch' = {} /\ admit' = FALSE
    /\ lost' = TRUE /\ peerLost' = TRUE
    /\ UNCHANGED <<files, cloud, kernel, dirty, conn, wire, daemon, spent, missed>>

\* A body that went out of step shuts the connection; the transfer it belonged
\* to fails, so the fetch thread knows.
Break ==
    /\ conn = "up" /\ Trouble
    /\ conn' = "down" /\ wire' = <<>> /\ peerLost' = TRUE
    /\ UNCHANGED <<files, cloud, up, helper, daemon, missed>>

Reconnect ==
    /\ up /\ conn = "down"
    /\ conn' = "backlog" /\ wire' = <<>> /\ peerLost' = FALSE
    /\ UNCHANGED <<files, cloud, up, helper, daemon, spent, missed>>

HelperDies ==
    /\ up /\ Trouble
    /\ up' = FALSE /\ queue' = {} /\ over' = FALSE
    /\ dirty' = {} /\ lost' = FALSE /\ batch' = {} /\ admit' = FALSE
    /\ conn' = "down" /\ wire' = <<>> /\ peerLost' = FALSE
    /\ UNCHANGED <<files, cloud, daemon, missed>>

\* Reporter::spawn: `lost` is up before the mark is live, and the sender starts after it.
HelperStarts ==
    /\ ~up
    /\ up' = TRUE /\ lost' = TRUE
    /\ UNCHANGED <<files, cloud, queue, over, dirty, batch, admit, socket, daemon, spent, missed>>

-----------------------------------------------------------------------------
(* The daemon's serving thread.                                            *)

Accept ==
    /\ conn = "backlog"
    /\ conn' = "up" /\ resync' = TRUE
    /\ UNCHANGED <<files, cloud, up, helper, wire, peerLost, waiting, at, cur, obs, todo, index,
                   spent, missed>>

Serve ==
    /\ conn = "up" /\ wire # <<>>
    /\ wire' = Tail(wire)
    /\ waiting' = waiting \cup Head(wire).files
    /\ resync' = (resync \/ Head(wire).kind = "Resync")
    /\ UNCHANGED <<files, cloud, up, helper, conn, peerLost, at, cur, obs, todo, index, spent, missed>>

-----------------------------------------------------------------------------
(* The daemon's upload driver.                                             *)

\* What the driver leaves alone.
others == <<up, helper, socket>>

\* resync.swap(false), and only then the walk.
Swap ==
    /\ at = "idle" /\ todo = {} /\ resync
    /\ resync' = FALSE /\ at' = "walk"
    /\ UNCHANGED <<files, cloud, others, waiting, cur, obs, todo, index, spent, missed>>

Walk ==
    /\ at = "walk" /\ at' = "idle"
    /\ waiting' = waiting \cup {f \in File : WalkFinds(f)}
    /\ UNCHANGED <<files, cloud, others, resync, cur, obs, todo, index, spent, missed>>

\* A directory that vanishes under read_dir ends the walk; the error is logged.
WalkFails ==
    /\ at = "walk" /\ at' = "idle" /\ Trouble
    /\ missed' = [f \in File |-> IF WalkFinds(f) THEN "walk" ELSE missed[f]]
    /\ UNCHANGED <<files, cloud, others, resync, waiting, cur, obs, todo, index>>

\* Store::scan.  An error half-way leaves the index with what it had reached.
Scan ==
    \/ index' = present /\ UNCHANGED spent
    \/ index' \in SUBSET present \ {present} /\ Trouble

\* Some waiting files have come due.  One scan serves the whole batch.
Due ==
    /\ at = "idle" /\ todo = {}
    /\ todo' \in SUBSET waiting \ {{}}
    /\ Scan
    /\ UNCHANGED <<files, cloud, others, resync, waiting, at, cur, obs, missed>>

\* Queue::begin takes the file out of `waiting` before its content is looked at.
Begin(f) ==
    /\ at = "idle" /\ f \in todo
    /\ todo' = todo \ {f} /\ waiting' = waiting \ {f}
    /\ at' = "begun" /\ cur' = f
    /\ UNCHANGED <<files, cloud, others, resync, obs, index, spent, missed>>

\* queue.finish, then queue.failed or queue.sent.
Finish == at' = "idle" /\ cur' = NoFile /\ obs' = 0
Failed == Finish /\ waiting' = waiting \cup {cur}
Done   == Finish /\ UNCHANGED waiting
Go(s)  == at' = s /\ UNCHANGED <<cur, obs, waiting>>
Observe(s) == at' = s /\ obs' = ver[cur] /\ UNCHANGED <<cur, waiting>>

LetGo(why) ==
    missed' = [missed EXCEPT ![cur] =
                  IF cur \in present /\ @ # "withdrawn" THEN why ELSE @]

\* The path is resolved and its state observed before a byte is read; a file
\* the index does not have is "gone": NothingToDo.
Lookup ==
    /\ at = "begun"
    /\ \/ cur \in index /\ Observe("observed") /\ UNCHANGED missed
       \/ cur \notin index /\ Done /\ LetGo("lookup")
    /\ UNCHANGED <<files, cloud, others, resync, todo, index, spent>>

\* Sink::upload reads the file and the provider takes it.
Upload ==
    /\ at \in {"observed", "again"} /\ cur \in present
    /\ cloud' = [cloud EXCEPT ![cur] = ver[cur]]
    /\ Go(IF at = "observed" THEN "sent" ELSE "adopt")
    /\ missed' = [missed EXCEPT ![cur] = "no"]
    /\ UNCHANGED <<files, others, resync, todo, index, spent>>

\* The path does not open, or the provider refuses.
UploadFails ==
    /\ at \in {"observed", "again"}
    /\ \/ cur \notin index /\ UNCHANGED spent
       \/ cur \in index /\ Trouble
    /\ Failed
    /\ UNCHANGED <<files, cloud, others, resync, todo, index, missed>>

\* Still there under the name it was sent as?  Otherwise look again: moved, it
\* is sent once more; not found, the object goes.
Recheck ==
    /\ at = "sent"
    /\ \/ cur \in index /\ Go("adopt") /\ UNCHANGED <<cloud, index, spent, missed>>
       \/ /\ cur \notin index /\ Scan
          /\ \/ cur \in index' /\ Observe("again") /\ UNCHANGED <<cloud, missed>>
             \/ /\ cur \notin index' /\ Done /\ LetGo("withdrawn")
                /\ cloud' = [cloud EXCEPT ![cur] = 0]
    /\ UNCHANGED <<files, others, resync, todo>>

\* The object just made is to go (the file was deleted meanwhile, or sent again
\* under its new name) and its removal fails: the file is queued again. It takes a rename or a
\* deletion to come here, which are counted.
RemovalFails ==
    /\ Failed
    /\ \/ /\ at = "sent" /\ cur \notin index
          /\ index' \in SUBSET (present \ {cur}) /\ UNCHANGED <<cloud, missed>>
       \/ /\ at = "again" /\ cur \in present
          /\ cloud' = [cloud EXCEPT ![cur] = ver[cur]]
          /\ missed' = [missed EXCEPT ![cur] = "no"] /\ UNCHANGED index
    /\ UNCHANGED <<files, others, resync, todo, spent>>

\* adopt_cloud_id, by path: a name that no longer leads to the file is an error.
Adopt ==
    /\ at = "adopt"
    /\ \/ cur \in index /\ id' = id \cup {cur} /\ Go("stamp")
       \/ cur \notin index /\ Failed /\ UNCHANGED id
    /\ UNCHANGED <<present, ver, stamp, cloud, others, resync, todo, index, spent, missed>>

\* Fault: the stamp is taken from the file as it is after the transfer.
StampAsFound ==
    /\ at = "stamp" /\ Done
    /\ stamp' = IF cur \in index THEN [stamp EXCEPT ![cur] = ver[cur]] ELSE stamp
    /\ UNCHANGED <<present, ver, id, cloud, others, resync, todo, index, spent, missed>>

\* stamp::write_as, with the state observed before the send; its errors are ignored.
Stamp ==
    /\ at = "stamp" /\ Done
    /\ \/ cur \in index /\ stamp' = [stamp EXCEPT ![cur] = obs] /\ UNCHANGED spent
       \/ cur \notin index /\ UNCHANGED <<stamp, spent>>
       \/ cur \in index /\ Trouble /\ UNCHANGED stamp
    /\ UNCHANGED <<present, ver, id, cloud, others, resync, todo, index, missed>>

\* The daemon is restarted: nothing of the queue survives, the flag starts up.
DaemonRestarts ==
    /\ Trouble
    /\ resync' = TRUE /\ waiting' = {} /\ Finish /\ todo' = {} /\ index' = {}
    /\ conn' = "down" /\ wire' = <<>>
    /\ missed' = [f \in File |-> IF WalkFinds(f) THEN "no" ELSE missed[f]]
    /\ UNCHANGED <<files, cloud, up, helper, peerLost>>

-----------------------------------------------------------------------------
HelperStep == Drain \/ Take \/ Send \/ SendFails \/ HelperStarts
DriverStep == \/ Swap \/ Walk \/ Due \/ (\E f \in File : Begin(f))
              \/ Lookup \/ Upload \/ Recheck \/ Adopt \/ Stamp

Next ==
    \/ \E f \in File : Edit(f) \/ Rename(f) \/ Delete(f)
    \/ HelperStep \/ DrainFails \/ Break \/ Reconnect \/ HelperDies
    \/ Accept \/ Serve
    \/ DriverStep \/ WalkFails \/ UploadFails \/ RemovalFails
    \/ DaemonRestarts

Spec == Init /\ [][Next]_vars

\* The threads run; the fetch thread reconnects once it has been told to; the
\* accept loop and the serving thread run; systemd restarts the helper.
Live ==
    /\ WF_vars(Drain) /\ WF_vars(Take) /\ WF_vars(Send \/ SendFails)
    /\ WF_vars(HelperStarts) /\ WF_vars(peerLost /\ Reconnect)
    /\ WF_vars(Accept) /\ WF_vars(Serve)
    /\ WF_vars(DriverStep \/ UploadFails)

LiveSpec == Spec /\ Live

-----------------------------------------------------------------------------
(* What has to be true.                                                    *)

\* Someone will announce this file, or a walk that will find it.
Announced(f) ==
    \/ f \in queue \cup dirty \cup batch \cup waiting
    \/ cur = f /\ at \in {"begun", "observed", "again"}
    \/ \E i \in DOMAIN wire : f \in wire[i].files

WalkIsComing ==
    \/ ~up \/ over \/ lost \/ admit
    \/ peerLost \/ conn = "backlog"
    \/ \E i \in DOMAIN wire : wire[i].kind = "Resync"
    \/ resync \/ at = "walk"

\* Every edit the cloud does not have is held by somebody: an event on its way
\* to the queue, a place in the queue, or a walk that is due and will find it
\* -- across overflows, failed reads, lost batches, broken connections and
\* restarts of both processes.  The exceptions are named: a file let go of
\* (see `missed`), and one with a cloud id and no stamp.
NothingForgotten ==
    \A f \in File : Unsent(f) =>
        \/ Announced(f)
        \/ WalkIsComing /\ WalkFinds(f)
        \/ missed[f] # "no"
        \/ Unwalkable(f)

\* A file whose stamp says it has not changed since it was sent is in the cloud
\* as it stands: what eviction relies on when it gives the content away.
CleanIsSent ==
    \A f \in present : stamp[f] # 0 /\ stamp[f] = ver[f] =>
        cloud[f] = ver[f] \/ missed[f] = "withdrawn"

\* Every edit arrives, unless the file goes away or is let go of.
EveryEditArrives ==
    \A f \in File : Unsent(f) ~> (~Unsent(f) \/ missed[f] # "no" \/ Unwalkable(f))
=============================================================================

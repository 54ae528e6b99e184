---------------------------- MODULE Supervision ----------------------------
(***************************************************************************)
(* The supervisor/worker split of hydrationd: who answers a reader that is *)
(* blocked in a pre-content permission event, and what the reader gets.    *)
(*                                                                         *)
(* A reader opens a dehydrated placeholder through the mount and reads it. *)
(* While the fanotify group is open the kernel queues a permission event   *)
(* and blocks the reader until some process holding the group answers for  *)
(* the event's descriptor number.  When the last holder of the group goes, *)
(* the kernel lets every blocked reader through, and an unfilled           *)
(* placeholder reads as zeros.                                             *)
(*                                                                         *)
(* The worker reads events from the group a buffer at a time, publishes in *)
(* a shared slot the one event it is handling, fills the file and answers. *)
(* The supervisor watches it; when the worker dies, stalls, or the mount   *)
(* is replaced under the mark, it kills what is left of it, denies the     *)
(* event named in the slot, detaches the mount, denies whatever is still   *)
(* queued until it has been quiet long enough or a cap expires, and exits. *)
(* Any answer is a write, which can fail: the reader then stays blocked    *)
(* under a number that whoever read the event closes and may be given      *)
(* again.                                                                  *)
(***************************************************************************)
EXTENDS Naturals, Sequences, Functions

CONSTANTS
  Readers,      \* processes that read placeholders through the mount
  Fds,          \* descriptor numbers an event can be given
  NoFd,         \* the slot's -1, and "no descriptor yet"
  BufferEvents  \* how many events one read of the group can return

ASSUME NoFdAssumption == NoFd \notin Fds
ASSUME BufferAssumption == BufferEvents \in Nat \ {0}

VARIABLES
  reader,   \* what each reader is doing, or the last answer it got
  via,      \* the mount each reader's open descriptor is on
  mounts,   \* the mounts stacked at the sync path, top first
  queue,    \* events in the group's queue: the readers that raised them
  fdOf,     \* the number under which a delivered, unanswered event is known
  batch,    \* events the worker has read from the queue, head first
  slot,     \* the shared page: the event the worker says it is holding
  wpc,      \* where the worker is in its loop
  child,    \* the worker process: "up", "stuck" or "dead"
  known,    \* the supervisor could identify the mount it marked
  sup,      \* where the supervisor is
  verdict,  \* how the drain ended
  faulty,   \* the group could not be read, or written to, during the drain
  \* History: what the supervisor can have no knowledge of.
  unheard,  \* readers whose answer was lost in a write that failed
  late,     \* readers that asked after the last look of a quiet drain
  reach     \* readers that may read on the marked mount after the detach: those
            \* that have the file open on it, or all if it is still mounted

readerVars == <<reader, via>>
workerVars == <<batch, slot, wpc, child>>
supVars    == <<known, sup, verdict, faulty>>
vars == <<reader, via, mounts, queue, fdOf, workerVars, supVars,
          unheard, late, reach>>

Mounts == {"marked", "other"}

\* The mount the path leads to.
Top == IF mounts = << >> THEN "none" ELSE Head(mounts)

TypeOK ==
  /\ reader \in [Readers -> {"idle", "waiting", "served", "denied", "zeros"}]
  /\ via \in [Readers -> Mounts \cup {"none"}]
  /\ mounts \in Seq(Mounts)
  /\ queue \in Seq(Readers)
  /\ fdOf \in [Readers -> Fds \cup {NoFd}]
  /\ batch \in Seq(Fds)
  /\ slot \in Fds \cup {NoFd}
  /\ wpc \in {"poll", "next", "filling", "answered"}
  /\ child \in {"up", "stuck", "dead"}
  /\ known \in BOOLEAN
  /\ sup \in {"watch", "kill", "gone", "answered", "drain", "silent", "leaving", "exited"}
  /\ verdict \in {"none", "quiet", "busy"}
  /\ faulty \in BOOLEAN
  /\ unheard \subseteq Readers /\ late \subseteq Readers /\ reach \subseteq Readers

\* The group and its mark exist, the worker has been forked, nobody has read.
Init ==
  /\ reader = [r \in Readers |-> "idle"]
  /\ via = [r \in Readers |-> "none"]
  /\ mounts = <<"marked">>
  /\ queue = << >>
  /\ fdOf = [r \in Readers |-> NoFd]
  /\ batch = << >>
  /\ slot = NoFd
  /\ wpc = "poll"
  /\ child = "up"
  /\ known \in BOOLEAN
  /\ sup = "watch"
  /\ verdict = "none"
  /\ faulty = FALSE
  /\ unheard = {} /\ late = {} /\ reach = Readers

\* The supervisor's copy of the descriptor keeps the group open.
GroupOpen == sup # "exited"

-----------------------------------------------------------------------------
(* The kernel. *)

\* Everybody blocked under number f.
Under(f) == {r \in Readers : fdOf[r] = f}

\* Write an answer for the event known by number f.  Allowing a file that was not
\* filled hands the reader zeros.  A number nobody is waiting under is refused;
\* one event known by it is answered, and an answer that goes to a reader whose
\* own was lost is lost for the others; or the write fails.
Respond(f, answer) ==
  \/ \E r \in Under(f) :
       /\ reader' = [reader EXCEPT ![r] = answer]
       /\ fdOf' = [fdOf EXCEPT ![r] = NoFd]
       /\ unheard' = IF r \in unheard THEN (unheard \cup Under(f)) \ {r} ELSE unheard
  \/ /\ unheard' = unheard \cup Under(f)
     /\ UNCHANGED <<reader, fdOf>>

-----------------------------------------------------------------------------
(* The readers and whoever administers the mounts. *)

Open(r) ==
  /\ via[r] = "none"
  /\ Top # "none"
  /\ via' = [via EXCEPT ![r] = Top]
  /\ UNCHANGED <<reader, mounts, queue, fdOf, workerVars, supVars, unheard, late, reach>>

\* A reader that was denied may come straight back; one that was handed zeros
\* is left as the evidence.
Read(r) ==
  /\ via[r] # "none"
  /\ reader[r] \in {"idle", "served", "denied"}
  /\ IF via[r] = "marked" /\ GroupOpen
       THEN /\ reader' = [reader EXCEPT ![r] = "waiting"]
            /\ queue' = Append(queue, r)
       ELSE /\ reader' = [reader EXCEPT ![r] = "zeros"]
            /\ UNCHANGED queue
  /\ late' = IF sup \in {"silent", "leaving"} THEN late \cup {r} ELSE late
  /\ UNCHANGED <<via, mounts, fdOf, workerVars, supVars, unheard, reach>>

\* Something mounts over the path, replaces the mount, or takes it away.
Remount ==
  /\ mounts = <<"marked">>
  /\ mounts' \in {<<"other", "marked">>, <<"other">>, << >>}
  /\ UNCHANGED <<readerVars, queue, fdOf, workerVars, supVars, unheard, late, reach>>

-----------------------------------------------------------------------------
(* The worker. *)

\* One read of the group takes as many queued events as fit in the buffer;
\* each gets a descriptor number that is free in the worker's table.
WorkerRead ==
  LET n == IF Len(queue) < BufferEvents THEN Len(queue) ELSE BufferEvents IN
  /\ child = "up" /\ wpc = "poll"
  /\ queue # << >>
  /\ \E fds \in [1..n -> Fds] :
       /\ \A i, j \in 1..n : i # j => fds[i] # fds[j]
       /\ batch' = fds
       /\ fdOf' = [r \in Readers |->
                     IF \E i \in 1..n : queue[i] = r
                       THEN fds[CHOOSE i \in 1..n : queue[i] = r]
                       ELSE fdOf[r]]
  /\ queue' = SubSeq(queue, n + 1, Len(queue))
  /\ wpc' = "next"
  /\ UNCHANGED <<readerVars, mounts, slot, child, supVars, unheard, late, reach>>

\* Take the next event of the batch: publish it before anything that can block.
Holding ==
  /\ child = "up" /\ wpc = "next"
  /\ batch # << >>
  /\ slot' = Head(batch)
  /\ wpc' = "filling"
  /\ UNCHANGED <<readerVars, mounts, queue, fdOf, batch, child, supVars, unheard, late, reach>>

\* Decide, fill and answer: the content is in place, or the reader gets EIO.
Answer ==
  /\ child = "up" /\ wpc = "filling"
  /\ \E answer \in {"served", "denied"} : Respond(Head(batch), answer)
  /\ wpc' = "answered"
  /\ UNCHANGED <<via, mounts, queue, batch, slot, child, supVars, late, reach>>

Released ==
  /\ child = "up" /\ wpc = "answered"
  /\ slot' = NoFd
  /\ batch' = Tail(batch)
  /\ wpc' = IF Len(batch) = 1 THEN "poll" ELSE "next"
  /\ UNCHANGED <<readerVars, mounts, queue, fdOf, child, supVars, unheard, late, reach>>

\* Stuck: an uninterruptible write, a deadlock on its own pre-content event.
\* The beat stops moving for the whole of DEFAULT_STALL.
Stick ==
  /\ child = "up" /\ slot # NoFd
  /\ child' = "stuck"
  /\ UNCHANGED <<readerVars, mounts, queue, fdOf, batch, slot, wpc, supVars,
                 unheard, late, reach>>

\* It comes back just as the supervisor has made up its mind.
Unstick ==
  /\ child = "stuck" /\ sup = "kill"
  /\ child' = "up"
  /\ UNCHANGED <<readerVars, mounts, queue, fdOf, batch, slot, wpc, supVars,
                 unheard, late, reach>>

\* A crash, at any instruction.
Die ==
  /\ child # "dead"
  /\ child' = "dead"
  /\ UNCHANGED <<readerVars, mounts, queue, fdOf, batch, slot, wpc, supVars,
                 unheard, late, reach>>

\* The loop stops by itself only between batches: the fetcher has been wedged
\* past WEDGED_LIMIT, or the group could not be read.
GiveUp ==
  /\ child = "up" /\ wpc = "poll"
  /\ child' = "dead"
  /\ UNCHANGED <<readerVars, mounts, queue, fdOf, batch, slot, wpc, supVars,
                 unheard, late, reach>>

-----------------------------------------------------------------------------
(* The supervisor. *)

NoticeDeath ==
  /\ sup = "watch" /\ child = "dead"
  /\ sup' = "gone"
  /\ UNCHANGED <<readerVars, mounts, queue, fdOf, workerVars, known, verdict, faulty,
                 unheard, late, reach>>

\* Fault: the slot test is the wrong way round.
NoticeStallIdle ==
  /\ sup = "watch" /\ child = "stuck" /\ slot = NoFd
  /\ sup' = "kill"
  /\ UNCHANGED <<readerVars, mounts, queue, fdOf, workerVars, known, verdict, faulty,
                 unheard, late, reach>>

\* Only a worker that is holding an event can be stalling.
NoticeStall ==
  /\ sup = "watch" /\ child = "stuck" /\ slot # NoFd
  /\ sup' = "kill"
  /\ UNCHANGED <<readerVars, mounts, queue, fdOf, workerVars, known, verdict, faulty,
                 unheard, late, reach>>

\* The path leads to another mount, or to none.
NoticeUnmarked ==
  /\ sup = "watch" /\ known
  /\ Top # "marked"
  /\ sup' = "kill"
  /\ UNCHANGED <<readerVars, mounts, queue, fdOf, workerVars, known, verdict, faulty,
                 unheard, late, reach>>

\* SIGKILL and a second's grace: nothing of the worker runs again.
Kill ==
  /\ sup = "kill"
  /\ child' = "dead"
  /\ sup' = "gone"
  /\ UNCHANGED <<readerVars, mounts, queue, fdOf, batch, slot, wpc, known, verdict,
                 faulty, unheard, late, reach>>

\* Fault: the slot is forgotten.
AnswerStrandedNot ==
  /\ sup = "gone"
  /\ sup' = "answered"
  /\ UNCHANGED <<readerVars, mounts, queue, fdOf, workerVars, known, verdict,
                 faulty, unheard, late, reach>>

\* The event the worker died holding can only be answered by number.
AnswerStranded ==
  /\ sup = "gone"
  /\ IF slot # NoFd THEN Respond(slot, "denied") ELSE UNCHANGED <<reader, fdOf, unheard>>
  /\ sup' = "answered"
  /\ UNCHANGED <<via, mounts, queue, workerVars, known, verdict, faulty,
                 late, reach>>

\* umount2(MNT_DETACH) takes away the topmost mount at the path; it may fail.
Detach ==
  /\ sup = "answered"
  /\ \/ /\ mounts # << >> /\ mounts' = Tail(mounts)
        /\ reach' = IF Top = "marked" THEN {r \in Readers : via[r] = "marked"} ELSE reach
     \/ UNCHANGED <<mounts, reach>>
  /\ sup' = "drain"
  /\ UNCHANGED <<readerVars, queue, fdOf, workerVars, known, verdict, faulty,
                 unheard, late>>

\* Read one event, into a number free in the supervisor's own table, and deny
\* that number.  The worker's numbers mean nothing in this table, so an event
\* the worker left unanswered may be known by the same one; the kernel answers
\* one event known by the number and the others stay.
DrainDeny ==
  /\ sup = "drain"
  /\ queue # << >>
  /\ \E f \in Fds, r \in Readers :
       /\ r = Head(queue) \/ r \in Under(f)
       /\ reader' = [reader EXCEPT ![r] = "denied"]
       /\ fdOf' = [[fdOf EXCEPT ![Head(queue)] = f] EXCEPT ![r] = NoFd]
       /\ unheard' = IF r \in unheard THEN (unheard \ {r}) \cup {Head(queue)} ELSE unheard
  /\ queue' = Tail(queue)
  /\ UNCHANGED <<via, mounts, workerVars, supVars, late, reach>>

\* The denial cannot be written: the event has been read and nobody has it.
DrainDenyFails ==
  /\ sup = "drain"
  /\ queue # << >>
  /\ \E f \in Fds : fdOf' = [fdOf EXCEPT ![Head(queue)] = f]
  /\ unheard' = unheard \cup {Head(queue)}
  /\ queue' = Tail(queue)
  /\ faulty' = TRUE
  /\ UNCHANGED <<readerVars, mounts, workerVars, known, sup, verdict, late, reach>>

\* The group reports an error, or cannot be read.
DrainFault ==
  /\ sup = "drain"
  /\ faulty' = TRUE
  /\ UNCHANGED <<readerVars, mounts, queue, fdOf, workerVars, known, sup, verdict,
                 unheard, late, reach>>

\* Fault: the quiet window does not begin again with a denial.
DrainLookOnce ==
  /\ sup = "drain"
  /\ sup' = "silent"
  /\ UNCHANGED <<readerVars, mounts, queue, fdOf, workerVars, known, verdict,
                 faulty, unheard, late, reach>>

\* The last look of a window in which nothing was denied: nobody has asked, or
\* nothing can be read or answered.
DrainLook ==
  /\ sup = "drain"
  /\ queue = << >> \/ faulty
  /\ sup' = "silent"
  /\ UNCHANGED <<readerVars, mounts, queue, fdOf, workerVars, known, verdict,
                 faulty, unheard, late, reach>>

\* The window is over; who asks now is not seen any more.
DrainQuiet ==
  /\ sup = "silent"
  /\ sup' = "leaving" /\ verdict' = "quiet"
  /\ UNCHANGED <<readerVars, mounts, queue, fdOf, workerVars, known,
                 faulty, unheard, late, reach>>

\* Fault: the cap is pushed out by every event, as the quiet window is.
DrainCapSliding ==
  /\ sup = "drain"
  /\ queue = << >>
  /\ sup' = "leaving" /\ verdict' = "busy"
  /\ UNCHANGED <<readerVars, mounts, queue, fdOf, workerVars, known,
                 faulty, unheard, late, reach>>

\* The cap, however busy the mount is.
DrainCap ==
  /\ sup = "drain"
  /\ sup' = "leaving" /\ verdict' = "busy"
  /\ UNCHANGED <<readerVars, mounts, queue, fdOf, workerVars, known,
                 faulty, unheard, late, reach>>

\* Exiting closes the group: the kernel lets every blocked reader through.
Exit ==
  /\ sup = "leaving"
  /\ sup' = "exited"
  /\ reader' = [r \in Readers |->
                  IF reader[r] = "waiting" THEN "zeros" ELSE reader[r]]
  /\ fdOf' = [r \in Readers |-> NoFd]
  /\ queue' = << >>
  /\ unheard' = {}
  /\ UNCHANGED <<via, mounts, workerVars, known, verdict, faulty, late, reach>>

-----------------------------------------------------------------------------
Worker == WorkerRead \/ Holding \/ Answer \/ Released
Supervisor ==
  \/ NoticeDeath \/ NoticeStall \/ NoticeUnmarked \/ Kill \/ AnswerStranded
  \/ Detach \/ DrainDeny \/ DrainDenyFails \/ DrainLook \/ DrainQuiet \/ DrainCap \/ Exit

Next ==
  \/ \E r \in Readers : Open(r) \/ Read(r)
  \/ Remount
  \/ Worker \/ Stick \/ Unstick \/ Die \/ GiveUp
  \/ Supervisor \/ DrainFault

\* Both processes keep being scheduled, and the cap is a clock.
Fairness ==
  /\ WF_vars(Worker)
  /\ WF_vars(Supervisor)
  /\ WF_vars(DrainCap)

Spec == Init /\ [][Next]_vars /\ Fairness

-----------------------------------------------------------------------------
(* Safety. *)

\* The numbers of the events the worker had read and not begun to handle.
Unpublished ==
  IF wpc \in {"filling", "answered"} THEN Range(Tail(batch)) ELSE Range(batch)

\* Whom the closing of the group may let through: a batch mate of the event the
\* worker was handling, a reader whose answer could not be written, and of those
\* still queued whoever asked after the last look, or anybody if the cap cut the
\* drain short or the group failed.
LetThrough(r) ==
  \/ fdOf[r] \in Unpublished
  \/ r \in unheard
  \/ /\ r \in Range(queue)
     /\ r \in late \/ verdict = "busy" \/ faulty

\* What the split is for (supervisor.rs:3-18, 251-276): whatever happens to the
\* worker and in whatever order answers land, a reader on the marked mount is
\* handed zeros only when the supervisor exits, and then only those above; or
\* after that, on a descriptor it had at the detach ("nothing new can reach it",
\* supervisor.rs:266-268), unless the detach did not take the marked mount.
FailsClosed ==
  [][\A r \in Readers : reader[r] # "zeros" /\ reader'[r] = "zeros" =>
       \/ via[r] = "other"
       \/ sup = "leaving" /\ LetThrough(r)
       \/ sup = "exited" /\ r \in reach]_vars

\* Once the supervisor has answered for the slot (supervisor.rs:240-247), the
\* only events that no process can see any more are those the worker had read
\* in the same buffer and had not reached, one reader to each, and those whose
\* answer could not be written; the drain, which reuses the numbers, never
\* leaves anybody else unanswered.
StrandedAreBatchMates ==
  sup \in {"answered", "drain", "silent", "leaving"} =>
    \A r \in Readers \ unheard : fdOf[r] # NoFd =>
      /\ fdOf[r] \in Unpublished
      /\ \A q \in Readers \ (unheard \cup {r}) : fdOf[q] # fdOf[r]

-----------------------------------------------------------------------------
(* Liveness. *)

\* Nobody is blocked forever in read(), even by a worker that is stuck, even
\* one whose event left the queue with a dead worker, unless the write of an
\* answer failed (daemon.rs:897-904): while the worker lives nobody has that event.
EveryReaderReleased ==
  \A r \in Readers : (reader[r] = "waiting") ~> (reader[r] # "waiting" \/ r \in unheard)

\* Once it takes over, the supervisor leaves, so that the unit can restart it:
\* the cap is what makes the drain end while readers keep coming back
\* (supervisor.rs:41-65).
TakeoverEnds == (sup # "watch") ~> (sup = "exited")
=============================================================================

-------------------------------- MODULE Wedge --------------------------------
(***************************************************************************)
(* How the worker of hydrationd waits for content, decides that it is not  *)
(* coming, and finds its way back: the worker's counters, the fetch        *)
(* thread, the two channels between them, the connection to the sync       *)
(* daemon and the thread's attempts to remake it.                          *)
(*                                                                         *)
(* One event is one transfer.  The sequence number that ties a reply to    *)
(* the transfer it answers is abstracted to live, "the worker still waits  *)
(* for this transfer"; the bytes of a transfer to how many of its Chunks   *)
(* have come; the clocks to what may have expired.                         *)
(***************************************************************************)
EXTENDS Naturals, Sequences

CONSTANTS
  WedgedAfter,  \* WEDGED_AFTER
  Chunks,       \* chunks in a transfer
  ReplyCap,     \* the bound of the reply channel
  Tries,        \* RECONNECT_TRIES
  MaxQueue      \* bound on the requests the fetch thread has not taken

ASSUME WedgeAssumption ==
  /\ WedgedAfter \in Nat \ {0} /\ Chunks \in Nat \ {0} /\ ReplyCap \in Nat \ {0}
  /\ Tries \in Nat \ {0} /\ MaxQueue \in Nat \ {0}

VARIABLES
  wpc,       \* the worker: between events, waiting for a transfer, or gone
  moved,     \* chunks of that transfer it has been told of
  missed, abandoned, lost,  \* its three counters, saturating at WedgedAfter
  since,     \* it has started the clock that runs until an answer
  old,       \* that clock has passed WEDGED_LIMIT
  last,      \* how the last event ended
  req,       \* requests to the thread, each live or abandoned
  replies,   \* what the thread has reported
  tpc,       \* the thread: "idle", remaking the connection for a transfer
             \* ("revive") or for the reporter ("heal"), in a transfer
             \* ("stream"), or reporting ("tick", "report")
  mine,      \* its transfer is live
  sent,      \* chunks of it received on this connection
  retried,   \* it has been asked for a second time
  outcome,   \* what the thread is about to report
  dead,      \* the thread knows the connection is unusable
  knocked,   \* a whole window of attempts has failed since it died
  knocks,    \* attempts left in this window
  peerLost,  \* the reporter has found the connection gone
  link,      \* the connection leads to the running daemon
  peer       \* the daemon: answers in full and in time, answers somehow or
             \* not at all, is not there, or is somebody else

counters   == <<missed, abandoned, lost, since, old>>
workerVars == <<wpc, moved, counters, last>>
lineVars   == <<dead, knocked, knocks>>
threadVars == <<tpc, mine, sent, retried, outcome, lineVars>>
vars == <<workerVars, req, replies, threadVars, peerLost, link, peer>>

Count == 0..WedgedAfter
Reply == [live : BOOLEAN, step : {"progress", "done", "refused", "lost"}, total : 0..Chunks]

WorkerOK ==
  /\ wpc \in {"idle", "waiting", "gone"}
  /\ moved \in 0..Chunks
  /\ missed \in Count /\ abandoned \in Count /\ lost \in Count
  /\ since \in BOOLEAN /\ old \in BOOLEAN
  /\ last \in {"none", "ok", "short", "refused", "lost", "missed", "stalled",
               "too long", "unresponsive"}

ChannelsOK ==
  /\ req \in Seq(BOOLEAN) /\ Len(req) <= MaxQueue
  /\ replies \in Seq(Reply) /\ Len(replies) <= ReplyCap

ThreadOK ==
  /\ tpc \in {"idle", "heal", "revive", "stream", "tick", "report"}
  /\ mine \in BOOLEAN /\ sent \in 0..Chunks /\ retried \in BOOLEAN
  /\ outcome \in {"done", "refused", "lost"}

LineOK ==
  /\ dead \in BOOLEAN /\ knocked \in BOOLEAN /\ knocks \in 0..Tries
  /\ peerLost \in BOOLEAN /\ link \in BOOLEAN
  /\ peer \in {"well", "slow", "down", "other"}

TypeOK == WorkerOK /\ ChannelsOK /\ ThreadOK /\ LineOK

Init ==
  /\ wpc = "idle" /\ moved = 0
  /\ missed = 0 /\ abandoned = 0 /\ lost = 0
  /\ since = FALSE /\ old = FALSE
  /\ last = "none"
  /\ req = << >> /\ replies = << >>
  /\ tpc = "idle" /\ mine = FALSE /\ sent = 0 /\ retried = FALSE /\ outcome = "done"
  /\ dead = FALSE /\ knocked = FALSE /\ knocks = 0
  /\ peerLost = FALSE /\ link = TRUE
  /\ peer = "well"

Running == wpc # "gone"

-----------------------------------------------------------------------------
(* The counters. *)

OneMore(n) == IF n = WedgedAfter THEN n ELSE n + 1

\* Any of them makes the clock count towards giving up.
Wedged == missed = WedgedAfter \/ abandoned = WedgedAfter \/ lost = WedgedAfter

\* Fault: lost connections are not worth another attempt either.
ExpensiveWhenWedged == Wedged

\* Two of them make another attempt cost a deadline, so that none is made.
ExpensiveToProbe == missed = WedgedAfter \/ abandoned = WedgedAfter

Zeroed ==
  /\ missed' = 0 /\ abandoned' = 0 /\ lost' = 0
  /\ since' = FALSE /\ old' = FALSE

MissedOne ==
  missed' = OneMore(missed) /\ since' = TRUE /\ UNCHANGED <<abandoned, lost, old>>

AbandonedOne ==
  abandoned' = OneMore(abandoned) /\ since' = TRUE /\ UNCHANGED <<missed, lost, old>>

\* Fault: the clock is not started.
LostOneUnclocked ==
  lost' = OneMore(lost) /\ UNCHANGED <<missed, abandoned, since, old>>

LostOne ==
  lost' = OneMore(lost) /\ since' = TRUE /\ UNCHANGED <<missed, abandoned, old>>

-----------------------------------------------------------------------------
(* The worker. *)

End(how) == wpc' = "idle" /\ last' = how /\ moved' = 0

\* Hand a transfer to the thread.  Of more than MaxQueue requests the oldest,
\* which nobody waits for, is left out.
Send ==
  /\ req' = Append(IF Len(req) = MaxQueue THEN Tail(req) ELSE req, TRUE)
  /\ wpc' = "waiting" /\ moved' = 0

\* An event that needs a transfer.  A fetcher that has been found unresponsive
\* is asked only if anything at all has been heard of it since.
Event ==
  /\ wpc = "idle"
  /\ IF ~ExpensiveToProbe
       THEN Send /\ UNCHANGED <<counters, last, replies>>
       ELSE IF replies # << >>
         THEN Send /\ Zeroed /\ replies' = << >> /\ UNCHANGED last
         ELSE End("unresponsive") /\ UNCHANGED <<counters, req, replies>>
  /\ UNCHANGED <<threadVars, peerLost, link, peer>>

\* The worker takes the next reply: one to a transfer it gave up on is passed
\* over; so is progress that delivered nothing.
Receive ==
  /\ wpc = "waiting" /\ replies # << >>
  /\ replies' = Tail(replies)
  /\ LET r == Head(replies) IN
     \/ /\ ~r.live \/ (r.step = "progress" /\ r.total <= moved)
        /\ UNCHANGED workerVars
     \/ /\ r.live /\ r.step = "progress" /\ r.total > moved
        /\ moved' = r.total
        /\ IF moved = 0 THEN Zeroed ELSE UNCHANGED counters
        /\ UNCHANGED <<wpc, last>>
     \/ /\ r.live /\ r.step = "done"
        /\ Zeroed
        /\ End(IF moved = Chunks THEN "ok" ELSE "short")
     \/ /\ r.live /\ r.step = "lost"
        /\ LostOne
        /\ End("lost")
     \/ /\ r.live /\ r.step = "refused"
        /\ IF moved > 0
             THEN Zeroed
             ELSE UNCHANGED counters
        /\ End("refused")
  /\ UNCHANGED <<req, threadVars, peerLost, link, peer>>

\* From now on nobody waits for the transfer: whatever is still reported of it
\* carries an old sequence number.
Forget ==
  /\ req' = [i \in DOMAIN req |-> FALSE]
  /\ replies' = [i \in DOMAIN replies |-> [replies[i] EXCEPT !.live = FALSE]]
  /\ mine' = FALSE
  /\ UNCHANGED <<tpc, sent, retried, outcome, lineVars, peerLost, link, peer>>

\* A daemon that answers in full and in time meets every deadline, and without
\* a daemon a window of attempts is over well before the first of them.
NoFirstByte ==
  /\ wpc = "waiting" /\ peer = "slow" /\ moved = 0
  /\ MissedOne /\ End("missed") /\ Forget

Stalled ==
  /\ wpc = "waiting" /\ peer = "slow" /\ moved > 0
  /\ AbandonedOne /\ End("stalled") /\ Forget

\* The total is longer than the wait for the first byte.
TooLong ==
  /\ wpc = "waiting" /\ peer = "slow" /\ moved > 0
  /\ AbandonedOne /\ End("too long") /\ Forget

\* The clock passes WEDGED_LIMIT.
Age ==
  /\ since /\ ~old
  /\ old' = TRUE
  /\ UNCHANGED <<wpc, moved, missed, abandoned, lost, since, last, req, replies,
                 threadVars, peerLost, link, peer>>

\* Stop, so that the mount comes down.
GiveUp ==
  /\ wpc = "idle" /\ Wedged /\ since /\ old
  /\ wpc' = "gone"
  /\ UNCHANGED <<moved, counters, last, req, replies, threadVars, peerLost, link, peer>>

-----------------------------------------------------------------------------
(* The fetch thread. *)

Window == IF knocked THEN 1 ELSE Tries

TakeJob ==
  /\ Running /\ tpc = "idle" /\ req # << >>
  /\ req' = Tail(req) /\ mine' = Head(req)
  /\ retried' = FALSE /\ sent' = 0
  /\ IF dead
       THEN tpc' = "revive" /\ knocks' = Window
       ELSE tpc' = "stream" /\ UNCHANGED knocks
  /\ UNCHANGED <<workerVars, replies, outcome, dead, knocked, peerLost, link, peer>>

\* Nothing to fetch: remake the connection the reporter found gone.
Heal ==
  /\ Running /\ tpc = "idle" /\ req = << >> /\ peerLost
  /\ peerLost' = FALSE
  /\ dead' = TRUE
  /\ tpc' = "heal" /\ knocks' = Window
  /\ UNCHANGED <<workerVars, req, replies, mine, sent, retried, outcome, knocked, link, peer>>

Revived ==
  /\ link' = TRUE /\ dead' = FALSE /\ knocked' = FALSE
  /\ tpc' = IF tpc = "revive" THEN "stream" ELSE "idle"
  /\ sent' = 0
  /\ UNCHANGED <<outcome, knocks, peerLost>>

\* Fault: a transfer that could not be started is not reported.
NotRevivedSilently ==
  /\ knocked' = TRUE
  /\ tpc' = "idle"
  /\ UNCHANGED <<outcome, peerLost, sent, knocks, dead, link>>

NotRevived ==
  /\ knocked' = TRUE
  /\ IF tpc = "revive"
       THEN tpc' = "report" /\ outcome' = "lost" /\ UNCHANGED peerLost
       ELSE tpc' = "idle" /\ peerLost' = TRUE /\ UNCHANGED outcome
  /\ UNCHANGED <<sent, knocks, dead, link>>

\* One attempt.  Somebody else answering ends the window at once.
Knock ==
  /\ Running /\ tpc \in {"revive", "heal"}
  /\ \/ peer \in {"well", "slow"} /\ Revived
     \/ peer = "other" /\ NotRevived
     \/ peer = "down" /\ knocks = 1 /\ NotRevived
     \/ /\ peer = "down" /\ knocks > 1
        /\ knocks' = knocks - 1
        /\ UNCHANGED <<tpc, sent, outcome, dead, knocked, peerLost, link>>
  /\ UNCHANGED <<workerVars, req, replies, mine, retried, peer>>

\* A chunk arrives, is written, and is to be reported.
Chunk ==
  /\ Running /\ tpc = "stream" /\ link /\ sent < Chunks
  /\ sent' = sent + 1
  /\ tpc' = "tick"
  /\ UNCHANGED <<workerVars, req, replies, mine, retried, outcome, lineVars, peerLost, link, peer>>

\* The daemon has sent it all.
Complete ==
  /\ Running /\ tpc = "stream" /\ link /\ sent = Chunks
  /\ tpc' = "report" /\ outcome' = "done"
  /\ UNCHANGED <<workerVars, req, replies, mine, sent, retried, lineVars, peerLost, link, peer>>

\* It refuses or gives up part of the way, perhaps because a connection of its
\* own was reset; or it breaks the framing, and the connection is not used again.
Refuse ==
  /\ Running /\ tpc = "stream" /\ link /\ peer = "slow"
  /\ tpc' = "report"
  /\ \/ outcome' \in {"refused", "lost"} /\ UNCHANGED dead
     \/ outcome' = "refused" /\ dead' = TRUE
  /\ UNCHANGED <<workerVars, req, replies, mine, sent, retried, knocked, knocks,
                 peerLost, link, peer>>

\* The connection is gone: remake it and ask once more, the first time.
Cut ==
  /\ Running /\ tpc = "stream" /\ ~link
  /\ dead' = TRUE
  /\ IF retried
       THEN tpc' = "report" /\ outcome' = "lost" /\ UNCHANGED <<retried, knocks>>
       ELSE retried' = TRUE /\ tpc' = "revive" /\ knocks' = Window /\ UNCHANGED outcome
  /\ UNCHANGED <<workerVars, req, replies, mine, sent, knocked, peerLost, link, peer>>

Put(step, total) ==
  /\ Len(replies) < ReplyCap
  /\ replies' = Append(replies, [live |-> mine, step |-> step, total |-> total])

\* Fault: progress that finds the channel full is dropped.
TickOrDrop ==
  /\ Running /\ tpc = "tick"
  /\ tpc' = "stream"
  /\ IF Len(replies) < ReplyCap THEN Put("progress", sent) ELSE UNCHANGED replies
  /\ UNCHANGED <<workerVars, req, mine, sent, retried, outcome, lineVars, peerLost, link, peer>>

\* A full channel holds the thread, in the middle of the transfer or at its end.
Tick ==
  /\ Running /\ tpc = "tick"
  /\ Put("progress", sent)
  /\ tpc' = "stream"
  /\ UNCHANGED <<workerVars, req, mine, sent, retried, outcome, lineVars, peerLost, link, peer>>

Report ==
  /\ Running /\ tpc = "report"
  /\ Put(outcome, 0)
  /\ tpc' = "idle" /\ mine' = FALSE
  /\ UNCHANGED <<workerVars, req, sent, retried, outcome, lineVars, peerLost, link, peer>>

-----------------------------------------------------------------------------
(* The reporter of local edits, and the daemon. *)

\* An edit cannot be written to a connection that is gone.
Notify ==
  /\ Running /\ ~link /\ ~peerLost
  /\ peerLost' = TRUE
  /\ UNCHANGED <<workerVars, req, replies, threadVars, link, peer>>

\* The daemon comes, goes, is restarted, slows down, or drops the connection.
PeerChanges ==
  /\ peer' \in {"well", "slow", "down", "other"}
  /\ link' \in IF peer' \in {"down", "other"} THEN {FALSE} ELSE {link, FALSE}
  /\ UNCHANGED <<workerVars, req, replies, threadVars, peerLost>>

-----------------------------------------------------------------------------
Deadline == NoFirstByte \/ Stalled \/ TooLong
Thread  == TakeJob \/ Heal \/ Knock \/ Cut \/ Tick \/ Report
Deliver == Chunk \/ Complete

Next ==
  \/ Event \/ Receive \/ Deadline \/ Age \/ GiveUp
  \/ Thread \/ Deliver \/ Refuse
  \/ Notify \/ PeerChanges

\* Worker and thread keep being scheduled; a daemon that answers in full and in
\* time does.
Fairness ==
  /\ WF_vars(Receive) /\ WF_vars(Deadline) /\ WF_vars(Thread)
  /\ WF_vars(peer = "well" /\ Deliver)

Spec == Init /\ [][Next]_vars /\ Fairness

\* Readers keep coming.
BusySpec == Spec /\ WF_vars(Event)

-----------------------------------------------------------------------------
(* Safety. *)

\* Types, and: a worker that waits has a transfer somewhere, which will be reported to it:
\* asked for and not taken, in the thread's hands, or already among the
\* replies.  Only the deadlines would answer the reader otherwise
\* (daemon.rs:385-440, remote.rs:228-292).  Nor is a transfer that the thread saw to its
\* end refused as short, not when it was begun again on another connection, and not when
\* older transfers reported in between (daemon.rs:625-657, remote.rs:386-399).
NeverWaitsForNothing ==
  /\ TypeOK
  /\ last # "short"
  /\ wpc = "waiting" =>
    \/ \E i \in DOMAIN req : req[i]
    \/ mine /\ tpc \in {"revive", "stream", "tick", "report"}
    \/ \E i \in DOMAIN replies : replies[i].live /\ replies[i].step # "progress"

-----------------------------------------------------------------------------
(* Liveness. *)

\* Being wedged is not a one-way door (daemon.rs:544-564): whatever happened
\* before, once the daemon answers again and the connection is not cut any
\* more, readers are served again, as long as the worker has not given up.
Recovers ==
  <>[](peer = "well" /\ wpc # "gone") /\ <>[][link => link']_link => []<>(last = "ok")

\* The clock runs, and every turn of the worker's loop, which takes a batch of
\* events, begins with a look at it.
Clock == WF_vars(Age) /\ SF_vars(GiveUp)

\* A mount that cannot be served comes down rather than answering EIO for ever
\* (daemon.rs:378-383): when the daemon stays away, and when nothing is heard
\* of it.
ComesDown == Clock =>
  /\ <>[](peer \in {"down", "other"}) => <>(wpc = "gone")
  /\ <>[](peer = "slow" /\ replies = << >>) => <>(wpc = "gone")
=============================================================================

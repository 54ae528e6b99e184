----------------------------- MODULE Hydration -----------------------------
(***************************************************************************)
(* How the worker of hydrationd fills one placeholder: the events of       *)
(* several processes on the same file, the fetch thread that writes the    *)
(* cloud's bytes into it (and goes on writing after the worker has given   *)
(* up waiting), the worker's record of the ranges it filled, and the mark  *)
(* that stands between a hole and a reader.                                *)
(*                                                                         *)
(* The file is a row of blocks; a range is an interval of them.  Contents  *)
(* are abstracted to where they came from.  Modification times are         *)
(* abstracted to the two comparisons made with them: stamped, "the file    *)
(* looks the way its stamp says", and vouched, which holds the ranges of   *)
(* the worker's record while the file looks the way the record says and is *)
(* empty otherwise; a write by anybody falsifies both.                     *)
(***************************************************************************)
EXTENDS Naturals, Sequences

CONSTANTS
  N,              \* the size of the file, in blocks
  Readahead,      \* READAHEAD, in blocks
  Procs,          \* processes that read or write the file
  NoProc,
  NodumpCanFail,  \* clearing the backup flag may fail on a filesystem that has it
  MaxJobs         \* bound on the transfers the fetch thread has not finished

ASSUME SizeAssumption == N \in Nat \ {0} /\ Readahead \in Nat \ {0}
ASSUME NoProcAssumption == NoProc \notin Procs
ASSUME NodumpAssumption == NodumpCanFail \in BOOLEAN
ASSUME JobsAssumption == MaxJobs \in Nat \ {0}

Block  == 0..(N - 1)
Demand == {b..c : b \in Block, c \in Block}

VARIABLES
  disk,     \* what each block holds: "hole", "cloud" or "user"
  marked,   \* the placeholder mark is on the file
  ignored,  \* the group's ignore mark is on the file: it raises no events
  stamped,  \* the stamp describes the file as it is
  vouched,  \* the worker's record of the blocks it filled, while it can be believed
  wpc,      \* where the worker is in decide_and_fill
  cur,      \* the process whose event it is handling
  have,     \* what it counts as present, while it handles the event
  todo,     \* what is still to be transferred for it
  span,     \* the span of the transfer it is waiting for
  jobs,     \* the fetch thread's transfers, head first: blocks left to
            \* write, and whether the worker still waits for the outcome
  status,   \* what each process is doing
  op,       \* "read" or "write"
  demand,   \* the blocks its access covers
  helper,   \* "up"; "gone": the worker is dead and the supervisor drains;
            \* "closed": nobody holds the group
  watched   \* processes whose descriptor is on a mount with the group's mark

fileVars   == <<disk, marked, ignored, stamped>>
fillVars   == <<have, todo, span>>
procVars   == <<status, op, demand>>
helperVars == <<helper, watched>>
vars == <<fileVars, vouched, wpc, cur, fillVars, jobs, procVars, helperVars>>

Content == {"hole", "cloud", "user"}

TypeOK ==
  /\ disk \in [Block -> Content]
  /\ marked \in BOOLEAN /\ ignored \in BOOLEAN /\ stamped \in BOOLEAN
  /\ vouched \in SUBSET Block
  /\ wpc \in {"idle", "fill", "wait", "retry", "failed", "stamp", "record",
              "settled", "unmarked"}
  /\ cur \in Procs \cup {NoProc}
  /\ have \in SUBSET Block /\ todo \in SUBSET Block /\ span \in SUBSET Block
  /\ jobs \in Seq([left : SUBSET Block, live : BOOLEAN])
  /\ status \in [Procs -> {"idle", "blocked", "allowed"}]
  /\ op \in [Procs -> {"read", "write"}]
  /\ demand \in [Procs -> SUBSET Block]
  /\ helper \in {"up", "gone", "closed"}
  /\ watched \in SUBSET Procs

\* A placeholder as it is created: sized, marked, stamped, nothing in it.
Init ==
  /\ disk = [b \in Block |-> "hole"]
  /\ marked = TRUE /\ ignored = FALSE /\ stamped = TRUE
  /\ vouched = {}
  /\ wpc = "idle" /\ cur = NoProc
  /\ have = {} /\ todo = {} /\ span = {}
  /\ jobs = << >>
  /\ status = [p \in Procs |-> "idle"]
  /\ op = [p \in Procs |-> "read"]
  /\ demand = [p \in Procs |-> {}]
  /\ helper = "up" /\ watched = Procs

-----------------------------------------------------------------------------
(* Ranges. *)

IsFirst(b, S) == b \in S /\ \A c \in S : b <= c

\* The first maximal run of blocks in S: one span of Ranges::missing.
FirstRun(S) ==
  {b \in S : \E a \in S : IsFirst(a, S) /\ \A c \in a..b : c \in S}

\* A reader walking forward: from the top, or on from a block already here.
Sequential(d, h) ==
  \E b \in d : IsFirst(b, d) /\ (b = 0 \/ b - 1 \in h)

\* What is fetched for a demand d when h is here: a walker's demand reaches
\* Readahead past the first block of it that is missing.
Widened(d, h) ==
  IF Sequential(d, h)
    THEN d \cup {b \in Block : \E a \in d, f \in d \ h :
                   IsFirst(a, d) /\ IsFirst(f, d \ h) /\ a <= b /\ b < f + Readahead}
    ELSE d

Punch(S) == [b \in Block |-> IF b \in S THEN "hole" ELSE disk[b]]
Put(S, c) == [b \in Block |-> IF b \in S THEN c ELSE disk[b]]

\* A hole-punch that fails leaves the file, and its mtime, alone.
TryPunch(S) ==
  \/ disk' = Punch(S) /\ stamped' = FALSE /\ vouched' = {}
  \/ UNCHANGED <<disk, stamped, vouched>>

-----------------------------------------------------------------------------
(* The processes. *)

\* A process opens the file through the mount as it is now.
Open(p) ==
  /\ status[p] = "idle" /\ p \notin watched /\ helper # "closed"
  /\ watched' = watched \cup {p}
  /\ UNCHANGED <<fileVars, vouched, wpc, cur, fillVars, jobs, procVars, helper>>

\* An access blocks on an event, unless the file is ignored, or nobody watches
\* the mount it goes through.
Access(p) ==
  /\ status[p] = "idle"
  /\ \E d \in Demand, o \in {"read", "write"} :
       /\ demand' = [demand EXCEPT ![p] = d]
       /\ op' = [op EXCEPT ![p] = o]
  /\ status' = [status EXCEPT ![p] = IF ignored \/ p \notin watched
                                         THEN "allowed" ELSE "blocked"]
  /\ UNCHANGED <<fileVars, vouched, wpc, cur, fillVars, jobs, helperVars>>

\* The access is over, or has been refused.
Over(S) ==
  /\ status' = [p \in Procs |-> IF p \in S THEN "idle" ELSE status[p]]
  /\ op' = [p \in Procs |-> IF p \in S THEN "read" ELSE op[p]]
  /\ demand' = [p \in Procs |-> IF p \in S THEN {} ELSE demand[p]]

\* Let through, a reader copies what is there now, whatever "now" has become.
Copy(p) ==
  /\ status[p] = "allowed" /\ op[p] = "read"
  /\ Over({p})
  /\ UNCHANGED <<fileVars, vouched, wpc, cur, fillVars, jobs, helperVars>>

\* Let through, a writer's bytes land with nothing further reported.
Land(p) ==
  /\ status[p] = "allowed" /\ op[p] = "write"
  /\ disk' = Put(demand[p], "user")
  /\ stamped' = FALSE /\ vouched' = {}
  /\ Over({p})
  /\ UNCHANGED <<marked, ignored, wpc, cur, fillVars, jobs, helperVars>>

-----------------------------------------------------------------------------
(* The worker. *)

Allow(p) == status' = [status EXCEPT ![p] = "allowed"] /\ UNCHANGED <<op, demand>>
Deny(p)  == Over({p})
Answered == wpc' = "idle" /\ cur' = NoProc /\ have' = {} /\ todo' = {} /\ span' = {}

\* The ignore mark goes on a file the worker can name; it may fail.
TryIgnore == ignored' \in {ignored, TRUE}

\* No mark: the content is there.  A file that occupies no disk is let through
\* as well, but its events are not suppressed.
HandleUnmarked(p) ==
  /\ wpc = "idle" /\ helper = "up" /\ status[p] = "blocked" /\ ~marked
  /\ IF \A b \in Block : disk[b] = "hole" THEN UNCHANGED ignored ELSE TryIgnore
  /\ Allow(p)
  /\ UNCHANGED <<disk, marked, stamped, vouched, wpc, cur, fillVars, jobs, helperVars>>

\* The mark or the attributes cannot be read, or the policy refuses.
Refuse(p) ==
  /\ wpc = "idle" /\ helper = "up" /\ status[p] = "blocked"
  /\ Deny(p)
  /\ UNCHANGED <<fileVars, vouched, wpc, cur, fillVars, jobs, helperVars>>

\* Fault: part of what is demanded being here is enough.
HandleOursPartly(p) ==
  /\ wpc = "idle" /\ helper = "up" /\ status[p] = "blocked" /\ marked /\ vouched # {}
  /\ IF demand[p] \cap vouched # {}
       THEN Allow(p) /\ UNCHANGED <<wpc, cur, fillVars>>
       ELSE /\ wpc' = "fill" /\ cur' = p
            /\ have' = vouched
            /\ todo' = Widened(demand[p], vouched) \ vouched
            /\ UNCHANGED <<span, procVars>>
  /\ UNCHANGED <<fileVars, vouched, jobs, helperVars>>

\* A record that still describes the file is believed.  Everything demanded is
\* here: no round trip.  Otherwise the missing part of the widened demand goes
\* to the fetch thread.
HandleOurs(p) ==
  /\ wpc = "idle" /\ helper = "up" /\ status[p] = "blocked" /\ marked /\ vouched # {}
  /\ IF demand[p] \subseteq vouched
       THEN Allow(p) /\ UNCHANGED <<wpc, cur, fillVars>>
       ELSE /\ wpc' = "fill" /\ cur' = p
            /\ have' = vouched
            /\ todo' = Widened(demand[p], vouched) \ vouched
            /\ UNCHANGED <<span, procVars>>
  /\ UNCHANGED <<fileVars, vouched, jobs, helperVars>>

\* No record (one of nothing is not kept, partial.rs:219-222), or the file has
\* moved: whatever is in it goes first.
HandleUnknown(p) ==
  /\ wpc = "idle" /\ helper = "up" /\ status[p] = "blocked" /\ marked /\ vouched = {}
  /\ \/ /\ disk' = Punch(Block) /\ stamped' = FALSE
        /\ IF demand[p] = {}
             THEN Allow(p) /\ UNCHANGED <<wpc, cur, fillVars>>
             ELSE /\ wpc' = "fill" /\ cur' = p
                  /\ have' = {}
                  /\ todo' = Widened(demand[p], {})
                  /\ UNCHANGED <<span, procVars>>
     \/ Deny(p) /\ UNCHANGED <<disk, stamped, wpc, cur, fillVars>>
  /\ UNCHANGED <<marked, ignored, vouched, jobs, helperVars>>

\* Hand the next missing span to the fetch thread; a fetcher known to be
\* unresponsive is not asked.
Transfer ==
  /\ wpc = "fill" /\ todo # {}
  /\ span' = FirstRun(todo)
  /\ \/ /\ Len(jobs) < MaxJobs
        /\ wpc' = "wait"
        /\ jobs' = Append(jobs, [left |-> span', live |-> TRUE])
     \/ wpc' = "failed" /\ UNCHANGED jobs
  /\ UNCHANGED <<fileVars, vouched, cur, have, todo, procVars, helperVars>>

\* Fault: no deadline on a transfer.
AbandonNever == FALSE

\* A deadline passes: the worker stops waiting and the transfer goes on.
Abandon ==
  /\ wpc \in {"wait", "retry"}
  /\ jobs' = [jobs EXCEPT ![Len(jobs)].live = FALSE]
  /\ wpc' = IF wpc = "wait" THEN "failed" ELSE "stamp"
  /\ IF wpc = "wait" THEN UNCHANGED <<disk, stamped, vouched>> ELSE TryPunch(span)
  /\ UNCHANGED <<marked, ignored, cur, fillVars, procVars, helperVars>>

\* What arrived for the failed span is punched out.  A span that was readahead
\* only is dropped, and with it the rest; one that carried readahead is asked
\* for again without it; one that was demanded fails the event.
SpanFailed ==
  LET only == span \cap demand[cur] IN
  /\ wpc = "failed"
  /\ TryPunch(span)
  /\ \/ /\ only = {}
        /\ wpc' = "fill" /\ todo' = {} /\ span' = {}
        /\ UNCHANGED jobs
     \/ /\ only # {} /\ only # span
        /\ span' = only /\ todo' = {}
        /\ \/ /\ Len(jobs) < MaxJobs
              /\ wpc' = "retry"
              /\ jobs' = Append(jobs, [left |-> only, live |-> TRUE])
           \/ wpc' = "stamp" /\ UNCHANGED jobs
     \/ /\ only = span
        /\ wpc' = "stamp"
        /\ UNCHANGED <<todo, span, jobs>>
  /\ UNCHANGED <<marked, ignored, cur, have, procVars, helperVars>>

\* fill_failed: stamp what is left of the file, and then ...
StampFailure ==
  /\ wpc = "stamp"
  /\ wpc' = "record"
  /\ stamped' \in {stamped, TRUE}
  /\ UNCHANGED <<disk, marked, ignored, vouched, cur, fillVars, jobs, procVars, helperVars>>

\* Fault: the failed span is remembered with the others.
RecordFailureWithSpan ==
  /\ wpc = "record"
  /\ vouched' = have \cup span
  /\ Deny(cur) /\ Answered
  /\ UNCHANGED <<fileVars, jobs, helperVars>>

\* ... look at the file again, and remember what earlier spans brought; if it
\* cannot be looked at, remember nothing.
RecordFailure ==
  /\ wpc = "record"
  /\ vouched' \in {have, {}}
  /\ Deny(cur) /\ Answered
  /\ UNCHANGED <<fileVars, jobs, helperVars>>

\* Part of the file is here: sync and stamp it.
SettleRange ==
  /\ wpc = "fill" /\ todo = {} /\ have # Block
  /\ wpc' = "settled"
  /\ stamped' \in {stamped, TRUE}
  /\ UNCHANGED <<disk, marked, ignored, vouched, cur, fillVars, jobs, procVars, helperVars>>

\* Record what is here, if the file can be looked at, and let the process
\* through to it.
Served ==
  /\ wpc = "settled"
  /\ vouched' \in {have, {}}
  /\ Allow(cur) /\ Answered
  /\ UNCHANGED <<fileVars, jobs, helperVars>>

\* Fault: the mark goes when the demand is here.
UnmarkServed ==
  /\ wpc = "fill" /\ todo = {} /\ demand[cur] \subseteq have
  /\ marked' = FALSE
  /\ wpc' = "unmarked"
  /\ UNCHANGED <<disk, ignored, stamped, vouched, cur, fillVars, jobs, procVars, helperVars>>

\* All of the file is here: sync it and take the mark off.
Unmark ==
  /\ wpc = "fill" /\ todo = {} /\ have = Block
  /\ marked' = FALSE
  /\ wpc' = "unmarked"
  /\ UNCHANGED <<disk, ignored, stamped, vouched, cur, fillVars, jobs, procVars, helperVars>>

\* Clear the backup flag, stamp the content, forget the record, ignore the
\* file, let the reader through.
Hydrated ==
  /\ wpc = "unmarked"
  /\ stamped' \in {stamped, TRUE}
  /\ vouched' = {}
  /\ TryIgnore
  /\ Allow(cur) /\ Answered
  /\ UNCHANGED <<disk, marked, jobs, helperVars>>

\* The whole file is punched and stamped and the reader denied: the sync or the
\* removal of the mark failed, or, when the mark is off, clearing the flag did.
AbandonFile ==
  /\ \/ wpc = "fill" /\ todo = {}
     \/ wpc = "unmarked" /\ NodumpCanFail
  /\ \/ disk' = Punch(Block) /\ stamped' \in {FALSE, TRUE}
     \/ UNCHANGED <<disk, stamped>>
     \/ have = Block /\ wpc = "fill" /\ stamped' = TRUE /\ UNCHANGED disk
  /\ vouched' = {}
  /\ Deny(cur) /\ Answered
  /\ UNCHANGED <<marked, ignored, jobs, helperVars>>

\* The worker remembers a bounded number of files: others push this one out.
ForgetOldest ==
  /\ wpc = "idle" /\ vouched # {}
  /\ vouched' = {}
  /\ UNCHANGED <<fileVars, wpc, cur, fillVars, jobs, procVars, helperVars>>

\* The worker dies with its fetch thread and its record.
Die ==
  /\ helper = "up"
  /\ helper' = "gone"
  /\ wpc' = "idle" /\ cur' = NoProc /\ have' = {} /\ todo' = {} /\ span' = {}
  /\ jobs' = << >>
  /\ vouched' = {}
  /\ UNCHANGED <<fileVars, procVars, watched>>

-----------------------------------------------------------------------------
(* The takeover, of which Supervision has the steps. *)

\* The supervisor answers for an event it finds in the slot or in the queue.
DrainDeny(p) ==
  /\ helper = "gone" /\ status[p] = "blocked"
  /\ Deny(p)
  /\ UNCHANGED <<fileVars, vouched, wpc, cur, fillVars, jobs, helperVars>>

\* The supervisor exits (or dies with the worker).  The group closes, its marks go
\* with it, and whoever is still blocked is let through to what is there: who
\* that can be is Supervision's FailsClosed.  No descriptor is watched any more.
Close ==
  /\ helper = "gone"
  /\ helper' = "closed"
  /\ ignored' = FALSE
  /\ status' = [p \in Procs |-> IF status[p] = "blocked" THEN "allowed" ELSE status[p]]
  /\ watched' = {}
  /\ UNCHANGED <<disk, marked, stamped, vouched, wpc, cur, fillVars, jobs, op, demand>>

\* The unit brings back the mount, and a helper that marks it.
Start ==
  /\ helper = "closed"
  /\ helper' = "up"
  /\ UNCHANGED <<fileVars, vouched, wpc, cur, fillVars, jobs, procVars, watched>>

-----------------------------------------------------------------------------
(* The fetch thread. *)

\* Fault: a late outcome is taken for the one being waited for.
ReportUnsequenced(ok) ==
  /\ jobs' = Tail(jobs)
  /\ IF wpc \notin {"wait", "retry"}
       THEN UNCHANGED <<wpc, fillVars>>
       ELSE IF ok
         THEN /\ wpc' = "fill"
              /\ have' = have \cup span /\ todo' = todo \ span /\ span' = {}
         ELSE /\ wpc' = IF wpc = "wait" THEN "failed" ELSE "stamp"
              /\ UNCHANGED fillVars

\* The outcome of the transfer at the head, for a worker that still waits.
Report(ok) ==
  /\ jobs' = Tail(jobs)
  /\ IF ~Head(jobs).live
       THEN UNCHANGED <<wpc, fillVars>>
       ELSE IF ok
         THEN /\ wpc' = "fill"
              /\ have' = have \cup span /\ todo' = todo \ span /\ span' = {}
         ELSE /\ wpc' = IF wpc = "wait" THEN "failed" ELSE "stamp"
              /\ UNCHANGED fillVars

\* Bytes arrive and are written through the descriptor the job owns.
Write ==
  /\ jobs # << >>
  /\ \E b \in Head(jobs).left :
       /\ IsFirst(b, Head(jobs).left)
       /\ disk' = Put({b}, "cloud")
       /\ jobs' = [jobs EXCEPT ![1].left = @ \ {b}]
  /\ stamped' = FALSE /\ vouched' = {}
  /\ UNCHANGED <<marked, ignored, wpc, cur, fillVars, procVars, helperVars>>

Finished ==
  /\ jobs # << >> /\ Head(jobs).left = {}
  /\ Report(TRUE)
  /\ UNCHANGED <<fileVars, vouched, cur, procVars, helperVars>>

\* The provider fails, refuses, or sends too little; a demanded span that fails
\* when asked for alone is punched before the event is given up.
FetchFailed ==
  /\ jobs # << >>
  /\ Report(FALSE)
  /\ IF Head(jobs).live /\ wpc = "retry" THEN TryPunch(span) ELSE UNCHANGED <<disk, stamped, vouched>>
  /\ UNCHANGED <<marked, ignored, cur, procVars, helperVars>>

-----------------------------------------------------------------------------
Handle == \E p \in Procs :
  HandleUnmarked(p) \/ Refuse(p) \/ HandleOurs(p) \/ HandleUnknown(p)

Worker ==
  \/ Handle \/ Transfer \/ Abandon \/ SpanFailed \/ StampFailure \/ RecordFailure
  \/ SettleRange \/ Served \/ Unmark \/ Hydrated \/ AbandonFile

Fetcher == Write \/ Finished \/ FetchFailed

Next ==
  \/ \E p \in Procs : Open(p) \/ Access(p) \/ Copy(p) \/ Land(p) \/ DrainDeny(p)
  \/ Worker \/ ForgetOldest \/ Die \/ Close \/ Start
  \/ Fetcher

\* The worker keeps being scheduled and its deadlines pass, and it takes the
\* events of a file in the order they were raised: each is taken in the end.  A
\* takeover ends (Supervision's TakeoverEnds).
Fairness ==
  /\ WF_vars(Worker)
  /\ WF_vars(Close)
  /\ \A p \in Procs :
       SF_vars(HandleUnmarked(p) \/ Refuse(p) \/ HandleOurs(p) \/ HandleUnknown(p))

Spec == Init /\ [][Next]_vars /\ Fairness

-----------------------------------------------------------------------------
(* Safety. *)

\* Only a file with every byte present may lose its mark (daemon.rs:1209-1213):
\* whatever was punched, abandoned, retried or left running on the way.
UnmarkedIsWhole == ~marked => \A b \in Block : disk[b] # "hole"

\* What the worker counts as present is present, in the event it is handling
\* and in the record it believes for the next one (partial.rs:143-151), in the
\* face of every rollback and of writers it does not see.
CountedIsPresent ==
  /\ \A b \in have : disk[b] # "hole"
  /\ \A b \in vouched : disk[b] # "hole"

\* A transfer the worker gave up on may go on writing into the placeholder, but
\* never into a file that has lost its mark: it would overwrite what the user
\* has saved since (daemon.rs:334-353).
NoGhostAfterMark == jobs # << >> => marked

\* A file whose events are suppressed is one that holds its content: an ignore
\* mark on a placeholder would make every later read of it zeros (daemon.rs:923-945).
IgnoredIsUnmarked == ignored => ~marked

-----------------------------------------------------------------------------
(* Refinement. *)

Holes == {b \in Block : disk[b] = "hole"}

Promise == INSTANCE PreContent WITH holes <- Holes

\* The fills, rollbacks, retries, late writers and takeovers implement the
\* promise: until the group closes no access through a mount that is watched is
\* let through to a block that is not there, and content is never taken from a
\* file without a mark (daemon.rs:1185-1213).
ImplementsPromise == Promise!Spec

-----------------------------------------------------------------------------
(* Liveness. *)

\* Whoever is blocked on the file is answered, by a fetch that never ends
\* too: the deadlines are the worker's own.
EveryAccessAnswered ==
  \A p \in Procs : (status[p] = "blocked") ~> (status[p] # "blocked")
=============================================================================

----------------------------- MODULE WedgeProofs -----------------------------
(***************************************************************************)
(* For every length of a transfer, every bound of the channels and every   *)
(* number of attempts: a worker that waits is waiting for something, and   *)
(* what the thread saw to its end is not refused as short.                 *)
(***************************************************************************)
EXTENDS Wedge, SequenceTheorems, TLAPS

-----------------------------------------------------------------------------
(* The inductive invariant.                                                *)

Places == 1 .. Len(replies)

Asking == \E i \in 1 .. Len(req) : req[i]
Heard  == \E i \in Places : replies[i].live

\* The reply that ends the worker's wait.
Answer(i) == replies[i].live /\ replies[i].step # "progress"

\* Progress to the worker, of n chunks or more.
Shows(i, n) == replies[i].live /\ replies[i].step = "progress" /\ replies[i].total >= n

\* The worker knows of n chunks, or will by the time it takes the k-th reply.
Told(n, k) == moved >= n \/ \E i \in Places : i < k /\ Shows(i, n)

\* At most one transfer is live, and it is in one place; what is reported of it is in order.
OneTransfer ==
  /\ \A i \in 1 .. Len(req) : req[i] => i = Len(req)
  /\ mine => tpc \in {"revive", "stream", "tick", "report"}
  /\ Asking => ~ mine /\ ~ Heard
  /\ mine => \A i \in Places : ~ Answer(i)
  /\ \A i, j \in Places : Answer(i) /\ replies[j].live => j <= i
  /\ wpc # "waiting" => ~ Asking /\ ~ mine /\ ~ Heard

\* Each chunk is reported before the next is read, and all of them before the end.
InStep ==
  /\ tpc = "tick" => sent > 0
  /\ mine /\ tpc = "stream" /\ sent > 0 => Told(sent, Len(replies) + 1)
  /\ mine /\ tpc = "report" /\ outcome = "done" => Told(Chunks, Len(replies) + 1)
  /\ \A k \in Places : replies[k].live /\ replies[k].step = "done" => Told(Chunks, k)

\* There is an end to wait for.
Awaited == wpc = "waiting" => Asking \/ mine \/ \E i \in Places : Answer(i)

IInv == TypeOK /\ last # "short" /\ OneTransfer /\ InStep /\ Awaited

LEMMA IsNeverWaits == IInv => NeverWaitsForNothing
<1> SUFFICES ASSUME IInv PROVE NeverWaitsForNothing OBVIOUS
<1>1. DOMAIN req = 1 .. Len(req) /\ DOMAIN replies = Places
  BY LenProperties DEF IInv, TypeOK, ChannelsOK, Places
<1>2. wpc = "waiting" => \/ \E i \in DOMAIN req : req[i]
                         \/ mine /\ tpc \in {"revive", "stream", "tick", "report"}
                         \/ \E i \in DOMAIN replies : replies[i].live /\ replies[i].step # "progress"
  BY <1>1 DEF IInv, Awaited, OneTransfer, Asking, Answer
<1> QED BY <1>2 DEF IInv, NeverWaitsForNothing

LEMMA InitIInv == Init => IInv
<1> SUFFICES ASSUME Init PROVE IInv OBVIOUS
<1>1. Len(req) = 0 /\ Len(replies) = 0 /\ Places = {} /\ 1 .. Len(req) = {}
  BY EmptySeq DEF Init, Places
<1>2. TypeOK
  <2>1. WorkerOK
    <3>1. since \in BOOLEAN /\ old \in BOOLEAN /\ wpc = "idle" /\ last = "none"
      BY DEF Init
    <3>2. moved = 0 /\ missed = 0 /\ abandoned = 0 /\ lost = 0
      BY DEF Init
    <3> QED BY WedgeAssumption, <3>1, <3>2 DEF WorkerOK, Count
  <2>2. ChannelsOK
    BY WedgeAssumption, <1>1, EmptySeq DEF Init, ChannelsOK
  <2>3. ThreadOK
    <3>1. mine \in BOOLEAN /\ retried \in BOOLEAN /\ tpc = "idle" /\ outcome = "done" /\ sent = 0
      BY DEF Init
    <3> QED BY WedgeAssumption, <3>1 DEF ThreadOK
  <2>4. LineOK
    <3>1. /\ dead \in BOOLEAN /\ knocked \in BOOLEAN /\ peerLost \in BOOLEAN /\ link \in BOOLEAN
          /\ peer = "well" /\ knocks = 0
      BY DEF Init
    <3> QED BY WedgeAssumption, <3>1 DEF LineOK
  <2> QED BY <2>1, <2>2, <2>3, <2>4 DEF TypeOK
<1>3. OneTransfer /\ InStep /\ Awaited
  BY <1>1 DEF Init, OneTransfer, Asking, Heard, InStep, Awaited
<1> QED BY <1>2, <1>3 DEF Init, IInv

-----------------------------------------------------------------------------
(* The steps that leave the channels and the worker's wait alone.          *)

LEMMA Aside ==
  ASSUME IInv, UNCHANGED <<wpc, moved, last, req, replies, mine>>, TypeOK',
         mine => tpc' \in {"revive", "stream", "tick", "report"},
         tpc' = "tick" => sent' > 0,
         mine /\ tpc' = "stream" /\ sent' > 0 => Told(sent', Len(replies) + 1),
         mine /\ tpc' = "report" /\ outcome' = "done" => Told(Chunks, Len(replies) + 1)
  PROVE  IInv'
<1>1. OneTransfer'
  BY DEF IInv, OneTransfer, Asking, Heard, Answer, Places
<1>2. InStep'
  BY DEF IInv, InStep, Told, Shows, Places
<1>3. Awaited'
  BY DEF IInv, Awaited, Asking, Answer, Places
<1> QED BY <1>1, <1>2, <1>3 DEF IInv

LEMMA AgeKeeps == ASSUME IInv, Age PROVE IInv'
<1>1. TypeOK'
  <2>1. WorkerOK'
    BY DEF Age, IInv, TypeOK, WorkerOK
  <2>2. ChannelsOK'
    BY DEF Age, IInv, TypeOK, ChannelsOK
  <2>3. ThreadOK'
    BY DEF Age, IInv, TypeOK, ThreadOK, threadVars
  <2>4. LineOK'
    BY DEF Age, IInv, TypeOK, LineOK, threadVars, lineVars
  <2> QED BY <2>1, <2>2, <2>3, <2>4 DEF TypeOK
<1> QED BY <1>1, Aside DEF Age, threadVars, IInv, OneTransfer, InStep

LEMMA GiveUpKeeps == ASSUME IInv, GiveUp PROVE IInv'
<1>1. TypeOK'
  <2>1. WorkerOK'
    BY DEF GiveUp, IInv, TypeOK, WorkerOK, counters
  <2>2. ChannelsOK'
    BY DEF GiveUp, IInv, TypeOK, ChannelsOK
  <2>3. ThreadOK'
    BY DEF GiveUp, IInv, TypeOK, ThreadOK, threadVars
  <2>4. LineOK'
    BY DEF GiveUp, IInv, TypeOK, LineOK, threadVars, lineVars
  <2> QED BY <2>1, <2>2, <2>3, <2>4 DEF TypeOK
<1>2. OneTransfer'
  BY DEF GiveUp, IInv, OneTransfer, Asking, Heard, Answer, Places, threadVars
<1>3. InStep'
  BY DEF GiveUp, IInv, InStep, Told, Shows, Places, threadVars
<1> QED BY <1>1, <1>2, <1>3 DEF GiveUp, IInv, Awaited

LEMMA HealKeeps == ASSUME IInv, Heal PROVE IInv'
<1>1. TypeOK'
  <2>1. WorkerOK'
    BY DEF Heal, IInv, TypeOK, WorkerOK, workerVars, counters
  <2>2. ChannelsOK'
    BY DEF Heal, IInv, TypeOK, ChannelsOK
  <2>3. ThreadOK'
    BY DEF Heal, IInv, TypeOK, ThreadOK
  <2>4. LineOK'
    <3>1. dead' \in BOOLEAN /\ peerLost' \in BOOLEAN /\ UNCHANGED <<knocked, link, peer>> /\ knocks' = Window
      BY DEF Heal
    <3>2. Window \in 0..Tries
      BY WedgeAssumption DEF Window
    <3> QED BY <3>1, <3>2 DEF IInv, TypeOK, LineOK
  <2> QED BY <2>1, <2>2, <2>3, <2>4 DEF TypeOK
<1>2. ~ mine
  BY DEF Heal, IInv, OneTransfer
<1> QED BY <1>1, <1>2, Aside DEF Heal, workerVars

LEMMA KnockKeeps == ASSUME IInv, Knock PROVE IInv'
<1>1. TypeOK'
  <2>1. WorkerOK' /\ ChannelsOK'
    BY DEF Knock, IInv, TypeOK, WorkerOK, ChannelsOK, workerVars, counters
  <2>2. ThreadOK'
    BY WedgeAssumption DEF Knock, Revived, NotRevived, IInv, TypeOK, ThreadOK
  <2>3. LineOK'
    <3>1. dead' \in BOOLEAN /\ knocked' \in BOOLEAN /\ peerLost' \in BOOLEAN /\ link' \in BOOLEAN
      BY DEF Knock, Revived, NotRevived, IInv, TypeOK, LineOK
    <3>2. knocks' = knocks \/ (knocks > 1 /\ knocks' = knocks - 1)
      BY DEF Knock, Revived, NotRevived
    <3>3. UNCHANGED peer
      BY DEF Knock
    <3> QED BY <3>1, <3>2, <3>3, WedgeAssumption DEF IInv, TypeOK, LineOK
  <2> QED BY <2>1, <2>2, <2>3 DEF TypeOK
<1>2. mine => tpc = "revive"
  BY DEF Knock, IInv, OneTransfer
<1>3. mine => \/ tpc' = "stream" /\ sent' = 0
              \/ tpc' = "report" /\ outcome' = "lost"
              \/ tpc' = tpc
  BY <1>2 DEF Knock, Revived, NotRevived
<1>4. tpc' # "tick"
  BY DEF Knock, Revived, NotRevived
<1> QED BY <1>1, <1>2, <1>3, <1>4, Aside DEF Knock, workerVars

LEMMA ChunkKeeps == ASSUME IInv, Chunk PROVE IInv'
<1>1. TypeOK'
  <2>1. WorkerOK'
    BY DEF Chunk, IInv, TypeOK, WorkerOK, workerVars, counters
  <2>2. ChannelsOK'
    BY DEF Chunk, IInv, TypeOK, ChannelsOK
  <2>3. ThreadOK'
    BY WedgeAssumption DEF Chunk, IInv, TypeOK, ThreadOK
  <2>4. LineOK'
    BY DEF Chunk, IInv, TypeOK, LineOK, lineVars
  <2> QED BY <2>1, <2>2, <2>3, <2>4 DEF TypeOK
<1>2. sent' > 0
  BY DEF Chunk, IInv, TypeOK, ThreadOK
<1> QED BY <1>1, <1>2, Aside DEF Chunk, workerVars

LEMMA CompleteKeeps == ASSUME IInv, Complete PROVE IInv'
<1>1. TypeOK'
  <2>1. WorkerOK'
    BY DEF Complete, IInv, TypeOK, WorkerOK, workerVars, counters
  <2>2. ChannelsOK'
    BY DEF Complete, IInv, TypeOK, ChannelsOK
  <2>3. ThreadOK'
    BY DEF Complete, IInv, TypeOK, ThreadOK
  <2>4. LineOK'
    BY DEF Complete, IInv, TypeOK, LineOK, lineVars
  <2> QED BY <2>1, <2>2, <2>3, <2>4 DEF TypeOK
<1>2. mine => Told(Chunks, Len(replies) + 1)
  BY WedgeAssumption DEF Complete, IInv, InStep
<1> QED BY <1>1, <1>2, Aside DEF Complete, workerVars

LEMMA RefuseKeeps == ASSUME IInv, Refuse PROVE IInv'
<1>1. TypeOK'
  <2>1. WorkerOK' /\ ChannelsOK'
    BY DEF Refuse, IInv, TypeOK, WorkerOK, ChannelsOK, workerVars, counters
  <2>2. outcome' \in {"refused", "lost"}
    BY DEF Refuse
  <2>3. ThreadOK'
    BY <2>2 DEF Refuse, IInv, TypeOK, ThreadOK
  <2>4. LineOK'
    BY DEF Refuse, IInv, TypeOK, LineOK
  <2> QED BY <2>1, <2>3, <2>4 DEF TypeOK
<1>2. tpc' = "report" /\ outcome' # "done"
  BY DEF Refuse
<1> QED BY <1>1, <1>2, Aside DEF Refuse, workerVars

LEMMA CutKeeps == ASSUME IInv, Cut PROVE IInv'
<1>1. TypeOK'
  <2>1. WorkerOK' /\ ChannelsOK'
    BY DEF Cut, IInv, TypeOK, WorkerOK, ChannelsOK, workerVars, counters
  <2>2. ThreadOK'
    BY DEF Cut, IInv, TypeOK, ThreadOK
  <2>3. LineOK'
    BY WedgeAssumption DEF Cut, Window, IInv, TypeOK, LineOK
  <2> QED BY <2>1, <2>2, <2>3 DEF TypeOK
<1>2. tpc' = "revive" \/ (tpc' = "report" /\ outcome' = "lost")
  BY DEF Cut
<1> QED BY <1>1, <1>2, Aside DEF Cut, workerVars

LEMMA NotifyKeeps == ASSUME IInv, Notify PROVE IInv'
<1>1. TypeOK'
  <2>1. WorkerOK'
    BY DEF Notify, IInv, TypeOK, WorkerOK, workerVars, counters
  <2>2. ChannelsOK'
    BY DEF Notify, IInv, TypeOK, ChannelsOK
  <2>3. ThreadOK'
    BY DEF Notify, IInv, TypeOK, ThreadOK, threadVars
  <2>4. LineOK'
    BY DEF Notify, IInv, TypeOK, LineOK, threadVars, lineVars
  <2> QED BY <2>1, <2>2, <2>3, <2>4 DEF TypeOK
<1> QED BY <1>1, Aside DEF Notify, workerVars, threadVars, IInv, OneTransfer, InStep

LEMMA PeerChangesKeeps == ASSUME IInv, PeerChanges PROVE IInv'
<1>1. TypeOK'
  <2>1. WorkerOK'
    BY DEF PeerChanges, IInv, TypeOK, WorkerOK, workerVars, counters
  <2>2. ChannelsOK'
    BY DEF PeerChanges, IInv, TypeOK, ChannelsOK
  <2>3. ThreadOK'
    BY DEF PeerChanges, IInv, TypeOK, ThreadOK, threadVars
  <2>4. LineOK'
    BY DEF PeerChanges, IInv, TypeOK, LineOK, threadVars, lineVars
  <2> QED BY <2>1, <2>2, <2>3, <2>4 DEF TypeOK
<1> QED BY <1>1, Aside DEF PeerChanges, workerVars, threadVars, IInv, OneTransfer, InStep

-----------------------------------------------------------------------------
(* What the worker does.                                                   *)

\* Nothing live anywhere: a worker between two events.
Quiet == ~ Asking /\ ~ mine /\ ~ Heard

LEMMA QuietIsEnough ==
  ASSUME TypeOK', last' # "short", Quiet', wpc' # "waiting", tpc' = "tick" => sent' > 0
  PROVE  IInv'
<1>1. OneTransfer'
  BY DEF Quiet, Asking, Heard, Answer, OneTransfer
<1>2. InStep'
  BY DEF Quiet, Heard, InStep
<1> QED BY <1>1, <1>2 DEF IInv, Awaited

CountersOK ==
  /\ missed \in Count /\ abandoned \in Count /\ lost \in Count
  /\ since \in BOOLEAN /\ old \in BOOLEAN

LEMMA CountersKeep ==
  ASSUME WorkerOK, Zeroed \/ MissedOne \/ AbandonedOne \/ LostOne \/ UNCHANGED counters
  PROVE  CountersOK'
<1>1. \A n \in Count : OneMore(n) \in Count
  BY WedgeAssumption DEF Count, OneMore
<1>2. 0 \in Count
  BY WedgeAssumption DEF Count
<1>3. CASE Zeroed
  BY <1>2, <1>3 DEF Zeroed, CountersOK
<1>4. CASE MissedOne
  BY <1>1, <1>4 DEF MissedOne, WorkerOK, CountersOK
<1>5. CASE AbandonedOne
  BY <1>1, <1>5 DEF AbandonedOne, WorkerOK, CountersOK
<1>6. CASE LostOne
  BY <1>1, <1>6 DEF LostOne, WorkerOK, CountersOK
<1>7. CASE UNCHANGED counters
  BY <1>7 DEF counters, WorkerOK, CountersOK
<1> QED BY <1>3, <1>4, <1>5, <1>6, <1>7

LEMMA MovedInRange == ASSUME IInv PROVE moved \in Nat /\ moved <= Chunks
<1>1. moved \in 0..Chunks
  BY DEF IInv, TypeOK, WorkerOK
<1> QED BY <1>1, WedgeAssumption

\* Into a request channel where nothing is live goes one request that is.
LEMMA SendKeeps ==
  ASSUME ChannelsOK, ~ Asking, Send
  PROVE  req' \in Seq(BOOLEAN) /\ Len(req') \in 1 .. MaxQueue
         /\ \A i \in 1 .. Len(req') : req'[i] <=> i = Len(req')
<1> DEFINE q == IF Len(req) = MaxQueue THEN Tail(req) ELSE req
<1>1. q \in Seq(BOOLEAN) /\ Len(q) \in 0 .. MaxQueue - 1 /\ \A i \in 1 .. Len(q) : ~ q[i]
  <2>1. Len(req) \in Nat /\ req \in Seq(BOOLEAN) /\ Len(req) <= MaxQueue
    BY LenProperties DEF ChannelsOK
  <2>2. CASE Len(req) = MaxQueue
    <3>1. req # << >>
      BY <2>2, WedgeAssumption, EmptySeq
    <3> QED BY <2>1, <2>2, <3>1, HeadTailProperties, WedgeAssumption DEF Asking
  <2>3. CASE Len(req) # MaxQueue
    BY <2>1, <2>3, WedgeAssumption DEF Asking
  <2> QED BY <2>2, <2>3
<1>2. req' = Append(q, TRUE)
  BY DEF Send
<1> HIDE DEF q
<1>3. /\ req' \in Seq(BOOLEAN) /\ Len(req') = Len(q) + 1
      /\ \A i \in 1 .. Len(q) : req'[i] = q[i]
      /\ req'[Len(q) + 1] = TRUE
  BY <1>1, <1>2, AppendProperties
<1> QED BY <1>1, <1>3, WedgeAssumption

LEMMA EventKeeps == ASSUME IInv, Event PROVE IInv'
<1>1. Quiet /\ wpc = "idle"
  BY DEF Event, IInv, OneTransfer, Quiet
<1>2. UNCHANGED <<tpc, mine, sent, retried, outcome, dead, knocked, knocks, peerLost, link, peer>>
  BY DEF Event, threadVars, lineVars
<1>3. ThreadOK' /\ LineOK'
  BY <1>2 DEF IInv, TypeOK, ThreadOK, LineOK
<1>4. CASE Send /\ UNCHANGED last /\ replies' \in {replies, << >>} /\ (Zeroed \/ UNCHANGED counters)
  <2>1. ChannelsOK'
    <3>1. req' \in Seq(BOOLEAN) /\ Len(req') <= MaxQueue
      BY <1>1, <1>4, SendKeeps, WedgeAssumption DEF IInv, TypeOK, Quiet
    <3>2. replies' \in Seq(Reply) /\ Len(replies') <= ReplyCap
      <4>1. CASE replies' = replies
        BY <4>1 DEF IInv, TypeOK, ChannelsOK
      <4>2. CASE replies' = << >>
        BY <4>2, EmptySeq, WedgeAssumption
      <4> QED BY <1>4, <4>1, <4>2
    <3> QED BY <3>1, <3>2 DEF ChannelsOK
  <2>2. WorkerOK'
    <3>1. WorkerOK /\ (Zeroed \/ UNCHANGED counters)
      BY <1>4 DEF IInv, TypeOK
    <3>2. CountersOK'
      BY <3>1, CountersKeep
    <3>3. wpc' = "waiting" /\ moved' = 0 /\ UNCHANGED last
      BY <1>4 DEF Send
    <3>4. moved' \in 0..Chunks
      BY <3>3, WedgeAssumption
    <3> QED BY <3>1, <3>2, <3>3, <3>4, Zenon DEF CountersOK, WorkerOK
  <2>3. /\ \A i \in 1 .. Len(req') : req'[i] <=> i = Len(req')
        /\ Len(req') \in 1 .. Len(req')
    BY <1>1, <1>4, SendKeeps DEF IInv, TypeOK, Quiet
  <2>4. ~ mine' /\ ~ Heard'
    BY <1>1, <1>2, <1>4, EmptySeq DEF Quiet, Heard, Places
  <2>5. OneTransfer'
    BY <1>4, <2>3, <2>4 DEF Send, OneTransfer, Asking, Heard, Answer
  <2>6. InStep'
    BY <1>2, <2>4 DEF IInv, InStep, Heard
  <2>7. Awaited'
    BY <2>3 DEF Awaited, Asking
  <2> QED BY <1>3, <1>4, <2>1, <2>2, <2>5, <2>6, <2>7 DEF IInv, TypeOK
<1>5. CASE End("unresponsive") /\ UNCHANGED <<counters, req, replies>>
  <2>1. TypeOK'
    <3>1. WorkerOK'
      <4>1. CountersOK'
        BY <1>5, CountersKeep DEF IInv, TypeOK
      <4> QED BY <1>5, <4>1, WedgeAssumption DEF End, CountersOK, WorkerOK
    <3> QED BY <1>3, <1>5, <3>1 DEF IInv, TypeOK, ChannelsOK
  <2>2. Quiet' /\ wpc' # "waiting" /\ last' # "short"
    BY <1>1, <1>2, <1>5 DEF End, Quiet, Asking, Heard, Places
  <2>3. tpc' = "tick" => sent' > 0
    BY <1>2 DEF IInv, InStep
  <2> QED BY <2>1, <2>2, <2>3, QuietIsEnough
<1> QED BY <1>4, <1>5 DEF Event

\* Nobody waits for anything any more.
LEMMA DeadlineKeeps == ASSUME IInv, Deadline PROVE IInv'
<1>1. Forget /\ wpc' = "idle" /\ moved' = 0 /\ last' \in {"missed", "stalled", "too long"}
  BY DEF Deadline, NoFirstByte, Stalled, TooLong, End
<1>2. ThreadOK' /\ LineOK' /\ UNCHANGED <<tpc, sent>>
  BY <1>1 DEF Forget, IInv, TypeOK, ThreadOK, LineOK, lineVars
<1>3. WorkerOK'
  <2>1. WorkerOK /\ (MissedOne \/ AbandonedOne)
    BY DEF Deadline, NoFirstByte, Stalled, TooLong, IInv, TypeOK
  <2>2. CountersOK'
    BY <2>1, CountersKeep
  <2>3. 0 \in 0..Chunks
    BY WedgeAssumption
  <2> QED BY <1>1, <2>2, <2>3, Zenon DEF CountersOK, WorkerOK
<1>4. /\ req \in Seq(BOOLEAN) /\ DOMAIN req = 1 .. Len(req) /\ Len(req) \in Nat
      /\ replies \in Seq(Reply) /\ DOMAIN replies = 1 .. Len(replies) /\ Len(replies) \in Nat
  BY LenProperties DEF IInv, TypeOK, ChannelsOK
<1>5. req' \in Seq(BOOLEAN) /\ Len(req') = Len(req) /\ ~ Asking'
  <2>1. req' = [i \in 1 .. Len(req) |-> FALSE]
    BY <1>1, <1>4 DEF Forget
  <2>2. req' \in Seq(BOOLEAN) /\ Len(req') = Len(req)
    BY <1>4, <2>1
  <2> QED BY <1>4, <2>1, <2>2 DEF Asking
<1>6. replies' \in Seq(Reply) /\ Len(replies') = Len(replies) /\ ~ Heard'
  <2>1. replies' = [i \in 1 .. Len(replies) |-> [replies[i] EXCEPT !.live = FALSE]]
    BY <1>1, <1>4 DEF Forget
  <2>2. \A i \in 1 .. Len(replies) : replies[i] \in Reply
    BY <1>4, ElementOfSeq
  <2>3. \A i \in 1 .. Len(replies) : /\ [replies[i] EXCEPT !.live = FALSE] \in Reply
                                     /\ ~ [replies[i] EXCEPT !.live = FALSE].live
    BY <2>2 DEF Reply
  <2>4. replies' \in Seq(Reply) /\ Len(replies') = Len(replies)
    BY <1>4, <2>1, <2>3
  <2> QED BY <1>4, <2>1, <2>3, <2>4 DEF Heard, Places
<1>7. TypeOK'
  BY <1>2, <1>3, <1>5, <1>6 DEF IInv, TypeOK, ChannelsOK
<1>8. Quiet' /\ last' # "short" /\ wpc' # "waiting" /\ (tpc' = "tick" => sent' > 0)
  BY <1>1, <1>2, <1>5, <1>6 DEF Forget, Quiet, IInv, InStep
<1> QED BY <1>7, <1>8, QuietIsEnough

\* The worker takes a reply from the front: the others move up, and are what they were.
LEMMA FrontTaken ==
  ASSUME IInv, replies # << >>, replies' = Tail(replies)
  PROVE  /\ Head(replies) = replies[1] /\ 1 \in Places /\ replies[1] \in Reply
         /\ replies' \in Seq(Reply) /\ Len(replies') = Len(replies) - 1 /\ Len(replies) \in Nat
         /\ \A i \in 1 .. Len(replies') : i + 1 \in Places /\ replies'[i] = replies[i + 1]
         /\ \A i \in Places : i # 1 => i - 1 \in 1 .. Len(replies') /\ replies'[i - 1] = replies[i]
<1>1. replies \in Seq(Reply)
  BY DEF IInv, TypeOK, ChannelsOK
<1>2. Len(replies) \in Nat \ {0}
  BY <1>1, EmptySeq
<1>3. /\ replies' \in Seq(Reply) /\ Len(replies') = Len(replies) - 1
      /\ \A i \in 1 .. Len(replies') : replies'[i] = replies[i + 1]
  BY <1>1, HeadTailProperties
<1>4. Head(replies) = replies[1]
  BY <1>1
<1>5. 1 \in Places /\ replies[1] \in Reply
  BY <1>1, <1>2, ElementOfSeq DEF Places
<1>6. \A i \in 1 .. Len(replies') : i + 1 \in Places
  BY <1>2, <1>3 DEF Places
<1>7. \A i \in Places : i # 1 => i - 1 \in 1 .. Len(replies') /\ replies'[i - 1] = replies[i]
  BY <1>2, <1>3 DEF Places
<1> QED BY <1>2, <1>3, <1>4, <1>5, <1>6, <1>7

\* It goes on waiting, and what the reply showed it knows.
LEMMA PassedOver ==
  ASSUME IInv, replies # << >>, replies' = Tail(replies), UNCHANGED <<wpc, last, req, threadVars>>,
         ~ Answer(1), moved' \in Nat, moved' >= moved, \A n \in Nat : Shows(1, n) => moved' >= n
  PROVE  OneTransfer' /\ InStep' /\ Awaited'
<1>1. \A i \in 1 .. Len(replies') : i + 1 \in Places /\ replies'[i] = replies[i + 1]
  BY FrontTaken
<1>2. \A i \in Places : i # 1 => i - 1 \in 1 .. Len(replies') /\ replies'[i - 1] = replies[i]
  BY FrontTaken
<1>3. Len(replies) \in Nat /\ Len(replies') = Len(replies) - 1
  BY FrontTaken
<1>4. UNCHANGED <<tpc, mine, sent, outcome>>
  BY DEF threadVars
<1>5. \A n \in Nat, k \in 1 .. Len(replies) + 1 : Told(n, k) => Told(n, k - 1)'
  <2> SUFFICES ASSUME NEW n \in Nat, NEW k \in 1 .. Len(replies) + 1, Told(n, k)
               PROVE  Told(n, k - 1)'
    OBVIOUS
  <2>1. CASE moved >= n
    <3>1. moved \in Nat
      BY MovedInRange
    <3>2. moved' >= n
      BY <2>1, <3>1
    <3> QED BY <3>2 DEF Told
  <2>2. ASSUME NEW i \in Places, i < k, Shows(i, n)
        PROVE  Told(n, k - 1)'
    <3>1. CASE i = 1
      BY <2>2, <3>1 DEF Told
    <3>2. CASE i # 1
      <4>1. i - 1 \in Places' /\ Shows(i - 1, n)' /\ i - 1 < k - 1
        BY <1>2, <1>3, <2>2, <3>2 DEF Places, Shows
      <4> QED BY <4>1 DEF Told
    <3> QED BY <3>1, <3>2
  <2> QED BY <2>1, <2>2 DEF Told
<1>6. OneTransfer'
  <2>1. Heard' => Heard
    BY <1>1 DEF Heard, Places
  <2>2. \A i \in Places' : Answer(i)' => Answer(i + 1)
    BY <1>1 DEF Answer, Places
  <2>3. \A i, j \in Places' : Answer(i)' /\ replies'[j].live => j <= i
    <3> SUFFICES ASSUME NEW i \in Places', NEW j \in Places', Answer(i)', replies'[j].live
                 PROVE  j <= i
      OBVIOUS
    <3>1. i + 1 \in Places /\ j + 1 \in Places /\ Answer(i + 1) /\ replies[j + 1].live
      BY <1>1, <2>2 DEF Places
    <3>2. j + 1 <= i + 1
      BY <3>1 DEF IInv, OneTransfer
    <3> QED BY <1>3, <3>2 DEF Places
  <2>4. mine' => \A i \in Places' : ~ Answer(i)'
    BY <1>1, <1>4, <2>2 DEF IInv, OneTransfer, Places
  <2> QED BY <1>4, <2>1, <2>3, <2>4 DEF IInv, OneTransfer, Asking
<1>7. InStep'
  <2>1. ASSUME NEW n \in Nat, Told(n, Len(replies) + 1)
        PROVE  Told(n, Len(replies) + 1)'
    <3>1. Len(replies) + 1 \in 1 .. Len(replies) + 1 /\ (Len(replies) + 1) - 1 = Len(replies') + 1
      BY <1>3
    <3> QED BY <1>5, <2>1, <3>1 DEF Told
  <2>2. sent \in Nat /\ Chunks \in Nat
    BY WedgeAssumption DEF IInv, TypeOK, ThreadOK
  <2>4. mine /\ tpc = "stream" /\ sent > 0 => Told(sent, Len(replies) + 1)'
    BY <1>4, <2>1, <2>2 DEF IInv, InStep, Told
  <2>5. mine /\ tpc = "report" /\ outcome = "done" => Told(Chunks, Len(replies) + 1)'
    BY <2>1, <2>2 DEF IInv, InStep
  <2>3. ASSUME NEW k \in Places', replies'[k].live, replies'[k].step = "done"
        PROVE  Told(Chunks, k)'
    <3>1. k + 1 \in Places /\ k \in Nat /\ Told(Chunks, k + 1)
      BY <1>1, <1>3, <2>3 DEF IInv, InStep, Places
    <3>2. k + 1 \in 1 .. Len(replies) + 1 /\ (k + 1) - 1 = k
      BY <1>3, <3>1 DEF Places
    <3> QED BY <1>5, <2>2, <3>1, <3>2 DEF Told
  <2> QED BY <1>4, <2>3, <2>4, <2>5 DEF IInv, InStep
<1>8. Awaited'
  <2>1. \A i \in Places : Answer(i) => \E j \in Places' : Answer(j)'
    BY <1>2 DEF Answer, Places
  <2> QED BY <1>4, <2>1 DEF IInv, Awaited, Asking
<1> QED BY <1>6, <1>7, <1>8

LEMMA ReceiveKeeps == ASSUME IInv, Receive PROVE IInv'
<1> DEFINE r == replies[1]
<1>1. /\ wpc = "waiting" /\ replies # << >> /\ replies' = Tail(replies)
      /\ UNCHANGED <<req, threadVars, peerLost, link, peer>>
  BY DEF Receive
<1>2. /\ Head(replies) = r /\ 1 \in Places /\ r \in Reply
      /\ replies' \in Seq(Reply) /\ Len(replies') = Len(replies) - 1 /\ Len(replies) \in Nat
      /\ \A i \in 1 .. Len(replies') : i + 1 \in Places /\ replies'[i] = replies[i + 1]
  BY <1>1, FrontTaken
<1>3. /\ moved \in Nat /\ r.total \in 0..Chunks /\ r.total \in Nat
      /\ r.step \in {"progress", "done", "refused", "lost"}
  <2>1. r.total \in 0..Chunks /\ r.step \in {"progress", "done", "refused", "lost"}
    BY <1>2 DEF Reply
  <2> QED BY <2>1, MovedInRange, WedgeAssumption
<1>4. UNCHANGED <<tpc, mine, sent, retried, outcome, dead, knocked, knocks>>
  BY <1>1 DEF threadVars, lineVars
<1>5. ChannelsOK' /\ ThreadOK' /\ LineOK'
  <2>1. ThreadOK' /\ LineOK'
    BY <1>1, <1>4 DEF IInv, TypeOK, ThreadOK, LineOK
  <2>2. req \in Seq(BOOLEAN) /\ Len(req) <= MaxQueue /\ Len(replies) <= ReplyCap
    BY DEF IInv, TypeOK, ChannelsOK
  <2>3. Len(replies') <= ReplyCap
    BY <1>2, <2>2, WedgeAssumption
  <2> QED BY <1>1, <1>2, <2>1, <2>2, <2>3, Zenon DEF ChannelsOK
<1>6. CASE /\ ~ r.live \/ (r.step = "progress" /\ r.total <= moved)
           /\ UNCHANGED workerVars
  <2>1. WorkerOK' /\ UNCHANGED <<wpc, moved, last>>
    BY <1>6 DEF workerVars, counters, IInv, TypeOK, WorkerOK
  <2>2. ~ Answer(1) /\ \A n \in Nat : Shows(1, n) => moved' >= n
    BY <1>3, <1>6, <2>1 DEF Answer, Shows
  <2>3. OneTransfer' /\ InStep' /\ Awaited'
    BY <1>1, <1>3, <2>1, <2>2, PassedOver
  <2> QED BY <1>5, <2>1, <2>3 DEF IInv, TypeOK
<1>7. CASE /\ r.live /\ r.step = "progress" /\ r.total > moved
           /\ moved' = r.total
           /\ IF moved = 0 THEN Zeroed ELSE UNCHANGED counters
           /\ UNCHANGED <<wpc, last>>
  <2>1. WorkerOK'
    <3>1. CountersOK'
      <4>1. WorkerOK /\ (Zeroed \/ UNCHANGED counters)
        BY <1>7 DEF IInv, TypeOK
      <4> QED BY <4>1, CountersKeep
    <3>2. moved' \in 0..Chunks
      BY <1>3, <1>7
    <3>3. WorkerOK /\ UNCHANGED <<wpc, last>>
      BY <1>7 DEF IInv, TypeOK
    <3> QED BY <3>1, <3>2, <3>3, Zenon DEF CountersOK, WorkerOK
  <2>2. ~ Answer(1) /\ moved' \in Nat /\ moved' >= moved /\ \A n \in Nat : Shows(1, n) => moved' >= n
    BY <1>3, <1>7 DEF Answer, Shows
  <2>3. OneTransfer' /\ InStep' /\ Awaited'
    BY <1>1, <1>7, <2>2, PassedOver
  <2> QED BY <1>5, <1>7, <2>1, <2>3 DEF IInv, TypeOK
<1>8. CASE /\ r.live /\ r.step # "progress"
           /\ Zeroed \/ LostOne \/ UNCHANGED counters
           /\ wpc' = "idle" /\ moved' = 0 /\ last' \in {"ok", "short", "lost", "refused"}
           /\ last' = "short" => r.step = "done" /\ moved # Chunks
  <2>1. Answer(1)
    BY <1>8 DEF Answer
  <2>2. last' # "short"
    <3>1. r.step = "done" => moved >= Chunks
      BY <1>2, <1>8 DEF IInv, InStep, Told, Places
    <3>2. moved <= Chunks
      BY MovedInRange
    <3> QED BY <1>3, <1>8, <3>1, <3>2, WedgeAssumption
  <2>3. Quiet'
    <3>1. ~ Heard'
      <4>1. ASSUME NEW i \in 1 .. Len(replies'), replies'[i].live
            PROVE  FALSE
        <5>1. i + 1 \in Places /\ replies[i + 1].live
          BY <1>2, <4>1
        <5>2. i + 1 <= 1
          BY <1>2, <2>1, <5>1 DEF IInv, OneTransfer
        <5> QED BY <1>2, <5>2
      <4> QED BY <4>1 DEF Heard, Places
    <3>2. ~ mine /\ ~ Asking
      BY <1>2, <1>8, <2>1 DEF IInv, OneTransfer, Heard
    <3> QED BY <1>1, <1>4, <3>1, <3>2 DEF Quiet, Asking
  <2>4. WorkerOK'
    <3>1. CountersOK'
      <4>1. WorkerOK /\ (Zeroed \/ LostOne \/ UNCHANGED counters)
        BY <1>8 DEF IInv, TypeOK
      <4> QED BY <4>1, CountersKeep
    <3>2. 0 \in 0..Chunks
      BY WedgeAssumption
    <3> QED BY <1>8, <3>1, <3>2, Zenon DEF CountersOK, WorkerOK
  <2>5. tpc' = "tick" => sent' > 0
    BY <1>4 DEF IInv, InStep
  <2>6. TypeOK' /\ wpc' # "waiting"
    BY <1>5, <1>8, <2>4 DEF TypeOK
  <2> QED BY <2>2, <2>3, <2>5, <2>6, QuietIsEnough
<1>9. CASE r.live /\ r.step = "done" /\ Zeroed /\ End(IF moved = Chunks THEN "ok" ELSE "short")
  <2>1. /\ wpc' = "idle" /\ moved' = 0 /\ last' \in {"ok", "short", "lost", "refused"}
        /\ last' = "short" => r.step = "done" /\ moved # Chunks
    BY <1>9 DEF End
  <2> QED BY <1>8, <1>9, <2>1
<1>10. CASE r.live /\ r.step = "lost" /\ LostOne /\ End("lost")
  BY <1>8, <1>10 DEF End
<1>11. CASE r.live /\ r.step = "refused" /\ (IF moved > 0 THEN Zeroed ELSE UNCHANGED counters) /\ End("refused")
  BY <1>8, <1>11 DEF End
<1> HIDE DEF r
<1> QED BY <1>2, <1>6, <1>7, <1>9, <1>10, <1>11 DEF Receive

-----------------------------------------------------------------------------
(* What the thread takes, and what it reports.                             *)

LEMMA TakeJobKeeps == ASSUME IInv, TakeJob PROVE IInv'
<1>1. /\ req # << >> /\ req' = Tail(req) /\ mine' = Head(req) /\ sent' = 0
      /\ tpc' \in {"revive", "stream"} /\ tpc = "idle"
      /\ UNCHANGED <<wpc, moved, last, replies, outcome, dead, knocked, peerLost, link, peer>>
  BY DEF TakeJob, workerVars
<1>2. req \in Seq(BOOLEAN) /\ Len(req) \in Nat \ {0} /\ Len(req) <= MaxQueue
  BY <1>1, EmptySeq DEF IInv, TypeOK, ChannelsOK
<1>3. /\ req' \in Seq(BOOLEAN) /\ Len(req') = Len(req) - 1
      /\ \A i \in 1 .. Len(req') : req'[i] = req[i + 1]
  BY <1>1, <1>2, HeadTailProperties
<1>4. mine' \in BOOLEAN /\ (mine' <=> req[1])
  BY <1>1, <1>2, HeadTailProperties
<1>5. TypeOK'
  <2>1. WorkerOK'
    BY DEF TakeJob, workerVars, counters, IInv, TypeOK, WorkerOK
  <2>2. ChannelsOK'
    BY <1>1, <1>2, <1>3, WedgeAssumption DEF IInv, TypeOK, ChannelsOK
  <2>3. ThreadOK'
    <3>1. retried' \in BOOLEAN
      BY DEF TakeJob
    <3>2. 0 \in 0..Chunks
      BY WedgeAssumption
    <3> QED BY <1>1, <1>4, <3>1, <3>2, Zenon DEF IInv, TypeOK, ThreadOK
  <2>4. LineOK'
    <3>1. knocks' \in 0..Tries
      <4>1. knocks' = Window \/ knocks' = knocks
        BY DEF TakeJob
      <4>2. Window \in 0..Tries
        BY WedgeAssumption DEF Window
      <4> QED BY <4>1, <4>2 DEF IInv, TypeOK, LineOK
    <3> QED BY <1>1, <3>1, Zenon DEF IInv, TypeOK, LineOK
  <2> QED BY <2>1, <2>2, <2>3, <2>4 DEF TypeOK
<1>6. ~ mine
  BY <1>1 DEF IInv, OneTransfer
<1>7. mine' => Asking /\ ~ Asking'
  <2> SUFFICES ASSUME mine' PROVE Asking /\ ~ Asking'
    OBVIOUS
  <2>1. req[1] /\ 1 \in 1 .. Len(req)
    BY <1>2, <1>4
  <2>2. Len(req) = 1
    BY <2>1 DEF IInv, OneTransfer
  <2> QED BY <1>3, <2>1, <2>2 DEF Asking
<1>8. Asking' => Asking
  BY <1>2, <1>3 DEF Asking
<1>9. Asking => mine' \/ Asking'
  <2> SUFFICES ASSUME NEW i \in 1 .. Len(req), req[i] PROVE mine' \/ Asking'
    BY DEF Asking
  <2>1. CASE i = 1
    BY <1>4, <2>1
  <2>2. CASE i # 1
    <3>1. i - 1 \in 1 .. Len(req') /\ (i - 1) + 1 = i
      BY <1>2, <1>3, <2>2
    <3>2. req'[i - 1]
      BY <1>3, <3>1
    <3> QED BY <3>1, <3>2 DEF Asking
  <2> QED BY <2>1, <2>2
<1>10. OneTransfer'
  <2>1. \A i \in 1 .. Len(req') : req'[i] => i = Len(req')
    <3> SUFFICES ASSUME NEW i \in 1 .. Len(req'), req'[i] PROVE i = Len(req')
      OBVIOUS
    <3>1. i + 1 \in 1 .. Len(req) /\ req[i + 1]
      BY <1>2, <1>3
    <3>2. i + 1 = Len(req)
      BY <3>1 DEF IInv, OneTransfer
    <3> QED BY <1>2, <1>3, <3>2
  <2>2. mine' => ~ Heard /\ wpc = "waiting"
    BY <1>7 DEF IInv, OneTransfer
  <2>3. Heard' <=> Heard
    BY <1>1 DEF Heard, Places
  <2> QED BY <1>1, <1>6, <1>7, <1>8, <2>1, <2>2, <2>3 DEF IInv, OneTransfer, Heard, Answer, Places
<1>11. InStep'
  BY <1>1, WedgeAssumption DEF IInv, InStep, Told, Shows, Places
<1>12. Awaited'
  BY <1>1, <1>6, <1>9 DEF IInv, Awaited, Answer, Places
<1> QED BY <1>1, <1>5, <1>10, <1>11, <1>12 DEF IInv

\* A reply goes to the back: the others stay where they are.
LEMMA BackGrows ==
  ASSUME IInv, NEW step \in {"progress", "done", "refused", "lost"}, NEW total \in 0..Chunks,
         Put(step, total)
  PROVE  /\ replies' \in Seq(Reply) /\ Len(replies') <= ReplyCap
         /\ Len(replies) \in Nat /\ Len(replies') = Len(replies) + 1
         /\ Places' = Places \cup {Len(replies) + 1} /\ Len(replies) + 1 \notin Places
         /\ \A i \in Places : replies'[i] = replies[i]
         /\ replies'[Len(replies) + 1].live <=> mine
         /\ replies'[Len(replies) + 1].step = step
         /\ replies'[Len(replies) + 1].total = total
<1> DEFINE e == [live |-> mine, step |-> step, total |-> total]
<1>1. /\ replies \in Seq(Reply) /\ Len(replies) \in Nat /\ Len(replies) < ReplyCap
      /\ replies' = Append(replies, e)
  BY LenProperties DEF Put, IInv, TypeOK, ChannelsOK
<1>2. e \in Reply
  BY DEF Reply, IInv, TypeOK, ThreadOK
<1>3. (e.live <=> mine) /\ e.step = step /\ e.total = total
  BY DEF IInv, TypeOK, ThreadOK
<1> HIDE DEF e
<1>4. /\ replies' \in Seq(Reply) /\ Len(replies') = Len(replies) + 1
      /\ \A i \in 1 .. Len(replies) : replies'[i] = replies[i]
      /\ replies'[Len(replies) + 1] = e
  BY <1>1, <1>2, AppendProperties
<1>5. Places' = Places \cup {Len(replies) + 1} /\ Len(replies) + 1 \notin Places
  BY <1>1, <1>4 DEF Places
<1>6. Len(replies') <= ReplyCap
  BY <1>1, <1>4, WedgeAssumption
<1> QED BY <1>1, <1>3, <1>4, <1>5, <1>6 DEF Places

\* What the worker knew it knows.
LEMMA ToldStays ==
  ASSUME UNCHANGED moved, Places \subseteq Places', \A i \in Places : replies'[i] = replies[i],
         NEW n, NEW k, Told(n, k)
  PROVE  Told(n, k)'
BY DEF Told, Shows

LEMMA TickKeeps == ASSUME IInv, Tick PROVE IInv'
<1> DEFINE new == Len(replies) + 1
<1>1. sent \in 0..Chunks /\ Put("progress", sent)
  BY DEF Tick, IInv, TypeOK, ThreadOK
<1>2. /\ replies' \in Seq(Reply) /\ Len(replies') <= ReplyCap
      /\ Len(replies) \in Nat /\ Len(replies') = new
      /\ Places' = Places \cup {new} /\ new \notin Places
      /\ \A i \in Places : replies'[i] = replies[i]
      /\ replies'[new].live <=> mine
      /\ replies'[new].step = "progress"
      /\ replies'[new].total = sent
  BY <1>1, BackGrows
<1>3. /\ tpc = "tick" /\ tpc' = "stream"
      /\ UNCHANGED <<wpc, moved, last, req, mine, sent, retried, outcome, dead, knocked, knocks>>
      /\ UNCHANGED <<missed, abandoned, lost, since, old, peerLost, link, peer>>
  BY DEF Tick, workerVars, counters, lineVars
<1>4. TypeOK'
  <2>1. WorkerOK'
    BY <1>3 DEF IInv, TypeOK, WorkerOK
  <2>2. ThreadOK' /\ LineOK'
    BY <1>3 DEF IInv, TypeOK, ThreadOK, LineOK
  <2>3. ChannelsOK'
    BY <1>2, <1>3 DEF IInv, TypeOK, ChannelsOK
  <2> QED BY <2>1, <2>2, <2>3 DEF TypeOK
<1>5. \A i \in Places' : Answer(i)' => i \in Places /\ Answer(i)
  BY <1>2 DEF Answer
<1>6. Heard' => Heard \/ mine
  BY <1>2 DEF Heard
<1> HIDE DEF new
<1>7. OneTransfer'
  <2>1. \A i, j \in Places' : Answer(i)' /\ replies'[j].live => j <= i
    <3> SUFFICES ASSUME NEW i \in Places', NEW j \in Places', Answer(i)', replies'[j].live
                 PROVE  j <= i
      OBVIOUS
    <3>1. i \in Places /\ Answer(i) /\ ~ mine
      BY <1>5 DEF IInv, OneTransfer
    <3>2. j \in Places /\ replies[j].live
      BY <1>2, <3>1
    <3> QED BY <3>1, <3>2 DEF IInv, OneTransfer
  <2>2. mine' => \A i \in Places' : ~ Answer(i)'
    BY <1>3, <1>5 DEF IInv, OneTransfer
  <2>3. Asking' <=> Asking
    BY <1>3 DEF Asking
  <2> QED BY <1>3, <1>6, <2>1, <2>2, <2>3 DEF IInv, OneTransfer
<1>8. InStep'
  <2>1. mine => Told(sent, Len(replies) + 1)'
    <3> SUFFICES ASSUME mine
                 PROVE  \E i \in Places' : /\ i < Len(replies') + 1
                                           /\ replies'[i].live /\ replies'[i].step = "progress"
                                           /\ replies'[i].total >= sent
      BY <1>3 DEF Told, Shows
    <3>1. new \in Places' /\ new < Len(replies') + 1
      BY <1>2 DEF new
    <3>2. sent >= sent
      BY <1>1, WedgeAssumption
    <3> QED BY <1>2, <3>1, <3>2
  <2>2. ASSUME NEW k \in Places', replies'[k].live, replies'[k].step = "done"
        PROVE  Told(Chunks, k)'
    <3>1. k \in Places /\ Told(Chunks, k)
      BY <1>2, <2>2 DEF IInv, InStep
    <3> QED BY <1>2, <1>3, <3>1, ToldStays
  <2> QED BY <1>3, <2>1, <2>2 DEF InStep
<1>9. Awaited'
  <2>1. \A i \in Places : Answer(i) => i \in Places' /\ Answer(i)'
    BY <1>2 DEF Answer
  <2> QED BY <1>3, <2>1 DEF IInv, Awaited, Asking
<1> QED BY <1>3, <1>4, <1>7, <1>8, <1>9 DEF IInv

LEMMA ReportKeeps == ASSUME IInv, Report PROVE IInv'
<1> DEFINE new == Len(replies) + 1
<1>1. outcome \in {"done", "refused", "lost"} /\ Put(outcome, 0) /\ 0 \in 0..Chunks
  BY WedgeAssumption DEF Report, IInv, TypeOK, ThreadOK
<1>2. /\ replies' \in Seq(Reply) /\ Len(replies') <= ReplyCap
      /\ Len(replies) \in Nat /\ Len(replies') = new
      /\ Places' = Places \cup {new} /\ new \notin Places
      /\ \A i \in Places : replies'[i] = replies[i]
      /\ replies'[new].live <=> mine
      /\ replies'[new].step = outcome
  BY <1>1, BackGrows
<1>3. /\ tpc = "report" /\ tpc' = "idle" /\ ~ mine'
      /\ UNCHANGED <<wpc, moved, last, req, sent, retried, outcome, dead, knocked, knocks>>
      /\ UNCHANGED <<missed, abandoned, lost, since, old, peerLost, link, peer>>
  BY DEF Report, workerVars, counters, lineVars
<1>4. TypeOK'
  <2>1. WorkerOK'
    BY <1>3 DEF IInv, TypeOK, WorkerOK
  <2>2. mine' \in BOOLEAN
    BY DEF Report
  <2>3. ThreadOK' /\ LineOK'
    BY <1>3, <2>2 DEF IInv, TypeOK, ThreadOK, LineOK
  <2>4. ChannelsOK'
    BY <1>2, <1>3 DEF IInv, TypeOK, ChannelsOK
  <2> QED BY <2>1, <2>3, <2>4 DEF TypeOK
<1>5. mine => \E i \in Places' : Answer(i)'
  <2>1. mine => new \in Places' /\ replies'[new].live /\ replies'[new].step # "progress"
    BY <1>1, <1>2
  <2> QED BY <2>1 DEF Answer
<1>6. Heard' => Heard \/ mine
  BY <1>2 DEF Heard
<1>7. \A i \in Places : i \in Nat /\ i <= new
  BY <1>2 DEF Places
<1> HIDE DEF new
<1>8. \A i \in Places : i \in Places' /\ (Answer(i)' <=> Answer(i))
  BY <1>2 DEF Answer
<1>9. OneTransfer'
  <2>1. \A i, j \in Places' : Answer(i)' /\ replies'[j].live => j <= i
    <3> SUFFICES ASSUME NEW i \in Places', NEW j \in Places', Answer(i)', replies'[j].live
                 PROVE  j <= i
      OBVIOUS
    <3>1. CASE i = new
      BY <1>2, <1>7, <3>1 DEF new
    <3>2. CASE i # new
      <4>1. i \in Places /\ Answer(i) /\ ~ mine
        BY <1>2, <1>8, <3>2 DEF IInv, OneTransfer
      <4>2. j \in Places /\ replies[j].live
        BY <1>2, <4>1
      <4> QED BY <4>1, <4>2 DEF IInv, OneTransfer
    <3> QED BY <3>1, <3>2
  <2>2. Asking' <=> Asking
    BY <1>3 DEF Asking
  <2> QED BY <1>3, <1>6, <2>1, <2>2 DEF IInv, OneTransfer
<1>10. InStep'
  <2>1. ASSUME NEW k \in Places', replies'[k].live, replies'[k].step = "done"
        PROVE  Told(Chunks, k)'
    <3>1. CASE k = new
      <4>1. Told(Chunks, new)
        BY <1>2, <1>3, <2>1, <3>1 DEF IInv, InStep, new
      <4> QED BY <1>2, <1>3, <3>1, <4>1, ToldStays
    <3>2. CASE k # new
      <4>1. k \in Places /\ Told(Chunks, k)
        BY <1>2, <2>1, <3>2 DEF IInv, InStep
      <4> QED BY <1>2, <1>3, <4>1, ToldStays
    <3> QED BY <3>1, <3>2
  <2> QED BY <1>3, <2>1 DEF InStep
<1>11. Awaited'
  BY <1>3, <1>5, <1>8 DEF IInv, Awaited, Asking
<1> QED BY <1>3, <1>4, <1>9, <1>10, <1>11 DEF IInv

-----------------------------------------------------------------------------
(* The theorem.                                                            *)

LEMMA StepKeeps == IInv /\ [Next]_vars => IInv'
<1> SUFFICES ASSUME IInv, [Next]_vars PROVE IInv' OBVIOUS
<1>1. CASE UNCHANGED vars
  <2>1. UNCHANGED <<wpc, moved, last, req, replies, mine, tpc, sent, outcome>>
    BY <1>1 DEF vars, workerVars, threadVars
  <2>2. WorkerOK' /\ ChannelsOK'
    BY <1>1 DEF vars, workerVars, counters, IInv, TypeOK, WorkerOK, ChannelsOK
  <2>3. ThreadOK' /\ LineOK'
    BY <1>1 DEF vars, threadVars, lineVars, IInv, TypeOK, ThreadOK, LineOK
  <2> QED BY <2>1, <2>2, <2>3, Aside DEF TypeOK, IInv, OneTransfer, InStep
<1>2. CASE Event \/ Receive \/ Deadline \/ Age \/ GiveUp
  BY <1>2, EventKeeps, ReceiveKeeps, DeadlineKeeps, AgeKeeps, GiveUpKeeps
<1>3. CASE Thread
  BY <1>3, TakeJobKeeps, HealKeeps, KnockKeeps, CutKeeps, TickKeeps, ReportKeeps DEF Thread
<1>4. CASE Deliver \/ Refuse
  BY <1>4, ChunkKeeps, CompleteKeeps, RefuseKeeps DEF Deliver
<1>5. CASE Notify \/ PeerChanges
  BY <1>5, NotifyKeeps, PeerChangesKeeps
<1> QED BY <1>1, <1>2, <1>3, <1>4, <1>5 DEF Next

\* In the worker's wait for content and the fetch thread's loop (daemon.rs:385-657, remote.rs:228-399):
\* with any bound on either channel and whatever becomes of the daemon, a worker that waits has
\* its transfer somewhere where an end will be reported of it, and a transfer that came to its
\* end is never refused as short.
THEOREM Waits == Spec => []NeverWaitsForNothing
BY InitIInv, StepKeeps, IsNeverWaits, PTL DEF Spec

=============================================================================

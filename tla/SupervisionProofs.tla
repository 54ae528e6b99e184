------------------------- MODULE SupervisionProofs -------------------------
(* Proofs about Supervision, for any number of readers and any batch size. *)
EXTENDS Supervision, SequenceTheorems, TLAPS

-----------------------------------------------------------------------------
(* The inductive invariant. *)

\* The worker publishes exactly the event at the head of its batch, for exactly
\* as long as it handles it; the numbers of a batch are different.
WorkerInv ==
  /\ wpc = "poll" <=> batch = << >>
  /\ wpc \in {"filling", "answered"} => slot = Head(batch)
  /\ wpc \in {"poll", "next"} => slot = NoFd
  /\ \A i, j \in DOMAIN batch : i # j => batch[i] # batch[j]

\* Whose answer was not lost is one of the batch, alone under its number, and
\* not of the part that has been answered.
DeliveredInv ==
  /\ \A r \in Readers \ unheard : fdOf[r] # NoFd => fdOf[r] \in Range(batch)
  /\ \A r, q \in Readers \ unheard : r # q /\ fdOf[r] # NoFd => fdOf[r] # fdOf[q]
  /\ wpc = "answered" => \A r \in Readers \ unheard : fdOf[r] # Head(batch)

\* A queued event has not been delivered, and is queued once.
QueueInv ==
  /\ \A i \in DOMAIN queue : fdOf[queue[i]] = NoFd /\ reader[queue[i]] = "waiting"
  /\ \A i, j \in DOMAIN queue : i # j => queue[i] # queue[j]

\* Once the supervisor has done with the worker, nothing of it runs; once it has
\* answered for the slot, only lost answers are owed under the slot's number.
TakeoverInv ==
  /\ sup \notin {"watch", "kill"} => child = "dead"
  /\ sup \in {"answered", "drain", "silent", "leaving"} =>
       \A r \in Readers \ unheard : fdOf[r] # NoFd => fdOf[r] # slot

\* Who waits is on the marked mount, and queued or known by a number; a lost
\* answer is somebody's who still waits.
WaitingInv ==
  \A r \in Readers :
    /\ fdOf[r] # NoFd => reader[r] = "waiting"
    /\ reader[r] = "waiting" => via[r] = "marked"
    /\ reader[r] = "waiting" /\ fdOf[r] = NoFd => r \in Range(queue)
    /\ r \in unheard => fdOf[r] # NoFd

\* What is queued when a drain ends quietly was asked after its last look.
DrainInv ==
  /\ sup \in {"silent", "leaving"} /\ verdict # "busy" /\ ~ faulty =>
       Range(queue) \subseteq late
  /\ sup \notin {"leaving", "exited"} => verdict = "none"

\* The marked mount is reached after the detach only by who had a file open on
\* it, unless everybody may.
ReachInv ==
  /\ reach = Readers \/ mounts = << >>
  /\ \A r \in Readers : via[r] = "marked" => r \in reach
  /\ mounts \in {<<"marked">>, <<"other", "marked">>, <<"other">>, << >>}

IInv ==
  /\ TypeOK /\ WorkerInv /\ DeliveredInv /\ QueueInv /\ TakeoverInv /\ WaitingInv
  /\ DrainInv /\ ReachInv

-----------------------------------------------------------------------------
(* Facts about sequences: what Tail, SubSeq and Append do to the elements. *)

\* Taking the head off a sequence without repetitions takes exactly that
\* element away.
LEMMA RangeTail ==
  ASSUME NEW S, NEW s \in Seq(S), s # << >>,
         \A i, j \in DOMAIN s : i # j => s[i] # s[j]
  PROVE  /\ Head(s) \in S /\ Tail(s) \in Seq(S)
         /\ Range(Tail(s)) = Range(s) \ {Head(s)}
         /\ \A i, j \in DOMAIN Tail(s) : i # j => Tail(s)[i] # Tail(s)[j]
         /\ Tail(s) = << >> <=> Len(s) = 1
<1>1. /\ Head(s) \in S /\ Tail(s) \in Seq(S)
      /\ Len(Tail(s)) = Len(s) - 1
      /\ \A i \in 1 .. Len(Tail(s)) : Tail(s)[i] = s[i+1]
  BY HeadTailProperties
<1>2. Len(s) \in Nat \ {0} /\ DOMAIN s = 1 .. Len(s) /\ Head(s) = s[1]
  BY LenProperties, EmptySeq
<1>3. DOMAIN Tail(s) = 1 .. (Len(s) - 1)
  BY <1>1, LenProperties
<1>4. Range(Tail(s)) \subseteq Range(s) \ {Head(s)}
  BY <1>1, <1>2, <1>3 DEF Range
<1>5. ASSUME NEW x \in Range(s) \ {Head(s)} PROVE x \in Range(Tail(s))
  <2>1. PICK i \in 1 .. Len(s) : x = s[i]
    BY <1>2 DEF Range
  <2>2. i # 1 /\ i - 1 \in 1 .. (Len(s) - 1) /\ (i - 1) + 1 = i
    BY <1>2, <2>1
  <2> QED BY <1>1, <1>3, <2>1, <2>2 DEF Range
<1>6. \A i, j \in DOMAIN Tail(s) : i # j => Tail(s)[i] # Tail(s)[j]
  BY <1>1, <1>2, <1>3
<1>7. Tail(s) = << >> <=> Len(s) = 1
  BY <1>1, <1>2, EmptySeq
<1> QED BY <1>1, <1>4, <1>5, <1>6, <1>7

\* Appending leaves the sequence as it was and adds one element at the end.
LEMMA AppendIs ==
  ASSUME NEW S, NEW s \in Seq(S), NEW e \in S
  PROVE  /\ Append(s, e) \in Seq(S)
         /\ DOMAIN s = 1 .. Len(s) /\ Len(s) \in Nat
         /\ DOMAIN Append(s, e) = 1 .. (Len(s) + 1)
         /\ \A i \in 1 .. Len(s) : Append(s, e)[i] = s[i]
         /\ Append(s, e)[Len(s) + 1] = e
<1>1. Append(s, e) \in Seq(S) /\ Len(Append(s, e)) = Len(s) + 1
  BY AppendProperties
<1>2. DOMAIN s = 1 .. Len(s) /\ Len(s) \in Nat
  BY LenProperties
<1>3. DOMAIN Append(s, e) = 1 .. (Len(s) + 1)
  BY <1>1, LenProperties
<1>4. /\ \A i \in 1 .. Len(s) : Append(s, e)[i] = s[i]
      /\ Append(s, e)[Len(s) + 1] = e
  BY AppendProperties
<1> QED BY <1>1, <1>2, <1>3, <1>4

-----------------------------------------------------------------------------
(* The invariant holds initially and is preserved by every action. *)

\* Before anybody has read, the invariant holds of the empty queue and batch.
LEMMA InitIInv == Init => IInv
<1> SUFFICES ASSUME Init PROVE IInv OBVIOUS
<1> USE DEF Init
<1>1. TypeOK
  <2>1. mounts \in Seq(Mounts)
    BY DEF Mounts
  <2>2. queue \in Seq(Readers) /\ batch \in Seq(Fds)
    BY EmptySeq
  <2> QED BY <2>1, <2>2 DEF TypeOK
<1>2. WorkerInv /\ DeliveredInv /\ QueueInv
  BY EmptySeq DEF WorkerInv, DeliveredInv, QueueInv
<1>3. TakeoverInv /\ WaitingInv /\ DrainInv /\ ReachInv
  BY DEF TakeoverInv, WaitingInv, DrainInv, ReachInv
<1> QED BY <1>1, <1>2, <1>3 DEF IInv

\* The readers' and the mounts' administrator's steps.
LEMMA ReaderStep ==
  ASSUME IInv, NEW r \in Readers, Open(r) \/ Read(r) PROVE IInv'
<1> USE DEF IInv
<1>1. CASE Open(r)
  <2> USE <1>1 DEF Open, workerVars, supVars
  <2>1. Top \in Mounts /\ (Top = "marked" => reach = Readers)
    BY HeadTailProperties DEF TypeOK, Top, ReachInv
  <2>2. TypeOK'
    BY <2>1 DEF TypeOK
  <2>3. WorkerInv' /\ DeliveredInv' /\ QueueInv' /\ TakeoverInv' /\ DrainInv'
    BY DEF WorkerInv, DeliveredInv, QueueInv, TakeoverInv, DrainInv
  <2>4. WaitingInv'
    BY DEF TypeOK, WaitingInv
  <2>5. ReachInv'
    BY <2>1 DEF TypeOK, ReachInv
  <2> QED BY <2>2, <2>3, <2>4, <2>5
<1>2. CASE Read(r)
  <2> USE <1>2 DEF Read, workerVars, supVars
  <2>1. r \notin unheard /\ fdOf[r] = NoFd
    BY DEF WaitingInv
  <2>2. late \subseteq late' /\ late' \subseteq Readers /\ (sup \in {"silent", "leaving"} => r \in late')
    BY DEF TypeOK
  <2>3. CASE via[r] = "marked" /\ GroupOpen
    <3>1. /\ queue' \in Seq(Readers)
          /\ DOMAIN queue' = 1 .. (Len(queue) + 1)
          /\ DOMAIN queue = 1 .. Len(queue) /\ Len(queue) \in Nat
          /\ \A i \in 1 .. Len(queue) : queue'[i] = queue[i]
          /\ queue'[Len(queue) + 1] = r
      <4>1. queue \in Seq(Readers) /\ queue' = Append(queue, r)
        BY <2>3 DEF TypeOK
      <4> QED BY <4>1, AppendIs
    <3>2. \A i \in DOMAIN queue : queue[i] # r
      BY DEF QueueInv
    <3>3. reader' = [reader EXCEPT ![r] = "waiting"]
      BY <2>3
    <3>4. TypeOK'
      BY <2>2, <3>1, <3>3 DEF TypeOK
    <3>5. QueueInv'
      <4>1. ASSUME NEW i \in DOMAIN queue'
            PROVE  fdOf'[queue'[i]] = NoFd /\ reader'[queue'[i]] = "waiting"
        <5>1. i \in DOMAIN queue \/ i = Len(queue) + 1
          BY <3>1
        <5> QED BY <2>1, <3>1, <3>3, <5>1 DEF QueueInv, TypeOK
      <4>2. ASSUME NEW i \in DOMAIN queue', NEW j \in DOMAIN queue', i # j
            PROVE  queue'[i] # queue'[j]
        <5>1. \/ i \in DOMAIN queue /\ j \in DOMAIN queue
              \/ i \in DOMAIN queue /\ j = Len(queue) + 1
              \/ i = Len(queue) + 1 /\ j \in DOMAIN queue
          BY <3>1, <4>2
        <5> QED BY <3>1, <3>2, <4>2, <5>1 DEF QueueInv
      <4> QED BY <4>1, <4>2 DEF QueueInv
    <3>6. Range(queue') = Range(queue) \cup {r}
      <4>1. ASSUME NEW i \in DOMAIN queue' PROVE queue'[i] \in Range(queue) \cup {r}
        BY <3>1 DEF Range
      <4>2. ASSUME NEW i \in DOMAIN queue PROVE queue[i] \in Range(queue')
        BY <3>1 DEF Range
      <4>3. Len(queue) + 1 \in DOMAIN queue'
        BY <3>1
      <4>4. r \in Range(queue')
        BY <3>1, <4>3 DEF Range
      <4> QED BY <4>1, <4>2, <4>4 DEF Range
    <3>7. WorkerInv' /\ DeliveredInv' /\ TakeoverInv' /\ ReachInv'
      BY DEF WorkerInv, DeliveredInv, TakeoverInv, ReachInv
    <3>8. WaitingInv'
      BY <2>1, <2>3, <3>3, <3>6 DEF WaitingInv, TypeOK
    <3>9. DrainInv'
      BY <2>2, <3>6 DEF DrainInv
    <3> QED BY <3>4, <3>5, <3>7, <3>8, <3>9
  <2>4. CASE ~(via[r] = "marked" /\ GroupOpen)
    <3>1. reader' = [reader EXCEPT ![r] = "zeros"] /\ queue' = queue
      BY <2>4
    <3>2. TypeOK'
      BY <2>2, <3>1 DEF TypeOK
    <3>3. QueueInv'
      BY <3>1 DEF QueueInv, TypeOK
    <3>4. WorkerInv' /\ DeliveredInv' /\ TakeoverInv' /\ ReachInv'
      BY DEF WorkerInv, DeliveredInv, TakeoverInv, ReachInv
    <3>5. WaitingInv' /\ DrainInv'
      BY <2>1, <2>2, <3>1 DEF WaitingInv, TypeOK, DrainInv
    <3> QED BY <3>2, <3>3, <3>4, <3>5
  <2> QED BY <2>3, <2>4
<1> QED BY <1>1, <1>2

\* What happens to the mounts changes no event.
LEMMA RemountStep ==
  ASSUME IInv, Remount PROVE IInv'
<1> USE DEF IInv, Remount, readerVars, workerVars, supVars
<1>1. TypeOK'
  <2>1. mounts' \in Seq(Mounts)
    <3>1. CASE mounts' = << >>
      BY <3>1, EmptySeq
    <3>2. CASE mounts' = <<"other">>
      BY <3>2 DEF Mounts
    <3>3. CASE mounts' = <<"other", "marked">>
      BY <3>3 DEF Mounts
    <3> QED BY <3>1, <3>2, <3>3
  <2> QED BY <2>1 DEF TypeOK
<1>2. WorkerInv' /\ DeliveredInv' /\ QueueInv' /\ TakeoverInv' /\ WaitingInv' /\ DrainInv'
  BY DEF WorkerInv, DeliveredInv, QueueInv, TakeoverInv, WaitingInv, DrainInv
<1>3. ReachInv'
  <2>1. mounts # << >>
    BY EmptySeq
  <2> QED BY <2>1 DEF ReachInv
<1> QED BY <1>1, <1>2, <1>3

\* Answering a number from the batch answers one reader known by it, and leaves
\* under it only readers whose answer was lost.
LEMMA RespondStep ==
  ASSUME IInv, NEW f \in Fds, NEW answer \in {"served", "denied"}, Respond(f, answer),
         via' = via, queue' = queue
  PROVE  /\ reader' \in [Readers -> {"idle", "waiting", "served", "denied", "zeros"}]
         /\ fdOf' \in [Readers -> Fds \cup {NoFd}]
         /\ unheard' \subseteq Readers
         /\ \A r \in Readers : fdOf'[r] # NoFd => fdOf'[r] = fdOf[r]
         /\ \A r \in Readers : fdOf'[r] # NoFd /\ r \in unheard => r \in unheard'
         /\ \A r \in Readers \ unheard' : fdOf'[r] # f
         /\ QueueInv' /\ WaitingInv'
<1> USE NoFdAssumption DEF IInv
<1>1. CASE \E r \in Under(f) :
             /\ reader' = [reader EXCEPT ![r] = answer]
             /\ fdOf' = [fdOf EXCEPT ![r] = NoFd]
             /\ unheard' = IF r \in unheard THEN (unheard \cup Under(f)) \ {r} ELSE unheard
  <2>1. PICK r \in Readers :
          /\ fdOf[r] = f
          /\ reader' = [reader EXCEPT ![r] = answer]
          /\ fdOf' = [fdOf EXCEPT ![r] = NoFd]
          /\ unheard' = IF r \in unheard THEN (unheard \cup Under(f)) \ {r} ELSE unheard
    BY <1>1 DEF Under
  <2>2. /\ reader' \in [Readers -> {"idle", "waiting", "served", "denied", "zeros"}]
        /\ fdOf' \in [Readers -> Fds \cup {NoFd}]
        /\ unheard' \subseteq Readers
    BY <2>1 DEF TypeOK, Under
  <2>3. /\ fdOf'[r] = NoFd /\ reader'[r] = answer
        /\ \A q \in Readers \ {r} : fdOf'[q] = fdOf[q] /\ reader'[q] = reader[q]
    BY <2>1 DEF TypeOK
  <2>4. ASSUME NEW q \in Readers \ unheard', fdOf'[q] = f PROVE FALSE
    <3>1. q # r /\ fdOf[q] = f
      BY <2>3, <2>4
    <3>2. CASE r \in unheard
      BY <2>1, <2>4, <3>1, <3>2 DEF Under
    <3>3. CASE r \notin unheard
      BY <2>1, <2>4, <3>1, <3>3 DEF DeliveredInv
    <3> QED BY <3>2, <3>3
  <2>5. QueueInv'
    <3>1. \A i \in DOMAIN queue : queue[i] \in Readers
      BY LenProperties, ElementOfSeq DEF TypeOK
    <3> QED BY <2>1, <3>1 DEF QueueInv, TypeOK
  <2>6. WaitingInv'
    <3>1. \A q \in Readers : q \in unheard' => q # r /\ fdOf[q] # NoFd
      BY <2>1 DEF WaitingInv, Under
    <3> QED BY <2>1, <2>3, <3>1 DEF WaitingInv
  <2>7. \A q \in Readers : fdOf'[q] # NoFd /\ q \in unheard => q \in unheard'
    BY <2>1, <2>3
  <2> QED BY <2>2, <2>3, <2>4, <2>5, <2>6, <2>7
<1>2. CASE unheard' = unheard \cup Under(f) /\ UNCHANGED <<reader, fdOf>>
  <2>1. unheard' \subseteq Readers /\ \A q \in Readers \ unheard' : fdOf'[q] # f
    BY <1>2 DEF TypeOK, Under
  <2>2. WaitingInv'
    BY <1>2 DEF WaitingInv, Under
  <2> QED BY <1>2, <2>1, <2>2 DEF TypeOK, QueueInv
<1> QED BY <1>1, <1>2 DEF Respond

\* A buffer moves a prefix of the queue into the batch, one reader to each number.
LEMMA WorkerReadStep ==
  ASSUME IInv, WorkerRead PROVE IInv'
<1> USE NoFdAssumption, BufferAssumption DEF IInv
<1> DEFINE n == IF Len(queue) < BufferEvents THEN Len(queue) ELSE BufferEvents
<1>1. /\ Len(queue) \in Nat \ {0} /\ DOMAIN queue = 1 .. Len(queue)
      /\ \A i \in 1 .. Len(queue) : queue[i] \in Readers
  BY LenProperties, EmptySeq, ElementOfSeq DEF TypeOK, WorkerRead
<1>2. n \in 1 .. Len(queue)
  BY <1>1
<1>3. PICK fds \in [1 .. n -> Fds] :
        /\ \A i, j \in 1 .. n : i # j => fds[i] # fds[j]
        /\ batch' = fds
        /\ fdOf' = [r \in Readers |->
                      IF \E i \in 1 .. n : queue[i] = r
                        THEN fds[CHOOSE i \in 1 .. n : queue[i] = r]
                        ELSE fdOf[r]]
  BY DEF WorkerRead
<1>4. /\ child = "up" /\ wpc = "poll" /\ wpc' = "next"
      /\ queue' = SubSeq(queue, n + 1, Len(queue))
      /\ UNCHANGED <<reader, via, mounts, slot, child, supVars, unheard, late, reach>>
  BY DEF WorkerRead, readerVars
<1> HIDE DEF n
<1>5. /\ queue' \in Seq(Readers)
      /\ DOMAIN queue' = 1 .. (Len(queue) - n)
      /\ \A i \in 1 .. (Len(queue) - n) : queue'[i] = queue[n + i]
  <2>1. \A i \in n + 1 .. Len(queue) : queue[i] \in Readers
    BY <1>1, <1>2
  <2>2. n + 1 \in Int /\ Len(queue) \in Int
    BY <1>1, <1>2
  <2>3. /\ queue' \in Seq(Readers)
        /\ Len(queue') = IF n + 1 <= Len(queue) THEN Len(queue) - (n + 1) + 1 ELSE 0
        /\ \A i \in 1 .. Len(queue) - (n + 1) + 1 : queue'[i] = queue[n + 1 + i - 1]
    BY <1>4, <2>1, <2>2, SubSeqProperties
  <2>4. Len(queue') = Len(queue) - n
    <3>1. CASE n = Len(queue)
      BY <1>1, <2>3, <3>1
    <3>2. CASE n + 1 <= Len(queue)
      <4>1. Len(queue) - (n + 1) + 1 = Len(queue) - n
        BY <1>1, <1>2
      <4>2. Len(queue') = Len(queue) - (n + 1) + 1
        BY ONLY <2>3, <3>2
      <4> QED BY <4>1, <4>2
    <3>3. \A l \in Nat : \A m \in 1 .. l : m = l \/ m + 1 <= l
      OBVIOUS
    <3>4. n = Len(queue) \/ n + 1 <= Len(queue)
      BY <1>1, <1>2, <3>3
    <3> QED BY <3>1, <3>2, <3>4
  <2>5. DOMAIN queue' = 1 .. (Len(queue) - n)
    BY <2>3, <2>4, LenProperties
  <2>6. ASSUME NEW i \in 1 .. (Len(queue) - n) PROVE queue'[i] = queue[n + i]
    <3>1. /\ n + 1 + i - 1 = n + i
          /\ i \in 1 .. Len(queue) - (n + 1) + 1
      BY <1>1, <1>2
    <3> QED BY <2>3, <3>1
  <2> QED BY <2>3, <2>5, <2>6
<1>6. batch' \in Seq(Fds) /\ Len(batch') = n /\ DOMAIN batch' = 1 .. n /\ batch' # << >>
  <2>1. batch' \in Seq(Fds)
    BY <1>2, <1>3, SeqDef
  <2> QED BY <1>2, <1>3, <2>1, LenProperties, EmptySeq
<1>7. \A r \in Readers \ unheard : fdOf[r] = NoFd
  BY <1>4 DEF WorkerInv, DeliveredInv, Range
<1>8. ASSUME NEW i \in 1 .. n PROVE fdOf'[queue[i]] = fds[i]
  <2>1. queue[i] \in Readers
    BY <1>1, <1>2
  <2>2. \A j \in 1 .. n : queue[j] = queue[i] => j = i
    BY <1>1, <1>2 DEF QueueInv
  <2>3. (CHOOSE j \in 1 .. n : queue[j] = queue[i]) = i
    BY <2>2
  <2> QED BY <1>3, <2>1, <2>3
<1>9. ASSUME NEW r \in Readers, \A i \in 1 .. n : queue[i] # r PROVE fdOf'[r] = fdOf[r]
  BY <1>3, <1>9
<1>10. fdOf' \in [Readers -> Fds \cup {NoFd}]
  <2>1. ASSUME NEW r \in Readers PROVE fdOf'[r] \in Fds \cup {NoFd}
    <3>1. CASE \E i \in 1 .. n : queue[i] = r
      BY <1>3, <1>8, <3>1
    <3> QED BY <1>9, <3>1 DEF TypeOK
  <2> QED BY <1>3, <2>1
<1>11. TypeOK'
  BY <1>4, <1>5, <1>6, <1>10 DEF TypeOK, supVars
<1>12. WorkerInv'
  BY <1>3, <1>4, <1>6 DEF WorkerInv
<1>13. DeliveredInv'
  <2>1. ASSUME NEW r \in Readers \ unheard, fdOf'[r] # NoFd
        PROVE  \E i \in 1 .. n : queue[i] = r /\ fdOf'[r] = fds[i]
    BY <1>7, <1>8, <1>9, <2>1
  <2>2. \A r \in Readers \ unheard : fdOf'[r] # NoFd => fdOf'[r] \in Range(batch')
    <3>1. \A i \in 1 .. n : fds[i] \in Range(batch')
      BY <1>3, <1>6 DEF Range
    <3> QED BY <2>1, <3>1
  <2>3. ASSUME NEW r \in Readers \ unheard, NEW q \in Readers \ unheard, r # q,
               fdOf'[r] # NoFd
        PROVE  fdOf'[r] # fdOf'[q]
    <3>1. PICK i \in 1 .. n : queue[i] = r /\ fdOf'[r] = fds[i]
      BY <2>1, <2>3
    <3>2. CASE fdOf'[q] = NoFd
      BY <2>3, <3>2
    <3>3. CASE fdOf'[q] # NoFd
      <4>1. PICK j \in 1 .. n : queue[j] = q /\ fdOf'[q] = fds[j]
        BY <2>1, <3>3
      <4> QED BY <1>3, <2>3, <3>1, <4>1
    <3> QED BY <3>2, <3>3
  <2> QED BY <1>4, <2>2, <2>3 DEF DeliveredInv
<1>14. QueueInv'
  <2>1. ASSUME NEW i \in DOMAIN queue'
        PROVE  /\ n + i \in DOMAIN queue /\ queue'[i] = queue[n + i]
               /\ \A k \in 1 .. n : k # n + i
    BY <1>1, <1>2, <1>5
  <2>2. ASSUME NEW i \in DOMAIN queue'
        PROVE  fdOf'[queue'[i]] = NoFd /\ reader'[queue'[i]] = "waiting"
    <3>1. /\ queue[n + i] \in Readers /\ \A k \in 1 .. n : queue[k] # queue[n + i]
          /\ fdOf'[queue[n + i]] = fdOf[queue[n + i]]
      BY <1>1, <1>2, <1>9, <2>1 DEF QueueInv
    <3> QED BY <1>4, <1>9, <2>1, <3>1 DEF QueueInv
  <2>3. ASSUME NEW i \in DOMAIN queue', NEW j \in DOMAIN queue', i # j
        PROVE  queue'[i] # queue'[j]
    <3>1. n + i # n + j
      BY <1>1, <1>2, <1>5, <2>3
    <3> QED BY <2>1, <3>1 DEF QueueInv
  <2> QED BY <2>2, <2>3 DEF QueueInv
<1>15. TakeoverInv'
  BY <1>4 DEF TakeoverInv, supVars
<1>16. WaitingInv'
  <2>1. ASSUME NEW r \in Readers, \E i \in 1 .. n : queue[i] = r
        PROVE  reader[r] = "waiting" /\ fdOf'[r] # NoFd
    <3>1. PICK i \in 1 .. n : queue[i] = r
      BY <2>1
    <3> QED BY <1>1, <1>2, <1>8, <3>1 DEF QueueInv
  <2>2. ASSUME NEW r \in Readers, r \in Range(queue), ~ \E i \in 1 .. n : queue[i] = r
        PROVE  r \in Range(queue')
    <3>1. PICK i \in 1 .. Len(queue) : queue[i] = r
      BY <1>1, <2>2 DEF Range
    <3>2. i \notin 1 .. n
      BY <2>2, <3>1
    <3>3. i - n \in 1 .. (Len(queue) - n) /\ n + (i - n) = i
      BY <1>1, <1>2, <3>2
    <3> QED BY <1>5, <3>1, <3>3 DEF Range
  <2>3. ASSUME NEW r \in Readers
        PROVE  /\ fdOf'[r] # NoFd => reader'[r] = "waiting"
               /\ reader'[r] = "waiting" => via'[r] = "marked"
               /\ reader'[r] = "waiting" /\ fdOf'[r] = NoFd => r \in Range(queue')
               /\ r \in unheard' => fdOf'[r] # NoFd
    BY <1>4, <1>9, <2>1, <2>2 DEF WaitingInv
  <2> QED BY <2>3 DEF WaitingInv
<1>17. DrainInv' /\ ReachInv'
  <2>1. \A r \in Readers \cup Range(queue') : r \in Range(queue') => r \in Range(queue)
    BY <1>1, <1>2, <1>5 DEF Range
  <2> QED BY <1>4, <2>1 DEF DrainInv, ReachInv, supVars
<1> QED BY <1>11, <1>12, <1>13, <1>14, <1>15, <1>16, <1>17

\* Publishing makes the slot the head of the batch.
LEMMA HoldingStep ==
  ASSUME IInv, Holding PROVE IInv'
<1> USE DEF IInv, Holding, readerVars, supVars
<1>1. Head(batch) \in Fds
  BY HeadTailProperties DEF TypeOK
<1>2. TypeOK'
  BY <1>1 DEF TypeOK
<1>3. WorkerInv' /\ DeliveredInv' /\ QueueInv'
  BY DEF WorkerInv, DeliveredInv, QueueInv
<1>4. TakeoverInv' /\ WaitingInv' /\ DrainInv' /\ ReachInv'
  BY DEF TakeoverInv, WaitingInv, DrainInv, ReachInv
<1> QED BY <1>2, <1>3, <1>4

\* The answer is for the reader of the published event, or it is lost.
LEMMA AnswerStep ==
  ASSUME IInv, Answer PROVE IInv'
<1> USE NoFdAssumption DEF IInv
<1>1. /\ child = "up" /\ wpc = "filling" /\ wpc' = "answered"
      /\ UNCHANGED <<via, mounts, queue, batch, slot, child, supVars, late, reach>>
  BY DEF Answer
<1>2. PICK answer \in {"served", "denied"} : Respond(Head(batch), answer)
  BY DEF Answer
<1>3. Head(batch) \in Fds
  BY <1>1, HeadTailProperties DEF TypeOK, WorkerInv
<1>4. /\ reader' \in [Readers -> {"idle", "waiting", "served", "denied", "zeros"}]
      /\ fdOf' \in [Readers -> Fds \cup {NoFd}]
      /\ unheard' \subseteq Readers
      /\ \A r \in Readers : fdOf'[r] # NoFd => fdOf'[r] = fdOf[r]
      /\ \A r \in Readers : fdOf'[r] # NoFd /\ r \in unheard => r \in unheard'
      /\ \A r \in Readers \ unheard' : fdOf'[r] # Head(batch)
      /\ QueueInv' /\ WaitingInv'
  BY <1>1, <1>2, <1>3, RespondStep
<1>5. TypeOK' /\ WorkerInv'
  BY <1>1, <1>4 DEF TypeOK, WorkerInv, supVars
<1>6. DeliveredInv'
  BY <1>1, <1>4 DEF DeliveredInv
<1>7. TakeoverInv' /\ DrainInv' /\ ReachInv'
  BY <1>1, <1>4 DEF TakeoverInv, DrainInv, ReachInv, supVars
<1> QED BY <1>4, <1>5, <1>6, <1>7

\* Releasing takes the answered event, and only it, off the batch.
LEMMA ReleasedStep ==
  ASSUME IInv, Released PROVE IInv'
<1> USE NoFdAssumption DEF IInv, Released, readerVars, supVars
<1>1. /\ Head(batch) \in Fds /\ Tail(batch) \in Seq(Fds)
      /\ Range(Tail(batch)) = Range(batch) \ {Head(batch)}
      /\ \A i, j \in DOMAIN Tail(batch) : i # j => Tail(batch)[i] # Tail(batch)[j]
      /\ Tail(batch) = << >> <=> Len(batch) = 1
  <2>1. batch \in Seq(Fds) /\ batch # << >>
    BY DEF TypeOK, WorkerInv
  <2>2. \A i, j \in DOMAIN batch : i # j => batch[i] # batch[j]
    BY DEF WorkerInv
  <2> QED BY <2>1, <2>2, RangeTail
<1>2. TypeOK' /\ WorkerInv'
  BY <1>1 DEF TypeOK, WorkerInv
<1>3. DeliveredInv'
  BY <1>1 DEF DeliveredInv
<1>4. QueueInv' /\ WaitingInv'
  BY DEF QueueInv, WaitingInv
<1>5. TakeoverInv' /\ DrainInv' /\ ReachInv'
  BY DEF TakeoverInv, DrainInv, ReachInv
<1> QED BY <1>2, <1>3, <1>4, <1>5

\* Sticking, coming back, crashing and giving up change the process only.
LEMMA ChildStep ==
  ASSUME IInv, Stick \/ Unstick \/ Die \/ GiveUp PROVE IInv'
<1>1. /\ child' \in {"up", "stuck", "dead"}
      /\ sup \notin {"watch", "kill"} /\ child = "dead" => child' = "dead"
      /\ UNCHANGED <<reader, via, mounts, queue, fdOf, batch, slot, wpc, supVars,
                     unheard, late, reach>>
  BY DEF Stick, Unstick, Die, GiveUp, readerVars
<1> QED
  BY <1>1 DEF IInv, TypeOK, WorkerInv, DeliveredInv, QueueInv, TakeoverInv,
              WaitingInv, DrainInv, ReachInv, supVars

\* The supervisor's own changes of mind, the kill and the end of the drain.
LEMMA DecideStep ==
  ASSUME IInv,
         NoticeDeath \/ NoticeStall \/ NoticeUnmarked \/ Kill \/ DrainLook \/ DrainQuiet
           \/ DrainCap \/ DrainFault
  PROVE  IInv'
<1>1. /\ UNCHANGED <<reader, via, mounts, queue, fdOf, batch, slot, wpc, known,
                     unheard, late, reach>>
      /\ child' \in {"up", "stuck", "dead"}
      /\ sup' \in {"gone", "kill", "drain", "silent", "leaving"}
      /\ sup \notin {"leaving", "exited"}
      /\ verdict' \in {"none", "quiet", "busy"} /\ faulty' \in BOOLEAN
      /\ sup' # "kill" /\ sup \notin {"drain", "silent"} => child' = "dead"
      /\ sup \in {"drain", "silent"} => child' = child
      /\ sup' \in {"drain", "silent", "leaving"} => sup \in {"drain", "silent"}
      /\ sup' # "leaving" => verdict' = verdict
      /\ sup' \in {"silent", "leaving"} /\ verdict' # "busy" /\ ~ faulty' =>
           queue = << >> \/ (sup = "silent" /\ verdict # "busy" /\ ~ faulty)
  <2> USE DEF IInv, TypeOK, readerVars, workerVars
  <2>1. CASE NoticeDeath \/ NoticeStall \/ NoticeUnmarked \/ Kill
    BY <2>1 DEF NoticeDeath, NoticeStall, NoticeUnmarked, Kill
  <2>2. CASE DrainLook \/ DrainCap \/ DrainFault
    BY <2>2 DEF DrainLook, DrainCap, DrainFault
  <2>3. CASE DrainQuiet
    BY <2>3 DEF DrainQuiet, DrainInv
  <2> QED BY <2>1, <2>2, <2>3
<1>2. TypeOK' /\ WorkerInv' /\ DeliveredInv' /\ QueueInv' /\ WaitingInv' /\ ReachInv'
  BY <1>1 DEF IInv, TypeOK, WorkerInv, DeliveredInv, QueueInv, WaitingInv, ReachInv
<1>3. TakeoverInv'
  BY <1>1 DEF IInv, TakeoverInv
<1>4. DrainInv'
  <2>1. queue = << >> => Range(queue) = {}
    BY DEF Range
  <2> QED BY <1>1, <2>1 DEF IInv, DrainInv
<1> QED BY <1>2, <1>3, <1>4 DEF IInv

\* The takeover answers the published event of a worker that no longer runs.
LEMMA AnswerStrandedStep ==
  ASSUME IInv, AnswerStranded PROVE IInv'
<1> USE NoFdAssumption DEF IInv
<1>1. /\ sup = "gone" /\ sup' = "answered"
      /\ UNCHANGED <<via, mounts, queue, workerVars, known, verdict, faulty, late, reach>>
  BY DEF AnswerStranded
<1>2. CASE slot # NoFd
  <2>1. slot \in Fds /\ Respond(slot, "denied")
    BY <1>2 DEF AnswerStranded, TypeOK
  <2>2. /\ reader' \in [Readers -> {"idle", "waiting", "served", "denied", "zeros"}]
        /\ fdOf' \in [Readers -> Fds \cup {NoFd}]
        /\ unheard' \subseteq Readers
        /\ \A r \in Readers : fdOf'[r] # NoFd => fdOf'[r] = fdOf[r]
        /\ \A r \in Readers : fdOf'[r] # NoFd /\ r \in unheard => r \in unheard'
        /\ \A r \in Readers \ unheard' : fdOf'[r] # slot
        /\ QueueInv' /\ WaitingInv'
    BY <1>1, <2>1, RespondStep
  <2>3. TypeOK' /\ WorkerInv'
    BY <1>1, <2>2 DEF TypeOK, WorkerInv, workerVars
  <2>4. DeliveredInv'
    BY <1>1, <2>2 DEF DeliveredInv, WorkerInv, workerVars
  <2>5. TakeoverInv' /\ DrainInv' /\ ReachInv'
    BY <1>1, <2>2 DEF TakeoverInv, DrainInv, ReachInv, workerVars
  <2> QED BY <2>2, <2>3, <2>4, <2>5
<1>3. CASE slot = NoFd
  <2>1. UNCHANGED <<reader, fdOf, unheard>>
    BY <1>3 DEF AnswerStranded
  <2> QED
    BY <1>1, <1>3, <2>1 DEF TypeOK, WorkerInv, DeliveredInv, QueueInv, TakeoverInv,
                            WaitingInv, DrainInv, ReachInv, workerVars
<1> QED BY <1>2, <1>3

\* Detaching changes no event either; what is left of the marked mount is what
\* readers hold of it.
LEMMA DetachStep ==
  ASSUME IInv, Detach PROVE IInv'
<1> USE DEF IInv, Detach, readerVars, workerVars
<1>1. TypeOK'
  <2>1. mounts' = mounts \/ (mounts # << >> /\ mounts' = Tail(mounts))
    OBVIOUS
  <2>2. mounts' \in Seq(Mounts)
    BY <2>1, HeadTailProperties DEF TypeOK
  <2>3. reach' \subseteq Readers
    BY DEF TypeOK
  <2> QED BY <2>2, <2>3 DEF TypeOK
<1>2. WorkerInv' /\ DeliveredInv' /\ QueueInv' /\ TakeoverInv' /\ WaitingInv' /\ DrainInv'
  BY DEF WorkerInv, DeliveredInv, QueueInv, TakeoverInv, WaitingInv, DrainInv
<1>3. ReachInv'
  <2>1. CASE UNCHANGED <<mounts, reach>>
    BY <2>1 DEF ReachInv
  <2>2. CASE /\ mounts # << >> /\ mounts' = Tail(mounts)
             /\ reach' = IF Top = "marked" THEN {r \in Readers : via[r] = "marked"} ELSE reach
    <3>1. CASE mounts = <<"marked">>
      <4>1. mounts' = << >> /\ Top = "marked"
        BY <2>2, <3>1 DEF Top
      <4> QED BY <2>2, <4>1 DEF ReachInv
    <3>2. CASE mounts = <<"other", "marked">>
      <4>1. mounts' = <<"marked">> /\ Top = "other"
        BY <2>2, <3>2 DEF Top
      <4> QED BY <2>2, <3>2, <4>1 DEF ReachInv
    <3>3. CASE mounts = <<"other">>
      <4>1. mounts' = << >> /\ Top = "other"
        BY <2>2, <3>3 DEF Top
      <4> QED BY <2>2, <4>1 DEF ReachInv
    <3> QED BY <2>2, <3>1, <3>2, <3>3 DEF ReachInv
  <2> QED BY <2>1, <2>2
<1> QED BY <1>1, <1>2, <1>3

\* What the head of the queue is, and what is left when it is read.
LEMMA HeadOfQueue ==
  ASSUME IInv, queue # << >>
  PROVE  /\ Head(queue) \in Readers /\ Tail(queue) \in Seq(Readers)
         /\ Range(Tail(queue)) = Range(queue) \ {Head(queue)}
         /\ \A i, j \in DOMAIN Tail(queue) : i # j => Tail(queue)[i] # Tail(queue)[j]
         /\ Head(queue) \in Range(queue) /\ Range(queue) \subseteq Readers
         /\ \A q \in Range(queue) : fdOf[q] = NoFd /\ reader[q] = "waiting"
<1>1. queue \in Seq(Readers) /\ \A i, j \in DOMAIN queue : i # j => queue[i] # queue[j]
  BY DEF IInv, TypeOK, QueueInv
<1>2. Head(queue) = queue[1] /\ 1 \in DOMAIN queue
  BY <1>1, LenProperties, EmptySeq
<1>3. \A i \in DOMAIN queue : queue[i] \in Readers
  BY <1>1, LenProperties, ElementOfSeq
<1>4. Head(queue) \in Range(queue) /\ Range(queue) \subseteq Readers
  BY <1>2, <1>3 DEF Range
<1>5. \A q \in Range(queue) : fdOf[q] = NoFd /\ reader[q] = "waiting"
  BY DEF IInv, QueueInv, Range
<1> QED BY <1>1, <1>4, <1>5, RangeTail

\* Reusing a number moves the reader at the head of the queue into the place
\* of the one that is answered: no number gets a second reader.
LEMMA DrainDenyStep ==
  ASSUME IInv, DrainDeny PROVE IInv'
<1> USE NoFdAssumption DEF IInv
<1>1. /\ sup = "drain" /\ queue # << >> /\ queue' = Tail(queue)
      /\ UNCHANGED <<via, mounts, batch, slot, wpc, child, known, sup, verdict, faulty,
                     late, reach>>
  BY DEF DrainDeny, workerVars, supVars
<1> DEFINE h == Head(queue)
<1>2. PICK f \in Fds, r \in Readers :
        /\ r = h \/ fdOf[r] = f
        /\ reader' = [reader EXCEPT ![r] = "denied"]
        /\ fdOf' = [[fdOf EXCEPT ![h] = f] EXCEPT ![r] = NoFd]
        /\ unheard' = IF r \in unheard THEN (unheard \ {r}) \cup {h} ELSE unheard
  BY DEF DrainDeny, Under
<1>3. /\ h \in Readers /\ queue' \in Seq(Readers)
      /\ Range(queue') = Range(queue) \ {h}
      /\ \A i, j \in DOMAIN queue' : i # j => queue'[i] # queue'[j]
      /\ h \in Range(queue) /\ Range(queue) \subseteq Readers
      /\ \A q \in Range(queue) : fdOf[q] = NoFd /\ reader[q] = "waiting"
  BY <1>1, HeadOfQueue
<1> HIDE DEF h
<1>4. /\ \A q \in Readers \ {h, r} : fdOf'[q] = fdOf[q]
      /\ fdOf'[r] = NoFd
      /\ r # h => fdOf'[h] = fdOf[r] /\ fdOf[r] = f
      /\ \A q \in Readers \ {r} : reader'[q] = reader[q]
      /\ reader'[r] = "denied"
  BY <1>2, <1>3 DEF TypeOK
<1>5. fdOf[h] = NoFd /\ reader[h] = "waiting" /\ h \notin unheard
  BY <1>3 DEF WaitingInv
<1>6. TypeOK'
  BY <1>1, <1>2, <1>3 DEF TypeOK
<1>7. ASSUME NEW q \in Readers \ unheard', fdOf'[q] # NoFd
      PROVE  /\ q # r
             /\ q = h \/ (q \notin unheard /\ fdOf'[q] = fdOf[q])
             /\ q = h => r \notin unheard /\ r # h /\ fdOf'[q] = fdOf[r]
  BY <1>2, <1>4, <1>5, <1>7
<1>8. WorkerInv' /\ TakeoverInv'
  <2>1. \A q \in Readers \ unheard' : fdOf'[q] # NoFd => fdOf'[q] # slot
    BY <1>1, <1>7 DEF TakeoverInv
  <2> QED BY <1>1, <2>1 DEF WorkerInv, TakeoverInv
<1>9. DeliveredInv'
  <2>1. \A q \in Readers \ unheard' : fdOf'[q] # NoFd => fdOf'[q] \in Range(batch')
    BY <1>1, <1>7 DEF DeliveredInv
  <2>2. ASSUME NEW p \in Readers \ unheard', NEW q \in Readers \ unheard', p # q,
               fdOf'[p] # NoFd
        PROVE  fdOf'[p] # fdOf'[q]
    <3>1. CASE fdOf'[q] = NoFd
      BY <2>2, <3>1
    <3>2. CASE fdOf'[q] # NoFd
      BY <1>4, <1>7, <2>2, <3>2 DEF DeliveredInv
    <3> QED BY <3>1, <3>2
  <2>3. wpc = "answered" => \A q \in Readers \ unheard' : fdOf'[q] # Head(batch)
    <3>1. wpc = "answered" => Head(batch) # NoFd
      BY <1>1, HeadTailProperties DEF WorkerInv, TypeOK
    <3> QED BY <1>7, <3>1 DEF DeliveredInv
  <2> QED BY <1>1, <2>1, <2>2, <2>3 DEF DeliveredInv
<1>10. QueueInv'
  <2>1. ASSUME NEW q \in Range(queue') PROVE fdOf'[q] = NoFd /\ reader'[q] = "waiting"
    <3>1. q \in Readers /\ q # h /\ q \in Range(queue)
      BY <1>3, <2>1
    <3>2. q # r
      BY <1>2, <1>3, <3>1
    <3> QED BY <1>3, <1>4, <3>1, <3>2
  <2> QED BY <1>3, <2>1 DEF QueueInv, Range
<1>11. WaitingInv'
  <2>1. ASSUME NEW q \in Readers, q \in unheard' PROVE fdOf'[q] # NoFd
    <3>1. q # r
      BY <1>2, <1>5, <2>1
    <3>2. CASE q = h
      BY <1>2, <1>4, <3>1, <3>2
    <3>3. CASE q # h
      BY <1>2, <1>4, <2>1, <3>1, <3>3 DEF WaitingInv
    <3> QED BY <3>2, <3>3
  <2>2. ASSUME NEW q \in Readers
        PROVE  /\ fdOf'[q] # NoFd => reader'[q] = "waiting"
               /\ reader'[q] = "waiting" => via'[q] = "marked"
               /\ reader'[q] = "waiting" /\ fdOf'[q] = NoFd => q \in Range(queue')
    <3>1. CASE q = r
      BY <1>4, <3>1
    <3>2. CASE q # r /\ q = h
      BY <1>1, <1>2, <1>4, <1>5, <3>2 DEF WaitingInv
    <3>3. CASE q # r /\ q # h
      BY <1>1, <1>3, <1>4, <3>3 DEF WaitingInv
    <3> QED BY <3>1, <3>2, <3>3
  <2> QED BY <2>1, <2>2 DEF WaitingInv
<1>12. DrainInv' /\ ReachInv'
  BY <1>1 DEF DrainInv, ReachInv
<1> QED BY <1>6, <1>8, <1>9, <1>10, <1>11, <1>12

\* A denial that cannot be written is one more lost answer.
LEMMA DrainDenyFailsStep ==
  ASSUME IInv, DrainDenyFails PROVE IInv'
<1> USE NoFdAssumption DEF IInv
<1>1. /\ sup = "drain" /\ queue # << >> /\ queue' = Tail(queue) /\ faulty' = TRUE
      /\ unheard' = unheard \cup {Head(queue)}
      /\ UNCHANGED <<reader, via, mounts, batch, slot, wpc, child, known, sup, verdict,
                     late, reach>>
  BY DEF DrainDenyFails, workerVars, readerVars
<1> DEFINE h == Head(queue)
<1>2. PICK f \in Fds : fdOf' = [fdOf EXCEPT ![h] = f]
  BY DEF DrainDenyFails
<1>3. /\ h \in Readers /\ queue' \in Seq(Readers)
      /\ Range(queue') = Range(queue) \ {h}
      /\ \A i, j \in DOMAIN queue' : i # j => queue'[i] # queue'[j]
      /\ h \in Range(queue) /\ Range(queue) \subseteq Readers
      /\ \A q \in Range(queue) : fdOf[q] = NoFd /\ reader[q] = "waiting"
  BY <1>1, HeadOfQueue
<1> HIDE DEF h
<1>4. unheard' = unheard \cup {h}
  BY <1>1 DEF h
<1>5. fdOf'[h] = f /\ \A q \in Readers \ {h} : fdOf'[q] = fdOf[q]
  BY <1>2, <1>3 DEF TypeOK
<1>6. TypeOK'
  BY <1>1, <1>2, <1>3, <1>4 DEF TypeOK
<1>7. WorkerInv' /\ DeliveredInv' /\ TakeoverInv'
  BY <1>1, <1>4, <1>5 DEF WorkerInv, DeliveredInv, TakeoverInv
<1>8. QueueInv'
  <2>1. ASSUME NEW q \in Range(queue') PROVE fdOf'[q] = NoFd /\ reader'[q] = "waiting"
    BY <1>1, <1>3, <1>5, <2>1
  <2> QED BY <1>3, <2>1 DEF QueueInv, Range
<1>9. WaitingInv'
  <2>1. ASSUME NEW q \in Readers
        PROVE  /\ fdOf'[q] # NoFd => reader'[q] = "waiting"
               /\ reader'[q] = "waiting" => via'[q] = "marked"
               /\ reader'[q] = "waiting" /\ fdOf'[q] = NoFd => q \in Range(queue')
               /\ q \in unheard' => fdOf'[q] # NoFd
    <3>1. CASE q = h
      BY <1>1, <1>3, <1>5, <3>1 DEF WaitingInv
    <3>2. CASE q # h
      BY <1>1, <1>3, <1>4, <1>5, <3>2 DEF WaitingInv
    <3> QED BY <3>1, <3>2
  <2> QED BY <2>1 DEF WaitingInv
<1>10. DrainInv' /\ ReachInv'
  BY <1>1 DEF DrainInv, ReachInv
<1> QED BY <1>6, <1>7, <1>8, <1>9, <1>10

\* Closing the group forgets every event.
LEMMA ExitStep ==
  ASSUME IInv, Exit PROVE IInv'
<1> USE NoFdAssumption DEF IInv, Exit, workerVars
<1>1. TypeOK'
  BY EmptySeq DEF TypeOK
<1>2. WorkerInv' /\ DeliveredInv' /\ QueueInv'
  <2>1. ASSUME wpc = "answered" PROVE Head(batch) # NoFd
    BY <2>1, HeadTailProperties DEF WorkerInv, TypeOK
  <2> QED BY <2>1 DEF WorkerInv, DeliveredInv, QueueInv
<1>3. TakeoverInv' /\ DrainInv' /\ ReachInv'
  BY DEF TakeoverInv, DrainInv, ReachInv
<1>4. WaitingInv'
  BY DEF WaitingInv, TypeOK
<1> QED BY <1>1, <1>2, <1>3, <1>4

\* Every step of the system preserves the invariant.
LEMMA Inductive == IInv /\ [Next]_vars => IInv'
<1> SUFFICES ASSUME IInv, [Next]_vars PROVE IInv' OBVIOUS
<1>1. ASSUME NEW r \in Readers, Open(r) \/ Read(r) PROVE IInv'
  BY <1>1, ReaderStep
<1>2. CASE Remount
  BY <1>2, RemountStep
<1>3. CASE Worker
  BY <1>3, WorkerReadStep, HoldingStep, AnswerStep, ReleasedStep DEF Worker
<1>4. CASE Stick \/ Unstick \/ Die \/ GiveUp
  BY <1>4, ChildStep
<1>5. CASE Supervisor
  BY <1>5, DecideStep, AnswerStrandedStep, DetachStep, DrainDenyStep, DrainDenyFailsStep,
     ExitStep DEF Supervisor
<1>6. CASE DrainFault
  BY <1>6, DecideStep
<1>7. CASE UNCHANGED vars
  BY <1>7 DEF IInv, TypeOK, WorkerInv, DeliveredInv, QueueInv, TakeoverInv,
              WaitingInv, DrainInv, ReachInv, vars, readerVars, workerVars, supVars
<1> QED BY <1>1, <1>2, <1>3, <1>4, <1>5, <1>6, <1>7 DEF Next

\* The strengthening holds of every state the two processes reach: the worker's
\* batch is delivered to distinct readers, what is queued is unanswered, and the
\* takeover (bin/hydrationd.rs:437-559) leaves nothing of the worker running.
THEOREM Invariance == Spec => []IInv
BY InitIInv, Inductive, PTL DEF Spec

-----------------------------------------------------------------------------
(* What the invariant is for. *)

\* Every variable keeps to its type.
THEOREM TypeCorrect == Spec => []TypeOK
<1>1. IInv => TypeOK
  BY DEF IInv
<1> QED BY <1>1, Invariance, PTL

\* What is left of the worker's batch when the slot has been answered, and not lost,
\* are its batch mates.
LEMMA LeftBehind ==
  ASSUME IInv, sup \in {"answered", "drain", "silent", "leaving"},
         NEW r \in Readers \ unheard, fdOf[r] # NoFd
  PROVE  /\ fdOf[r] \in Unpublished
         /\ \A q \in Readers \ (unheard \cup {r}) : fdOf[q] # fdOf[r]
<1> USE DEF IInv
<1>1. fdOf[r] \in Range(batch) /\ \A q \in Readers \ (unheard \cup {r}) : fdOf[q] # fdOf[r]
  BY DEF DeliveredInv
<1>2. CASE wpc \in {"filling", "answered"}
  <2>1. fdOf[r] # Head(batch)
    BY <1>2 DEF TakeoverInv, WorkerInv
  <2>2. batch \in Seq(Fds) /\ batch # << >>
    BY <1>2 DEF TypeOK, WorkerInv
  <2>3. Range(Tail(batch)) = Range(batch) \ {Head(batch)}
    BY <2>2, RangeTail DEF WorkerInv
  <2> QED BY <1>1, <1>2, <2>1, <2>3 DEF Unpublished
<1>3. CASE wpc \notin {"filling", "answered"}
  BY <1>1, <1>3 DEF Unpublished
<1> QED BY <1>2, <1>3

\* A read that is not intercepted, and the exit, are the only steps that hand out zeros.
LEMMA WhoGetsZeros ==
  ASSUME IInv, [Next]_vars, NEW r \in Readers, reader[r] # "zeros", reader'[r] = "zeros"
  PROVE  \/ Read(r) /\ ~ (via[r] = "marked" /\ GroupOpen)
         \/ Exit /\ reader[r] = "waiting"
<1> USE DEF IInv, TypeOK
<1>1. ASSUME NEW q \in Readers, Open(q) \/ Read(q)
      PROVE  Read(r) /\ ~ (via[r] = "marked" /\ GroupOpen)
  <2>1. CASE Open(q)
    BY <2>1 DEF Open
  <2>2. CASE Read(q)
    BY <2>2 DEF Read
  <2> QED BY <1>1, <2>1, <2>2
<1>2. ASSUME NEW f, NEW answer \in {"served", "denied"}, Respond(f, answer) PROVE FALSE
  BY <1>2 DEF Respond, Under
<1>3. CASE Remount \/ Stick \/ Unstick \/ Die \/ GiveUp \/ DrainFault
  BY <1>3 DEF Remount, Stick, Unstick, Die, GiveUp, DrainFault, readerVars
<1>4. CASE Worker
  <2>1. CASE WorkerRead \/ Holding \/ Released
    BY <2>1 DEF WorkerRead, Holding, Released, readerVars
  <2>2. CASE Answer
    BY <1>2, <2>2 DEF Answer
  <2> QED BY <1>4, <2>1, <2>2 DEF Worker
<1>5. CASE Supervisor
  <2>1. CASE NoticeDeath \/ NoticeStall \/ NoticeUnmarked \/ Kill \/ Detach
    BY <2>1 DEF NoticeDeath, NoticeStall, NoticeUnmarked, Kill, Detach, readerVars
  <2>2. CASE DrainDenyFails \/ DrainLook \/ DrainQuiet \/ DrainCap
    BY <2>2 DEF DrainDenyFails, DrainLook, DrainQuiet, DrainCap, readerVars
  <2>3. CASE AnswerStranded
    BY <1>2, <2>3 DEF AnswerStranded
  <2>4. CASE DrainDeny
    BY <2>4 DEF DrainDeny
  <2>5. CASE Exit
    BY <2>5 DEF Exit
  <2> QED BY <1>5, <2>1, <2>2, <2>3, <2>4, <2>5 DEF Supervisor
<1>6. CASE UNCHANGED vars
  BY <1>6 DEF vars, readerVars
<1> QED BY <1>1, <1>3, <1>4, <1>5, <1>6 DEF Next

\* Zeros are handed out only on another mount; by the exit, to a batch mate, to whoever's
\* answer was lost and to who was still queued when the drain could not see or wait for it;
\* and after it only on what was open at the detach: for any number of readers and any
\* buffer (supervisor.rs:3-18, 251-276).
THEOREM Closed == Spec => FailsClosed
<1>1. IInv /\ [Next]_vars =>
        [\A r \in Readers : reader[r] # "zeros" /\ reader'[r] = "zeros" =>
           \/ via[r] = "other"
           \/ sup = "leaving" /\ LetThrough(r)
           \/ sup = "exited" /\ r \in reach]_vars
  <2> SUFFICES ASSUME IInv, [Next]_vars,
                      NEW r \in Readers, reader[r] # "zeros", reader'[r] = "zeros"
               PROVE  \/ via[r] = "other"
                      \/ sup = "leaving" /\ LetThrough(r)
                      \/ sup = "exited" /\ r \in reach
    OBVIOUS
  <2>1. CASE Read(r) /\ ~ (via[r] = "marked" /\ GroupOpen)
    BY <2>1 DEF Read, GroupOpen, IInv, TypeOK, Mounts, ReachInv
  <2>2. CASE Exit /\ reader[r] = "waiting"
    <3>1. sup = "leaving"
      BY <2>2 DEF Exit
    <3>2. CASE fdOf[r] = NoFd
      <4>1. r \in Range(queue) /\ (verdict # "busy" /\ ~ faulty => r \in late)
        BY <2>2, <3>1, <3>2 DEF IInv, WaitingInv, DrainInv
      <4> QED BY <3>1, <4>1 DEF LetThrough
    <3>3. CASE fdOf[r] # NoFd
      BY <3>1, <3>3, LeftBehind DEF LetThrough
    <3> QED BY <3>2, <3>3
  <2> QED BY <2>1, <2>2, WhoGetsZeros
<1> QED BY <1>1, Invariance, PTL DEF Spec, FailsClosed

\* Once the slot has been answered only the worker's batch mates are left
\* behind, each under a number of its own (supervisor.rs:236-249, 295-353).
THEOREM Stranded == Spec => []StrandedAreBatchMates
<1>1. IInv => StrandedAreBatchMates
  BY LeftBehind DEF StrandedAreBatchMates
<1> QED BY <1>1, Invariance, PTL
=============================================================================

---------------------------- MODULE ChangesProofs ----------------------------
(***************************************************************************)
(* For any set of files and any bounds: the change pipeline is well typed, *)
(* a clean file has been sent, and no edit is forgotten.                   *)
(***************************************************************************)
EXTENDS Changes, TLAPS

\* A stamp never describes a version newer than the file.
StampsBehind == \A f \in File : stamp[f] <= ver[f]

\* What the driver observed before it sent is no newer than what it sent.
JobSound ==
    /\ at \in {"observed", "again", "sent", "adopt", "stamp"} => obs <= ver[cur]
    /\ at \in {"sent", "adopt", "stamp"} =>
           (obs = ver[cur] => cloud[cur] = ver[cur])

\* The steps, named one by one: what every case analysis below splits on.
Step ==
    \/ \E f \in File : Edit(f)
    \/ \E f \in File : Rename(f)
    \/ \E f \in File : Delete(f)
    \/ \E f \in File : Begin(f)
    \/ Drain \/ Take \/ Send \/ SendFails \/ HelperStarts \/ DrainFails
    \/ Break \/ Reconnect \/ HelperDies \/ Accept \/ Serve
    \/ Swap \/ Walk \/ WalkFails \/ Due
    \/ Lookup \/ Upload \/ UploadFails \/ Recheck \/ RemovalFails \/ Adopt \/ Stamp
    \/ DaemonRestarts

LEMMA NextIsStep == ASSUME Next PROVE Step
BY DEF Next, Step, HelperStep, DriverStep

-----------------------------------------------------------------------------
(* Types.                                                                  *)

LEMMA EmptyWire == <<>> \in Seq(Message)
OBVIOUS

\* Every state of the pipeline is well typed, for any set of files.
THEOREM TypeCorrect == Spec => []TypeOK
<1>1. Init => TypeOK
  <2> SUFFICES ASSUME Init PROVE TypeOK
    OBVIOUS
  <2>1. present \in SUBSET File /\ ver \in [File -> Nat] /\ missed \in [File -> Reasons]
    BY DEF Init, Reasons
  <2>2. wire \in Seq(Message)
    BY EmptyWire DEF Init
  <2>3. QED
    BY <2>1, <2>2 DEF Init, TypeOK, Stages
<1>2. TypeOK /\ [Next]_vars => TypeOK'
  <2> SUFFICES ASSUME TypeOK, [Next]_vars PROVE TypeOK'
    OBVIOUS
  <2> USE EmptyWire DEF TypeOK, Stages, Reasons
  <2>0. CASE UNCHANGED vars
    BY <2>0 DEF vars
  <2>1. ASSUME NEW f \in File, Edit(f) PROVE TypeOK'
    <3>1. ver' \in [File -> Nat] /\ missed' \in [File -> Reasons]
      BY <2>1 DEF Edit
    <3>2. present' \in SUBSET File /\ queue' \in SUBSET File /\ over' \in BOOLEAN
      BY <2>1 DEF Edit
    <3>3. edits' \in Nat /\ troubles' \in Nat
      BY <2>1 DEF Edit
    <3>4. QED
      BY <2>1, <3>1, <3>2, <3>3 DEF Edit, socket, daemon
  <2>2. ASSUME NEW f \in File, Rename(f) PROVE TypeOK'
    BY <2>2 DEF Rename, Trouble, files, helper, socket
  <2>3. ASSUME NEW f \in File, Delete(f) PROVE TypeOK'
    BY <2>3 DEF Delete, Trouble, helper, socket
  <2>4. ASSUME NEW f \in File, Begin(f) PROVE TypeOK'
    BY <2>4 DEF Begin, files, others, helper, socket, spent
  <2>5. CASE Drain
    BY <2>5 DEF Drain, files, socket, daemon, spent
  <2>6. CASE Take
    BY <2>6 DEF Take, files, kernel, socket, daemon, spent
  <2>7. CASE Send
    <3>1. Resync \in Message /\ Changed(batch) \in Message
      BY DEF Message, Resync, Changed
    <3>2. wire \in Seq(Message)
      OBVIOUS
    <3>3. Append(wire, Resync) \in Seq(Message) /\ Append(wire, Changed(batch)) \in Seq(Message)
      BY ONLY <3>1, <3>2
    <3>4. wire' \in Seq(Message)
      BY <2>7, <3>3 DEF Send
    <3>5. QED
      BY <2>7, <3>4 DEF Send, files, kernel, daemon, spent
  <2>8. CASE SendFails
    BY <2>8 DEF SendFails, files, kernel, daemon, spent
  <2>9. CASE HelperStarts
    BY <2>9 DEF HelperStarts, files, socket, daemon, spent
  <2>10. CASE DrainFails
    BY <2>10 DEF DrainFails, Trouble, files, socket, daemon
  <2>11. CASE Break
    BY <2>11 DEF Break, Trouble, files, helper, daemon
  <2>12. CASE Reconnect
    BY <2>12 DEF Reconnect, files, helper, daemon, spent
  <2>13. CASE HelperDies
    <3>1. wire' \in Seq(Message)
      BY <2>13, EmptyWire DEF HelperDies
    <3>2. edits' \in Nat /\ troubles' \in Nat
      BY <2>13 DEF HelperDies, Trouble
    <3>3. UNCHANGED <<files, cloud, daemon, missed>>
      BY <2>13 DEF HelperDies
    <3>4. /\ up' \in BOOLEAN /\ queue' \in SUBSET File /\ over' \in BOOLEAN
          /\ dirty' \in SUBSET File /\ lost' \in BOOLEAN
          /\ batch' \in SUBSET File /\ admit' \in BOOLEAN
          /\ conn' \in {"down", "backlog", "up"} /\ peerLost' \in BOOLEAN
      BY <2>13 DEF HelperDies
    <3>5. QED
      BY <3>1, <3>2, <3>3, <3>4 DEF files, daemon
  <2>14. CASE Accept
    BY <2>14 DEF Accept, files, helper, spent
  <2>15. CASE Serve
    <3>1. Tail(wire) \in Seq(Message) /\ Head(wire) \in Message
      BY <2>15 DEF Serve
    <3>2. Head(wire).files \in SUBSET File
      BY <3>1 DEF Message
    <3>3. QED
      BY <2>15, <3>1, <3>2 DEF Serve, files, helper, spent
  <2>16. CASE Swap
    BY <2>16 DEF Swap, files, others, helper, socket, spent
  <2>17. CASE Walk
    BY <2>17 DEF Walk, files, others, helper, socket, spent
  <2>18. CASE WalkFails
    BY <2>18 DEF WalkFails, Trouble, files, others, helper, socket
  <2>19. CASE Due
    BY <2>19 DEF Due, Scan, Trouble, files, others, helper, socket, spent
  <2>20. CASE Lookup
    <3>1. missed' \in [File -> Reasons]
      BY <2>20 DEF Lookup, LetGo
    <3>2. QED
      BY <2>20, <3>1 DEF Lookup, Observe, Done, Finish, files, others, helper, socket, spent
  <2>21. CASE Upload
    BY <2>21 DEF Upload, Go, files, others, helper, socket, spent
  <2>22. CASE UploadFails
    BY <2>22 DEF UploadFails, Trouble, Failed, Finish, files, others, helper, socket, spent
  <2>23. CASE Recheck
    <3>0. cur \in File
      BY <2>23 DEF Recheck
    <3>1. missed' \in [File -> Reasons] /\ cloud' \in [File -> Nat]
      <4>1. CASE UNCHANGED <<cloud, missed>>
        BY <4>1
      <4>2. CASE LetGo("withdrawn") /\ cloud' = [cloud EXCEPT ![cur] = 0]
        BY <3>0, <4>2 DEF LetGo
      <4>3. QED
        BY <2>23, <4>1, <4>2 DEF Recheck
    <3>2. index' \in SUBSET File /\ edits' \in Nat /\ troubles' \in Nat
      BY <2>23 DEF Recheck, Scan, Trouble, spent
    <3>3. QED
      BY <2>23, <3>1, <3>2 DEF Recheck, Go, Observe, Done, Finish, files, others, helper, socket
  <2>24. CASE Adopt
    BY <2>24 DEF Adopt, Go, Failed, Finish, others, helper, socket, spent
  <2>25. CASE Stamp
    BY <2>25 DEF Stamp, Trouble, Done, Finish, others, helper, socket, spent
  <2>26. CASE DaemonRestarts
    BY <2>26 DEF DaemonRestarts, Trouble, Finish, files, helper
  <2>27. CASE RemovalFails
    <3>1. missed' \in [File -> Reasons] /\ cloud' \in [File -> Nat]
      BY <2>27 DEF RemovalFails
    <3>2. index' \in SUBSET File /\ waiting' \in SUBSET File /\ edits' \in Nat /\ troubles' \in Nat
      BY <2>27 DEF RemovalFails, spent, Failed
    <3>3. QED
      BY <2>27, <3>1, <3>2 DEF RemovalFails, Failed, Finish, files, others, helper, socket
  <2> QED
    BY <2>0, <2>1, <2>2, <2>3, <2>4, <2>5, <2>6, <2>7, <2>8, <2>9, <2>10, <2>11, <2>12, <2>13, <2>14, <2>15, <2>16, <2>17, <2>18, <2>19, <2>20, <2>21, <2>22, <2>23, <2>24, <2>25, <2>26, <2>27, NextIsStep DEF Step
<1> QED
  BY <1>1, <1>2, PTL DEF Spec

-----------------------------------------------------------------------------
(* What the stamps say is true.                                            *)

Truth == StampsBehind /\ JobSound /\ CleanIsSent

\* A step that leaves versions, stamps and the cloud alone, and the driver's
\* job too unless it ends it or only begins it, cannot disturb the truth.
LEMMA QuietStep ==
    ASSUME TypeOK, Truth, UNCHANGED <<ver, stamp, cloud>>, present' \subseteq present,
           \A f \in present : missed[f] = "withdrawn" /\ stamp[f] # 0 /\ stamp[f] = ver[f]
                               => missed'[f] = "withdrawn",
           UNCHANGED <<at, cur, obs>> \/ at' \in {"idle", "walk", "begun"}
    PROVE  Truth'
<1>1. StampsBehind'
  BY DEF Truth, StampsBehind
<1>2. JobSound'
  BY DEF Truth, JobSound
<1>3. CleanIsSent'
  BY DEF Truth, CleanIsSent, TypeOK
<1> QED
  BY <1>1, <1>2, <1>3 DEF Truth

LEMMA TruthStep == ASSUME TypeOK, Truth, [Next]_vars PROVE Truth'
<1>0. CASE UNCHANGED vars
  BY <1>0, QuietStep DEF vars
<1>1. ASSUME NEW f \in File, Edit(f) PROVE Truth'
  <2>1. ver'[f] = ver[f] + 1 /\ ver[f] \in Nat /\ stamp' = stamp /\ cloud' = cloud
    BY <1>1 DEF Edit, TypeOK
  <2>2. \A g \in File : g # f => ver'[g] = ver[g] /\ missed'[g] = missed[g]
    BY <1>1 DEF Edit, TypeOK
  <2>3. UNCHANGED <<at, cur, obs>> /\ present' = present \cup {f}
    BY <1>1 DEF Edit, daemon
  <2>4. StampsBehind'
    <3>1. \A g \in File : stamp[g] <= ver[g] /\ stamp[g] \in Nat /\ ver[g] \in Nat
      BY DEF Truth, StampsBehind, TypeOK
    <3>2. \A g \in File : stamp[g] <= ver'[g]
      BY <2>1, <2>2, <3>1
    <3> QED
      BY <2>1, <3>2 DEF StampsBehind
  <2>5. JobSound'
    <3>1. at \notin {"idle", "walk"} => cur \in File /\ obs \in Nat /\ ver[cur] \in Nat
      BY DEF TypeOK
    <3>2. QED
      BY <2>1, <2>2, <2>3, <3>1 DEF Truth, JobSound
  <2>6. CleanIsSent'
    BY <2>1, <2>2, <2>3 DEF Truth, CleanIsSent, StampsBehind, TypeOK
  <2> QED
    BY <2>4, <2>5, <2>6 DEF Truth
<1>2. ASSUME NEW f \in File, Rename(f) PROVE Truth'
  BY <1>2, QuietStep DEF Rename, Trouble, files, helper, socket
<1>3. ASSUME NEW f \in File, Delete(f) PROVE Truth'
  BY <1>3, QuietStep DEF Delete, Trouble, helper, socket
<1>4. ASSUME NEW f \in File, Begin(f) PROVE Truth'
  BY <1>4, QuietStep DEF Begin, files, others, helper, socket, spent
<1>5. CASE Drain
  BY <1>5, QuietStep DEF Drain, files, socket, daemon, spent
<1>6. CASE Take
  BY <1>6, QuietStep DEF Take, files, kernel, socket, daemon, spent
<1>7. CASE Send
  BY <1>7, QuietStep DEF Send, files, kernel, daemon, spent, Resync, Changed
<1>8. CASE SendFails
  BY <1>8, QuietStep DEF SendFails, files, kernel, daemon, spent
<1>9. CASE HelperStarts
  BY <1>9, QuietStep DEF HelperStarts, files, socket, daemon, spent
<1>10. CASE DrainFails
  BY <1>10, QuietStep DEF DrainFails, Trouble, files, socket, daemon
<1>11. CASE Break
  BY <1>11, QuietStep DEF Break, Trouble, files, helper, daemon
<1>12. CASE Reconnect
  BY <1>12, QuietStep DEF Reconnect, files, helper, daemon, spent
<1>13. CASE HelperDies
  BY <1>13, QuietStep DEF HelperDies, Trouble, files, daemon
<1>14. CASE Accept
  BY <1>14, QuietStep DEF Accept, files, helper, spent
<1>15. CASE Serve
  BY <1>15, QuietStep DEF Serve, files, helper, spent
<1>16. CASE Swap
  BY <1>16, QuietStep DEF Swap, files, others, helper, socket, spent
<1>17. CASE Walk
  BY <1>17, QuietStep DEF Walk, files, others, helper, socket, spent
<1>18. CASE WalkFails
  <2>1. \A f \in present : missed[f] = "withdrawn" /\ stamp[f] # 0 /\ stamp[f] = ver[f]
                            => missed'[f] = "withdrawn"
    BY <1>18 DEF WalkFails, WalkFinds, TypeOK
  <2> QED
    BY <1>18, <2>1, QuietStep DEF WalkFails, Trouble, files, others, helper, socket
<1>19. CASE Due
  BY <1>19, QuietStep DEF Due, Scan, Trouble, files, others, helper, socket, spent
<1>20. CASE Lookup
  <2>1. CASE cur \in index
    <3>1. UNCHANGED <<ver, stamp, cloud, cur, missed, present>> /\ at' = "observed" /\ obs' = ver[cur]
      BY <1>20, <2>1 DEF Lookup, Observe, Done, Finish, LetGo, files, others, helper, socket, spent
    <3>2. StampsBehind' /\ CleanIsSent'
      BY <3>1 DEF Truth, StampsBehind, CleanIsSent
    <3>3. ver[cur] \in Nat
      BY <1>20 DEF TypeOK, Lookup
    <3>4. JobSound'
      BY <3>1, <3>3 DEF JobSound
    <3> QED
      BY <3>2, <3>4 DEF Truth
  <2>2. CASE cur \notin index
    <3>1. UNCHANGED <<ver, stamp, cloud, present>> /\ at' = "idle"
      BY <1>20, <2>2 DEF Lookup, Observe, Done, Finish, LetGo, files, others, helper, socket, spent
    <3>2. \A f \in present : missed[f] = "withdrawn" => missed'[f] = "withdrawn"
      BY <1>20, <2>2 DEF Lookup, LetGo, TypeOK
    <3> QED
      BY <3>1, <3>2, QuietStep
  <2> QED
    BY <2>1, <2>2
<1>21. CASE Upload
  <2>1. cur \in File /\ ver[cur] \in Nat /\ obs <= ver[cur]
    BY <1>21 DEF Upload, TypeOK, Truth, JobSound
  <2>2. cloud'[cur] = ver[cur] /\ \A g \in File : g # cur => cloud'[g] = cloud[g] /\ missed'[g] = missed[g]
    BY <1>21, <2>1 DEF Upload, TypeOK
  <2>3. UNCHANGED <<ver, stamp, cur, obs, present>> /\ at' \in {"sent", "adopt"}
    BY <1>21 DEF Upload, Go, files, others, helper, socket, spent
  <2>4. StampsBehind'
    BY <2>3 DEF Truth, StampsBehind
  <2>5. JobSound'
    BY <2>1, <2>2, <2>3 DEF JobSound
  <2>6. CleanIsSent'
    BY <2>2, <2>3 DEF Truth, CleanIsSent, TypeOK
  <2> QED
    BY <2>4, <2>5, <2>6 DEF Truth
<1>22. CASE UploadFails
  BY <1>22, QuietStep DEF UploadFails, Trouble, Failed, Finish, files, others, helper, socket, spent
<1>23. CASE Recheck
  <2>0. UNCHANGED <<ver, stamp, cur, present>> \/ UNCHANGED <<ver, stamp, present>>
    BY <1>23 DEF Recheck, files
  <2>1. CASE cur \in index
    <3>1. UNCHANGED <<ver, stamp, cloud, cur, obs, missed, present>> /\ at = "sent" /\ at' = "adopt"
      BY <1>23, <2>1 DEF Recheck, Go, files
    <3> QED
      BY <3>1 DEF Truth, StampsBehind, JobSound, CleanIsSent
  <2>2. CASE cur \notin index /\ cur \in index'
    <3>1. UNCHANGED <<ver, stamp, cloud, cur, missed, present>> /\ at' = "again" /\ obs' = ver[cur]
      BY <1>23, <2>2 DEF Recheck, Observe, files
    <3>2. ver[cur] \in Nat
      BY <1>23 DEF TypeOK, Recheck
    <3> QED
      BY <3>1, <3>2 DEF Truth, StampsBehind, JobSound, CleanIsSent
  <2>3. CASE cur \notin index /\ cur \notin index'
    <3>1. UNCHANGED <<ver, stamp, present>> /\ at' = "idle" /\ cloud' = [cloud EXCEPT ![cur] = 0]
      BY <1>23, <2>3 DEF Recheck, Done, Finish, files
    <3>2. cur \in File
      BY <1>23 DEF Recheck, TypeOK
    <3>3. LetGo("withdrawn")
      BY <1>23, <2>3 DEF Recheck
    <3>4. cur \in present => missed'[cur] = "withdrawn"
      BY <3>2, <3>3 DEF LetGo, TypeOK
    <3>5. \A g \in File : g # cur => cloud'[g] = cloud[g] /\ missed'[g] = missed[g]
      BY <3>1, <3>2, <3>3 DEF LetGo, TypeOK
    <3>6. StampsBehind' /\ JobSound'
      BY <3>1 DEF Truth, StampsBehind, JobSound
    <3>7. CleanIsSent'
      BY <3>1, <3>4, <3>5 DEF Truth, CleanIsSent, TypeOK
    <3> QED
      BY <3>6, <3>7 DEF Truth
  <2> QED
    BY <2>1, <2>2, <2>3
<1>24. CASE Adopt
  <2>1. CASE cur \in index
    <3>1. UNCHANGED <<ver, stamp, cloud, cur, obs, missed, present>> /\ at = "adopt" /\ at' = "stamp"
      BY <1>24, <2>1 DEF Adopt, Go, Failed, Finish, others, helper, socket, spent
    <3> QED
      BY <3>1 DEF Truth, StampsBehind, JobSound, CleanIsSent
  <2>2. CASE cur \notin index
    <3>1. UNCHANGED <<ver, stamp, cloud, missed, present>> /\ at' = "idle"
      BY <1>24, <2>2 DEF Adopt, Go, Failed, Finish, others, helper, socket, spent
    <3> QED
      BY <3>1, QuietStep
  <2> QED
    BY <2>1, <2>2
<1>25. CASE Stamp
  <2>1. UNCHANGED <<ver, cloud, missed, present>> /\ at' = "idle"
    BY <1>25 DEF Stamp, Trouble, Done, Finish, others, helper, socket, spent
  <2>2. CASE UNCHANGED stamp
    BY <2>1, <2>2, QuietStep
  <2>3. CASE stamp' = [stamp EXCEPT ![cur] = obs]
    <3>1. cur \in File /\ obs <= ver[cur] /\ (obs = ver[cur] => cloud[cur] = ver[cur])
      BY <1>25 DEF Stamp, Truth, JobSound, TypeOK
    <3>2. stamp'[cur] = obs /\ \A g \in File : g # cur => stamp'[g] = stamp[g]
      BY <2>3, <3>1 DEF TypeOK
    <3>3. StampsBehind' /\ CleanIsSent'
      BY <2>1, <3>1, <3>2 DEF Truth, StampsBehind, CleanIsSent, TypeOK
    <3>4. JobSound'
      BY <2>1 DEF JobSound
    <3> QED
      BY <3>3, <3>4 DEF Truth
  <2> QED
    BY <1>25, <2>2, <2>3 DEF Stamp
<1>26. CASE DaemonRestarts
  <2>1. \A f \in present : missed[f] = "withdrawn" /\ stamp[f] # 0 /\ stamp[f] = ver[f]
                            => missed'[f] = "withdrawn"
    BY <1>26 DEF DaemonRestarts, WalkFinds, TypeOK
  <2> QED
    BY <1>26, <2>1, QuietStep DEF DaemonRestarts, Trouble, Finish, files, helper
<1>27. CASE RemovalFails
  <2>1. UNCHANGED <<ver, stamp, present>> /\ at' = "idle"
    BY <1>27 DEF RemovalFails, Failed, Finish, files
  <2>2. CASE UNCHANGED <<cloud, missed>>
    BY <2>1, <2>2, QuietStep
  <2>3. CASE cur \in present /\ cloud' = [cloud EXCEPT ![cur] = ver[cur]] /\ missed' = [missed EXCEPT ![cur] = "no"]
    <3>1. cur \in File
      BY <2>3 DEF TypeOK
    <3>2. cloud'[cur] = ver[cur] /\ \A g \in File : g # cur => cloud'[g] = cloud[g] /\ missed'[g] = missed[g]
      BY <2>3, <3>1 DEF TypeOK
    <3>3. StampsBehind' /\ JobSound'
      BY <2>1 DEF Truth, StampsBehind, JobSound
    <3>4. CleanIsSent'
      BY <2>1, <3>2 DEF Truth, CleanIsSent, TypeOK
    <3> QED
      BY <3>3, <3>4 DEF Truth
  <2> QED
    BY <1>27, <2>2, <2>3 DEF RemovalFails
<1> QED
  BY <1>0, <1>1, <1>2, <1>3, <1>4, <1>5, <1>6, <1>7, <1>8, <1>9, <1>10, <1>11, <1>12, <1>13, <1>14, <1>15, <1>16, <1>17, <1>18, <1>19, <1>20, <1>21, <1>22, <1>23, <1>24, <1>25, <1>26, <1>27, NextIsStep DEF Step

\* A file whose stamp says it is unchanged is in the cloud as it stands, for
\* any files and bounds: eviction may rely on it.
THEOREM Clean == Spec => []CleanIsSent
<1>1. Init => Truth
  BY DEF Init, Truth, StampsBehind, JobSound, CleanIsSent
<1>2. TypeOK /\ Truth /\ [Next]_vars => Truth'
  BY TruthStep
<1>3. Truth => CleanIsSent
  BY DEF Truth
<1> QED
  BY <1>1, <1>2, <1>3, TypeCorrect, PTL DEF Spec

-----------------------------------------------------------------------------
(* Nothing is forgotten.                                                   *)

\* An unsent edit is one a walk would find, unless it is one of the exceptions.
WalkOrException ==
    \A f \in File : Unsent(f) => WalkFinds(f) \/ Unwalkable(f) \/ missed[f] # "no"

LEMMA Seen == TypeOK /\ Truth => WalkOrException
BY DEF WalkOrException, Unsent, WalkFinds, Unwalkable, Truth, CleanIsSent, TypeOK

LEMMA WalkCovers == WalkOrException /\ WalkIsComing => NothingForgotten
BY DEF WalkOrException, NothingForgotten

\* A step after which a walk is due forgets nothing.
LEMMA WalkStep == ASSUME TypeOK', Truth', WalkIsComing' PROVE NothingForgotten'
<1>1. (TypeOK /\ Truth => WalkOrException)'
  BY Seen, PTL
<1>2. (WalkOrException /\ WalkIsComing => NothingForgotten)'
  BY WalkCovers, PTL
<1> QED
  BY <1>1, <1>2

\* A step that hands on what was announced, and the walk if one was due, forgets nothing.
LEMMA HandOn ==
    ASSUME NothingForgotten,
           UNCHANGED <<present, ver, stamp, id, cloud>>,
           \A f \in File : missed[f] # "no" => missed'[f] # "no",
           \A f \in File : Unsent(f) /\ Announced(f) => Announced(f)' \/ missed'[f] # "no",
           WalkIsComing => WalkIsComing'
    PROVE  NothingForgotten'
BY DEF NothingForgotten, Unsent, WalkFinds, Unwalkable

\* After its job's content went out, a file edited again is announced or walked for.
JobHeld ==
    at \in {"sent", "adopt", "stamp"} /\ Unsent(cur) => Announced(cur) \/ WalkIsComing

\* The steps that hand on everything they hold.
HandingOn ==
    \/ \E f \in File : Rename(f)
    \/ \E f \in File : Delete(f)
    \/ \E f \in File : Begin(f)
    \/ Drain \/ Take \/ Send \/ Serve \/ Due \/ UploadFails \/ Adopt \/ Stamp

LEMMA HandsOn ==
    ASSUME TypeOK, HandingOn
    PROVE  (\A f \in File : Announced(f) => Announced(f)') /\ (WalkIsComing => WalkIsComing')
<1>1. ASSUME NEW f \in File, Rename(f) PROVE (\A g \in File : Announced(g) => Announced(g)') /\ (WalkIsComing => WalkIsComing')
  BY <1>1 DEF Rename, Trouble, files, helper, socket, Announced, WalkIsComing
<1>2. ASSUME NEW f \in File, Delete(f) PROVE (\A g \in File : Announced(g) => Announced(g)') /\ (WalkIsComing => WalkIsComing')
  BY <1>2 DEF Delete, Trouble, helper, socket, Announced, WalkIsComing
<1>3. ASSUME NEW f \in File, Begin(f) PROVE (\A g \in File : Announced(g) => Announced(g)') /\ (WalkIsComing => WalkIsComing')
  BY <1>3 DEF Begin, files, others, helper, socket, spent, Announced, WalkIsComing
<1>4. CASE Drain
  BY <1>4 DEF Drain, files, socket, daemon, spent, Announced, WalkIsComing
<1>5. CASE Take
  BY <1>5 DEF Take, files, kernel, socket, daemon, spent, Announced, WalkIsComing
<1>6. CASE Send
  <2>1. wire \in Seq(Message)
    BY DEF TypeOK
  <2>2. \A m \in Message : /\ \A i \in DOMAIN wire : i \in DOMAIN Append(wire, m) /\ Append(wire, m)[i] = wire[i]
                            /\ Len(wire) + 1 \in DOMAIN Append(wire, m)
                            /\ Append(wire, m)[Len(wire) + 1] = m
    BY <2>1
  <2>3. Resync \in Message /\ Changed(batch) \in Message
    BY DEF Message, Resync, Changed, TypeOK
  <2>4. \A i \in DOMAIN wire : i \in DOMAIN wire' /\ wire'[i] = wire[i]
    BY <1>6, <2>2, <2>3 DEF Send
  <2>5. \A f \in File : Announced(f) => Announced(f)'
    <3>1. \A f \in batch : f \in batch' \/ \E i \in DOMAIN wire' : f \in wire'[i].files
      BY <1>6, <2>2, <2>3 DEF Send, Changed
    <3> QED
      BY <1>6, <2>4, <3>1 DEF Send, kernel, daemon, Announced
  <2>6. WalkIsComing => WalkIsComing'
    <3>1. admit => admit' \/ \E i \in DOMAIN wire' : wire'[i].kind = "Resync"
      BY <1>6, <2>2, <2>3 DEF Send, Resync
    <3> QED
      BY <1>6, <2>4, <3>1 DEF Send, kernel, daemon, WalkIsComing
  <2> QED
    BY <2>5, <2>6
<1>7. CASE Serve
  <2>1. wire \in Seq(Message) /\ wire # <<>>
    BY <1>7 DEF TypeOK, Serve
  <2>2. \A i \in DOMAIN wire : \/ wire[i] = Head(wire)
                               \/ i - 1 \in DOMAIN Tail(wire) /\ Tail(wire)[i - 1] = wire[i]
    BY <2>1
  <2>3. \A f \in File : Announced(f) => Announced(f)'
    BY <1>7, <2>2 DEF Serve, files, helper, spent, Announced
  <2>4. WalkIsComing => WalkIsComing'
    BY <1>7, <2>2 DEF Serve, files, helper, spent, WalkIsComing
  <2> QED
    BY <2>3, <2>4
<1>8. CASE Due
  BY <1>8 DEF Due, Scan, Trouble, files, others, helper, socket, spent, Announced, WalkIsComing
<1>9. CASE UploadFails
  BY <1>9 DEF UploadFails, Trouble, Failed, Finish, files, others, helper, socket, spent, Announced, WalkIsComing
<1>10. CASE Adopt
  BY <1>10 DEF Adopt, Go, Failed, Finish, others, helper, socket, spent, Announced, WalkIsComing
<1>11. CASE Stamp
  BY <1>11 DEF Stamp, Trouble, Done, Finish, others, helper, socket, spent, Announced, WalkIsComing
<1> QED
  BY <1>1, <1>2, <1>3, <1>4, <1>5, <1>6, <1>7, <1>8, <1>9, <1>10, <1>11 DEF HandingOn

LEMMA ForgetStep ==
    ASSUME TypeOK, TypeOK', Truth, Truth', NothingForgotten, JobHeld, [Next]_vars
    PROVE  NothingForgotten'
<1>0. CASE UNCHANGED vars
  BY <1>0, HandOn DEF vars, Announced, WalkIsComing
<1>1. ASSUME NEW f \in File, Edit(f) PROVE NothingForgotten'
  <2>1. CASE ~up \/ over' \/ WalkIsComing
    <3>1. WalkIsComing'
      BY <1>1, <2>1 DEF Edit, Trouble, files, socket, daemon, WalkIsComing
    <3> QED
      BY <3>1, WalkStep
  <2>2. CASE ~WalkIsComing /\ up /\ queue' = queue \cup {f}
    <3>1. Announced(f)'
      BY <2>2 DEF Announced
    <3>2. ASSUME NEW g \in File, g # f, Unsent(g)'
          PROVE  Announced(g)' \/ missed'[g] # "no" \/ Unwalkable(g)'
      <4>1. Unsent(g) /\ missed'[g] = missed[g] /\ (Unwalkable(g) => Unwalkable(g)')
        BY <1>1, <3>2 DEF Edit, Trouble, files, socket, daemon, Unsent, Unwalkable, TypeOK
      <4>2. Announced(g) => Announced(g)'
        BY <1>1, <2>2 DEF Edit, Trouble, files, socket, daemon, Announced
      <4> QED
        BY <2>2, <4>1, <4>2 DEF NothingForgotten
    <3> QED
      BY <3>1, <3>2 DEF NothingForgotten
  <2> QED
    BY <1>1, <2>1, <2>2 DEF Edit
<1>2. ASSUME NEW f \in File, Rename(f) PROVE NothingForgotten'
  <2> QED
    BY <1>2, HandsOn, HandOn DEF HandingOn, Rename, Trouble, files, helper, socket
<1>3. ASSUME NEW f \in File, Delete(f) PROVE NothingForgotten'
  <2>1. UNCHANGED <<ver, stamp, id, cloud, missed>> /\ present' = present \ {f}
    BY <1>3 DEF Delete, Trouble, helper, socket
  <2> QED
    BY <1>3, <2>1, HandsOn DEF HandingOn, NothingForgotten, Unsent, WalkFinds, Unwalkable
<1>4. ASSUME NEW f \in File, Begin(f) PROVE NothingForgotten'
  <2> QED
    BY <1>4, HandsOn, HandOn DEF HandingOn, Begin, files, others, helper, socket, spent
<1>5. CASE Drain
  <2> QED
    BY <1>5, HandsOn, HandOn DEF HandingOn, Drain, files, socket, daemon, spent
<1>6. CASE Take
  <2> QED
    BY <1>6, HandsOn, HandOn DEF HandingOn, Take, files, kernel, socket, daemon, spent
<1>7. CASE Send
  <2> QED
    BY <1>7, HandsOn, HandOn DEF HandingOn, Send, files, kernel, daemon, spent, Resync, Changed
<1>8. CASE SendFails
  <2>1. WalkIsComing'
    BY <1>8 DEF SendFails, files, kernel, daemon, spent, WalkIsComing
  <2> QED
    BY <2>1, WalkStep
<1>9. CASE HelperStarts
  <2>1. WalkIsComing'
    BY <1>9 DEF HelperStarts, files, socket, daemon, spent, WalkIsComing
  <2> QED
    BY <2>1, WalkStep
<1>10. CASE DrainFails
  <2>1. WalkIsComing'
    BY <1>10 DEF DrainFails, Trouble, files, socket, daemon, WalkIsComing
  <2> QED
    BY <2>1, WalkStep
<1>11. CASE Break
  <2>1. WalkIsComing'
    BY <1>11 DEF Break, Trouble, files, helper, daemon, WalkIsComing
  <2> QED
    BY <2>1, WalkStep
<1>12. CASE Reconnect
  <2>1. WalkIsComing'
    BY <1>12 DEF Reconnect, files, helper, daemon, spent, WalkIsComing
  <2> QED
    BY <2>1, WalkStep
<1>13. CASE HelperDies
  <2>1. WalkIsComing'
    BY <1>13 DEF HelperDies, Trouble, files, daemon, WalkIsComing
  <2> QED
    BY <2>1, WalkStep
<1>14. CASE Accept
  <2>1. WalkIsComing'
    BY <1>14 DEF Accept, files, helper, spent, WalkIsComing
  <2> QED
    BY <2>1, WalkStep
<1>15. CASE Serve
  <2> QED
    BY <1>15, HandsOn, HandOn DEF HandingOn, Serve, files, helper, spent
<1>16. CASE Swap
  <2>1. WalkIsComing'
    BY <1>16 DEF Swap, files, others, helper, socket, spent, WalkIsComing
  <2> QED
    BY <2>1, WalkStep
<1>17. CASE Walk
  <2>1. UNCHANGED <<present, ver, stamp, id, cloud, missed>> /\ waiting' = waiting \cup {f \in File : WalkFinds(f)}
    BY <1>17 DEF Walk, files, others, helper, socket, spent
  <2>2. \A f \in File : WalkFinds(f) => Announced(f)'
    BY <2>1 DEF Announced
  <2> QED
    BY <2>1, <2>2, Seen DEF WalkOrException, NothingForgotten, Unsent, WalkFinds, Unwalkable
<1>18. CASE WalkFails
  <2>1. UNCHANGED <<present, ver, stamp, id, cloud>>
    BY <1>18 DEF WalkFails, Trouble, files, others, helper, socket
  <2>2. \A f \in File : WalkFinds(f) \/ missed[f] # "no" => missed'[f] # "no"
    BY <1>18 DEF WalkFails
  <2> QED
    BY <2>1, <2>2, Seen DEF WalkOrException, NothingForgotten, Unsent, Unwalkable
<1>19. CASE Due
  <2> QED
    BY <1>19, HandsOn, HandOn DEF HandingOn, Due, Scan, Trouble, files, others, helper, socket, spent
<1>20. CASE Lookup
  <2>1. WalkIsComing => WalkIsComing'
    BY <1>20 DEF Lookup, Observe, Done, Finish, LetGo, files, others, helper, socket, spent, WalkIsComing
  <2>2. CASE cur \in index
    <3>1. \A f \in File : Announced(f) => Announced(f)'
      BY <1>20, <2>2 DEF Lookup, Observe, Done, Finish, LetGo, files, others, helper, socket, spent, Announced
    <3> QED
      BY <1>20, <2>1, <2>2, <3>1, HandOn DEF Lookup, Observe, Done, Finish, LetGo, files, others, helper, socket, spent
  <2>3. CASE cur \notin index
    <3>1. cur \in File /\ LetGo("lookup") /\ UNCHANGED <<files, cloud>>
      BY <1>20, <2>3 DEF Lookup, TypeOK
    <3>2. \A f \in File : (missed[f] # "no" => missed'[f] # "no") /\ (f = cur /\ f \in present => missed'[f] # "no")
      BY <3>1 DEF LetGo, TypeOK
    <3>3. \A f \in File : Announced(f) /\ f # cur => Announced(f)'
      BY <1>20, <2>3 DEF Lookup, Observe, Done, Finish, LetGo, files, others, helper, socket, spent, Announced
    <3> QED
      BY <2>1, <3>1, <3>2, <3>3, HandOn DEF files, Unsent
  <2> QED
    BY <2>2, <2>3
<1>21. CASE Upload
  <2>1. cur \in File /\ cloud'[cur] = ver[cur]
    BY <1>21 DEF Upload, TypeOK
  <2>2. \A f \in File : f # cur => cloud'[f] = cloud[f] /\ missed'[f] = missed[f] /\ (Announced(f) => Announced(f)')
    BY <1>21, <2>1 DEF Upload, Go, files, others, helper, socket, spent, Announced, TypeOK
  <2>3. UNCHANGED <<present, ver, stamp, id>> /\ (WalkIsComing => WalkIsComing')
    BY <1>21 DEF Upload, Go, files, others, helper, socket, spent, WalkIsComing
  <2> QED
    BY <2>1, <2>2, <2>3 DEF NothingForgotten, Unsent, WalkFinds, Unwalkable
<1>22. CASE UploadFails
  <2> QED
    BY <1>22, HandsOn, HandOn DEF HandingOn, UploadFails, Trouble, Failed, Finish, files, others, helper, socket, spent
<1>23. CASE Recheck
  <2>0. cur \in File /\ UNCHANGED <<present, ver, stamp, id>> /\ (WalkIsComing => WalkIsComing')
    BY <1>23 DEF Recheck, Scan, Trouble, Go, Observe, Done, Finish, LetGo, files, others, helper, socket, spent, WalkIsComing, TypeOK
  <2>1. CASE cur \in index \/ cur \in index'
    <3>1. \A f \in File : Announced(f) => Announced(f)'
      BY <1>23, <2>1 DEF Recheck, Scan, Trouble, Go, Observe, Done, Finish, LetGo, files, others, helper, socket, spent, Announced
    <3>2. UNCHANGED <<cloud, missed>>
      BY <1>23, <2>1 DEF Recheck
    <3> QED
      BY <2>0, <3>1, <3>2, HandOn
  <2>2. CASE cur \notin index /\ cur \notin index'
    <3>1. LetGo("withdrawn") /\ cloud' = [cloud EXCEPT ![cur] = 0]
      BY <1>23, <2>2 DEF Recheck
    <3>2. \A f \in File : Announced(f) => Announced(f)'
      BY <1>23, <2>2 DEF Recheck, Scan, Trouble, Go, Observe, Done, Finish, LetGo, files, others, helper, socket, spent, Announced
    <3>3. cur \in present => missed'[cur] # "no"
      BY <2>0, <3>1 DEF LetGo, TypeOK
    <3>4. \A f \in File : f # cur => cloud'[f] = cloud[f] /\ missed'[f] = missed[f]
      BY <2>0, <3>1 DEF LetGo, TypeOK
    <3> QED
      BY <2>0, <3>2, <3>3, <3>4 DEF NothingForgotten, Unsent, WalkFinds, Unwalkable
  <2> QED
    BY <2>1, <2>2
<1>24. CASE Adopt
  <2>1. UNCHANGED <<present, ver, stamp, cloud, missed>> /\ id \subseteq id'
    BY <1>24 DEF Adopt, Go, Failed, Finish, others, helper, socket, spent
  <2> QED
    BY <1>24, <2>1, HandsOn DEF HandingOn, NothingForgotten, Unsent, WalkFinds, Unwalkable
<1>25. CASE Stamp
  <2>1. UNCHANGED <<present, ver, id, cloud, missed>>
    BY <1>25 DEF Stamp, Trouble, Done, Finish, others, helper, socket, spent
  <2>2. (\A f \in File : Announced(f) => Announced(f)') /\ (WalkIsComing => WalkIsComing')
    BY <1>25, HandsOn DEF HandingOn
  <2>3. CASE UNCHANGED stamp
    BY <2>1, <2>2, <2>3, HandOn
  <2>4. CASE stamp' = [stamp EXCEPT ![cur] = obs]
    <3>1. cur \in File /\ at = "stamp" /\ \A g \in File : g # cur => stamp'[g] = stamp[g]
      BY <1>25, <2>4 DEF Stamp, TypeOK
    <3>2. CASE WalkIsComing
      BY <2>2, <3>2, WalkStep
    <3>3. ASSUME NEW g \in File, Unsent(g)', g = cur, ~WalkIsComing
          PROVE  Announced(g)'
      BY <2>1, <2>2, <3>1, <3>3 DEF JobHeld, Unsent
    <3>4. ASSUME NEW g \in File, Unsent(g)', g # cur, ~WalkIsComing
          PROVE  Announced(g)' \/ missed'[g] # "no" \/ Unwalkable(g)'
      <4>1. Unsent(g) /\ (Unwalkable(g) => Unwalkable(g)') /\ missed'[g] = missed[g]
        BY <2>1, <3>1, <3>4 DEF Unsent, Unwalkable
      <4> QED
        BY <2>2, <3>4, <4>1 DEF NothingForgotten
    <3> QED
      BY <3>2, <3>3, <3>4 DEF NothingForgotten
  <2> QED
    BY <1>25, <2>3, <2>4 DEF Stamp
<1>26. CASE DaemonRestarts
  <2>1. WalkIsComing'
    BY <1>26 DEF DaemonRestarts, Trouble, Finish, files, helper, WalkIsComing
  <2> QED
    BY <2>1, WalkStep
<1>27. CASE RemovalFails
  <2>1. UNCHANGED <<present, ver, stamp, id>> /\ (WalkIsComing => WalkIsComing') /\ cur \in File
    BY <1>27 DEF RemovalFails, spent, Failed, Finish, files, others, helper, socket, WalkIsComing, TypeOK
  <2>2. \A f \in File : Announced(f) => Announced(f)'
    BY <1>27 DEF RemovalFails, spent, Failed, Finish, files, others, helper, socket, Announced
  <2>3. CASE UNCHANGED <<cloud, missed>>
    BY <2>1, <2>2, <2>3, HandOn
  <2>4. CASE cloud' = [cloud EXCEPT ![cur] = ver[cur]] /\ missed' = [missed EXCEPT ![cur] = "no"]
    <3>1. cloud'[cur] = ver[cur] /\ \A f \in File : f # cur => cloud'[f] = cloud[f] /\ missed'[f] = missed[f]
      BY <2>1, <2>4 DEF TypeOK
    <3> QED
      BY <2>1, <2>2, <3>1 DEF NothingForgotten, Unsent, WalkFinds, Unwalkable
  <2> QED
    BY <1>27, <2>3, <2>4 DEF RemovalFails
<1> QED
  BY <1>0, <1>1, <1>2, <1>3, <1>4, <1>5, <1>6, <1>7, <1>8, <1>9, <1>10, <1>11, <1>12, <1>13, <1>14, <1>15, <1>16, <1>17, <1>18, <1>19, <1>20, <1>21, <1>22, <1>23, <1>24, <1>25, <1>26, <1>27, NextIsStep DEF Step

LEMMA JobStep ==
    ASSUME TypeOK, TypeOK', NothingForgotten, JobHeld, [Next]_vars
    PROVE  JobHeld'
<1>0. CASE UNCHANGED vars
  BY <1>0 DEF vars, JobHeld, Unsent, Announced, WalkIsComing
<1>1. ASSUME NEW f \in File, Edit(f) PROVE JobHeld'
  <2>1. CASE ~up \/ over' \/ WalkIsComing
    BY <1>1, <2>1 DEF Edit, Trouble, files, socket, daemon, JobHeld, WalkIsComing
  <2>2. CASE ~WalkIsComing /\ queue' = queue \cup {f}
    <3>1. UNCHANGED <<at, cur, cloud>> /\ \A g \in File : g # f => ver'[g] = ver[g]
      BY <1>1 DEF Edit, Trouble, files, socket, daemon, TypeOK
    <3>2. present' = present \cup {f}
      BY <1>1 DEF Edit
    <3>3. Announced(f)' /\ \A g \in File : Announced(g) => Announced(g)'
      BY <1>1, <2>2 DEF Edit, Trouble, files, socket, daemon, Announced
    <3>4. at \in {"sent", "adopt", "stamp"} => cur \in File
      BY DEF TypeOK
    <3> QED
      BY <2>2, <3>1, <3>2, <3>3, <3>4 DEF JobHeld, Unsent
  <2> QED
    BY <1>1, <2>1, <2>2 DEF Edit, WalkIsComing
<1>2. ASSUME NEW f \in File, Rename(f) PROVE JobHeld'
  BY <1>2, HandsOn DEF HandingOn, Rename, Trouble, files, helper, socket, JobHeld, Unsent, TypeOK
<1>3. ASSUME NEW f \in File, Delete(f) PROVE JobHeld'
  BY <1>3, HandsOn DEF HandingOn, Delete, Trouble, helper, socket, JobHeld, Unsent, TypeOK
<1>4. ASSUME NEW f \in File, Begin(f) PROVE JobHeld'
  BY <1>4 DEF Begin, files, others, helper, socket, spent, JobHeld
<1>5. CASE Drain
  BY <1>5, HandsOn DEF HandingOn, Drain, files, socket, daemon, spent, JobHeld, Unsent, TypeOK
<1>6. CASE Take
  BY <1>6, HandsOn DEF HandingOn, Take, files, kernel, socket, daemon, spent, JobHeld, Unsent, TypeOK
<1>7. CASE Send
  BY <1>7, HandsOn DEF HandingOn, Send, files, kernel, daemon, spent, Resync, Changed, JobHeld, Unsent, TypeOK
<1>8. CASE SendFails
  BY <1>8 DEF SendFails, files, kernel, daemon, spent, JobHeld, WalkIsComing
<1>9. CASE HelperStarts
  BY <1>9 DEF HelperStarts, files, socket, daemon, spent, JobHeld, WalkIsComing
<1>10. CASE DrainFails
  BY <1>10 DEF DrainFails, Trouble, files, socket, daemon, JobHeld, WalkIsComing
<1>11. CASE Break
  BY <1>11 DEF Break, Trouble, files, helper, daemon, JobHeld, WalkIsComing
<1>12. CASE Reconnect
  BY <1>12 DEF Reconnect, files, helper, daemon, spent, JobHeld, WalkIsComing
<1>13. CASE HelperDies
  BY <1>13 DEF HelperDies, Trouble, files, daemon, JobHeld, WalkIsComing
<1>14. CASE Accept
  BY <1>14 DEF Accept, files, helper, spent, JobHeld, WalkIsComing
<1>15. CASE Serve
  BY <1>15, HandsOn DEF HandingOn, Serve, files, helper, spent, JobHeld, Unsent, TypeOK
<1>16. CASE Swap
  BY <1>16 DEF Swap, files, others, helper, socket, spent, JobHeld
<1>17. CASE Walk
  BY <1>17 DEF Walk, files, others, helper, socket, spent, JobHeld
<1>18. CASE WalkFails
  BY <1>18 DEF WalkFails, Trouble, files, others, helper, socket, JobHeld
<1>19. CASE Due
  BY <1>19 DEF Due, Scan, Trouble, files, others, helper, socket, spent, JobHeld
<1>20. CASE Lookup
  BY <1>20 DEF Lookup, Observe, Done, Finish, LetGo, files, others, helper, socket, spent, JobHeld
<1>21. CASE Upload
  <2>1. cur \in File /\ cur' = cur /\ cloud'[cur] = ver[cur] /\ ver' = ver
    BY <1>21 DEF Upload, Go, files, others, helper, socket, spent, TypeOK
  <2> QED
    BY <2>1 DEF JobHeld, Unsent
<1>22. CASE UploadFails
  BY <1>22 DEF UploadFails, Trouble, Failed, Finish, files, others, helper, socket, spent, JobHeld
<1>23. CASE Recheck
  <2>1. CASE at' = "adopt"
    BY <1>23, <2>1 DEF Recheck, Scan, Trouble, Go, Observe, Done, Finish, LetGo, files, others, helper, socket, spent, JobHeld, Unsent, Announced, WalkIsComing
  <2>2. CASE at' # "adopt"
    BY <1>23, <2>2 DEF Recheck, Scan, Trouble, Go, Observe, Done, Finish, LetGo, files, others, helper, socket, spent, JobHeld
  <2> QED
    BY <2>1, <2>2
<1>24. CASE Adopt
  BY <1>24, HandsOn DEF HandingOn, Adopt, Go, Failed, Finish, others, helper, socket, spent, JobHeld, Unsent, TypeOK
<1>25. CASE Stamp
  BY <1>25 DEF Stamp, Trouble, Done, Finish, others, helper, socket, spent, JobHeld
<1>26. CASE DaemonRestarts
  BY <1>26 DEF DaemonRestarts, Trouble, Finish, files, helper, JobHeld
<1>27. CASE RemovalFails
  BY <1>27 DEF RemovalFails, spent, Failed, Finish, files, others, helper, socket, JobHeld
<1> QED
  BY <1>0, <1>1, <1>2, <1>3, <1>4, <1>5, <1>6, <1>7, <1>8, <1>9, <1>10, <1>11, <1>12, <1>13, <1>14, <1>15, <1>16, <1>17, <1>18, <1>19, <1>20, <1>21, <1>22, <1>23, <1>24, <1>25, <1>26, <1>27, NextIsStep DEF Step
\* Every edit the cloud does not have is held by somebody, or is one of the
\* named exceptions: for any files, across any number of overflows, lost
\* batches, broken connections and restarts.
THEOREM Remembered == Spec => []NothingForgotten
<1>1. Init => Truth /\ NothingForgotten /\ JobHeld
  BY DEF Init, Truth, StampsBehind, JobSound, CleanIsSent, NothingForgotten, Unsent, JobHeld
<1>2. TypeOK /\ TypeOK' /\ Truth /\ NothingForgotten /\ JobHeld /\ [Next]_vars
        => (Truth /\ NothingForgotten /\ JobHeld)'
  BY TruthStep, ForgetStep, JobStep
<1> QED
  BY <1>1, <1>2, TypeCorrect, PTL DEF Spec
=============================================================================

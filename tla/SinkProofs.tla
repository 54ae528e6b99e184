------------------------------ MODULE SinkProofs ------------------------------
(***************************************************************************)
(* For every number of attempts, faults, stalls and saves, and whatever    *)
(* other devices do: an upload replaces only what it was based on, a       *)
(* removal removes only what it made, and a clean file is on the drive.    *)
(***************************************************************************)
EXTENDS Sink, TLAPS

-----------------------------------------------------------------------------
(* The inductive invariant.                                                *)

\* A request for the file is being made, and in a session.
Busy == pc \notin {"idle", "children", "meta", "rmdir"}
InSession == pc \in {"check", "read", "recheck", "send", "probe", "range"}

\* The file the request is for is not there any more; or it is, as it was then.
Abandoned == Busy /\ (file.ino # job.ino \/ file.body = 0)
AsSeen    == file.ino = job.ino /\ file.body = job.body /\ file.body # 0

\* What follows was given out before; what is written next is none of it.
Bounded ==
    /\ drive.ver <= drive.top /\ attrs.ver <= drive.top /\ drive.obj <= drive.objs
    /\ attrs.obj \in 1 .. drive.objs /\ job.obj <= drive.objs
    /\ file.body <= saves + 1 /\ attrs.stamp <= saves + 1 /\ job.body <= saves + 1
    /\ job.ino <= file.ino

\* There is an object for each time there was none: other devices have removed one, or the sink
\* has, because a save took the file away; and a request whose file went may do so once more.
Objects ==
    drive.objs + (IF drive.obj = 0 THEN 1 ELSE 0)
               + (IF Abandoned /\ ~ (pc = "remove" /\ drive.obj = 0) THEN 1 ELSE 0)
        <= 1 + saves + others

\* A stamp is of the inode that was sent.
Stamped ==
    /\ Busy => file.ino = job.ino \/ attrs.stamp = 0
    /\ file.body = 0 => attrs.stamp = 0
    /\ pc = "remove" => Abandoned

\* What a request is for exists; of what was uploaded, no other version that the object may be
\* at is known to the sink or recorded.
Settled ==
    /\ pc \in {"put", "patch"} => job.obj # 0
    /\ pc \in {"done", "remove", "readback"} =>
          /\ done.obj \in 1 .. drive.objs /\ done.ver <= drive.top
          /\ drive.obj = done.obj /\ drive.ver \in {known[done.obj], attrs.ver} => done.ver = drive.ver

\* The counters stop a transfer before their bounds; the last fragment of an update goes after
\* the tag was read back.
Transfers ==
    InSession => /\ xfer.stalls < MaxStalls /\ xfer.faults < MaxFaults
                 /\ drive.session.open => drive.session.into = job.obj
                 /\ job.obj # 0 => known[job.obj] # 0
                 /\ xfer.rechecked => seen = known[job.obj]
                 /\ pc = "send" /\ xfer.at = Last /\ job.obj # 0 => xfer.rechecked
                 /\ pc = "recheck" => job.obj # 0

\* The drive holds a content; or another device's, taken for it.
Holds(body) == drive.body = <<body, body>> \/ drive.ver \in lent

\* If the file is as it was seen all that has been read of it is what was seen.
Whole ==
    AsSeen =>
      /\ InSession \/ pc \in {"put", "putPath", "reconcile", "session"} =>
            fd.body = job.body /\ data = <<job.body, job.body>>
      /\ InSession /\ drive.session.got = Last => drive.session.part = job.body
      /\ pc \in {"done", "readback"} /\ drive.obj = done.obj /\ drive.ver = done.ver => Holds(job.body)
      /\ pc = "patch" => attrs.stamp = job.body /\ attrs.obj = job.obj

\* CleanIsThere, but for the types.
Clean ==
    attrs.stamp = file.body /\ file.body # 0 /\ drive.obj = attrs.obj /\ drive.ver = attrs.ver
        => Holds(file.body)

\* The same of the tag the sink knows, which the next write is conditional on.
CleanAsKnown ==
    attrs.stamp = file.body /\ file.body # 0 /\ pc # "done"
    /\ drive.obj = attrs.obj /\ drive.ver = known[attrs.obj]
        => Holds(file.body)

IInv == /\ TypeOK /\ Clean /\ CleanAsKnown /\ Bounded /\ Objects /\ Stamped /\ Settled
        /\ Transfers /\ Whole

LEMMA InitIInv == Init => IInv
<1> SUFFICES ASSUME Init PROVE IInv OBVIOUS
<1>1. /\ drive.obj = 1 /\ drive.ver = 1 /\ drive.body = <<1, 1>> /\ drive.top = 1 /\ drive.objs = 1
      /\ file.ino = 1 /\ file.body = 1 /\ attrs.obj = 1 /\ attrs.ver = 1 /\ attrs.stamp = 1
      /\ job.ino = 0 /\ job.body = 0 /\ job.obj = 0 /\ pc = "idle" /\ saves = 0 /\ others = 0
  BY DEF Init, NoJob
<1>2. TypeOK
  <2>1. DriveOK
    BY DEF Init, DriveOK, Drive, Session, Shut, Last
  <2>2. FilesOK
    BY SinkAssumption DEF Init, FilesOK
  <2>3. CallOK
    BY SinkAssumption DEF Init, CallOK, Points, NoJob, NoFd, NoObj
  <2>4. XferOK
    BY SinkAssumption DEF Init, XferOK, NoXfer, Last, Ceiling, Total
  <2>5. KnownOK
    BY <1>1, SinkAssumption DEF Init, KnownOK, Obj
  <2> QED BY <2>1, <2>2, <2>3, <2>4, <2>5 DEF TypeOK
<1>3. Clean /\ Bounded /\ Objects
  BY <1>1 DEF Clean, Bounded, Objects, Abandoned, Busy, Holds
<1>4. known[attrs.obj] = 0
  BY <1>1, SinkAssumption DEF Init, Obj
<1>5. Stamped /\ Settled /\ Transfers /\ Whole /\ CleanAsKnown
  BY <1>1, <1>4 DEF Stamped, Busy, Settled, Transfers, Whole, InSession, CleanAsKnown
<1> QED BY <1>2, <1>3, <1>5 DEF IInv

-----------------------------------------------------------------------------
(* What becomes of the object.                                             *)

\* Nothing, whatever happens in the session; or a new version of it, or of a new one where there
\* is none; or it goes.
SameObject ==
    /\ drive'.obj = drive.obj /\ drive'.ver = drive.ver /\ drive'.body = drive.body
    /\ drive'.top = drive.top /\ drive'.objs = drive.objs
NewVersion ==
    /\ drive'.top = drive.top + 1 /\ drive'.ver = drive'.top
    /\ \/ drive'.obj = drive.obj /\ drive.obj # 0 /\ drive'.objs = drive.objs
       \/ drive.obj = 0 /\ drive'.obj = drive.objs + 1 /\ drive'.objs = drive.objs + 1
Removed ==
    /\ drive'.obj = 0 /\ drive'.ver = 0 /\ drive'.top = drive.top /\ drive'.objs = drive.objs
    /\ drive.obj # 0

MovesOn == DriveOK' /\ (SameObject \/ NewVersion)

\* Facts of the state as numbers.
LEMMA Numbers ==
    ASSUME IInv
    PROVE  /\ drive.obj \in Nat /\ drive.ver \in Nat /\ drive.top \in Nat /\ drive.objs \in Nat
           /\ drive.body \in Nat \X Nat
           /\ file.ino \in Nat /\ file.body \in Nat
           /\ attrs.obj \in Nat /\ attrs.ver \in Nat /\ attrs.stamp \in Nat
           /\ job.ino \in Nat /\ job.body \in Nat /\ job.obj \in Nat
           /\ done.obj \in Nat /\ done.ver \in Nat
           /\ saves \in Nat /\ saves <= MaxSaves /\ others \in Nat /\ others <= MaxRemote
<1>1. DriveOK /\ FilesOK /\ CallOK
  BY DEF IInv, TypeOK
<1>2. drive.obj \in Nat /\ drive.ver \in Nat /\ drive.top \in Nat /\ drive.objs \in Nat
      /\ drive.body \in Nat \X Nat
  BY <1>1 DEF DriveOK, Drive
<1>3. file.ino \in Nat /\ file.body \in Nat
      /\ attrs.obj \in Nat /\ attrs.ver \in Nat /\ attrs.stamp \in Nat
  BY <1>1 DEF FilesOK
<1>4. job.ino \in Nat /\ job.body \in Nat /\ job.obj \in Nat /\ done.obj \in Nat /\ done.ver \in Nat
  BY <1>1 DEF CallOK
<1>5. saves \in 0 .. MaxSaves /\ others \in 0 .. MaxRemote
  BY <1>1 DEF FilesOK
<1>6. saves \in Nat /\ saves <= MaxSaves /\ others \in Nat /\ others <= MaxRemote
  BY <1>5, SinkAssumption
<1> QED BY <1>2, <1>3, <1>4, <1>6

\* The objects there are, and the next if there is none, have a place in what the sink knows.
LEMMA ObjectsFit ==
    ASSUME IInv
    PROVE  1 .. drive.objs \subseteq Obj /\ (drive.obj = 0 => drive.objs + 1 \in Obj)
BY Numbers, SinkAssumption DEF IInv, Objects, Obj

\* A write gives out one version.
LEMMA WrittenIs ==
    ASSUME NEW d \in Drive, NEW obj \in Nat, NEW body \in Nat \X Nat
    PROVE  /\ Written(d, obj, body) \in Drive
           /\ Written(d, obj, body).obj = obj /\ Written(d, obj, body).ver = d.top + 1
           /\ Written(d, obj, body).top = d.top + 1 /\ Written(d, obj, body).body = body
           /\ Written(d, obj, body).objs = IF obj > d.objs THEN obj ELSE d.objs
           /\ Written(d, obj, body).session = d.session
<1> DEFINE w == Written(d, obj, body)
<1>1. /\ DOMAIN d = {"obj", "ver", "body", "top", "objs", "session"}
      /\ d.top \in Nat /\ d.objs \in Nat /\ d.session \in Session
  BY DEF Drive
<1>2. /\ w.obj = obj /\ w.ver = d.top + 1 /\ w.top = d.top + 1 /\ w.body = body
      /\ w.objs = IF obj > d.objs THEN obj ELSE d.objs
      /\ w.session = d.session
  BY <1>1, Zenon DEF Written
<1>3. (IF obj > d.objs THEN obj ELSE d.objs) \in Nat /\ d.top + 1 \in Nat
  BY <1>1
<1>4. ASSUME NEW n \in Nat, NEW m \in Nat
      PROVE  [d EXCEPT !.obj = obj, !.ver = n, !.top = n, !.body = body, !.objs = m] \in Drive
  BY DEF Drive
<1>5. w \in Drive
  BY <1>3, <1>4, Zenon DEF Written
<1> QED BY <1>2, <1>5

-----------------------------------------------------------------------------
(* The parts of the invariant that only the drive can disturb.             *)

LEMMA CleanStays ==
    ASSUME IInv, SameObject \/ NewVersion \/ Removed, UNCHANGED <<file, attrs>>, lent \subseteq lent'
    PROVE  Clean'
<1>1. drive.top + 1 # attrs.ver /\ attrs.obj # 0
  BY Numbers DEF IInv, Bounded
<1>2. CASE SameObject
  BY <1>2 DEF SameObject, IInv, Clean, Holds
<1>3. CASE NewVersion
  BY <1>1, <1>3 DEF NewVersion, Clean
<1>4. CASE Removed
  BY <1>1, <1>4 DEF Removed, Clean
<1> QED BY <1>2, <1>3, <1>4

LEMMA KnownIs ==
    ASSUME IInv, NEW o \in 1 .. drive.objs
    PROVE  o \in Obj /\ known[o] \in Nat /\ known[o] <= drive.top
BY ObjectsFit DEF IInv, TypeOK, KnownOK

LEMMA CleanAsKnownStays ==
    ASSUME IInv, SameObject \/ NewVersion \/ Removed, UNCHANGED <<file, attrs, known>>,
           lent \subseteq lent', pc = "done" => pc' = "done"
    PROVE  CleanAsKnown'
<1>1. attrs.obj \in 1 .. drive.objs /\ attrs.obj # 0
  BY Numbers DEF IInv, Bounded
<1>2. drive.top + 1 # known[attrs.obj]
  BY <1>1, KnownIs, Numbers
<1>3. CASE SameObject
  BY <1>3 DEF SameObject, IInv, CleanAsKnown, Holds
<1>4. CASE NewVersion
  BY <1>2, <1>4 DEF NewVersion, CleanAsKnown
<1>5. CASE Removed
  BY <1>1, <1>5 DEF Removed, CleanAsKnown
<1> QED BY <1>3, <1>4, <1>5

LEMMA BoundedStays ==
    ASSUME IInv, DriveOK', SameObject \/ NewVersion \/ Removed, UNCHANGED <<file, attrs>>,
           saves' \in Nat, saves' >= saves,
           job'.ino <= file.ino, job'.body <= saves + 1, job'.obj <= drive.objs,
           job'.obj \in Nat, job'.body \in Nat
    PROVE  Bounded' /\ drive'.top >= drive.top /\ drive'.objs >= drive.objs
<1>1. /\ drive'.obj \in Nat /\ drive'.ver \in Nat /\ drive'.top \in Nat /\ drive'.objs \in Nat
  BY DEF DriveOK, Drive
<1>2. /\ drive'.top >= drive.top /\ drive'.objs >= drive.objs
      /\ drive'.ver <= drive'.top /\ drive'.obj <= drive'.objs
  BY <1>1, Numbers DEF IInv, Bounded, SameObject, NewVersion, Removed
<1>3. attrs.ver <= drive'.top /\ attrs.obj \in 1 .. drive'.objs /\ job'.obj <= drive'.objs
  BY <1>1, <1>2, Numbers DEF IInv, Bounded
<1>4. file.body <= saves' + 1 /\ attrs.stamp <= saves' + 1 /\ job'.body <= saves' + 1
  BY Numbers DEF IInv, Bounded
<1> QED BY <1>2, <1>3, <1>4 DEF Bounded

LEMMA KnownStays ==
    ASSUME IInv, drive'.top \in Nat, drive'.top >= drive.top, UNCHANGED known, lent' \subseteq Nat
    PROVE  KnownOK'
BY Numbers DEF IInv, TypeOK, KnownOK

LEMMA ObjectsStay ==
    ASSUME IInv, SameObject \/ NewVersion, pc # "remove", Abandoned' => Abandoned,
           UNCHANGED <<saves, others>>
    PROVE  Objects'
<1>1. drive.objs + (IF drive.obj = 0 THEN 1 ELSE 0) + (IF Abandoned THEN 1 ELSE 0)
        <= 1 + saves + others
  BY DEF IInv, Objects
<1>2. drive'.objs + (IF drive'.obj = 0 THEN 1 ELSE 0)
        = drive.objs + (IF drive.obj = 0 THEN 1 ELSE 0)
  BY Numbers DEF SameObject, NewVersion
<1>3. drive'.objs \in Nat /\ (drive'.obj = 0 => drive'.objs + 1 \in Nat)
  BY Numbers DEF SameObject, NewVersion
<1> DEFINE left == Abandoned' /\ ~ (pc' = "remove" /\ drive'.obj = 0)
<1>4. left => Abandoned
  OBVIOUS
<1> HIDE DEF left
<1>5. drive'.objs + (IF drive'.obj = 0 THEN 1 ELSE 0) + (IF left THEN 1 ELSE 0) <= 1 + saves + others
  BY <1>1, <1>2, <1>3, <1>4, Numbers
<1> QED BY <1>5 DEF Objects, left


-----------------------------------------------------------------------------
(* The ways a request ends.                                                *)

\* What a request leaves as it was.
Stays == Here /\ lent \subseteq lent' /\ lent' \subseteq Nat

LEMMA SinkOnlyStays == ASSUME IInv, SinkOnly PROVE Stays
BY DEF SinkOnly, Stays, IInv, TypeOK, KnownOK

LEMMA FilesStay ==
    ASSUME IInv, Stays
    PROVE  /\ FilesOK' /\ UNCHANGED <<file, attrs, saves, others>>
           /\ saves' \in Nat /\ saves' >= saves
           /\ lent \subseteq lent' /\ lent' \subseteq Nat
<1>1. UNCHANGED <<folder, file, attrs, large, saves, others>>
  BY DEF Stays, Here
<1>2. FilesOK'
  BY <1>1 DEF IInv, TypeOK, FilesOK
<1> QED BY <1>1, <1>2, Numbers DEF Stays

\* With an error: nothing is left of it.
LEMMA FailsLeaves ==
    ASSUME IInv, Fails
    PROVE  /\ CallOK' /\ XferOK' /\ ~ Busy' /\ ~ InSession' /\ pc' = "idle" /\ UNCHANGED known
           /\ job'.ino = 0 /\ job'.body = 0 /\ job'.obj = 0
<1>1. /\ pc' = "idle" /\ attempt' = 1 /\ job' = NoJob /\ fd' = NoFd /\ data' = <<0, 0>>
      /\ xfer' = NoXfer /\ done' = NoObj /\ seen' = 0 /\ UNCHANGED known
  BY DEF Fails, Goto
<1>2. CallOK'
  BY <1>1, SinkAssumption DEF CallOK, Points, NoJob, NoFd, NoObj
<1>3. XferOK'
  BY <1>1, SinkAssumption DEF XferOK, NoXfer, Last, Ceiling, Total
<1> QED BY <1>1, <1>2, <1>3 DEF Busy, InSession, NoJob

LEMMA FailsKeeps ==
    ASSUME IInv, Stays, MovesOn, pc \notin {"done", "remove"}, Fails
    PROVE  IInv'
<1>1. DriveOK' /\ (SameObject \/ NewVersion)
  BY DEF MovesOn
<1>2. Clean'
  BY <1>1, FilesStay, CleanStays
<1>3. Bounded' /\ drive'.top >= drive.top
  <2>1. job'.ino <= file.ino /\ job'.body <= saves + 1 /\ job'.obj <= drive.objs
        /\ job'.obj \in Nat /\ job'.body \in Nat
    BY FailsLeaves, Numbers
  <2> QED BY <1>1, <2>1, FilesStay, BoundedStays
<1>4. KnownOK'
  <2>1. drive'.top \in Nat
    BY <1>1 DEF DriveOK, Drive
  <2> QED BY <1>3, <2>1, FailsLeaves, FilesStay, KnownStays
<1>5. Objects'
  BY <1>1, FailsLeaves, FilesStay, ObjectsStay DEF Abandoned
<1>6. Stamped'
  BY FailsLeaves, FilesStay DEF IInv, Stamped
<1>7. Settled' /\ Transfers' /\ Whole'
  BY FailsLeaves DEF Settled, Transfers, Whole
<1>8. CleanAsKnown'
  BY <1>1, FailsLeaves, FilesStay, CleanAsKnownStays
<1> QED BY <1>1, <1>2, <1>3, <1>4, <1>5, <1>6, <1>7, <1>8, FilesStay, FailsLeaves DEF IInv, TypeOK

\* With the next request, or the same again.
LEMMA GotoKeeps ==
    ASSUME IInv, Stays, MovesOn, UNCHANGED <<known, done>>,
           Busy, Busy', pc \notin {"done", "remove"}, pc' \notin {"done", "remove", "readback"},
           job'.ino = job.ino, job'.body = job.body, job'.obj \in {job.obj, 0},
           pc' \in {"put", "patch"} => job'.obj # 0,
           CallOK', XferOK', Transfers', Whole'
    PROVE  IInv'
<1>1. DriveOK' /\ (SameObject \/ NewVersion)
  BY DEF MovesOn
<1>2. Clean'
  BY <1>1, FilesStay, CleanStays
<1>3. Bounded' /\ drive'.top >= drive.top
  <2>1. job'.ino <= file.ino /\ job'.body <= saves + 1 /\ job'.obj <= drive.objs
        /\ job'.obj \in Nat /\ job'.body \in Nat
    BY Numbers DEF IInv, Bounded
  <2> QED BY <1>1, <2>1, FilesStay, BoundedStays
<1>4. KnownOK'
  <2>1. drive'.top \in Nat
    BY <1>1 DEF DriveOK, Drive
  <2> QED BY <1>3, <2>1, FilesStay, KnownStays
<1>5. Objects'
  BY <1>1, FilesStay, ObjectsStay DEF Abandoned
<1>6. Stamped'
  BY FilesStay DEF IInv, Stamped
<1>7. Settled'
  BY DEF Settled
<1>8. CleanAsKnown'
  BY <1>1, FilesStay, CleanAsKnownStays
<1> QED BY <1>1, <1>2, <1>3, <1>4, <1>5, <1>6, <1>7, <1>8, FilesStay DEF IInv, TypeOK

\* With an object, and its tag or the reading back of it.
LEMMA SettleKeeps ==
    ASSUME IInv, Stays, MovesOn, Busy, pc \notin {"done", "remove"},
           NEW obj, NEW ver, Settle(obj, ver),
           obj \in 1 .. drive'.objs, ver \in Nat, ver <= drive'.top,
           drive'.obj = obj => drive'.ver = ver,
           AsSeen /\ drive'.obj = obj => drive'.body = <<job.body, job.body>> \/ drive'.ver \in lent'
    PROVE  IInv'
<1>1. DriveOK' /\ (SameObject \/ NewVersion)
  BY DEF MovesOn
<1>2. /\ done' = [obj |-> obj, ver |-> ver, tag |-> TRUE]
      /\ \/ known' = [known EXCEPT ![obj] = ver] /\ pc' = "done"
         \/ UNCHANGED known /\ pc' = "readback"
      /\ attempt' = 1 /\ UNCHANGED <<job, fd, data, xfer, seen>>
  BY DEF Settle, Goto
<1>3. Clean'
  BY <1>1, FilesStay, CleanStays
<1>4. drive'.top \in Nat /\ drive'.objs \in Nat
  BY <1>1 DEF DriveOK, Drive
<1>5. Bounded' /\ drive'.top >= drive.top
  <2>1. job'.ino <= file.ino /\ job'.body <= saves + 1 /\ job'.obj <= drive.objs
        /\ job'.obj \in Nat /\ job'.body \in Nat
    BY <1>2, Numbers DEF IInv, Bounded
  <2> QED BY <1>1, <2>1, FilesStay, BoundedStays
<1>6. Objects'
  BY <1>1, <1>2, FilesStay, ObjectsStay DEF Abandoned
<1>7. obj \in Obj /\ obj \in Nat
  <2>1. drive'.objs <= 1 + saves + others
    BY <1>4, <1>6, FilesStay, Numbers DEF Objects
  <2> QED BY <1>4, <2>1, Numbers, SinkAssumption DEF Obj
<1>8. KnownOK'
  BY <1>2, <1>4, <1>5, <1>7, FilesStay, Numbers DEF IInv, TypeOK, KnownOK
<1>9. CallOK' /\ XferOK'
  <2>1. XferOK'
    BY <1>2 DEF IInv, TypeOK, XferOK
  <2>2. CallOK
    BY DEF IInv, TypeOK
  <2>3. CallOK'
    BY <1>2, <1>7, <2>2, SinkAssumption DEF CallOK, Points
  <2> QED BY <2>1, <2>3
<1>10. Stamped' /\ CleanAsKnown'
  <2>1. Stamped'
    BY <1>2, FilesStay DEF IInv, Stamped, Busy
  <2>2. CleanAsKnown'
    BY <1>1, <1>2, FilesStay, CleanAsKnownStays DEF CleanAsKnown
  <2> QED BY <2>1, <2>2
<1>11. Settled'
  BY <1>2 DEF Settled
<1>12. Transfers' /\ Whole'
  BY <1>2, FilesStay DEF Transfers, Whole, InSession, AsSeen, Holds
<1> QED BY <1>1, <1>3, <1>5, <1>6, <1>8, <1>9, <1>10, <1>11, <1>12, FilesStay DEF IInv, TypeOK

-----------------------------------------------------------------------------
(* What the requests do to the object.                                     *)

LEMMA UnaskedMovesOn ==
    ASSUME IInv, Unasked
    PROVE  MovesOn /\ SameObject /\ drive' = drive
<1>1. drive' = drive /\ DriveOK
  BY DEF Unasked, IInv, TypeOK
<1>2. DriveOK'
  BY <1>1 DEF DriveOK
<1> QED BY <1>1, <1>2 DEF MovesOn, SameObject

LEMMA SessionMovesOn ==
    ASSUME IInv, NEW s \in Session, drive' = [drive EXCEPT !.session = s]
    PROVE  MovesOn /\ drive'.session = s
<1>1. drive \in Drive
  BY DEF IInv, TypeOK, DriveOK
<1>2. drive' \in Drive /\ drive'.session = s /\ SameObject
  BY <1>1 DEF Drive, SameObject
<1> QED BY <1>2 DEF MovesOn, DriveOK

LEMMA ShutIs == Shut \in Session /\ Shut.got # Last /\ ~ Shut.open
BY DEF Shut, Session, Last

\* A new version of the object there is, or of one that is new.
LEMMA WrittenMovesOn ==
    ASSUME IInv, NEW d \in Drive, NEW obj \in Nat, NEW body \in Nat \X Nat,
           d.obj = drive.obj, d.ver = drive.ver, d.top = drive.top, d.objs = drive.objs,
           (obj = drive.obj /\ obj # 0) \/ (drive.obj = 0 /\ obj = drive.objs + 1),
           drive' = Written(d, obj, body)
    PROVE  /\ MovesOn /\ drive'.session = d.session /\ drive'.body = body
           /\ drive'.obj = obj /\ obj \in 1 .. drive'.objs
           /\ drive'.ver = drive.top + 1 /\ drive'.top = drive.top + 1
<1>1. /\ drive' \in Drive
      /\ drive'.obj = obj /\ drive'.ver = d.top + 1 /\ drive'.top = d.top + 1
      /\ drive'.objs = (IF obj > d.objs THEN obj ELSE d.objs)
      /\ drive'.body = body /\ drive'.session = d.session
  BY WrittenIs, Zenon
<1>2. drive.obj <= drive.objs
  BY DEF IInv, Bounded
<1>3. obj \in 1 .. drive'.objs /\ NewVersion
  BY <1>1, <1>2, Numbers DEF NewVersion
<1> QED BY <1>1, <1>3 DEF MovesOn, DriveOK

\* The same request again.
LEMMA RetryKeeps ==
    ASSUME IInv, Stays, MovesOn, Busy, pc \notin {"done", "remove", "readback"}, ~ InSession,
           attempt < MaxAttempts, attempt' = attempt + 1, UNCHANGED <<pc, known, call>>
    PROVE  IInv'
<1>1. UNCHANGED <<pc, known, job, fd, data, xfer, done, seen>> /\ UNCHANGED <<file, attrs>>
  BY FilesStay DEF call
<1>2. CallOK /\ XferOK
  BY DEF IInv, TypeOK
<1>3. attempt' \in 1 .. MaxAttempts
  BY <1>2, SinkAssumption DEF CallOK
<1>4. CallOK'
  BY <1>1, <1>2, <1>3 DEF CallOK
<1>5. XferOK'
  BY <1>1, <1>2 DEF XferOK
<1>6. Transfers' /\ ~ InSession' /\ Busy'
  BY <1>1 DEF Transfers, InSession, Busy
<1>7. Whole'
  BY <1>1, <1>6 DEF IInv, Whole, AsSeen, InSession
<1>8. pc' \in {"put", "patch"} => job'.obj # 0
  BY <1>1 DEF IInv, Settled
<1> QED BY <1>1, <1>4, <1>5, <1>6, <1>7, <1>8, GotoKeeps

\* A request that is refused whatever becomes of the object.
LEMMA RefusedKeeps ==
    ASSUME IInv, Stays, Busy, ~ InSession, pc \notin {"done", "remove", "readback"},
           Ask(drive, Fails, Fails)
    PROVE  IInv'
<1>1. MovesOn
  BY UnaskedMovesOn DEF Ask, Unasked
<1>2. CASE Fails
  BY <1>1, <1>2, FailsKeeps
<1>3. CASE attempt < MaxAttempts /\ attempt' = attempt + 1 /\ UNCHANGED <<pc, known, call>>
  BY <1>1, <1>3, RetryKeeps
<1> QED BY <1>2, <1>3 DEF Ask

-----------------------------------------------------------------------------
(* Each request.                                                           *)

LEMMA StartKeeps == ASSUME IInv, Start PROVE IInv'
<1>1. /\ pc = "idle" /\ file.body # 0 /\ attrs.stamp # file.body
      /\ job' = [ino |-> file.ino, body |-> file.body, obj |-> attrs.obj]
      /\ known' = IF attrs.obj # 0 /\ known[attrs.obj] = 0
                  THEN [known EXCEPT ![attrs.obj] = attrs.ver] ELSE known
      /\ pc' = "open" /\ attempt' = 1 /\ UNCHANGED <<fd, data, xfer, done, seen>>
      /\ Stays /\ Unasked
  BY SinkOnlyStays DEF Start, Goto
<1>2. MovesOn /\ drive' = drive /\ DriveOK' /\ SameObject
  BY <1>1, UnaskedMovesOn DEF MovesOn
<1>3. Clean'
  BY <1>1, <1>2, FilesStay, CleanStays
<1>4. job'.ino = file.ino /\ job'.body = file.body /\ job'.obj = attrs.obj
  BY <1>1
<1>5. Bounded'
  <2>1. job'.ino <= file.ino /\ job'.body <= saves + 1 /\ job'.obj <= drive.objs
        /\ job'.obj \in Nat /\ job'.body \in Nat
    BY <1>4, Numbers DEF IInv, Bounded
  <2> QED BY <1>1, <1>2, <2>1, FilesStay, BoundedStays
<1>6. Objects'
  <2>1. ~ Abandoned'
    BY <1>1, <1>4, FilesStay DEF Abandoned
  <2> QED BY <1>1, <1>2, <2>1, FilesStay, ObjectsStay
<1>7. attrs.obj \in Obj /\ attrs.obj # 0 /\ attrs.ver <= drive.top
  BY ObjectsFit, Numbers DEF IInv, Bounded
<1>8. KnownOK'
  <2>1. known \in [Obj -> Nat] /\ \A o \in Obj : known[o] <= drive.top
    BY DEF IInv, TypeOK, KnownOK
  <2>2. known' \in [Obj -> Nat] /\ \A o \in Obj : known'[o] <= drive.top
    BY <1>1, <1>7, <2>1, Numbers
  <2> QED BY <1>1, <1>2, <2>2, FilesStay DEF KnownOK
<1>9. CallOK' /\ XferOK'
  <2>1. CallOK /\ XferOK
    BY DEF IInv, TypeOK
  <2>2. job' \in [ino : Nat, body : Nat, obj : Nat]
    BY <1>1, Numbers
  <2>3. CallOK'
    BY <1>1, <2>1, <2>2, SinkAssumption DEF CallOK, Points
  <2>4. XferOK'
    BY <1>1, <2>1 DEF XferOK
  <2> QED BY <2>3, <2>4
<1>10. Stamped' /\ CleanAsKnown'
  BY <1>1, <1>4, FilesStay DEF IInv, Stamped, CleanAsKnown
<1>11. Settled' /\ Transfers' /\ Whole'
  BY <1>1 DEF Settled, Transfers, Whole, InSession
<1> QED BY <1>1, <1>2, <1>3, <1>5, <1>6, <1>8, <1>9, <1>10, <1>11, FilesStay DEF IInv, TypeOK

\* The file is opened: what is sent is what it holds.
LEMMA OpenedKeeps ==
    ASSUME IInv, Stays, Unasked, Busy, pc \notin {"done", "remove"}, Opened,
           UNCHANGED <<known, xfer, done, seen>>, attempt' = 1,
           pc' \in {"session", "put", "putPath"},
           job' = job \/ job' = [job EXCEPT !.obj = 0], pc' = "put" => job'.obj # 0
    PROVE  IInv'
<1>1. fd' = [ino |-> file.ino, snap |-> file.body, body |-> file.body]
      /\ data' = <<file.body, file.body>>
  BY DEF Opened
<1>2. CallOK /\ XferOK
  BY DEF IInv, TypeOK
<1>3. job'.ino = job.ino /\ job'.body = job.body /\ job'.obj \in {job.obj, 0}
      /\ job' \in [ino : Nat, body : Nat, obj : Nat]
  BY <1>2 DEF CallOK
<1>4. CallOK'
  BY <1>1, <1>2, <1>3, Numbers, SinkAssumption DEF CallOK, Points
<1>5. XferOK'
  BY <1>2 DEF XferOK
<1>6. Transfers' /\ ~ InSession' /\ Busy'
  BY DEF Transfers, InSession, Busy
<1>7. Whole'
  BY <1>1, <1>3, <1>6, FilesStay DEF Whole, AsSeen
<1> QED BY <1>3, <1>4, <1>5, <1>6, <1>7, UnaskedMovesOn, GotoKeeps

LEMMA OpenFileKeeps == ASSUME IInv, OpenFile PROVE IInv'
<1>1. pc = "open" /\ Stays /\ Unasked /\ Busy /\ pc \notin {"done", "remove"}
  BY SinkOnlyStays DEF OpenFile, Busy
<1>2. CASE file.body = 0
  BY <1>1, <1>2, UnaskedMovesOn, FailsKeeps DEF OpenFile
<1>3. CASE file.body # 0
  <2>1. /\ Opened /\ UNCHANGED <<known, job, xfer, done, seen>> /\ attempt' = 1
        /\ pc' = IF large THEN "session" ELSE IF job.obj # 0 THEN "put" ELSE "putPath"
    BY <1>3 DEF OpenFile, Goto
  <2>2. pc' \in {"session", "put", "putPath"} /\ (pc' = "put" => job'.obj # 0) /\ job' = job
    BY <2>1
  <2> QED BY <1>1, <2>1, <2>2, OpenedKeeps
<1> QED BY <1>2, <1>3

LEMMA CreateKeeps == ASSUME IInv, Create PROVE IInv'
<1>1. pc = "create" /\ Stays /\ Unasked /\ Busy /\ pc \notin {"done", "remove"}
  BY SinkOnlyStays DEF Create, Busy
<1>2. CASE file.body = 0
  BY <1>1, <1>2, UnaskedMovesOn, FailsKeeps DEF Create
<1>3. CASE file.body # 0
  <2>1. /\ Opened /\ UNCHANGED <<known, xfer, done, seen>> /\ attempt' = 1
        /\ job' = [job EXCEPT !.obj = 0] /\ pc' = IF large THEN "session" ELSE "putPath"
    BY <1>3 DEF Create, Goto
  <2>2. pc' \in {"session", "put", "putPath"} /\ pc' # "put"
    BY <2>1
  <2> QED BY <1>1, <2>1, <2>2, OpenedKeeps
<1> QED BY <1>2, <1>3

\* The answer leads to another request, the file as it was opened.
LEMMA LeadsOn ==
    ASSUME IInv, Stays, Unasked, Busy, ~ InSession, pc \notin {"done", "remove"},
           UNCHANGED <<known, call>>, attempt' = 1,
           pc' = "create" \/ (pc' = "reconcile" /\ pc = "putPath")
    PROVE  IInv'
<1>1. UNCHANGED <<known, job, fd, data, xfer, done, seen>> /\ UNCHANGED <<file, attrs>>
  BY FilesStay DEF call
<1>2. CallOK /\ XferOK
  BY DEF IInv, TypeOK
<1>3. CallOK'
  BY <1>1, <1>2, SinkAssumption DEF CallOK, Points
<1>4. XferOK'
  BY <1>1, <1>2 DEF XferOK
<1>5. Transfers' /\ ~ InSession' /\ Busy'
  BY DEF Transfers, InSession, Busy
<1>6. Whole'
  BY <1>1, <1>5 DEF IInv, Whole, AsSeen
<1> QED BY <1>1, <1>3, <1>4, <1>5, <1>6, UnaskedMovesOn, GotoKeeps

\* A write that is answered with the new version, or not at all.
LEMMA WriteKeeps ==
    ASSUME IInv, Stays, Busy, ~ InSession, pc \notin {"done", "remove", "readback"},
           NEW obj \in Nat, NEW body \in Nat \X Nat,
           (obj = drive.obj /\ obj # 0) \/ (drive.obj = 0 /\ obj = drive.objs + 1),
           AsSeen => body = <<job.body, job.body>> \/ (drive' # drive => drive'.ver \in lent'),
           Ask(Written(drive, obj, body), Settle(obj, drive.top + 1), Fails)
    PROVE  IInv'
<1>1. drive \in Drive
  BY DEF IInv, TypeOK, DriveOK
<1>2. drive' = Written(drive, obj, body) =>
         /\ MovesOn /\ drive'.body = body /\ drive'.ver = drive.top + 1
         /\ obj \in 1 .. drive'.objs /\ drive'.top = drive.top + 1
  BY <1>1, WrittenMovesOn
<1>3. drive' = drive => MovesOn
  BY UnaskedMovesOn DEF Unasked
<1>4. CASE drive' = Written(drive, obj, body) /\ Settle(obj, drive.top + 1)
  <2>1. AsSeen => drive'.body = <<job.body, job.body>> \/ drive'.ver \in lent'
    BY <1>2, <1>4, Numbers
  <2>2. drive.top + 1 \in Nat /\ drive.top + 1 <= drive'.top
    BY <1>2, <1>4, Numbers
  <2> QED BY <1>2, <1>4, <2>1, <2>2, SettleKeeps
<1>5. CASE drive' \in {drive, Written(drive, obj, body)} /\ Fails
  BY <1>2, <1>3, <1>5, FailsKeeps
<1>6. CASE /\ drive' \in {drive, Written(drive, obj, body)}
           /\ attempt < MaxAttempts /\ attempt' = attempt + 1 /\ UNCHANGED <<pc, known, call>>
  BY <1>2, <1>3, <1>6, RetryKeeps
<1> QED BY <1>4, <1>5, <1>6 DEF Ask

LEMMA PutAtItemKeeps == ASSUME IInv, PutAtItem PROVE IInv'
<1>1. /\ pc = "put" /\ Stays /\ Busy /\ pc \notin {"done", "remove", "readback"} /\ ~ InSession
      /\ job.obj # 0
  BY SinkOnlyStays DEF PutAtItem, Busy, InSession, IInv, Settled
<1>2. CASE Precondition(job.obj) = 0
  BY <1>1, <1>2, UnaskedMovesOn, FailsKeeps DEF PutAtItem
<1>3. CASE Precondition(job.obj) # 0 /\ drive.obj # job.obj
  <2>1. Ask(drive, Goto("create") /\ UNCHANGED <<known, call>>, Fails)
    BY <1>3 DEF PutAtItem
  <2>2. CASE drive' = drive /\ Goto("create") /\ UNCHANGED <<known, call>>
    BY <1>1, <2>2, LeadsOn DEF Goto, Unasked
  <2>3. CASE Ask(drive, Fails, Fails)
    BY <1>1, <2>3, RefusedKeeps
  <2> QED BY <2>1, <2>2, <2>3 DEF Ask
<1>4. CASE Ask(drive, Fails, Fails)
  BY <1>1, <1>4, RefusedKeeps
<1>5. CASE /\ drive.obj = job.obj
           /\ Ask(Written(drive, job.obj, data), Settle(job.obj, drive.top + 1), Fails)
  <2>1. data \in Nat \X Nat
    BY DEF IInv, TypeOK, CallOK
  <2>2. AsSeen => data = <<job.body, job.body>>
    BY <1>1 DEF IInv, Whole
  <2> QED BY <1>1, <1>5, <2>1, <2>2, Numbers, WriteKeeps
<1> QED BY <1>2, <1>3, <1>4, <1>5 DEF PutAtItem

LEMMA PutAtPathKeeps == ASSUME IInv, PutAtPath PROVE IInv'
<1>1. pc = "putPath" /\ Stays /\ Busy /\ pc \notin {"done", "remove", "readback"} /\ ~ InSession
  BY SinkOnlyStays DEF PutAtPath, Busy, InSession
<1>2. CASE Ask(drive, Goto("reconcile") /\ UNCHANGED <<known, call>>, Fails)
  <2>1. CASE drive' = drive /\ Goto("reconcile") /\ UNCHANGED <<known, call>>
    BY <1>1, <2>1, LeadsOn DEF Goto, Unasked
  <2>2. CASE Ask(drive, Fails, Fails)
    BY <1>1, <2>2, RefusedKeeps
  <2> QED BY <1>2, <2>1, <2>2 DEF Ask
<1>3. CASE /\ drive.obj = 0
           /\ Ask(Written(drive, drive.objs + 1, data), Settle(drive.objs + 1, drive.top + 1), Fails)
  <2>1. data \in Nat \X Nat /\ drive.objs + 1 \in Nat
    BY Numbers DEF IInv, TypeOK, CallOK
  <2>2. AsSeen => data = <<job.body, job.body>>
    BY <1>1 DEF IInv, Whole
  <2> QED BY <1>1, <1>3, <2>1, <2>2, WriteKeeps
<1> QED BY <1>2, <1>3 DEF PutAtPath, Collided

LEMMA ReconcileKeeps == ASSUME IInv, Reconcile PROVE IInv'
<1>1. pc = "reconcile" /\ Stays /\ Busy /\ pc \notin {"done", "remove", "readback"} /\ ~ InSession
  BY SinkOnlyStays DEF Reconcile, Busy, InSession
<1>2. CASE Ask(drive, Fails, Fails)
  BY <1>1, <1>2, RefusedKeeps
<1>3. CASE drive' = drive /\ drive.obj # 0 /\ drive.body = data /\ Settle(drive.obj, drive.ver)
  <2>1. MovesOn
    BY <1>3, UnaskedMovesOn DEF Unasked
  <2>2. drive.obj \in 1 .. drive'.objs /\ drive.ver <= drive'.top /\ drive.ver \in Nat
    BY <1>3, Numbers DEF IInv, Bounded
  <2>3. drive' = drive /\ (AsSeen => drive'.body = <<job.body, job.body>>)
    BY <1>1, <1>3 DEF IInv, Whole
  <2> QED BY <1>1, <1>3, <2>1, <2>2, <2>3, SettleKeeps
<1> QED BY <1>2, <1>3 DEF Reconcile, Ask

\* A rename writes what is there; if that is not the sink's own, neither is the new version.
LEMMA PatchKeeps == ASSUME IInv, Patch PROVE IInv'
<1> DEFINE after == Written(drive, job.obj, drive.body)
<1>1. /\ pc = "patch" /\ Here /\ Busy /\ pc \notin {"done", "remove", "readback"} /\ ~ InSession
      /\ job.obj # 0 /\ lent \subseteq Nat /\ drive \in Drive
  BY DEF Patch, Busy, InSession, IInv, Settled, TypeOK, KnownOK, DriveOK
<1>2. CASE Ask(drive, Fails, Fails) /\ UNCHANGED lent
  <2>1. Stays
    BY <1>1, <1>2 DEF Stays
  <2> QED BY <1>1, <1>2, <2>1, RefusedKeeps
<1>3. CASE /\ drive.obj = job.obj /\ drive.ver = known[job.obj]
           /\ Ask(after, Settle(job.obj, drive.top + 1), Fails)
           /\ lent' = IF drive.ver \in lent /\ drive' # drive THEN lent \cup {drive'.ver} ELSE lent
  <2>1. drive' \in {drive, after}
    BY <1>3 DEF Ask
  <2>2. job.obj \in Nat /\ drive.body \in Nat \X Nat /\ after \in Drive
    BY <1>1, Numbers, WrittenIs
  <2>3. drive'.ver \in Nat
    BY <1>1, <2>1, <2>2 DEF Drive
  <2>4. Stays
    BY <1>1, <1>3, <2>3 DEF Stays
  <2>5. AsSeen => drive.body = <<job.body, job.body>> \/ drive.ver \in lent
    BY <1>1, <1>3 DEF IInv, Whole, AsSeen, CleanAsKnown, Holds
  <2>6. AsSeen => drive.body = <<job.body, job.body>> \/ (drive' # drive => drive'.ver \in lent')
    BY <1>3, <2>5
  <2> QED BY <1>1, <1>3, <2>2, <2>4, <2>6, WriteKeeps
<1> QED BY <1>2, <1>3 DEF Patch

\* The tag is read back, or there is still none.
LEMMA ReadBackKeeps == ASSUME IInv, ReadBack PROVE IInv'
<1>1. /\ pc = "readback" /\ Here /\ Busy /\ drive' = drive
  BY DEF ReadBack, Busy, Ask, Unasked
<1>2. /\ done.obj \in 1 .. drive.objs /\ done.ver <= drive.top
      /\ drive.obj = done.obj /\ drive.ver \in {known[done.obj], attrs.ver} => done.ver = drive.ver
  BY <1>1 DEF IInv, Settled
<1>3. MovesOn /\ SameObject /\ DriveOK'
  BY <1>1, UnaskedMovesOn DEF Unasked, MovesOn
<1>4. CallOK /\ XferOK /\ KnownOK /\ done.obj \in Obj
  BY <1>2, KnownIs DEF IInv, TypeOK
<1>5. CASE Fails /\ UNCHANGED lent
  BY <1>1, <1>3, <1>4, <1>5, FailsKeeps DEF Stays, KnownOK
<1>6. ASSUME UNCHANGED <<job, fd, data, xfer, seen>>, attempt' \in 1 .. MaxAttempts,
             \/ /\ pc' = "readback" /\ UNCHANGED <<known, done, lent>>
             \/ /\ pc' = "done" /\ UNCHANGED <<known, lent>> /\ done' = [done EXCEPT !.tag = FALSE]
             \/ /\ pc' = "done" /\ drive.obj = done.obj /\ done' = [done EXCEPT !.ver = drive.ver]
                /\ known' = [known EXCEPT ![done.obj] = drive.ver]
                /\ lent' = lent \cup ({drive.ver} \ {done.ver})
      PROVE  IInv'
  <2>1. Stays
    BY <1>1, <1>4, <1>6, Numbers DEF Stays, KnownOK
  <2>2. /\ done' \in [obj : Nat, ver : Nat, tag : BOOLEAN] /\ done'.obj = done.obj
        /\ done'.ver = done.ver \/ (done'.ver = drive.ver /\ drive.obj = done.obj /\ pc' = "done"
                                     /\ (drive.ver = done.ver \/ drive.ver \in lent'))
    BY <1>4, <1>6, Numbers DEF CallOK
  <2>3. CallOK'
    BY <1>4, <1>6, <2>2 DEF CallOK, Points
  <2>4. XferOK'
    BY <1>4, <1>6 DEF XferOK
  <2>5. KnownOK' /\ (known'[done.obj] = known[done.obj] \/ done'.ver = drive.ver)
    <3>1. drive.ver <= drive.top
      BY DEF IInv, Bounded
    <3>2. known' \in [Obj -> Nat] /\ \A o \in Obj : known'[o] <= drive.top
      BY <1>4, <1>6, <3>1, Numbers DEF KnownOK
    <3>3. known'[done.obj] = known[done.obj] \/ done'.ver = drive.ver
      BY <1>4, <1>6 DEF CallOK
    <3> QED BY <1>1, <2>1, <3>2, <3>3, FilesStay DEF KnownOK
  <2>6. Clean' /\ CleanAsKnown'
    <3>1. Clean'
      BY <1>3, <2>1, FilesStay, CleanStays
    <3>2. CleanAsKnown'
      BY <1>1, <1>3, <1>6, <2>1, FilesStay, CleanAsKnownStays DEF CleanAsKnown
    <3> QED BY <3>1, <3>2
  <2>7. Bounded'
    <3>1. job'.ino <= file.ino /\ job'.body <= saves + 1 /\ job'.obj <= drive.objs
          /\ job'.obj \in Nat /\ job'.body \in Nat
      BY <1>6, Numbers DEF IInv, Bounded
    <3> QED BY <1>3, <2>1, <3>1, FilesStay, BoundedStays
  <2>8. Objects'
    BY <1>1, <1>3, <1>6, <2>1, FilesStay, ObjectsStay DEF Abandoned
  <2>9. Stamped'
    BY <1>1, <1>6, <2>1, FilesStay DEF IInv, Stamped
  <2>10. Settled'
    <3>1. attrs' = attrs /\ drive.ver <= drive.top
      BY <2>1, FilesStay DEF IInv, Bounded
    <3> QED BY <1>1, <1>2, <1>6, <2>2, <2>5, <3>1, Zenon DEF Settled
  <2>11. Transfers' /\ Whole'
    <3>1. AsSeen' <=> AsSeen
      BY <1>6, <2>1, FilesStay DEF AsSeen
    <3>2. AsSeen /\ drive.obj = done.obj /\ drive.ver = done.ver => Holds(job.body)
      BY <1>1 DEF IInv, Whole
    <3>3. lent \subseteq lent'
      BY <2>1 DEF Stays
    <3>4. AsSeen /\ drive.obj = done'.obj /\ drive.ver = done'.ver => Holds(job.body)'
      BY <1>1, <1>6, <2>2, <3>2, <3>3 DEF Holds
    <3> QED BY <1>1, <1>6, <3>1, <3>4 DEF Transfers, Whole, InSession
  <2> QED BY <1>3, <2>1, <2>3, <2>4, <2>5, <2>6, <2>7, <2>8, <2>9, <2>10, <2>11, FilesStay DEF
     IInv, TypeOK
<1>7. attempt \in 1 .. MaxAttempts /\ 1 \in 1 .. MaxAttempts
      /\ (attempt < MaxAttempts => attempt + 1 \in 1 .. MaxAttempts)
  <2>1. attempt \in 1 .. MaxAttempts
    BY <1>4 DEF CallOK
  <2> QED BY <2>1, SinkAssumption
<1>8. ReadTag(done.obj) # 0 => drive.obj = done.obj
  BY DEF ReadTag
<1> QED BY <1>1, <1>5, <1>6, <1>7, <1>8 DEF ReadBack, Ask, Goto, call

-----------------------------------------------------------------------------
(* The session.                                                            *)

\* The service's session is this upload's, and holds what was read of the file.
SessionFits ==
    /\ drive'.session.open => drive'.session.into = job.obj
    /\ AsSeen /\ drive'.session.got = Last => drive'.session.part = job.body

SessionPoints == {"check", "read", "recheck", "send", "probe", "range"}

LEMMA SessionStays == ASSUME IInv, InSession, drive' = drive PROVE SessionFits
BY DEF SessionFits, IInv, Transfers, Whole

LEMMA SessionKeeps ==
    ASSUME IInv, Stays, MovesOn, InSession, UNCHANGED <<known, job, fd, done>>, SessionFits,
           data' = data \/ data' = <<fd.body, data[2]>>,
           attempt' \in 1 .. MaxAttempts, XferOK', seen' \in Nat,
           pc' \in SessionPoints \cup {"cancel"},
           pc' # "cancel" =>
              /\ xfer'.stalls < MaxStalls /\ xfer'.faults < MaxFaults
              /\ xfer'.rechecked => seen' = known[job.obj]
              /\ pc' = "send" /\ xfer'.at = Last /\ job.obj # 0 => xfer'.rechecked
              /\ pc' = "recheck" => job.obj # 0
    PROVE  IInv'
<1>1. /\ Busy /\ pc \notin {"done", "remove"} /\ Busy' /\ (InSession' <=> pc' # "cancel")
      /\ pc' \notin {"done", "remove", "readback", "put", "putPath", "reconcile", "session", "patch"}
  BY DEF InSession, Busy, SessionPoints
<1>2. CallOK
  BY DEF IInv, TypeOK
<1>3. data' \in Nat \X Nat
  BY <1>2 DEF CallOK
<1>4. CallOK'
  BY <1>2, <1>3 DEF CallOK, Points, SessionPoints
<1>5. Transfers'
  <2>1. job.obj # 0 => known[job.obj] # 0
    BY DEF IInv, Transfers
  <2> QED BY <1>1, <2>1 DEF Transfers, SessionFits
<1>6. Whole'
  <2>1. AsSeen => fd.body = job.body /\ data = <<job.body, job.body>>
    BY DEF IInv, Whole
  <2>2. AsSeen => data' = <<job.body, job.body>>
    BY <2>1
  <2>3. AsSeen' <=> AsSeen
    BY FilesStay DEF AsSeen
  <2> QED BY <1>1, <2>1, <2>2, <2>3 DEF Whole, SessionFits
<1> QED BY <1>1, <1>4, <1>5, <1>6, GotoKeeps

LEMMA OpenSessionKeeps == ASSUME IInv, OpenSession PROVE IInv'
<1> DEFINE opened == [drive EXCEPT !.session = [Shut EXCEPT !.open = TRUE, !.into = job.obj]]
<1>1. pc = "session" /\ Stays /\ Busy /\ pc \notin {"done", "remove", "readback"} /\ ~ InSession
  BY SinkOnlyStays DEF OpenSession, Busy, InSession
<1>2. drive' = drive => MovesOn
  BY UnaskedMovesOn DEF Unasked
<1>3. CASE Fails /\ Unasked
  BY <1>1, <1>3, UnaskedMovesOn, FailsKeeps
<1>4. CASE Ask(drive, Goto("create") /\ UNCHANGED <<known, call>>, Fails)
  <2>1. CASE drive' = drive /\ Goto("create") /\ UNCHANGED <<known, call>>
    BY <1>1, <2>1, LeadsOn DEF Goto, Unasked
  <2>2. CASE Ask(drive, Fails, Fails)
    BY <1>1, <2>2, RefusedKeeps
  <2> QED BY <1>4, <2>1, <2>2 DEF Ask
<1>5. CASE Ask(drive, Fails, Fails)
  BY <1>1, <1>5, RefusedKeeps
<1>6. CASE /\ job.obj # 0 => Precondition(job.obj) # 0
           /\ Ask(opened, /\ Goto("check") /\ xfer' = NoXfer
                          /\ UNCHANGED <<known, job, fd, data, done, seen>>, Fails)
  <2> DEFINE s == [Shut EXCEPT !.open = TRUE, !.into = job.obj]
  <2>1. s \in Session /\ s.into = job.obj /\ s.got = 0
    <3>1. s \in Session
      BY ShutIs, Numbers DEF Session
    <3>2. s.into = job.obj /\ s.got = 0
      BY Zenon DEF Shut
    <3> QED BY <3>1, <3>2
  <2> HIDE DEF s
  <2>2. drive' = opened => MovesOn /\ drive'.session = s
    BY <2>1, SessionMovesOn DEF s
  <2>3. CASE drive' \in {drive, opened} /\ Fails
    BY <1>1, <1>2, <2>2, <2>3, FailsKeeps
  <2>4. CASE /\ drive' \in {drive, opened}
             /\ attempt < MaxAttempts /\ attempt' = attempt + 1 /\ UNCHANGED <<pc, known, call>>
    BY <1>1, <1>2, <2>2, <2>4, RetryKeeps
  <2>5. CASE /\ drive' = opened /\ Goto("check") /\ xfer' = NoXfer
             /\ UNCHANGED <<known, job, fd, data, done, seen>>
    <3>1. MovesOn /\ drive'.session = s /\ pc' = "check" /\ attempt' = 1
      BY <2>2, <2>5 DEF Goto
    <3>2. /\ xfer'.at = 0 /\ xfer'.stalls = 0 /\ xfer'.faults = 0 /\ ~ xfer'.rechecked /\ XferOK'
      BY <2>5, SinkAssumption DEF XferOK, NoXfer, Last, Ceiling, Total
    <3>3. CallOK
      BY DEF IInv, TypeOK
    <3>4. CallOK'
      BY <2>5, <3>1, <3>3, SinkAssumption DEF CallOK, Points
    <3>5. Transfers'
      <4>1. 0 < MaxStalls /\ 0 < MaxFaults
        BY SinkAssumption
      <4> QED BY <1>6, <2>1, <2>5, <3>1, <3>2, <4>1 DEF Transfers, Precondition
    <3>6. Whole'
      <4>1. AsSeen' => AsSeen
        BY <1>1, <2>5, FilesStay DEF AsSeen
      <4>2. AsSeen => fd.body = job.body /\ data = <<job.body, job.body>>
        BY <1>1 DEF IInv, Whole
      <4>3. drive'.session.got # Last
        BY <2>1, <3>1 DEF Last
      <4> QED BY <2>5, <3>1, <4>1, <4>2, <4>3 DEF Whole
    <3>7. Busy' /\ pc' \notin {"done", "remove", "readback", "put", "patch"}
      BY <3>1 DEF Busy
    <3> QED BY <1>1, <2>5, <3>1, <3>2, <3>4, <3>5, <3>6, <3>7, GotoKeeps
  <2> QED BY <1>6, <2>3, <2>4, <2>5 DEF Ask
<1> QED BY <1>1, <1>3, <1>4, <1>5, <1>6 DEF OpenSession

LEMMA CheckKeeps == ASSUME IInv, Check PROVE IInv'
<1>1. /\ pc = "check" /\ Unasked /\ Stays /\ UNCHANGED <<known, job, fd, data, done, seen>>
      /\ attempt' = 1 /\ pc' \in {"cancel", "read"} /\ InSession
      /\ \/ UNCHANGED xfer
         \/ xfer.sent <= Ceiling /\ xfer' = [xfer EXCEPT !.sent = @ + 1]
  <2>1. XferOK
    BY DEF IInv, TypeOK
  <2>2. Ceiling \in Nat /\ xfer.sent \in Nat
    BY <2>1, SinkAssumption DEF XferOK, Ceiling, Total, Last
  <2> QED BY <2>2, SinkOnlyStays DEF Check, Same, Goto, InSession
<1>2. XferOK /\ seen \in Nat
  BY DEF IInv, TypeOK, CallOK
<1>3. /\ xfer'.at = xfer.at /\ xfer'.stalls = xfer.stalls /\ xfer'.faults = xfer.faults
      /\ xfer'.rechecked = xfer.rechecked
  BY <1>1, <1>2, Zenon DEF XferOK
<1>4. XferOK'
  BY <1>1, <1>2, SinkAssumption DEF XferOK, Ceiling, Total, Last
<1>5. MovesOn /\ SessionFits
  BY <1>1, UnaskedMovesOn, SessionStays
<1>6. 1 \in 1 .. MaxAttempts
  BY SinkAssumption
<1>7. xfer.stalls < MaxStalls /\ xfer.faults < MaxFaults /\ (xfer.rechecked => seen = known[job.obj])
  BY <1>1 DEF IInv, Transfers
<1>8. xfer'.rechecked => seen' = known[job.obj]
  BY <1>1, <1>3, <1>7, Zenon
<1> QED BY <1>1, <1>2, <1>3, <1>4, <1>5, <1>6, <1>7, <1>8, SessionKeeps DEF SessionPoints

LEMMA ReadKeeps == ASSUME IInv, Read PROVE IInv'
<1>1. /\ pc = "read" /\ Unasked /\ Stays /\ UNCHANGED <<known, job, fd, xfer, done, seen>>
      /\ data' = <<fd.body, data[2]>> /\ attempt' = 1 /\ InSession
      /\ pc' = IF xfer.at = Last /\ job.obj # 0 /\ ~ xfer.rechecked THEN "recheck" ELSE "send"
  BY SinkOnlyStays DEF Read, Goto, InSession
<1>2. XferOK /\ seen \in Nat
  BY DEF IInv, TypeOK, CallOK
<1>3. XferOK'
  BY <1>1, <1>2 DEF XferOK
<1>4. MovesOn /\ SessionFits
  BY <1>1, UnaskedMovesOn, SessionStays
<1>5. 1 \in 1 .. MaxAttempts
  BY SinkAssumption
<1>6. xfer.stalls < MaxStalls /\ xfer.faults < MaxFaults /\ (xfer.rechecked => seen = known[job.obj])
  BY <1>1 DEF IInv, Transfers
<1> QED BY <1>1, <1>2, <1>3, <1>4, <1>5, <1>6, SessionKeeps DEF SessionPoints

LEMMA RecheckKeeps == ASSUME IInv, Recheck PROVE IInv'
<1>1. pc = "recheck" /\ Stays /\ InSession /\ Busy /\ job.obj # 0 /\ pc \notin {"done", "remove"}
  BY SinkOnlyStays DEF Recheck, InSession, Busy, IInv, Transfers
<1>2. drive' = drive
  BY DEF Recheck, Ask
<1>3. MovesOn /\ SessionFits
  BY <1>1, <1>2, UnaskedMovesOn, SessionStays DEF Unasked
<1>4. XferOK /\ seen \in Nat /\ attempt \in 1 .. MaxAttempts
  BY DEF IInv, TypeOK, CallOK
<1>5. 1 \in 1 .. MaxAttempts /\ (attempt < MaxAttempts => attempt + 1 \in 1 .. MaxAttempts)
  BY <1>4, SinkAssumption
<1>6. xfer.stalls < MaxStalls /\ xfer.faults < MaxFaults /\ (xfer.rechecked => seen = known[job.obj])
  BY <1>1 DEF IInv, Transfers
<1>7. CASE Goto("cancel") /\ UNCHANGED <<known, call>>
  <2>1. UNCHANGED <<known, job, fd, data, xfer, done, seen>> /\ pc' = "cancel" /\ attempt' = 1
    BY <1>7 DEF call, Goto
  <2>2. XferOK'
    BY <1>4, <2>1 DEF XferOK
  <2> QED BY <1>1, <1>3, <1>4, <1>5, <2>1, <2>2, SessionKeeps
<1>8. CASE attempt < MaxAttempts /\ attempt' = attempt + 1 /\ UNCHANGED <<pc, known, call>>
  <2>1. UNCHANGED <<pc, known, job, fd, data, xfer, done, seen>> /\ attempt' \in 1 .. MaxAttempts
    BY <1>5, <1>8 DEF call
  <2>2. XferOK'
    BY <1>4, <2>1 DEF XferOK
  <2> QED BY <1>1, <1>3, <1>4, <1>6, <2>1, <2>2, SessionKeeps DEF SessionPoints
<1>9. CASE /\ ReadTag(job.obj) = Precondition(job.obj)
           /\ Goto("send") /\ seen' = drive.ver /\ xfer' = [xfer EXCEPT !.rechecked = TRUE]
           /\ UNCHANGED <<known, job, fd, data, done>>
  <2>1. seen' = known[job.obj] /\ seen' \in Nat
    <3>1. known[job.obj] # 0
      BY <1>1 DEF IInv, Transfers
    <3> QED BY <1>9, <3>1, Numbers DEF ReadTag, Precondition
  <2>2. /\ xfer'.stalls = xfer.stalls /\ xfer'.faults = xfer.faults /\ xfer'.rechecked
    BY <1>4, <1>9, Zenon DEF XferOK
  <2>3. XferOK'
    BY <1>4, <1>9 DEF XferOK
  <2>4. pc' = "send" /\ attempt' = 1
    BY <1>9 DEF Goto
  <2> QED BY <1>1, <1>3, <1>5, <1>6, <1>9, <2>1, <2>2, <2>3, <2>4, SessionKeeps DEF SessionPoints
<1> QED BY <1>7, <1>8, <1>9 DEF Recheck, Ask

\* The fragment that completes the file makes a version, or there is none to be made.
LEMMA AssembledMovesOn ==
    ASSUME IInv, pc = "send", drive' = Assembled
    PROVE  /\ MovesOn /\ SessionFits
           /\ Commits => /\ drive'.obj \in 1 .. drive'.objs
                         /\ drive'.ver \in Nat /\ drive'.ver <= drive'.top
                         /\ AsSeen => drive'.body = <<job.body, job.body>>
<1> DEFINE d == [drive EXCEPT !.session = Shut]
           obj == IF drive.session.into # 0 THEN drive.session.into ELSE drive.objs + 1
           body == <<drive.session.part, data[1]>>
<1>1. drive \in Drive /\ drive.session.into \in Nat /\ drive.session.part \in Nat /\ data \in Nat \X Nat
  BY DEF IInv, TypeOK, DriveOK, Drive, Session, CallOK
<1>2. d \in Drive /\ d.obj = drive.obj /\ d.ver = drive.ver /\ d.top = drive.top
      /\ d.objs = drive.objs /\ d.session = Shut
  BY <1>1, ShutIs DEF Drive
<1>3. obj \in Nat /\ body \in Nat \X Nat
  BY <1>1, Numbers
<1>4. CASE drive.session.into = drive.obj
  <2>1. (obj = drive.obj /\ obj # 0) \/ (drive.obj = 0 /\ obj = drive.objs + 1)
    BY <1>4
  <2>2. drive' = Written(d, obj, body)
    BY <1>4 DEF Assembled
  <2> HIDE DEF d, obj, body
  <2>3. /\ MovesOn /\ drive'.session = Shut /\ drive'.body = body
        /\ drive'.obj = obj /\ obj \in 1 .. drive'.objs
        /\ drive'.ver = drive.top + 1 /\ drive'.top = drive.top + 1
    BY <1>2, <1>3, <2>1, <2>2, WrittenMovesOn
  <2>4. SessionFits
    BY <2>3, ShutIs DEF SessionFits
  <2>5. Commits /\ AsSeen => drive'.body = <<job.body, job.body>>
    <3>1. Commits /\ AsSeen => drive.session.part = job.body /\ data = <<job.body, job.body>>
      BY DEF Commits, Expected, IInv, Whole, InSession
    <3> QED BY <2>3, <3>1 DEF body
  <2> QED BY <2>3, <2>4, <2>5, Numbers
<1>5. CASE drive.session.into # drive.obj
  <2>1. drive' = drive /\ ~ Commits
    BY <1>5 DEF Assembled, Commits
  <2> QED BY <2>1, UnaskedMovesOn, SessionStays DEF Unasked, InSession
<1> QED BY <1>4, <1>5

\* A fragment the service has taken.
LEMMA TakenMovesOn ==
    ASSUME IInv, pc = "send", Expected, drive' = Taken
    PROVE  MovesOn /\ SessionFits
<1>1. CASE xfer.at = Last
  BY <1>1, AssembledMovesOn DEF Taken
<1>2. CASE xfer.at # Last
  <2> DEFINE s == [drive.session EXCEPT !.got = 1, !.part = data[1]]
  <2>1. drive.session \in Session /\ data[1] \in Nat
    BY DEF IInv, TypeOK, DriveOK, Drive, CallOK
  <2>2. s \in Session
    BY <2>1, 1 \in 0 .. Last DEF Session, Last
  <2>3. s.part = data[1] /\ s.into = drive.session.into /\ s.open = drive.session.open
    BY <2>1, Zenon DEF Session
  <2>4. drive' = [drive EXCEPT !.session = s]
    BY <1>2 DEF Taken
  <2> HIDE DEF s
  <2>5. MovesOn /\ drive'.session = s
    BY <2>2, <2>4, SessionMovesOn
  <2>6. drive.session.open => drive.session.into = job.obj
    BY DEF IInv, Transfers, InSession
  <2>7. AsSeen => data[1] = job.body
    BY DEF IInv, Whole, InSession
  <2> QED BY <2>3, <2>5, <2>6, <2>7, Zenon DEF SessionFits
<1> QED BY <1>1, <1>2

LEMMA NextRangeKeeps ==
    ASSUME IInv, Stays, MovesOn, SessionFits, pc = "send", NEW next \in 0 .. Last, NextRange(next)
    PROVE  IInv'
<1>1. attempt' = 1 /\ UNCHANGED <<known, job, fd, data, done, seen>> /\ InSession
  BY DEF NextRange, Same, InSession
<1>2. XferOK /\ seen \in Nat /\ 1 \in 1 .. MaxAttempts
  BY SinkAssumption DEF IInv, TypeOK, CallOK
<1>3. xfer.stalls < MaxStalls /\ xfer.faults < MaxFaults /\ (xfer.rechecked => seen = known[job.obj])
  BY <1>1 DEF IInv, Transfers
<1>4. CASE xfer' = [xfer EXCEPT !.at = next, !.stalls = 0] /\ pc' = "check"
  <2>1. xfer'.stalls = 0 /\ xfer'.faults = xfer.faults /\ xfer'.rechecked = xfer.rechecked
    BY <1>2, <1>4, Zenon DEF XferOK
  <2>2. 0 \in 0 .. MaxStalls /\ 0 < MaxStalls
    BY SinkAssumption
  <2>3. XferOK'
    BY <1>2, <1>4, <2>2 DEF XferOK
  <2>4. xfer'.rechecked => seen' = known[job.obj]
    BY <1>1, <1>3, <2>1, Zenon
  <2> QED BY <1>1, <1>2, <1>3, <1>4, <2>1, <2>2, <2>3, <2>4, SessionKeeps DEF SessionPoints
<1>5. CASE /\ xfer' = [xfer EXCEPT !.at = next, !.stalls = @ + 1]
           /\ pc' = IF xfer.stalls + 1 >= MaxStalls THEN "cancel" ELSE "check"
  <2>1. xfer'.stalls = xfer.stalls + 1 /\ xfer'.faults = xfer.faults
        /\ xfer'.rechecked = xfer.rechecked
    BY <1>2, <1>5, Zenon DEF XferOK
  <2>2. xfer.stalls \in Nat /\ xfer.stalls + 1 \in 0 .. MaxStalls
    BY <1>2, <1>3, SinkAssumption DEF XferOK
  <2>3. pc' \in {"check", "cancel"} /\ (pc' # "cancel" => xfer.stalls + 1 < MaxStalls)
    BY <1>5, <2>2, SinkAssumption
  <2>4. xfer'.rechecked => seen' = known[job.obj]
    BY <1>1, <1>3, <2>1, Zenon
  <2>5. XferOK'
    BY <1>2, <1>5, <2>2 DEF XferOK
  <2> QED BY <1>1, <1>2, <1>3, <2>1, <2>2, <2>3, <2>4, <2>5, SessionKeeps DEF SessionPoints
<1> QED BY <1>4, <1>5 DEF NextRange

\* The transfer leaves this point with its counters as they are.
LEMMA SendLeads ==
    ASSUME IInv, Stays, MovesOn, SessionFits, pc = "send",
           UNCHANGED <<known, job, fd, data, xfer, done, seen>>, attempt' \in 1 .. MaxAttempts,
           pc' \in {"send", "range", "cancel"}
    PROVE  IInv'
<1>1. InSession
  BY DEF InSession
<1>2. XferOK /\ seen \in Nat
  BY DEF IInv, TypeOK, CallOK
<1>3. XferOK'
  BY <1>2 DEF XferOK
<1>4. /\ xfer.stalls < MaxStalls /\ xfer.faults < MaxFaults /\ (xfer.rechecked => seen = known[job.obj])
      /\ xfer.at = Last /\ job.obj # 0 => xfer.rechecked
  BY <1>1 DEF IInv, Transfers
<1> QED BY <1>1, <1>2, <1>3, <1>4, SessionKeeps DEF SessionPoints

LEMMA SendKeeps == ASSUME IInv, Send PROVE IInv'
<1>1. pc = "send" /\ Stays /\ InSession /\ Busy /\ pc \notin {"done", "remove"}
  BY SinkOnlyStays DEF Send, InSession, Busy
<1>2. 1 \in 1 .. MaxAttempts /\ attempt \in 1 .. MaxAttempts
  BY SinkAssumption DEF IInv, TypeOK, CallOK
<1>3. drive' = drive => MovesOn /\ SessionFits
  BY <1>1, UnaskedMovesOn, SessionStays DEF Unasked
<1>4. CASE Commits /\ drive' = Assembled /\ Settle(drive'.obj, drive'.ver)
  <2>1. /\ MovesOn /\ drive'.obj \in 1 .. drive'.objs
        /\ drive'.ver \in Nat /\ drive'.ver <= drive'.top
        /\ AsSeen => drive'.body = <<job.body, job.body>>
    BY <1>1, <1>4, AssembledMovesOn
  <2> DEFINE o == drive'.obj
             v == drive'.ver
  <2>2. Settle(o, v) /\ o \in 1 .. drive'.objs /\ v \in Nat /\ v <= drive'.top
    BY <1>4, <2>1
  <2> QED BY <1>1, <2>1, <2>2, SettleKeeps
<1>5. CASE Expected /\ xfer.at # Last /\ drive' = Taken /\ NextRange(1)
  <2>1. 1 \in 0 .. Last
    BY DEF Last
  <2> QED BY <1>1, <1>5, <2>1, TakenMovesOn, NextRangeKeeps
<1>6. ASSUME drive.session.open, NEW next \in 0 .. drive.session.got,
             drive' = [drive EXCEPT !.session = [@ EXCEPT !.got = next]], NextRange(next)
      PROVE  IInv'
  <2> DEFINE s == [drive.session EXCEPT !.got = next]
  <2>1. drive.session \in Session
    BY DEF IInv, TypeOK, DriveOK, Drive
  <2>2. next \in 0 .. Last /\ (next = Last => drive.session.got = Last)
    BY <2>1 DEF Session, Last
  <2>3. s \in Session /\ s.got = next /\ s.part = drive.session.part /\ s.into = drive.session.into
    BY <2>1, <2>2 DEF Session
  <2>4. drive' = [drive EXCEPT !.session = s]
    BY <1>6
  <2> HIDE DEF s
  <2>5. MovesOn /\ drive'.session = s
    BY <2>3, <2>4, SessionMovesOn
  <2>6. drive.session.into = job.obj /\ (AsSeen /\ drive.session.got = Last => s.part = job.body)
    BY <1>1, <1>6, <2>3 DEF IInv, Transfers, Whole
  <2>7. SessionFits
    BY <2>2, <2>3, <2>5, <2>6 DEF SessionFits
  <2> QED BY <1>1, <1>6, <2>2, <2>5, <2>7, NextRangeKeeps
<1>7. CASE Unasked /\ (Goto("range") \/ Goto("cancel")) /\ Same /\ UNCHANGED xfer
  BY <1>1, <1>2, <1>3, <1>7, SendLeads DEF Unasked, Goto, Same
<1>8. CASE Unasked /\ Fails
  BY <1>1, <1>3, <1>8, FailsKeeps DEF Unasked
<1>9. ASSUME drive' \in {drive} \cup (IF Expected THEN {Taken} ELSE {})
      PROVE  MovesOn /\ SessionFits
  BY <1>1, <1>3, <1>9, TakenMovesOn
<1>10. CASE /\ drive' \in {drive} \cup (IF Expected THEN {Taken} ELSE {})
            /\ Again
  <2>1. attempt' \in 1 .. MaxAttempts
    BY <1>2, <1>10, SinkAssumption DEF Again
  <2> QED BY <1>1, <1>9, <1>10, <2>1, SendLeads DEF Again, call
<1>11. CASE /\ drive' \in {drive} \cup (IF Expected THEN {Taken} ELSE {})
            /\ attempt' = 1 /\ Same /\ xfer' = [xfer EXCEPT !.faults = @ + 1]
            /\ pc' = IF xfer.faults + 1 >= MaxFaults THEN "cancel" ELSE "probe"
  <2>1. UNCHANGED <<known, job, fd, data, done, seen>>
    BY <1>11 DEF Same
  <2>2. XferOK /\ seen \in Nat
    BY DEF IInv, TypeOK, CallOK
  <2>3. xfer.stalls < MaxStalls /\ xfer.faults < MaxFaults /\ (xfer.rechecked => seen = known[job.obj])
    BY <1>1 DEF IInv, Transfers
  <2>4. xfer'.faults = xfer.faults + 1 /\ xfer'.stalls = xfer.stalls
        /\ xfer'.rechecked = xfer.rechecked
    BY <1>11, <2>2, Zenon DEF XferOK
  <2>5. XferOK' /\ xfer.faults \in Nat
    BY <1>11, <2>2, <2>3, SinkAssumption DEF XferOK
  <2>6. pc' \in {"probe", "cancel"} /\ (pc' # "cancel" => xfer.faults + 1 < MaxFaults)
    BY <1>11, <2>5, SinkAssumption
  <2>7. xfer'.rechecked => seen' = known[job.obj]
    BY <2>1, <2>3, <2>4, Zenon
  <2> QED BY <1>1, <1>2, <1>9, <1>11, <2>1, <2>2, <2>3, <2>4, <2>5, <2>6, <2>7, SessionKeeps DEF
     SessionPoints
<1> QED BY <1>4, <1>5, <1>6, <1>7, <1>8, <1>10, <1>11 DEF Send

LEMMA ProbeKeeps == ASSUME IInv, Probe PROVE IInv'
<1>1. /\ pc \in {"probe", "range"} /\ InSession /\ Stays /\ Unasked
      /\ UNCHANGED <<known, job, fd, data, done, seen>> /\ attempt' = 1
  BY SinkOnlyStays DEF Probe, Same, Goto, InSession
<1>2. XferOK /\ seen \in Nat /\ 1 \in 1 .. MaxAttempts
  BY SinkAssumption DEF IInv, TypeOK, CallOK
<1>3. MovesOn /\ SessionFits
  BY <1>1, UnaskedMovesOn, SessionStays
<1>4. xfer.stalls < MaxStalls /\ xfer.faults < MaxFaults /\ (xfer.rechecked => seen = known[job.obj])
  BY <1>1 DEF IInv, Transfers
<1>5. CASE pc' = "check" /\ xfer' = [xfer EXCEPT !.at = Outstanding]
  <2>1. Outstanding \in 0 .. Last
    BY DEF Outstanding, IInv, TypeOK, DriveOK, Drive, Session
  <2>2. xfer'.stalls = xfer.stalls /\ xfer'.faults = xfer.faults /\ xfer'.rechecked = xfer.rechecked
    BY <1>2, <1>5, Zenon DEF XferOK
  <2>3. XferOK'
    BY <1>2, <1>5, <2>1 DEF XferOK
  <2>4. xfer'.rechecked => seen' = known[job.obj]
    BY <1>1, <1>4, <2>2, Zenon
  <2> QED BY <1>1, <1>2, <1>3, <1>4, <1>5, <2>2, <2>3, <2>4, SessionKeeps DEF SessionPoints
<1>6. CASE pc' \in {"check", "cancel"} /\ UNCHANGED xfer
  <2>1. XferOK'
    BY <1>2, <1>6 DEF XferOK
  <2> QED BY <1>1, <1>2, <1>3, <1>4, <1>6, <2>1, SessionKeeps DEF SessionPoints
<1> QED BY <1>5, <1>6 DEF Probe, Goto

LEMMA CancelKeeps == ASSUME IInv, Cancel PROVE IInv'
<1>1. pc = "cancel" /\ Stays /\ Fails /\ pc \notin {"done", "remove"}
  BY SinkOnlyStays DEF Cancel
<1>2. MovesOn
  BY UnaskedMovesOn, SessionMovesOn, ShutIs DEF Cancel, Unasked
<1> QED BY <1>1, <1>2, FailsKeeps

-----------------------------------------------------------------------------
(* The outcome, the rename and the folder.                                 *)

LEMMA AdoptKeeps == ASSUME IInv, Adopt PROVE IInv'
<1>1. /\ pc = "done" /\ Busy /\ Unasked
      /\ UNCHANGED <<folder, file, large, saves, others, lent>>
  BY DEF Adopt, Busy
<1>2. /\ done.obj \in 1 .. drive.objs /\ done.ver <= drive.top
      /\ drive.obj = done.obj /\ drive.ver \in {known[done.obj], attrs.ver} => done.ver = drive.ver
  BY <1>1 DEF IInv, Settled
<1>3. drive' = drive /\ DriveOK' /\ SameObject /\ lent \subseteq Nat
  BY <1>1, UnaskedMovesOn DEF MovesOn, IInv, TypeOK, KnownOK
<1>4. CASE file.ino = job.ino /\ file.body # 0
  <2>1. attrs' = [obj |-> done.obj, stamp |-> job.body,
                  ver |-> IF done.tag THEN done.ver ELSE attrs.ver] /\ Fails
    BY <1>4 DEF Adopt, Tagged
  <2>2. attrs'.obj = done.obj /\ attrs'.ver \in {done.ver, attrs.ver} /\ attrs'.stamp = job.body
    BY <2>1
  <2>3. FilesOK'
    BY <1>1, <2>1, Numbers DEF IInv, TypeOK, FilesOK
  <2>4. Clean' /\ CleanAsKnown'
    <3>1. AsSeen /\ drive.obj = done.obj /\ drive.ver = done.ver => Holds(job.body)
      BY <1>1 DEF IInv, Whole
    <3>2. Clean'
      BY <1>1, <1>2, <1>3, <1>4, <2>2, <3>1 DEF AsSeen, Clean, Holds
    <3>3. CleanAsKnown'
      BY <1>1, <1>2, <1>3, <1>4, <2>1, <2>2, <3>1, FailsLeaves DEF AsSeen, CleanAsKnown, Holds
    <3> QED BY <3>2, <3>3
  <2>5. /\ Bounded' /\ Objects'
    <3>1. Bounded'
      BY <1>1, <1>2, <1>3, <2>1, <2>2, FailsLeaves, Numbers DEF IInv, Bounded
    <3>2. ~ Abandoned /\ ~ Abandoned'
      BY <1>4, <2>1, FailsLeaves DEF Abandoned
    <3>3. Objects'
      BY <1>1, <1>3, <3>2, ObjectsStay
    <3> QED BY <3>1, <3>3
  <2>6. KnownOK' /\ Stamped'
    BY <1>1, <1>2, <1>3, <1>4, <2>1, <2>2, FailsLeaves, Numbers, KnownStays DEF Stamped
  <2>7. Settled' /\ Transfers' /\ Whole'
    BY <2>1, FailsLeaves DEF Settled, Transfers, Whole
  <2> QED BY <1>3, <2>1, <2>3, <2>4, <2>5, <2>6, <2>7, FailsLeaves DEF IInv, TypeOK
<1>5. CASE ~ (file.ino = job.ino /\ file.body # 0)
  <2>1. /\ pc' = "remove" /\ attempt' = 1 /\ UNCHANGED attrs
        /\ UNCHANGED <<known, job, fd, data, xfer, done, seen>>
    BY <1>5 DEF Adopt, Goto, call
  <2>2. FilesOK' /\ CallOK' /\ XferOK' /\ KnownOK'
    <3>1. FilesOK'
      BY <1>1, <2>1 DEF IInv, TypeOK, FilesOK
    <3>2. CallOK'
      BY <2>1, SinkAssumption DEF IInv, TypeOK, CallOK, Points
    <3>3. XferOK'
      BY <2>1 DEF IInv, TypeOK, XferOK
    <3>4. KnownOK'
      BY <1>1, <1>3, <2>1 DEF IInv, TypeOK, KnownOK
    <3> QED BY <3>1, <3>2, <3>3, <3>4
  <2>3. Clean'
    BY <1>1, <1>3, <2>1, CleanStays
  <2>4. Bounded'
    BY <1>1, <1>3, <2>1 DEF IInv, Bounded
  <2>5. Abandoned /\ Abandoned' /\ (attrs.stamp # 0 => file.ino = job.ino /\ file.body # 0)
    BY <1>1, <1>5, <2>1 DEF Abandoned, Busy, IInv, Stamped
  <2>6. Objects'
    BY <1>1, <1>3, <2>5, ObjectsStay
  <2>7. Stamped' /\ CleanAsKnown'
    BY <1>1, <1>5, <2>1, <2>5 DEF Stamped, CleanAsKnown
  <2>8. Settled'
    BY <1>2, <1>3, <2>1 DEF Settled
  <2>9. Transfers' /\ Whole'
    BY <2>1 DEF Transfers, Whole, InSession
  <2> QED BY <1>3, <2>2, <2>3, <2>4, <2>6, <2>7, <2>8, <2>9 DEF IInv, TypeOK
<1> QED BY <1>4, <1>5

LEMMA RemoveKeeps == ASSUME IInv, Remove PROVE IInv'
<1>1. pc = "remove" /\ Stays /\ Abandoned
  BY SinkOnlyStays DEF Remove, IInv, Stamped
<1>2. /\ done.obj \in 1 .. drive.objs /\ done.ver <= drive.top
      /\ drive.obj = done.obj /\ drive.ver \in {known[done.obj], attrs.ver} => done.ver = drive.ver
  BY <1>1 DEF IInv, Settled
<1>3. DriveOK' /\ (SameObject \/ Removed)
  <2> DEFINE gone == [drive EXCEPT !.obj = 0, !.ver = 0, !.body = <<0, 0>>]
  <2>1. drive \in Drive
    BY DEF IInv, TypeOK, DriveOK
  <2>2. CASE drive' = drive
    BY <2>2, UnaskedMovesOn DEF Unasked, MovesOn
  <2>3. CASE drive' = gone /\ drive.obj = done.obj
    <3>1. gone \in Drive /\ gone.obj = 0 /\ gone.ver = 0 /\ gone.top = drive.top
          /\ gone.objs = drive.objs
      BY <2>1 DEF Drive
    <3> QED BY <1>2, <2>3, <3>1, Numbers DEF Removed, DriveOK
  <2> QED BY <2>2, <2>3 DEF Remove, Ask
<1>4. Clean' /\ (UNCHANGED known => CleanAsKnown')
  BY <1>3, FilesStay, <1>1, CleanStays, CleanAsKnownStays
<1>5. CASE Fails
  <2>1. Bounded' /\ drive'.top >= drive.top
    <3>1. job'.ino <= file.ino /\ job'.body <= saves + 1 /\ job'.obj <= drive.objs
          /\ job'.obj \in Nat /\ job'.body \in Nat
      BY <1>5, FailsLeaves, Numbers
    <3> QED BY <1>1, <1>3, <3>1, FilesStay, BoundedStays
  <2>2. Objects'
    <3>1. ~ Busy'
      BY <1>5, FailsLeaves
    <3>2. saves' = saves /\ others' = others
      BY <1>1, FilesStay
    <3>3. CASE SameObject
      BY <1>1, <3>1, <3>2, <3>3, Numbers DEF SameObject, IInv, Objects, Abandoned
    <3>4. CASE Removed
      BY <1>1, <3>1, <3>2, <3>4, Numbers DEF Removed, IInv, Objects, Abandoned
    <3> QED BY <1>3, <3>3, <3>4
  <2>3. KnownOK'
    <3>1. drive'.top \in Nat
      BY <1>3 DEF DriveOK, Drive
    <3> QED BY <1>1, <1>5, <2>1, <3>1, FailsLeaves, FilesStay, KnownStays
  <2>4. Stamped'
    BY <1>1, <1>5, FailsLeaves, FilesStay DEF IInv, Stamped
  <2>5. Settled' /\ Transfers' /\ Whole'
    BY <1>5, FailsLeaves DEF Settled, Transfers, Whole
  <2> QED BY <1>1, <1>3, <1>4, <1>5, <2>1, <2>2, <2>3, <2>4, <2>5, FilesStay, FailsLeaves DEF
     IInv, TypeOK
<1>6. CASE attempt < MaxAttempts /\ attempt' = attempt + 1 /\ UNCHANGED <<pc, known, call>>
  <2>1. UNCHANGED <<pc, known, job, fd, data, xfer, done, seen>>
        /\ UNCHANGED <<file, attrs, saves, others>>
    BY <1>1, <1>6, FilesStay DEF call
  <2>2. CallOK' /\ XferOK'
    <3>1. CallOK /\ XferOK
      BY DEF IInv, TypeOK
    <3>2. attempt' \in 1 .. MaxAttempts
      BY <1>6, <3>1, SinkAssumption DEF CallOK
    <3>3. CallOK'
      BY <2>1, <3>1, <3>2 DEF CallOK
    <3>4. XferOK'
      BY <2>1, <3>1 DEF XferOK
    <3> QED BY <3>3, <3>4
  <2>3. Bounded' /\ drive'.top >= drive.top
    <3>1. job'.ino <= file.ino /\ job'.body <= saves + 1 /\ job'.obj <= drive.objs
          /\ job'.obj \in Nat /\ job'.body \in Nat
      BY <2>1, Numbers DEF IInv, Bounded
    <3> QED BY <1>1, <1>3, <3>1, FilesStay, BoundedStays
  <2>4. Abandoned' /\ pc' = "remove"
    BY <1>1, <2>1 DEF Abandoned, Busy
  <2>5. Objects'
    <3>1. CASE SameObject
      BY <1>1, <2>1, <2>4, <3>1 DEF SameObject, IInv, Objects
    <3>2. CASE Removed
      <4>1. drive.objs + 1 <= 1 + saves + others
        BY <1>1, <3>2, Numbers DEF Removed, IInv, Objects
      <4> QED BY <2>1, <2>4, <3>2, <4>1, Numbers DEF Removed, Objects
    <3> QED BY <1>3, <3>1, <3>2
  <2>6. KnownOK'
    <3>1. drive'.top \in Nat
      BY <1>3 DEF DriveOK, Drive
    <3> QED BY <1>1, <2>1, <2>3, <3>1, FilesStay, KnownStays
  <2>7. Stamped'
    BY <1>1, <2>1, <2>4 DEF IInv, Stamped, Busy
  <2>8. Settled'
    <3>1. /\ drive'.objs = drive.objs /\ drive'.top = drive.top
          /\ drive'.obj = done.obj => drive'.obj = drive.obj /\ drive'.ver = drive.ver
      BY <1>2, <1>3 DEF SameObject, Removed
    <3> QED BY <1>1, <1>2, <2>1, <3>1 DEF Settled
  <2>9. Transfers' /\ Whole'
    BY <1>1, <2>1 DEF Transfers, Whole, InSession
  <2> QED BY <1>1, <1>3, <1>4, <2>1, <2>2, <2>3, <2>5, <2>6, <2>7, <2>8, <2>9, FilesStay DEF IInv,
     TypeOK
<1> QED BY <1>5, <1>6 DEF Remove, Ask

LEMMA MoveKeeps == ASSUME IInv, Move PROVE IInv'
<1>1. /\ pc = "idle" /\ saves < MaxSaves /\ saves' = saves + 1 /\ attrs.obj # 0 /\ file.body # 0
      /\ known' = IF known[attrs.obj] = 0 THEN [known EXCEPT ![attrs.obj] = attrs.ver] ELSE known
      /\ job' = [ino |-> file.ino, body |-> attrs.stamp, obj |-> attrs.obj]
      /\ pc' = "patch" /\ attempt' = 1
      /\ Unasked /\ UNCHANGED <<folder, file, attrs, fd, data, xfer, done, seen, lent, others, large>>
  BY DEF Move, Goto
<1>2. drive' = drive /\ DriveOK' /\ SameObject
  BY <1>1, UnaskedMovesOn DEF MovesOn
<1>3. job'.ino = file.ino /\ job'.body = attrs.stamp /\ job'.obj = attrs.obj
  BY <1>1
<1>4. saves' \in Nat /\ saves' >= saves /\ saves' \in 0 .. MaxSaves
  BY <1>1, Numbers, SinkAssumption
<1>5. Clean'
  BY <1>1, <1>2, CleanStays
<1>6. Bounded'
  <2>1. job'.ino <= file.ino /\ job'.body <= saves + 1 /\ job'.obj <= drive.objs
        /\ job'.obj \in Nat /\ job'.body \in Nat
    BY <1>3, Numbers DEF IInv, Bounded
  <2> QED BY <1>1, <1>2, <1>4, <2>1, BoundedStays
<1>7. Objects'
  <2>1. ~ Abandoned /\ ~ Abandoned'
    BY <1>1, <1>3 DEF Abandoned, Busy
  <2> QED BY <1>1, <1>2, <2>1, Numbers DEF IInv, Objects
<1>8. attrs.obj \in Obj /\ attrs.ver <= drive.top
  BY ObjectsFit, Numbers DEF IInv, Bounded
<1>9. known \in [Obj -> Nat] /\ \A o \in Obj : known[o] <= drive.top
  BY DEF IInv, TypeOK, KnownOK
<1>10. KnownOK'
  <2>1. known' \in [Obj -> Nat] /\ \A o \in Obj : known'[o] <= drive.top
    BY <1>1, <1>8, <1>9, Numbers
  <2> QED BY <1>1, <1>2, <2>1 DEF KnownOK, IInv, TypeOK
<1>11. known'[attrs.obj] \in {known[attrs.obj], attrs.ver}
  BY <1>1, <1>8, <1>9
<1>12. FilesOK' /\ CallOK' /\ XferOK'
  <2>1. FilesOK /\ CallOK /\ XferOK
    BY DEF IInv, TypeOK
  <2>2. FilesOK'
    BY <1>1, <1>4, <2>1 DEF FilesOK
  <2>3. job' \in [ino : Nat, body : Nat, obj : Nat]
    BY <1>1, Numbers
  <2>4. CallOK'
    BY <1>1, <2>1, <2>3, SinkAssumption DEF CallOK, Points
  <2>5. XferOK'
    BY <1>1, <2>1 DEF XferOK
  <2> QED BY <2>2, <2>4, <2>5
<1>13. Stamped' /\ CleanAsKnown'
  BY <1>1, <1>2, <1>3, <1>11 DEF IInv, Stamped, CleanAsKnown, Clean, Holds
<1>14. Settled' /\ Transfers'
  BY <1>1, <1>3 DEF Settled, Transfers, InSession
<1>15. Whole'
  BY <1>1, <1>3 DEF Whole, AsSeen, InSession
<1> QED BY <1>2, <1>5, <1>6, <1>7, <1>10, <1>12, <1>13, <1>14, <1>15 DEF IInv, TypeOK

\* What is asked about the folder leaves the file and its object alone.
LEMMA FolderKeeps ==
    ASSUME IInv, UNCHANGED <<drive, file, attrs, known, lent, others>>, ~ Busy, ~ Busy',
           FilesOK', CallOK', XferOK', saves' >= saves,
           job'.ino <= file.ino, job'.body <= saves + 1, job'.obj <= drive.objs
    PROVE  IInv'
<1>1. DriveOK' /\ KnownOK' /\ SameObject
  BY DEF IInv, TypeOK, DriveOK, KnownOK, SameObject
<1>2. saves' \in Nat /\ job'.obj \in Nat /\ job'.body \in Nat
  BY SinkAssumption DEF FilesOK, CallOK
<1>3. Clean'
  BY <1>1, CleanStays
<1>4. Bounded'
  BY <1>1, <1>2, BoundedStays
<1>5. Objects'
  BY <1>2, Numbers DEF IInv, Objects, Abandoned
<1>6. pc \notin {"done", "remove"} /\ pc' \notin {"done", "remove", "readback", "put", "patch"}
      /\ ~ InSession' /\ pc' \notin {"putPath", "reconcile", "session"}
  BY DEF Busy, InSession
<1>7. Stamped' /\ CleanAsKnown'
  BY <1>1, <1>6, CleanAsKnownStays DEF IInv, Stamped
<1>8. Settled' /\ Transfers' /\ Whole'
  BY <1>6 DEF Settled, Transfers, Whole
<1> QED BY <1>1, <1>3, <1>4, <1>5, <1>7, <1>8 DEF IInv, TypeOK

LEMMA AskFolderKeeps ==
    ASSUME IInv, NEW answered, AskFolder(answered), ~ Busy,
           answered => \/ /\ UNCHANGED <<folder, job, fd, data, xfer, done, known>> /\ attempt' = 1
                          /\ pc' \in {"meta", "rmdir"} /\ seen' \in Nat
                       \/ /\ folder' \in [is : BOOLEAN, ver : Nat, kids : Nat] /\ Fails
    PROVE  IInv'
<1>1. UNCHANGED <<drive, file, attrs, large, saves, lent, others>>
  BY DEF AskFolder, Unasked
<1>2. FilesOK /\ CallOK /\ XferOK
  BY DEF IInv, TypeOK
<1>3. saves' >= saves
  BY <1>1, Numbers
<1>4. /\ job.ino <= file.ino /\ job.body <= saves + 1 /\ job.obj <= drive.objs
      /\ 0 <= file.ino /\ 0 <= saves + 1 /\ 0 <= drive.objs
  BY Numbers DEF IInv, Bounded
<1>5. CASE folder' \in [is : BOOLEAN, ver : Nat, kids : Nat] /\ Fails
  <2>1. FilesOK'
    BY <1>1, <1>2, <1>5 DEF FilesOK
  <2> QED BY <1>1, <1>3, <1>4, <1>5, <2>1, FailsLeaves, FolderKeeps
<1>6. CASE UNCHANGED <<folder, job, fd, data, xfer, done, known>> /\ seen' \in Nat
           /\ attempt' \in 1 .. MaxAttempts /\ pc' \in Points /\ ~ Busy'
  <2>1. FilesOK'
    BY <1>1, <1>2, <1>6 DEF FilesOK
  <2>2. CallOK'
    BY <1>2, <1>6 DEF CallOK
  <2>3. XferOK'
    BY <1>2, <1>6 DEF XferOK
  <2> QED BY <1>1, <1>3, <1>4, <1>6, <2>1, <2>2, <2>3, FolderKeeps
<1>7. 1 \in 1 .. MaxAttempts /\ (attempt < MaxAttempts => attempt + 1 \in 1 .. MaxAttempts)
      /\ seen \in Nat /\ pc \in Points /\ folder \in [is : BOOLEAN, ver : Nat, kids : Nat]
  BY <1>2, SinkAssumption DEF CallOK, FilesOK
<1>8. CASE answered
  <2>1. pc' \in {"meta", "rmdir"} => pc' \in Points /\ ~ Busy'
    BY DEF Points, Busy
  <2> QED BY <1>5, <1>6, <1>7, <1>8, <2>1
<1>9. CASE attempt < MaxAttempts /\ attempt' = attempt + 1 /\ UNCHANGED <<folder, pc, known, call>>
  <2>1. UNCHANGED <<folder, pc, job, fd, data, xfer, done, seen, known>> /\ ~ Busy'
    BY <1>9 DEF call, Busy
  <2> QED BY <1>6, <1>7, <1>9, <2>1
<1>10. CASE Fails /\ UNCHANGED folder
  BY <1>5, <1>7, <1>10
<1> QED BY <1>8, <1>9, <1>10 DEF AskFolder

LEMMA FolderStepKeeps ==
    ASSUME IInv, RemoveFolder \/ Children \/ Meta \/ DeleteFolder
    PROVE  IInv'
<1>1. /\ folder \in [is : BOOLEAN, ver : Nat, kids : Nat] /\ seen \in Nat
      /\ [folder EXCEPT !.is = FALSE] \in [is : BOOLEAN, ver : Nat, kids : Nat] /\ folder.ver \in Nat
  BY DEF IInv, TypeOK, FilesOK, CallOK
<1>2. CASE RemoveFolder
  <2>1. /\ pc = "idle" /\ pc' = "children" /\ attempt' = 1 /\ saves < MaxSaves /\ saves' = saves + 1
        /\ UNCHANGED <<drive, folder, file, attrs, others, large, known, lent, job, fd, data, xfer,
                       done, seen>>
    BY <1>2 DEF RemoveFolder, Goto, Unasked, call
  <2>2. FilesOK /\ CallOK /\ XferOK
    BY DEF IInv, TypeOK
  <2>3. saves' \in 0 .. MaxSaves /\ saves' >= saves
    BY <2>1, Numbers, SinkAssumption
  <2>4. FilesOK'
    BY <2>1, <2>2, <2>3 DEF FilesOK
  <2>5. CallOK'
    BY <2>1, <2>2, SinkAssumption DEF CallOK, Points
  <2>6. XferOK'
    BY <2>1, <2>2 DEF XferOK
  <2>7. job'.ino <= file.ino /\ job'.body <= saves + 1 /\ job'.obj <= drive.objs
    BY <2>1 DEF IInv, Bounded
  <2> QED BY <2>1, <2>3, <2>4, <2>5, <2>6, <2>7, FolderKeeps DEF Busy
<1>3. CASE Children
  <2> DEFINE answered == /\ UNCHANGED folder
                         /\ IF folder.kids = 0 THEN Goto("meta") /\ UNCHANGED <<known, call>> ELSE Fails
  <2>1. AskFolder(answered) /\ ~ Busy
    BY <1>3 DEF Children, Busy
  <2>2. answered => \/ /\ UNCHANGED <<folder, job, fd, data, xfer, done, known>> /\ attempt' = 1
                       /\ pc' \in {"meta", "rmdir"} /\ seen' \in Nat
                    \/ /\ folder' \in [is : BOOLEAN, ver : Nat, kids : Nat] /\ Fails
    BY <1>1 DEF Goto, call
  <2> HIDE DEF answered
  <2> QED BY <2>1, <2>2, AskFolderKeeps
<1>4. CASE Meta
  <2> DEFINE answered == /\ UNCHANGED folder /\ Goto("rmdir") /\ seen' = folder.ver
                         /\ UNCHANGED <<known, job, fd, data, xfer, done>>
  <2>1. AskFolder(answered) /\ ~ Busy
    BY <1>4 DEF Meta, Busy
  <2>2. answered => \/ /\ UNCHANGED <<folder, job, fd, data, xfer, done, known>> /\ attempt' = 1
                       /\ pc' \in {"meta", "rmdir"} /\ seen' \in Nat
                    \/ /\ folder' \in [is : BOOLEAN, ver : Nat, kids : Nat] /\ Fails
    BY <1>1 DEF Goto
  <2> HIDE DEF answered
  <2> QED BY <2>1, <2>2, AskFolderKeeps
<1>5. CASE DeleteFolder
  <2> DEFINE answered ==
        /\ folder' = IF folder.ver = seen THEN [folder EXCEPT !.is = FALSE] ELSE folder
        /\ Fails
  <2>1. AskFolder(answered) /\ ~ Busy
    BY <1>5 DEF DeleteFolder, Busy
  <2>2. answered => \/ /\ UNCHANGED <<folder, job, fd, data, xfer, done, known>> /\ attempt' = 1
                       /\ pc' \in {"meta", "rmdir"} /\ seen' \in Nat
                    \/ /\ folder' \in [is : BOOLEAN, ver : Nat, kids : Nat] /\ Fails
    BY <1>1
  <2> HIDE DEF answered
  <2> QED BY <2>1, <2>2, AskFolderKeeps
<1> QED BY <1>2, <1>3, <1>4, <1>5

-----------------------------------------------------------------------------
(* The others.                                                             *)

LEMMA ForeignKeeps ==
    ASSUME IInv, Foreign, DriveOK', folder' \in [is : BOOLEAN, ver : Nat, kids : Nat],
           SameObject \/ Removed \/ (NewVersion /\ drive.obj # 0),
           drive'.session \in {drive.session, Shut}
    PROVE  IInv'
<1>1. /\ UNCHANGED <<file, attrs, known, large, pc, attempt, job, fd, data, xfer, done, seen, lent,
                    saves>>
      /\ others < MaxRemote /\ others' = others + 1
  BY DEF Foreign
<1>2. saves' \in Nat /\ saves' >= saves
  BY <1>1, Numbers
<1>3. Clean'
  BY <1>1, CleanStays
<1>4. Bounded' /\ drive'.top >= drive.top /\ drive'.objs >= drive.objs
  <2>1. job'.ino <= file.ino /\ job'.body <= saves + 1 /\ job'.obj <= drive.objs
        /\ job'.obj \in Nat /\ job'.body \in Nat
    BY <1>1, Numbers DEF IInv, Bounded
  <2> QED BY <1>1, <1>2, <2>1, BoundedStays
<1>5. drive'.top \in Nat /\ drive'.objs \in Nat
  BY DEF DriveOK, Drive
<1>6. Objects'
  <2> DEFINE owed == IF Abandoned /\ ~ (pc = "remove" /\ drive.obj = 0) THEN 1 ELSE 0
             owes == IF Abandoned' /\ ~ (pc' = "remove" /\ drive'.obj = 0) THEN 1 ELSE 0
             none == IF drive.obj = 0 THEN 1 ELSE 0
             lost == IF drive'.obj = 0 THEN 1 ELSE 0
  <2>1. drive.objs + none + owed <= 1 + saves + others
    BY DEF IInv, Objects
  <2>2. drive'.objs = drive.objs /\ (lost = none \/ (none = 0 /\ lost = 1))
    BY Numbers DEF SameObject, Removed, NewVersion
  <2>3. owes <= owed /\ owes \in {0, 1}
    BY <1>1, Numbers DEF Abandoned, Busy, SameObject, Removed, NewVersion
  <2>4. owed \in {0, 1} /\ none \in {0, 1}
    OBVIOUS
  <2> HIDE DEF owed, none, owes, lost
  <2>5. drive'.objs + lost + owes <= 1 + saves' + others'
    BY <1>1, <2>1, <2>2, <2>3, <2>4, Numbers
  <2> QED BY <2>5 DEF Objects, lost, owes
<1>7. KnownOK' /\ CleanAsKnown'
  <2>1. KnownOK'
    BY <1>1, <1>4, <1>5, KnownStays DEF IInv, TypeOK, KnownOK
  <2>2. CleanAsKnown'
    BY <1>1, CleanAsKnownStays
  <2> QED BY <2>1, <2>2
<1>8. FilesOK' /\ CallOK' /\ XferOK'
  <2>1. FilesOK /\ CallOK /\ XferOK
    BY DEF IInv, TypeOK
  <2>2. others' \in 0 .. MaxRemote
    BY <1>1, Numbers, SinkAssumption
  <2>3. FilesOK'
    BY <1>1, <2>1, <2>2 DEF FilesOK
  <2>4. CallOK'
    BY <1>1, <2>1 DEF CallOK
  <2>5. XferOK'
    BY <1>1, <2>1 DEF XferOK
  <2> QED BY <2>3, <2>4, <2>5
<1>9. Stamped'
  BY <1>1 DEF IInv, Stamped, Busy, Abandoned
<1>10. Settled'
  <2>1. ASSUME pc \in {"done", "remove", "readback"}
        PROVE  /\ done.obj \in 1 .. drive'.objs /\ done.ver <= drive'.top
               /\ drive'.obj = done.obj /\ drive'.ver \in {known[done.obj], attrs.ver}
                    => done.ver = drive'.ver
    <3>1. /\ done.obj \in 1 .. drive.objs /\ done.ver <= drive.top /\ attrs.ver <= drive.top
          /\ drive.obj = done.obj /\ drive.ver \in {known[done.obj], attrs.ver} => done.ver = drive.ver
      BY <2>1 DEF IInv, Settled, Bounded
    <3>2. known[done.obj] \in Nat /\ known[done.obj] <= drive.top
      BY <3>1, KnownIs
    <3> QED BY <1>4, <1>5, <3>1, <3>2, Numbers DEF SameObject, Removed, NewVersion
  <2> QED BY <1>1, <2>1 DEF IInv, Settled
<1>11. Transfers'
  <2>1. drive'.session.open => drive.session.open /\ drive'.session.into = drive.session.into
    BY ShutIs
  <2> QED BY <1>1, <2>1 DEF IInv, Transfers, InSession
<1>12. Whole'
  <2>1. AsSeen' <=> AsSeen
    BY <1>1 DEF AsSeen
  <2>2. drive'.session.got = Last => drive'.session = drive.session
    BY ShutIs
  <2>3. pc \in {"done", "readback"} /\ drive'.obj = done.obj /\ drive'.ver = done.ver => SameObject
    <3>1. pc \in {"done", "readback"} => done.obj \in 1 .. drive.objs /\ done.ver <= drive.top
      BY DEF IInv, Settled
    <3> QED BY <3>1, Numbers DEF Removed, NewVersion
  <2> QED BY <1>1, <2>1, <2>2, <2>3 DEF IInv, Whole, InSession, SameObject, Holds
<1> QED BY <1>3, <1>4, <1>6, <1>7, <1>8, <1>9, <1>10, <1>11, <1>12 DEF IInv, TypeOK

LEMMA OthersKeep ==
    ASSUME IInv, RemoteEdit \/ RemoteRemove \/ RemoteChild \/ Expire
    PROVE  IInv'
<1>1. drive \in Drive /\ folder \in [is : BOOLEAN, ver : Nat, kids : Nat]
  BY DEF IInv, TypeOK, DriveOK, FilesOK
<1>2. CASE RemoteEdit
  <2> DEFINE v == drive.top + 1
             b == <<100 + others, 100 + others>>
  <2>1. drive' = [drive EXCEPT !.ver = v, !.top = v, !.body = b] /\ drive.obj # 0
        /\ Foreign /\ folder' = folder
    BY <1>2 DEF RemoteEdit
  <2>2. v \in Nat /\ b \in Nat \X Nat
    BY Numbers
  <2>3. /\ drive' \in Drive /\ drive'.obj = drive.obj /\ drive'.ver = v /\ drive'.top = v
        /\ drive'.objs = drive.objs /\ drive'.session = drive.session
    <3> HIDE DEF v, b
    <3> QED BY <1>1, <2>1, <2>2 DEF Drive
  <2> QED BY <1>1, <2>1, <2>3, ForeignKeeps DEF NewVersion, DriveOK
<1>3. CASE RemoteRemove
  <2>1. /\ drive' \in Drive /\ drive'.obj = 0 /\ drive'.ver = 0 /\ drive'.top = drive.top
        /\ drive'.objs = drive.objs /\ drive'.session = drive.session
    BY <1>1, <1>3 DEF RemoteRemove, Drive
  <2> QED BY <1>1, <1>3, <2>1, ForeignKeeps DEF RemoteRemove, Removed, DriveOK
<1>4. CASE RemoteChild
  <2>1. folder' \in [is : BOOLEAN, ver : Nat, kids : Nat]
    <3>1. folder.kids + 1 \in Nat /\ folder.ver + 1 \in Nat
      BY <1>1
    <3> QED BY <1>1, <1>4, <3>1 DEF RemoteChild
  <2> QED BY <1>1, <1>4, <2>1, ForeignKeeps DEF RemoteChild, SameObject, DriveOK
<1>5. CASE Expire
  <2>1. /\ drive' \in Drive /\ drive'.session = Shut /\ SameObject
    BY <1>1, <1>5, ShutIs DEF Expire, Drive, SameObject
  <2> QED BY <1>1, <1>5, <2>1, ForeignKeeps DEF Expire, DriveOK
<1> QED BY <1>2, <1>3, <1>4, <1>5

\* The user writes: the file is not as it was seen any more, nor is it where it was.
LEMMA UserKeeps ==
    ASSUME IInv, SaveInPlace \/ SaveOver
    PROVE  IInv'
<1>1. /\ saves < MaxSaves /\ saves' = saves + 1
      /\ UNCHANGED <<drive, folder, known, large, pc, attempt, job, data, xfer, done, seen, lent,
                    others>>
  BY DEF SaveInPlace, SaveOver
<1>2. saves' \in 0 .. MaxSaves /\ saves + 2 \in Nat
  BY <1>1, Numbers, SinkAssumption
<1>3. \/ /\ file.body # 0 /\ file'.ino = file.ino /\ file'.body = saves + 2 /\ UNCHANGED attrs
         /\ fd' \in [ino : Nat, snap : Nat, body : Nat]
      \/ /\ file'.ino = file.ino + 1 /\ file'.body \in {0, saves + 2}
         /\ attrs'.obj = attrs.obj /\ attrs'.ver = attrs.ver /\ attrs'.stamp = 0 /\ fd' = fd
  <2>1. /\ file \in [ino : Nat, body : Nat] /\ attrs \in [obj : Nat, ver : Nat, stamp : Nat]
        /\ fd \in [ino : Nat, snap : Nat, body : Nat]
    BY DEF IInv, TypeOK, FilesOK, CallOK
  <2>2. CASE SaveInPlace
    BY <1>2, <2>1, <2>2 DEF SaveInPlace
  <2>3. CASE SaveOver
    BY <2>1, <2>3 DEF SaveOver
  <2> QED BY <2>2, <2>3
<1>4. FilesOK'
  <2>1. /\ FilesOK /\ attrs \in [obj : Nat, ver : Nat, stamp : Nat]
        /\ file \in [ino : Nat, body : Nat]
    BY DEF IInv, TypeOK, FilesOK
  <2>2. file' \in [ino : Nat, body : Nat] /\ attrs' \in [obj : Nat, ver : Nat, stamp : Nat]
    BY <1>2, <2>1 DEF SaveInPlace, SaveOver
  <2> QED BY <1>1, <1>2, <2>1, <2>2 DEF FilesOK
<1>5. DriveOK' /\ CallOK' /\ XferOK' /\ KnownOK'
  <2>1. CallOK'
    BY <1>1, <1>3 DEF IInv, TypeOK, CallOK
  <2>2. DriveOK' /\ XferOK' /\ KnownOK'
    BY <1>1 DEF IInv, TypeOK, DriveOK, XferOK, KnownOK
  <2> QED BY <2>1, <2>2
<1>6. attrs.stamp <= saves + 1 /\ job.body <= saves + 1 /\ job.ino <= file.ino
      /\ file.body <= saves + 1
  BY DEF IInv, Bounded
<1>7. ~ AsSeen'
  BY <1>1, <1>3, <1>6, Numbers DEF AsSeen
<1>8. Clean' /\ CleanAsKnown'
  BY <1>1, <1>3, <1>6, Numbers DEF Clean, CleanAsKnown
<1>9. Bounded'
  BY <1>1, <1>3, <1>6, Numbers DEF IInv, Bounded
<1>10. Objects'
  BY <1>1, Numbers DEF IInv, Objects, Abandoned, Busy
<1>11. Stamped'
  BY <1>1, <1>2, <1>3, <1>6, Numbers DEF IInv, Stamped, Busy, Abandoned
<1>12. Settled' /\ Transfers'
  BY <1>1, <1>3 DEF IInv, Settled, Transfers, InSession
<1>13. Whole'
  BY <1>7 DEF Whole
<1> QED BY <1>4, <1>5, <1>8, <1>9, <1>10, <1>11, <1>12, <1>13 DEF IInv, TypeOK

-----------------------------------------------------------------------------
(* The theorems.                                                           *)

LEMMA Inductive == IInv /\ [Next]_vars => IInv'
<1> SUFFICES ASSUME IInv, [Next]_vars PROVE IInv' OBVIOUS
<1>1. CASE External
  BY <1>1, UserKeeps, OthersKeep DEF External
<1>2. CASE Step
  <2>1. CASE Children \/ Meta \/ DeleteFolder
    BY <2>1, FolderStepKeeps
  <2> QED BY <1>2, <2>1, StartKeeps, OpenFileKeeps, PutAtItemKeeps, CreateKeeps, PutAtPathKeeps,
     ReconcileKeeps, OpenSessionKeeps, CheckKeeps, ReadKeeps, RecheckKeeps, SendKeeps, ProbeKeeps,
     CancelKeeps, ReadBackKeeps, AdoptKeeps, RemoveKeeps, PatchKeeps DEF Step
<1>3. CASE Move \/ RemoveFolder
  BY <1>3, MoveKeeps, FolderStepKeeps
<1>4. CASE UNCHANGED vars
  BY <1>4 DEF vars, IInv, TypeOK, DriveOK, FilesOK, CallOK, XferOK, KnownOK, Clean, Bounded,
     CleanAsKnown, Objects, Abandoned, Busy, Stamped, Settled, Transfers, InSession, Whole, AsSeen,
     Holds
<1> QED BY <1>1, <1>2, <1>3, <1>4 DEF Next

LEMMA Invariance == Spec => []IInv
<1> QED BY InitIInv, Inductive, PTL DEF Spec

\* Whoever finds the file clean finds what it holds on the drive, whole, under its id and tag,
\* unless others have written since, or between a write and the reading back of its tag: however often a request is tried, the service loses
\* fragments, or the file is saved (run_upload, transfer).
THEOREM CleanFiles == Spec => []CleanIsThere
<1>1. IInv => CleanIsThere
  BY DEF IInv, CleanIsThere, Clean, Holds
<1> QED BY <1>1, Invariance, PTL

\* No other step of the sink touches what lies on the drive.
LEMMA ReadsOnly ==
    ASSUME IInv, \/ Start \/ OpenFile \/ Create \/ Reconcile \/ OpenSession \/ Check \/ Read
                 \/ Recheck \/ Probe \/ Cancel \/ ReadBack \/ Adopt \/ Children \/ Meta \/ DeleteFolder
                 \/ Move \/ RemoveFolder \/ SaveInPlace \/ SaveOver
    PROVE  drive'.top = drive.top /\ drive'.obj = drive.obj
<1>1. drive \in Drive
  BY DEF IInv, TypeOK, DriveOK
<1>2. ASSUME NEW s, drive' = [drive EXCEPT !.session = s]
      PROVE  drive'.top = drive.top /\ drive'.obj = drive.obj
  BY <1>1, <1>2 DEF Drive
<1>3. CASE Start \/ OpenFile \/ Create \/ Check \/ Read \/ Probe \/ Adopt \/ Move
  BY <1>3 DEF Start, OpenFile, Create, Check, Read, Probe, Adopt, Move, Unasked
<1>4. CASE Children \/ Meta \/ DeleteFolder \/ RemoveFolder \/ SaveInPlace \/ SaveOver
  BY <1>4 DEF Children, Meta, DeleteFolder, RemoveFolder, AskFolder, Unasked, SaveInPlace,
     SaveOver
<1>5. CASE Reconcile \/ Recheck \/ ReadBack
  BY <1>5 DEF Reconcile, Recheck, ReadBack, Ask, Unasked
<1>6. CASE OpenSession
  <2> DEFINE opened == [drive EXCEPT !.session = [Shut EXCEPT !.open = TRUE, !.into = job.obj]]
  <2>1. drive' \in {drive, opened}
    BY <1>6 DEF OpenSession, Ask, Unasked
  <2> QED BY <1>2, <2>1
<1>7. CASE Cancel
  BY <1>2, <1>7 DEF Cancel
<1> QED BY <1>3, <1>4, <1>5, <1>6, <1>7

LEMMA NextIs ==
    ASSUME Next
    PROVE  \/ Start \/ OpenFile \/ Create \/ Reconcile \/ OpenSession \/ Check \/ Read
           \/ Recheck \/ Probe \/ Cancel \/ ReadBack \/ Adopt \/ Children \/ Meta \/ DeleteFolder
           \/ Move \/ RemoveFolder \/ SaveInPlace \/ SaveOver
           \/ PutAtItem \/ PutAtPath \/ Patch \/ Send \/ Remove
           \/ RemoteEdit \/ RemoteRemove \/ RemoteChild \/ Expire
BY DEF Next, Step, External

LEMMA ForeignCounts ==
    ASSUME IInv, RemoteEdit \/ RemoteRemove \/ RemoteChild \/ Expire
    PROVE  others' # others
BY Numbers DEF RemoteEdit, RemoteRemove, RemoteChild, Expire, Foreign

\* A write replaces the version the sink knows; the one at the end of a session, one that came
\* after that version was read back.
LEMMA WritesOverItsBase ==
    ASSUME IInv, Next, Wrote, drive.obj # 0
    PROVE  drive.ver = known[drive.obj] \/ (pc = "send" /\ seen = known[drive.obj])
<1>1. drive'.top # drive.top /\ drive' # drive /\ others' = others
  BY DEF Wrote
<1>2. CASE PutAtItem
  BY <1>1, <1>2 DEF PutAtItem, Ask, Unasked, Precondition
<1>3. CASE PutAtPath
  BY <1>1, <1>3 DEF PutAtPath, Ask, Collided
<1>4. CASE Patch
  BY <1>1, <1>4 DEF Patch, Ask
<1>5. CASE Send
  <2>1. pc = "send" /\ InSession
    BY <1>5 DEF Send, InSession
  <2>2. drive \in Drive
    BY DEF IInv, TypeOK, DriveOK
  <2>3. ASSUME NEW s, drive' = [drive EXCEPT !.session = s]
        PROVE  FALSE
    BY <1>1, <2>2, <2>3 DEF Drive
  <2>4. drive' = Taken \/ drive' = Assembled
    BY <1>1, <1>5, <2>3 DEF Send, Unasked
  <2>5. drive' = Assembled /\ xfer.at = Last /\ Expected
    BY <1>1, <1>5, <2>3, <2>4 DEF Send, Taken, Unasked, Commits
  <2>6. drive.session.into = drive.obj
    BY <1>1, <2>5 DEF Assembled
  <2> QED BY <2>1, <2>5, <2>6 DEF Expected, IInv, Transfers
<1>6. CASE Remove
  <2>1. drive \in Drive
    BY DEF IInv, TypeOK, DriveOK
  <2>2. [drive EXCEPT !.obj = 0, !.ver = 0, !.body = <<0, 0>>].top = drive.top
    BY <2>1 DEF Drive
  <2> QED BY <1>1, <1>6, <2>2 DEF Remove, Ask
<1> QED BY <1>1, <1>2, <1>3, <1>4, <1>5, <1>6, NextIs, ReadsOnly, ForeignCounts

\* A write of the sink replaces only the version it was based on, or, at the end of a session,
\* one that came after the tag was read back (put_at_item, transfer, move_item).
THEOREM Conditional == Spec => ReplacesOnlyItsBase
<1>1. IInv /\ [Next]_vars =>
        [Wrote /\ drive.obj # 0
            => drive.ver = known[drive.obj] \/ (pc = "send" /\ seen = known[drive.obj])]_vars
  BY WritesOverItsBase
<1> QED BY <1>1, Invariance, PTL DEF Spec, ReplacesOnlyItsBase

\* What the sink deletes: the version it uploaded itself, the folder as it read it.
LEMMA DeletesWhatItSaw ==
    ASSUME IInv, Next
    PROVE  /\ pc = "remove" /\ drive.obj # 0 /\ drive'.obj = 0 /\ others' = others
                => drive.ver = done.ver \/ known[drive.obj] = 0
           /\ folder.is /\ ~ folder'.is => folder.ver = seen
<1>1. ASSUME pc = "remove", drive.obj # 0, drive'.obj = 0, others' = others
      PROVE  drive.ver = done.ver \/ known[drive.obj] = 0
  <2>1. Remove
    <3>1. ~ (PutAtItem \/ PutAtPath \/ Patch \/ Send)
      BY <1>1 DEF PutAtItem, PutAtPath, Patch, Send
    <3> QED BY <1>1, <3>1, NextIs, ReadsOnly, ForeignCounts
  <2>2. drive.obj = done.obj /\ known[done.obj] \in {0, drive.ver}
    BY <1>1, <2>1 DEF Remove, Ask
  <2> QED BY <1>1, <2>2 DEF IInv, Settled
<1>2. ASSUME folder.is, ~ folder'.is
      PROVE  folder.ver = seen
  <2>1. folder' # folder
    BY <1>2
  <2>2. DeleteFolder \/ RemoteChild
    BY <2>1, NextIs DEF Start, OpenFile, Create, Reconcile, OpenSession, Check, Read, Recheck,
       Probe, Cancel, Adopt, Move, RemoveFolder, SaveInPlace, SaveOver, PutAtItem, PutAtPath,
       Patch, Send, Remove, RemoteEdit, RemoteRemove, Expire, Children, Meta, AskFolder, SinkOnly, Here,
       ReadBack
  <2>3. CASE DeleteFolder
    BY <2>1, <2>3 DEF DeleteFolder, AskFolder
  <2>4. CASE RemoteChild
    <3>1. folder \in [is : BOOLEAN, ver : Nat, kids : Nat]
      BY DEF IInv, TypeOK, FilesOK
    <3>2. folder' = [folder EXCEPT !.kids = @ + 1, !.ver = @ + 1]
      BY <2>4 DEF RemoteChild
    <3>3. folder'.is = folder.is
      BY <3>1, <3>2, Zenon
    <3> QED BY <1>2, <3>3, Zenon
  <2> QED BY <2>2, <2>3, <2>4
<1> QED BY <1>1, <1>2

\* An object that is removed is at the version the upload made of it, or read back in its place,
\* unless no tag of it was ever learnt; and a child that arrives after a folder's tag was read is
\* not deleted with it (remove, remove_folder).
THEOREM Deletions == Spec => DeletesOnlyWhatItSaw
<1>1. IInv /\ [Next]_vars =>
        [/\ pc = "remove" /\ drive.obj # 0 /\ drive'.obj = 0 /\ others' = others
              => drive.ver = done.ver \/ known[drive.obj] = 0
         /\ folder.is /\ ~ folder'.is => folder.ver = seen]_vars
  BY DeletesWhatItSaw
<1> QED BY <1>1, Invariance, PTL DEF Spec, DeletesOnlyWhatItSaw
=============================================================================

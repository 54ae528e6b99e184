--------------------------- MODULE LocalFilesProofs ---------------------------
(***************************************************************************)
(* For every number of inodes, contents, objects and turns: neither a pass *)
(* nor a sweep destroys what it could have known the drive never had, and  *)
(* no upload replaces a version its content was not written over.          *)
(***************************************************************************)
EXTENDS LocalFiles, TLAPS

-----------------------------------------------------------------------------
(* The inductive invariant.                                                *)

\* Contents the drive never had, but for those that were stamped for another's upload; and the
\* versions there have been.
Owed  == unsent \ strayed
Given == [obj : 0 .. objects, body : 0 .. top]

\* What the drive has is not owed to it; what is written next is nowhere yet.
WorldSound ==
    /\ top >= 1 /\ unsent \subseteq 1 .. top /\ last \in 0 .. top
    /\ drive \in Given /\ drive.body \notin unsent

GivenOut ==
    /\ record \in Given /\ known \in Given
    /\ batch.put \in Given /\ batch.gone \in 0 .. objects /\ looked.body \in 0 .. top
    /\ base \in Given /\ uploaded \in Given /\ observed \in 0 .. top
    /\ guard.ver \in Given /\ guard.body \in 0 .. top /\ guard.top \in 0 .. top

\* A clean file holds nothing that is owed, and a placeholder nothing at all.
SoundIn(f, t, o, owed) ==
    /\ f.ver \in [obj : 0 .. o, body : 0 .. t] /\ f.body \in 0 .. t
    /\ f.stamp \in (0 .. t) \cup {None}
    /\ f.mark => f.body = 0
    /\ Clean(f) => f.body \notin owed
Sound(f)   == SoundIn(f, top, objects, Owed)
FilesSound == \A i \in Inode : Sound(file[i])

\* The drive has taken the content of an upload.
Sent == uAt \in {"sent", "found", "named", "gone"}

\* Where a thread stands it has what the next step takes for granted.
Placed ==
    /\ eAt \in {"exchanged", "drop", "restore"} => scratch # 0
    /\ eAt \in {"guarded", "judged", "exchanged"} => guard.ino # 0
    /\ eAt = "drop" => guard.top # 0
    /\ scratch \notin hidden
    /\ eAt = "restore" => crossed
    /\ uAt # "idle" => job # 0
    /\ Sent => uploaded.obj # 0

\* What is open has been filled.
Opened == held # 0 => ~ file[held].mark

\* What the threads saw, if it is what they still find, is not owed: what is owed is in one file.
Truthful ==
    /\ looked.stamped => looked.body \notin Owed
    /\ Sent /\ file[job].body = observed => observed \notin Owed
    /\ uAt # "idle" => \A i \in Inode \ {job} : file[i].body = observed => observed \notin Owed
    /\ \A i, j \in Inode : i # j /\ file[i].body = file[j].body => file[i].body \notin Owed
Approved ==
    /\ eAt = "judged" /\ at = guard.ino /\ file[at].body = guard.body => guard.body \notin Owed
    /\ eAt = "exchanged" /\ scratch = guard.ino /\ file[scratch].body = guard.body
          => guard.body \notin Owed
    /\ eAt = "drop" => file[scratch].body > guard.top \/ file[scratch].body \notin Owed

\* A content was written over a version: or that is of another object than there is, or no tag.
Knows(v, c) == v.obj = drive.obj /\ v.obj # 0 /\ v.body # 0 => v.body \in basis[c] \cup {c}
Follows(v)  == Knows(v, drive.body) /\ Knows(v, Showing)

\* What the drive has answered is going to be written on the file under the name.
Holding == (uAt = "sent" /\ at = job) \/ uAt = "found"

\* What is on the drive, and what one would write over here, was written over every version a
\* request may name; so was the version of a batch, unless an upload has landed since. A
\* removal is applied to a name whose recorded object is gone.
Descends ==
    ~ crossed =>
      /\ Follows(record)
      /\ at # 0 => Follows(file[at].ver)
      /\ uAt = "begun" /\ at = job => Follows(base)
      /\ Holding => Follows(uploaded) /\ (at # 0 => ~ file[at].mark)
      /\ dAt # "idle" /\ ~ late => Knows(batch.put, drive.body)
      /\ dAt \notin {"idle", "done"} /\ ~ late => Knows(record, batch.put.body)
      /\ dAt = "pulled" /\ ~ late =>
            /\ at # 0 => Knows(file[at].ver, batch.put.body)
            /\ Holding => Knows(uploaded, batch.put.body)
Gone ==
    /\ dAt \in {"pulled", "remove", "unlink"} => (batch.gone # 0 => batch.gone # drive.obj)
    /\ dAt \in {"remove", "unlink"} => batch.gone # 0 /\ record.obj \in {0, claims}
    /\ dAt = "unlink" => claims = batch.gone

IInv == /\ TypeOK /\ WorldSound /\ GivenOut /\ FilesSound
        /\ Placed /\ Opened /\ Truthful /\ Approved /\ Descends /\ Gone

-----------------------------------------------------------------------------
(* What is numbers, and what only grows.                                   *)

LEMMA Bounds ==
    /\ Inode \subseteq Nat /\ 0 \notin Inode /\ MaxBody \in Nat /\ MaxObject \in Nat
    /\ None \notin Body /\ None \in Nat
BY LocalAssumption DEF None, Body

\* Facts of the state as numbers.
LEMMA Numbers ==
    ASSUME IInv
    PROVE  /\ top \in Nat /\ top >= 1 /\ top <= MaxBody /\ objects \in Nat /\ objects <= MaxObject
           /\ drive.obj \in 0 .. objects /\ drive.body \in 0 .. top /\ drive.body \notin unsent
           /\ unsent \subseteq 1 .. top /\ last \in 0 .. top
           /\ basis \in [Body -> SUBSET Body] /\ file \in [Inode -> File]
           /\ at \in Inode \cup {0} /\ scratch \in Inode \cup {0} /\ held \in Inode \cup {0}
           /\ job \in Inode \cup {0} /\ hidden \subseteq Inode
<1>1. WorldOK /\ FilesOK /\ UploadOK /\ WorldSound
  BY DEF IInv, TypeOK
<1>2. top \in Nat /\ top >= 1 /\ top <= MaxBody /\ objects \in Nat /\ objects <= MaxObject
  BY <1>1, Bounds DEF WorldOK, WorldSound, Body, Object
<1>3. drive.obj \in 0 .. objects /\ drive.body \in 0 .. top /\ drive.body \notin unsent
  BY <1>1 DEF WorldSound, Given
<1> QED BY <1>1, <1>2, <1>3 DEF WorldOK, WorldSound, FilesOK, UploadOK, At

\* A step that gives out numbers gives out new ones, and what is owed of the old ones was owed.
Onward ==
    /\ top' \in Nat /\ objects' \in Nat /\ top <= top' /\ objects <= objects'
    /\ Owed' \cap (0 .. top) \subseteq Owed

LEMMA Grows ==
    ASSUME IInv, Onward
    PROVE  /\ Given \subseteq Given' /\ 0 .. top \subseteq 0 .. top'
           /\ 0 .. objects \subseteq 0 .. objects'
<1>1. 0 .. top \subseteq 0 .. top' /\ 0 .. objects \subseteq 0 .. objects'
  BY Numbers DEF Onward
<1> QED BY <1>1 DEF Given

\* A step that leaves them alone.
LEMMA QuietOnward ==
    ASSUME IInv, UNCHANGED <<top, objects, unsent, strayed>>
    PROVE  Onward
BY Numbers DEF Onward, Owed

LEMMA QuietWorld ==
    ASSUME IInv, UNCHANGED <<world, known, past>>
    PROVE  WorldOK' /\ WorldSound' /\ Onward
<1>1. UNCHANGED <<drive, known, unsent, basis, last, top, objects, strayed, late, crossed>>
  BY DEF world, past
<1>2. WorldOK /\ WorldSound
  BY DEF IInv, TypeOK
<1> QED BY <1>1, <1>2, QuietOnward DEF WorldOK, WorldSound, Given

-----------------------------------------------------------------------------
(* Files.                                                                  *)

LEMMA SoundGrows ==
    ASSUME NEW f, NEW t \in Nat, NEW t2 \in Nat, NEW o \in Nat, NEW o2 \in Nat, NEW w, NEW w2,
           t <= t2, o <= o2, w2 \cap (0 .. t) \subseteq w, SoundIn(f, t, o, w)
    PROVE  SoundIn(f, t2, o2, w2)
<1>1. f.ver \in [obj : 0 .. o, body : 0 .. t] /\ f.body \in 0 .. t
      /\ f.stamp \in (0 .. t) \cup {None}
  BY DEF SoundIn
<1>2. f.ver \in [obj : 0 .. o2, body : 0 .. t2] /\ f.body \in 0 .. t2
      /\ f.stamp \in (0 .. t2) \cup {None}
  <2>1. 0 .. t \subseteq 0 .. t2 /\ 0 .. o \subseteq 0 .. o2
    OBVIOUS
  <2> QED BY <1>1, <2>1
<1>3. (f.mark => f.body = 0) /\ (Clean(f) => f.body \notin w)
  BY Zenon DEF SoundIn
<1>4. f.body \notin w => f.body \notin w2
  BY <1>1
<1> QED BY <1>2, <1>3, <1>4, Zenon DEF SoundIn

\* No file: of the right type, and sound.
LEMMA BlankIs ==
    /\ Blank \in File /\ Blank.body = 0 /\ Blank.ver = Nothing /\ Blank.stamp = None
    /\ Blank.mark = FALSE
<1>1. Nothing \in Version /\ None \in Body \cup {None} /\ 0 \in Body
  BY LocalAssumption DEF Nothing, Version, Object, Body
<1> QED BY <1>1, Zenon DEF Blank, File

LEMMA BlankSound ==
    ASSUME NEW t \in Nat, NEW o \in Nat, NEW w
    PROVE  SoundIn(Blank, t, o, w)
<1>1. Nothing \in [obj : 0 .. o, body : 0 .. t] /\ 0 \in 0 .. t
  BY DEF Nothing
<1>2. ~ Clean(Blank)
  BY BlankIs, LocalAssumption DEF Clean, None
<1> QED BY <1>1, <1>2, BlankIs, Zenon DEF SoundIn

\* Each file stays, goes, or is sound again.
LEMMA FilesStay ==
    ASSUME IInv, Onward,
           \A i \in Inode : file'[i] = file[i] \/ file'[i] = Blank
                              \/ SoundIn(file'[i], top', objects', Owed')
    PROVE  FilesSound'
<1> SUFFICES ASSUME NEW i \in Inode PROVE SoundIn(file'[i], top', objects', Owed')
  BY DEF FilesSound, Sound
<1>1. CASE file'[i] = file[i]
  <2>1. SoundIn(file[i], top, objects, Owed)
    BY DEF IInv, FilesSound, Sound
  <2>2. SoundIn(file[i], top', objects', Owed')
    BY <2>1, Numbers, SoundGrows DEF Onward
  <2> QED BY <1>1, <2>2, Zenon
<1>2. CASE file'[i] = Blank
  BY <1>2, BlankSound DEF Onward
<1> QED BY <1>1, <1>2

\* What the inodes that lose their last name leave.
LEMMA LivingIs ==
    ASSUME IInv, NEW roots
    PROVE  /\ Living(file, roots) \in [Inode -> File]
           /\ \A i \in Inode : /\ i \in roots => Living(file, roots)[i] = file[i]
                               /\ i \notin roots => Living(file, roots)[i] = Blank
BY Numbers, BlankIs, Zenon DEF Living

LEMMA LivingAndIs ==
    ASSUME IInv, NEW roots, NEW n \in Inode, NEW f \in File,
           file' = [Living(file, roots) EXCEPT ![n] = f]
    PROVE  /\ file' \in [Inode -> File] /\ file'[n] = f
           /\ \A i \in Inode \ {n} : /\ i \in roots => file'[i] = file[i]
                                     /\ i \notin roots => file'[i] = Blank
<1> DEFINE g == Living(file, roots)
<1>1. /\ g \in [Inode -> File]
      /\ \A i \in Inode : (i \in roots => g[i] = file[i]) /\ (i \notin roots => g[i] = Blank)
  BY LivingIs
<1> HIDE DEF g
<1>2. file' = [g EXCEPT ![n] = f]
  BY DEF g
<1> QED BY <1>1, <1>2

\* The inode a new file gets is nobody's.
LEMMA FreshIs ==
    ASSUME Free # {}
    PROVE  /\ Fresh \in Inode /\ Fresh \notin {at, scratch, held, job, own, guard.ino}
           /\ Fresh \notin hidden
BY Zenon DEF Fresh, Free

-----------------------------------------------------------------------------
(* What a thread saw is still true of what it finds.                       *)

\* What a file holds after a step it held before, or is new, or is not owed.
BodiesFollow ==
    \A i \in Inode : \/ file'[i].body = file[i].body
                     \/ file'[i].body = top + 1
                     \/ file'[i].body \notin Owed'

\* One file at most gets what is written now.
OneNew == \A i, j \in Inode : i # j /\ file'[i].body = top + 1 /\ file'[j].body = top + 1
                                => top + 1 \notin Owed'

LEMMA NoneNew ==
    ASSUME IInv, Owed' = Owed
    PROVE  OneNew
BY Numbers DEF OneNew, Owed

LEMMA AloneStays ==
    ASSUME IInv, Onward, BodiesFollow, OneNew
    PROVE  \A i, j \in Inode : i # j /\ file'[i].body = file'[j].body
                                => file'[i].body \notin Owed'
<1> SUFFICES ASSUME NEW i \in Inode, NEW j \in Inode, i # j, file'[i].body = file'[j].body,
                    file'[i].body \in Owed'
             PROVE  FALSE
  OBVIOUS
<1>1. file[i].body \in 0 .. top /\ file[j].body \in 0 .. top
  BY DEF IInv, FilesSound, Sound, SoundIn
<1>2. file'[i].body = file[i].body \/ file'[i].body = top + 1
  BY DEF BodiesFollow
<1>3. file'[j].body = file[j].body \/ file'[j].body = top + 1
  BY DEF BodiesFollow
<1>4. CASE file'[i].body = top + 1
  BY <1>1, <1>3, <1>4, Numbers DEF OneNew
<1>5. CASE file'[i].body = file[i].body /\ file'[j].body = file[j].body
  <2>1. file[i].body \notin Owed
    BY <1>5 DEF IInv, Truthful
  <2> QED BY <1>1, <1>5, <2>1 DEF Onward
<1> QED BY <1>1, <1>2, <1>3, <1>4, <1>5, Numbers

LEMMA TruthfulStays ==
    ASSUME IInv, Onward, BodiesFollow, OneNew, looked' = looked \/ looked'.body \notin Owed',
           uAt' # "idle" => uAt # "idle" /\ job' = job /\ observed' = observed,
           Sent' => Sent
    PROVE  Truthful'
<1>1. looked.body \in 0 .. top /\ observed \in 0 .. top
  BY DEF IInv, GivenOut
<1>2. looked.stamped => looked.body \notin Owed
  BY Zenon DEF IInv, Truthful
<1>3. looked'.stamped => looked'.body \notin Owed'
  <2>1. looked.stamped => looked.body \notin Owed'
    BY <1>1, <1>2 DEF Onward
  <2> QED BY <2>1, Zenon
<1>4. ASSUME NEW i \in Inode, file'[i].body = observed,
             file[i].body = observed => observed \notin Owed
      PROVE  observed \notin Owed'
  <2>1. observed # top + 1
    BY <1>1, Numbers
  <2>2. observed \notin Owed => observed \notin Owed'
    BY <1>1 DEF Onward
  <2> QED BY <1>4, <2>1, <2>2 DEF BodiesFollow
<1>5. ASSUME Sent, file'[job].body = observed PROVE observed \notin Owed'
  <2>1. job \in Inode
    BY <1>5, Numbers DEF IInv, Placed, Sent
  <2>2. file[job].body = observed => observed \notin Owed
    BY <1>5, Zenon DEF IInv, Truthful
  <2> QED BY <1>4, <1>5, <2>1, <2>2
<1>6. ASSUME uAt # "idle", NEW i \in Inode \ {job}, file'[i].body = observed
      PROVE  observed \notin Owed'
  <2>1. file[i].body = observed => observed \notin Owed
    BY <1>6, Zenon DEF IInv, Truthful
  <2> QED BY <1>4, <1>6, <2>1
<1>7. uAt' # "idle" => \A i \in Inode \ {job'} : file'[i].body = observed' => observed' \notin Owed'
  BY <1>6, Zenon
<1>8. Sent' /\ file'[job'].body = observed' => observed' \notin Owed'
  <2>1. Sent' => uAt' # "idle"
    BY DEF Sent
  <2> QED BY <1>5, <2>1, Zenon
<1> QED BY <1>3, <1>7, <1>8, AloneStays, Zenon DEF Truthful

LEMMA ApprovedStays ==
    ASSUME IInv, Onward, BodiesFollow, UNCHANGED <<eAt, guard, scratch>>,
           at' = at \/ at' = 0 \/ at' # guard.ino
    PROVE  Approved'
<1>1. guard.body \in 0 .. top /\ guard.top \in 0 .. top
  BY DEF IInv, GivenOut
<1>2. guard.body \notin Owed => guard.body \notin Owed'
  BY <1>1 DEF Onward
<1>3. ASSUME eAt = "judged", at' = guard.ino, file'[guard.ino].body = guard.body
      PROVE  guard.body \notin Owed'
  <2>1. at = guard.ino /\ guard.ino # 0 /\ at \in Inode
    BY <1>3, Numbers DEF IInv, Placed
  <2>2. file[at].body = guard.body => guard.body \notin Owed
    BY <1>3, <2>1 DEF IInv, Approved
  <2>3. guard.body # top + 1
    BY <1>1, Numbers
  <2> QED BY <1>2, <1>3, <2>1, <2>2, <2>3 DEF BodiesFollow
<1>4. ASSUME eAt = "exchanged", scratch = guard.ino, file'[scratch].body = guard.body
      PROVE  guard.body \notin Owed'
  <2>1. scratch \in Inode
    BY <1>4, Numbers DEF IInv, Placed
  <2>2. file[scratch].body = guard.body => guard.body \notin Owed
    BY <1>4 DEF IInv, Approved
  <2>3. guard.body # top + 1
    BY <1>1, Numbers
  <2> QED BY <1>2, <1>4, <2>1, <2>2, <2>3 DEF BodiesFollow
<1>5. ASSUME eAt = "drop"
      PROVE  file'[scratch].body > guard.top \/ file'[scratch].body \notin Owed'
  <2>1. scratch \in Inode
    BY <1>5, Numbers DEF IInv, Placed
  <2>2. file[scratch].body > guard.top \/ file[scratch].body \notin Owed
    BY <1>5 DEF IInv, Approved
  <2>3. file[scratch].body \in 0 .. top
    BY <2>1 DEF IInv, FilesSound, Sound, SoundIn
  <2>4. file[scratch].body \notin Owed => file[scratch].body \notin Owed'
    BY <2>3 DEF Onward
  <2>5. CASE file'[scratch].body = top + 1
    BY <2>5, <1>1, <2>3, Numbers
  <2> QED BY <2>1, <2>2, <2>4, <2>5 DEF BodiesFollow
<1> QED BY <1>3, <1>4, <1>5, Zenon DEF Approved

-----------------------------------------------------------------------------
(* What was written over what.                                             *)

\* A content follows one there was: it is that, or was written over it.
After(c, d) == c = d \/ basis[d] \cup {d} \subseteq basis'[c]

\* What is known stays known: the contents there were keep their basis, and an object of the
\* drive is the one there was or a new one.
Lineal == /\ \A c \in 0 .. top : basis'[c] = basis[c]
          /\ drive'.obj \in {drive.obj, 0} \/ drive'.obj > objects

\* Knows and Follows, of a version there was, after the step.
KnowsThen(v, c) ==
    v.obj = drive'.obj /\ v.obj # 0 /\ v.body # 0 => v.body \in basis'[c] \cup {c}
FollowsThen(v)  == KnowsThen(v, drive'.body) /\ KnowsThen(v, Showing')

LEMMA KnowsStays ==
    ASSUME IInv, Lineal, NEW v \in Given, NEW c, NEW d \in 0 .. top, After(c, d), Knows(v, d)
    PROVE  KnowsThen(v, c)
<1>1. v.obj \in 0 .. objects
  BY DEF Given
<1> SUFFICES ASSUME v.obj = drive'.obj, v.obj # 0, v.body # 0 PROVE v.body \in basis'[c] \cup {c}
  BY DEF KnowsThen
<1>2. v.obj = drive.obj
  BY <1>1, Numbers DEF Lineal
<1>3. v.body \in basis[d] \cup {d}
  BY <1>2 DEF Knows
<1> QED BY <1>3 DEF After, Lineal

LEMMA ShowingIs ==
    ASSUME IInv
    PROVE  Showing \in 0 .. top
<1>1. CASE at = 0
  BY <1>1, Numbers DEF Showing
<1>2. CASE at # 0
  <2>1. at \in Inode
    BY <1>2, Numbers
  <2>2. file[at].ver.body \in 0 .. top /\ file[at].body \in 0 .. top
    BY <2>1 DEF IInv, FilesSound, Sound, SoundIn
  <2> QED BY <1>2, <2>2, Zenon DEF Showing
<1> QED BY <1>1, <1>2

\* The drive's content, and what one would write over, come after what they were.
Heirs ==
    /\ drive'.obj = drive.obj => After(drive'.body, drive.body) \/ After(drive'.body, Showing)
    /\ After(Showing', Showing) \/ After(Showing', drive.body)

LEMMA FollowsStays ==
    ASSUME IInv, Lineal, Heirs, NEW v \in Given, Follows(v)
    PROVE  FollowsThen(v)
<1>1. Knows(v, drive.body) /\ Knows(v, Showing)
  BY DEF Follows
<1>2. drive.body \in 0 .. top /\ Showing \in 0 .. top
  BY Numbers, ShowingIs
<1>3. KnowsThen(v, drive'.body)
  <2>1. CASE drive'.obj = drive.obj
    BY <1>1, <1>2, <2>1, KnowsStays DEF Heirs
  <2>2. CASE drive'.obj # drive.obj
    <3>1. v.obj \in 0 .. objects
      BY DEF Given
    <3> QED BY <2>2, <3>1, Numbers DEF KnowsThen, Lineal
  <2> QED BY <2>1, <2>2
<1>4. KnowsThen(v, Showing')
  BY <1>1, <1>2, KnowsStays DEF Heirs
<1> QED BY <1>3, <1>4 DEF FollowsThen

\* Nothing is the version of no object.
LEMMA NothingFollows == \A c : KnowsThen(Nothing, c) /\ FollowsThen(Nothing)
BY DEF KnowsThen, FollowsThen, Nothing

\* Descends, after the step.
DescendsThen ==
    ~ crossed' =>
      /\ FollowsThen(record')
      /\ at' # 0 => FollowsThen(file'[at'].ver)
      /\ uAt' = "begun" /\ at' = job' => FollowsThen(base')
      /\ Holding' => FollowsThen(uploaded') /\ (at' # 0 => ~ file'[at'].mark)
      /\ dAt' # "idle" /\ ~ late' => KnowsThen(batch'.put, drive'.body)
      /\ dAt' \notin {"idle", "done"} /\ ~ late' => KnowsThen(record', batch'.put.body)
      /\ dAt' = "pulled" /\ ~ late' =>
            /\ at' # 0 => KnowsThen(file'[at'].ver, batch'.put.body)
            /\ Holding' => KnowsThen(uploaded', batch'.put.body)

LEMMA DescendsThenIs == DescendsThen => Descends'
<1>1. \A v, c : (v.obj = drive'.obj /\ v.obj # 0 /\ v.body # 0 => v.body \in basis'[c] \cup {c})
               <=> KnowsThen(v, c)
  BY Zenon DEF KnowsThen
<1> QED BY Zenon DEF DescendsThen, Descends, FollowsThen, Follows, KnowsThen, Knows

\* The versions there are.
LEMMA VersionsAre ==
    ASSUME IInv
    PROVE  /\ record \in Given /\ batch.put \in Given /\ base \in Given /\ uploaded \in Given
           /\ drive \in Given /\ batch.put.body \in 0 .. top
           /\ \A i \in Inode : file[i].ver \in Given
<1>1. \A i \in Inode : file[i].ver \in Given
  BY DEF IInv, FilesSound, Sound, SoundIn, Given
<1>2. /\ record \in Given /\ batch.put \in Given /\ base \in Given /\ uploaded \in Given
      /\ drive \in Given
  BY DEF IInv, GivenOut, WorldSound
<1> QED BY <1>1, <1>2 DEF Given

\* What is under the name: the file there was, with the version it had; none; or a new one
\* without a version.
NameFollows ==
    \/ /\ at' = at /\ at # 0 /\ file'[at].ver = file[at].ver
       /\ file'[at].mark => file[at].mark
    \/ at' = 0
    \/ at' \notin {0, job} /\ file'[at'].ver = Nothing /\ ~ file'[at'].mark

LEMMA DescendsStays ==
    ASSUME IInv, Lineal, Heirs, NameFollows,
           drive'.obj = drive.obj => After(drive'.body, drive.body),
           UNCHANGED <<record, dAt, batch, uAt, job, base, uploaded, crossed, late>>
    PROVE  Descends'
<1> SUFFICES ASSUME ~ crossed PROVE DescendsThen
  BY DescendsThenIs, Zenon DEF DescendsThen
<1>1. \A v \in Given : Follows(v) => FollowsThen(v)
  BY FollowsStays
<1>2. \A v \in Given, d \in 0 .. top : Knows(v, d) => KnowsThen(v, d)
  BY KnowsStays DEF After
<1>3. FollowsThen(record)
  <2>1. Follows(record)
    BY Zenon DEF IInv, Descends
  <2> QED BY <1>1, <2>1, VersionsAre
<1>4. at' # 0 => FollowsThen(file'[at'].ver)
  <2>1. CASE at' = at /\ at # 0 /\ file'[at].ver = file[at].ver
    <3>1. Follows(file[at].ver)
      BY <2>1, Zenon DEF IInv, Descends
    <3> QED BY <1>1, <2>1, <3>1, VersionsAre, Numbers
  <2> QED BY <2>1, NothingFollows, Zenon DEF NameFollows
<1>5. ASSUME uAt # "idle", at' = job
      PROVE  at' = at /\ at = job /\ at # 0 /\ at \in Inode /\ (file'[at].mark => file[at].mark)
             /\ file'[at].ver = file[at].ver
  <2>1. job # 0
    BY <1>5 DEF IInv, Placed
  <2> QED BY <1>5, <2>1, Numbers DEF NameFollows
<1>6. uAt = "begun" /\ at' = job => FollowsThen(base)
  <2> SUFFICES ASSUME uAt = "begun", at' = job PROVE FollowsThen(base)
    OBVIOUS
  <2>1. at = job
    BY <1>5
  <2>2. Follows(base)
    BY <2>1, Zenon DEF IInv, Descends
  <2> QED BY <1>1, <2>2, VersionsAre
<1>7. Holding' => Holding /\ (at' # 0 => ~ file'[at'].mark)
  <2> SUFFICES ASSUME Holding' PROVE Holding /\ (at' # 0 => ~ file'[at'].mark)
    OBVIOUS
  <2>1. Holding /\ (uAt = "sent" => at' = job)
    BY <1>5 DEF Holding
  <2>2. at # 0 => ~ file[at].mark
    BY <2>1, Zenon DEF IInv, Descends
  <2>3. uAt # "idle"
    BY <2>1 DEF Holding
  <2>4. at' # 0 => ~ file'[at'].mark
    BY <2>2, Zenon DEF NameFollows
  <2> QED BY <2>1, <2>4
<1>12. Holding' => FollowsThen(uploaded)
  <2>1. Holding => Follows(uploaded)
    BY Zenon DEF IInv, Descends
  <2> QED BY <1>1, <1>7, <2>1, VersionsAre
<1>8. ASSUME dAt # "idle", ~ late PROVE KnowsThen(batch.put, drive'.body)
  <2>1. Knows(batch.put, drive.body)
    BY <1>8, Zenon DEF IInv, Descends
  <2>2. CASE drive'.obj = drive.obj
    BY <2>1, <2>2, VersionsAre, Numbers, KnowsStays
  <2>3. CASE drive'.obj # drive.obj
    <3>1. batch.put.obj \in 0 .. objects
      BY VersionsAre DEF Given
    <3> QED BY <2>3, <3>1, Numbers DEF KnowsThen, Lineal
  <2> QED BY <2>2, <2>3
<1>9. ASSUME dAt \notin {"idle", "done"}, ~ late PROVE KnowsThen(record, batch.put.body)
  <2>1. Knows(record, batch.put.body)
    BY <1>9, Zenon DEF IInv, Descends
  <2> QED BY <1>2, <2>1, VersionsAre
<1>10. ASSUME dAt = "pulled", ~ late, at' # 0 PROVE KnowsThen(file'[at'].ver, batch.put.body)
  <2>1. CASE at' = at /\ at # 0 /\ file'[at].ver = file[at].ver
    <3>1. Knows(file[at].ver, batch.put.body)
      BY <1>10, <2>1, Zenon DEF IInv, Descends
    <3> QED BY <1>2, <2>1, <3>1, VersionsAre, Numbers
  <2> QED BY <1>10, <2>1, NothingFollows, Zenon DEF NameFollows
<1>11. ASSUME dAt = "pulled", ~ late, Holding' PROVE KnowsThen(uploaded, batch.put.body)
  <2>1. Knows(uploaded, batch.put.body)
    BY <1>7, <1>11, Zenon DEF IInv, Descends
  <2> QED BY <1>2, <2>1, VersionsAre
<1> QED BY <1>3, <1>4, <1>6, <1>7, <1>8, <1>9, <1>10, <1>11, <1>12, Zenon DEF DescendsThen

-----------------------------------------------------------------------------
(* The user's processes and the drive.                                     *)

\* What they leave to the daemon.
LEMMA OutsideKeeps ==
    ASSUME IInv, WorldOK', WorldSound', FilesOK', FilesSound', Opened', Onward, BodiesFollow,
           Lineal, Heirs, OneNew,
           drive'.obj = drive.obj => After(drive'.body, drive.body),
           NameFollows, at' = at \/ at' = 0 \/ at' \notin hidden \cup {scratch, guard.ino},
           UNCHANGED <<scratch, hidden, record, sending, delta, evict, upload, past, turns>>,
           waiting' \subseteq Inode
    PROVE  IInv'
<1>1. UNCHANGED <<known, dAt, batch, snap, claims, looked, eAt, eSnap, guard, own,
                  uAt, job, base, observed, uploaded, strayed, late, crossed>>
  BY DEF delta, evict, upload, past
<1>2. TypeOK'
  <2>1. QueueOK' /\ PassOK' /\ SweepOK' /\ UploadOK'
    BY <1>1 DEF IInv, TypeOK, QueueOK, PassOK, SweepOK, UploadOK
  <2>2. OnePlace'
    BY <1>1 DEF IInv, TypeOK, OnePlace
  <2> QED BY <2>1, <2>2 DEF TypeOK
<1>3. GivenOut'
  BY <1>1, Grows DEF IInv, GivenOut
<1>4. Placed'
  BY <1>1 DEF IInv, Placed, Sent
<1>5. Truthful'
  BY <1>1, TruthfulStays DEF Sent
<1>6. Approved'
  BY <1>1, ApprovedStays
<1>7. Descends'
  BY <1>1, DescendsStays
<1>8. Gone'
  <2>1. batch.gone \in 0 .. objects
    BY DEF IInv, GivenOut
  <2> QED BY <1>1, <2>1, Numbers DEF IInv, Gone, Lineal
<1> QED BY <1>2, <1>3, <1>4, <1>5, <1>6, <1>7, <1>8 DEF IInv

\* A content is written over another that was there.
LEMMA WriteIs ==
    ASSUME IInv, NEW over \in 0 .. top, Write(top + 1, over)
    PROVE  /\ top' = top + 1 /\ top' \in Body /\ top \in 0 .. top'
           /\ basis' \in [Body -> SUBSET Body] /\ After(top + 1, over)
           /\ \A c \in 0 .. top : basis'[c] = basis[c]
<1>1. top < MaxBody /\ top' = top + 1
      /\ basis' = [basis EXCEPT ![top + 1] = basis[over] \cup {over}]
  BY DEF Write
<1>2. top + 1 \in Body /\ over \in Body /\ 0 .. top \subseteq Body /\ top + 1 \notin 0 .. top
  BY <1>1, Numbers, Bounds DEF Body
<1>3. basis[over] \cup {over} \in SUBSET Body
  BY <1>2, Numbers
<1> QED BY <1>1, <1>2, <1>3, Numbers DEF After

\* The user's new content is owed.
LEMMA EditIs ==
    ASSUME IInv, top' = top + 1, top' \in Body, unsent' = unsent \cup {top + 1},
           strayed' = strayed
    PROVE  /\ unsent' \subseteq 1 .. top' /\ unsent' \subseteq Body
           /\ Owed' \cap (0 .. top) \subseteq Owed
BY Numbers, Bounds DEF Owed, Body

\* A file with another content; and one that is filled with it.
LEMMA FileIs ==
    ASSUME NEW f \in File
    PROVE  /\ f.mark \in BOOLEAN /\ f.ver \in Version /\ f.stamp \in Body \cup {None}
           /\ f.body \in Body
           /\ DOMAIN f = {"mark", "ver", "stamp", "body"}
BY DEF File

LEMMA BodyIs ==
    ASSUME NEW f \in File, NEW b \in Body
    PROVE  LET g == [f EXCEPT !.body = b]
           IN  /\ g \in File /\ g.body = b /\ g.mark = f.mark /\ g.ver = f.ver
               /\ g.stamp = f.stamp
<1>1. [f EXCEPT !.body = b] \in File
  BY DEF File
<1> QED BY <1>1, FileIs, Zenon

\* What is written now is in no file yet.
LEMMA OldBodies ==
    ASSUME IInv
    PROVE  /\ \A i \in Inode : file[i].body # top + 1
           /\ Blank.body # top + 1
<1>1. \A i \in Inode : file[i].body \in 0 .. top
  BY DEF IInv, FilesSound, Sound, SoundIn
<1> QED BY <1>1, Numbers, BlankIs

LEMMA SaveInPlaceKeeps == ASSUME IInv, SaveInPlace PROVE IInv'
<1>1. /\ held # 0 /\ Write(top + 1, file[held].body) /\ unsent' = unsent \cup {top + 1}
      /\ file' = [file EXCEPT ![held] = [file[held] EXCEPT !.body = top + 1]]
      /\ UNCHANGED <<drive, last, objects, at, scratch, hidden, record, held, daemon>>
  BY DEF SaveInPlace, Edit
<1>2. UNCHANGED <<known, queue, delta, evict, upload, past, turns, strayed, late, crossed>>
  BY <1>1 DEF daemon, delta, past
<1> DEFINE f == file[held]  g == [f EXCEPT !.body = top + 1]
<1>3. held \in Inode /\ f \in File
  BY <1>1, Numbers
<1>4. SoundIn(f, top, objects, Owed)
  BY <1>3 DEF IInv, FilesSound, Sound
<1>5. f.body \in 0 .. top
  BY <1>4 DEF SoundIn
<1>6. /\ top' = top + 1 /\ top' \in Body /\ top \in 0 .. top'
      /\ basis' \in [Body -> SUBSET Body] /\ After(top + 1, f.body)
      /\ \A c \in 0 .. top : basis'[c] = basis[c]
  BY <1>1, <1>5, WriteIs
<1>7. g \in File /\ g.body = top + 1 /\ g.mark = f.mark /\ g.ver = f.ver /\ g.stamp = f.stamp
  BY <1>3, <1>6, BodyIs
<1>8. file' = [file EXCEPT ![held] = g]
  BY <1>1
<1> HIDE DEF f, g
<1>9. unsent' \subseteq 1 .. top' /\ unsent' \subseteq Body
      /\ Owed' \cap (0 .. top) \subseteq Owed
  BY <1>1, <1>2, <1>6, EditIs
<1>10. /\ file' \in [Inode -> File] /\ file'[held] = g
       /\ \A i \in Inode \ {held} : file'[i] = file[i]
  BY <1>3, <1>7, <1>8, Numbers
<1>11. Onward
  BY <1>1, <1>6, <1>9, Numbers DEF Onward
<1>12. WorldOK' /\ WorldSound'
  <2>1. drive.body \notin unsent'
    BY <1>1, Numbers
  <2>2. WorldOK /\ WorldSound
    BY DEF IInv, TypeOK
  <2>3. last \in 0 .. top' /\ drive \in Given' /\ top' >= 1
    BY <1>6, <1>11, <2>2, Grows, Numbers DEF WorldSound
  <2> QED BY <1>1, <1>2, <1>6, <1>9, <2>1, <2>2, <2>3 DEF WorldOK, WorldSound
<1>13. FilesOK'
  BY <1>1, <1>10 DEF IInv, TypeOK, FilesOK
<1>14. FilesSound'
  <2>1. SoundIn(g, top', objects', Owed')
    <3>1. f.ver \in [obj : 0 .. objects', body : 0 .. top'] /\ f.stamp \in (0 .. top) \cup {None}
      BY <1>4, <1>11, Grows DEF SoundIn, Given
    <3>2. f.stamp # top + 1 /\ f.stamp \in (0 .. top') \cup {None} /\ top + 1 \in 0 .. top'
      BY <1>6, <3>1, Numbers, Bounds
    <3>3. ~ Clean(g)
      BY <1>7, <3>2 DEF Clean
    <3>4. ~ g.mark
      BY <1>1, <1>7, Zenon DEF IInv, Opened, f
    <3>5. g.ver \in [obj : 0 .. objects', body : 0 .. top'] /\ g.body \in 0 .. top'
          /\ g.stamp \in (0 .. top') \cup {None}
      BY <1>7, <3>1, <3>2
    <3> QED BY <3>3, <3>4, <3>5, Zenon DEF SoundIn
  <2> QED BY <1>3, <1>10, <1>11, <2>1, FilesStay
<1>15. Opened'
  BY <1>1, <1>7, <1>10, Zenon DEF IInv, Opened, f
<1>16. BodiesFollow
  BY <1>3, <1>7, <1>10 DEF BodiesFollow
<1>17. at # 0 => /\ at' = at /\ file'[at].ver = file[at].ver
                 /\ file'[at].mark => file[at].mark
  <2>1. CASE at = held
    BY <1>1, <1>7, <1>10, <2>1, Zenon DEF f
  <2>2. CASE at # held /\ at # 0
    BY <1>1, <1>10, <2>2, Numbers, Zenon
  <2> QED BY <2>1, <2>2
<1>18. NameFollows
  BY <1>1, <1>17, Zenon DEF NameFollows
<1>19. After(Showing', Showing)
  <2>1. CASE at = 0
    BY <1>1, <2>1 DEF Showing, After
  <2>2. CASE at = held
    <3>1. ~ f.mark /\ ~ g.mark
      BY <1>1, <1>7, Zenon DEF IInv, Opened, f
    <3>2. Showing = f.body /\ Showing' = top + 1
      BY <1>1, <1>7, <1>10, <2>2, <3>1, Zenon DEF Showing, f
    <3> QED BY <1>6, <3>2
  <2>3. CASE at # 0 /\ at # held
    BY <1>1, <1>10, <2>3, Numbers, Zenon DEF Showing, After
  <2> QED BY <2>1, <2>2, <2>3
<1>20. Lineal /\ Heirs /\ After(drive'.body, drive.body)
  BY <1>1, <1>6, <1>19 DEF Lineal, Heirs, After
<1>21. waiting' \subseteq Inode /\ sending' = sending
  BY <1>2 DEF IInv, TypeOK, QueueOK, queue
<1>22. OneNew
  BY <1>3, <1>10, OldBodies DEF OneNew
<1> QED BY <1>1, <1>2, <1>11, <1>12, <1>13, <1>14, <1>15, <1>16, <1>18, <1>20, <1>21, <1>22,
   OutsideKeeps

\* A file goes on living, and what is lost is the one under the name.
LEMMA SaveOverKeeps == ASSUME IInv, SaveOver PROVE IInv'
<1> DEFINE roots == {scratch, held} \cup hidden  g == [Blank EXCEPT !.body = top + 1]
<1>1. /\ Free # {} /\ Write(top + 1, Showing) /\ unsent' = unsent \cup {top + 1}
      /\ at' = Fresh /\ last' = 0
      /\ file' = [Living(file, roots) EXCEPT ![Fresh] = [Blank EXCEPT !.body = top + 1]]
      /\ UNCHANGED <<drive, objects, scratch, hidden, record, held, daemon>>
  BY DEF SaveOver
<1>2. UNCHANGED <<known, queue, delta, evict, upload, past, turns, strayed, late, crossed>>
  BY <1>1 DEF daemon, delta, past
<1>3. /\ top' = top + 1 /\ top' \in Body /\ top \in 0 .. top'
      /\ basis' \in [Body -> SUBSET Body] /\ After(top + 1, Showing)
      /\ \A c \in 0 .. top : basis'[c] = basis[c]
  BY <1>1, ShowingIs, WriteIs
<1>4. g \in File /\ g.body = top + 1 /\ g.mark = FALSE /\ g.ver = Nothing /\ g.stamp = None
  BY <1>3, BlankIs, BodyIs
<1>5. /\ Fresh \in Inode /\ Fresh \notin {at, scratch, held, job, own, guard.ino}
      /\ Fresh \notin hidden
  BY <1>1, FreshIs
<1>6. file' = [Living(file, roots) EXCEPT ![Fresh] = g]
  BY <1>1
<1> HIDE DEF roots, g
<1>7. /\ file' \in [Inode -> File] /\ file'[Fresh] = g
      /\ \A i \in Inode \ {Fresh} : /\ i \in roots => file'[i] = file[i]
                                    /\ i \notin roots => file'[i] = Blank
  BY <1>4, <1>5, <1>6, LivingAndIs
<1>8. unsent' \subseteq 1 .. top' /\ unsent' \subseteq Body
      /\ Owed' \cap (0 .. top) \subseteq Owed
  BY <1>1, <1>2, <1>3, EditIs
<1>9. Onward
  BY <1>1, <1>3, <1>8, Numbers DEF Onward
<1>10. WorldOK' /\ WorldSound'
  <2>1. drive.body \notin unsent'
    BY <1>1, Numbers
  <2>2. WorldOK /\ WorldSound
    BY DEF IInv, TypeOK
  <2>3. 0 \in Body /\ 0 \in 0 .. top' /\ drive \in Given' /\ top' >= 1
    BY <1>3, <1>9, <2>2, Grows, Numbers, Bounds DEF WorldSound, Body
  <2> QED BY <1>1, <1>2, <1>3, <1>8, <2>1, <2>2, <2>3 DEF WorldOK, WorldSound
<1>11. FilesOK'
  BY <1>1, <1>5, <1>7 DEF IInv, TypeOK, FilesOK, At
<1>12. FilesSound'
  <2>1. SoundIn(g, top', objects', Owed')
    <3>1. Nothing \in [obj : 0 .. objects', body : 0 .. top'] /\ top + 1 \in 0 .. top'
      BY <1>3, <1>9, Numbers DEF Nothing, Onward
    <3>2. ~ Clean(g)
      BY <1>3, <1>4, Bounds DEF Clean
    <3> QED BY <1>4, <3>1, <3>2, Zenon DEF SoundIn
  <2> QED BY <1>5, <1>7, <1>9, <2>1, FilesStay
<1>13. Opened'
  <2>1. held # 0 => file'[held] = file[held]
    BY <1>5, <1>7, Numbers DEF roots
  <2> QED BY <1>1, <2>1, Zenon DEF IInv, Opened
<1>14. BodiesFollow
  <2>1. 0 \notin Owed'
    BY <1>8 DEF Owed
  <2> QED BY <1>4, <1>5, <1>7, <2>1, BlankIs DEF BodiesFollow
<1>15. NameFollows /\ at' \notin hidden \cup {scratch, guard.ino}
  BY <1>1, <1>4, <1>5, <1>7, Bounds DEF NameFollows
<1>16. After(Showing', Showing)
  <2>1. Showing' = top + 1
    BY <1>1, <1>4, <1>5, <1>7, Bounds, Zenon DEF Showing
  <2> QED BY <1>3, <2>1
<1>17. Lineal /\ Heirs /\ After(drive'.body, drive.body)
  BY <1>1, <1>3, <1>16 DEF Lineal, Heirs, After
<1>18. waiting' \subseteq Inode /\ sending' = sending
  BY <1>2 DEF IInv, TypeOK, QueueOK, queue
<1>19. OneNew
  BY <1>5, <1>7, OldBodies DEF OneNew
<1> QED BY <1>1, <1>2, <1>9, <1>10, <1>11, <1>12, <1>13, <1>14, <1>15, <1>17, <1>18, <1>19,
   OutsideKeeps

\* Nothing is written and nothing is given out; a file may go.
LEMMA QuietKeeps ==
    ASSUME IInv, UNCHANGED <<drive, known, unsent, basis, top, objects, past>>,
           last' \in 0 .. top,
           FilesOK', Opened',
           \A i \in Inode : file'[i] = file[i] \/ file'[i] = Blank,
           NameFollows, After(Showing', Showing), at' = at \/ at' = 0,
           UNCHANGED <<scratch, hidden, record, sending, delta, evict, upload, turns>>,
           waiting' \subseteq Inode
    PROVE  IInv'
<1>1. UNCHANGED <<strayed, late, crossed>>
  BY DEF past
<1>2. Onward
  BY <1>1, QuietOnward
<1>3. WorldOK' /\ WorldSound'
  <2>1. WorldOK /\ WorldSound
    BY DEF IInv, TypeOK
  <2>2. last' \in Body
    BY Numbers, Bounds DEF Body
  <2> QED BY <1>1, <2>1, <2>2 DEF WorldOK, WorldSound, Given
<1>4. FilesSound'
  BY <1>2, FilesStay
<1>5. BodiesFollow
  <2>1. 0 \notin Owed'
    BY <1>1, Numbers DEF Owed
  <2> QED BY <2>1, BlankIs DEF BodiesFollow
<1>6. Lineal /\ Heirs /\ After(drive'.body, drive.body)
  BY DEF Lineal, Heirs, After
<1>7. OneNew
  BY OldBodies DEF OneNew
<1> QED BY <1>1, <1>2, <1>3, <1>4, <1>5, <1>6, <1>7, OutsideKeeps

LEMMA OpenKeeps == ASSUME IInv, Open PROVE IInv'
<1>1. /\ at # 0 /\ ~ file[at].mark /\ held' = at
      /\ UNCHANGED <<drive, known, unsent, basis, last, top, objects, past, file, at, scratch,
                     hidden, record, waiting, sending, delta, evict, upload, turns>>
  BY DEF Open, world, disk, daemon, queue, delta
<1>2. FilesOK' /\ waiting' \subseteq Inode /\ last' \in 0 .. top
  BY <1>1, Numbers DEF IInv, TypeOK, FilesOK, QueueOK
<1>3. Opened'
  BY <1>1, Zenon DEF Opened
<1>4. NameFollows /\ After(Showing', Showing)
  BY <1>1 DEF NameFollows, After, Showing
<1> QED BY <1>1, <1>2, <1>3, <1>4, QuietKeeps

LEMMA NoticeKeeps == ASSUME IInv, Notice PROVE IInv'
<1>1. /\ at # 0 /\ waiting' = waiting \cup {at}
      /\ UNCHANGED <<drive, known, unsent, basis, last, top, objects, past, file, at, scratch,
           held, hidden, record, sending, delta, evict, upload, turns>>
  BY DEF Notice, world, disk, delta
<1>2. FilesOK' /\ waiting' \subseteq Inode /\ last' \in 0 .. top
  BY <1>1, Numbers DEF IInv, TypeOK, FilesOK, QueueOK
<1>3. Opened'
  BY <1>1, Zenon DEF IInv, Opened
<1>4. at = 0 \/ at # 0 => NameFollows /\ After(Showing', Showing)
  BY <1>1 DEF NameFollows, After, Showing
<1> QED BY <1>1, <1>2, <1>3, <1>4, QuietKeeps

LEMMA CloseKeeps == ASSUME IInv, Close PROVE IInv'
<1> DEFINE roots == {at, scratch} \cup hidden
<1>1. /\ held' = 0 /\ file' = Living(file, roots)
      /\ UNCHANGED <<drive, known, unsent, basis, last, top, objects, past, at, scratch,
                     hidden, record, waiting, sending, delta, evict, upload, turns>>
  BY DEF Close, world, daemon, queue, delta
<1> HIDE DEF roots
<1>2. /\ file' \in [Inode -> File]
      /\ \A i \in Inode : (i \in roots => file'[i] = file[i])
           /\ (i \notin roots => file'[i] = Blank)
  BY <1>1, LivingIs
<1>3. FilesOK' /\ waiting' \subseteq Inode /\ last' \in 0 .. top
  BY <1>1, <1>2, Numbers DEF IInv, TypeOK, FilesOK, QueueOK, At
<1>4. Opened'
  BY <1>1 DEF Opened
<1>5. at # 0 => file'[at] = file[at]
  BY <1>2, Numbers DEF roots
<1>6. NameFollows /\ After(Showing', Showing)
  BY <1>1, <1>5, Zenon DEF NameFollows, After, Showing
<1> QED BY <1>1, <1>2, <1>3, <1>4, <1>6, QuietKeeps

LEMMA DeleteKeeps == ASSUME IInv, Delete PROVE IInv'
<1> DEFINE roots == {scratch, held} \cup hidden
<1>1. /\ at' = 0 /\ last' = Showing /\ file' = Living(file, roots)
      /\ UNCHANGED <<drive, known, unsent, basis, top, objects, past, scratch, held,
                     hidden, record, waiting, sending, delta, evict, upload, turns>>
  BY DEF Delete, daemon, queue, delta
<1> HIDE DEF roots
<1>2. /\ file' \in [Inode -> File]
      /\ \A i \in Inode : (i \in roots => file'[i] = file[i])
           /\ (i \notin roots => file'[i] = Blank)
  BY <1>1, LivingIs
<1>3. FilesOK' /\ waiting' \subseteq Inode /\ last' \in 0 .. top
  BY <1>1, <1>2, Numbers, ShowingIs DEF IInv, TypeOK, FilesOK, QueueOK, At
<1>4. Opened'
  <2>1. held # 0 => file'[held] = file[held]
    BY <1>2, Numbers DEF roots
  <2> QED BY <1>1, <2>1, Zenon DEF IInv, Opened
<1>5. NameFollows /\ After(Showing', Showing)
  BY <1>1, Zenon DEF NameFollows, After, Showing
<1> QED BY <1>1, <1>2, <1>3, <1>4, <1>5, QuietKeeps

LEMMA HydrateKeeps == ASSUME IInv, Hydrate PROVE IInv'
<1> DEFINE f == file[at]
           g == [f EXCEPT !.mark = FALSE, !.body = drive.body, !.stamp = drive.body]
<1>1. /\ at # 0 /\ f.mark
      /\ file' = [file EXCEPT ![at] = [f EXCEPT !.mark = FALSE, !.body = drive.body,
                                                !.stamp = drive.body]]
      /\ UNCHANGED <<drive, known, unsent, basis, last, top, objects, past, at, scratch, held,
                     hidden, record, waiting, sending, delta, evict, upload, turns, strayed>>
  BY DEF Hydrate, world, daemon, queue, delta, past
<1>2. at \in Inode /\ f \in File /\ drive.body \in Body
  BY <1>1, Numbers, Bounds DEF Body
<1>3. g \in File /\ g.mark = FALSE /\ g.ver = f.ver /\ g.stamp = drive.body /\ g.body = drive.body
  <2>1. ASSUME NEW b \in BOOLEAN
        PROVE [f EXCEPT !.mark = b, !.body = drive.body, !.stamp = drive.body] \in File
    BY <1>2 DEF File
  <2>2. g \in File
    BY <2>1, Zenon
  <2> QED BY <1>2, <2>2, FileIs, Zenon
<1>4. file' = [file EXCEPT ![at] = g]
  BY <1>1
<1>5. SoundIn(f, top, objects, Owed)
  BY <1>2 DEF IInv, FilesSound, Sound
<1> HIDE DEF f, g
<1>6. /\ file' \in [Inode -> File] /\ file'[at] = g
      /\ \A i \in Inode \ {at} : file'[i] = file[i]
  BY <1>2, <1>3, <1>4, Numbers
<1>7. Onward /\ WorldOK' /\ WorldSound'
  BY <1>1, QuietWorld DEF world
<1>8. FilesOK' /\ waiting' \subseteq Inode
  BY <1>1, <1>6 DEF IInv, TypeOK, FilesOK, QueueOK
<1>9. drive.body \notin Owed'
  BY <1>1, Numbers DEF Owed
<1>10. FilesSound'
  <2>1. SoundIn(g, top', objects', Owed')
    <3>1. f.ver \in [obj : 0 .. objects', body : 0 .. top'] /\ drive.body \in 0 .. top'
      BY <1>1, <1>5, Numbers DEF SoundIn
    <3> QED BY <1>3, <1>9, <3>1, Zenon DEF SoundIn
  <2> QED BY <1>2, <1>6, <1>7, <2>1, FilesStay
<1>11. Opened'
  <2>1. held # 0 /\ held # at => file'[held] = file[held]
    BY <1>6, Numbers
  <2> QED BY <1>1, <1>3, <1>6, <2>1, Zenon DEF IInv, Opened
<1>12. BodiesFollow
  BY <1>2, <1>3, <1>6, <1>9 DEF BodiesFollow
<1>13. NameFollows
  BY <1>1, <1>3, <1>6, Zenon DEF NameFollows, f
<1>14. Showing' = drive.body
  BY <1>1, <1>3, <1>6, Zenon DEF Showing
<1>15. Lineal /\ Heirs /\ After(drive'.body, drive.body)
  BY <1>1, <1>14 DEF Lineal, Heirs, After
<1>16. OneNew
  BY <1>1, NoneNew DEF Owed
<1> QED BY <1>1, <1>7, <1>8, <1>10, <1>11, <1>12, <1>13, <1>15, <1>16, OutsideKeeps

\* The drive changes, and nothing here.
LEMMA DriveKeeps ==
    ASSUME IInv, WorldOK', WorldSound', Onward, Lineal,
           drive'.obj = drive.obj => After(drive'.body, drive.body),
           UNCHANGED <<last, disk, held, daemon>>
    PROVE  IInv'
<1>1. /\ UNCHANGED <<file, at, scratch, hidden, record, held, delta, evict, upload, past, turns,
                     waiting, sending>>
  BY DEF disk, daemon, queue
<1>2. FilesOK' /\ waiting' \subseteq Inode
  BY <1>1 DEF IInv, TypeOK, FilesOK, QueueOK
<1>3. FilesSound'
  BY <1>1, FilesStay
<1>4. Opened'
  BY <1>1, Zenon DEF IInv, Opened
<1>5. BodiesFollow
  BY <1>1 DEF BodiesFollow
<1>6. NameFollows
  BY <1>1 DEF NameFollows
<1>7. Showing' = Showing
  BY <1>1, Zenon DEF Showing
<1>8. Heirs
  BY <1>7 DEF Heirs, After
<1>9. OneNew
  BY <1>1, OldBodies DEF OneNew
<1> QED BY <1>1, <1>2, <1>3, <1>4, <1>5, <1>6, <1>8, <1>9, OutsideKeeps

LEMMA DriveEditKeeps == ASSUME IInv, DriveEdit PROVE IInv'
<1>1. /\ drive.obj # 0 /\ Write(top + 1, drive.body)
      /\ drive' = [drive EXCEPT !.body = top + 1]
      /\ UNCHANGED <<unsent, last, objects, disk, held, daemon, strayed, late, crossed, known>>
  BY DEF DriveEdit, daemon, past, delta
<1>2. /\ top' = top + 1 /\ top' \in Body /\ top \in 0 .. top'
      /\ basis' \in [Body -> SUBSET Body] /\ After(top + 1, drive.body)
      /\ \A c \in 0 .. top : basis'[c] = basis[c]
  BY <1>1, Numbers, WriteIs
<1>3. Onward
  BY <1>1, <1>2, Numbers DEF Onward, Owed
<1>4. WorldOK /\ WorldSound
  BY DEF IInv, TypeOK
<1>5. drive' \in Version /\ drive' \in Given' /\ drive'.obj = drive.obj /\ drive'.body = top + 1
  <2>1. drive \in Version /\ drive \in Given /\ objects' = objects
    BY <1>1, <1>4 DEF WorldOK, WorldSound
  <2>2. top + 1 \in 0 .. top' /\ top + 1 \in Body
    BY <1>2, Numbers
  <2> QED BY <1>1, <2>1, <2>2 DEF Version, Given
<1>6. WorldOK' /\ WorldSound'
  <2>1. last \in 0 .. top' /\ top' >= 1 /\ unsent \subseteq 1 .. top' /\ top + 1 \notin unsent
    BY <1>2, <1>4, Numbers DEF WorldSound
  <2> QED BY <1>1, <1>2, <1>4, <1>5, <2>1 DEF WorldOK, WorldSound
<1>7. Lineal /\ After(drive'.body, drive.body)
  BY <1>2, <1>5 DEF Lineal
<1> QED BY <1>1, <1>3, <1>6, <1>7, DriveKeeps

LEMMA NothingIs == Nothing.obj = 0 /\ Nothing.body = 0 /\ Nothing \in Version
BY LocalAssumption DEF Nothing, Version, Object, Body

LEMMA NothingGiven == ASSUME IInv PROVE Nothing \in Given
BY Numbers DEF Nothing, Given

LEMMA DriveDeleteKeeps == ASSUME IInv, DriveDelete PROVE IInv'
<1>1. /\ drive' = Nothing
      /\ UNCHANGED <<unsent, basis, last, top, objects, disk, held, daemon, strayed, late, crossed,
                     known>>
  BY DEF DriveDelete, daemon, past, delta
<1>2. Onward
  BY <1>1, QuietOnward
<1>3. WorldOK' /\ WorldSound'
  <2>1. WorldOK /\ WorldSound
    BY DEF IInv, TypeOK
  <2>2. 0 \notin unsent /\ Nothing \in Given'
    BY <1>1, Numbers, NothingGiven DEF Given
  <2> QED BY <1>1, <2>1, <2>2, NothingIs DEF WorldOK, WorldSound
<1>4. Lineal /\ (drive'.obj = drive.obj => After(drive'.body, drive.body))
  <2>1. drive.obj # 0
    BY DEF DriveDelete
  <2> QED BY <1>1, <2>1, NothingIs DEF Lineal
<1> QED BY <1>1, <1>2, <1>3, <1>4, DriveKeeps

LEMMA DriveCreateKeeps == ASSUME IInv, DriveCreate PROVE IInv'
<1>1. /\ drive.obj = 0 /\ objects < MaxObject /\ objects' = objects + 1 /\ Write(top + 1, 0)
      /\ drive' = [obj |-> objects', body |-> top + 1]
      /\ UNCHANGED <<unsent, last, disk, held, daemon, strayed, late, crossed, known>>
  BY DEF DriveCreate, daemon, past, delta
<1>2. /\ top' = top + 1 /\ top' \in Body /\ top \in 0 .. top'
      /\ basis' \in [Body -> SUBSET Body] /\ \A c \in 0 .. top : basis'[c] = basis[c]
  BY <1>1, Numbers, WriteIs
<1>3. Onward
  BY <1>1, <1>2, Numbers DEF Onward, Owed
<1>4. WorldOK /\ WorldSound
  BY DEF IInv, TypeOK
<1>5. drive' \in Version /\ drive' \in Given' /\ drive'.obj = objects + 1 /\ drive'.body = top + 1
      /\ objects' \in Object
  <2>1. top + 1 \in 0 .. top' /\ top + 1 \in Body /\ objects' \in Object
        /\ objects' \in 0 .. objects'
    BY <1>1, <1>2, Numbers, Bounds DEF Object
  <2> QED BY <1>1, <2>1 DEF Version, Given
<1>6. WorldOK' /\ WorldSound'
  <2>1. last \in 0 .. top' /\ top' >= 1 /\ unsent \subseteq 1 .. top' /\ top + 1 \notin unsent
    BY <1>2, <1>4, Numbers DEF WorldSound
  <2> QED BY <1>1, <1>2, <1>4, <1>5, <2>1 DEF WorldOK, WorldSound
<1>7. Lineal /\ drive'.obj # drive.obj
  BY <1>1, <1>2, <1>5, Numbers DEF Lineal
<1> QED BY <1>1, <1>3, <1>6, <1>7, DriveKeeps

-----------------------------------------------------------------------------
(* The pass: what it looks at.                                             *)

\* Nothing is disturbed of what is known of the versions.
LEMMA Same ==
    ASSUME UNCHANGED <<drive, basis, at, file, last>>
    PROVE  \A v, c : /\ Knows(v, c) => KnowsThen(v, c)
                     /\ Follows(v) => FollowsThen(v)
<1>1. Showing' = Showing
  BY Zenon DEF Showing
<1> QED BY <1>1 DEF Knows, KnowsThen, Follows, FollowsThen

\* A step of the pass that changes no file.
LEMMA LooksOn ==
    ASSUME IInv, UNCHANGED <<world, file, at, scratch, hidden, held, queue, evict, upload,
           strayed>>,
           known' \in Given, late' \in BOOLEAN, crossed' = crossed, turns' \in 0 .. MaxTurns,
           PassOK', record' \in Given, batch'.put \in Given, batch'.gone \in 0 .. objects,
           looked'.body \in 0 .. top, looked'.stamped => looked'.body \notin Owed,
           Gone',
           ~ crossed =>
             /\ FollowsThen(record')
             /\ dAt' # "idle" /\ ~ late' => KnowsThen(batch'.put, drive.body)
             /\ dAt' \notin {"idle", "done"} /\ ~ late' => KnowsThen(record', batch'.put.body)
             /\ dAt' = "pulled" /\ ~ late' =>
                   /\ at # 0 => KnowsThen(file[at].ver, batch'.put.body)
                   /\ Holding => KnowsThen(uploaded, batch'.put.body)
    PROVE  IInv'
<1>1. UNCHANGED <<drive, unsent, basis, last, top, objects, waiting, sending, eAt,
      eSnap, guard, own, uAt, job, base, observed, uploaded>>
  BY DEF world, queue, evict, upload
<1>2. Onward
  BY <1>1, QuietOnward
<1>3. Owed' = Owed /\ Given' = Given
  BY <1>1 DEF Owed, Given
<1>4. TypeOK'
  <2>1. known' \in Version /\ record' \in Version
    BY Numbers, Bounds DEF Given, Version, Object, Body
  <2>2. WorldOK' /\ FilesOK'
    BY <1>1, <2>1 DEF IInv, TypeOK, WorldOK, FilesOK
  <2>3. QueueOK' /\ SweepOK' /\ UploadOK' /\ OnePlace'
    BY <1>1 DEF IInv, TypeOK, QueueOK, SweepOK, UploadOK, OnePlace
  <2> QED BY <2>2, <2>3 DEF TypeOK
<1>5. WorldSound'
  BY <1>1, <1>3 DEF IInv, WorldSound
<1>6. GivenOut'
  BY <1>1, <1>3 DEF IInv, GivenOut
<1>7. FilesSound'
  BY <1>2, FilesStay
<1>8. Placed'
  BY <1>1 DEF IInv, Placed, Sent
<1>9. Opened'
  BY Zenon DEF IInv, Opened
<1>10. BodiesFollow
  BY DEF BodiesFollow
<1>11. Truthful'
  <2>1. /\ Sent /\ file[job].body = observed => observed \notin Owed
        /\ uAt # "idle" => \A i \in Inode \ {job} : file[i].body = observed => observed \notin Owed
        /\ \A i, j \in Inode : i # j /\ file[i].body = file[j].body => file[i].body \notin Owed
    BY Zenon DEF IInv, Truthful
  <2>2. Sent' <=> Sent
    BY <1>1 DEF Sent
  <2> QED BY <1>1, <1>3, <2>1, <2>2, Zenon DEF Truthful
<1>12. Approved'
  BY <1>1, <1>2, <1>10, ApprovedStays
<1>13. Descends'
  <2> SUFFICES ASSUME ~ crossed PROVE DescendsThen
    BY <1>1, DescendsThenIs, Zenon DEF DescendsThen
  <2>1. \A v : Follows(v) => FollowsThen(v)
    BY <1>1, Same
  <2>2. at # 0 => FollowsThen(file[at].ver)
    BY <2>1, Zenon DEF IInv, Descends
  <2>3. uAt = "begun" /\ at = job => FollowsThen(base)
    BY <2>1, Zenon DEF IInv, Descends
  <2>4. Holding => FollowsThen(uploaded) /\ (at # 0 => ~ file[at].mark)
    BY <2>1, Zenon DEF IInv, Descends
  <2>5. Holding' <=> Holding
    BY <1>1 DEF Holding
  <2> QED BY <1>1, <2>2, <2>3, <2>4, <2>5, Zenon DEF DescendsThen
<1> QED BY <1>4, <1>5, <1>6, <1>7, <1>8, <1>9, <1>11, <1>12, <1>13 DEF IInv

\* What a look at a file sees of one that is not dirty is not owed.
LEMMA LookIs ==
    ASSUME IInv, at # 0, ~ Dirty(file[at]), Look
    PROVE  /\ looked' \in [body : Body, stamped : BOOLEAN] /\ looked'.body \in 0 .. top
           /\ looked'.stamped => looked'.body \notin Owed
<1> DEFINE f == file[at]
<1>1. at \in Inode /\ f \in File
  BY Numbers
<1>2. SoundIn(f, top, objects, Owed)
  BY <1>1 DEF IInv, FilesSound, Sound
<1>3. f.body \in 0 .. top /\ (f.stamp = f.body => f.body \notin Owed)
  BY <1>2, Zenon DEF SoundIn, Clean
<1>4. f.stamp # None => f.stamp = f.body
  BY DEF Dirty
<1>5. looked'.body = f.body /\ (looked'.stamped <=> f.stamp # None)
  BY Zenon DEF Look
<1>6. looked' \in [body : Body, stamped : BOOLEAN]
  <2>1. f.body \in Body
    BY <1>1, FileIs
  <2>2. ASSUME NEW b \in BOOLEAN
        PROVE [body |-> f.body, stamped |-> b] \in [body : Body, stamped : BOOLEAN]
    BY <2>1
  <2>3. (f.stamp # None) \in BOOLEAN
    OBVIOUS
  <2> QED BY <2>2, <2>3, Zenon DEF Look
<1> QED BY <1>3, <1>4, <1>5, <1>6, Zenon

LEMMA UnseenIs ==
    ASSUME IInv
    PROVE  /\ Unseen \in [body : Body, stamped : BOOLEAN] /\ Unseen.body = 0 /\ 0 \in 0 .. top
           /\ 0 \notin Owed
<1>1. Unseen.body = 0
  BY Zenon DEF Unseen
<1>2. ASSUME NEW b \in BOOLEAN
      PROVE [body |-> 0, stamped |-> b] \in [body : Body, stamped : BOOLEAN]
  BY Bounds DEF Body
<1>3. Unseen \in [body : Body, stamped : BOOLEAN]
  BY <1>2, Zenon DEF Unseen
<1> QED BY <1>1, <1>3, Numbers DEF Owed

\* What was seen is still what was seen.
LEMMA SeenIs ==
    ASSUME IInv
    PROVE  /\ looked \in [body : Body, stamped : BOOLEAN] /\ looked.body \in 0 .. top
           /\ looked.stamped => looked.body \notin Owed
<1>1. looked.stamped => looked.body \notin Owed
  BY Zenon DEF IInv, Truthful
<1> QED BY <1>1 DEF IInv, TypeOK, PassOK, GivenOut

LEMMA NoBatchIs ==
    ASSUME IInv
    PROVE  /\ NoBatch \in [gone : Object, put : Version]
           /\ NoBatch.put \in Given /\ NoBatch.gone \in 0 .. objects
BY NothingIs, NothingGiven, Numbers, Bounds DEF NoBatch, Object

LEMMA PassIs ==
    ASSUME IInv
    PROVE  /\ record \in Given /\ batch.put \in Given /\ batch.gone \in 0 .. objects
           /\ known \in Given /\ late \in BOOLEAN /\ turns \in 0 .. MaxTurns
           /\ batch \in [gone : Object, put : Version] /\ snap \subseteq Inode
           /\ claims \in Object
BY DEF IInv, TypeOK, WorldOK, QueueOK, PassOK, GivenOut

LEMMA PullKeeps == ASSUME IInv, Pull PROVE IInv'
<1> DEFINE gone == IF known.obj \in {0, drive.obj} THEN 0 ELSE known.obj
<1>1. /\ dAt = "idle" /\ dAt' = "pulled" /\ snap' = waiting /\ late' = FALSE
      /\ batch' = [gone |-> gone, put |-> drive]
      /\ turns < MaxTurns /\ turns' = turns + 1
      /\ UNCHANGED <<known, claims, looked, file, at, scratch, hidden, record, crossed, world,
           held, queue, evict, upload, strayed, drive, basis, last>>
  BY DEF Pull, Turn, disk, Rest, world
<1>2. gone \in 0 .. objects /\ (gone # 0 => gone # drive.obj) /\ gone \in Object
  <2>1. known.obj \in 0 .. objects /\ drive.obj \in 0 .. objects
    BY PassIs, Numbers DEF Given
  <2> QED BY <2>1, Numbers, Bounds DEF Object
<1> HIDE DEF gone
<1>3. batch'.put = drive /\ batch'.gone = gone /\ drive \in Given /\ drive \in Version
  BY <1>1 DEF IInv, WorldSound, TypeOK, WorldOK
<1>4. PassOK'
  <2>1. batch' \in [gone : Object, put : Version] /\ snap' \subseteq Inode
    BY <1>1, <1>2, <1>3 DEF IInv, TypeOK, QueueOK
  <2> QED BY <1>1, <2>1, SeenIs, PassIs DEF PassOK
<1>5. Gone'
  BY <1>1, <1>2, <1>3 DEF Gone
<1>6. turns' \in 0 .. MaxTurns
  BY <1>1, PassIs, LocalAssumption
<1>7. ASSUME ~ crossed
      PROVE  /\ FollowsThen(record) /\ KnowsThen(drive, drive.body)
             /\ KnowsThen(record, drive.body)
             /\ at # 0 => KnowsThen(file[at].ver, drive.body)
             /\ Holding => KnowsThen(uploaded, drive.body)
  <2>1. /\ Follows(record) /\ (at # 0 => Follows(file[at].ver))
        /\ Holding => Follows(uploaded)
    BY <1>7, Zenon DEF IInv, Descends
  <2>2. KnowsThen(drive, drive.body)
    BY DEF KnowsThen
  <2>3. \A v : Follows(v) => Knows(v, drive.body) /\ FollowsThen(v)
    BY <1>1, Same DEF Follows
  <2>4. \A v : Knows(v, drive.body) => KnowsThen(v, drive.body)
    BY <1>1, Same
  <2> QED BY <2>1, <2>2, <2>3, <2>4, Zenon
<1> QED BY <1>1, <1>2, <1>3, <1>4, <1>5, <1>6, <1>7, SeenIs, PassIs, LooksOn

\* With the batch it has.
LEMMA LooksOnKeeps ==
    ASSUME IInv, UNCHANGED <<world, file, at, scratch, hidden, held, queue, evict, upload,
           strayed, known, late, crossed, turns, batch, snap, claims, record>>,
           dAt \notin {"idle", "pulled", "done"},
           dAt' \in {"unlink", "put", "place", "done"},
           looked' \in [body : Body, stamped : BOOLEAN], looked'.body \in 0 .. top,
           looked'.stamped => looked'.body \notin Owed,
           dAt' = "unlink" => dAt = "remove" /\ claims = batch.gone
    PROVE  IInv'
<1>1. PassOK'
  BY PassIs DEF PassOK
<1>2. UNCHANGED <<drive, basis, at, file, last, objects>>
  BY DEF world
<1>3. Gone'
  BY <1>2 DEF IInv, Gone
<1>4. ASSUME ~ crossed
      PROVE  /\ FollowsThen(record)
             /\ ~ late => KnowsThen(batch.put, drive.body) /\ KnowsThen(record, batch.put.body)
  <2>1. /\ Follows(record)
        /\ ~ late => Knows(batch.put, drive.body) /\ Knows(record, batch.put.body)
    BY <1>4, Zenon DEF IInv, Descends
  <2> QED BY <1>2, <2>1, Same
<1> QED BY <1>1, <1>3, <1>4, PassIs, LooksOn

LEMMA RemoveLookKeeps == ASSUME IInv, RemoveLook PROVE IInv'
<1>1. /\ dAt = "remove"
      /\ UNCHANGED <<world, file, at, scratch, hidden, held, queue, evict, upload, strayed, known,
                     late, crossed, turns, batch, snap, claims, record>>
  BY DEF RemoveLook, DeltaOnly, Rest, disk
<1>2. CASE claims = batch.gone /\ at # 0 /\ ~ Dirty(file[at]) /\ dAt' = "unlink" /\ Look
  <2>1. /\ looked' \in [body : Body, stamped : BOOLEAN] /\ looked'.body \in 0 .. top
        /\ looked'.stamped => looked'.body \notin Owed
    BY <1>2, LookIs
  <2> QED BY <1>1, <1>2, <2>1, LooksOnKeeps
<1>3. CASE dAt' = "put" /\ looked' = looked
  BY <1>1, <1>3, SeenIs, LooksOnKeeps
<1> QED BY <1>2, <1>3, Zenon DEF RemoveLook

LEMMA PutLookKeeps == ASSUME IInv, PutLook PROVE IInv'
<1>1. /\ dAt = "put"
      /\ UNCHANGED <<world, file, at, scratch, hidden, held, queue, evict, upload, strayed, known,
                     late, crossed, turns, batch, snap, claims, record>>
  BY DEF PutLook, DeltaOnly, Rest, disk
<1>2. CASE at # 0 /\ ~ Dirty(file[at]) /\ dAt' = "place" /\ Look
  <2>1. /\ looked' \in [body : Body, stamped : BOOLEAN] /\ looked'.body \in 0 .. top
        /\ looked'.stamped => looked'.body \notin Owed
    BY <1>2, LookIs
  <2> QED BY <1>1, <1>2, <2>1, LooksOnKeeps
<1>3. CASE dAt' \in {"place", "done"} /\ looked' = looked
  BY <1>1, <1>3, SeenIs, LooksOnKeeps
<1> QED BY <1>2, <1>3, Zenon DEF PutLook, KeptLocal

LEMMA PlaceFailsKeeps == ASSUME IInv, PlaceFails PROVE IInv'
<1>1. /\ dAt = "place" /\ dAt' = "done" /\ looked' = Unseen
      /\ UNCHANGED <<world, file, at, scratch, hidden, held, queue, evict, upload, strayed, known,
                     late, crossed, turns, batch, snap, claims, record>>
  BY DEF PlaceFails, DeltaOnly, Rest, disk
<1> QED BY <1>1, UnseenIs, LooksOnKeeps

LEMMA UnlinkFailsKeeps == ASSUME IInv, UnlinkFails PROVE IInv'
<1>1. /\ dAt = "unlink" /\ dAt' = "put" /\ looked' = Unseen
      /\ UNCHANGED <<world, file, at, scratch, hidden, held, queue, evict, upload, strayed, known,
                     late, crossed, turns, batch, snap, claims, record>>
  BY DEF UnlinkFails, DeltaOnly, Rest, disk
<1> QED BY <1>1, UnseenIs, LooksOnKeeps

LEMMA ScanFailsKeeps == ASSUME IInv, ScanFails PROVE IInv'
<1>1. /\ dAt' = "idle" /\ batch' = NoBatch /\ snap' = {}
      /\ UNCHANGED <<world, file, at, scratch, hidden, held, queue, evict, upload, strayed, known,
                     late, crossed, turns, claims, record, looked, drive, basis, last>>
  BY DEF ScanFails, DeltaOnly, Rest, disk, world
<1>2. PassOK' /\ Gone'
  BY <1>1, PassIs, SeenIs, NoBatchIs DEF PassOK, Gone
<1>3. ASSUME ~ crossed PROVE FollowsThen(record)
  <2>1. Follows(record)
    BY <1>3, Zenon DEF IInv, Descends
  <2> QED BY <1>1, <2>1, Same
<1> QED BY <1>1, <1>2, <1>3, PassIs, SeenIs, NoBatchIs, LooksOn

LEMMA AcceptKeeps == ASSUME IInv, Accept PROVE IInv'
<1>1. /\ dAt' = "idle" /\ batch' = NoBatch /\ snap' = {} /\ claims' = 0 /\ known' = batch.put
      /\ UNCHANGED <<world, file, at, scratch, hidden, held, queue, evict, upload, strayed,
                     late, crossed, turns, record, looked, drive, basis, last>>
  BY DEF Accept, DeltaOnly, Rest, disk, world
<1>2. PassOK' /\ Gone'
  BY <1>1, PassIs, SeenIs, NoBatchIs, Bounds DEF PassOK, Gone, Object
<1>3. ASSUME ~ crossed PROVE FollowsThen(record)
  <2>1. Follows(record)
    BY <1>3, Zenon DEF IInv, Descends
  <2> QED BY <1>1, <2>1, Same
<1> QED BY <1>1, <1>2, <1>3, PassIs, SeenIs, NoBatchIs, LooksOn

LEMMA ScanKeeps == ASSUME IInv, Scan PROVE IInv'
<1>1. /\ dAt = "pulled" /\ dAt' = (IF batch.gone = 0 THEN "put" ELSE "remove")
      /\ record' = Absorbed
      /\ claims' = IF at = 0 THEN 0
                   ELSE IF file[at].ver.obj # 0 THEN file[at].ver.obj ELSE Absorbed.obj
      /\ UNCHANGED <<world, file, at, scratch, hidden, held, queue, evict, upload, strayed, known,
                     late, crossed, turns, batch, snap, looked, drive, basis, last, objects>>
  BY DEF Scan, DeltaOnly, Rest, world
<1>2. Absorbed = Nothing \/ Absorbed = record \/ (at # 0 /\ Absorbed = file[at].ver)
  BY Zenon DEF Absorbed, Identity
<1>3. at # 0 => at \in Inode
  BY Numbers
<1>4. record' \in Given
  BY <1>1, <1>2, <1>3, NothingGiven, VersionsAre
<1>5. record'.obj \in {0, claims'} /\ claims' \in Object
  <2>1. ASSUME NEW v \in Given PROVE v.obj \in Object
    BY Numbers, Bounds DEF Given, Object
  <2>2. at # 0 => file[at].ver.obj \in Object
    BY <1>3, <2>1, VersionsAre
  <2>3. record'.obj \in Object /\ 0 \in Object
    BY <1>4, <2>1, NothingGiven, NothingIs
  <2>4. at = 0 => record' = Nothing
    BY <1>1, Zenon DEF Absorbed
  <2>5. CASE at # 0 /\ file[at].ver.obj # 0
    <3>1. Absorbed = Nothing \/ Absorbed = file[at].ver
      BY <2>5, Zenon DEF Absorbed, Identity
    <3> QED BY <1>1, <2>2, <2>3, <2>5, <3>1, NothingIs
  <2>6. CASE at = 0 \/ file[at].ver.obj = 0
    BY <1>1, <2>3, <2>4, <2>6, NothingIs
  <2> QED BY <2>5, <2>6
<1>6. PassOK'
  BY <1>1, <1>5, PassIs, SeenIs DEF PassOK
<1>7. Gone'
  <2>1. batch.gone # 0 => batch.gone # drive.obj
    BY <1>1 DEF IInv, Gone
  <2> QED BY <1>1, <1>5, <2>1 DEF Gone
<1>8. ASSUME ~ crossed
      PROVE  /\ FollowsThen(record')
             /\ ~ late => KnowsThen(batch.put, drive.body) /\ KnowsThen(record', batch.put.body)
  <2>1. /\ Follows(record) /\ (at # 0 => Follows(file[at].ver))
        /\ ~ late => /\ Knows(batch.put, drive.body) /\ Knows(record, batch.put.body)
                     /\ at # 0 => Knows(file[at].ver, batch.put.body)
    BY <1>1, <1>8, Zenon DEF IInv, Descends
  <2>2. \A v, c : (Follows(v) => FollowsThen(v)) /\ (Knows(v, c) => KnowsThen(v, c))
    BY <1>1, Same
  <2> QED BY <1>1, <1>2, <2>1, <2>2, NothingFollows, Zenon
<1> QED BY <1>1, <1>4, <1>6, <1>7, <1>8, PassIs, SeenIs, LooksOn

-----------------------------------------------------------------------------
(* The pass: what it changes.                                              *)

\* A step of the pass that puts something else under the name.
LEMMA ChangesKeeps ==
    ASSUME IInv, UNCHANGED <<world, scratch, hidden, held, queue, evict, upload, strayed, record,
                             known, late, turns, batch, snap, claims>>,
           crossed' \in BOOLEAN, crossed => crossed', dAt' \in {"put", "done"}, looked' = Unseen,
           FilesOK', FilesSound', Opened', BodiesFollow, DescendsThen,
           at' = 0 \/ at' \notin hidden \cup {scratch, guard.ino}
    PROVE  IInv'
<1>1. UNCHANGED <<drive, unsent, basis, last, top, objects, waiting, sending, eAt,
      eSnap, guard, own, uAt, job, base, observed, uploaded>>
  BY DEF world, queue, evict, upload
<1>2. Onward
  BY <1>1, QuietOnward
<1>3. Owed' = Owed /\ Given' = Given
  BY <1>1 DEF Owed, Given
<1>4. TypeOK'
  <2>1. WorldOK' /\ QueueOK' /\ SweepOK' /\ UploadOK' /\ OnePlace'
    BY <1>1 DEF IInv, TypeOK, WorldOK, QueueOK, SweepOK, UploadOK, OnePlace
  <2>2. PassOK'
    BY UnseenIs, PassIs DEF PassOK
  <2> QED BY <2>1, <2>2 DEF TypeOK
<1>5. WorldSound'
  BY <1>1, <1>3 DEF IInv, WorldSound
<1>6. GivenOut'
  BY <1>1, <1>3, UnseenIs DEF IInv, GivenOut
<1>7. Placed'
  BY <1>1 DEF IInv, Placed, Sent
<1>8. Truthful'
  BY <1>1, <1>2, <1>3, UnseenIs, NoneNew, TruthfulStays DEF Sent
<1>9. Approved'
  BY <1>1, <1>2, ApprovedStays
<1>10. Descends'
  BY DescendsThenIs
<1>11. Gone'
  BY DEF Gone
<1> QED BY <1>4, <1>5, <1>6, <1>7, <1>8, <1>9, <1>10, <1>11 DEF IInv

LEMMA UnlinkKeeps == ASSUME IInv, Unlink PROVE IInv'
<1> DEFINE roots == {scratch, held} \cup hidden
<1>1. /\ dAt = "unlink" /\ dAt' = "put" /\ at' = 0 /\ file' = Living(file, roots)
      /\ looked' = Unseen /\ crossed' = (crossed \/ Recording)
      /\ UNCHANGED <<world, scratch, hidden, held, queue, evict, upload, strayed, record, known,
                     late, turns, batch, snap, claims, drive, basis, unsent, top, objects,
                     uAt, job>>
  BY DEF Unlink, Rest, world, evict, upload
<1> HIDE DEF roots
<1>2. /\ file' \in [Inode -> File]
      /\ \A i \in Inode : (i \in roots => file'[i] = file[i])
           /\ (i \notin roots => file'[i] = Blank)
  BY <1>1, LivingIs
<1>3. FilesOK'
  BY <1>1, <1>2 DEF IInv, TypeOK, FilesOK, At
<1>4. Onward /\ Owed' = Owed
  BY <1>1, QuietOnward DEF Owed
<1>5. FilesSound'
  BY <1>2, <1>4, FilesStay
<1>6. Opened'
  <2>1. held # 0 => file'[held] = file[held]
    BY <1>2, Numbers DEF roots
  <2> QED BY <1>1, <2>1, Zenon DEF IInv, Opened
<1>7. BodiesFollow
  BY <1>2, <1>4, BlankIs, UnseenIs DEF BodiesFollow
<1>8. job = 0 => uAt = "idle"
  BY DEF IInv, Placed
<1>9. DescendsThen
  <2> SUFFICES ASSUME ~ crossed, ~ Recording PROVE DescendsThen
    BY <1>1, Zenon DEF DescendsThen
  \* What is recorded is the object that is gone.
  <2>1. record.obj = 0 \/ record.obj # drive.obj
    BY <1>1 DEF IInv, Gone
  <2>2. \A c : KnowsThen(record, c)
    BY <1>1, <2>1 DEF KnowsThen
  <2>3. FollowsThen(record)
    BY <2>2 DEF FollowsThen
  <2>4. ~ late => KnowsThen(batch.put, drive.body)
    <3>1. ~ late => Knows(batch.put, drive.body)
      BY <1>1, Zenon DEF IInv, Descends
    <3> QED BY <1>1, <3>1 DEF Knows, KnowsThen
  <2>5. ~ Holding'
    BY <1>1, <1>8 DEF Holding, Recording
  <2>6. ~ (uAt' = "begun" /\ at' = job')
    BY <1>1, <1>8
  <2> QED BY <1>1, <2>2, <2>3, <2>4, <2>5, <2>6, Zenon DEF DescendsThen
<1>10. crossed' \in BOOLEAN /\ (crossed => crossed')
  BY <1>1, Zenon
<1> QED BY <1>1, <1>3, <1>5, <1>6, <1>7, <1>9, <1>10, ChangesKeeps

LEMMA PlaceholderIs ==
    ASSUME NEW v \in Version
    PROVE  /\ Placeholder(v) \in File /\ Placeholder(v).mark /\ Placeholder(v).ver = v
           /\ Placeholder(v).stamp = 0 /\ Placeholder(v).body = 0
<1>1. ASSUME NEW b \in BOOLEAN PROVE [mark |-> b, ver |-> v, stamp |-> 0, body |-> 0] \in File
  BY Bounds DEF File, Body
<1>2. Placeholder(v) \in File
  BY <1>1, Zenon DEF Placeholder
<1> QED BY <1>2, Zenon DEF Placeholder

LEMMA PlaceholderSound ==
    ASSUME IInv, Onward, NEW v \in Given, 0 \notin Owed'
    PROVE  Placeholder(v) \in File /\ SoundIn(Placeholder(v), top', objects', Owed')
<1>1. v \in Version
  BY Numbers, Bounds DEF Given, Version, Object, Body
<1>2. v \in [obj : 0 .. objects', body : 0 .. top'] /\ 0 \in 0 .. top'
  BY Grows, Numbers DEF Given
<1> QED BY <1>1, <1>2, PlaceholderIs, Zenon DEF SoundIn

LEMMA PlaceKeeps == ASSUME IInv, Place PROVE IInv'
<1> DEFINE roots == {scratch, held} \cup hidden  g == Placeholder(batch.put)
<1>1. /\ dAt = "place" /\ dAt' = "done" /\ Free # {} /\ at' = Fresh
      /\ file' = [Living(file, roots) EXCEPT ![Fresh] = g]
      /\ looked' = Unseen /\ crossed' = (crossed \/ late \/ Recording)
      /\ UNCHANGED <<world, scratch, hidden, held, queue, evict, upload, strayed, record, known,
                     late, turns, batch, snap, claims, drive, basis, unsent, top, objects,
                     uAt, job>>
  BY DEF Place, Rest, world, evict, upload
<1>2. batch.put \in Given /\ batch.put \in Version
  BY PassIs
<1>3. Onward /\ Owed' = Owed
  BY <1>1, QuietOnward DEF Owed
<1>4. g \in File /\ SoundIn(g, top', objects', Owed') /\ g.mark /\ g.ver = batch.put /\ g.body = 0
  BY <1>2, <1>3, UnseenIs, PlaceholderSound, PlaceholderIs
<1>5. /\ Fresh \in Inode /\ Fresh \notin {at, scratch, held, job, own, guard.ino}
      /\ Fresh \notin hidden
  BY <1>1, FreshIs
<1> HIDE DEF roots, g
<1>6. /\ file' \in [Inode -> File] /\ file'[Fresh] = g
      /\ \A i \in Inode \ {Fresh} : /\ i \in roots => file'[i] = file[i]
                                    /\ i \notin roots => file'[i] = Blank
  BY <1>1, <1>4, <1>5, LivingAndIs
<1>7. FilesOK'
  BY <1>1, <1>5, <1>6 DEF IInv, TypeOK, FilesOK, At
<1>8. FilesSound'
  BY <1>3, <1>4, <1>5, <1>6, FilesStay
<1>9. Opened'
  <2>1. held # 0 => file'[held] = file[held]
    BY <1>5, <1>6, Numbers DEF roots
  <2> QED BY <1>1, <2>1, Zenon DEF IInv, Opened
<1>10. BodiesFollow
  BY <1>3, <1>4, <1>5, <1>6, BlankIs, UnseenIs DEF BodiesFollow
<1>11. Showing' = batch.put.body
  BY <1>1, <1>4, <1>5, <1>6, Bounds, Zenon DEF Showing
<1>12. DescendsThen
  <2> SUFFICES ASSUME ~ crossed, ~ late, ~ Recording PROVE DescendsThen
    BY <1>1, Zenon DEF DescendsThen
  <2>1. /\ Follows(record) /\ Knows(batch.put, drive.body) /\ Knows(record, batch.put.body)
    BY <1>1, Zenon DEF IInv, Descends
  <2>2. /\ KnowsThen(record, drive.body) /\ KnowsThen(batch.put, drive.body)
        /\ KnowsThen(record, batch.put.body) /\ KnowsThen(batch.put, batch.put.body)
    BY <1>1, <2>1 DEF Follows, Knows, KnowsThen
  <2>3. FollowsThen(record) /\ FollowsThen(batch.put)
    BY <1>1, <1>11, <2>2 DEF FollowsThen
  <2>4. ~ Holding'
    BY <1>1, <1>5 DEF Holding, Recording
  <2> QED BY <1>1, <1>4, <1>5, <1>6, <2>2, <2>3, <2>4, Zenon DEF DescendsThen
<1>13. crossed' \in BOOLEAN /\ (crossed => crossed')
  BY <1>1, Zenon
<1> QED BY <1>1, <1>5, <1>7, <1>8, <1>9, <1>10, <1>12, <1>13, ChangesKeeps

-----------------------------------------------------------------------------
(* The sweep.                                                              *)

LEMMA SweepKeeps ==
    ASSUME IInv, UNCHANGED Others, crossed' \in BOOLEAN, DescendsThen, turns' \in 0 .. MaxTurns,
           FilesOK', FilesSound', Opened', BodiesFollow, SweepOK', OnePlace', Placed', Approved',
           guard'.ver \in Given, guard'.body \in 0 .. top, guard'.top \in 0 .. top
    PROVE  IInv'
<1>1. UNCHANGED <<drive, known, unsent, basis, last, top, objects, strayed, late, waiting,
                  sending, dAt, batch, snap, claims, looked, uAt, job, base, observed, uploaded,
                  record>>
  BY DEF Others, world, queue, delta, upload
<1>2. Onward
  BY <1>1, QuietOnward
<1>3. Owed' = Owed /\ Given' = Given
  BY <1>1 DEF Owed, Given
<1>4. TypeOK'
  <2>1. WorldOK' /\ QueueOK' /\ PassOK' /\ UploadOK'
    BY <1>1 DEF IInv, TypeOK, WorldOK, QueueOK, PassOK, UploadOK
  <2> QED BY <2>1 DEF TypeOK
<1>5. WorldSound'
  BY <1>1, <1>3 DEF IInv, WorldSound
<1>6. GivenOut'
  BY <1>1, <1>3 DEF IInv, GivenOut
<1>7. Truthful'
  BY <1>1, <1>2, <1>3, NoneNew, TruthfulStays DEF Sent
<1>8. Descends'
  BY DescendsThenIs
<1>9. Gone'
  BY <1>1 DEF IInv, Gone
<1> QED BY <1>4, <1>5, <1>6, <1>7, <1>8, <1>9 DEF IInv

\* A step of it that leaves the name what it is.
LEMMA SweepFollows ==
    ASSUME IInv, UNCHANGED <<Others, at>>, crossed => crossed', at # 0 => file'[at] = file[at]
    PROVE  DescendsThen
<1> SUFFICES ASSUME ~ crossed PROVE DescendsThen
  BY Zenon DEF DescendsThen
<1>1. UNCHANGED <<drive, basis, last, late, record, dAt, batch, uAt, job, base, uploaded>>
  BY DEF Others, world, delta, upload
<1>2. Showing' = Showing
  BY <1>1, Zenon DEF Showing
<1>3. \A v, c : (Follows(v) => FollowsThen(v)) /\ (Knows(v, c) => KnowsThen(v, c))
  BY <1>1, <1>2 DEF Follows, Knows, FollowsThen, KnowsThen
<1>4. Holding' <=> Holding
  BY <1>1 DEF Holding
<1>5. /\ FollowsThen(record) /\ (at # 0 => FollowsThen(file[at].ver))
      /\ uAt = "begun" /\ at = job => FollowsThen(base)
      /\ Holding => FollowsThen(uploaded) /\ (at # 0 => ~ file[at].mark)
      /\ dAt # "idle" /\ ~ late => KnowsThen(batch.put, drive.body)
      /\ dAt \notin {"idle", "done"} /\ ~ late => KnowsThen(record, batch.put.body)
      /\ dAt = "pulled" /\ ~ late =>
            /\ at # 0 => KnowsThen(file[at].ver, batch.put.body)
            /\ Holding => KnowsThen(uploaded, batch.put.body)
  BY <1>3, Zenon DEF IInv, Descends
<1> QED BY <1>1, <1>4, <1>5, Zenon DEF DescendsThen

\* A step of it that touches no file.
LEMMA SweepLooks ==
    ASSUME IInv, UNCHANGED <<Others, file, at, scratch, hidden>>,
           crossed' \in BOOLEAN, crossed => crossed',
           turns' \in 0 .. MaxTurns, SweepOK', OnePlace', Placed', Approved',
           guard'.ver \in Given, guard'.body \in 0 .. top, guard'.top \in 0 .. top
    PROVE  IInv'
<1>1. UNCHANGED <<top, objects, unsent, strayed, record, held>>
  BY DEF Others, world
<1>2. FilesOK'
  BY <1>1 DEF IInv, TypeOK, FilesOK
<1>3. FilesSound'
  BY <1>1, QuietOnward, FilesStay
<1>4. Opened'
  BY <1>1, Zenon DEF IInv, Opened
<1>5. BodiesFollow
  BY DEF BodiesFollow
<1>6. DescendsThen
  BY SweepFollows
<1> QED BY <1>2, <1>3, <1>4, <1>5, <1>6, SweepKeeps

LEMMA SweepIs ==
    ASSUME IInv
    PROVE  /\ eSnap \subseteq Inode /\ own \in At /\ turns \in 0 .. MaxTurns
           /\ guard \in [ino : At, body : Body, ver : Version, top : Body]
           /\ guard.ver \in Given /\ guard.body \in 0 .. top /\ guard.top \in 0 .. top
           /\ crossed \in BOOLEAN
           /\ waiting \subseteq Inode /\ sending \subseteq Inode
BY DEF IInv, TypeOK, WorldOK, SweepOK, QueueOK, GivenOut

LEMMA NoGuardIs ==
    ASSUME IInv
    PROVE  /\ NoGuard \in [ino : At, body : Body, ver : Version, top : Body]
           /\ NoGuard.ino = 0 /\ NoGuard.body = 0 /\ NoGuard.ver = Nothing /\ NoGuard.top = 0
           /\ 0 \in 0 .. top
BY NothingIs, Numbers, Bounds DEF NoGuard, At, Body

\* It gives up, and has put away what it took out.
LEMMA QuitIs ==
    ASSUME IInv, Quit, scratch' = 0
    PROVE  /\ SweepOK' /\ Approved' /\ guard'.ver \in Given
           /\ guard'.body \in 0 .. top /\ guard'.top \in 0 .. top
           /\ eAt' = "idle" /\ 0 \in At
<1>1. eAt' = "idle" /\ eSnap' = {} /\ guard' = NoGuard /\ own' = 0
  BY DEF Quit
<1>2. SweepOK'
  BY <1>1, NoGuardIs, SweepIs DEF SweepOK, At
<1>3. Approved'
  BY <1>1 DEF Approved
<1> QED BY <1>1, <1>2, <1>3, NoGuardIs, NothingGiven DEF At

LEMMA QuitLooks ==
    ASSUME IInv, UNCHANGED <<Others, file, at, scratch, hidden>>,
           eAt \in {"chosen", "guarded", "judged"},
           crossed' = crossed, turns' = turns, Quit
    PROVE  IInv'
<1>1. scratch = 0
  BY DEF IInv, TypeOK, OnePlace
<1>2. uAt' = uAt /\ job' = job /\ uploaded' = uploaded
  BY DEF Others, upload
<1>3. /\ SweepOK' /\ Approved' /\ guard'.ver \in Given
      /\ guard'.body \in 0 .. top /\ guard'.top \in 0 .. top /\ eAt' = "idle"
  BY <1>1, <1>2, QuitIs
<1>4. OnePlace' /\ Placed'
  BY <1>1, <1>2, <1>3, Bounds DEF IInv, TypeOK, OnePlace, Placed, Sent
<1> QED BY <1>1, <1>3, <1>4, SweepIs, SweepLooks

LEMMA ChooseKeeps == ASSUME IInv, Choose PROVE IInv'
<1>1. /\ eAt = "idle" /\ eAt' = "chosen" /\ eSnap' = waiting \cup sending
      /\ turns < MaxTurns /\ turns' = turns + 1
      /\ UNCHANGED <<guard, own, file, at, scratch, hidden, Others, crossed, uAt, job, uploaded>>
  BY DEF Choose, Turn, Others, upload
<1>2. SweepOK'
  BY <1>1, SweepIs DEF SweepOK
<1>3. OnePlace' /\ Placed' /\ Approved'
  BY <1>1 DEF IInv, TypeOK, OnePlace, Placed, Sent, Approved
<1>4. turns' \in 0 .. MaxTurns
  BY <1>1, SweepIs, LocalAssumption
<1> QED BY <1>1, <1>2, <1>3, <1>4, SweepIs, SweepLooks

LEMMA GuardKeeps == ASSUME IInv, Guard PROVE IInv'
<1>1. eAt = "chosen" /\ UNCHANGED <<file, at, scratch, hidden, Others, crossed, turns, uAt, job,
      uploaded>>
  BY DEF Guard, EvictOnly, Others, upload
<1>2. CASE Quit
  BY <1>1, <1>2, QuitLooks
<1>3. CASE /\ at # 0 /\ eAt' = "guarded" /\ UNCHANGED <<eSnap, own>>
           /\ guard' = [NoGuard EXCEPT !.ino = at, !.body = file[at].body]
  <2>1. at \in Inode
    BY <1>3, Numbers
  <2>2. file[at].body \in 0 .. top /\ file[at].body \in Body
    <3>1. file[at].body \in 0 .. top
      BY <2>1 DEF IInv, FilesSound, Sound, SoundIn
    <3> QED BY <3>1, Numbers, Bounds DEF Body
  <2>3. /\ guard' \in [ino : At, body : Body, ver : Version, top : Body]
        /\ guard'.ino = at /\ guard'.body = file[at].body /\ guard'.ver = Nothing
             /\ guard'.top = 0
    BY <1>3, <2>1, <2>2, NoGuardIs DEF At
  <2>4. SweepOK'
    BY <1>1, <1>3, <2>3, SweepIs DEF SweepOK
  <2>5. OnePlace' /\ Placed' /\ Approved'
    BY <1>1, <1>3, <2>3 DEF IInv, TypeOK, OnePlace, Placed, Sent, Approved
  <2> QED BY <1>1, <2>2, <2>3, <2>4, <2>5, SweepIs, NothingGiven, NoGuardIs, SweepLooks
<1> QED BY <1>2, <1>3, Zenon DEF Guard

LEMMA JudgeKeeps == ASSUME IInv, Judge PROVE IInv'
<1>1. eAt = "guarded" /\ UNCHANGED <<file, at, scratch, hidden, Others, crossed, turns, uAt, job,
      uploaded>>
  BY DEF Judge, EvictOnly, Others, upload
<1>2. CASE Quit
  BY <1>1, <1>2, QuitLooks
<1>3. CASE /\ at # 0 /\ Clean(file[at]) /\ eAt' = "judged" /\ UNCHANGED <<eSnap, own>>
           /\ guard' = [guard EXCEPT !.ver = file[at].ver]
  <2>1. at \in Inode /\ file[at] \in File
    BY <1>3, Numbers
  <2>2. file[at].ver \in Given /\ file[at].ver \in Version
    BY <2>1, FileIs, VersionsAre
  <2>3. /\ guard' \in [ino : At, body : Body, ver : Version, top : Body]
        /\ guard'.ino = guard.ino /\ guard'.body = guard.body /\ guard'.ver = file[at].ver
        /\ guard'.top = guard.top
    BY <1>3, <2>2, SweepIs
  <2>4. SweepOK'
    BY <1>1, <1>3, <2>3, SweepIs DEF SweepOK
  <2>5. OnePlace' /\ Placed'
    BY <1>1, <1>3, <2>3 DEF IInv, TypeOK, OnePlace, Placed, Sent
  <2>6. Approved'
    <3>1. SoundIn(file[at], top, objects, Owed)
      BY <2>1 DEF IInv, FilesSound, Sound
    <3>2. file[at].body \notin Owed
      BY <1>3, <3>1, Zenon DEF SoundIn
    <3>3. Owed' = Owed
      BY <1>1 DEF Owed, Others, world
    <3> QED BY <1>1, <1>3, <2>3, <3>2, <3>3 DEF Approved
  <2> QED BY <1>1, <2>2, <2>3, <2>4, <2>5, <2>6, SweepIs, SweepLooks
<1> QED BY <1>2, <1>3, Zenon DEF Judge, Evictable

LEMMA ExchangeKeeps == ASSUME IInv, Exchange PROVE IInv'
<1>1. /\ eAt = "judged" /\ hidden' = hidden
      /\ UNCHANGED <<Others, turns, uAt, job, uploaded, record, held, top, objects,
           unsent, strayed, drive, basis, last, late, dAt, batch, base>>
  BY DEF Exchange, Others, upload, world, delta
<1>2. CASE Quit /\ UNCHANGED <<file, at, scratch, crossed>>
  BY <1>1, <1>2, QuitLooks
<1> DEFINE g == Placeholder(guard.ver)
<1>3. CASE /\ at # 0 /\ Free # {} /\ eAt' = "exchanged" /\ own' = Fresh /\ at' = Fresh
           /\ scratch' = at /\ file' = [file EXCEPT ![Fresh] = g] /\ UNCHANGED <<eSnap, guard>>
           /\ crossed' = (crossed \/ Recording \/ file[at].ver # guard.ver \/ Outdated)
  <2>1. Onward /\ Owed' = Owed
    BY <1>1, QuietOnward DEF Owed
  <2>2. /\ g \in File /\ SoundIn(g, top', objects', Owed') /\ g.body = 0
        /\ g.mark /\ g.ver = guard.ver
    <3>1. guard.ver \in Version
      BY SweepIs
    <3> QED BY <2>1, <3>1, SweepIs, UnseenIs, PlaceholderSound, PlaceholderIs
  <2>3. Fresh \in Inode /\ Fresh \notin {at, scratch, held, job, guard.ino} /\ Fresh \notin hidden
    BY <1>3, FreshIs
  <2> HIDE DEF g
  <2>4. /\ file' \in [Inode -> File] /\ file'[Fresh] = g
        /\ \A i \in Inode \ {Fresh} : file'[i] = file[i]
    BY <1>3, <2>2, <2>3, Numbers
  <2>5. FilesOK'
    BY <1>1, <1>3, <2>3, <2>4 DEF IInv, TypeOK, FilesOK, At
  <2>6. FilesSound'
    BY <2>1, <2>2, <2>3, <2>4, FilesStay
  <2>7. Opened'
    <3>1. held # 0 => file'[held] = file[held]
      BY <2>3, <2>4, Numbers
    <3> QED BY <1>1, <3>1, Zenon DEF IInv, Opened
  <2>8. BodiesFollow
    BY <2>1, <2>2, <2>3, <2>4, UnseenIs DEF BodiesFollow
  <2>9. SweepOK'
    BY <1>1, <1>3, <2>3, SweepIs DEF SweepOK, At
  <2>10. OnePlace'
    BY <1>1, <1>3, <2>3 DEF IInv, TypeOK, OnePlace
  <2>11. Placed'
    BY <1>1, <1>3 DEF IInv, TypeOK, OnePlace, Placed, Sent
  <2>12. Approved'
    <3>1. at = guard.ino /\ file[at].body = guard.body => guard.body \notin Owed
      BY <1>1 DEF IInv, Approved
    <3>2. file'[at] = file[at]
      BY <1>3, <2>3, <2>4, Numbers
    <3> QED BY <1>3, <2>1, <3>1, <3>2 DEF Approved
  <2>13. DescendsThen
    <3> SUFFICES ASSUME ~ crossed, ~ Recording, file[at].ver = guard.ver, ~ Outdated
                 PROVE  DescendsThen
      BY <1>3, Zenon DEF DescendsThen
    <3>1. Showing' = guard.ver.body
      BY <1>3, <2>2, <2>3, <2>4, Bounds, Zenon DEF Showing
    <3>2. /\ Follows(record) /\ Follows(guard.ver)
          /\ dAt # "idle" /\ ~ late => Knows(batch.put, drive.body)
          /\ dAt \notin {"idle", "done"} /\ ~ late => Knows(record, batch.put.body)
          /\ dAt = "pulled" /\ ~ late => Knows(guard.ver, batch.put.body)
      BY <1>3, Zenon DEF IInv, Descends
    <3>3. \A v, c : Knows(v, c) => KnowsThen(v, c)
      BY <1>1 DEF Knows, KnowsThen
    <3>4. KnowsThen(record, guard.ver.body) /\ KnowsThen(guard.ver, guard.ver.body)
      BY <1>1 DEF KnowsThen, Outdated
    <3>5. FollowsThen(record) /\ FollowsThen(guard.ver)
      BY <1>1, <3>1, <3>2, <3>3, <3>4 DEF Follows, FollowsThen
    <3>6. /\ dAt # "idle" /\ ~ late => KnowsThen(batch.put, drive.body)
          /\ dAt \notin {"idle", "done"} /\ ~ late => KnowsThen(record, batch.put.body)
          /\ dAt = "pulled" /\ ~ late => KnowsThen(guard.ver, batch.put.body)
      BY <3>2, <3>3, Zenon
    <3>7. ~ Holding' /\ at' # job'
      BY <1>1, <1>3, <2>3 DEF Holding, Recording
    <3>8. file'[at'].ver = guard.ver
      BY <1>3, <2>2, <2>4
    <3> QED BY <1>1, <3>5, <3>6, <3>7, <3>8, Zenon DEF DescendsThen
  <2>14. crossed' \in BOOLEAN
    BY <1>3, Zenon
  <2> QED BY <1>1, <1>3, <2>5, <2>6, <2>7, <2>8, <2>9, <2>10, <2>11, <2>12, <2>13, <2>14, SweepIs,
     SweepKeeps
<1> QED BY <1>2, <1>3, Zenon DEF Exchange

LEMMA CompareKeeps == ASSUME IInv, Compare PROVE IInv'
<1>1. /\ eAt = "exchanged" /\ eAt' = (IF AsApproved THEN "drop" ELSE "restore")
      /\ guard' = [guard EXCEPT !.top = top]
      /\ crossed' = (crossed \/ ~ AsApproved)
      /\ UNCHANGED <<eSnap, own, file, at, scratch, hidden, Others, turns, uAt, job, uploaded>>
  BY DEF Compare, Others, upload
<1>2. top \in Body /\ top # 0 /\ top \in 0 .. top
  BY Numbers, Bounds DEF Body
<1>3. /\ guard' \in [ino : At, body : Body, ver : Version, top : Body]
      /\ guard'.ino = guard.ino /\ guard'.body = guard.body /\ guard'.ver = guard.ver
      /\ guard'.top = top
  BY <1>1, <1>2, SweepIs
<1>4. SweepOK'
  BY <1>1, <1>3, SweepIs DEF SweepOK
<1>5. OnePlace' /\ Placed'
  <2>1. eAt' = "restore" => crossed'
    BY <1>1, Zenon
  <2> QED BY <1>1, <1>2, <1>3, <2>1 DEF IInv, TypeOK, OnePlace, Placed, Sent
<1>6. Approved'
  <2>1. scratch = guard.ino /\ file[scratch].body = guard.body => guard.body \notin Owed
    BY <1>1 DEF IInv, Approved
  <2>2. Owed' = Owed
    BY <1>1 DEF Owed, Others, world
  <2> QED BY <1>1, <2>1, <2>2 DEF Approved, AsApproved
<1>7. crossed' \in BOOLEAN /\ (crossed => crossed')
  BY <1>1, Zenon
<1> QED BY <1>1, <1>2, <1>3, <1>4, <1>5, <1>6, <1>7, SweepIs, SweepLooks

\* What it took out is put away.
LEMMA PutAwayKeeps ==
    ASSUME IInv, UNCHANGED <<Others, crossed, turns>>, Quit, eAt # "idle", scratch' = 0,
           DescendsThen,
           at' \in At, hidden' \subseteq Inode, at' # 0 => at' \notin hidden',
           NEW roots, file' = Living(file, roots), held \in roots \cup {0}
    PROVE  IInv'
<1>1. /\ UNCHANGED <<uAt, job, uploaded, record, held, top, objects, unsent, strayed>>
  BY DEF Others, upload, world
<1>2. /\ file' \in [Inode -> File]
      /\ \A i \in Inode : (i \in roots => file'[i] = file[i])
           /\ (i \notin roots => file'[i] = Blank)
  BY LivingIs
<1>3. Onward /\ Owed' = Owed
  BY <1>1, QuietOnward DEF Owed
<1>4. FilesOK'
  BY <1>1, <1>2 DEF IInv, TypeOK, FilesOK, At
<1>5. FilesSound'
  BY <1>2, <1>3, FilesStay
<1>6. Opened'
  <2>1. held # 0 => file'[held] = file[held]
    BY <1>2, Numbers
  <2> QED BY <1>1, <2>1, Zenon DEF IInv, Opened
<1>7. BodiesFollow
  BY <1>2, <1>3, BlankIs, UnseenIs DEF BodiesFollow
<1>8. /\ SweepOK' /\ Approved' /\ guard'.ver \in Given
      /\ guard'.body \in 0 .. top /\ guard'.top \in 0 .. top /\ eAt' = "idle"
  BY <1>1, QuitIs
<1>9. OnePlace' /\ Placed'
  BY <1>1, <1>8, Bounds DEF IInv, TypeOK, OnePlace, Placed, Sent
<1> QED BY <1>4, <1>5, <1>6, <1>7, <1>8, <1>9, SweepIs, SweepKeeps

LEMMA DropKeeps == ASSUME IInv, Drop PROVE IInv'
<1>1. /\ eAt = "drop" /\ Quit /\ scratch' = 0 /\ file' = Living(file, {at, held} \cup hidden)
      /\ UNCHANGED <<at, hidden, Others, crossed, turns>>
  BY DEF Drop, EvictOnly
<1>2. at \in At /\ hidden \subseteq Inode /\ (at # 0 => at \notin hidden)
  BY DEF IInv, TypeOK, FilesOK, OnePlace
<1>3. at # 0 => file'[at] = file[at]
  BY <1>1, LivingIs, Numbers
<1>4. DescendsThen
  BY <1>1, <1>3, SweepFollows
<1> QED BY <1>1, <1>2, <1>4, PutAwayKeeps

LEMMA RestoreKeeps == ASSUME IInv, Restore PROVE IInv'
<1>1. /\ eAt = "restore" /\ Quit /\ scratch' = 0 /\ UNCHANGED <<Others, crossed, turns>>
  BY DEF Restore, EvictOnly
<1>5. DescendsThen
  BY <1>1, Zenon DEF IInv, Placed, DescendsThen
<1>2. scratch \in Inode /\ scratch \notin hidden /\ hidden \subseteq Inode /\ at \in At
  BY <1>1, Numbers DEF IInv, Placed, At
<1>3. CASE at = 0 /\ hidden' = hidden \cup {scratch} /\ UNCHANGED <<at, file>>
  \* All the files there are stay.
  <2>1. file' = Living(file, Inode)
    BY <1>3, Numbers DEF Living
  <2> QED BY <1>1, <1>2, <1>3, <1>5, <2>1, Numbers, PutAwayKeeps
<1>4. CASE /\ at # 0 /\ at' = scratch /\ hidden' = (IF at = own THEN hidden ELSE hidden \cup {at})
           /\ file' = Living(file, {scratch, held} \cup hidden')
  <2>1. at # scratch /\ at \in Inode
    BY <1>4, Numbers DEF IInv, TypeOK, OnePlace
  <2>2. hidden' \subseteq Inode /\ scratch \notin hidden' /\ at' \in At
    BY <1>2, <1>4, <2>1 DEF At
  <2> QED BY <1>1, <1>4, <1>5, <2>2, PutAwayKeeps
<1> QED BY <1>3, <1>4, Zenon DEF Restore

-----------------------------------------------------------------------------
(* The upload.                                                             *)

\* What is owed stays in one file, and what the upload saw is as it was.
LEMMA UploadTruth ==
    ASSUME IInv, UNCHANGED <<file, top, objects, unsent, strayed, looked>>,
           uAt' # "idle" => uAt # "idle" /\ job' = job /\ observed' = observed,
           Sent' => Sent
    PROVE  Truthful'
<1>1. Onward /\ OneNew
  BY QuietOnward, NoneNew DEF Owed
<1>2. BodiesFollow
  BY DEF BodiesFollow
<1> QED BY <1>1, <1>2, TruthfulStays

\* A step of it that changes no file and not the drive.
LEMMA UploadLooks ==
    ASSUME IInv,
           UNCHANGED <<file, at, drive, unsent, strayed, late, objects, basis, last, top, scratch,
                       hidden, record, held, delta, evict>>,
           crossed' \in BOOLEAN, crossed => crossed', turns' \in 0 .. MaxTurns,
           QueueOK', UploadOK', base' \in Given, uploaded' \in Given, observed' \in 0 .. top,
           uAt' # "idle" => job' # 0, Sent' => uploaded'.obj # 0, Truthful',
           ~ crossed' => /\ uAt' = "begun" /\ at = job' => FollowsThen(base')
                         /\ Holding' => Holding /\ uploaded' = uploaded
    PROVE  IInv'
<1>1. UNCHANGED <<known, dAt, batch, snap, claims, looked, eAt, eSnap, guard, own>>
  BY DEF delta, evict
<1>2. Onward
  BY <1>1, QuietOnward
<1>3. Owed' = Owed /\ Given' = Given
  BY <1>1 DEF Owed, Given
<1>4. TypeOK'
  <2>1. WorldOK' /\ FilesOK' /\ PassOK' /\ SweepOK' /\ OnePlace'
    BY <1>1 DEF IInv, TypeOK, WorldOK, FilesOK, PassOK, SweepOK, OnePlace
  <2> QED BY <2>1 DEF TypeOK
<1>5. WorldSound' /\ GivenOut'
  BY <1>1, <1>3 DEF IInv, WorldSound, GivenOut
<1>6. FilesSound'
  BY <1>1, <1>2, FilesStay
<1>7. Placed'
  <2>1. eAt' = "restore" => crossed'
    BY <1>1, Zenon DEF IInv, Placed
  <2> QED BY <1>1, <2>1 DEF IInv, Placed
<1>8. Opened'
  BY <1>1, Zenon DEF IInv, Opened
<1>9. BodiesFollow
  BY <1>1 DEF BodiesFollow
<1>10. Approved'
  BY <1>1, <1>2, <1>9, ApprovedStays
<1>11. Descends'
  <2> SUFFICES ASSUME ~ crossed, ~ crossed' PROVE DescendsThen
    BY DescendsThenIs, Zenon DEF DescendsThen
  <2>1. \A v, c : (Follows(v) => FollowsThen(v)) /\ (Knows(v, c) => KnowsThen(v, c))
    BY <1>1, Same
  <2>2. /\ FollowsThen(record) /\ (at # 0 => FollowsThen(file[at].ver))
        /\ Holding => FollowsThen(uploaded) /\ (at # 0 => ~ file[at].mark)
        /\ dAt # "idle" /\ ~ late => KnowsThen(batch.put, drive.body)
        /\ dAt \notin {"idle", "done"} /\ ~ late => KnowsThen(record, batch.put.body)
        /\ dAt = "pulled" /\ ~ late =>
              /\ at # 0 => KnowsThen(file[at].ver, batch.put.body)
              /\ Holding => KnowsThen(uploaded, batch.put.body)
    BY <2>1, Zenon DEF IInv, Descends
  <2> QED BY <1>1, <2>2, Zenon DEF DescendsThen
<1>12. Gone'
  BY <1>1 DEF IInv, Gone
<1> QED BY <1>4, <1>5, <1>6, <1>7, <1>8, <1>10, <1>11, <1>12 DEF IInv

LEMMA UploadIs ==
    ASSUME IInv
    PROVE  /\ waiting \subseteq Inode /\ sending \subseteq Inode /\ job \in At
           /\ base \in Given /\ uploaded \in Given /\ observed \in 0 .. top
           /\ base \in Version /\ uploaded \in Version /\ observed \in Body
           /\ turns \in 0 .. MaxTurns /\ crossed \in BOOLEAN
           /\ uAt # "idle" => job \in Inode
           /\ Sent => uploaded.obj # 0
BY Numbers DEF IInv, TypeOK, WorldOK, QueueOK, UploadOK, GivenOut, Placed

\* What a step of the upload leaves to the others.
LEMMA BesideIs ==
    ASSUME UNCHANGED Beside
    PROVE  UNCHANGED <<objects, basis, last, top, scratch, hidden, record, held, delta, evict,
                       known, dAt, batch, snap, claims, looked, eAt, eSnap, guard, own,
                       strayed, late, crossed>>
BY DEF Beside, delta, evict, past

LEMMA BeginKeeps == ASSUME IInv, NEW i \in Inode, Begin(i) PROVE IInv'
<1>1. /\ uAt = "idle" /\ i \in waiting /\ turns < MaxTurns /\ turns' = turns + 1
      /\ UNCHANGED <<file, at, drive, unsent, Beside>>
  BY DEF Begin, Turn
<1>5. UNCHANGED <<objects, basis, last, top, scratch, hidden, record, held, delta, evict, looked,
                  strayed, late, crossed>>
  BY <1>1, BesideIs
<1>2. turns' \in 0 .. MaxTurns
  BY <1>1, UploadIs, LocalAssumption
<1>3. CASE /\ i = at /\ uAt' = "begun" /\ waiting' = waiting \ {i} /\ sending' = {i} /\ job' = i
           /\ base' = Identity(file[i]) /\ observed' = file[i].body /\ UNCHANGED uploaded
  <2>1. base' = file[i].ver \/ base' = record
    BY <1>3, Zenon DEF Identity
  <2>2. base' \in Given
    BY <2>1, VersionsAre
  <2>3. file[i].body \in 0 .. top
    BY DEF IInv, FilesSound, Sound, SoundIn
  <2>4. base' \in Version /\ observed' \in Body
    BY <1>3, <2>2, <2>3, Numbers, Bounds DEF Given, Version, Object, Body
  <2>5. QueueOK' /\ UploadOK' /\ job' # 0
    BY <1>2, <1>3, <2>4, UploadIs, Bounds DEF QueueOK, UploadOK, At
  <2>6. ASSUME ~ crossed PROVE FollowsThen(base')
    <3>1. Follows(record) /\ Follows(file[i].ver)
      BY <1>3, <2>6, Bounds, Zenon DEF IInv, Descends
    <3>2. \A v : Follows(v) => FollowsThen(v)
      BY <1>1, <1>5, Same
    <3> QED BY <2>1, <3>1, <3>2
  <2>7. Truthful'
    <3>1. /\ looked.stamped => looked.body \notin Owed
          /\ \A a, b \in Inode : a # b /\ file[a].body = file[b].body => file[a].body \notin Owed
      BY Zenon DEF IInv, Truthful
    <3>2. Owed' = Owed /\ file' = file /\ looked' = looked
      BY <1>1, <1>5 DEF Owed
    <3>3. \A a \in Inode \ {i} : file[a].body = file[i].body => file[i].body \notin Owed
      BY <3>1
    <3>4. ~ Sent'
      BY <1>3 DEF Sent
    <3> QED BY <1>3, <3>1, <3>2, <3>3, <3>4, Zenon DEF Truthful
  <2>8. ~ Sent' /\ ~ Holding'
    BY <1>3 DEF Sent, Holding
  <2> QED BY <1>1, <1>2, <1>3, <1>5, <2>2, <2>3, <2>5, <2>6, <2>7, <2>8, UploadIs, UploadLooks
<1>4. CASE i # at /\ waiting' = waiting \ {i} /\ UNCHANGED <<sending, upload>>
  <2>1. UNCHANGED <<uAt, job, base, observed, uploaded>>
    BY <1>4 DEF upload
  <2>2. QueueOK' /\ UploadOK'
    BY <1>1, <1>2, <1>4, <2>1, UploadIs DEF QueueOK, UploadOK
  <2>3. ~ Sent' /\ ~ Holding'
    BY <1>1, <2>1 DEF Sent, Holding
  <2>4. Truthful'
    BY <1>1, <1>5, <2>1, <2>3, UploadTruth
  <2> QED BY <1>1, <1>2, <1>5, <2>1, <2>2, <2>3, <2>4, UploadIs, UploadLooks
<1> QED BY <1>3, <1>4, Zenon DEF Begin

\* The outcome is in.
LEMMA FinishedIs ==
    ASSUME IInv, NEW failed \in BOOLEAN, Finished(failed), uAt # "idle", turns' \in 0 .. MaxTurns
    PROVE  /\ QueueOK' /\ UploadOK' /\ uAt' = "idle" /\ job' = 0
           /\ base' = Nothing /\ uploaded' = Nothing /\ observed' = 0
           /\ base' \in Given /\ uploaded' \in Given /\ observed' \in 0 .. top
<1>1. /\ uAt' = "idle" /\ sending' = {} /\ job' = 0 /\ base' = Nothing /\ observed' = 0
      /\ uploaded' = Nothing /\ (waiting' = waiting \cup {job} \/ waiting' = waiting)
  BY Zenon DEF Finished
<1>2. QueueOK'
  BY <1>1, UploadIs DEF QueueOK
<1>3. UploadOK'
  BY <1>1, NothingIs, Bounds DEF UploadOK, At, Body
<1>4. 0 \in 0 .. top
  BY Numbers
<1> QED BY <1>1, <1>2, <1>3, <1>4, NothingGiven

LEMMA FailsKeeps == ASSUME IInv, Fails PROVE IInv'
<1>1. uAt # "idle" /\ Finished(TRUE) /\ UNCHANGED <<file, at, drive, unsent, Beside, turns>>
  BY DEF Fails, UploadOnly
<1>2. turns' \in 0 .. MaxTurns
  BY <1>1, UploadIs
<1>3. /\ QueueOK' /\ UploadOK' /\ uAt' = "idle"
      /\ base' \in Given /\ uploaded' \in Given /\ observed' \in 0 .. top
  BY <1>1, <1>2, FinishedIs
<1>4. UNCHANGED <<objects, basis, last, top, scratch, hidden, record, held, delta, evict, looked,
                  strayed, late, crossed>>
  BY <1>1, BesideIs
<1>5. ~ Sent' /\ ~ Holding'
  BY <1>3 DEF Sent, Holding
<1>6. Truthful'
  BY <1>1, <1>3, <1>4, <1>5, UploadTruth
<1> QED BY <1>1, <1>2, <1>3, <1>4, <1>5, <1>6, UploadIs, UploadLooks

\* The tag is another device's.
LEMMA ReadBackKeeps == ASSUME IInv, ReadBack PROVE IInv'
<1>1. /\ uAt = "sent" /\ drive.obj = uploaded.obj /\ uploaded' = drive /\ crossed' = TRUE
      /\ UNCHANGED <<uAt, job, base, observed, queue, file, at, drive, unsent, strayed, late,
                     objects, basis, last, top, scratch, hidden, record, held, delta, evict, turns>>
  BY DEF ReadBack
<1>2. waiting' = waiting /\ sending' = sending /\ looked' = looked
  BY <1>1 DEF queue, delta
<1>3. Sent /\ Sent' /\ drive \in Given /\ drive \in Version
  BY <1>1, VersionsAre DEF Sent, IInv, TypeOK, WorldOK
<1>4. QueueOK' /\ UploadOK' /\ uploaded'.obj # 0 /\ job' # 0
  BY <1>1, <1>2, <1>3, UploadIs, Bounds DEF IInv, TypeOK, QueueOK, UploadOK
<1>5. Truthful'
  BY <1>1, <1>2, <1>3, UploadTruth
<1> QED BY <1>1, <1>3, <1>4, <1>5, UploadIs, UploadLooks

LEMMA LookupKeeps == ASSUME IInv, Lookup PROVE IInv'
<1>1. /\ uAt = "sent" /\ uAt' = (IF at = job THEN "found" ELSE "gone")
      /\ UNCHANGED <<queue, job, base, observed, uploaded, file, at, drive, unsent, Beside, turns>>
  BY DEF Lookup, UploadOnly
<1>2. UNCHANGED <<waiting, sending, objects, basis, last, top, scratch, hidden, record, held, delta,
                  evict, looked, strayed, late, crossed>>
  BY <1>1, BesideIs DEF queue
<1>3. Sent /\ Sent' /\ uAt' \in {"found", "gone"}
  BY <1>1 DEF Sent
<1>4. QueueOK' /\ UploadOK'
  BY <1>1, <1>2, <1>3 DEF IInv, TypeOK, QueueOK, UploadOK
<1>5. Holding' => Holding
  BY <1>1 DEF Holding
<1>6. Truthful'
  BY <1>1, <1>2, <1>3, UploadTruth
<1> QED BY <1>1, <1>2, <1>3, <1>4, <1>5, <1>6, UploadIs, Bounds, UploadLooks

\* The drive has taken what is under the name.
LEMMA PutKeeps ==
    ASSUME IInv, uAt = "begun", at # 0, ~ file[at].mark, NEW obj \in Nat, Put(at, obj),
           obj # 0, obj <= MaxObject,
           \/ obj = drive.obj /\ objects' = objects
           \/ drive.obj = 0 /\ obj = objects + 1 /\ objects' = objects + 1
    PROVE  IInv'
<1> DEFINE c == file[at].body
<1>1. /\ drive' = [obj |-> obj, body |-> c] /\ uAt' = "sent"
      /\ uploaded' \in {drive', [drive' EXCEPT !.body = 0]}
      /\ unsent' = unsent \ {c} /\ late' = TRUE
      /\ strayed' = (IF at = job THEN strayed ELSE strayed \cup {observed})
      /\ UNCHANGED <<waiting, sending, job, base, observed, file, at, basis, last, top, scratch,
                     hidden, record, held, known, dAt, batch, snap, claims, looked,
                     eAt, eSnap, guard, own, crossed, turns>>
  BY DEF Put, queue, delta, evict
<1>23. /\ uploaded'.obj = obj /\ uploaded'.body \in {c, 0}
       /\ uploaded' = drive' \/ uploaded' = [obj |-> obj, body |-> 0]
  BY <1>1
<1>2. at \in Inode
  BY Numbers
<1>3. c \in 0 .. top
  BY <1>2 DEF IInv, FilesSound, Sound, SoundIn
<1>4. Showing = c
  BY Zenon DEF Showing
<1> HIDE DEF c
<1>5. Onward
  BY <1>1, Numbers DEF Onward, Owed
<1>6. /\ drive'.obj = obj /\ drive'.body = c /\ drive' \in Given' /\ drive' \in Version
      /\ objects' \in Object
  <2>1. obj \in 0 .. objects' /\ obj \in Object /\ objects' \in Object /\ c \in 0 .. top'
        /\ c \in Body
    BY <1>1, <1>3, Numbers, Bounds DEF Object, Body
  <2> QED BY <1>1, <2>1 DEF Given, Version
<1>24. uploaded' \in Given' /\ uploaded' \in Version
  <2>1. 0 \in 0 .. top' /\ 0 \in Body
    BY <1>1, Numbers, Bounds DEF Body
  <2> QED BY <1>6, <1>23, <2>1 DEF Given, Version
<1>7. WorldOK /\ WorldSound
  BY DEF IInv, TypeOK
<1>8. strayed' \subseteq Body
  BY <1>1, <1>7, UploadIs DEF WorldOK
<1>9. WorldOK' /\ WorldSound'
  BY <1>1, <1>6, <1>7, <1>8 DEF WorldOK, WorldSound
<1>10. TypeOK'
  <2>1. UploadOK'
    BY <1>1, <1>24, UploadIs DEF IInv, TypeOK, UploadOK
  <2>2. FilesOK' /\ QueueOK' /\ PassOK' /\ SweepOK' /\ OnePlace'
    BY <1>1 DEF IInv, TypeOK, FilesOK, QueueOK, PassOK, SweepOK, OnePlace
  <2> QED BY <1>9, <2>1, <2>2 DEF TypeOK
<1>11. GivenOut'
  BY <1>1, <1>5, <1>6, <1>24, Grows DEF IInv, GivenOut
<1>12. FilesSound'
  BY <1>1, <1>5, FilesStay
<1>13. Placed'
  BY <1>1, <1>23, UploadIs DEF IInv, Placed
<1>14. Opened'
  BY <1>1, Zenon DEF IInv, Opened
<1>15. BodiesFollow
  BY <1>1 DEF BodiesFollow
<1>16. Truthful'
  <2>1. looked.stamped => looked.body \notin Owed'
    BY <1>5, SeenIs DEF Onward
  <2>2. file[job].body = observed => observed \notin Owed'
    BY <1>1 DEF Owed, c
  <2>3. Owed' \subseteq Owed
    BY <1>1 DEF Owed
  <2>4. /\ \A i \in Inode \ {job} : file[i].body = observed => observed \notin Owed
        /\ \A i, j \in Inode : i # j /\ file[i].body = file[j].body => file[i].body \notin Owed
    BY Zenon DEF IInv, Truthful
  <2>5. /\ \A i \in Inode \ {job} : file[i].body = observed => observed \notin Owed'
        /\ \A i, j \in Inode : i # j /\ file[i].body = file[j].body => file[i].body \notin Owed'
    BY <2>3, <2>4
  <2> QED BY <1>1, <2>1, <2>2, <2>5, Zenon DEF Truthful
<1>17. Approved'
  BY <1>1, <1>5, <1>15, ApprovedStays
<1>18. Showing' = c
  BY <1>1, <1>4, Zenon DEF Showing
<1>19. Lineal /\ Heirs
  BY <1>1, <1>4, <1>6, <1>18, Numbers DEF Lineal, Heirs, After
<1>20. DescendsThen
  <2> SUFFICES ASSUME ~ crossed PROVE DescendsThen
    BY <1>1, Zenon DEF DescendsThen
  <2>1. Follows(record) /\ Follows(file[at].ver)
    BY Zenon DEF IInv, Descends
  <2>2. FollowsThen(record) /\ FollowsThen(file[at].ver)
    BY <1>2, <1>19, <2>1, FollowsStays, VersionsAre
  <2>3. FollowsThen(uploaded')
    BY <1>6, <1>18, <1>23 DEF FollowsThen, KnowsThen
  <2> QED BY <1>1, <2>2, <2>3, Zenon DEF DescendsThen
<1>21. Gone'
  BY <1>1, <1>6, PassIs, Numbers DEF IInv, Gone
<1> QED BY <1>9, <1>10, <1>11, <1>12, <1>13, <1>14, <1>16, <1>17, <1>20, <1>21, DescendsThenIs DEF
   IInv

LEMMA SendKeeps == ASSUME IInv, Replace \/ Create \/ Settle PROVE IInv'
<1>1. CASE Replace
  <2>1. /\ uAt = "begun" /\ at # 0 /\ ~ file[at].mark /\ drive.obj # 0 /\ Put(at, drive.obj)
        /\ objects' = objects
    BY <1>1 DEF Replace
  <2>2. drive.obj \in Nat /\ drive.obj <= MaxObject
    BY Numbers, Bounds
  <2> QED BY <2>1, <2>2, PutKeeps
<1>2. CASE Create
  <2>1. /\ uAt = "begun" /\ at # 0 /\ ~ file[at].mark /\ drive.obj = 0 /\ objects < MaxObject
        /\ Put(at, objects + 1) /\ objects' = objects + 1
    BY <1>2 DEF Create
  <2> QED BY <2>1, Numbers, Bounds, PutKeeps
<1>3. CASE Settle
  <2>1. /\ uAt = "begun" /\ at # 0 /\ ~ file[at].mark /\ drive.obj # 0 /\ Put(at, drive.obj)
        /\ objects' = objects
    BY <1>3 DEF Settle
  <2>2. drive.obj \in Nat /\ drive.obj <= MaxObject
    BY Numbers, Bounds
  <2> QED BY <2>1, <2>2, PutKeeps
<1> QED BY <1>1, <1>2, <1>3

\* A tag that was written over is known, and so is none.
LEMMA TaggedIs ==
    ASSUME IInv, NEW v \in Given
    PROVE  /\ Tagged(v) \in Given
           /\ \A c : Knows(uploaded, c) /\ Knows(v, c) => Knows(Tagged(v), c)
<1>1. CASE uploaded.body # 0
  BY <1>1, VersionsAre DEF Tagged
<1>2. CASE uploaded.body = 0
  <2>1. Tagged(v) = [obj |-> uploaded.obj,
                     body |-> IF v.obj = uploaded.obj THEN v.body ELSE 0]
    BY <1>2 DEF Tagged
  <2>2. Tagged(v).obj = uploaded.obj
        /\ Tagged(v).body = IF v.obj = uploaded.obj THEN v.body ELSE 0
    BY <2>1
  <2>3. 0 \in 0 .. top
    BY Numbers
  <2> QED BY <2>1, <2>2, <2>3, VersionsAre DEF Given, Knows
<1> QED BY <1>1, <1>2

\* A step of the upload that writes on the file under the name.
LEMMA WritesKeeps ==
    ASSUME IInv, at # 0, Sent, UNCHANGED <<at, drive, unsent, Beside, turns>>,
           QueueOK', UploadOK', base' \in Given, uploaded' \in Given, observed' \in 0 .. top,
           uAt' \in {"idle", "named"}, uAt' # "idle" => job' = job /\ observed' = observed,
           Sent' => uploaded'.obj # 0, ~ Holding',
           NEW g \in File, file' = [file EXCEPT ![at] = g], g.body = file[at].body,
           SoundIn(g, top, objects, Owed), g.mark = file[at].mark,
           ~ crossed => /\ FollowsThen(g.ver) /\ Showing' = Showing
                        /\ dAt = "pulled" /\ ~ late => KnowsThen(g.ver, batch.put.body)
    PROVE  IInv'
<1>1. UNCHANGED <<known, basis, last, top, objects, strayed, late, crossed, scratch, hidden, held,
                  record, dAt, batch, snap, claims, looked, eAt, eSnap, guard, own>>
  BY BesideIs
<1>2. at \in Inode
  BY Numbers
<1>3. /\ file' \in [Inode -> File] /\ file'[at] = g
      /\ \A i \in Inode \ {at} : file'[i] = file[i]
  BY <1>2, Numbers
<1>4. Onward /\ Owed' = Owed /\ Given' = Given
  BY <1>1, QuietOnward DEF Owed, Given
<1>5. uAt # "idle"
  BY DEF Sent
<1>6. Sent' => uAt' # "idle"
  BY DEF Sent
<1>7. TypeOK'
  <2>1. WorldOK' /\ FilesOK' /\ PassOK' /\ SweepOK' /\ OnePlace'
    BY <1>1, <1>3 DEF IInv, TypeOK, WorldOK, FilesOK, PassOK, SweepOK, OnePlace
  <2> QED BY <2>1 DEF TypeOK
<1>8. WorldSound' /\ GivenOut'
  BY <1>1, <1>4 DEF IInv, WorldSound, GivenOut
<1>9. FilesSound'
  BY <1>1, <1>2, <1>3, <1>4, FilesStay
<1>10. Placed'
  <2>1. eAt' = "restore" => crossed'
    BY <1>1, Zenon DEF IInv, Placed
  <2> QED BY <1>1, <1>5, <2>1 DEF IInv, Placed
<1>11. Opened'
  <2>1. held # 0 /\ held # at => file'[held] = file[held]
    BY <1>3, Numbers
  <2> QED BY <1>1, <1>3, <2>1, Zenon DEF IInv, Opened
<1>12. BodiesFollow
  BY <1>2, <1>3 DEF BodiesFollow
<1>13. Truthful' /\ Approved'
  BY <1>1, <1>4, <1>5, <1>12, NoneNew, TruthfulStays, ApprovedStays
<1>14. DescendsThen
  <2> SUFFICES ASSUME ~ crossed PROVE DescendsThen
    BY <1>1, Zenon DEF DescendsThen
  <2>1. \A v, d : (Follows(v) => FollowsThen(v)) /\ (Knows(v, d) => KnowsThen(v, d))
    BY <1>1 DEF Follows, Knows, FollowsThen, KnowsThen
  <2>2. /\ FollowsThen(record)
        /\ dAt # "idle" /\ ~ late => KnowsThen(batch.put, drive.body)
        /\ dAt \notin {"idle", "done"} /\ ~ late => KnowsThen(record, batch.put.body)
    BY <2>1, Zenon DEF IInv, Descends
  <2>3. uAt' # "begun"
    OBVIOUS
  <2> QED BY <1>1, <1>3, <2>2, <2>3, Zenon DEF DescendsThen
<1>15. Gone'
  BY <1>1 DEF IInv, Gone
<1> QED BY <1>7, <1>8, <1>9, <1>10, <1>11, <1>13, <1>14, <1>15, DescendsThenIs DEF IInv

LEMMA AdoptKeeps == ASSUME IInv, Adopt PROVE IInv'
<1> DEFINE f == file[at]  g == [f EXCEPT !.ver = Tagged(f.ver)]
<1>1. /\ uAt = "found" /\ at # 0 /\ uAt' = "named"
      /\ file' = [file EXCEPT ![at] = [f EXCEPT !.ver = Tagged(f.ver)]]
      /\ UNCHANGED <<queue, job, base, observed, uploaded, at, drive, unsent, Beside, turns>>
  BY DEF Adopt, UploadOnly
<1>2. at \in Inode /\ f \in File /\ f.ver \in Given
  BY <1>1, Numbers, VersionsAre
<1>3. /\ Tagged(f.ver) \in Given /\ Tagged(f.ver) \in Version
      /\ \A c : Knows(uploaded, c) /\ Knows(f.ver, c) => Knows(Tagged(f.ver), c)
  <2>1. Tagged(f.ver) \in Given
    BY <1>2, TaggedIs
  <2>2. Tagged(f.ver) \in Version
    BY <2>1, Numbers, Bounds DEF Given, Version, Object, Body
  <2> QED BY <1>2, <2>1, <2>2, TaggedIs
<1>4. g \in File /\ g.ver = Tagged(f.ver) /\ g.stamp = f.stamp /\ g.body = f.body
      /\ g.mark = f.mark
  <2>1. g \in File
    BY <1>2, <1>3 DEF File
  <2> QED BY <1>2, <2>1, FileIs, Zenon
<1>5. file' = [file EXCEPT ![at] = g]
  BY <1>1
<1>6. SoundIn(g, top, objects, Owed)
  <2>1. SoundIn(f, top, objects, Owed)
    BY <1>2 DEF IInv, FilesSound, Sound
  <2>2. Tagged(f.ver) \in [obj : 0 .. objects, body : 0 .. top]
    BY <1>3 DEF Given
  <2> HIDE DEF g, f
  <2> QED BY <1>4, <2>1, <2>2, Zenon DEF SoundIn, Clean
<1>7. Sent /\ Sent' /\ Holding /\ ~ Holding' /\ uAt' # "idle"
  BY <1>1 DEF Sent, Holding
<1>8. QueueOK' /\ UploadOK'
  BY <1>1, BesideIs DEF IInv, TypeOK, QueueOK, UploadOK, queue
<1>9. ASSUME ~ crossed
      PROVE  /\ FollowsThen(g.ver) /\ Showing' = Showing
             /\ dAt = "pulled" /\ ~ late => KnowsThen(g.ver, batch.put.body)
  <2>1. /\ Follows(uploaded) /\ ~ f.mark /\ Follows(f.ver)
        /\ dAt = "pulled" /\ ~ late =>
              Knows(uploaded, batch.put.body) /\ Knows(f.ver, batch.put.body)
    BY <1>1, <1>7, <1>9, Zenon DEF IInv, Descends
  <2>2. file'[at] = g
    BY <1>2, <1>5, Numbers
  <2>3. Showing = f.body
    BY <1>1, <2>1, Zenon DEF Showing
  <2>4. Showing' = f.body
    BY <1>1, <1>4, <2>1, <2>2, Zenon DEF Showing
  <2>5. Follows(g.ver) /\ (dAt = "pulled" /\ ~ late => Knows(g.ver, batch.put.body))
    BY <1>3, <1>4, <2>1 DEF Follows
  <2>6. \A v, d : (Follows(v) => FollowsThen(v)) /\ (Knows(v, d) => KnowsThen(v, d))
    BY <1>1, <2>3, <2>4, BesideIs DEF Follows, Knows, FollowsThen, KnowsThen
  <2> QED BY <2>3, <2>4, <2>5, <2>6
<1> HIDE DEF g
<1> QED BY <1>1, <1>4, <1>5, <1>6, <1>7, <1>8, <1>9, UploadIs, WritesKeeps

LEMMA StampKeeps == ASSUME IInv, Stamp PROVE IInv'
<1>1. /\ uAt = "named" /\ Finished(FALSE)
      /\ UNCHANGED <<at, drive, unsent, Beside, turns>>
  BY DEF Stamp, UploadOnly
<1>2. /\ QueueOK' /\ UploadOK' /\ uAt' = "idle" /\ job' = 0
      /\ base' \in Given /\ uploaded' \in Given /\ observed' \in 0 .. top
  BY <1>1, UploadIs, FinishedIs
<1>3. UNCHANGED <<objects, basis, last, top, scratch, hidden, record, held, delta, evict, looked,
                  strayed, late, crossed>>
  BY <1>1, BesideIs
<1>4. ~ Sent' /\ ~ Holding' /\ Sent
  BY <1>1, <1>2 DEF Sent, Holding
<1>5. CASE file' = file
  <2>1. Truthful'
    BY <1>1, <1>2, <1>3, <1>4, <1>5, UploadTruth
  <2> QED BY <1>1, <1>2, <1>3, <1>4, <1>5, <2>1, UploadIs, UploadLooks
<1> DEFINE f == file[at]  g == [f EXCEPT !.stamp = observed]
<1>6. CASE at # 0 /\ file' = [file EXCEPT ![at].stamp = observed]
  <2>1. at \in Inode /\ f \in File /\ f.ver \in Given
    BY <1>6, Numbers, VersionsAre
  <2>2. g \in File /\ g.ver = f.ver /\ g.stamp = observed /\ g.body = f.body /\ g.mark = f.mark
    <3>1. g \in File
      BY <2>1, UploadIs DEF File
    <3> QED BY <2>1, <3>1, FileIs, Zenon
  <2>3. file' = [file EXCEPT ![at] = g]
    BY <1>6
  <2>4. f.body = observed => observed \notin Owed
    <3>1. CASE at = job
      BY <1>4, <3>1, Zenon DEF IInv, Truthful
    <3>2. CASE at # job
      <4>1. at \in Inode \ {job} /\ uAt # "idle"
        BY <1>1, <2>1, <3>2
      <4> QED BY <4>1, Zenon DEF IInv, Truthful
    <3> QED BY <3>1, <3>2
  <2>5. SoundIn(g, top, objects, Owed)
    <3>1. SoundIn(f, top, objects, Owed)
      BY <2>1 DEF IInv, FilesSound, Sound
    <3>2. observed \in (0 .. top) \cup {None}
      BY UploadIs
    <3> HIDE DEF g, f
    <3> QED BY <2>2, <2>4, <3>1, <3>2, Zenon DEF SoundIn, Clean
  <2>6. ASSUME ~ crossed
        PROVE  /\ FollowsThen(g.ver) /\ Showing' = Showing
               /\ dAt = "pulled" /\ ~ late => KnowsThen(g.ver, batch.put.body)
    <3>1. Follows(f.ver) /\ (dAt = "pulled" /\ ~ late => Knows(f.ver, batch.put.body))
      BY <1>6, <2>6, Zenon DEF IInv, Descends
    <3>2. file'[at] = g
      BY <2>1, <2>3, Numbers
    <3>3. Showing' = Showing
      BY <1>1, <1>3, <2>2, <3>2, Zenon DEF Showing
    <3>4. \A v, d : (Follows(v) => FollowsThen(v)) /\ (Knows(v, d) => KnowsThen(v, d))
      BY <1>1, <1>3, <3>3 DEF Follows, Knows, FollowsThen, KnowsThen
    <3> QED BY <2>2, <3>1, <3>3, <3>4
  <2> HIDE DEF g
  <2> QED BY <1>1, <1>2, <1>4, <1>6, <2>2, <2>3, <2>5, <2>6, WritesKeeps
<1> QED BY <1>5, <1>6, Zenon DEF Stamp

LEMMA RemoveInsteadKeeps == ASSUME IInv, RemoveInstead PROVE IInv'
<1>1. uAt = "gone" /\ UNCHANGED <<file, at, unsent, Beside, turns>>
  BY DEF RemoveInstead, UploadOnly
<1>8. UNCHANGED <<known, basis, last, top, objects, strayed, late, crossed, scratch, hidden, held,
                  record, dAt, batch, snap, claims, looked, eAt, eSnap, guard, own, delta, evict>>
  BY <1>1, BesideIs
<1>2. PICK failed \in BOOLEAN : Finished(failed)
  <2>1. (drive.obj = uploaded.obj) \in BOOLEAN
    OBVIOUS
  <2> QED BY <2>1, Zenon DEF RemoveInstead
<1>3. drive' = Nothing \/ drive' = drive
  BY DEF RemoveInstead
<1>4. drive' = Nothing => drive.obj = uploaded.obj \/ drive' = drive
  BY DEF RemoveInstead
<1>5. /\ QueueOK' /\ UploadOK' /\ uAt' = "idle" /\ job' = 0
      /\ base' \in Given /\ uploaded' \in Given /\ observed' \in 0 .. top
  BY <1>1, <1>2, UploadIs, FinishedIs
<1>9. ~ Sent' /\ ~ Holding' /\ Sent
  BY <1>1, <1>5 DEF Sent, Holding
<1>10. Truthful'
  BY <1>1, <1>5, <1>8, <1>9, UploadTruth
<1>6. CASE drive' = drive
  BY <1>1, <1>5, <1>6, <1>8, <1>9, <1>10, UploadIs, UploadLooks
<1>7. CASE drive' = Nothing /\ drive.obj = uploaded.obj
  <2>1. drive.obj # 0 /\ drive'.obj = 0
    BY <1>7, <1>9, UploadIs, NothingIs
  <2>2. Onward /\ Owed' = Owed /\ Given' = Given
    BY <1>1, <1>8, QuietOnward DEF Owed, Given
  <2>3. TypeOK'
    <3>1. WorldOK' /\ FilesOK' /\ PassOK' /\ SweepOK' /\ OnePlace'
      BY <1>1, <1>7, <1>8, NothingIs DEF IInv, TypeOK, WorldOK, FilesOK, PassOK, SweepOK, OnePlace
    <3> QED BY <1>5, <3>1 DEF TypeOK
  <2>4. WorldSound' /\ GivenOut'
    <3>1. 0 \notin unsent
      BY Numbers
    <3> QED BY <1>1, <1>5, <1>7, <1>8, <2>2, <3>1, NothingIs, NothingGiven DEF IInv, WorldSound,
       GivenOut
  <2>5. FilesSound'
    BY <1>1, <1>8, <2>2, FilesStay
  <2>6. Placed'
    BY <1>1, <1>5, <1>8, <1>9 DEF IInv, Placed
  <2>7. Opened'
    BY <1>1, <1>8, Zenon DEF IInv, Opened
  <2>8. BodiesFollow
    BY <1>1 DEF BodiesFollow
  <2>9. Truthful' /\ Approved'
    BY <1>1, <1>8, <1>10, <2>2, <2>8, ApprovedStays
  <2>10. DescendsThen
    \* The drive has no object any more.
    <3>1. \A v, c : KnowsThen(v, c) /\ FollowsThen(v)
      BY <2>1 DEF KnowsThen, FollowsThen
    <3> QED BY <1>5, <1>9, <3>1, Zenon DEF DescendsThen
  <2>11. Gone'
    BY <1>1, <1>8, <2>1 DEF IInv, Gone
  <2> QED BY <2>3, <2>4, <2>5, <2>6, <2>7, <2>9, <2>10, <2>11, DescendsThenIs DEF IInv
<1> QED BY <1>3, <1>4, <1>6, <1>7

-----------------------------------------------------------------------------
(* The daemon dies and comes back.                                         *)

LEMMA CrashKeeps == ASSUME IInv, Crash PROVE IInv'
<1> DEFINE roots == {at, held} \cup hidden'
<1>1. /\ turns < MaxTurns /\ turns' = turns + 1
      /\ waiting' = {} /\ sending' = {} /\ dAt' = "idle" /\ batch' = NoBatch /\ snap' = {}
      /\ claims' = 0 /\ looked' = Unseen /\ Quit /\ scratch' = 0
      /\ uAt' = "idle" /\ job' = 0 /\ base' = Nothing /\ observed' = 0 /\ uploaded' = Nothing
      /\ hidden' = hidden \/ (scratch # 0 /\ hidden' = hidden \cup {scratch})
      /\ file' = Living(file, roots)
      /\ UNCHANGED <<drive, unsent, basis, last, top, objects, known, at, record, held,
                     strayed, late, crossed>>
  BY DEF Crash, Turn, world, past
<1> HIDE DEF roots
<1>2. /\ file' \in [Inode -> File]
      /\ \A i \in Inode : (i \in roots => file'[i] = file[i])
           /\ (i \notin roots => file'[i] = Blank)
  BY <1>1, LivingIs
<1>3. Onward /\ Owed' = Owed /\ Given' = Given
  BY <1>1, QuietOnward DEF Owed, Given
<1>4. /\ SweepOK' /\ Approved' /\ guard'.ver \in Given
      /\ guard'.body \in 0 .. top /\ guard'.top \in 0 .. top /\ eAt' = "idle"
  BY <1>1, QuitIs
<1>5. TypeOK'
  <2>1. WorldOK'
    BY <1>1 DEF IInv, TypeOK, WorldOK
  <2>2. hidden' \subseteq Inode
    BY <1>1, Numbers
  <2>3. FilesOK'
    BY <1>1, <1>2, <2>2 DEF IInv, TypeOK, FilesOK, At
  <2>4. turns' \in 0 .. MaxTurns
    BY <1>1, UploadIs, LocalAssumption
  <2>5. QueueOK' /\ PassOK'
    BY <1>1, <2>4, UnseenIs, NoBatchIs, Bounds DEF QueueOK, PassOK, Object
  <2>6. UploadOK'
    BY <1>1, NothingIs, Bounds DEF UploadOK, At, Body
  <2>7. OnePlace'
    BY <1>1 DEF IInv, TypeOK, OnePlace
  <2> QED BY <1>4, <2>1, <2>3, <2>5, <2>6, <2>7 DEF TypeOK
<1>6. WorldSound' /\ GivenOut'
  BY <1>1, <1>3, <1>4, UnseenIs, NoBatchIs, NothingGiven DEF IInv, WorldSound, GivenOut
<1>7. FilesSound'
  BY <1>2, <1>3, FilesStay
<1>13. ~ Sent' /\ ~ Holding'
  BY <1>1 DEF Sent, Holding
<1>8. Placed'
  BY <1>1, <1>2, <1>4, <1>5, <1>13, Bounds DEF Placed, TypeOK, FilesOK
<1>9. Opened'
  <2>1. held # 0 => file'[held] = file[held]
    BY <1>2, Numbers DEF roots
  <2> QED BY <1>1, <2>1, Zenon DEF IInv, Opened
<1>10. Truthful'
  <2>1. looked'.body \notin Owed'
    BY <1>1, <1>3, UnseenIs
  <2>2. BodiesFollow
    BY <1>2, <1>3, BlankIs, UnseenIs DEF BodiesFollow
  <2>3. OneNew
    BY <1>3, NoneNew
  <2> QED BY <1>1, <1>3, <1>13, <2>1, <2>2, <2>3, TruthfulStays
<1>11. DescendsThen
  <2> SUFFICES ASSUME ~ crossed PROVE DescendsThen
    BY <1>1, Zenon DEF DescendsThen
  <2>1. at # 0 => file'[at] = file[at]
    BY <1>2, Numbers DEF roots
  <2>2. Showing' = Showing
    BY <1>1, <2>1, Zenon DEF Showing
  <2>3. \A v : Follows(v) => FollowsThen(v)
    BY <1>1, <2>2 DEF Follows, Knows, FollowsThen, KnowsThen
  <2>4. FollowsThen(record) /\ (at # 0 => FollowsThen(file[at].ver))
    BY <2>3, Zenon DEF IInv, Descends
  <2> QED BY <1>1, <1>13, <2>1, <2>4, Zenon DEF DescendsThen
<1>12. Gone'
  BY <1>1 DEF Gone
<1> QED BY <1>4, <1>5, <1>6, <1>7, <1>8, <1>9, <1>10, <1>11, <1>12, DescendsThenIs DEF IInv

-----------------------------------------------------------------------------
(* The invariant holds.                                                    *)

LEMMA InitIInv == Init => IInv
<1> SUFFICES ASSUME Init PROVE IInv OBVIOUS
<1> DEFINE one == [obj |-> 1, body |-> 1]
           f1  == [Blank EXCEPT !.ver = drive, !.stamp = 1, !.body = 1]
<1>1. /\ drive = one /\ known = drive /\ at = 1 /\ scratch = 0 /\ hidden = {} /\ held = 0
      /\ file = [[i \in Inode |-> Blank] EXCEPT ![1] = f1]
      /\ record = drive /\ waiting = {} /\ sending = {}
      /\ dAt = "idle" /\ batch = NoBatch /\ snap = {} /\ claims = 0 /\ looked = Unseen
      /\ eAt = "idle" /\ eSnap = {} /\ guard = NoGuard /\ own = 0
      /\ uAt = "idle" /\ job = 0 /\ base = Nothing /\ observed = 0 /\ uploaded = Nothing
      /\ unsent = {} /\ basis = [c \in Body |-> {}] /\ last = 0 /\ top = 1 /\ objects = 1
      /\ turns = 0 /\ strayed = {} /\ late = FALSE /\ crossed = FALSE
  BY DEF Init
<1>2. drive.obj = 1 /\ drive.body = 1 /\ drive \in [obj : 0 .. 1, body : 0 .. 1]
      /\ drive \in Version
  BY <1>1, LocalAssumption DEF Version, Object, Body
<1>3. 1 \in Inode /\ 0 \in Body /\ 1 \in Body /\ 0 \in Object /\ 1 \in Object /\ None # 1
  BY LocalAssumption DEF Body, Object, None
<1>4. f1 \in File /\ f1.ver = drive /\ f1.stamp = 1 /\ f1.body = 1 /\ f1.mark = FALSE
  <2>1. f1 \in File
    BY <1>2, <1>3, BlankIs DEF File
  <2> QED BY <2>1, BlankIs, FileIs, Zenon
<1> HIDE DEF f1, one
<1>5. /\ file \in [Inode -> File] /\ file[1] = f1
      /\ \A i \in Inode \ {1} : file[i] = Blank
  BY <1>1, <1>3, <1>4, BlankIs
<1>6. Owed = {} /\ drive \in Given /\ Nothing \in Given
  BY <1>1, <1>2 DEF Owed, Given, Nothing
<1>7. Unseen \in [body : Body, stamped : BOOLEAN] /\ Unseen.body = 0
  <2>1. ASSUME NEW b \in BOOLEAN
        PROVE [body |-> 0, stamped |-> b] \in [body : Body, stamped : BOOLEAN]
    BY <1>3
  <2> QED BY <2>1, Zenon DEF Unseen
<1>8. /\ NoBatch \in [gone : Object, put : Version] /\ NoBatch.gone = 0 /\ NoBatch.put = Nothing
      /\ NoGuard \in [ino : At, body : Body, ver : Version, top : Body]
      /\ NoGuard.body = 0 /\ NoGuard.top = 0 /\ NoGuard.ver = Nothing
  BY <1>3, NothingIs DEF NoBatch, NoGuard, At
<1>9. TypeOK
  <2>1. WorldOK
    BY <1>1, <1>2, <1>3 DEF WorldOK
  <2>2. FilesOK /\ UploadOK
    BY <1>1, <1>2, <1>3, <1>5, NothingIs DEF FilesOK, UploadOK, At
  <2>3. QueueOK
    BY <1>1, LocalAssumption DEF QueueOK
  <2>4. PassOK
    BY <1>1, <1>3, <1>7, <1>8 DEF PassOK
  <2>5. SweepOK
    BY <1>1, <1>8 DEF SweepOK, At
  <2>6. OnePlace
    BY <1>1 DEF OnePlace
  <2> QED BY <2>1, <2>2, <2>3, <2>4, <2>5, <2>6 DEF TypeOK
<1>10. WorldSound
  BY <1>1, <1>2, <1>6 DEF WorldSound
<1>11. GivenOut
  BY <1>1, <1>6, <1>7, <1>8 DEF GivenOut
<1>12. FilesSound
  <2>1. SoundIn(f1, top, objects, Owed)
    <3>1. f1.ver \in [obj : 0 .. objects, body : 0 .. top] /\ 1 \in 0 .. top
      BY <1>1, <1>2, <1>4
    <3> QED BY <1>4, <1>6, <3>1, Zenon DEF SoundIn
  <2>2. SoundIn(Blank, top, objects, Owed)
    BY <1>1, BlankSound
  <2> QED BY <1>5, <2>1, <2>2 DEF FilesSound, Sound
<1>16. ~ Sent /\ ~ Holding
  BY <1>1 DEF Sent, Holding
<1>13. Placed /\ Opened /\ Gone
  BY <1>1, <1>16 DEF Placed, Opened, Gone
<1>14. Truthful /\ Approved
  BY <1>1, <1>6, <1>7, <1>16 DEF Truthful, Approved
<1>15. Descends
  <2>1. Showing = 1
    BY <1>1, <1>4, <1>5, Zenon DEF Showing
  <2>2. Follows(drive)
    BY <1>2, <2>1 DEF Follows, Knows
  <2> QED BY <1>1, <1>4, <1>5, <1>16, <2>2, Zenon DEF Descends
<1> QED BY <1>9, <1>10, <1>11, <1>12, <1>13, <1>14, <1>15 DEF IInv

LEMMA StutterKeeps == ASSUME IInv, UNCHANGED vars PROVE IInv'
<1>1. /\ UNCHANGED <<drive, known, unsent, basis, last, top, objects, past, scratch, held,
                     hidden, record, waiting, sending, delta, evict, upload, turns, file, at>>
  BY DEF vars, world, disk, daemon, queue, delta
<1>2. FilesOK' /\ waiting' \subseteq Inode /\ last' \in 0 .. top
  BY <1>1, Numbers DEF IInv, TypeOK, FilesOK, QueueOK
<1>3. Opened'
  BY <1>1, Zenon DEF IInv, Opened
<1>4. NameFollows /\ After(Showing', Showing)
  BY <1>1 DEF NameFollows, After, Showing
<1> QED BY <1>1, <1>2, <1>3, <1>4, QuietKeeps

LEMMA Inductive == IInv /\ [Next]_vars => IInv'
<1> SUFFICES ASSUME IInv, [Next]_vars PROVE IInv' OBVIOUS
<1>1. CASE External
  BY <1>1, SaveInPlaceKeeps, SaveOverKeeps, OpenKeeps, CloseKeeps, DeleteKeeps, NoticeKeeps,
     HydrateKeeps, DriveEditKeeps, DriveDeleteKeeps, DriveCreateKeeps DEF External
<1>2. CASE Pass
  BY <1>2, PullKeeps, ScanKeeps, ScanFailsKeeps, RemoveLookKeeps, UnlinkKeeps, UnlinkFailsKeeps,
     PutLookKeeps,
     PlaceKeeps, PlaceFailsKeeps, AcceptKeeps DEF Pass
<1>3. CASE Evict
  BY <1>3, ChooseKeeps, GuardKeeps, JudgeKeeps, ExchangeKeeps, CompareKeeps, DropKeeps,
     RestoreKeeps DEF Evict
<1>4. CASE Upload
  BY <1>4, BeginKeeps, SendKeeps, ReadBackKeeps, FailsKeeps, LookupKeeps, AdoptKeeps, StampKeeps,
     RemoveInsteadKeeps DEF Upload
<1>5. CASE Crash
  BY <1>5, CrashKeeps
<1>6. CASE UNCHANGED vars
  BY <1>6, StutterKeeps
<1> QED BY <1>1, <1>2, <1>3, <1>4, <1>5, <1>6 DEF Next

LEMMA Invariance == Spec => []IInv
<1>1. Init => IInv
  BY InitIInv
<1>2. IInv /\ [Next]_vars => IInv'
  BY Inductive
<1> QED BY <1>1, <1>2, PTL DEF Spec

-----------------------------------------------------------------------------
(* What follows from it.                                                   *)

\* What perishes was in a file that is no longer where it was, or no longer what it was.
LEMMA Perishes ==
    ASSUME IInv, NEW c \in Perished
    PROVE  \E i \in Inode : /\ i \in {at, scratch} \cup hidden /\ c = file[i].body
                            /\ i \in {at', scratch'} \cup hidden' => file'[i] # file[i]
<1>1. PICK i \in ({at, scratch} \cup hidden) \ {0} : c = file[i].body
  BY DEF Perished, Here
<1>2. i \in Inode
  BY Numbers
<1>3. ASSUME i \in {at', scratch'} \cup hidden', file'[i] = file[i] PROVE FALSE
  <2>1. i \in ({at', scratch'} \cup hidden') \ {0}
    BY <1>3
  <2>2. c \in Here'
    BY <1>1, <1>3, <2>1 DEF Here
  <2> QED BY <2>2 DEF Perished
<1> QED BY <1>1, <1>2, <1>3

\* What perishes is still where it was.
LEMMA NothingPerishes ==
    ASSUME IInv, UNCHANGED <<file, at, scratch, hidden>>
    PROVE  Perished = {}
BY DEF Perished, Here

\* The looks of the pass.
LEMMA KeepsWhatItSaw ==
    ASSUME IInv, NEW c \in Perished \ strayed
    PROVE  c # looked.body \/ ~ looked.stamped
<1>1. c \in Owed
  BY DEF Perished, Owed
<1> QED BY <1>1, SeenIs

\* A pass destroys nothing it saw that the drive never had: what was clean when it looked was
\* on the drive, or had been stamped for an upload that read another file.
THEOREM Seen == Spec => SeenIsKept
<1>1. IInv => TypeOK
  BY DEF IInv
<1>2. IInv /\ [Next]_vars =>
        [dAt # dAt' => \A c \in Perished \ strayed : c # looked.body \/ ~ looked.stamped]_vars
  BY KeepsWhatItSaw
<1> QED BY <1>1, <1>2, Invariance, PTL DEF Spec, SeenIsKept

\* What a step of the sweep may take away.
Excused(c) == (guard.top # 0 /\ c > guard.top) \/ (eAt = "restore" /\ c = file[own].body)

LEMMA ExchangeTakes ==
    ASSUME IInv, Exchange
    PROVE  Perished = {}
<1>1. CASE at = 0
  BY <1>1, NothingPerishes, Zenon DEF Exchange
<1>2. CASE at # 0
  <2>1. /\ eAt = "judged" /\ Free # {} /\ at' = Fresh /\ scratch' = at /\ hidden' = hidden
        /\ file' = [file EXCEPT ![Fresh] = Placeholder(guard.ver)]
    BY <1>2 DEF Exchange
  <2>2. Fresh \in Inode /\ Fresh \notin {at, scratch} \cup hidden
    BY <2>1, FreshIs
  <2>3. scratch = 0
    BY <2>1 DEF IInv, TypeOK, OnePlace
  <2>4. \A i \in Inode \ {Fresh} : file'[i] = file[i]
    BY <2>1, Numbers
  <2> SUFFICES ASSUME NEW c \in Perished PROVE FALSE
    OBVIOUS
  <2>5. PICK i \in Inode : /\ i \in {at, scratch} \cup hidden
                           /\ i \in {at', scratch'} \cup hidden' => file'[i] # file[i]
    BY Perishes
  <2> QED BY <2>1, <2>2, <2>3, <2>4, <2>5, Bounds
<1> QED BY <1>1, <1>2

LEMMA DropTakes ==
    ASSUME IInv, Drop, NEW c \in Perished, c \notin strayed
    PROVE  Excused(c)
<1>1. /\ eAt = "drop" /\ file' = Living(file, {at, held} \cup hidden)
      /\ at' = at /\ hidden' = hidden
  BY DEF Drop
<1>2. \A i \in Inode : i \in {at} \cup hidden => file'[i] = file[i]
  BY <1>1, LivingIs
<1>3. PICK i \in Inode : /\ i \in {at, scratch} \cup hidden /\ c = file[i].body
                         /\ i \in {at', scratch'} \cup hidden' => file'[i] # file[i]
  BY Perishes
<1>4. c = file[scratch].body
  BY <1>1, <1>2, <1>3
<1>5. c \in Owed
  BY DEF Perished, Owed
<1>6. c > guard.top
  BY <1>1, <1>4, <1>5 DEF IInv, Approved
<1>7. guard.top # 0
  BY <1>1 DEF IInv, Placed
<1> QED BY <1>6, <1>7 DEF Excused

LEMMA RestoreTakes ==
    ASSUME IInv, Restore, NEW c \in Perished
    PROVE  Excused(c)
<1>1. eAt = "restore"
  BY DEF Restore
<1>2. PICK i \in Inode : /\ i \in {at, scratch} \cup hidden /\ c = file[i].body
                         /\ i \in {at', scratch'} \cup hidden' => file'[i] # file[i]
  BY Perishes
<1>3. CASE at = 0
  <2>1. hidden' = hidden \cup {scratch} /\ file' = file
    BY <1>3 DEF Restore
  <2> QED BY <1>2, <1>3, <2>1, Bounds
<1>4. CASE at # 0
  <2>1. /\ at' = scratch /\ hidden' = (IF at = own THEN hidden ELSE hidden \cup {at})
        /\ file' = Living(file, {scratch, held} \cup hidden')
    BY <1>4 DEF Restore
  <2>2. \A j \in Inode : j \in {scratch} \cup hidden' => file'[j] = file[j]
    BY <2>1, LivingIs
  <2>3. i = at /\ at = own
    BY <1>2, <2>1, <2>2
  <2> QED BY <1>1, <1>2, <2>3 DEF Excused
<1> QED BY <1>3, <1>4

LEMMA CrashTakes ==
    ASSUME IInv, Crash
    PROVE  Perished = {}
<1>1. /\ at' = at
      /\ hidden' = (IF scratch = 0 \/ (scratch # 0 /\ file[scratch].mark) THEN hidden
                    ELSE hidden \cup {scratch})
      /\ file' = Living(file, {at, held} \cup hidden')
  BY DEF Crash
<1>2. \A i \in Inode : i \in {at} \cup hidden' => file'[i] = file[i]
  BY <1>1, LivingIs
<1> SUFFICES ASSUME NEW c \in Perished PROVE FALSE
  OBVIOUS
<1>3. PICK i \in Inode : /\ i \in {at, scratch} \cup hidden /\ c = file[i].body
                         /\ i \in {at', scratch'} \cup hidden' => file'[i] # file[i]
  BY Perishes
<1>4. hidden \subseteq hidden'
  BY <1>1, Zenon
<1>5. i = scratch /\ scratch \notin hidden'
  BY <1>1, <1>2, <1>3, <1>4
<1>6. file[i].mark
  BY <1>1, <1>5, Bounds, Zenon
<1>7. c = 0
  BY <1>3, <1>6 DEF IInv, FilesSound, Sound, SoundIn
<1> QED BY <1>7, Numbers DEF Perished

\* The others leave the sweep where it stands.
LEMMA OthersStand ==
    ASSUME IInv, [Next]_vars, eAt # eAt'
    PROVE  Evict \/ Crash
<1>1. evict = evict' => eAt = eAt'
  BY DEF evict
<1>2. (daemon = daemon' => evict = evict') /\ (Rest = Rest' => evict = evict')
      /\ (Beside = Beside' => evict = evict')
  BY DEF daemon, Rest, Beside
<1>3. CASE External
  BY <1>1, <1>2, <1>3, Zenon DEF External, SaveInPlace, SaveOver, Open, Close, Delete, Notice,
     Hydrate, DriveEdit, DriveDelete, DriveCreate
<1>4. CASE Pass
  BY <1>1, <1>2, <1>4, Zenon DEF Pass, Pull, Scan, ScanFails, RemoveLook, Unlink, UnlinkFails,
     PutLook, Place, PlaceFails, Accept, DeltaOnly
<1>5. CASE Upload
  BY <1>1, <1>2, <1>5, Zenon DEF Upload, Begin, Replace, Create, Settle, Put, ReadBack, Fails,
     Lookup, Adopt, Stamp, RemoveInstead, UploadOnly
<1>6. CASE UNCHANGED vars
  BY <1>1, <1>2, <1>6 DEF vars
<1> QED BY <1>3, <1>4, <1>5, <1>6, Zenon DEF Next

LEMMA TakesWhatIsExcused ==
    ASSUME IInv, [Next]_vars, eAt # eAt', NEW c \in Perished \ strayed
    PROVE  Excused(c)
<1>1. CASE Choose \/ Guard \/ Judge \/ Compare
  <2>1. UNCHANGED <<file, at, scratch, hidden>>
    BY <1>1 DEF Choose, Guard, Judge, Compare
  <2> QED BY <2>1, NothingPerishes
<1>2. CASE Exchange
  BY <1>2, ExchangeTakes
<1>3. CASE Drop
  BY <1>3, DropTakes
<1>4. CASE Restore
  BY <1>4, RestoreTakes
<1>5. CASE Crash
  BY <1>5, CrashTakes
<1> QED BY <1>1, <1>2, <1>3, <1>4, <1>5, OthersStand DEF Evict

\* A sweep takes away nothing that the drive never had, but what was written after its
\* comparison or into the placeholder it withdraws: the file it approved was clean, and its
\* comparison tells whether what came out is still that content.
THEOREM Evicted == Spec => EvictedIsSent
<1>1. IInv /\ [Next]_vars => [eAt # eAt' => \A c \in Perished \ strayed : Excused(c)]_vars
  BY TakesWhatIsExcused
<1>2. [eAt # eAt' => \A c \in Perished \ strayed : Excused(c)]_vars
        => [eAt # eAt' => \A c \in Perished \ strayed :
              (guard.top # 0 /\ c > guard.top) \/ (eAt = "restore" /\ c = file[own].body)]_vars
  BY DEF Excused
<1> QED BY <1>1, <1>2, Invariance, PTL DEF Spec, EvictedIsSent

\* The drive holds another content of the same object after a step of the upload only if it
\* was replaced.
LEMMA ReplaceFollows ==
    ASSUME IInv, Replace, ~ crossed, at = job, drive # drive'
    PROVE  drive.body \in basis[drive'.body]
<1>1. /\ uAt = "begun" /\ at # 0 /\ ~ file[at].mark /\ drive.obj # 0 /\ base = drive
      /\ drive' = [obj |-> drive.obj, body |-> file[at].body] /\ drive.body # 0
  BY DEF Replace, Put
<1>2. Follows(base)
  BY <1>1, Zenon DEF IInv, Descends
<1>3. Showing = file[at].body
  BY <1>1, Zenon DEF Showing
<1>4. drive.body \in basis[file[at].body] \cup {file[at].body}
  BY <1>1, <1>2, <1>3 DEF Follows, Knows
<1>5. drive.body # file[at].body
  <2>1. drive \in Version
    BY DEF IInv, TypeOK, WorldOK
  <2> QED BY <1>1, <2>1 DEF Version
<1> QED BY <1>1, <1>4, <1>5

LEMMA SettleKeepsDrive ==
    ASSUME IInv, Settle
    PROVE  drive' = drive
<1>1. drive' = [obj |-> drive.obj, body |-> drive.body]
  BY DEF Settle, Put
<1>2. drive \in Version
  BY DEF IInv, TypeOK, WorldOK
<1> QED BY <1>1, <1>2 DEF Version

LEMMA UploadOverwrites ==
    ASSUME IInv, Upload, ~ crossed, at = job, drive # drive', drive.obj # 0,
           drive'.obj # 0
    PROVE  drive.body \in basis[drive'.body]
<1>1. ~ (\E i \in Inode : Begin(i)) /\ ~ ReadBack /\ ~ Fails /\ ~ Lookup /\ ~ Adopt /\ ~ Stamp
  BY DEF Begin, ReadBack, Fails, Lookup, Adopt, Stamp
<1>2. ~ Create /\ ~ RemoveInstead
  BY NothingIs DEF Create, RemoveInstead
<1>3. ~ Settle
  BY SettleKeepsDrive
<1> QED BY <1>1, <1>2, <1>3, ReplaceFollows DEF Upload

\* The others leave the upload where it stands, and a restart changes nothing on the drive.
LEMMA OthersLeaveUpload ==
    ASSUME [Next]_vars, uAt # uAt', drive # drive'
    PROVE  Upload
<1>1. upload = upload' => uAt = uAt'
  BY DEF upload
<1>2. /\ daemon = daemon' => upload = upload'
      /\ Rest = Rest' => upload = upload'
      /\ Others = Others' => upload = upload'
      /\ world = world' => drive = drive'
  BY DEF daemon, Rest, Others, world
<1>3. CASE External
  BY <1>1, <1>2, <1>3, Zenon DEF External, SaveInPlace, SaveOver, Open, Close, Delete, Notice,
     Hydrate, DriveEdit, DriveDelete, DriveCreate
<1>4. CASE Pass
  BY <1>1, <1>2, <1>4, Zenon DEF Pass, Pull, Scan, ScanFails, RemoveLook, Unlink, UnlinkFails,
     PutLook, Place, PlaceFails, Accept, DeltaOnly
<1>5. CASE Evict
  BY <1>1, <1>2, <1>5, Zenon DEF Evict, Choose, Guard, Judge, Exchange, Compare, Drop, Restore,
     EvictOnly
<1>6. CASE Crash
  BY <1>2, <1>6 DEF Crash
<1>7. CASE UNCHANGED vars
  BY <1>2, <1>7 DEF vars
<1> QED BY <1>3, <1>4, <1>5, <1>6, <1>7, Zenon DEF Next

\* An upload of the file it began with replaces no version that its content was not written
\* over, until two of the threads have come between each other (`crossed`): the request names
\* what was on the file, or recorded for its name, and what is shown there was written over that.
THEOREM Overwrites == Spec => NoBlindOverwrite
<1>1. IInv /\ [Next]_vars =>
        [~ crossed /\ uAt # uAt' /\ at = job
            /\ drive # drive' /\ 0 \notin {drive.obj, drive'.obj}
          => drive.body \in basis[drive'.body]]_vars
  BY OthersLeaveUpload, UploadOverwrites
<1> QED BY <1>1, Invariance, PTL DEF Spec, NoBlindOverwrite

=============================================================================

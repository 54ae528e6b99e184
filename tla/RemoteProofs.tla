------------------------------ MODULE RemoteProofs -----------------------------
(***************************************************************************)
(* What comes from the drive, in three parts that share no state.          *)
(*                                                                         *)
(* The feed (DeltaFeed), for every set of files, every limit and any       *)
(* number of changes and troubles: the token never runs ahead of the tree, *)
(* and no deletion is lost between them and the folder.                    *)
(*                                                                         *)
(* Fetches (Content), for every set of objects, any sizes, pool and number *)
(* of retries: what a fetch delivers is exact, and the ledger of the       *)
(* windows fetched ahead is of one walk and says nothing is being fetched  *)
(* that nobody fetches.                                                    *)
(*                                                                         *)
(* A pass (Pass), for every drive of finitely many objects, names, batch   *)
(* and user: no change of it loses bytes the drive never had; no object    *)
(* gets a second name, outside the named cases; and a pass that is skipped *)
(* had nothing to do.                                                      *)
(***************************************************************************)
EXTENDS DeltaFeed, Content, Pass, FiniteSetTheorems, SequenceTheorems, TLAPS

-----------------------------------------------------------------------------
(* The feed: the inductive invariant.                                      *)

Fetching == at = "fetch"

\* What t says is what the drive did last, as far as tok goes.
Sound(t, tok) == \A f \in File : touched[f] <= tok /\ look[f] # "deferred" => t[f] = cloud[f]

\* Positions only grow: from the token on disk to what the next will be, to the log's end.
Ordered ==
    /\ \A f \in File : touched[f] <= head
    /\ token # NoLink => token \in 0 .. head
    /\ pend.is => pend.tok \in 0 .. head /\ (token # NoLink => token <= pend.tok)
    /\ Fetching => from \in 0 .. head /\ (token # NoLink => token <= from)

DeletedIsGood == \A f \in File : cloud[f] = 0 => look[f] = "good"

\* How far the commit of the last batch is.  What is not rewritten did not change.
Staged ==
    /\ at \in {"begin", "fetch"} => ~ pend.is
    /\ at \in {"saveTree", "saveToken"} => pend.is
    /\ at = "saveToken" \/ (pend.is /\ ~ pend.save) => hasTree /\ tree = pend.tree
    /\ Fetching /\ ~ enum => hasTree /\ (~ applied => work = tree)

\* The tree on disk, the one to be written and the one in the making are sound for their tokens.
TreesSound ==
    /\ hasTree /\ token # NoLink => Sound(tree, token)
    /\ pend.is => Sound(pend.tree, pend.tok)
    /\ Fetching /\ ~ held => \A f \in File \ left :
          touched[f] <= from /\ look[f] # "deferred" => work[f] = cloud[f]

\* The daemon's cursor is that of the last batch or the one before it, which differ: it has
\* accepted the batch or not, and while it has not the batch is still to be committed.
CursorsAgree ==
    /\ ~ served.is => cursor = NoCursor
    /\ served.is => /\ served.next \in Issued /\ served.next.n = rounds
                    /\ lastIn = NoCursor \/ (lastIn \in Issued /\ lastIn.n = 1 - rounds)
                    /\ cursor \in {lastIn, served.next}
    /\ at \in {"pass", "again"} => served.is /\ cursor = lastIn
    /\ at \in {"saveTree", "saveToken", "begin", "fetch"} /\ served.is => cursor = served.next
    /\ served.is /\ cursor = lastIn => pend.is /\ pend.tree = served.tree

\* In the folder, for no reason that is named.
Expected(f) == local[f] # 0 /\ missed[f] = "no"

\* Each such file is in a tree; and if the next tree will not have it, the batch that removes
\* it is not accepted until it has.
Recorded ==
    /\ \A f \in File : Expected(f) => tree[f] # 0 \/ (pend.is /\ pend.tree[f] # 0)
    /\ \A f \in File : Expected(f) /\ pend.is /\ pend.tree[f] = 0 =>
          /\ served.is /\ cursor = lastIn /\ f \in served.gone
          /\ at = "pass" => f \in toRemove \/ retry
    /\ Fetching /\ ~ enum => \A f \in File : tree[f] # 0 /\ work[f] = 0 => f \in gone

FeedInv == TypeOK /\ Ordered /\ DeletedIsGood /\ Staged /\ TreesSound /\ CursorsAgree /\ Recorded

-----------------------------------------------------------------------------
(* What the invariant says of a batch that has been accepted.              *)

\* Two batches in a row never have the same cursor.
LEMMA NextIsNew == ASSUME FeedInv, served.is PROVE lastIn # served.next
BY FeedAssumption DEF FeedInv, TypeOK, MemoryOK, CursorsAgree, Issued

\* What is in the folder, and expected there, is in the tree to be written or, when there is
\* none, in the tree on disk.
LEMMA AcceptedIsRecorded ==
    ASSUME FeedInv, at \in {"saveTree", "saveToken", "begin", "fetch"}, NEW f \in File, Expected(f)
    PROVE  IF pend.is THEN pend.tree[f] # 0 ELSE tree[f] # 0
<1>1. ~ (served.is /\ cursor = lastIn)
  BY NextIsNew DEF FeedInv, CursorsAgree
<1> QED BY <1>1 DEF FeedInv, Recorded

-----------------------------------------------------------------------------
(* One lemma for each step.                                                *)

LEMMA AskKeeps == ASSUME FeedInv, Ask PROVE FeedInv'
<1>1. DriveOK'
  BY DEF Ask, FeedInv, TypeOK, DriveOK, Look, drive
<1>2. DiskOK'
  BY DEF Ask, FeedInv, TypeOK, DiskOK, disk
<1>3. RoundOK'
  BY DEF Ask, FeedInv, TypeOK, RoundOK, Points, round
<1>4. MemoryOK'
  BY FeedAssumption DEF Ask, FeedInv, TypeOK, MemoryOK, Cursors, Issued, disk, round, memory
<1>5. PassOK'
  BY DEF Ask, FeedInv, TypeOK, PassOK, Reasons, pass
<1>6. Ordered'
  BY DEF Ask, FeedInv, Ordered, Fetching, drive, disk, round, memory
<1>7. DeletedIsGood'
  BY DEF Ask, FeedInv, DeletedIsGood, drive
<1>8. Staged'
  BY DEF Ask, FeedInv, Staged, Fetching, disk, round, memory
<1>9. TreesSound'
  BY DEF Ask, FeedInv, TreesSound, Sound, Fetching, drive, disk, round, memory
<1>10. CursorsAgree'
  BY FeedAssumption DEF Ask, FeedInv, CursorsAgree, Issued, disk, memory
<1>11. Recorded'
  BY DEF Ask, FeedInv, Recorded, Fetching, Expected, disk, round, memory, pass
<1> QED BY <1>1, <1>2, <1>3, <1>4, <1>5, <1>6, <1>7, <1>8, <1>9, <1>10, <1>11 DEF FeedInv, TypeOK

LEMMA ServeAgainKeeps == ASSUME FeedInv, ServeAgain PROVE FeedInv'
<1>1. DriveOK'
  BY DEF ServeAgain, FeedInv, TypeOK, DriveOK, Look, drive
<1>2. DiskOK'
  BY DEF ServeAgain, FeedInv, TypeOK, DiskOK, disk
<1>3. RoundOK'
  BY DEF ServeAgain, FeedInv, TypeOK, RoundOK, Points, round
<1>4. MemoryOK'
  BY FeedAssumption DEF ServeAgain, FeedInv, TypeOK, MemoryOK, Cursors, Issued, disk, round, memory
<1>5. PassOK'
  BY FeedAssumption DEF ServeAgain, FeedInv, TypeOK, PassOK, Reasons, In, MemoryOK
<1>6. Ordered'
  BY DEF ServeAgain, FeedInv, Ordered, Fetching, drive, disk, round, memory
<1>7. DeletedIsGood'
  BY DEF ServeAgain, FeedInv, DeletedIsGood, drive
<1>8. Staged'
  BY DEF ServeAgain, FeedInv, Staged, Fetching, disk, round, memory
<1>9. TreesSound'
  BY DEF ServeAgain, FeedInv, TreesSound, Sound, Fetching, drive, disk, round, memory
<1>10. CursorsAgree'
  BY FeedAssumption DEF ServeAgain, FeedInv, CursorsAgree, Issued, disk, memory
<1>11. Recorded'
  BY DEF ServeAgain, FeedInv, Recorded, Fetching, Expected, disk, round, memory
<1> QED BY <1>1, <1>2, <1>3, <1>4, <1>5, <1>6, <1>7, <1>8, <1>9, <1>10, <1>11 DEF FeedInv, TypeOK

LEMMA SaveTreeKeeps == ASSUME FeedInv, SaveTree PROVE FeedInv'
<1>1. DriveOK'
  BY DEF SaveTree, FeedInv, TypeOK, DriveOK, Look, drive
<1>2. DiskOK'
  <2>1. pend.is /\ pend.tree \in [File -> Nat] /\ pend.gen \in Nat
    BY DEF SaveTree, FeedInv, TypeOK, MemoryOK, Staged
  <2> QED BY <2>1 DEF SaveTree, FeedInv, TypeOK, DiskOK, Ordered
<1>3. RoundOK'
  BY DEF SaveTree, FeedInv, TypeOK, RoundOK, Points, round
<1>4. MemoryOK'
  BY FeedAssumption DEF SaveTree, FeedInv, TypeOK, MemoryOK, Cursors, Issued, round, memory
<1>5. PassOK'
  BY DEF SaveTree, FeedInv, TypeOK, PassOK, Reasons, pass
<1>6. Ordered'
  BY FeedAssumption DEF SaveTree, FeedInv, Ordered, Fetching, drive, round, memory, TypeOK, DiskOK,
     MemoryOK, Staged
<1>7. DeletedIsGood'
  BY DEF SaveTree, FeedInv, DeletedIsGood, drive
<1>8. Staged'
  BY DEF SaveTree, FeedInv, Staged, Fetching, round, memory
<1>9. TreesSound'
  <2>1. pend.is /\ Sound(pend.tree, pend.tok) /\ (token # NoLink => token <= pend.tok)
    BY DEF SaveTree, FeedInv, Staged, TreesSound, Ordered
  <2>2. token # NoLink => Sound(pend.tree, token)
    BY <2>1 DEF FeedInv, TypeOK, DriveOK, Ordered, Sound
  <2> QED BY <2>1, <2>2 DEF SaveTree, FeedInv, TreesSound, Sound, Fetching, drive, memory
<1>10. CursorsAgree'
  BY FeedAssumption DEF SaveTree, FeedInv, CursorsAgree, Issued, memory
<1>11. Recorded'
  <2>1. \A f \in File : Expected(f)' => pend.tree[f] # 0
    BY AcceptedIsRecorded DEF SaveTree, Expected, FeedInv, TypeOK, PassOK, Staged
  <2> QED BY <2>1 DEF SaveTree, FeedInv, Recorded, Fetching, memory
<1> QED BY <1>1, <1>2, <1>3, <1>4, <1>5, <1>6, <1>7, <1>8, <1>9, <1>10, <1>11 DEF FeedInv, TypeOK

LEMMA SaveTokenKeeps == ASSUME FeedInv, SaveToken PROVE FeedInv'
<1>1. DriveOK'
  BY DEF SaveToken, FeedInv, TypeOK, DriveOK, Look, drive, NoTree, NoPend
<1>2. DiskOK'
  <2>1. token' \in Nat /\ pend.gen \in Nat
    BY DEF SaveToken, FeedInv, TypeOK, DriveOK, MemoryOK, Ordered, Staged
  <2> QED BY <2>1 DEF SaveToken, FeedInv, TypeOK, DiskOK, NoTree
<1>3. RoundOK'
  BY DEF SaveToken, FeedInv, TypeOK, RoundOK, Points, round, NoTree, NoPend
<1>4. MemoryOK'
  BY FeedAssumption DEF SaveToken, FeedInv, TypeOK, MemoryOK, Cursors, Issued, round, NoTree, NoPend
<1>5. PassOK'
  BY DEF SaveToken, FeedInv, TypeOK, PassOK, Reasons, pass, NoTree, NoPend
<1>6. Ordered'
  <2>1. token' \in 0 .. head /\ pend'.is = FALSE
    BY DEF SaveToken, FeedInv, TypeOK, DriveOK, Ordered, Staged, NoPend
  <2> QED BY <2>1 DEF SaveToken, FeedInv, Ordered, Fetching, drive
<1>7. DeletedIsGood'
  BY DEF SaveToken, FeedInv, DeletedIsGood, drive
<1>8. Staged'
  BY DEF SaveToken, FeedInv, Staged, Fetching, round, NoPend
<1>9. TreesSound'
  <2>1. Sound(tree, pend.tok)
    BY DEF SaveToken, FeedInv, Staged, TreesSound
  <2> QED BY <2>1 DEF SaveToken, TreesSound, Sound, Fetching, drive, NoPend
<1>10. CursorsAgree'
  BY FeedAssumption DEF SaveToken, FeedInv, CursorsAgree, Issued, NoPend
<1>11. Recorded'
  <2>1. \A f \in File : Expected(f) => tree[f] # 0
    BY AcceptedIsRecorded DEF SaveToken, FeedInv, Staged
  <2> QED BY <2>1 DEF SaveToken, Recorded, Expected, Fetching, NoPend
<1> QED BY <1>1, <1>2, <1>3, <1>4, <1>5, <1>6, <1>7, <1>8, <1>9, <1>10, <1>11 DEF FeedInv, TypeOK

LEMMA SaveFailsKeeps == ASSUME FeedInv, SaveFails PROVE FeedInv'
<1>1. DriveOK'
  BY DEF SaveFails, FeedInv, TypeOK, DriveOK, Look, drive, NoTree, NoPend
<1>2. DiskOK'
  BY DEF SaveFails, FeedInv, TypeOK, DiskOK, disk, NoTree, NoPend
<1>3. RoundOK'
  BY DEF SaveFails, FeedInv, TypeOK, RoundOK, Points, round, NoTree, NoPend
<1>4. MemoryOK'
  BY FeedAssumption DEF SaveFails, FeedInv, TypeOK, MemoryOK, Cursors, Issued, disk, round, NoTree,
     NoPend
<1>5. PassOK'
  BY DEF SaveFails, FeedInv, TypeOK, PassOK, Reasons, pass, NoTree, Unrecorded, NoPend, Trouble
<1>6. Ordered'
  BY DEF SaveFails, FeedInv, Ordered, Fetching, drive, disk, round, NoPend
<1>7. DeletedIsGood'
  BY DEF SaveFails, FeedInv, DeletedIsGood, drive
<1>8. Staged'
  BY DEF SaveFails, FeedInv, Staged, Fetching, disk, round, NoPend
<1>9. TreesSound'
  BY DEF SaveFails, FeedInv, TreesSound, Sound, Fetching, drive, disk, round, NoPend
<1>10. CursorsAgree'
  BY FeedAssumption DEF SaveFails, FeedInv, CursorsAgree, Issued, disk, NoPend
<1>11. Recorded'
  <2>1. \A f \in File : Expected(f)' => tree[f] # 0
    <3>1. CASE at = "saveTree"
      BY <3>1 DEF SaveFails, FeedInv, TypeOK, PassOK, Expected, Unrecorded
    <3>2. CASE at = "saveToken"
      BY <3>2, AcceptedIsRecorded DEF SaveFails, FeedInv, TypeOK, PassOK, Staged, Expected
    <3> QED BY <3>1, <3>2 DEF SaveFails
  <2> QED BY <2>1 DEF SaveFails, disk, Recorded, Fetching, NoPend
<1> QED BY <1>1, <1>2, <1>3, <1>4, <1>5, <1>6, <1>7, <1>8, <1>9, <1>10, <1>11 DEF FeedInv, TypeOK

LEMMA BeginKeeps == ASSUME FeedInv, Begin PROVE FeedInv'
<1>1. DriveOK'
  BY DEF Begin, FeedInv, TypeOK, DriveOK, Look, drive, NoTree, Start
<1>2. DiskOK'
  BY DEF Begin, FeedInv, TypeOK, DiskOK, disk, NoTree, Start
<1>3. RoundOK'
  <2>1. left' \subseteq File
    BY DEF Begin, Start, In
  <2>2. work' \in [File -> Nat] /\ enum' \in BOOLEAN /\ from' \in Nat
    BY DEF Begin, Start, FeedInv, TypeOK, DriveOK, DiskOK, NoTree, Usable
  <2> QED BY <2>1, <2>2 DEF Begin, Start, RoundOK, Points
<1>4. MemoryOK'
  BY FeedAssumption DEF Begin, FeedInv, TypeOK, MemoryOK, Cursors, Issued, disk, memory, NoTree,
     Start
<1>5. PassOK'
  BY DEF Begin, FeedInv, TypeOK, PassOK, Reasons, pass, NoTree
<1>6. Ordered'
  BY DEF Begin, FeedInv, Ordered, Fetching, drive, disk, memory, Start, TypeOK, DriveOK, DiskOK,
     RoundOK, Staged
<1>7. DeletedIsGood'
  BY DEF Begin, FeedInv, DeletedIsGood, drive, Start
<1>8. Staged'
  BY DEF Begin, FeedInv, Staged, Fetching, disk, memory, Start, Usable
<1>9. TreesSound'
  <2> DEFINE all == ~ Usable \/ token < floor
  <2>1. /\ work' = IF all THEN NoTree ELSE tree
        /\ left' = IF all THEN In(cloud) ELSE {f \in File : touched[f] > token}
    BY DEF Begin, Start
  <2> HIDE DEF all
  <2>2. ASSUME NEW f \in File \ left', touched[f] <= head, look[f] # "deferred"
        PROVE  work'[f] = cloud[f]
    <3>1. CASE all
      BY <2>1, <2>2, <3>1 DEF In, NoTree, FeedInv, TypeOK, DriveOK
    <3>2. CASE ~ all
      <4>1. work' = tree /\ ~ touched[f] > token /\ hasTree /\ token # NoLink
        BY <2>1, <2>2, <3>2 DEF all, Usable
      <4>2. touched[f] <= token
        BY <4>1 DEF FeedInv, TypeOK, DriveOK, Ordered
      <4> QED BY <2>2, <4>1, <4>2 DEF FeedInv, TreesSound, Sound
    <3> QED BY <3>1, <3>2
  <2> QED BY <2>2 DEF Begin, Start, FeedInv, TreesSound, Sound, Fetching, drive, disk, memory
<1>10. CursorsAgree'
  BY FeedAssumption DEF Begin, FeedInv, CursorsAgree, Issued, disk, memory, Start
<1>11. Recorded'
  BY DEF Begin, FeedInv, Recorded, Fetching, Expected, disk, memory, pass, Start
<1> QED BY <1>1, <1>2, <1>3, <1>4, <1>5, <1>6, <1>7, <1>8, <1>9, <1>10, <1>11 DEF FeedInv, TypeOK

LEMMA PageKeeps == ASSUME FeedInv, NEW S \in SUBSET File, Page(S) PROVE FeedInv'
<1>1. DriveOK'
  BY DEF Page, FeedInv, TypeOK, DriveOK, Look, drive, Reported, MapItem
<1>2. DiskOK'
  BY DEF Page, FeedInv, TypeOK, DiskOK, disk
<1>3. RoundOK'
  <2>1. work' \in [File -> Nat] /\ gone' \subseteq File /\ left' \subseteq File
    BY DEF Page, FeedInv, TypeOK, RoundOK, DriveOK
  <2>2. held' \in BOOLEAN /\ applied' \in BOOLEAN
    BY DEF Page, FeedInv, TypeOK, RoundOK
  <2> QED BY <2>1, <2>2 DEF Page, FeedInv, TypeOK, RoundOK
<1>4. MemoryOK'
  BY FeedAssumption DEF Page, FeedInv, TypeOK, MemoryOK, Cursors, Issued, disk, memory
<1>5. PassOK'
  BY DEF Page, FeedInv, TypeOK, PassOK, Reasons, pass
<1>6. Ordered'
  BY DEF Page, FeedInv, Ordered, Fetching, drive, disk, memory, Reported
<1>7. DeletedIsGood'
  BY DEF Page, FeedInv, DeletedIsGood, drive, MapItem
<1>8. Staged'
  <2>1. CASE applied'
    BY <2>1 DEF Page, FeedInv, Staged, Fetching, disk, memory
  <2>2. CASE ~ applied'
    <3>1. ~ applied /\ \A f \in S : MapItem(f) # "upsert" /\ MapItem(f) # "delete"
      BY <2>2 DEF Page, FeedInv, TypeOK, RoundOK
    <3>2. work' = work
      BY <3>1 DEF Page, FeedInv, TypeOK, RoundOK
    <3> QED BY <3>1, <3>2 DEF Page, FeedInv, Staged, Fetching, disk, memory
  <2> QED BY <2>1, <2>2
<1>9. TreesSound'
  <2>1. ASSUME ~ held', NEW f \in File \ left', touched[f] <= from, look[f] # "deferred"
        PROVE  work'[f] = cloud[f]
    <3>1. ~ held /\ (f \in S => MapItem(f) # "refused")
      BY <2>1 DEF Page, FeedInv, TypeOK, RoundOK
    <3>2. MapItem(f) \in {"delete", "upsert", "refused"} /\ (MapItem(f) = "delete" => cloud[f] = 0)
      BY <2>1 DEF MapItem, FeedInv, TypeOK, DriveOK, Look
    <3>3. CASE f \in S
      BY <3>1, <3>2, <3>3 DEF Page
    <3>4. CASE f \notin S
      BY <2>1, <3>1, <3>4 DEF Page, FeedInv, TreesSound, Fetching
    <3> QED BY <3>3, <3>4
  <2> QED BY <2>1 DEF Page, FeedInv, TreesSound, Sound, Fetching, drive, disk, memory
<1>10. CursorsAgree'
  BY FeedAssumption DEF Page, FeedInv, CursorsAgree, Issued, disk, memory
<1>11. Recorded'
  <2>1. ASSUME ~ enum, NEW f \in File, tree[f] # 0, work'[f] = 0
        PROVE  f \in gone'
    <3>1. MapItem(f) = "upsert" => cloud[f] # 0
      BY DEF MapItem, FeedInv, TypeOK, DriveOK, Look
    <3>2. ~ (f \in S /\ MapItem(f) = "upsert")
      BY <2>1, <3>1 DEF Page
    <3>3. CASE work[f] = 0
      BY <2>1, <3>2, <3>3 DEF Page, FeedInv, Recorded, Fetching
    <3>4. CASE work[f] # 0
      BY <2>1, <3>2, <3>4 DEF Page
    <3> QED BY <3>3, <3>4
  <2>2. ~ pend.is /\ UNCHANGED <<disk, memory, pass, at, enum, local, missed>>
    BY DEF Page, FeedInv, Staged
  <2> QED BY <2>1, <2>2 DEF Page, FeedInv, Recorded, Expected, Fetching, disk, memory
<1> QED BY <1>1, <1>2, <1>3, <1>4, <1>5, <1>6, <1>7, <1>8, <1>9, <1>10, <1>11 DEF FeedInv, TypeOK

LEMMA FetchFailsKeeps == ASSUME FeedInv, FetchFails PROVE FeedInv'
<1>1. DriveOK'
  BY DEF FetchFails, FeedInv, TypeOK, DriveOK, Look, drive, NoTree
<1>2. DiskOK'
  BY DEF FetchFails, FeedInv, TypeOK, DiskOK, disk, NoTree
<1>3. RoundOK'
  BY DEF FetchFails, FeedInv, TypeOK, RoundOK, Points, NoTree, EndRound
<1>4. MemoryOK'
  BY FeedAssumption DEF FetchFails, FeedInv, TypeOK, MemoryOK, Cursors, Issued, disk, memory, NoTree,
     EndRound
<1>5. PassOK'
  BY DEF FetchFails, FeedInv, TypeOK, PassOK, Reasons, pass, NoTree, Trouble
<1>6. Ordered'
  BY DEF FetchFails, FeedInv, Ordered, Fetching, drive, disk, memory, EndRound
<1>7. DeletedIsGood'
  BY DEF FetchFails, FeedInv, DeletedIsGood, drive
<1>8. Staged'
  BY DEF FetchFails, FeedInv, Staged, Fetching, disk, memory, EndRound
<1>9. TreesSound'
  BY DEF FetchFails, FeedInv, TreesSound, Sound, Fetching, drive, disk, memory, EndRound
<1>10. CursorsAgree'
  BY FeedAssumption DEF FetchFails, FeedInv, CursorsAgree, Issued, disk, memory
<1>11. Recorded'
  BY DEF FetchFails, FeedInv, Recorded, Fetching, Expected, disk, memory, pass, EndRound
<1> QED BY <1>1, <1>2, <1>3, <1>4, <1>5, <1>6, <1>7, <1>8, <1>9, <1>10, <1>11 DEF FeedInv, TypeOK

LEMMA WithholdKeeps == ASSUME FeedInv, Withhold PROVE FeedInv'
<1>1. DriveOK'
  BY DEF Withhold, FeedInv, TypeOK, DriveOK, Look, drive, NoTree
<1>2. DiskOK'
  BY DEF Withhold, FeedInv, TypeOK, DiskOK, disk, NoTree
<1>3. RoundOK'
  BY DEF Withhold, FeedInv, TypeOK, RoundOK, Points, NoTree, EndRound
<1>4. MemoryOK'
  BY FeedAssumption DEF Withhold, FeedInv, TypeOK, MemoryOK, Cursors, Issued, disk, memory, NoTree,
     EndRound
<1>5. PassOK'
  BY DEF Withhold, FeedInv, TypeOK, PassOK, Reasons, pass, NoTree
<1>6. Ordered'
  BY DEF Withhold, FeedInv, Ordered, Fetching, drive, disk, memory, EndRound
<1>7. DeletedIsGood'
  BY DEF Withhold, FeedInv, DeletedIsGood, drive
<1>8. Staged'
  BY DEF Withhold, FeedInv, Staged, Fetching, disk, memory, EndRound
<1>9. TreesSound'
  BY DEF Withhold, FeedInv, TreesSound, Sound, Fetching, drive, disk, memory, EndRound
<1>10. CursorsAgree'
  BY FeedAssumption DEF Withhold, FeedInv, CursorsAgree, Issued, disk, memory
<1>11. Recorded'
  BY DEF Withhold, FeedInv, Recorded, Fetching, Expected, disk, memory, pass, EndRound
<1> QED BY <1>1, <1>2, <1>3, <1>4, <1>5, <1>6, <1>7, <1>8, <1>9, <1>10, <1>11 DEF FeedInv, TypeOK

LEMMA FinishKeeps == ASSUME FeedInv, Finish PROVE FeedInv'
<1>1. DriveOK'
  BY DEF Finish, FeedInv, TypeOK, DriveOK, Look, drive, NoTree
<1>2. DiskOK'
  BY DEF Finish, FeedInv, TypeOK, DiskOK, disk, NoTree, Uncommitted, Generation, Batch, Deletions,
     Vanished
<1>3. RoundOK'
  BY DEF Finish, FeedInv, TypeOK, RoundOK, Points, NoTree, MayFinish, Uncommitted, Batch, EndRound,
     Deletions, Vanished
<1>4. MemoryOK'
  <2>1. pend' \in [is : BOOLEAN, save : BOOLEAN, tree : [File -> Nat], tok : Nat \cup {NoLink}, gen : Nat]
    BY DEF Finish, Uncommitted, Generation, FeedInv, TypeOK, RoundOK, DiskOK
  <2>2. rounds' \in 0 .. 1 /\ CursorOf(from) \in Issued
    BY DEF Finish, CursorOf, Issued, FeedInv, TypeOK, RoundOK, MemoryOK
  <2>3. Batch.gone \subseteq File /\ Batch.tree \in [File -> Nat]
    BY DEF Batch, Deletions, Vanished, In, FeedInv, TypeOK, RoundOK
  <2>4. served' \in [is : BOOLEAN, gone : SUBSET File, tree : [File -> Nat], next : Cursors]
    BY <2>2, <2>3 DEF Finish, Cursors
  <2> QED BY <2>1, <2>2, <2>4 DEF Finish, FeedInv, TypeOK, MemoryOK
<1>5. PassOK'
  <2>1. toRemove' \subseteq File /\ toPlace' \subseteq File
    BY DEF Finish, Batch, Deletions, Vanished, In, FeedInv, TypeOK, RoundOK
  <2>2. missed' \in [File -> Reasons]
    BY DEF Finish, FeedInv, TypeOK, PassOK, Reasons
  <2> QED BY <2>1, <2>2 DEF Finish, FeedInv, TypeOK, PassOK
<1>6. Ordered'
  <2>1. pend'.tok = from
    BY DEF Finish, Uncommitted
  <2> QED BY <2>1 DEF Finish, FeedInv, Ordered, Fetching, drive, disk
<1>7. DeletedIsGood'
  BY DEF Finish, FeedInv, DeletedIsGood, drive
<1>8. Staged'
  <2> DEFINE u == ~ enum /\ ~ applied /\ gone = {}
  <2>1. pend'.is /\ pend'.save = ~ u /\ pend'.tree = work
    BY DEF Finish, Uncommitted
  <2>2. u => hasTree /\ work = tree
    BY DEF Finish, FeedInv, Staged, Fetching
  <2> QED BY <2>1, <2>2 DEF Finish, Staged, Fetching, disk
<1>9. TreesSound'
  BY DEF Finish, FeedInv, TreesSound, Sound, Fetching, drive, disk, MayFinish, Uncommitted, Batch,
     EndRound, Vanished
<1>10. CursorsAgree'
  <2>1. served'.is /\ served'.next \in Issued /\ served'.next.n = rounds' /\ served'.tree = work
    BY DEF Finish, CursorOf, Issued, Batch, FeedInv, TypeOK, RoundOK, MemoryOK
  <2>2. pend'.is /\ pend'.tree = work
    BY DEF Finish, Uncommitted
  <2>3. lastIn' = NoCursor \/ (lastIn' \in Issued /\ lastIn'.n = 1 - rounds')
    BY DEF Finish, FeedInv, TypeOK, MemoryOK, CursorsAgree
  <2> QED BY <2>1, <2>2, <2>3 DEF Finish, CursorsAgree
<1>11. Recorded'
  <2>1. pend'.is /\ pend'.tree = work /\ served'.is /\ served'.gone = Batch.gone
    BY DEF Finish, Uncommitted
  <2>2. ASSUME NEW f \in File, Expected(f)', work[f] = 0
        PROVE  tree[f] # 0 /\ f \in Batch.gone
    <3>1. tree[f] # 0
      BY <2>2, AcceptedIsRecorded DEF Finish, FeedInv, TypeOK, PassOK, Staged, Expected, Recorded
    <3>2. CASE ~ enum
      BY <2>2, <3>1, <3>2 DEF Finish, Batch, FeedInv, Recorded, Fetching
    <3>3. CASE enum
      <4>1. hasTree
        BY <3>1 DEF FeedInv, TypeOK, DiskOK, NoTree
      <4> QED BY <2>2, <3>1, <3>3, <4>1
              DEF Finish, Batch, Vanished, In, FeedInv, TypeOK, PassOK, Expected
    <3> QED BY <3>2, <3>3
  <2> QED BY <2>1, <2>2 DEF Finish, Recorded, Fetching, disk
<1> QED BY <1>1, <1>2, <1>3, <1>4, <1>5, <1>6, <1>7, <1>8, <1>9, <1>10, <1>11 DEF FeedInv, TypeOK

LEMMA PassRemoveKeeps == ASSUME FeedInv, NEW f \in File, PassRemove(f) PROVE FeedInv'
<1>1. DriveOK'
  BY DEF PassRemove, FeedInv, TypeOK, DriveOK, Look, drive
<1>2. DiskOK'
  BY DEF PassRemove, FeedInv, TypeOK, DiskOK, disk
<1>3. RoundOK'
  BY DEF PassRemove, FeedInv, TypeOK, RoundOK, Points, round
<1>4. MemoryOK'
  BY FeedAssumption DEF PassRemove, FeedInv, TypeOK, MemoryOK, Cursors, Issued, disk, round, memory
<1>5. PassOK'
  BY DEF PassRemove, FeedInv, TypeOK, PassOK, Reasons, Trouble
<1>6. Ordered'
  BY DEF PassRemove, FeedInv, Ordered, Fetching, drive, disk, round, memory
<1>7. DeletedIsGood'
  BY DEF PassRemove, FeedInv, DeletedIsGood, drive
<1>8. Staged'
  BY DEF PassRemove, FeedInv, Staged, Fetching, disk, round, memory
<1>9. TreesSound'
  BY DEF PassRemove, FeedInv, TreesSound, Sound, Fetching, drive, disk, round, memory
<1>10. CursorsAgree'
  BY FeedAssumption DEF PassRemove, FeedInv, CursorsAgree, Issued, disk, memory
<1>11. Recorded'
  <2>1. ASSUME NEW g \in File, Expected(g)'
        PROVE  Expected(g) /\ g # f
    BY <2>1 DEF PassRemove, Expected, FeedInv, TypeOK, PassOK
  <2> QED BY <2>1 DEF PassRemove, FeedInv, Recorded, Fetching, disk, memory
<1> QED BY <1>1, <1>2, <1>3, <1>4, <1>5, <1>6, <1>7, <1>8, <1>9, <1>10, <1>11 DEF FeedInv, TypeOK

LEMMA PassPlaceKeeps == ASSUME FeedInv, NEW f \in File, PassPlace(f) PROVE FeedInv'
<1>1. DriveOK'
  BY DEF PassPlace, FeedInv, TypeOK, DriveOK, Look, drive
<1>2. DiskOK'
  BY DEF PassPlace, FeedInv, TypeOK, DiskOK, disk
<1>3. RoundOK'
  BY DEF PassPlace, FeedInv, TypeOK, RoundOK, Points, round
<1>4. MemoryOK'
  BY FeedAssumption DEF PassPlace, FeedInv, TypeOK, MemoryOK, Cursors, Issued, disk, round, memory
<1>5. PassOK'
  <2>1. served.tree[f] \in Nat
    BY DEF FeedInv, TypeOK, MemoryOK
  <2>2. local' \in [File -> Nat]
    BY <2>1 DEF PassPlace, FeedInv, TypeOK, PassOK
  <2>3. retry' \in BOOLEAN
    BY DEF PassPlace, FeedInv, TypeOK, PassOK
  <2>4. troubles' \in Nat
    <3>1. UNCHANGED troubles \/ Trouble
      BY DEF PassPlace
    <3> QED BY <3>1 DEF Trouble, FeedInv, TypeOK, PassOK
  <2> QED BY <2>2, <2>3, <2>4 DEF PassPlace, FeedInv, TypeOK, PassOK
<1>6. Ordered'
  BY DEF PassPlace, FeedInv, Ordered, Fetching, drive, disk, round, memory
<1>7. DeletedIsGood'
  BY DEF PassPlace, FeedInv, DeletedIsGood, drive
<1>8. Staged'
  BY DEF PassPlace, FeedInv, Staged, Fetching, disk, round, memory
<1>9. TreesSound'
  BY DEF PassPlace, FeedInv, TreesSound, Sound, Fetching, drive, disk, round, memory
<1>10. CursorsAgree'
  BY FeedAssumption DEF PassPlace, FeedInv, CursorsAgree, Issued, disk, memory
<1>11. Recorded'
  <2>1. pend.is /\ pend.tree = served.tree
    BY DEF PassPlace, FeedInv, CursorsAgree
  <2>2. ASSUME NEW g \in File, Expected(g)', pend.tree[g] = 0
        PROVE  Expected(g)
    <3>1. CASE g = f
      BY <2>1, <2>2, <3>1 DEF PassPlace, Expected, FeedInv, TypeOK, PassOK
    <3>2. CASE g # f
      BY <2>2, <3>2 DEF PassPlace, Expected, FeedInv, TypeOK, PassOK
    <3> QED BY <3>1, <3>2
  <2>3. retry => retry'
    BY DEF PassPlace
  <2> QED BY <2>1, <2>2, <2>3 DEF PassPlace, FeedInv, Recorded, Fetching, disk, memory
<1> QED BY <1>1, <1>2, <1>3, <1>4, <1>5, <1>6, <1>7, <1>8, <1>9, <1>10, <1>11 DEF FeedInv, TypeOK

LEMMA PassStopsKeeps == ASSUME FeedInv, PassStops PROVE FeedInv'
<1>1. DriveOK'
  BY DEF PassStops, FeedInv, TypeOK, DriveOK, Look, drive
<1>2. DiskOK'
  BY DEF PassStops, FeedInv, TypeOK, DiskOK, disk
<1>3. RoundOK'
  BY DEF PassStops, FeedInv, TypeOK, RoundOK, Points, round
<1>4. MemoryOK'
  BY FeedAssumption DEF PassStops, FeedInv, TypeOK, MemoryOK, Cursors, Issued, disk, round, memory
<1>5. PassOK'
  BY DEF PassStops, FeedInv, TypeOK, PassOK, Reasons, Trouble
<1>6. Ordered'
  BY DEF PassStops, FeedInv, Ordered, Fetching, drive, disk, round, memory
<1>7. DeletedIsGood'
  BY DEF PassStops, FeedInv, DeletedIsGood, drive
<1>8. Staged'
  BY DEF PassStops, FeedInv, Staged, Fetching, disk, round, memory
<1>9. TreesSound'
  BY DEF PassStops, FeedInv, TreesSound, Sound, Fetching, drive, disk, round, memory
<1>10. CursorsAgree'
  BY FeedAssumption DEF PassStops, FeedInv, CursorsAgree, Issued, disk, memory
<1>11. Recorded'
  BY DEF PassStops, FeedInv, Recorded, Fetching, Expected, disk, round, memory
<1> QED BY <1>1, <1>2, <1>3, <1>4, <1>5, <1>6, <1>7, <1>8, <1>9, <1>10, <1>11 DEF FeedInv, TypeOK

LEMMA AcceptKeeps == ASSUME FeedInv, Accept PROVE FeedInv'
<1>1. DriveOK'
  BY DEF Accept, FeedInv, TypeOK, DriveOK, Look, drive
<1>2. DiskOK'
  BY DEF Accept, FeedInv, TypeOK, DiskOK, disk
<1>3. RoundOK'
  BY DEF Accept, FeedInv, TypeOK, RoundOK, Points, round
<1>4. MemoryOK'
  BY FeedAssumption DEF Accept, FeedInv, TypeOK, MemoryOK, Cursors, Issued, disk, round, memory
<1>5. PassOK'
  BY DEF Accept, FeedInv, TypeOK, PassOK, Reasons
<1>6. Ordered'
  BY DEF Accept, FeedInv, Ordered, Fetching, drive, disk, round, memory
<1>7. DeletedIsGood'
  BY DEF Accept, FeedInv, DeletedIsGood, drive
<1>8. Staged'
  BY DEF Accept, FeedInv, Staged, Fetching, disk, round, memory
<1>9. TreesSound'
  BY DEF Accept, FeedInv, TreesSound, Sound, Fetching, drive, disk, round, memory
<1>10. CursorsAgree'
  BY FeedAssumption DEF Accept, FeedInv, CursorsAgree, Issued, disk, memory
<1>11. Recorded'
  BY DEF Accept, FeedInv, Recorded, Fetching, Expected, disk, round, memory
<1> QED BY <1>1, <1>2, <1>3, <1>4, <1>5, <1>6, <1>7, <1>8, <1>9, <1>10, <1>11 DEF FeedInv, TypeOK

LEMMA RestartKeeps ==
    ASSUME FeedInv, Restart
    PROVE  /\ DriveOK' /\ RoundOK' /\ MemoryOK' /\ (missed' \in [File -> Reasons] => PassOK')
           /\ DeletedIsGood' /\ CursorsAgree' /\ ~ pend'.is /\ at' = "idle"
<1>1. DriveOK'
  BY DEF Restart, FeedInv, TypeOK, DriveOK, Look, drive, Unserved, NoTree, NoPend
<1>2. RoundOK'
  BY DEF Restart, FeedInv, TypeOK, RoundOK, Points, Unserved, NoTree, NoPend, EndRound
<1>3. MemoryOK'
  BY FeedAssumption DEF Restart, FeedInv, TypeOK, MemoryOK, Cursors, Issued, Unserved, NoTree,
     NoPend, EndRound
<1>4. ASSUME missed' \in [File -> Reasons] PROVE PassOK'
  <2>1. troubles' \in Nat
    BY DEF Restart, Trouble, FeedInv, TypeOK, PassOK
  <2> QED BY <1>4, <2>1 DEF Restart, FeedInv, TypeOK, PassOK
<1>5. DeletedIsGood'
  BY DEF Restart, FeedInv, DeletedIsGood, drive
<1>6. CursorsAgree'
  BY FeedAssumption DEF Restart, FeedInv, CursorsAgree, Issued, Unserved, NoPend
<1>7. ~ pend'.is /\ at' = "idle"
  BY DEF Restart, NoPend
<1> QED BY <1>1, <1>2, <1>3, <1>4, <1>5, <1>6, <1>7

LEMMA LoseTreeKeeps == ASSUME FeedInv, LoseTree PROVE FeedInv'
<1>1. DiskOK'
  BY DEF LoseTree, FeedInv, TypeOK, DiskOK, NoTree
<1>2. missed' \in [File -> Reasons]
  BY DEF LoseTree, FeedInv, TypeOK, PassOK, Reasons
<1>3. Ordered' /\ Staged' /\ TreesSound'
  BY RestartKeeps DEF LoseTree, Restart, FeedInv, Ordered, Staged, TreesSound, Fetching, drive
<1>4. \A f \in File : ~ Expected(f)'
  BY DEF LoseTree, Restart, Expected, FeedInv, TypeOK, PassOK
<1>5. Recorded'
  BY <1>4, RestartKeeps DEF LoseTree, Recorded, Fetching
<1> QED BY <1>1, <1>2, <1>3, <1>5, RestartKeeps DEF LoseTree, FeedInv, TypeOK

LEMMA CrashKeeps == ASSUME FeedInv, Crash PROVE FeedInv'
<1>1. DiskOK'
  BY DEF Crash, FeedInv, TypeOK, DiskOK, disk, NoTree
<1>2. missed' \in [File -> Reasons]
  BY DEF Crash, FeedInv, TypeOK, PassOK, Reasons, Unrecorded
<1>3. Ordered' /\ Staged' /\ TreesSound'
  BY RestartKeeps DEF Crash, Restart, FeedInv, Ordered, Staged, TreesSound, Sound, Fetching, drive,
     disk
<1>4. \A f \in File : Expected(f)' => tree[f] # 0
  BY DEF Crash, Restart, Expected, Unrecorded, FeedInv, TypeOK, PassOK
<1>5. Recorded'
  BY <1>4, RestartKeeps DEF Crash, Recorded, Fetching, disk
<1> QED BY <1>1, <1>2, <1>3, <1>5, RestartKeeps DEF Crash, FeedInv, TypeOK

LEMMA DriveKeeps == ASSUME FeedInv, NEW f \in File, NEW v \in Nat, NEW l \in Look, v = 0 => l = "good",
           Drive(f, v, l)
    PROVE FeedInv'
<1>1. DriveOK'
  BY DEF Drive, FeedInv, TypeOK, DriveOK, Look
<1>2. DiskOK'
  BY DEF Drive, FeedInv, TypeOK, DiskOK, disk
<1>3. RoundOK'
  BY DEF Drive, FeedInv, TypeOK, RoundOK, Points, round
<1>4. MemoryOK'
  BY FeedAssumption DEF Drive, FeedInv, TypeOK, MemoryOK, Cursors, Issued, disk, round, memory
<1>5. PassOK'
  BY DEF Drive, FeedInv, TypeOK, PassOK, Reasons, pass
<1>6. Ordered'
  BY FeedAssumption DEF Drive, FeedInv, Ordered, Fetching, disk, round, memory, TypeOK, DriveOK,
     DiskOK, RoundOK, MemoryOK
<1>7. DeletedIsGood'
  BY DEF Drive, FeedInv, DeletedIsGood, TypeOK, DriveOK
<1>8. Staged'
  BY DEF Drive, FeedInv, Staged, Fetching, disk, round, memory
<1>9. TreesSound'
  BY DEF Drive, FeedInv, TreesSound, Sound, Fetching, disk, round, memory, TypeOK, DriveOK, DiskOK,
     RoundOK, Ordered
<1>10. CursorsAgree'
  BY FeedAssumption DEF Drive, FeedInv, CursorsAgree, Issued, disk, memory
<1>11. Recorded'
  BY DEF Drive, FeedInv, Recorded, Fetching, Expected, disk, round, memory, pass
<1> QED BY <1>1, <1>2, <1>3, <1>4, <1>5, <1>6, <1>7, <1>8, <1>9, <1>10, <1>11 DEF FeedInv, TypeOK

LEMMA ExpireKeeps == ASSUME FeedInv, Expire PROVE FeedInv'
<1>1. DriveOK'
  BY DEF Expire, FeedInv, TypeOK, DriveOK, Look
<1>2. DiskOK'
  BY DEF Expire, FeedInv, TypeOK, DiskOK, disk
<1>3. RoundOK'
  BY DEF Expire, FeedInv, TypeOK, RoundOK, Points, round
<1>4. MemoryOK'
  BY FeedAssumption DEF Expire, FeedInv, TypeOK, MemoryOK, Cursors, Issued, disk, round, memory
<1>5. PassOK'
  BY DEF Expire, FeedInv, TypeOK, PassOK, Reasons, pass, Trouble
<1>6. Ordered'
  BY FeedAssumption DEF Expire, FeedInv, Ordered, Fetching, disk, round, memory, TypeOK, DriveOK,
     DiskOK, RoundOK, MemoryOK
<1>7. DeletedIsGood'
  BY DEF Expire, FeedInv, DeletedIsGood
<1>8. Staged'
  BY DEF Expire, FeedInv, Staged, Fetching, disk, round, memory
<1>9. TreesSound'
  BY DEF Expire, FeedInv, TreesSound, Sound, Fetching, disk, round, memory
<1>10. CursorsAgree'
  BY FeedAssumption DEF Expire, FeedInv, CursorsAgree, Issued, disk, memory
<1>11. Recorded'
  BY DEF Expire, FeedInv, Recorded, Fetching, Expected, disk, round, memory, pass
<1> QED BY <1>1, <1>2, <1>3, <1>4, <1>5, <1>6, <1>7, <1>8, <1>9, <1>10, <1>11 DEF FeedInv, TypeOK

-----------------------------------------------------------------------------
(* The theorems.                                                           *)

LEMMA InitFeedInv == Init => FeedInv
<1> SUFFICES ASSUME Init PROVE FeedInv OBVIOUS
<1>1. DriveOK /\ DiskOK
  <2>1. cloud \in [File -> Nat] /\ touched \in [File -> Nat] /\ head \in Nat /\ floor \in Nat
    BY DEF Init, NeverSynced, SyncedOnce
  <2>2. look \in [File -> Look]
    BY DEF Init, Look
  <2>3. DiskOK
    <3>1. CASE NeverSynced
      BY <3>1 DEF NeverSynced, DiskOK, NoTree
    <3>2. CASE SyncedOnce
      BY <2>1, <3>2 DEF SyncedOnce, DiskOK
    <3> QED BY <3>1, <3>2 DEF Init
  <2> QED BY <2>1, <2>2, <2>3 DEF DriveOK
<1>2. RoundOK /\ PassOK
  BY <1>1 DEF Init, NeverSynced, SyncedOnce, RoundOK, PassOK, Points, Reasons, NoTree, DriveOK
<1>3. MemoryOK
  BY DEF Init, MemoryOK, Cursors, NoTree, NoPend, Unserved
<1>4. Ordered /\ DeletedIsGood /\ Staged
  BY DEF Init, NeverSynced, SyncedOnce, Ordered, Fetching, DeletedIsGood, Staged, NoPend
<1>5. TreesSound /\ CursorsAgree
  BY DEF Init, NeverSynced, SyncedOnce, TreesSound, Sound, Fetching, CursorsAgree, NoPend, Unserved
<1>6. Recorded
  BY DEF Init, NeverSynced, SyncedOnce, NoTree, Fetching, Recorded, Expected, NoPend
<1> QED BY <1>1, <1>2, <1>3, <1>4, <1>5, <1>6 DEF FeedInv, TypeOK

LEMMA DriveChangeKeeps == ASSUME FeedInv, NEW f \in File, DriveChange(f) PROVE FeedInv'
<1>1. head + 2 \in Nat /\ cloud[f] \in Nat
  BY DEF FeedInv, TypeOK, DriveOK
<1>2. CASE Drive(f, head + 2, "good")
  BY <1>1, <1>2, DriveKeeps DEF Look
<1>3. CASE Drive(f, 0, "good")
  BY <1>3, DriveKeeps DEF Look
<1>4. ASSUME NEW l \in {"deferred", "refused"}, cloud[f] # 0, Drive(f, cloud[f], l)
      PROVE  FeedInv'
  BY <1>1, <1>4, DriveKeeps DEF Look
<1> QED BY <1>2, <1>3, <1>4 DEF DriveChange

LEMMA FeedStep == FeedInv /\ [Next]_vars => FeedInv'
<1> SUFFICES ASSUME FeedInv, [Next]_vars PROVE FeedInv' OBVIOUS
<1>1. CASE UNCHANGED vars
  <2>1. TypeOK'
    BY <1>1 DEF FeedInv, TypeOK, DriveOK, DiskOK, RoundOK, MemoryOK, PassOK, vars, drive, disk,
       round, memory, pass
  <2>2. Ordered' /\ DeletedIsGood' /\ Staged' /\ TreesSound'
    BY <1>1 DEF FeedInv, Ordered, DeletedIsGood, Staged, TreesSound, Sound, Fetching, vars, drive,
       disk, round, memory
  <2>3. CursorsAgree' /\ Recorded'
    BY <1>1 DEF FeedInv, CursorsAgree, Recorded, Expected, Fetching, vars, disk, round, memory, pass
  <2> QED BY <2>1, <2>2, <2>3 DEF FeedInv
<1>2. CASE Thread
  <2>1. CASE \E S \in SUBSET File : Page(S)
    BY <2>1, PageKeeps
  <2>2. CASE \E f \in File : PassRemove(f) \/ PassPlace(f)
    BY <2>2, PassRemoveKeeps, PassPlaceKeeps
  <2>3. CASE Ask \/ ServeAgain \/ SaveTree \/ SaveToken \/ Begin
    BY <2>3, AskKeeps, ServeAgainKeeps, SaveTreeKeeps, SaveTokenKeeps, BeginKeeps
  <2>4. CASE Withhold \/ Finish \/ Accept
    BY <2>4, WithholdKeeps, FinishKeeps, AcceptKeeps
  <2> QED BY <1>2, <2>1, <2>2, <2>3, <2>4 DEF Thread
<1>3. CASE \E f \in File : DriveChange(f)
  BY <1>3, DriveChangeKeeps
<1>4. CASE Expire \/ SaveFails \/ FetchFails \/ PassStops \/ Crash \/ LoseTree
  BY <1>4, ExpireKeeps, SaveFailsKeeps, FetchFailsKeeps, PassStopsKeeps, CrashKeeps, LoseTreeKeeps
<1> QED BY <1>1, <1>2, <1>3, <1>4 DEF Next

\* GraphDiscover::commit writes the tree before the token, Round::finish gives up a round that could
\* not place everything, and Attempt starts from both files or from neither (lib.rs:1954-2111):
\* whenever the token is read, the tree beside it has all the drive did up to its position, so
\* that a resumed round misses nothing.
THEOREM Feed == Spec => []TokenNotAhead
<1>1. FeedInv => TokenNotAhead
  BY DEF FeedInv, TreesSound, Sound, TokenNotAhead, Usable
<1> QED BY <1>1, InitFeedInv, FeedStep, PTL DEF Spec

\* A file the folder has and the drive has not, and no reason is named why, is still in a tree
\* that a later round compares with (GraphDiscover::changes, commit and Round::finish, and the
\* daemon's cursor that moves past a pass only when all of it was applied): the deletion is
\* reported again until it has arrived.
THEOREM Deletions_arrive == Spec => []NoGhost
<1>1. ASSUME FeedInv, NEW f \in File, local[f] # 0, cloud[f] = 0, missed[f] = "no"
      PROVE  \/ tree[f] # 0 /\ (~ Usable \/ touched[f] > token)
             \/ pend.is /\ pend.tree[f] # 0 /\ touched[f] > pend.tok
  <2>1. look[f] # "deferred" /\ Expected(f)
    BY <1>1 DEF FeedInv, DeletedIsGood, Expected
  <2>2. touched[f] \in Nat /\ (Usable => token \in Nat) /\ (pend.is => pend.tok \in Nat)
    BY <1>1 DEF FeedInv, TypeOK, DriveOK, DiskOK, Ordered, Usable
  <2>3. tree[f] # 0 => ~ Usable \/ touched[f] > token
    BY <1>1, <2>1, <2>2 DEF FeedInv, TreesSound, Sound, Usable
  <2>4. pend.is /\ pend.tree[f] # 0 => touched[f] > pend.tok
    BY <1>1, <2>1, <2>2 DEF FeedInv, TreesSound, Sound
  <2> QED BY <1>1, <2>1, <2>3, <2>4 DEF FeedInv, Recorded
<1>2. FeedInv => NoGhost
  BY <1>1 DEF NoGhost
<1> QED BY <1>2, InitFeedInv, FeedStep, PTL DEF Spec

-----------------------------------------------------------------------------
(* Fetches: the inductive invariant.                                       *)

Window == Object \X Nat \X Nat
Job    == Object \X Nat \X Nat \X Nat
Block  == Nat \X Nat

\* The parts of the fetch, and of the ledger with the pool.
FetchOK ==
    /\ version \in [Object -> 1 .. MaxVersion]
    /\ pc \in {"idle", "meta", "take", "waiting", "copy", "closing"}
    /\ ask \in [o : Object \cup {None}, from : Nat, len : Nat, tag : Tag, expect : 0 .. MaxVersion]
    /\ got \in Seq(Block) /\ Len(got) <= ask.len
    /\ retries \in 0 .. MaxRetries /\ slept \in 0 .. Budget - 1
    /\ sum \in {0, ask.expect} /\ outcome \in {"none", "ok", "failed"}
    /\ remembered \subseteq Object /\ calls \in 0 .. MaxCalls

PoolOK ==
    /\ inflight \in SUBSET Window /\ IsFiniteSet(inflight)
    /\ done \in SUBSET (Window \X Nat) /\ IsFiniteSet(done)
    /\ \A d \in done : d[1] \notin inflight /\ \A e \in done : d[1] = e[1] => d = e
    /\ Cardinality(inflight) + Cardinality(done) <= Depth + 2
    /\ queue \in Seq(Job) /\ job \in [Worker -> Job \cup {NoJob}] /\ since \in [Worker -> Nat]
    /\ \A w \in Worker : job[w] = NoJob <=> since[w] = 0

\* What a fetch was asked for is there, and it has not ended.
Asked ==
    pc # "idle" => ask.o \in Object /\ ask.expect \in 1 .. version[ask.o] /\ outcome = "none"

\* What the arms of fetch begin with.
Arms ==
    /\ pc = "meta" => WholeAsked /\ ask.tag = "ct"
    /\ pc \in {"take", "waiting"} => ~ WholeAsked
    /\ pc \in {"meta", "take", "waiting"} => got = <<>> /\ sum = 0
    /\ pc = "closing" => WholeAsked /\ ask.tag = "ct" /\ Len(got) = ask.len
    /\ pc = "copy" /\ WholeAsked /\ ask.tag = "qx" => sum = ask.expect

\* What has been written follows on from the first block asked for; and where the version was
\* read first, nothing of it is of an older one.
Written ==
    /\ pc # "idle" => \A i \in DOMAIN got : got[i][1] = ask.from + i - 1
    /\ pc \in {"copy", "closing"} /\ WholeAsked /\ ask.tag = "ct" =>
          \A i \in DOMAIN got : got[i][2] \in ask.expect .. version[ask.o]

Exact(bytes) ==
    /\ Len(bytes) = ask.len /\ \A i \in DOMAIN bytes : bytes[i][1] = ask.from + i - 1
    /\ WholeAsked /\ ask.tag # "none" => \A i \in DOMAIN bytes : bytes[i][2] = ask.expect

Delivered == outcome = "ok" => Exact(got)

\* Who waits has abandoned the windows of all other objects.
Walking == pc = "waiting" => \A k \in inflight \cup {d[1] : d \in done} : k[1] = ask.o

FetchInv   == FetchOK /\ Asked /\ Arms /\ Written /\ Delivered
ContentInv == FetchInv /\ PoolOK /\ LedgerIsOfTheWalk /\ Walking

-----------------------------------------------------------------------------
(* Numbers in their order.                                                 *)

Rank(S, i) == Cardinality({j \in S : j <= i})

LEMMA RankGrows ==
    ASSUME NEW S \in SUBSET Nat, IsFiniteSet(S), NEW i \in S
    PROVE  /\ Rank(S, i) \in 1 .. Cardinality(S)
           /\ Rank(S, i) = Cardinality({j \in S : j < i}) + 1
           /\ \A k \in S : i < k => Rank(S, i) < Rank(S, k)
<1> DEFINE Upto(k) == {j \in S : j <= k}
<1>0. \A j \in S : j \in Nat OBVIOUS
<1>1. \A k \in S : IsFiniteSet(Upto(k)) /\ Cardinality(Upto(k)) \in Nat
                   /\ Cardinality(Upto(k)) <= Cardinality(S)
  <2> TAKE k \in S
  <2>1. Upto(k) \in SUBSET S OBVIOUS
  <2> QED BY <2>1, FS_Subset, FS_CardinalityType
<1>2. Cardinality(S) \in Nat
  BY FS_CardinalityType
<1>3. Cardinality(Upto(i)) # 0
  <2>1. i \in Upto(i)
    BY <1>0
  <2> QED BY <1>1, <2>1, FS_EmptySet
<1>4. Rank(S, i) = Cardinality({j \in S : j < i}) + 1
  <2>1. {j \in S : j < i} \in SUBSET S /\ i \notin {j \in S : j < i}
    BY <1>0
  <2>2. Upto(i) = {j \in S : j < i} \cup {i}
    <3>1. \A j \in S : j <= i <=> j < i \/ j = i
      BY <1>0
    <3> QED BY <3>1
  <2>3. IsFiniteSet({j \in S : j < i})
    BY <2>1, FS_Subset
  <2> QED BY <2>1, <2>2, <2>3, FS_AddElement DEF Rank
<1>5. ASSUME NEW k \in S, i < k PROVE Rank(S, i) < Rank(S, k)
  <2>1. Upto(i) \in SUBSET Upto(k) /\ k \in Upto(k) /\ k \notin Upto(i)
    <3>1. i \in Nat /\ k \in Nat /\ i < k
      BY <1>0, <1>5
    <3>2. \A j \in S : j <= i => j <= k
      BY <1>0, <3>1
    <3>3. k <= k /\ ~ (k <= i)
      BY <3>1
    <3> QED BY <3>2, <3>3
  <2>2. Upto(k) # Upto(i)
    BY <2>1
  <2>3. Cardinality(Upto(i)) <= Cardinality(Upto(k)) /\ Cardinality(Upto(i)) # Cardinality(Upto(k))
    BY <1>1, <2>1, <2>2, FS_Subset
  <2> QED BY <1>1, <2>3 DEF Rank
<1> QED BY <1>1, <1>2, <1>3, <1>4, <1>5 DEF Rank

\* As many ranks as numbers: each is somebody's, and nobody shares his.
LEMMA RankHits ==
    ASSUME NEW S \in SUBSET Nat, IsFiniteSet(S)
    PROVE  /\ \A i, k \in S : Rank(S, i) = Rank(S, k) => i = k
           /\ \A n \in 1 .. Cardinality(S) : \E i \in S : Rank(S, i) = n
<1> DEFINE rank == [i \in S |-> Rank(S, i)]
<1>1. \A i \in S : Rank(S, i) \in 1 .. Cardinality(S)
  BY RankGrows
<1>2. \A i, k \in S : Rank(S, i) = Rank(S, k) => i = k
  <2> SUFFICES ASSUME NEW i \in S, NEW k \in S, Rank(S, i) = Rank(S, k) PROVE i = k
    OBVIOUS
  <2>1. Rank(S, i) \in Nat /\ Rank(S, k) \in Nat
    BY <1>1
  <2>2. ~ (i < k)
    <3>1. i < k => Rank(S, i) < Rank(S, k)
      BY RankGrows
    <3> QED BY <2>1, <3>1
  <2>3. ~ (k < i)
    <3>1. k < i => Rank(S, k) < Rank(S, i)
      BY RankGrows
    <3> QED BY <2>1, <3>1
  <2>4. i \in Nat /\ k \in Nat OBVIOUS
  <2> QED BY <2>2, <2>3, <2>4
<1>3. Cardinality(S) \in Nat
  BY FS_CardinalityType
<1>4. IsFiniteSet(1 .. Cardinality(S)) /\ Cardinality(1 .. Cardinality(S)) = Cardinality(S)
  BY <1>3, FS_Interval
<1>5. rank \in Injection(S, 1 .. Cardinality(S))
  BY <1>1, <1>2 DEF Injection, IsInjective
<1>6. rank \in Surjection(S, 1 .. Cardinality(S))
  BY <1>4, <1>5, FS_Injection
<1> QED BY <1>2, <1>6 DEF Surjection

\* InOrder lists what f has for S, and leaves nothing of it out.
LEMMA InOrderLists ==
    ASSUME NEW S \in SUBSET Nat, IsFiniteSet(S), NEW f, NEW T, \A i \in S : f[i] \in T
    PROVE  /\ InOrder(f, S) \in Seq(T) /\ Len(InOrder(f, S)) = Cardinality(S)
           /\ \A i \in S : \E n \in 1 .. Cardinality(S) : InOrder(f, S)[n] = f[i]
<1> DEFINE nth(n) == CHOOSE i \in S : Rank(S, i) = n
<1>1. InOrder(f, S) = [n \in 1 .. Cardinality(S) |-> f[nth(n)]]
  BY DEF InOrder, Rank
<1>2. Cardinality(S) \in Nat
  BY FS_CardinalityType
<1>3. \A n \in 1 .. Cardinality(S) : nth(n) \in S /\ Rank(S, nth(n)) = n
  BY RankHits
<1>4. \A i \in S : Rank(S, i) \in 1 .. Cardinality(S) /\ nth(Rank(S, i)) = i
  BY <1>3, RankHits, RankGrows
<1> HIDE DEF nth
<1>5. InOrder(f, S) \in [1 .. Cardinality(S) -> T]
  BY <1>1, <1>3
<1>6. Len(InOrder(f, S)) = Cardinality(S)
  BY <1>1, <1>2
<1> QED BY <1>1, <1>2, <1>4, <1>5, <1>6

\* The first so many of a set of numbers are no more than that.
LEMMA FirstOnes ==
    ASSUME NEW S \in SUBSET Nat, IsFiniteSet(S), NEW room \in Nat
    PROVE  LET first == {i \in S : Cardinality({j \in S : j < i}) < room}
           IN  IsFiniteSet(first) /\ Cardinality(first) <= room
<1> DEFINE first == {i \in S : Cardinality({j \in S : j < i}) < room}
           rank == [i \in first |-> Rank(S, i)]
<1>1. \A i \in first : Rank(S, i) \in 1 .. room
  <2> TAKE i \in first
  <2>1. i \in S /\ Cardinality({j \in S : j < i}) < room OBVIOUS
  <2>2. Rank(S, i) \in 1 .. Cardinality(S) /\ Rank(S, i) = Cardinality({j \in S : j < i}) + 1
    BY <2>1, RankGrows
  <2>3. {j \in S : j < i} \in SUBSET S OBVIOUS
  <2>4. Cardinality({j \in S : j < i}) \in Nat
    BY <2>3, FS_Subset, FS_CardinalityType
  <2> QED BY <2>1, <2>2, <2>4, FS_CardinalityType
<1>2. rank \in Injection(first, 1 .. room)
  BY <1>1, RankHits DEF Injection, IsInjective
<1>3. IsFiniteSet(1 .. room) /\ Cardinality(1 .. room) = room
  BY FS_Interval
<1> QED BY <1>2, <1>3, FS_Injection

-----------------------------------------------------------------------------
(* The fetch.                                                              *)

LEMMA Sizes == ASSUME NEW v PROVE SizeOf(v) \in Nat \ {0}
BY ContentAssumption DEF SizeOf

\* A fetch ends with what is exact, or with a failure.
LEMMA EndKeeps ==
    ASSUME FetchInv, NEW how \in {"ok", "failed"}, End(how), UNCHANGED <<version, ask, calls>>,
           got' \in Seq(Block), Len(got') <= ask.len, remembered' \subseteq Object,
           how = "ok" => Exact(got')
    PROVE  FetchInv'
<1>1. pc' = "idle" /\ outcome' = how /\ retries' = 0 /\ slept' = 0 /\ sum' = 0
  BY DEF End
<1>2. FetchOK'
  BY <1>1, ContentAssumption DEF FetchInv, FetchOK
<1>3. Asked' /\ Arms' /\ Written'
  BY <1>1 DEF Asked, Arms, Written
<1>4. Delivered'
  BY <1>1 DEF Delivered, Exact, WholeAsked, Total
<1> QED BY <1>2, <1>3, <1>4 DEF FetchInv

\* The fetch goes on where it is, with more of it written or as much.
LEMMA AgainKeeps ==
    ASSUME FetchInv, pc = "copy", NEW wait \in Nat, Again(wait), UNCHANGED <<version, ask, calls>>,
           got' \in Seq(Block), Len(got') <= ask.len, remembered' \subseteq Object, Written'
    PROVE  FetchInv'
<1>1. CASE MayRetry(wait)
  <2>1. retries' = retries + 1 /\ slept' = slept + wait /\ UNCHANGED <<pc, sum, outcome>>
        /\ retries < MaxRetries /\ slept + wait < Budget
    BY <1>1 DEF Again, MayRetry
  <2>2. FetchOK'
    BY <2>1, ContentAssumption DEF FetchInv, FetchOK
  <2>3. Asked'
    BY <2>1 DEF FetchInv, Asked
  <2>4. Arms'
    BY <2>1 DEF FetchInv, Arms, WholeAsked, Total
  <2>5. Delivered'
    BY <2>1 DEF FetchInv, Asked, Delivered
  <2> QED BY <2>2, <2>3, <2>4, <2>5 DEF FetchInv
<1>2. CASE ~ MayRetry(wait)
  BY <1>2, EndKeeps DEF Again
<1> QED BY <1>1, <1>2

\* All is written.
LEMMA CompleteKeeps ==
    ASSUME FetchInv, pc = "copy", Complete(got'), UNCHANGED <<version, ask, calls>>,
           got' \in Seq(Block), Len(got') = ask.len, remembered' \subseteq Object,
           \A i \in DOMAIN got' : got'[i][1] = ask.from + i - 1,
           WholeAsked /\ ask.tag = "ct" =>
              \A i \in DOMAIN got' : got'[i][2] \in ask.expect .. version[ask.o]
    PROVE  FetchInv'
<1>0. ask.len \in Nat /\ ask.tag \in {"qx", "ct", "none"} /\ sum \in {0, ask.expect}
  BY DEF FetchInv, FetchOK, Tag
<1>1. CASE WholeAsked /\ ask.tag = "ct" /\ sum = 0
  <2>1. pc' = "closing" /\ UNCHANGED <<retries, slept, sum, outcome>>
    BY <1>1 DEF Complete
  <2>2. FetchOK'
    BY <1>0, <2>1 DEF FetchInv, FetchOK
  <2>3. Asked'
    BY <2>1 DEF FetchInv, Asked
  <2>4. Arms'
    BY <1>1, <2>1 DEF Arms, WholeAsked, Total
  <2>5. Written'
    BY <1>1, <2>1 DEF Written, WholeAsked, Total
  <2>6. Delivered'
    BY <2>1 DEF FetchInv, Asked, Delivered
  <2> QED BY <2>2, <2>3, <2>4, <2>5, <2>6 DEF FetchInv
<1>2. CASE ~ (WholeAsked /\ ask.tag = "ct" /\ sum = 0)
  <2> DEFINE how == IF sum = 0 \/ \A i \in DOMAIN got' : got'[i][2] = sum THEN "ok" ELSE "failed"
  <2>1. End(how)
    BY <1>2 DEF Complete
  <2>2. how \in {"ok", "failed"} OBVIOUS
  <2>3. ASSUME how = "ok", WholeAsked, ask.tag # "none"
        PROVE  \A i \in DOMAIN got' : got'[i][2] = ask.expect
    <3>1. sum # 0
      BY <1>0, <1>2, <2>3 DEF FetchInv, Arms, Asked
    <3> QED BY <1>0, <2>3, <3>1
  <2>4. how = "ok" => Exact(got')
    BY <2>3 DEF Exact
  <2> HIDE DEF how
  <2> QED BY <1>0, <2>1, <2>2, <2>4, EndKeeps
<1> QED BY <1>1, <1>2

LEMMA ChangeKeeps == ASSUME FetchInv, NEW o \in Object, Change(o) PROVE FetchInv'
<1>1. \A p \in Object : version'[p] \in 1 .. MaxVersion /\ version[p] <= version'[p]
  BY ContentAssumption DEF FetchInv, FetchOK, Change
<1>2. version' \in [Object -> 1 .. MaxVersion]
  BY <1>1 DEF FetchInv, FetchOK, Change
<1>3. UNCHANGED <<pc, ask, got, retries, slept, sum, outcome, last, remembered, calls>>
  BY DEF Change, reader
<1>4. FetchOK'
  BY <1>2, <1>3 DEF FetchInv, FetchOK
<1>5. \A p \in Object : version[p] \in Int /\ version'[p] \in Int
  BY <1>1 DEF FetchInv, FetchOK
<1>6. Asked'
  BY <1>1, <1>3, <1>5 DEF FetchInv, Asked
<1>7. Arms' /\ Delivered'
  BY <1>3 DEF FetchInv, Arms, Delivered, Exact, WholeAsked, Total
<1>8. Written'
  <2>1. pc # "idle" => \A v : v \in ask.expect .. version[ask.o] => v \in ask.expect .. version'[ask.o]
    BY <1>1, <1>5 DEF FetchInv, Asked, FetchOK
  <2> QED BY <1>3, <2>1 DEF FetchInv, Written, WholeAsked, Total
<1> QED BY <1>4, <1>6, <1>7, <1>8 DEF FetchInv

\* A window or the whole is part of the object.
LEMMA Spans ==
    ASSUME NEW size \in Nat, NEW w \in Span(size)
    PROVE  w[1] \in Nat /\ w[2] \in Nat /\ w = <<w[1], w[2]>>
BY ContentAssumption DEF Span

LEMMA DemandKeeps == ASSUME FetchInv, Demand PROVE FetchInv'
<1>0. PICK o \in Object, t \in Tag : \E e \in 1 .. version[o] : \E w \in Span(SizeOf(e)) :
          /\ ask' = [o |-> o, from |-> w[1], len |-> w[2], tag |-> t, expect |-> e]
          /\ IF w = <<0, SizeOf(e)>>
             THEN /\ pc' = IF t = "ct" THEN "meta" ELSE "copy"
                  /\ sum' = IF t = "qx" THEN e ELSE 0
                  /\ last' = last
             ELSE /\ pc' = IF Sequential THEN "take" ELSE "copy"
                  /\ sum' = 0 /\ last' = <<o, w[1] + w[2]>>
  BY DEF Demand
<1>1. PICK e \in 1 .. version[o] : \E w \in Span(SizeOf(e)) :
          /\ ask' = [o |-> o, from |-> w[1], len |-> w[2], tag |-> t, expect |-> e]
          /\ IF w = <<0, SizeOf(e)>>
             THEN /\ pc' = IF t = "ct" THEN "meta" ELSE "copy"
                  /\ sum' = IF t = "qx" THEN e ELSE 0
                  /\ last' = last
             ELSE /\ pc' = IF Sequential THEN "take" ELSE "copy"
                  /\ sum' = 0 /\ last' = <<o, w[1] + w[2]>>
  BY <1>0
<1>2. PICK w \in Span(SizeOf(e)) :
          /\ ask' = [o |-> o, from |-> w[1], len |-> w[2], tag |-> t, expect |-> e]
          /\ IF w = <<0, SizeOf(e)>>
             THEN /\ pc' = IF t = "ct" THEN "meta" ELSE "copy"
                  /\ sum' = IF t = "qx" THEN e ELSE 0
                  /\ last' = last
             ELSE /\ pc' = IF Sequential THEN "take" ELSE "copy"
                  /\ sum' = 0 /\ last' = <<o, w[1] + w[2]>>
  BY <1>1
<1>3. w[1] \in Nat /\ w[2] \in Nat /\ w = <<w[1], w[2]>>
  BY Spans, Sizes
<1>4. calls' \in 0 .. MaxCalls /\ got' = <<>> /\ retries' = 0 /\ slept' = 0 /\ outcome' = "none"
      /\ version' = version /\ remembered' = remembered
  BY ContentAssumption DEF Demand, FetchInv, FetchOK
<1>5. e \in 1 .. version[o] /\ e \in 0 .. MaxVersion
  <2>1. version[o] \in 1 .. MaxVersion
    BY DEF FetchInv, FetchOK
  <2> QED BY <2>1, ContentAssumption
<1>6. WholeAsked' <=> w = <<0, SizeOf(e)>>
  BY <1>2, <1>3 DEF WholeAsked, Total
<1>7. FetchOK'
  <2>1. ask' \in [o : Object \cup {None}, from : Nat, len : Nat, tag : Tag, expect : 0 .. MaxVersion]
    BY <1>2, <1>3, <1>5
  <2>2. got' \in Seq(Block) /\ Len(got') = 0 /\ ask'.len \in Nat
    BY <1>4, <2>1, EmptySeq
  <2>3. sum' \in {0, ask'.expect} /\ pc' \in {"meta", "copy", "take"}
    BY <1>2
  <2>4. retries' \in 0 .. MaxRetries /\ slept' \in 0 .. Budget - 1
    BY <1>4, ContentAssumption
  <2> QED BY <1>4, <2>1, <2>2, <2>3, <2>4 DEF FetchInv, FetchOK
<1>8. Asked'
  BY <1>2, <1>4, <1>5 DEF Asked
<1>9. Arms'
  BY <1>2, <1>4, <1>6 DEF Arms
<1>10. Written' /\ Delivered'
  BY <1>2, <1>4 DEF Written, Delivered
<1> QED BY <1>7, <1>8, <1>9, <1>10 DEF FetchInv

LEMMA MetaKeeps == ASSUME FetchInv, Meta PROVE FetchInv'
<1>1. UNCHANGED <<version, ask, got, remembered, calls>> /\ pc = "meta"
  BY DEF Meta
<1>2. got' \in Seq(Block) /\ Len(got') <= ask.len /\ remembered' \subseteq Object
  BY <1>1 DEF FetchInv, FetchOK
<1>3. CASE End("failed")
  BY <1>1, <1>2, <1>3, EndKeeps
<1>4. CASE /\ version[ask.o] = ask.expect /\ pc' = "copy"
           /\ sum' = IF ask.o \in Hashed THEN ask.expect ELSE 0
           /\ UNCHANGED <<retries, slept, outcome>>
  <2>1. FetchOK'
    BY <1>1, <1>4 DEF FetchInv, FetchOK
  <2>2. Asked'
    BY <1>1, <1>4 DEF FetchInv, Asked
  <2>3. got' = <<>> /\ ask.tag = "ct"
    BY <1>1 DEF FetchInv, Arms
  <2>4. Arms'
    BY <1>1, <1>4, <2>3 DEF Arms, WholeAsked, Total
  <2>5. Written'
    BY <2>3 DEF Written
  <2>6. Delivered'
    BY <1>1, <1>4 DEF FetchInv, Asked, Delivered
  <2> QED BY <2>1, <2>2, <2>4, <2>5, <2>6 DEF FetchInv
<1> QED BY <1>3, <1>4 DEF Meta

\* The window is served as it was asked for, or it is copied after all.
LEMMA LeaveKeeps ==
    ASSUME FetchInv, PoolOK, pc \in {"take", "waiting"}, NEW fly, NEW kept \in SUBSET done, Leave(fly, kept)
    PROVE  FetchInv'
<1>1. UNCHANGED <<version, ask, remembered, calls>>
  BY DEF Leave
<1>2. got = <<>> /\ sum = 0 /\ ~ WholeAsked /\ outcome = "none" /\ ask.o \in Object
      /\ ask.len \in Nat /\ ask.from \in Nat /\ remembered \subseteq Object
  BY DEF FetchInv, FetchOK, Asked, Arms
<1> DEFINE here == {d \in kept : d[1] = Key}
<1>3. CASE \E d \in here : d[2] # 0 /\ got' = [i \in 1 .. ask.len |-> <<ask.from + i - 1, d[2]>>]
              /\ End("ok")
  <2>1. PICK d \in here : got' = [i \in 1 .. ask.len |-> <<ask.from + i - 1, d[2]>>] /\ End("ok")
    BY <1>3
  <2>2. d[2] \in Nat
    BY DEF PoolOK
  <2>3. got' \in Seq(Block) /\ Len(got') = ask.len /\ \A i \in DOMAIN got' : got'[i][1] = ask.from + i - 1
    <3>1. \A i \in 1 .. ask.len : ask.from + i - 1 \in Nat
      BY <1>2
    <3> DEFINE window == [i \in 1 .. ask.len |-> <<ask.from + i - 1, d[2]>>]
    <3>2. window \in [1 .. ask.len -> Block]
      BY <2>2, <3>1 DEF Block
    <3>3. window \in Seq(Block) /\ DOMAIN window = 1 .. ask.len
          /\ \A i \in 1 .. ask.len : window[i][1] = ask.from + i - 1
      <4>1. ask.len \in Nat
        BY <1>2
      <4>2. window \in Seq(Block)
        <5> HIDE DEF window
        <5> QED BY <3>2, <4>1
      <4>3. \A i \in 1 .. ask.len : window[i] = <<ask.from + i - 1, d[2]>>
        OBVIOUS
      <4> QED BY <4>2, <4>3
    <3>5. Len(window) = ask.len
      BY <1>2, <3>3, LenProperties
    <3> HIDE DEF window
    <3>4. got' = window
      BY <2>1 DEF window
    <3> QED BY <3>3, <3>4, <3>5
  <2>4. Exact(got')
    BY <1>2, <2>3 DEF Exact
  <2> QED BY <1>1, <1>2, <2>1, <2>3, <2>4, EndKeeps
<1>4. CASE got' = got /\ End("failed")
  <2>1. got' \in Seq(Block) /\ Len(got') <= ask.len
    BY <1>4 DEF FetchInv, FetchOK
  <2> QED BY <1>1, <1>2, <1>4, <2>1, EndKeeps
<1>5. CASE pc' = "copy" /\ UNCHANGED <<got, retries, slept, sum, outcome>>
  <2>1. FetchOK'
    BY <1>1, <1>5 DEF FetchInv, FetchOK
  <2>2. Asked'
    BY <1>1, <1>5 DEF FetchInv, Asked
  <2>3. Arms'
    BY <1>1, <1>2, <1>5 DEF Arms, WholeAsked, Total
  <2>4. Written' /\ Delivered'
    BY <1>2, <1>5 DEF Written, Delivered
  <2> QED BY <2>1, <2>2, <2>3, <2>4 DEF FetchInv
<1> QED BY <1>3, <1>4, <1>5 DEF Leave

LEMMA TakeKeeps == ASSUME FetchInv, PoolOK, Take \/ Woken \/ Impatient PROVE FetchInv'
<1>1. Abandon(ask.o).held \in SUBSET done
  BY DEF Abandon
<1>2. CASE Take /\ Key \in Abandon(ask.o).fly
  <2>1. pc' = "waiting" /\ UNCHANGED <<version, ask, got, retries, slept, sum, outcome, remembered, calls>>
        /\ pc = "take"
    BY <1>2 DEF Take
  <2>2. FetchOK'
    BY <2>1 DEF FetchInv, FetchOK
  <2>3. Asked' /\ Arms' /\ Delivered'
    BY <2>1 DEF FetchInv, Asked, Arms, Delivered, Exact, WholeAsked, Total
  <2>4. Written'
    BY <2>1 DEF FetchInv, Arms, Written
  <2> QED BY <2>2, <2>3, <2>4 DEF FetchInv
<1>3. CASE Take /\ Key \notin Abandon(ask.o).fly
  <2>1. pc = "take" /\ Leave(Abandon(ask.o).fly, Abandon(ask.o).held)
    BY <1>3 DEF Take
  <2> QED BY <1>1, <2>1, LeaveKeeps
<1>4. CASE Woken \/ Impatient
  <2>1. pc = "waiting" /\ Leave(inflight, done)
    BY <1>4 DEF Woken, Impatient
  <2> QED BY <2>1, LeaveKeeps
<1> QED BY <1>2, <1>3, <1>4

LEMMA ForgetKeeps == ASSUME FetchInv, Forget PROVE FetchInv'
<1>1. UNCHANGED <<version, pc, ask, got, retries, slept, sum, outcome, calls>>
      /\ remembered' \subseteq Object
  BY DEF Forget, FetchInv, FetchOK
<1> QED BY <1>1 DEF FetchInv, FetchOK, Asked, Arms, Written, Delivered, Exact, WholeAsked, Total

LEMMA LearnOK == ASSUME FetchInv, pc = "copy", Learn PROVE remembered' \subseteq Object
BY DEF FetchInv, FetchOK, Asked, Learn

LEMMA RefusedKeeps == ASSUME FetchInv, Throttled \/ Refused PROVE FetchInv'
<1>1. UNCHANGED <<version, ask, got, calls>> /\ pc = "copy"
  BY DEF Throttled, Refused
<1>2. remembered' \subseteq Object
  BY <1>1, LearnOK DEF Throttled, Refused, FetchInv, FetchOK
<1>3. got' \in Seq(Block) /\ Len(got') <= ask.len
  BY <1>1 DEF FetchInv, FetchOK
<1>4. CASE Refused
  BY <1>1, <1>2, <1>3, <1>4, EndKeeps DEF Refused
<1>5. CASE Throttled
  <2>1. PICK wait \in 0 .. Budget : Again(wait)
    BY <1>5 DEF Throttled
  <2>2. Written' \/ pc' = "idle"
    BY <1>1, <2>1 DEF Again, End, FetchInv, Written, WholeAsked, Total
  <2>3. Written'
    BY <2>2 DEF Written
  <2>4. wait \in Nat
    BY ContentAssumption
  <2> QED BY <1>1, <1>2, <1>3, <2>1, <2>3, <2>4, AgainKeeps
<1> QED BY <1>4, <1>5

\* Whatever the answer, what is written of it follows on.
LEMMA Appended ==
    ASSUME FetchInv, pc = "copy", NEW a, a = ask.from + Len(got), NEW n \in Nat,
           n <= ask.len - Len(got),
           got' = got \o [i \in 1 .. n |-> <<a + i - 1, version[ask.o]>>]
    PROVE  /\ got' \in Seq(Block) /\ Len(got') = Len(got) + n /\ Len(got') <= ask.len
           /\ \A i \in DOMAIN got' : got'[i][1] = ask.from + i - 1
           /\ WholeAsked /\ ask.tag = "ct" =>
                 \A i \in DOMAIN got' : got'[i][2] \in ask.expect .. version[ask.o]
<1> DEFINE new == [i \in 1 .. n |-> <<a + i - 1, version[ask.o]>>]
<1>1. ask.from \in Nat /\ ask.len \in Nat /\ got \in Seq(Block) /\ Len(got) \in Nat
      /\ ask.o \in Object /\ version[ask.o] \in Nat /\ ask.expect \in 1 .. version[ask.o]
  BY DEF FetchInv, FetchOK, Asked
<1>2. \A i \in 1 .. n : a + i - 1 \in Nat
  BY <1>1
<1>3. new \in [1 .. n -> Block]
  BY <1>1, <1>2 DEF Block
<1>4. new \in Seq(Block) /\ Len(new) = n
  BY <1>3
<1>5. \A i \in 1 .. n : new[i] = <<a + i - 1, version[ask.o]>>
  OBVIOUS
<1> HIDE DEF new
<1>6. got' = got \o new
  BY DEF new
<1>7. /\ got' \in Seq(Block) /\ Len(got') = Len(got) + n
      /\ \A i \in 1 .. Len(got) + n : got'[i] = IF i <= Len(got) THEN got[i] ELSE new[i - Len(got)]
  <2>1. /\ got \o new \in Seq(Block) /\ Len(got \o new) = Len(got) + Len(new)
        /\ \A i \in 1 .. Len(got) + Len(new) :
              (got \o new)[i] = IF i <= Len(got) THEN got[i] ELSE new[i - Len(got)]
    BY <1>1, <1>4, ConcatProperties
  <2> QED BY <1>4, <1>6, <2>1
<1>8. DOMAIN got' = 1 .. Len(got) + n
  BY <1>7, LenProperties
<1>9. \A i \in 1 .. Len(got) : got'[i] = got[i] /\ got'[i][1] = ask.from + i - 1
  BY <1>1, <1>7 DEF FetchInv, Written
<1>10. \A i \in Len(got) + 1 .. Len(got) + n :
          got'[i][1] = ask.from + i - 1 /\ got'[i][2] = version[ask.o]
  <2> TAKE i \in Len(got) + 1 .. Len(got) + n
  <2>1. i - Len(got) \in 1 .. n /\ i \in 1 .. Len(got) + n /\ ~ (i <= Len(got))
    BY <1>1
  <2>2. got'[i] = <<a + (i - Len(got)) - 1, version[ask.o]>>
    BY <1>5, <1>7, <2>1
  <2>3. a + (i - Len(got)) - 1 = ask.from + i - 1
    <3>1. \A f, l, j \in Int : (f + l) + (j - l) - 1 = f + j - 1
      OBVIOUS
    <3>2. ask.from \in Int /\ Len(got) \in Int /\ i \in Int
      BY <1>1
    <3> QED BY <3>1, <3>2
  <2> QED BY <2>2, <2>3
<1>11. \A i \in DOMAIN got' : i \in 1 .. Len(got) \/ i \in Len(got) + 1 .. Len(got) + n
  BY <1>1, <1>8
<1>12. ASSUME WholeAsked, ask.tag = "ct", NEW i \in DOMAIN got'
       PROVE  got'[i][2] \in ask.expect .. version[ask.o]
  <2>1. CASE i \in 1 .. Len(got)
    <3>1. i \in DOMAIN got
      BY <1>1, <2>1, LenProperties
    <3>2. got[i][2] \in ask.expect .. version[ask.o]
      BY <1>12, <3>1 DEF FetchInv, Written
    <3> QED BY <1>9, <2>1, <3>2
  <2>2. CASE i \in Len(got) + 1 .. Len(got) + n
    <3>1. got'[i][2] = version[ask.o]
      BY <1>10, <2>2
    <3>2. \A v \in Nat : \A k \in 1 .. v : v \in k .. v
      OBVIOUS
    <3> QED BY <1>1, <3>1, <3>2
  <2> QED BY <1>11, <2>1, <2>2
<1>13. Len(got') <= ask.len
  <2>1. \A l, m, k \in Int : k <= m - l => l + k <= m
    OBVIOUS
  <2> QED BY <1>1, <1>7, <2>1
<1>14. \A i \in DOMAIN got' : got'[i][1] = ask.from + i - 1
  BY <1>9, <1>10, <1>11
<1> QED BY <1>7, <1>12, <1>13, <1>14

LEMMA BodyKeeps == ASSUME FetchInv, Body PROVE FetchInv'
<1>1. UNCHANGED <<version, ask, calls>> /\ pc = "copy" /\ Learn
  BY DEF Body
<1>2. remembered' \subseteq Object
  BY <1>1, LearnOK
<1>3. CASE got' = got /\ End("failed")
  <2>1. got' \in Seq(Block) /\ Len(got') <= ask.len
    BY <1>3 DEF FetchInv, FetchOK
  <2> QED BY <1>1, <1>2, <1>3, <2>1, EndKeeps
<1>4. ASSUME ~ (got' = got /\ End("failed"))
      PROVE  FetchInv'
  <2>1. PICK r \in Offer :
          /\ ~ (Ranged /\ ~ GoodRange(r[1], r[2], SizeOf(version[ask.o])))
          /\ \E n \in 0 .. r[2] - r[1] + 1 :
                LET room  == ask.len - Len(got)
                    bytes == got \o [i \in 1 .. n |-> <<r[1] + i - 1, version[ask.o]>>]
                IN  IF n > room THEN End("failed") /\ got' = got
                    ELSE /\ got' = bytes
                         /\ \/ Len(bytes) = ask.len /\ Complete(bytes)
                            \/ Len(bytes) < ask.len /\ Again(0)
                            \/ End("failed")
    BY <1>4 DEF Body
  <2>2. PICK n \in 0 .. r[2] - r[1] + 1 :
          /\ ~ (n > ask.len - Len(got))
          /\ got' = got \o [i \in 1 .. n |-> <<r[1] + i - 1, version[ask.o]>>]
          /\ \/ Len(got') = ask.len /\ Complete(got')
             \/ Len(got') < ask.len /\ Again(0)
             \/ End("failed")
    BY <1>4, <2>1
  <2>3. ask.from \in Nat /\ ask.len \in Nat /\ Len(got) \in Nat
    BY DEF FetchInv, FetchOK
  <2>4. r[1] = ask.from + Len(got)
    <3>1. CASE Ranged
      BY <2>1, <3>1 DEF GoodRange
    <3>2. CASE ~ Ranged
      <4>1. ask.from = 0 /\ got = <<>> /\ r = <<0, SizeOf(version[ask.o]) - 1>>
        BY <3>2 DEF Ranged, WholeAsked, Offer
      <4> QED BY <4>1
    <3> QED BY <3>1, <3>2
  <2>5. n \in Nat /\ n <= ask.len - Len(got)
    BY <2>2, <2>3
  <2>6. /\ got' \in Seq(Block) /\ Len(got') <= ask.len
        /\ \A i \in DOMAIN got' : got'[i][1] = ask.from + i - 1
        /\ WholeAsked /\ ask.tag = "ct" =>
              \A i \in DOMAIN got' : got'[i][2] \in ask.expect .. version[ask.o]
    BY <1>1, <2>2, <2>4, <2>5, Appended
  <2>7. CASE Len(got') = ask.len /\ Complete(got')
    BY <1>1, <1>2, <2>6, <2>7, CompleteKeeps
  <2>8. CASE Len(got') < ask.len /\ Again(0)
    <3>1. Written'
      BY <1>1, <2>6 DEF Written, WholeAsked, Total
    <3> QED BY <1>1, <1>2, <2>6, <2>8, <3>1, AgainKeeps
  <2>9. CASE End("failed")
    BY <1>1, <1>2, <2>6, <2>9, EndKeeps
  <2> QED BY <2>2, <2>7, <2>8, <2>9
<1> QED BY <1>3, <1>4

\* The version read at the end is the one promised: so was every block's.
LEMMA ClosingKeeps == ASSUME FetchInv, Closing PROVE FetchInv'
<1>1. UNCHANGED <<version, ask, got, remembered, calls>> /\ pc = "closing"
  BY DEF Closing
<1>2. got' \in Seq(Block) /\ Len(got') <= ask.len /\ remembered' \subseteq Object
  BY <1>1 DEF FetchInv, FetchOK
<1>3. CASE End("failed")
  BY <1>1, <1>2, <1>3, EndKeeps
<1>4. CASE version[ask.o] = ask.expect /\ End("ok")
  <2>1. \A i \in DOMAIN got : got[i][1] = ask.from + i - 1 /\ got[i][2] \in ask.expect .. version[ask.o]
    BY <1>1 DEF FetchInv, Arms, Written
  <2>2. ask.expect \in Nat
    BY DEF FetchInv, FetchOK
  <2>3. Exact(got)
    BY <1>1, <1>4, <2>1, <2>2 DEF Exact, FetchInv, Arms
  <2> QED BY <1>1, <1>2, <1>4, <2>3, EndKeeps
<1> QED BY <1>3, <1>4 DEF Closing

-----------------------------------------------------------------------------
(* The ledger and the pool.                                                *)

\* Each window looked ahead at is one of the object's, or there is none.
LEMMA AheadIs ==
    ASSUME NEW first \in Nat, NEW len \in Nat, NEW size \in Nat, ask.o \in Object,
           NEW i \in 1 .. Depth, Ahead(first, len, size)[i] # NoJob
    PROVE  /\ Ahead(first, len, size)[i] \in Job
           /\ KeyOf(Ahead(first, len, size)[i]) \in Window
           /\ KeyOf(Ahead(first, len, size)[i])[1] = ask.o
<1> DEFINE start == first + i * len
           rest  == IF size - start < len THEN size - start ELSE len
<1>1. i \in Nat
  BY ContentAssumption
<1>2. i * len \in Nat
  BY <1>1
<1>3. start \in Nat
  BY <1>2
<1>4. Ahead(first, len, size)[i] = IF start >= size THEN NoJob ELSE <<ask.o, start, rest, size>>
  BY DEF Ahead
<1>5. ~ (start >= size)
  BY <1>4
<1> HIDE DEF start
<1>6. rest \in Nat
  BY <1>3, <1>5
<1> HIDE DEF rest
<1>7. Ahead(first, len, size)[i] = <<ask.o, start, rest, size>>
  BY <1>4, <1>5
<1> QED BY <1>3, <1>6, <1>7 DEF Job, Window, KeyOf

\* As many windows are taken as the ledger has room for; each gets its job.
LEMMA HintKeeps ==
    ASSUME FetchInv, PoolOK, LedgerIsOfTheWalk, pc # "idle",
           NEW fly \in SUBSET inflight, NEW kept \in SUBSET done,
           \A k \in fly \cup {d[1] : d \in kept} : k[1] = ask.o,
           Hint(fly, kept), UNCHANGED <<job, since>>
    PROVE  PoolOK' /\ LedgerIsOfTheWalk'
<1> DEFINE ahead  == Ahead(ask.from, ask.len, Total)
           wanted == {i \in 1 .. Depth : /\ ahead[i] # NoJob /\ KeyOf(ahead[i]) \notin fly
                                         /\ \A d \in kept : d[1] # KeyOf(ahead[i])}
           room   == Depth + 2 - Cardinality(fly) - Cardinality(kept)
           taken  == {i \in wanted : Cardinality({j \in wanted : j < i}) < room}
           more   == {KeyOf(ahead[i]) : i \in taken}
           jobs   == InOrder(ahead, taken)
<1>1. inflight' = fly \cup more /\ done' = kept /\ queue' = queue \o jobs
  BY DEF Hint
<1>2. ask.o \in Object /\ ask.from \in Nat /\ ask.len \in Nat /\ Total \in Nat
  BY Sizes DEF FetchInv, FetchOK, Asked, Total
<1>3. \A i \in wanted : ahead[i] \in Job /\ KeyOf(ahead[i]) \in Window /\ KeyOf(ahead[i])[1] = ask.o
  BY <1>2, AheadIs
<1>4. wanted \in SUBSET Nat /\ IsFiniteSet(wanted)
  <2>1. wanted \in SUBSET (1 .. Depth) /\ IsFiniteSet(1 .. Depth)
    BY FS_Interval, ContentAssumption
  <2> QED BY <2>1, FS_Subset, ContentAssumption
<1>5. IsFiniteSet(fly) /\ IsFiniteSet(kept) /\ Cardinality(fly) \in Nat /\ Cardinality(kept) \in Nat
      /\ Cardinality(fly) <= Cardinality(inflight) /\ Cardinality(kept) <= Cardinality(done)
  BY FS_Subset, FS_CardinalityType DEF PoolOK
<1>6. room \in Nat
  <2>1. Cardinality(inflight) \in Nat /\ Cardinality(done) \in Nat
        /\ Cardinality(inflight) + Cardinality(done) <= Depth + 2
    BY FS_CardinalityType DEF PoolOK
  <2> QED BY <1>5, <2>1, ContentAssumption
<1>7. taken \in SUBSET wanted /\ IsFiniteSet(taken) /\ Cardinality(taken) <= room
  BY <1>4, <1>6, FirstOnes
<1>8. /\ \A i \in taken : /\ ahead[i] \in Job /\ KeyOf(ahead[i]) \in Window /\ KeyOf(ahead[i])[1] = ask.o
                           /\ KeyOf(ahead[i]) \notin fly /\ \A d \in kept : d[1] # KeyOf(ahead[i])
      /\ taken \in SUBSET Nat
  BY <1>3, <1>4, <1>7
<1> HIDE DEF ahead, wanted, taken, room
<1>9. IsFiniteSet(more) /\ Cardinality(more) <= Cardinality(taken)
  <2> DEFINE keyOf == [i \in taken |-> KeyOf(ahead[i])]
  <2>1. keyOf \in Surjection(taken, more)
    BY DEF Surjection
  <2> QED BY <1>7, <2>1, FS_Surjection
<1>10. /\ jobs \in Seq(Job) /\ Len(jobs) = Cardinality(taken)
       /\ \A i \in taken : \E n \in 1 .. Cardinality(taken) : jobs[n] = ahead[i]
  BY <1>7, <1>8, InOrderLists
<1>11. more \in SUBSET Window /\ \A k \in more : k[1] = ask.o /\ k \notin fly /\ \A d \in kept : d[1] # k
  BY <1>8
<1>12. \A k \in more : \E n \in 1 .. Len(jobs) : KeyOf(jobs[n]) = k
  BY <1>10
<1> HIDE DEF more, jobs
<1>13. Cardinality(inflight') + Cardinality(done') <= Depth + 2 /\ IsFiniteSet(inflight')
  <2>1. IsFiniteSet(fly \cup more)
        /\ Cardinality(fly \cup more) = Cardinality(fly) + Cardinality(more) - Cardinality(fly \cap more)
    BY <1>5, <1>9, FS_Union
  <2>2. Cardinality(fly \cap more) \in Nat /\ Cardinality(more) \in Nat /\ Cardinality(taken) \in Nat
    <3>1. fly \cap more \in SUBSET fly OBVIOUS
    <3> QED BY <1>5, <1>7, <1>9, <3>1, FS_Subset, FS_CardinalityType
  <2>3. Cardinality(more) <= room
    BY <1>6, <1>7, <1>9, <2>2
  <2> QED BY <1>1, <1>5, <2>1, <2>2, <2>3, ContentAssumption DEF room
<1>14. /\ queue' \in Seq(Job)
       /\ \A i \in DOMAIN queue : i \in DOMAIN queue' /\ queue'[i] = queue[i]
       /\ \A n \in 1 .. Len(jobs) : Len(queue) + n \in DOMAIN queue' /\ queue'[Len(queue) + n] = jobs[n]
  <2>1. queue \in Seq(Job) /\ Len(queue) \in Nat /\ Len(jobs) \in Nat
    BY <1>10, LenProperties DEF PoolOK
  <2>2. /\ queue' \in Seq(Job) /\ Len(queue') = Len(queue) + Len(jobs)
        /\ \A i \in 1 .. Len(queue) + Len(jobs) :
              queue'[i] = IF i <= Len(queue) THEN queue[i] ELSE jobs[i - Len(queue)]
    BY <1>1, <1>10, <2>1, ConcatProperties
  <2>3. DOMAIN queue = 1 .. Len(queue) /\ DOMAIN queue' = 1 .. Len(queue) + Len(jobs)
    BY <2>1, <2>2, LenProperties
  <2>4. ASSUME NEW n \in 1 .. Len(jobs)
        PROVE  Len(queue) + n \in DOMAIN queue' /\ queue'[Len(queue) + n] = jobs[n]
    <3>1. /\ Len(queue) + n \in 1 .. Len(queue) + Len(jobs) /\ ~ (Len(queue) + n <= Len(queue))
          /\ Len(queue) + n - Len(queue) = n
      BY <2>1
    <3> QED BY <2>2, <2>3, <3>1
  <2>5. \A i \in DOMAIN queue : i \in 1 .. Len(queue) + Len(jobs) /\ i <= Len(queue)
    BY <2>1, <2>3
  <2> QED BY <2>2, <2>3, <2>4, <2>5
<1>15. PoolOK'
  <2>1. \A d \in done' : d[1] \notin inflight' /\ \A e \in done' : d[1] = e[1] => d = e
    BY <1>1, <1>11 DEF PoolOK
  <2>2. inflight' \in SUBSET Window /\ done' \in SUBSET (Window \X Nat) /\ IsFiniteSet(done')
    BY <1>1, <1>5, <1>11 DEF PoolOK
  <2> QED BY <1>13, <1>14, <2>1, <2>2 DEF PoolOK
<1>16. \A k, l \in inflight' \cup {d[1] : d \in done'} : k[1] = l[1]
  BY <1>1, <1>11
<1>17. ASSUME NEW k \in inflight'
       PROVE  (\E i \in DOMAIN queue' : KeyOf(queue'[i]) = k) \/ \E w \in Worker : KeyOf(job'[w]) = k
  <2>1. CASE k \in fly
    <3>1. (\E i \in DOMAIN queue : KeyOf(queue[i]) = k) \/ \E w \in Worker : KeyOf(job[w]) = k
      BY <2>1 DEF LedgerIsOfTheWalk
    <3> QED BY <1>14, <3>1
  <2>2. CASE k \in more
    BY <1>12, <1>14, <2>2
  <2> QED BY <1>1, <2>1, <2>2
<1> QED BY <1>15, <1>16, <1>17 DEF LedgerIsOfTheWalk

\* A wait that ends hints what follows, for what the ledger has kept.
LEMMA LeavePool ==
    ASSUME FetchInv, PoolOK, LedgerIsOfTheWalk, pc # "idle",
           NEW fly \in SUBSET inflight, NEW kept \in SUBSET done,
           \A k \in fly \cup {d[1] : d \in kept} : k[1] = ask.o,
           Leave(fly, kept), pc' # "waiting"
    PROVE  PoolOK' /\ LedgerIsOfTheWalk' /\ Walking'
<1> DEFINE here == {d \in kept : d[1] = Key}
<1>1. Hint(fly, kept \ here) /\ UNCHANGED <<job, since>>
  BY DEF Leave
<1>2. kept \ here \in SUBSET done OBVIOUS
<1>3. \A k \in fly \cup {d[1] : d \in kept \ here} : k[1] = ask.o
  OBVIOUS
<1> HIDE DEF here
<1>4. PoolOK' /\ LedgerIsOfTheWalk'
  BY <1>1, <1>2, <1>3, HintKeeps
<1> QED BY <1>4 DEF Walking

LEMMA TakePool ==
    ASSUME ContentInv, Take \/ Woken \/ Impatient
    PROVE  PoolOK' /\ LedgerIsOfTheWalk' /\ Walking'
<1> USE DEF ContentInv
<1>1. Abandon(ask.o).fly \in SUBSET inflight /\ Abandon(ask.o).held \in SUBSET done
      /\ \A k \in Abandon(ask.o).fly \cup {d[1] : d \in Abandon(ask.o).held} : k[1] = ask.o
  BY DEF Abandon
<1>2. ASSUME NEW fly, NEW kept, Leave(fly, kept)
      PROVE  pc' # "waiting"
  BY <1>2 DEF Leave, End
<1>3. CASE Take /\ Key \in Abandon(ask.o).fly
  <2>1. /\ inflight' = Abandon(ask.o).fly /\ done' = Abandon(ask.o).held /\ pc' = "waiting"
        /\ UNCHANGED <<ask, pool>>
    BY <1>3 DEF Take
  <2>2. IsFiniteSet(inflight') /\ IsFiniteSet(done') /\ Cardinality(inflight') <= Cardinality(inflight)
        /\ Cardinality(done') <= Cardinality(done)
    BY <1>1, <2>1, FS_Subset DEF PoolOK
  <2>3. Cardinality(inflight) \in Nat /\ Cardinality(done) \in Nat /\ Cardinality(inflight') \in Nat
        /\ Cardinality(done') \in Nat
    BY <2>2, FS_CardinalityType DEF PoolOK
  <2>4. Cardinality(inflight') + Cardinality(done') <= Depth + 2
    BY <2>2, <2>3, ContentAssumption DEF PoolOK
  <2>5. PoolOK'
    BY <1>1, <2>1, <2>2, <2>4 DEF PoolOK, pool
  <2>6. LedgerIsOfTheWalk' /\ Walking'
    BY <1>1, <2>1 DEF LedgerIsOfTheWalk, Walking, pool
  <2> QED BY <2>5, <2>6
<1>4. CASE Take /\ Key \notin Abandon(ask.o).fly
  <2>1. pc = "take" /\ Leave(Abandon(ask.o).fly, Abandon(ask.o).held)
    BY <1>4 DEF Take
  <2> QED BY <1>1, <1>2, <2>1, LeavePool
<1>5. CASE Woken \/ Impatient
  <2>1. pc = "waiting" /\ Leave(inflight, done)
    BY <1>5 DEF Woken, Impatient
  <2>2. \A k \in inflight \cup {d[1] : d \in done} : k[1] = ask.o
    BY <2>1 DEF Walking
  <2> QED BY <1>2, <2>1, <2>2, LeavePool
<1> QED BY <1>3, <1>4, <1>5

\* A job leaves the queue for a worker: its window keeps it.
LEMMA BeginsPool ==
    ASSUME ContentInv, NEW w \in Worker, WorkerBegins(w)
    PROVE  PoolOK' /\ LedgerIsOfTheWalk' /\ Walking'
<1> USE DEF ContentInv
<1>1. job[w] = NoJob /\ queue # <<>> /\ job' = [job EXCEPT ![w] = Head(queue)] /\ queue' = Tail(queue)
      /\ since' = [since EXCEPT ![w] = version[Head(queue)[1]]]
      /\ UNCHANGED <<version, pc, ask, inflight, done>>
  BY DEF WorkerBegins, reader, ledger
<1>2. queue \in Seq(Job) /\ Len(queue) \in Nat /\ DOMAIN queue = 1 .. Len(queue)
  BY LenProperties DEF PoolOK
<1>3. /\ Head(queue) \in Job /\ queue' \in Seq(Job) /\ Len(queue') = Len(queue) - 1
      /\ \A i \in 1 .. Len(queue') : queue'[i] = queue[i + 1]
  BY <1>1, <1>2, HeadTailProperties
<1>4. Head(queue) = queue[1] /\ Len(queue) >= 1
  BY <1>1, <1>2, EmptySeq
<1>5. Head(queue) # NoJob /\ version[Head(queue)[1]] \in Nat \ {0}
  BY <1>3, ContentAssumption DEF Job, NoJob, FetchInv, FetchOK
<1>6. job' \in [Worker -> Job \cup {NoJob}] /\ since' \in [Worker -> Nat]
      /\ \A v \in Worker : job'[v] = NoJob <=> since'[v] = 0
  BY <1>1, <1>3, <1>5 DEF PoolOK
<1>7. PoolOK'
  BY <1>1, <1>3, <1>6 DEF PoolOK
<1>8. ASSUME NEW k \in inflight
      PROVE  (\E i \in DOMAIN queue' : KeyOf(queue'[i]) = k) \/ \E v \in Worker : KeyOf(job'[v]) = k
  <2>1. CASE \E v \in Worker : KeyOf(job[v]) = k
    <3>1. PICK v \in Worker : KeyOf(job[v]) = k
      BY <2>1
    <3>2. KeyOf(job[w]) # k
      BY <1>1, ContentAssumption DEF PoolOK, Window, KeyOf, NoJob
    <3> QED BY <1>1, <3>1, <3>2 DEF PoolOK
  <2>2. CASE \E i \in DOMAIN queue : KeyOf(queue[i]) = k
    <3>1. PICK i \in DOMAIN queue : KeyOf(queue[i]) = k
      BY <2>2
    <3>2. CASE i = 1
      BY <1>1, <1>4, <3>1, <3>2 DEF PoolOK
    <3>3. CASE i # 1
      <4>1. i - 1 \in 1 .. Len(queue') /\ (i - 1) + 1 = i
        BY <1>2, <1>3, <3>1, <3>3
      <4>2. i - 1 \in DOMAIN queue' /\ queue'[i - 1] = queue[i]
        BY <1>3, <4>1, LenProperties
      <4> QED BY <3>1, <4>2
    <3> QED BY <3>2, <3>3
  <2> QED BY <2>1, <2>2 DEF LedgerIsOfTheWalk
<1> QED BY <1>1, <1>7, <1>8 DEF LedgerIsOfTheWalk, Walking

\* What a worker has fetched changes sides in the ledger, or is gone.
LEMMA EndsPool ==
    ASSUME ContentInv, NEW w \in Worker, WorkerEnds(w)
    PROVE  PoolOK' /\ LedgerIsOfTheWalk' /\ Walking'
<1> USE DEF ContentInv
<1>1. PICK v \in {0} \cup since[w] .. version[job[w][1]] : WorkerRecords(w, v)
  BY DEF WorkerEnds
<1>2. job[w] # NoJob /\ job' = [job EXCEPT ![w] = NoJob] /\ since' = [since EXCEPT ![w] = 0]
      /\ UNCHANGED <<version, pc, ask, queue>>
  BY DEF WorkerEnds, reader
<1>3. v \in Nat
  BY DEF PoolOK
<1>4. job' \in [Worker -> Job \cup {NoJob}] /\ since' \in [Worker -> Nat]
      /\ \A u \in Worker : job'[u] = NoJob <=> since'[u] = 0
  BY <1>2 DEF PoolOK
<1>5. CASE KeyOf(job[w]) \notin inflight
  <2>1. UNCHANGED <<inflight, done>>
    BY <1>1, <1>5 DEF WorkerRecords, ledger
  <2>2. \A k \in inflight : \A u \in Worker : KeyOf(job[u]) = k => KeyOf(job'[u]) = k
    BY <1>2, <1>5 DEF PoolOK
  <2>3. PoolOK'
    BY <1>2, <1>4, <2>1 DEF PoolOK
  <2> QED BY <1>2, <2>1, <2>2, <2>3 DEF LedgerIsOfTheWalk, Walking
<1>6. CASE KeyOf(job[w]) \in inflight
  <2> DEFINE k == KeyOf(job[w])
  <2>1. inflight' = inflight \ {k} /\ done' = done \cup {<<k, v>>}
    BY <1>1, <1>6 DEF WorkerRecords
  <2> HIDE DEF k
  <2>2. k \in inflight /\ k \in Window
    BY <1>6 DEF k, PoolOK
  <2>3. <<k, v>> \notin done /\ \A d \in done : d[1] # k
    BY <2>2 DEF PoolOK
  <2>4. IsFiniteSet(inflight') /\ Cardinality(inflight') = Cardinality(inflight) - 1
    BY <2>1, <2>2, FS_RemoveElement DEF PoolOK
  <2>5. IsFiniteSet(done') /\ Cardinality(done') = Cardinality(done) + 1
    BY <2>1, <2>3, FS_AddElement DEF PoolOK
  <2>6. Cardinality(inflight) \in Nat /\ Cardinality(done) \in Nat
    BY FS_CardinalityType DEF PoolOK
  <2>7. Cardinality(inflight') + Cardinality(done') <= Depth + 2
    BY <2>4, <2>5, <2>6, ContentAssumption DEF PoolOK
  <2>8. inflight' \in SUBSET Window /\ done' \in SUBSET (Window \X Nat)
        /\ \A d \in done' : d[1] \notin inflight' /\ \A e \in done' : d[1] = e[1] => d = e
    BY <1>3, <2>1, <2>2, <2>3 DEF PoolOK
  <2>9. PoolOK'
    BY <1>2, <1>4, <2>4, <2>5, <2>7, <2>8 DEF PoolOK
  <2>10. inflight' \cup {d[1] : d \in done'} \subseteq inflight \cup {d[1] : d \in done}
    BY <2>1, <2>2
  <2>11. \A l \in inflight' : \A u \in Worker : KeyOf(job[u]) = l => KeyOf(job'[u]) = l
    BY <1>2, <2>1 DEF PoolOK, k
  <2> QED BY <1>2, <2>1, <2>9, <2>10, <2>11 DEF LedgerIsOfTheWalk, Walking
<1> QED BY <1>5, <1>6

-----------------------------------------------------------------------------
(* The steps, and what follows of every behaviour.                         *)

LEMMA InitContentInv == ContentInit => ContentInv
<1> SUFFICES ASSUME ContentInit PROVE ContentInv
  OBVIOUS
<1>1. FetchOK
  <2>1. got \in Seq(Block) /\ Len(got) = 0
    BY EmptySeq DEF ContentInit
  <2> QED BY <2>1, ContentAssumption DEF ContentInit, FetchOK, Tag
<1>2. Asked /\ Arms /\ Written /\ Delivered
  BY DEF ContentInit, Asked, Arms, Written, Delivered
<1>3. PoolOK
  <2>1. queue \in Seq(Job)
    BY EmptySeq DEF ContentInit
  <2>2. IsFiniteSet(inflight) /\ IsFiniteSet(done) /\ Cardinality(inflight) + Cardinality(done) = 0
    BY FS_EmptySet DEF ContentInit
  <2> QED BY <2>1, <2>2, ContentAssumption DEF ContentInit, PoolOK
<1>4. LedgerIsOfTheWalk /\ Walking
  BY DEF ContentInit, LedgerIsOfTheWalk, Walking
<1> QED BY <1>1, <1>2, <1>3, <1>4 DEF ContentInv, FetchInv

\* Where the pool is left alone, it stays as it should be.
LEMMA PoolUnchanged ==
    ASSUME ContentInv, UNCHANGED <<ledger, pool>>, pc' = "waiting" => pc = "waiting" /\ ask' = ask
    PROVE  PoolOK' /\ LedgerIsOfTheWalk' /\ Walking'
BY DEF ContentInv, PoolOK, LedgerIsOfTheWalk, Walking, ledger, pool

LEMMA FetchUnchanged ==
    ASSUME FetchInv, UNCHANGED <<version, reader, calls>>
    PROVE  FetchInv'
BY DEF FetchInv, FetchOK, Asked, Arms, Written, Delivered, Exact, WholeAsked, Total, reader

LEMMA ContentStep == ContentInv /\ [ContentNext]_cvars => ContentInv'
<1> SUFFICES ASSUME ContentInv, [ContentNext]_cvars PROVE ContentInv'
  OBVIOUS
<1>0. FetchInv /\ PoolOK
  BY DEF ContentInv
<1>1. CASE \E o \in Object : Change(o)
  <2>1. PICK o \in Object : Change(o)
    BY <1>1
  <2>2. UNCHANGED <<ledger, pool, pc, ask>>
    BY <2>1 DEF Change, reader
  <2> QED BY <1>0, <2>1, <2>2, ChangeKeeps, PoolUnchanged DEF ContentInv
<1>2. CASE Demand
  <2>1. UNCHANGED <<ledger, pool>> /\ pc' # "waiting"
    BY <1>2 DEF Demand
  <2> QED BY <1>0, <1>2, <2>1, DemandKeeps, PoolUnchanged DEF ContentInv
<1>3. CASE Meta
  <2>1. UNCHANGED <<ledger, pool>> /\ pc' # "waiting"
    BY <1>3 DEF Meta, End
  <2> QED BY <1>0, <1>3, <2>1, MetaKeeps, PoolUnchanged DEF ContentInv
<1>4. CASE Take \/ Woken \/ Impatient
  BY <1>0, <1>4, TakeKeeps, TakePool DEF ContentInv
<1>5. CASE Forget
  <2>1. UNCHANGED <<ledger, pool, pc, ask>>
    BY <1>5 DEF Forget
  <2> QED BY <1>0, <1>5, <2>1, ForgetKeeps, PoolUnchanged DEF ContentInv
<1>6. CASE Throttled \/ Refused
  <2>1. UNCHANGED <<ledger, pool>> /\ pc' # "waiting"
    BY <1>6 DEF Throttled, Refused, Again, End
  <2> QED BY <1>0, <1>6, <2>1, RefusedKeeps, PoolUnchanged DEF ContentInv
<1>7. CASE Body
  <2>1. UNCHANGED <<ledger, pool>> /\ pc' # "waiting"
    BY <1>7 DEF Body, Complete, Again, End
  <2> QED BY <1>0, <1>7, <2>1, BodyKeeps, PoolUnchanged DEF ContentInv
<1>8. CASE Closing
  <2>1. UNCHANGED <<ledger, pool>> /\ pc' # "waiting"
    BY <1>8 DEF Closing, End
  <2> QED BY <1>0, <1>8, <2>1, ClosingKeeps, PoolUnchanged DEF ContentInv
<1>9. CASE \E w \in Worker : WorkerBegins(w)
  <2>1. PICK w \in Worker : WorkerBegins(w)
    BY <1>9
  <2>2. FetchInv'
    BY <1>0, <2>1, FetchUnchanged DEF WorkerBegins
  <2> QED BY <2>1, <2>2, BeginsPool DEF ContentInv
<1>10. CASE \E w \in Worker : WorkerEnds(w)
  <2>1. PICK w \in Worker : WorkerEnds(w)
    BY <1>10
  <2>2. FetchInv'
    BY <1>0, <2>1, FetchUnchanged DEF WorkerEnds
  <2> QED BY <2>1, <2>2, EndsPool DEF ContentInv
<1>11. CASE UNCHANGED cvars
  <2>1. UNCHANGED <<version, reader, ledger, pool, calls, pc, ask>>
    BY <1>11 DEF cvars, reader
  <2> QED BY <1>0, <2>1, FetchUnchanged, PoolUnchanged DEF ContentInv
<1> QED
  BY <1>1, <1>2, <1>3, <1>4, <1>5, <1>6, <1>7, <1>8, <1>9, <1>10, <1>11 DEF ContentNext, Fetch

LEMMA ContentAlways == ContentSpec => []ContentInv
BY InitContentInv, ContentStep, PTL DEF ContentSpec

\* What a fetch that succeeded has written is each block asked for, once and in order, and of a
\* whole file, for a placeholder that names a version, it is that version's: however many windows
\* and workers, however often the object changed and the download was resumed (fetch,
\* quickxor_for_version, resume_copy, validate_content_range, take).
THEOREM Delivers == ContentSpec => []DeliversExactly
<1>1. ContentInv => DeliversExactly
  <2> SUFFICES ASSUME ContentInv PROVE DeliversExactly
    OBVIOUS
  <2>1. ContentTypeOK
    BY DEF ContentInv, FetchInv, FetchOK, PoolOK, ContentTypeOK, Window
  <2> QED BY <2>1 DEF DeliversExactly, ContentInv, FetchInv, Delivered, Exact
<1> QED BY <1>1, ContentAlways, PTL

\* The ledger holds windows of one object only, and a window said to be being fetched has a job
\* that waits for a worker, or a worker on it, whoever else has given up (take, hint, and the
\* workers of new).
THEOREM Walks == ContentSpec => []LedgerIsOfTheWalk
<1>1. ContentInv => LedgerIsOfTheWalk
  BY DEF ContentInv
<1> QED BY <1>1, ContentAlways, PTL

-----------------------------------------------------------------------------
(* The pass: the inductive invariant.                                      *)

Path  == Seq(Seg) \ {<<>>}
Entry == [kind : {"file", "folder"}, id : Id \cup {NoOne}, tag : Version \cup {NoOne}, work : SUBSET Nat]
Call  == [op : {"Removed", "FolderRemoved", "Upserted", "FolderUpserted"}, id : Id, path : Path,
          tag : Version \cup {NoOne}]

\* Bytes are in files only, and whatever lies above something is a folder: so no change
\* that puts away a folder that is empty, or puts a file in a file's place, loses any.
TreeOK(d) ==
    /\ DOMAIN d \subseteq Path /\ d \in [DOMAIN d -> Entry]
    /\ \A p \in DOMAIN d : d[p].kind = "folder" => d[p].work = {}
    /\ \A p \in DOMAIN d : \A q \in Ancestors(p) : q \in DOMAIN d /\ d[q].kind = "folder"
\* The bytes that are in a directory.
Held(d) == UNION {d[p].work : p \in DOMAIN d}

\* The files with bytes that only this machine has; a file that is nobody's is one of them.
Own(d)  == {p \in DOMAIN d : d[p].kind = "file" /\ d[p].work # {}}
Tidy(d) == IsFiniteSet(DOMAIN d) /\ \A p \in DOMAIN d : d[p].kind = "file" /\ d[p].id = NoOne => d[p].work # {}

\* From d to e such a file may move, but keeps its identity.
OwnKept(d, e) ==
    /\ Tidy(d) => Tidy(e)
    /\ \E f \in [Own(d) -> Own(e)] :
          \A p, q \in Own(d) : e[f[p]].id = d[p].id /\ (f[p] = f[q] => p = q)
Stays(d, e) == Held(e) = Held(d) /\ OwnKept(d, e)

\* A listing is a tree, its names different among siblings.
ListingOK(d) == d \in [Id -> Item \cup {Absent, Unborn}] /\ Sane(d) /\ Acyclic(d)

\* Whole directory, whole batch, and every byte the user has made is there.
PassInv ==
    /\ ListingOK(listed) /\ batch \in Seq(Call) /\ todo \in Seq(Call)
    /\ TreeOK(root) /\ Tidy(root) /\ acts \in Nat /\ made \subseteq Held(root)

-----------------------------------------------------------------------------
(* Paths.                                                                  *)

\* q lies above p.
Over(q, p) == Len(q) < Len(p) /\ \A i \in 1 .. Len(q) : q[i] = p[i]

LEMMA PathIs == ASSUME NEW p \in Path
                PROVE  p \in Seq(Seg) /\ Len(p) \in Nat \ {0} /\ DOMAIN p = 1 .. Len(p)
                       /\ \A i \in 1 .. Len(p) : p[i] \in Seg
BY EmptySeq, LenProperties, ElementOfSeq DEF Path

\* The ancestors of a path are those it begins with.
LEMMA AncestorsAre == ASSUME NEW p \in Path PROVE \A q : q \in Ancestors(p) <=> q \in Path /\ Over(q, p)
<1>1. p \in Seq(Seg) /\ Len(p) \in Nat \ {0} /\ \A i \in 1 .. Len(p) : p[i] \in Seg
  BY PathIs
<1>2. ASSUME NEW n \in 1 .. Len(p) - 1
      PROVE  /\ SubSeq(p, 1, n) \in Path /\ Len(SubSeq(p, 1, n)) = n
             /\ \A i \in 1 .. n : SubSeq(p, 1, n)[i] = p[i]
  <2>1. \A i \in 1 .. n : p[i] \in Seg
    BY <1>1
  <2>2. 1 \in Int /\ n \in Int /\ 1 <= n
    BY <1>1
  <2>3. /\ SubSeq(p, 1, n) \in Seq(Seg) /\ Len(SubSeq(p, 1, n)) = n
        /\ \A i \in 1 .. n : SubSeq(p, 1, n)[i] = p[1 + i - 1]
    BY <2>1, <2>2, SubSeqProperties
  <2>4. SubSeq(p, 1, n) # <<>>
    BY <2>2, <2>3, EmptySeq
  <2> QED BY <2>3, <2>4 DEF Path
<1>3. ASSUME NEW q \in Path, Over(q, p) PROVE q \in Ancestors(p)
  <2>1. q \in Seq(Seg) /\ Len(q) \in 1 .. Len(p) - 1
    BY <1>1, <1>3, PathIs DEF Over
  <2>2. q = SubSeq(p, 1, Len(q))
    BY <1>2, <1>3, <2>1, SeqEqual DEF Over, Path
  <2> QED BY <2>1, <2>2 DEF Ancestors
<1>4. ASSUME NEW q \in Ancestors(p) PROVE q \in Path /\ Over(q, p)
  <2>1. PICK n \in 1 .. Len(p) - 1 : q = SubSeq(p, 1, n)
    BY DEF Ancestors
  <2> QED BY <1>1, <1>2, <2>1 DEF Over
<1> QED BY <1>3, <1>4

LEMMA AncestorOfAncestor ==
    ASSUME NEW p \in Path, NEW q \in Ancestors(p), NEW r \in Ancestors(q) PROVE r \in Ancestors(p) /\ r # p
<1>1. q \in Path /\ Over(q, p)
  BY AncestorsAre
<1>2. r \in Path /\ Over(r, q)
  BY <1>1, AncestorsAre
<1>3. Len(p) \in Nat /\ Len(q) \in Nat /\ Len(r) \in Nat
  BY <1>1, <1>2, PathIs
<1>4. Over(r, p)
  BY <1>1, <1>2, <1>3 DEF Over
<1> QED BY <1>2, <1>3, <1>4, AncestorsAre DEF Over

\* Of two ancestors of one path, one lies above the other, or they are the same.
LEMMA AncestorsMeet ==
    ASSUME NEW p \in Path, NEW q \in Ancestors(p), NEW r \in Ancestors(p)
    PROVE  q = r \/ q \in Ancestors(r) \/ r \in Ancestors(q)
<1>1. q \in Path /\ Over(q, p) /\ r \in Path /\ Over(r, p)
  BY AncestorsAre
<1>2. Len(p) \in Nat /\ Len(q) \in Nat /\ Len(r) \in Nat /\ q \in Seq(Seg) /\ r \in Seq(Seg)
  BY <1>1, PathIs
<1>3. CASE Len(q) = Len(r)
  <2>1. \A i \in 1 .. Len(q) : q[i] = r[i]
    BY <1>1, <1>3 DEF Over
  <2> QED BY <1>2, <1>3, <2>1, SeqEqual
<1>4. CASE Len(q) < Len(r)
  <2>1. Over(q, r)
    BY <1>1, <1>2, <1>4 DEF Over
  <2> QED BY <1>1, <2>1, AncestorsAre
<1>5. CASE Len(r) < Len(q)
  <2>1. Over(r, q)
    BY <1>1, <1>2, <1>5 DEF Over
  <2> QED BY <1>1, <2>1, AncestorsAre
<1> QED BY <1>2, <1>3, <1>4, <1>5

LEMMA ParentIs ==
    ASSUME NEW p \in Path
    PROVE  /\ Parent(p) = <<>> \/ Parent(p) \in Ancestors(p)
           /\ \A q \in Ancestors(p) : Parent(p) # <<>> /\ (q = Parent(p) \/ q \in Ancestors(Parent(p)))
           /\ p \notin Ancestors(p)
<1>1. p \in Seq(Seg) /\ Len(p) \in Nat \ {0} /\ \A i \in 1 .. Len(p) : p[i] \in Seg
  BY PathIs
<1>2. Parent(p) = SubSeq(p, 1, Len(p) - 1)
  BY DEF Parent, Front
<1>3. CASE Len(p) = 1
  <2>1. Parent(p) = <<>>
    BY <1>2, <1>3, SubSeqEmpty
  <2>2. Ancestors(p) = {}
    BY <1>3 DEF Ancestors
  <2> QED BY <2>1, <2>2
<1>4. CASE Len(p) # 1
  <2>0. Len(p) - 1 \in 1 .. Len(p) - 1
    <3>1. \A n \in Nat \ {0} : n # 1 => n - 1 \in 1 .. n - 1
      OBVIOUS
    <3> QED BY <1>1, <1>4, <3>1
  <2>1. Parent(p) \in Ancestors(p)
    BY <1>2, <2>0 DEF Ancestors
  <2>2. Parent(p) \in Path /\ Over(Parent(p), p)
    BY <2>1, AncestorsAre
  <2>3. Parent(p) # <<>>
    BY <2>2 DEF Path
  <2>4. Len(Parent(p)) = Len(p) - 1
    <3>1. \A i \in 1 .. Len(p) - 1 : p[i] \in Seg
      BY <1>1
    <3>2. 1 \in Int /\ Len(p) - 1 \in Int /\ 1 <= Len(p) - 1
      BY <1>1, <2>0
    <3> QED BY <1>1, <1>2, <3>1, <3>2, SubSeqProperties
  <2>5. ASSUME NEW q \in Ancestors(p) PROVE q = Parent(p) \/ q \in Ancestors(Parent(p))
    <3>1. q \in Path /\ Over(q, p) /\ Len(q) \in Nat
      BY AncestorsAre, PathIs
    <3>2. ~ (Parent(p) \in Ancestors(q))
      <4>1. SUFFICES ASSUME Parent(p) \in Ancestors(q) PROVE FALSE
        OBVIOUS
      <4>2. Len(Parent(p)) < Len(q)
        BY <3>1, <4>1, AncestorsAre DEF Over
      <4> QED BY <1>1, <2>4, <3>1, <4>2 DEF Over
    <3> QED BY <2>1, <3>2, AncestorsMeet
  <2> QED BY <1>1, <2>1, <2>3, <2>5, AncestorsAre DEF Over
<1> QED BY <1>3, <1>4

-----------------------------------------------------------------------------
(* What is done to a directory keeps it whole.                             *)

LEMMA EntryIs ==
    ASSUME NEW d, TreeOK(d), NEW p \in DOMAIN d
    PROVE  /\ p \in Path /\ d[p] \in Entry /\ d[p].kind \in {"file", "folder"} /\ d[p].work \in SUBSET Nat
           /\ d[p].id \in Id \cup {NoOne}
           /\ d[p].kind = "file" => Beneath(d, p) = {}
BY DEF TreeOK, Entry, Beneath

LEMMA UnknownIs == Unknown \in Entry /\ Unknown.kind = "folder" /\ Unknown.work = {}
BY DEF Unknown, Entry

LEMMA OwnSame ==
    ASSUME NEW d, NEW e, Tidy(d) => Tidy(e), \A p \in Own(d) : p \in Own(e) /\ e[p].id = d[p].id
    PROVE  OwnKept(d, e)
<1> DEFINE f == [p \in Own(d) |-> p]
<1>1. f \in [Own(d) -> Own(e)] /\ \A p \in Own(d) : f[p] = p
  OBVIOUS
<1> HIDE DEF f
<1>2. \A p, q \in Own(d) : e[f[p]].id = d[p].id /\ (f[p] = f[q] => p = q)
  BY <1>1
<1> QED BY <1>1, <1>2 DEF OwnKept

LEMMA OwnThen == ASSUME NEW d, NEW e, NEW u, OwnKept(d, e), OwnKept(e, u) PROVE OwnKept(d, u)
<1>1. PICK f \in [Own(d) -> Own(e)] : \A p, q \in Own(d) : e[f[p]].id = d[p].id /\ (f[p] = f[q] => p = q)
  BY DEF OwnKept
<1>2. PICK g \in [Own(e) -> Own(u)] : \A p, q \in Own(e) : u[g[p]].id = e[p].id /\ (g[p] = g[q] => p = q)
  BY DEF OwnKept
<1> DEFINE h == [p \in Own(d) |-> g[f[p]]]
<1>3. h \in [Own(d) -> Own(u)] /\ \A p \in Own(d) : h[p] = g[f[p]] /\ f[p] \in Own(e)
  BY <1>1, <1>2
<1> HIDE DEF h
<1>4. \A p, q \in Own(d) : u[h[p]].id = d[p].id /\ (h[p] = h[q] => p = q)
  BY <1>1, <1>2, <1>3
<1> QED BY <1>3, <1>4 DEF OwnKept

LEMMA StaysThen == ASSUME NEW d, NEW e, NEW u, Stays(d, e), Stays(e, u) PROVE Stays(d, u)
BY OwnThen DEF Stays

LEMMA StaysSame == ASSUME NEW d PROVE Stays(d, d)
BY OwnSame DEF Stays

LEMMA AboveFinite == ASSUME NEW p \in Path PROVE IsFiniteSet(Ancestors(p))
<1> DEFINE f == [n \in 1 .. Len(p) - 1 |-> SubSeq(p, 1, n)]
<1>1. IsFiniteSet(1 .. Len(p) - 1)
  BY PathIs, FS_Interval
<1>2. f \in Surjection(1 .. Len(p) - 1, Ancestors(p))
  BY DEF Surjection, Ancestors
<1> QED BY <1>1, <1>2, FS_Surjection

LEMMA MkdirsKeeps ==
    ASSUME NEW d, TreeOK(d), NEW p \in Path, ~Blocked(d, p)
    PROVE  /\ TreeOK(Mkdirs(d, p)) /\ Stays(d, Mkdirs(d, p))
           /\ DOMAIN Mkdirs(d, p) = DOMAIN d \cup Ancestors(p)
           /\ \A q \in DOMAIN d : Mkdirs(d, p)[q] = d[q]
           /\ \A q \in Ancestors(p) : Mkdirs(d, p)[q].kind = "folder"
<1> DEFINE e == Mkdirs(d, p)
<1>1. /\ DOMAIN e = DOMAIN d \cup Ancestors(p)
      /\ \A q \in DOMAIN e : e[q] = IF q \in DOMAIN d THEN d[q] ELSE Unknown
      /\ e = [q \in DOMAIN e |-> e[q]]
  BY DEF Mkdirs
<1> HIDE DEF e
<1>2. \A q \in DOMAIN e : q \in Path
  BY <1>1, AncestorsAre DEF TreeOK
<1>3. \A q \in DOMAIN e : e[q] \in Entry
  BY <1>1, EntryIs, UnknownIs
<1>4. \A q \in Ancestors(p) : e[q].kind = "folder"
  BY <1>1, EntryIs, UnknownIs DEF Blocked
<1>5. \A q \in DOMAIN e : e[q].kind = "folder" => e[q].work = {}
  BY <1>1, UnknownIs DEF TreeOK
<1>6. ASSUME NEW q \in DOMAIN e, NEW r \in Ancestors(q) PROVE r \in DOMAIN e /\ e[r].kind = "folder"
  <2>1. CASE q \in DOMAIN d
    BY <1>1, <2>1 DEF TreeOK
  <2>2. CASE q \in Ancestors(p)
    BY <1>1, <1>4, <2>2, AncestorOfAncestor
  <2> QED BY <1>1, <2>1, <2>2
<1>7. TreeOK(e)
  BY <1>1, <1>2, <1>3, <1>5, <1>6 DEF TreeOK
<1>8. Held(e) = Held(d)
  <2>1. \A q \in DOMAIN d : e[q] = d[q]
    BY <1>1
  <2>2. \A q \in DOMAIN e : q \in DOMAIN d \/ e[q].work = {}
    BY <1>1, UnknownIs
  <2>3. DOMAIN d \subseteq DOMAIN e
    BY <1>1
  <2> QED BY <2>1, <2>2, <2>3 DEF Held
<1>9. OwnKept(d, e)
  <2>1. Tidy(d) => Tidy(e)
    <3>1. IsFiniteSet(DOMAIN d) => IsFiniteSet(DOMAIN e)
      BY <1>1, AboveFinite, FS_Union
    <3> QED BY <1>1, <3>1, UnknownIs DEF Tidy
  <2>2. \A q \in Own(d) : q \in Own(e) /\ e[q].id = d[q].id
    BY <1>1 DEF Own
  <2> QED BY <2>1, <2>2, OwnSame
<1> QED BY <1>1, <1>4, <1>7, <1>8, <1>9 DEF e, Stays

LEMMA WithKeeps ==
    ASSUME NEW d, TreeOK(d), NEW p \in Path, NEW v \in Entry,
           v.kind = "folder" => v.work = {},
           \A q \in Ancestors(p) : q \in DOMAIN d /\ d[q].kind = "folder",
           v.kind = "file" /\ v.id = NoOne => v.work # {},
           p \in DOMAIN d => d[p].work \subseteq v.work /\ (d[p].kind = "folder" => v.kind = "folder"),
           p \in Own(d) => v.kind = "file" /\ v.id = d[p].id
    PROVE  TreeOK(With(d, p, v)) /\ Held(With(d, p, v)) = Held(d) \cup v.work /\ OwnKept(d, With(d, p, v))
<1> DEFINE e == With(d, p, v)
<1>1. /\ DOMAIN e = DOMAIN d \cup {p} /\ e = [q \in DOMAIN e |-> e[q]]
      /\ \A q \in DOMAIN e : e[q] = IF q = p THEN v ELSE d[q]
  BY DEF With
<1> HIDE DEF e
<1>2. DOMAIN e \subseteq Path /\ \A q \in DOMAIN e : e[q] \in Entry
  BY <1>1, EntryIs
<1>3. \A q \in DOMAIN e : e[q].kind = "folder" => e[q].work = {}
  BY <1>1 DEF TreeOK
<1>4. ASSUME NEW q \in DOMAIN e, NEW r \in Ancestors(q) PROVE r \in DOMAIN e /\ e[r].kind = "folder"
  <2>1. r \in DOMAIN d /\ d[r].kind = "folder"
    <3>1. CASE q = p
      BY <3>1
    <3>2. CASE q # p
      BY <1>1, <3>2 DEF TreeOK
    <3> QED BY <3>1, <3>2
  <2> QED BY <1>1, <2>1
<1>5. TreeOK(e)
  BY <1>1, <1>2, <1>3, <1>4 DEF TreeOK
<1>6. Held(e) = Held(d) \cup v.work
  <2>1. p \in DOMAIN e /\ e[p] = v /\ DOMAIN d \subseteq DOMAIN e
    BY <1>1
  <2>2. \A q \in DOMAIN d : d[q].work \subseteq e[q].work
    BY <1>1
  <2>3. \A q \in DOMAIN e : e[q].work \subseteq v.work \/ (q \in DOMAIN d /\ e[q] = d[q])
    BY <1>1
  <2>4. Held(d) \subseteq Held(e)
    BY <2>1, <2>2 DEF Held
  <2>5. v.work \subseteq Held(e)
    BY <2>1 DEF Held
  <2>6. Held(e) \subseteq Held(d) \cup v.work
    BY <2>3 DEF Held
  <2> QED BY <2>4, <2>5, <2>6
<1>7. OwnKept(d, e)
  <2>1. Tidy(d) => Tidy(e)
    <3>1. IsFiniteSet(DOMAIN d) => IsFiniteSet(DOMAIN e)
      <4>1. DOMAIN e = DOMAIN d \cup {p}
        BY <1>1
      <4> QED BY <4>1, FS_AddElement
    <3> QED BY <1>1, <3>1 DEF Tidy
  <2>2. \A q \in Own(d) : q \in Own(e) /\ e[q].id = d[q].id
    <3> TAKE q \in Own(d)
    <3>1. CASE q = p
      BY <1>1, <3>1 DEF Own
    <3>2. CASE q # p
      BY <1>1, <3>2 DEF Own
    <3> QED BY <3>1, <3>2
  <2> QED BY <2>1, <2>2, OwnSame
<1> QED BY <1>5, <1>6, <1>7 DEF e

LEMMA WithoutKeeps ==
    ASSUME NEW d, TreeOK(d), NEW p \in DOMAIN d, d[p].work = {}, Beneath(d, p) = {}
    PROVE  TreeOK(Without(d, {p})) /\ Stays(d, Without(d, {p}))
<1> DEFINE e == Without(d, {p})
<1>1. /\ DOMAIN e = DOMAIN d \ {p} /\ e = [q \in DOMAIN e |-> e[q]]
      /\ \A q \in DOMAIN e : e[q] = d[q]
  BY DEF Without
<1> HIDE DEF e
<1>2. \A q \in DOMAIN e : p \notin Ancestors(q)
  BY <1>1 DEF Beneath
<1>3. DOMAIN e \subseteq Path /\ \A q \in DOMAIN e : e[q] \in Entry
  BY <1>1, EntryIs
<1>4. \A q \in DOMAIN e : \A r \in Ancestors(q) : r \in DOMAIN e /\ e[r].kind = "folder"
  BY <1>1, <1>2 DEF TreeOK
<1>5. \A q \in DOMAIN e : e[q].kind = "folder" => e[q].work = {}
  BY <1>1 DEF TreeOK
<1>6. TreeOK(e)
  BY <1>1, <1>3, <1>4, <1>5 DEF TreeOK
<1>7. Held(e) = Held(d)
  BY <1>1 DEF Held
<1>8. OwnKept(d, e)
  <2>1. Tidy(d) => Tidy(e)
    <3>1. IsFiniteSet(DOMAIN d) => IsFiniteSet(DOMAIN e)
      BY <1>1, FS_Subset
    <3> QED BY <1>1, <3>1 DEF Tidy
  <2>2. \A q \in Own(d) : q \in Own(e) /\ e[q].id = d[q].id
    BY <1>1 DEF Own
  <2> QED BY <2>1, <2>2, OwnSame
<1> QED BY <1>6, <1>7, <1>8 DEF e, Stays

-----------------------------------------------------------------------------
(* A directory that is renamed takes along what is in it.                  *)

\* No object has two names.
One(d) == \A p, q \in DOMAIN d : d[p].id = d[q].id /\ d[p].id # NoOne => p = q

\* Where what lay at r comes to lie, its directory moved from was to to.
To(was, to, r) == to \o SubSeq(r, Len(was) + 1, Len(r))
Inside(was, r)     == r = was \/ was \in Ancestors(r)

LEMMA InIs ==
    ASSUME NEW was \in Path, NEW r \in Path, Inside(was, r)
    PROVE  /\ Len(was) \in Nat \ {0} /\ Len(r) \in Nat /\ Len(was) <= Len(r)
           /\ \A i \in 1 .. Len(was) : was[i] = r[i]
<1>1. Len(was) \in Nat \ {0} /\ Len(r) \in Nat
  BY PathIs
<1>2. r = was \/ Over(was, r)
  BY AncestorsAre DEF Inside
<1> QED BY <1>1, <1>2 DEF Over

LEMMA ToIs ==
    ASSUME NEW was \in Path, NEW to \in Path, NEW r \in Path, Inside(was, r)
    PROVE  /\ To(was, to, r) \in Path /\ Len(To(was, to, r)) = Len(to) + Len(r) - Len(was)
           /\ \A i \in 1 .. Len(to) : To(was, to, r)[i] = to[i]
           /\ \A i \in Len(to) + 1 .. Len(to) + Len(r) - Len(was) :
                 To(was, to, r)[i] = r[i - Len(to) + Len(was)]
<1> DEFINE t == SubSeq(r, Len(was) + 1, Len(r))
<1>1. /\ Len(was) \in Nat \ {0} /\ Len(r) \in Nat \ {0} /\ Len(to) \in Nat \ {0} /\ Len(was) <= Len(r)
      /\ to \in Seq(Seg) /\ \A i \in 1 .. Len(r) : r[i] \in Seg
  BY InIs, PathIs
<1>2. \A i \in Len(was) + 1 .. Len(r) : r[i] \in Seg
  BY <1>1
<1>3. /\ t \in Seq(Seg) /\ Len(t) = Len(r) - Len(was)
      /\ \A i \in 1 .. Len(r) - Len(was) : t[i] = r[Len(was) + i]
  <2>1. Len(was) + 1 \in Int /\ Len(r) \in Int
    BY <1>1
  <2>2. /\ t \in Seq(Seg)
        /\ Len(t) = IF Len(was) + 1 <= Len(r) THEN Len(r) - (Len(was) + 1) + 1 ELSE 0
        /\ \A i \in 1 .. Len(r) - (Len(was) + 1) + 1 : t[i] = r[Len(was) + 1 + i - 1]
    BY <1>2, <2>1, SubSeqProperties
  <2> QED BY <1>1, <2>2
<1> HIDE DEF t
<1>4. /\ to \o t \in Seq(Seg) /\ Len(to \o t) = Len(to) + Len(t)
      /\ \A i \in 1 .. Len(to) + Len(t) : (to \o t)[i] = IF i <= Len(to) THEN to[i] ELSE t[i - Len(to)]
  BY <1>1, <1>3, ConcatProperties
<1>5. to \o t # <<>>
  BY <1>1, <1>3, <1>4, EmptySeq
<1>6. ASSUME NEW i \in Len(to) + 1 .. Len(to) + Len(r) - Len(was)
      PROVE  (to \o t)[i] = r[i - Len(to) + Len(was)]
  <2>1. /\ i \in 1 .. Len(to) + Len(t) /\ ~ (i <= Len(to)) /\ i - Len(to) \in 1 .. Len(r) - Len(was)
        /\ Len(was) + (i - Len(to)) = i - Len(to) + Len(was)
    BY <1>1, <1>3
  <2> QED BY <1>3, <1>4, <2>1
<1>7. \A i \in 1 .. Len(to) : (to \o t)[i] = to[i]
  BY <1>1, <1>3, <1>4
<1> QED BY <1>1, <1>3, <1>4, <1>5, <1>6, <1>7 DEF To, t, Path

LEMMA ToOnce ==
    ASSUME NEW was \in Path, NEW to \in Path, NEW r \in Path, NEW s \in Path, Inside(was, r), Inside(was, s),
           To(was, to, r) = To(was, to, s)
    PROVE  r = s
<1>1. /\ Len(was) \in Nat \ {0} /\ Len(r) \in Nat /\ Len(s) \in Nat /\ Len(to) \in Nat
      /\ Len(was) <= Len(r) /\ Len(was) <= Len(s)
  BY InIs, PathIs
<1>2. Len(r) = Len(s)
  <2>1. Len(To(was, to, r)) = Len(to) + Len(r) - Len(was)
    BY ToIs
  <2>2. Len(To(was, to, s)) = Len(to) + Len(s) - Len(was)
    BY ToIs
  <2> QED BY <1>1, <2>1, <2>2
<1>3. ASSUME NEW i \in 1 .. Len(r) PROVE r[i] = s[i]
  <2>1. CASE i <= Len(was)
    <3>1. i \in 1 .. Len(was)
      BY <1>1, <2>1
    <3> QED BY <3>1, InIs
  <2>2. CASE ~ (i <= Len(was))
    <3> DEFINE j == Len(to) + i - Len(was)
    <3>1. j \in Len(to) + 1 .. Len(to) + Len(r) - Len(was) /\ j - Len(to) + Len(was) = i
      BY <1>1, <2>2
    <3> HIDE DEF j
    <3>2. To(was, to, r)[j] = r[i]
      BY <3>1, ToIs
    <3>3. j \in Len(to) + 1 .. Len(to) + Len(s) - Len(was)
      BY <1>2, <3>1
    <3>4. To(was, to, s)[j] = s[i]
      BY <3>1, <3>3, ToIs
    <3> QED BY <3>2, <3>4
  <2> QED BY <2>1, <2>2
<1> QED BY <1>2, <1>3, SeqEqual DEF Path

\* What lies above a place in the directory that is moved: something above its new
\* place, or what has moved with it.
LEMMA ToAncestors ==
    ASSUME NEW was \in Path, NEW to \in Path, NEW r \in Path, Inside(was, r), NEW q \in Ancestors(To(was, to, r))
    PROVE  q \in Ancestors(to) \/ \E s \in Ancestors(r) : Inside(was, s) /\ q = To(was, to, s)
<1>1. /\ Len(was) \in Nat \ {0} /\ Len(r) \in Nat /\ Len(to) \in Nat /\ Len(was) <= Len(r)
      /\ r \in Seq(Seg) /\ \A i \in 1 .. Len(r) : r[i] \in Seg
  BY InIs, PathIs
<1>2. q \in Path /\ Over(q, To(was, to, r)) /\ Len(q) \in Nat
  BY ToIs, AncestorsAre, PathIs
<1>3. Len(q) < Len(to) + Len(r) - Len(was)
  BY <1>2, ToIs DEF Over
<1>4. CASE Len(q) < Len(to)
  <2>1. ASSUME NEW i \in 1 .. Len(q) PROVE q[i] = to[i]
    <3>1. i \in 1 .. Len(to)
      BY <1>1, <1>2, <1>4
    <3> QED BY <1>2, <3>1, ToIs DEF Over
  <2> QED BY <1>2, <1>4, <2>1, AncestorsAre DEF Over
<1>5. CASE ~ (Len(q) < Len(to))
  <2> DEFINE n == Len(q) - Len(to) + Len(was)
             s == SubSeq(r, 1, n)
  <2>1. n \in 1 .. Len(r) - 1 /\ Len(was) <= n /\ n \in Nat /\ Len(q) = Len(to) + n - Len(was)
    BY <1>1, <1>2, <1>3, <1>5
  <2> HIDE DEF n
  <2>2. s \in Ancestors(r)
    BY <2>1 DEF Ancestors
  <2>3. s \in Path /\ Over(s, r)
    BY <2>2, AncestorsAre
  <2>4. Len(s) = n
    <3>1. \A i \in 1 .. n : r[i] \in Seg
      BY <1>1, <2>1
    <3> QED BY <2>1, <3>1, SubSeqProperties
  <2> HIDE DEF s
  <2>5. Inside(was, s)
    <3>1. ASSUME NEW i \in 1 .. Len(was) PROVE was[i] = s[i]
      <4>1. i \in 1 .. n
        BY <1>1, <2>1
      <4> QED BY <2>3, <2>4, <4>1, InIs DEF Over
    <3>2. CASE Len(was) = n
      BY <2>3, <2>4, <3>1, <3>2, SeqEqual DEF Path, Inside
    <3>3. CASE Len(was) # n
      <4>1. Len(was) < n
        BY <1>1, <2>1, <3>3
      <4> QED BY <2>3, <2>4, <3>1, <4>1, AncestorsAre DEF Inside, Over
    <3> QED BY <3>2, <3>3
  <2>6. q = To(was, to, s)
    <3>1. To(was, to, s) \in Path /\ Len(To(was, to, s)) = Len(q)
      BY <2>1, <2>3, <2>4, <2>5, ToIs
    <3>2. ASSUME NEW i \in 1 .. Len(q) PROVE q[i] = To(was, to, s)[i]
      <4>1. q[i] = To(was, to, r)[i]
        BY <1>2 DEF Over
      <4>2. CASE i <= Len(to)
        <5>1. i \in 1 .. Len(to)
          BY <1>1, <4>2
        <5>2. To(was, to, r)[i] = to[i]
          BY <5>1, ToIs
        <5>3. To(was, to, s)[i] = to[i]
          BY <2>3, <2>5, <5>1, ToIs
        <5> QED BY <4>1, <5>2, <5>3
      <4>3. CASE ~ (i <= Len(to))
        <5> DEFINE k == i - Len(to) + Len(was)
        <5>1. /\ i \in Len(to) + 1 .. Len(to) + Len(r) - Len(was) /\ i \in Len(to) + 1 .. Len(to) + Len(s) - Len(was)
              /\ k \in 1 .. n
          BY <1>1, <1>2, <1>3, <2>1, <2>4, <4>3
        <5>2. To(was, to, r)[i] = r[k] /\ To(was, to, s)[i] = s[k]
          BY <2>3, <2>5, <5>1, ToIs
        <5> HIDE DEF k
        <5>3. s[k] = r[k]
          BY <2>3, <2>4, <5>1 DEF Over
        <5> QED BY <4>1, <5>2, <5>3
      <4> QED BY <4>2, <4>3
    <3> QED BY <1>2, <3>1, <3>2, SeqEqual DEF Path
  <2> QED BY <2>2, <2>5, <2>6
<1> QED BY <1>4, <1>5

LEMMA RenameKeeps ==
    ASSUME NEW d, TreeOK(d), NEW was \in DOMAIN d, NEW to \in Path, to \notin DOMAIN d, was \notin Ancestors(to),
           \A q \in Ancestors(to) : q \in DOMAIN d /\ d[q].kind = "folder"
    PROVE  /\ TreeOK(Rename(d, was, to)) /\ Stays(d, Rename(d, was, to))
           /\ to \in DOMAIN Rename(d, was, to) /\ Rename(d, was, to)[to] = d[was]
           /\ One(d) => One(Rename(d, was, to))
           /\ \A q \in DOMAIN Rename(d, was, to) :
                 \E r \in DOMAIN d : Rename(d, was, to)[q] = d[r] /\ (r = was => q = to)
<1> DEFINE e   == Rename(d, was, to)
           old == {was} \cup Beneath(d, was)
<1>0. was \in Path /\ \A q \in DOMAIN d : q \in Path
  BY DEF TreeOK
<1>1. \A r \in old : r \in DOMAIN d /\ r \in Path /\ Inside(was, r)
  BY <1>0 DEF Beneath, Inside
<1>2. \A r \in DOMAIN d : Inside(was, r) => r \in old
  BY DEF Beneath, Inside
<1>3. /\ DOMAIN e = (DOMAIN d \ old) \cup {To(was, to, r) : r \in old} /\ e = [q \in DOMAIN e |-> e[q]]
      /\ \A q \in DOMAIN e : e[q] = IF \E r \in old : To(was, to, r) = q
                                  THEN d[CHOOSE r \in old : To(was, to, r) = q] ELSE d[q]
  BY DEF Rename, To
<1> HIDE DEF e, old
<1>4. \A r \in old : To(was, to, r) \in Path /\ Inside(to, To(was, to, r))
  <2> TAKE r \in old
  <2>1. /\ To(was, to, r) \in Path /\ Len(To(was, to, r)) = Len(to) + Len(r) - Len(was)
        /\ \A i \in 1 .. Len(to) : To(was, to, r)[i] = to[i]
    BY <1>0, <1>1, ToIs
  <2>2. Len(was) \in Nat /\ Len(r) \in Nat /\ Len(to) \in Nat /\ Len(was) <= Len(r)
    BY <1>0, <1>1, InIs, PathIs
  <2>3. CASE Len(was) = Len(r)
    <3>1. Len(To(was, to, r)) = Len(to)
      BY <2>1, <2>2, <2>3
    <3> QED BY <2>1, <3>1, SeqEqual DEF Inside, Path
  <2>4. CASE Len(was) # Len(r)
    <3>1. Len(to) < Len(To(was, to, r))
      BY <2>1, <2>2, <2>4
    <3> QED BY <2>1, <3>1, AncestorsAre DEF Inside, Over
  <2> QED BY <2>1, <2>3, <2>4
\* Nothing is at the new names yet.
<1>5. \A r \in old : To(was, to, r) \notin DOMAIN d
  BY <1>4 DEF Inside, TreeOK
<1>6. \A r \in old : To(was, to, r) \in DOMAIN e /\ e[To(was, to, r)] = d[r]
  <2> TAKE r \in old
  <2>1. To(was, to, r) \in DOMAIN e
    BY <1>3
  <2> DEFINE s == CHOOSE s \in old : To(was, to, s) = To(was, to, r)
  <2>2. s \in old /\ To(was, to, s) = To(was, to, r)
    OBVIOUS
  <2>3. e[To(was, to, r)] = d[s]
    BY <1>3, <2>1
  <2> HIDE DEF s
  <2>4. s = r
    BY <1>0, <1>1, <2>2, ToOnce
  <2> QED BY <2>1, <2>3, <2>4
<1>7. \A q \in DOMAIN d \ old : q \in DOMAIN e /\ e[q] = d[q]
  BY <1>3, <1>5
<1>8. \A q \in DOMAIN e : q \in DOMAIN d \ old \/ \E r \in old : q = To(was, to, r)
  BY <1>3
<1>9. DOMAIN e \subseteq Path /\ \A q \in DOMAIN e : e[q] \in Entry /\ (e[q].kind = "folder" => e[q].work = {})
  <2> SUFFICES ASSUME NEW q \in DOMAIN e PROVE q \in Path /\ e[q] \in Entry /\ (e[q].kind = "folder" => e[q].work = {})
    OBVIOUS
  <2>1. CASE q \in DOMAIN d \ old
    BY <1>0, <1>7, <2>1 DEF TreeOK
  <2>2. CASE \E r \in old : q = To(was, to, r)
    <3>1. PICK r \in old : q = To(was, to, r)
      BY <2>2
    <3>2. r \in DOMAIN d /\ e[q] = d[r] /\ q \in Path
      BY <1>1, <1>4, <1>6, <3>1
    <3> QED BY <3>2 DEF TreeOK
  <2> QED BY <1>8, <2>1, <2>2
<1>10. ASSUME NEW q \in DOMAIN e, NEW a \in Ancestors(q) PROVE a \in DOMAIN e /\ e[a].kind = "folder"
  <2>1. CASE q \in DOMAIN d \ old
    <3>1. a \in DOMAIN d /\ d[a].kind = "folder"
      BY <2>1 DEF TreeOK
    <3>2. a \notin old
      <4>1. SUFFICES ASSUME a \in old PROVE FALSE
        OBVIOUS
      <4>2. was \in Ancestors(q)
        BY <1>0, <1>1, <2>1, <4>1, AncestorOfAncestor DEF Inside
      <4> QED BY <1>2, <2>1, <4>2 DEF Inside
    <3> QED BY <1>7, <3>1, <3>2
  <2>2. CASE \E r \in old : q = To(was, to, r)
    <3>1. PICK r \in old : q = To(was, to, r)
      BY <2>2
    <3>2. CASE a \in Ancestors(to)
      <4>1. a \in DOMAIN d /\ d[a].kind = "folder"
        BY <3>2
      <4>2. a \notin old
        <5>1. SUFFICES ASSUME a \in old PROVE FALSE
          OBVIOUS
        <5>2. was \in Ancestors(to)
          BY <1>0, <1>1, <3>2, <5>1, AncestorOfAncestor DEF Inside
        <5> QED BY <5>2
      <4> QED BY <1>7, <4>1, <4>2
    <3>3. CASE \E s \in Ancestors(r) : Inside(was, s) /\ a = To(was, to, s)
      <4>1. PICK s \in Ancestors(r) : Inside(was, s) /\ a = To(was, to, s)
        BY <3>3
      <4>2. s \in DOMAIN d /\ d[s].kind = "folder"
        BY <1>1 DEF TreeOK
      <4>3. s \in old
        BY <1>2, <4>1, <4>2
      <4> QED BY <1>6, <4>1, <4>2, <4>3
    <3> QED BY <1>0, <1>1, <3>1, <3>2, <3>3, ToAncestors
  <2> QED BY <1>8, <2>1, <2>2
<1>11. TreeOK(e)
  BY <1>3, <1>9, <1>10 DEF TreeOK
<1>12. Held(e) = Held(d)
  <2>1. ASSUME NEW q \in DOMAIN e PROVE \E p \in DOMAIN d : e[q].work = d[p].work
    BY <1>1, <1>6, <1>7, <1>8
  <2>2. ASSUME NEW p \in DOMAIN d PROVE \E q \in DOMAIN e : e[q].work = d[p].work
    <3>1. CASE p \in old
      BY <1>6, <3>1
    <3>2. CASE p \notin old
      BY <1>7, <3>2
    <3> QED BY <3>1, <3>2
  <2>3. Held(e) \subseteq Held(d)
    BY <2>1 DEF Held
  <2>4. Held(d) \subseteq Held(e)
    BY <2>2 DEF Held
  <2> QED BY <2>3, <2>4
<1>13. To(was, to, was) = to /\ was \in old
  <2>1. was \in old /\ Inside(was, was)
    BY DEF old, Inside
  <2>2. Len(was) \in Nat /\ Len(to) \in Nat
    BY <1>0, PathIs
  <2>3. /\ To(was, to, was) \in Path /\ Len(To(was, to, was)) = Len(to) + Len(was) - Len(was)
        /\ \A i \in 1 .. Len(to) : To(was, to, was)[i] = to[i]
    BY <1>0, <2>1, ToIs
  <2>4. Len(To(was, to, was)) = Len(to)
    BY <2>2, <2>3
  <2> QED BY <2>1, <2>3, <2>4, SeqEqual DEF Path
<1> DEFINE From(q, r) == (r \notin old /\ q = r) \/ (r \in old /\ q = To(was, to, r))
<1>14. \A q \in DOMAIN e : \E r \in DOMAIN d : e[q] = d[r] /\ From(q, r)
  BY <1>1, <1>6, <1>7, <1>8
<1>15. ASSUME One(d), NEW p \in DOMAIN e, NEW q \in DOMAIN e, e[p].id = e[q].id, e[p].id # NoOne PROVE p = q
  <2> HIDE DEF From
  <2>1. PICK r \in DOMAIN d : e[p] = d[r] /\ From(p, r)
    BY <1>14
  <2>2. PICK z \in DOMAIN d : e[q] = d[z] /\ From(q, z)
    BY <1>14
  <2>3. r = z
    BY <1>15, <2>1, <2>2 DEF One
  <2> QED BY <2>1, <2>2, <2>3 DEF From
<1>16. \A q \in DOMAIN e : \E r \in DOMAIN d : e[q] = d[r] /\ (r = was => q = to)
  <2> TAKE q \in DOMAIN e
  <2>1. PICK r \in DOMAIN d : e[q] = d[r] /\ From(q, r)
    BY <1>14
  <2> QED BY <1>13, <2>1
<1>17. One(d) => One(e)
  BY <1>15 DEF One
<1>18. OwnKept(d, e)
  <2> DEFINE f == [r \in DOMAIN d |-> IF r \in old THEN To(was, to, r) ELSE r]
             g == [r \in Own(d) |-> f[r]]
  <2>1. \A r \in DOMAIN d : f[r] \in DOMAIN e /\ e[f[r]] = d[r]
    BY <1>6, <1>7
  <2>2. \A q \in DOMAIN e : \E r \in DOMAIN d : q = f[r]
    BY <1>1, <1>8
  <2>3. \A r, s \in DOMAIN d : f[r] = f[s] => r = s
    BY <1>0, <1>1, <1>5, ToOnce
  <2> HIDE DEF f
  <2>4. Tidy(d) => Tidy(e)
    <3>1. f \in Surjection(DOMAIN d, DOMAIN e)
      BY <2>1, <2>2 DEF Surjection, f
    <3>2. IsFiniteSet(DOMAIN d) => IsFiniteSet(DOMAIN e)
      BY <3>1, FS_Surjection
    <3> QED BY <2>1, <2>2, <3>2 DEF Tidy
  <2>5. g \in [Own(d) -> Own(e)] /\ \A r \in Own(d) : g[r] = f[r] /\ r \in DOMAIN d
    BY <2>1 DEF Own
  <2> HIDE DEF g
  <2>6. \A p, q \in Own(d) : e[g[p]].id = d[p].id /\ (g[p] = g[q] => p = q)
    BY <2>1, <2>3, <2>5
  <2> QED BY <2>4, <2>5, <2>6 DEF OwnKept
<1> QED BY <1>6, <1>11, <1>12, <1>13, <1>16, <1>17, <1>18 DEF e, Stays

\* Another identity changes nothing of what is there.
Named(d, p, x, t) == [d EXCEPT ![p].id = x, ![p].tag = t]

LEMMA IdentifyKeeps ==
    ASSUME NEW d, TreeOK(d), NEW p \in DOMAIN d, NEW x \in Id \cup {NoOne}, NEW t \in Version \cup {NoOne},
           d[p].kind = "folder"
    PROVE  TreeOK(Named(d, p, x, t)) /\ Stays(d, Named(d, p, x, t))
<1> DEFINE e == [d EXCEPT ![p].id = x, ![p].tag = t]
<1>1. d \in [DOMAIN d -> Entry] /\ d[p] \in Entry
  BY DEF TreeOK
<1>2. /\ DOMAIN e = DOMAIN d /\ e = [q \in DOMAIN e |-> e[q]]
      /\ \A q \in DOMAIN d : q # p => e[q] = d[q]
      /\ e[p] = [[d[p] EXCEPT !.id = x] EXCEPT !.tag = t]
  BY <1>1
<1>3. e[p] \in Entry /\ e[p].kind = d[p].kind /\ e[p].work = d[p].work
  BY <1>1, <1>2 DEF Entry
<1> HIDE DEF e
<1>4. \A q \in DOMAIN d : e[q] \in Entry /\ e[q].kind = d[q].kind /\ e[q].work = d[q].work
  BY <1>1, <1>2, <1>3
<1>5. TreeOK(e)
  BY <1>2, <1>4 DEF TreeOK
<1>6. Held(e) = Held(d)
  BY <1>2, <1>4 DEF Held
<1>7. OwnKept(d, e)
  <2>1. Tidy(d) => Tidy(e)
    BY <1>2, <1>3 DEF Tidy
  <2>2. \A q \in Own(d) : q \in Own(e) /\ e[q].id = d[q].id
    BY <1>2 DEF Own
  <2> QED BY <2>1, <2>2, OwnSame
<1> QED BY <1>5, <1>6, <1>7 DEF e, Named, Stays

-----------------------------------------------------------------------------
(* One change keeps the directory whole, and every byte in it.             *)

IsState(s) == s \in [root : {s.root}, files : {s.files}, folders : {s.folders}, retry : {s.retry},
                     did : {s.did}, failed : {s.failed}, abort : {s.abort}]
\* The pass has come from d to s and lost nothing on the way.
Keeps(d, s) == IsState(s) /\ TreeOK(s.root) /\ Stays(d, s.root)

LEMMA RetryKeeps == ASSUME NEW d, NEW s, Keeps(d, s) PROVE Keeps(d, Retry(s)) /\ Keeps(d, Failed(s))
BY DEF Keeps, IsState, Retry, Failed

LEMMA KeepsThen ==
    ASSUME NEW d, NEW s, Keeps(d, s), NEW t, IsState(t), TreeOK(t.root), Stays(s.root, t.root) PROVE Keeps(d, t)
BY StaysThen DEF Keeps

LEMMA ClaimKeeps ==
    ASSUME NEW d, NEW s, Keeps(d, s), NEW c \in Call, c.path \in DOMAIN s.root PROVE Keeps(d, Claim(s, c))
<1> DEFINE e == Named(s.root, c.path, c.id, c.tag)
<1>1. s.root[c.path].kind # "file" => TreeOK(e) /\ Stays(s.root, e)
  <2>1. c.id \in Id \cup {NoOne} /\ c.tag \in Version \cup {NoOne}
    BY DEF Call
  <2> QED BY <2>1, EntryIs, IdentifyKeeps DEF Keeps
<1>2. ASSUME NEW f, s.root[c.path].kind # "file"
      PROVE  Keeps(d, [s EXCEPT !.root[c.path].id = c.id, !.root[c.path].tag = c.tag, !.folders = f])
  <2> DEFINE t == [s EXCEPT !.root[c.path].id = c.id, !.root[c.path].tag = c.tag, !.folders = f]
  <2>1. IsState(t) /\ t.root = e
    BY DEF Keeps, IsState, Named
  <2> HIDE DEF e, t
  <2>2. Keeps(d, t)
    BY <1>1, <1>2, <2>1, KeepsThen
  <2> QED BY <2>2 DEF t
<1> QED BY <1>2, RetryKeeps DEF Claim

LEMMA MovedKeeps ==
    ASSUME NEW d, NEW s, Keeps(d, s), NEW c \in Call, NEW was \in DOMAIN s.root,
           c.path \notin DOMAIN s.root, ~Blocked(s.root, c.path), was \notin Ancestors(c.path)
    PROVE  Keeps(d, Moved(s, was, c)) /\ c.path \in DOMAIN Moved(s, was, c).root
<1> DEFINE m == Mkdirs(s.root, c.path)
           e == Rename(m, was, c.path)
<1>1. c.path \in Path /\ c.path \notin Ancestors(c.path)
  BY ParentIs DEF Call
<1>2. /\ TreeOK(m) /\ Stays(s.root, m) /\ DOMAIN m = DOMAIN s.root \cup Ancestors(c.path)
      /\ \A q \in Ancestors(c.path) : m[q].kind = "folder"
  BY <1>1, MkdirsKeeps DEF Keeps
<1> HIDE DEF m
<1>3. TreeOK(e) /\ Stays(m, e) /\ c.path \in DOMAIN e
  BY <1>1, <1>2, RenameKeeps
<1>4. IsState(Moved(s, was, c)) /\ Moved(s, was, c).root = e
  BY DEF Keeps, IsState, Moved, m
<1>5. Stays(s.root, e)
  BY <1>2, <1>3, StaysThen
<1> QED BY <1>3, <1>4, <1>5, KeepsThen

\* What is put at a free name, or in the place of a file that has nothing of the user's.
LEMMA FreshKeeps ==
    ASSUME NEW d, TreeOK(d), NEW p \in Path, NEW v \in Entry, v.work = {}, v.kind = "folder" \/ v.id # NoOne,
           \A q \in Ancestors(p) : q \in DOMAIN d /\ d[q].kind = "folder",
           p \in DOMAIN d => d[p].work = {} /\ d[p].kind = "file"
    PROVE  TreeOK(With(d, p, v)) /\ Stays(d, With(d, p, v))
<1>1. /\ v.kind = "folder" => v.work = {}
      /\ v.kind = "file" /\ v.id = NoOne => v.work # {}
      /\ p \in DOMAIN d => d[p].work \subseteq v.work /\ (d[p].kind = "folder" => v.kind = "folder")
      /\ p \in Own(d) => v.kind = "file" /\ v.id = d[p].id
  BY DEF Own
<1>2. /\ TreeOK(With(d, p, v)) /\ Held(With(d, p, v)) = Held(d) \cup v.work
      /\ OwnKept(d, With(d, p, v))
  BY <1>1, WithKeeps
<1> QED BY <1>2 DEF Stays

LEMMA UpsertFolderKeeps == ASSUME NEW d, NEW s, Keeps(d, s), NEW c \in Call PROVE Keeps(d, UpsertFolder(s, c))
<1> DEFINE free  == c.path \notin DOMAIN s.root
           moves == Elsewhere(s, s.folders, c)
           m     == Mkdirs(s.root, c.path)
           fresh == [s EXCEPT !.root = With(Mkdirs(@, c.path), c.path, Unknown), !.did = TRUE]
<1>1. c.path \in Path
  BY DEF Call
<1>2. CASE ~free
  BY <1>2, RetryKeeps, ClaimKeeps DEF UpsertFolder
<1>3. CASE free /\ Blocked(s.root, c.path)
  <2>1. Keeps(d, [s EXCEPT !.abort = TRUE])
    BY DEF Keeps, IsState
  <2> QED BY <1>3, <2>1, RetryKeeps DEF UpsertFolder
<1>4. CASE free /\ ~Blocked(s.root, c.path)
  <2>1. /\ TreeOK(m) /\ Stays(s.root, m) /\ DOMAIN m = DOMAIN s.root \cup Ancestors(c.path)
        /\ \A q \in Ancestors(c.path) : m[q].kind = "folder"
    BY <1>1, <1>4, MkdirsKeeps DEF Keeps
  <2>2. CASE moves /\ s.folders[c.id] \in Ancestors(c.path)
    <3> DEFINE t == [s EXCEPT !.root = Mkdirs(@, c.path)]
    <3>0. IsState(t) /\ t.root = m
      BY DEF Keeps, IsState
    <3> HIDE DEF m, t
    <3>1. Keeps(d, t)
      BY <2>1, <3>0, KeepsThen
    <3> USE DEF t
    <3> QED BY <1>4, <2>2, <3>1, RetryKeeps DEF UpsertFolder
  <2>3. CASE moves /\ s.folders[c.id] \notin Ancestors(c.path)
    <3>1. s.folders[c.id] \in DOMAIN s.root
      BY <2>3 DEF Elsewhere
    <3>2. Keeps(d, Moved(s, s.folders[c.id], c)) /\ c.path \in DOMAIN Moved(s, s.folders[c.id], c).root
      BY <1>4, <2>3, <3>1, MovedKeeps
    <3>3. Keeps(d, Claim(Moved(s, s.folders[c.id], c), c))
      BY <3>2, ClaimKeeps
    <3> QED BY <1>4, <2>3, <3>3 DEF UpsertFolder
  <2>4. CASE ~moves
    <3>1. c.path \notin DOMAIN m
      BY <1>1, <1>4, <2>1, ParentIs
    <3>2. TreeOK(With(m, c.path, Unknown)) /\ Stays(m, With(m, c.path, Unknown))
      <4>1. Unknown.kind = "folder" /\ Unknown.work = {}
        BY UnknownIs
      <4>2. \A q \in Ancestors(c.path) : q \in DOMAIN m /\ m[q].kind = "folder"
        BY <2>1
      <4> HIDE DEF m
      <4> QED BY <1>1, <2>1, <3>1, <4>1, <4>2, UnknownIs, FreshKeeps
    <3>3. c.path \in DOMAIN With(m, c.path, Unknown)
      BY DEF With
    <3>4. IsState(fresh) /\ fresh.root = With(m, c.path, Unknown)
      BY DEF Keeps, IsState
    <3> HIDE DEF m, fresh
    <3>5. Keeps(d, fresh) /\ c.path \in DOMAIN fresh.root
      BY <2>1, <3>2, <3>3, <3>4, StaysThen, KeepsThen
    <3>6. Keeps(d, Claim(fresh, c))
      BY <3>5, ClaimKeeps
    <3>7. UpsertFolder(s, c) = Claim(fresh, c)
      BY <1>4, <2>4 DEF UpsertFolder, fresh
    <3> QED BY <3>6, <3>7
  <2> QED BY <2>2, <2>3, <2>4
<1> QED BY <1>2, <1>3, <1>4

LEMMA PlaceKeeps ==
    ASSUME NEW d, NEW s, Keeps(d, s), NEW c \in Call,
           c.path \in DOMAIN s.root => s.root[c.path].kind = "file" /\ s.root[c.path].work = {}
    PROVE  Keeps(d, Place(s, c))
<1> DEFINE m == Mkdirs(s.root, c.path)
           v == [kind |-> "file", id |-> c.id, tag |-> c.tag, work |-> {}]
<1>1. c.path \in Path /\ v \in Entry
  BY DEF Call, Entry
<1>2. CASE ~Blocked(s.root, c.path)
  <2>1. /\ TreeOK(m) /\ Stays(s.root, m) /\ DOMAIN m = DOMAIN s.root \cup Ancestors(c.path)
        /\ \A q \in DOMAIN s.root : m[q] = s.root[q]
        /\ \A q \in Ancestors(c.path) : m[q].kind = "folder"
    BY <1>1, <1>2, MkdirsKeeps DEF Keeps
  <2>2. c.path \in DOMAIN m => m[c.path].kind = "file" /\ m[c.path].work = {}
    BY <1>1, <2>1, ParentIs
  <2>3. TreeOK(With(m, c.path, v)) /\ Stays(m, With(m, c.path, v))
    <3>1. v.work = {} /\ v.id # NoOne
      BY PassAssumption DEF Call
    <3>2. \A q \in Ancestors(c.path) : q \in DOMAIN m /\ m[q].kind = "folder"
      BY <2>1
    <3> HIDE DEF m, v
    <3> QED BY <1>1, <2>1, <2>2, <3>1, <3>2, FreshKeeps
  <2>4. IsState(Place(s, c)) /\ Place(s, c).root = With(m, c.path, v)
    BY <1>2 DEF Keeps, IsState, Place
  <2> HIDE DEF m, v
  <2> QED BY <2>1, <2>3, <2>4, StaysThen, KeepsThen
<1> QED BY <1>2, RetryKeeps DEF Place

LEMMA PutFileKeeps == ASSUME NEW d, NEW s, Keeps(d, s), NEW c \in Call PROVE Keeps(d, PutFile(s, c))
<1>1. CASE c.path \notin DOMAIN s.root
  BY <1>1, PlaceKeeps DEF PutFile
<1>2. CASE c.path \in DOMAIN s.root
  <2> DEFINE here == s.root[c.path]
  <2>1. here.kind \in {"file", "folder"}
    BY <1>2, EntryIs DEF Keeps
  <2>2. CASE here.kind = "file" /\ here.work = {}
    <3>1. Keeps(d, Place(s, c))
      BY <2>2, PlaceKeeps
    <3> QED BY <1>2, <2>2, <3>1 DEF PutFile
  <2>3. CASE here.kind = "file" /\ here.work # {}
    BY <1>2, <2>3 DEF PutFile
  <2>4. CASE here.kind = "folder"
    BY <1>2, <2>4, RetryKeeps DEF PutFile
  <2> QED BY <2>1, <2>2, <2>3, <2>4
<1> QED BY <1>1, <1>2

LEMMA UpsertFileKeeps == ASSUME NEW d, NEW s, Keeps(d, s), NEW c \in Call PROVE Keeps(d, UpsertFile(s, c))
<1> DEFINE was == s.files[c.id]
<1>1. CASE ~Elsewhere(s, s.files, c)
  BY <1>1, PutFileKeeps DEF UpsertFile
<1>2. CASE Elsewhere(s, s.files, c) /\ (c.path \in DOMAIN s.root \/ Blocked(s.root, c.path))
  BY <1>2, RetryKeeps DEF UpsertFile
<1>3. CASE /\ Elsewhere(s, s.files, c) /\ c.path \notin DOMAIN s.root /\ ~Blocked(s.root, c.path)
           /\ was \in Ancestors(c.path)
  <2> DEFINE t == [s EXCEPT !.root = Mkdirs(@, c.path)]
  <2>1. TreeOK(Mkdirs(s.root, c.path)) /\ Stays(s.root, Mkdirs(s.root, c.path))
    BY <1>3, MkdirsKeeps DEF Keeps, Call
  <2>2. Keeps(d, t)
    <3>1. IsState(t) /\ t.root = Mkdirs(s.root, c.path)
      BY DEF Keeps, IsState
    <3> HIDE DEF t
    <3> QED BY <2>1, <3>1, KeepsThen
  <2> QED BY <1>3, <2>2, RetryKeeps DEF UpsertFile
<1>4. CASE /\ Elsewhere(s, s.files, c) /\ c.path \notin DOMAIN s.root /\ ~Blocked(s.root, c.path)
           /\ was \notin Ancestors(c.path)
  <2> DEFINE t == [Moved(s, was, c) EXCEPT !.files[c.id] = c.path]
  <2>1. Keeps(d, Moved(s, was, c))
    BY <1>4, MovedKeeps DEF Elsewhere
  <2>2. Keeps(d, t)
    BY <2>1 DEF Keeps, IsState
  <2> HIDE DEF t
  <2>3. Keeps(d, PutFile(t, c))
    BY <2>2, PutFileKeeps
  <2> QED BY <1>4, <2>3 DEF UpsertFile, t
<1> QED BY <1>1, <1>2, <1>3, <1>4

LEMMA RemoveFileKeeps == ASSUME NEW d, NEW s, Keeps(d, s), NEW c \in Call PROVE Keeps(d, RemoveFile(s, c))
<1> DEFINE p == s.files[c.id]
<1>1. CASE c.id \notin DOMAIN s.files \/ p \notin DOMAIN s.root
  BY <1>1 DEF RemoveFile
<1>2. CASE c.id \in DOMAIN s.files /\ p \in DOMAIN s.root /\ s.root[p].work # {}
  BY <1>2 DEF RemoveFile
<1>3. CASE c.id \in DOMAIN s.files /\ p \in DOMAIN s.root /\ s.root[p].work = {} /\ s.root[p].kind = "folder"
  BY <1>3, RetryKeeps DEF RemoveFile
<1>4. CASE c.id \in DOMAIN s.files /\ p \in DOMAIN s.root /\ s.root[p].work = {} /\ s.root[p].kind # "folder"
  <2> DEFINE t == [s EXCEPT !.root = Without(@, {p}), !.did = TRUE]
  <2>1. TreeOK(Without(s.root, {p})) /\ Stays(s.root, Without(s.root, {p}))
    BY <1>4, EntryIs, WithoutKeeps DEF Keeps
  <2>2. Keeps(d, t)
    <3>1. IsState(t) /\ t.root = Without(s.root, {p})
      BY DEF Keeps, IsState
    <3> HIDE DEF t
    <3> QED BY <2>1, <3>1, KeepsThen
  <2> QED BY <1>4, <2>2 DEF RemoveFile
<1> QED BY <1>1, <1>2, <1>3, <1>4

LEMMA RemoveFolderKeeps == ASSUME NEW d, NEW s, Keeps(d, s), NEW c \in Call PROVE Keeps(d, RemoveFolder(s, c))
<1> DEFINE p    == s.folders[c.id]
           lost == [s EXCEPT !.folders = Without(@, {c.id})]
<1>0. Keeps(d, lost) /\ lost.root = s.root
  BY DEF Keeps, IsState
<1>1. CASE c.id \notin DOMAIN s.folders
  BY <1>1 DEF RemoveFolder
<1>2. CASE c.id \in DOMAIN s.folders /\ p \notin DOMAIN s.root
  BY <1>0, <1>2 DEF RemoveFolder
<1>3. CASE c.id \in DOMAIN s.folders /\ p \in DOMAIN s.root /\ s.root[p].kind = "file"
  BY <1>3, RetryKeeps DEF RemoveFolder
<1>4. CASE c.id \in DOMAIN s.folders /\ p \in DOMAIN s.root /\ s.root[p].kind # "file" /\ Beneath(s.root, p) # {}
  <2> DEFINE e == Named(s.root, p, NoOne, NoOne)
             t == [lost EXCEPT !.root[p].id = NoOne, !.root[p].tag = NoOne]
  <2>1. TreeOK(e) /\ Stays(s.root, e)
    BY <1>4, EntryIs, IdentifyKeeps DEF Keeps
  <2>2. IsState(t) /\ t.root = e
    BY <1>0 DEF Keeps, IsState, Named
  <2>3. Keeps(d, t)
    <3> HIDE DEF t, e
    <3> QED BY <2>1, <2>2, KeepsThen
  <2>4. s.root[p].kind = "folder"
    BY <1>4, EntryIs DEF Keeps
  <2>5. RemoveFolder(s, c) = t
    BY <1>4, <2>4 DEF RemoveFolder
  <2> QED BY <2>3, <2>5
<1>5. CASE c.id \in DOMAIN s.folders /\ p \in DOMAIN s.root /\ s.root[p].kind # "file" /\ Beneath(s.root, p) = {}
  <2> DEFINE t == [lost EXCEPT !.root = Without(@, {p}), !.did = TRUE]
  <2>1. s.root[p].work = {}
    BY <1>5, EntryIs DEF Keeps, TreeOK
  <2>2. TreeOK(Without(s.root, {p})) /\ Stays(s.root, Without(s.root, {p}))
    BY <1>5, <2>1, WithoutKeeps DEF Keeps
  <2>3. IsState(t) /\ t.root = Without(s.root, {p})
    BY <1>0 DEF Keeps, IsState
  <2>4. Keeps(d, t)
    <3> HIDE DEF t
    <3> QED BY <2>2, <2>3, KeepsThen
  <2>5. RemoveFolder(s, c) = t
    BY <1>5 DEF RemoveFolder
  <2> QED BY <2>4, <2>5
<1> QED BY <1>1, <1>2, <1>3, <1>4, <1>5

LEMMA ApplyOneKeeps == ASSUME NEW d, NEW s, Keeps(d, s), NEW c \in Call PROVE Keeps(d, ApplyOne(s, c))
<1>1. c.op \in {"Removed", "FolderRemoved", "Upserted", "FolderUpserted"}
  BY DEF Call
<1> QED BY <1>1, RemoveFileKeeps, RemoveFolderKeeps, UpsertFileKeeps, UpsertFolderKeeps DEF ApplyOne

-----------------------------------------------------------------------------
(* The batch.                                                              *)

LEMMA LeastOf == ASSUME NEW S \in SUBSET Nat, S # {} PROVE \E m \in S : \A k \in S : m <= k
<1> DEFINE R == OpToRel(<, Nat)
<1>1. IsWellFoundedOn(R, Nat)
  BY NatLessThanWellFounded
<1>2. \A k, m \in Nat : <<k, m>> \in R <=> k < m
  BY DEF OpToRel
<1> HIDE DEF R
<1>3. \E m \in S : \A k \in S : ~ (<<k, m>> \in R)
  BY <1>1, WFMin
<1>4. \A k, m \in Nat : ~ (k < m) => m <= k
  OBVIOUS
<1>5. \A k \in S : k \in Nat
  OBVIOUS
<1> QED BY <1>2, <1>3, <1>4, <1>5

LEMMA LiveIs ==
    ASSUME NEW d, ListingOK(d)
    PROVE  /\ IsFiniteSet(Live(d)) /\ Cardinality(Live(d)) \in Nat /\ Live(d) \subseteq Id
           /\ \A x \in Live(d) : d[x] \in Item
<1>1. Live(d) \in SUBSET Id
  BY DEF Live
<1>2. IsFiniteSet(Live(d)) /\ Cardinality(Live(d)) \in Nat
  BY <1>1, FS_Subset, FS_CardinalityType, PassAssumption
<1>3. \A x \in Live(d) : d[x] \in Item
  BY DEF Live, ListingOK
<1> QED BY <1>1, <1>2, <1>3

\* s goes down n links, from a parent to its child.
Down(d, s, n) == \A i \in 1 .. n - 1 : d[s[i + 1]].parent = s[i]

\* A chain goes down was the root, and all its links are of the drive.
LEMMA ChainIs ==
    ASSUME NEW d, ListingOK(d), NEW x, NEW s \in Chains(d, x)
    PROVE  \E n \in Nat \ {0} :
              /\ n <= Cardinality(Live(d)) /\ s \in [1 .. n -> Live(d)] /\ s[n] = x /\ d[s[1]].parent = NoOne
              /\ Down(d, s, n)
<1>1. PICK n \in 1 .. Cardinality(Live(d)) : s \in [1 .. n -> Live(d)]
  BY DEF Chains
<1>2. /\ s[Len(s)] = x /\ d[s[1]].parent = NoOne
      /\ \A i \in 1 .. Len(s) - 1 : d[s[i + 1]].parent = s[i]
  BY DEF Chains
<1>3. n \in Nat \ {0} /\ n <= Cardinality(Live(d))
  BY LiveIs
<1>4. Len(s) = n
  BY <1>1, <1>3
<1> QED BY <1>1, <1>2, <1>3, <1>4 DEF Down

LEMMA IsChain ==
    ASSUME NEW d, ListingOK(d), NEW n \in Nat \ {0}, n <= Cardinality(Live(d)), NEW s \in [1 .. n -> Live(d)],
           d[s[1]].parent = NoOne, Down(d, s, n)
    PROVE  s \in Chains(d, s[n])
<1>1. n \in 1 .. Cardinality(Live(d))
  BY LiveIs
<1>2. Len(s) = n
  OBVIOUS
<1> QED BY <1>1, <1>2 DEF Chains, Down

LEMMA PathInIs ==
    ASSUME NEW d, ListingOK(d), NEW x \in Live(d)
    PROVE  /\ PathIn(d, x) \in Path
           /\ \E s \in Chains(d, x) : PathIn(d, x) = [i \in DOMAIN s |-> d[s[i]].name]
<1> DEFINE s == CHOOSE s \in Chains(d, x) : TRUE
<1>1. s \in Chains(d, x)
  BY DEF ListingOK, Acyclic
<1>2. PathIn(d, x) = [i \in DOMAIN s |-> d[s[i]].name]
  BY DEF PathIn
<1> HIDE DEF s
<1>3. PICK n \in Nat \ {0} : s \in [1 .. n -> Live(d)]
  BY <1>1, ChainIs
<1>4. \A i \in 1 .. n : d[s[i]].name \in Seg
  BY <1>3, LiveIs DEF Item
<1>5. PathIn(d, x) \in [1 .. n -> Seg]
  BY <1>2, <1>3, <1>4
<1>6. PathIn(d, x) \in Seq(Seg) /\ Len(PathIn(d, x)) = n
  BY <1>3, <1>5
<1>7. PathIn(d, x) # <<>>
  BY <1>3, <1>6, EmptySeq
<1> QED BY <1>1, <1>2, <1>6, <1>7 DEF Path

LEMMA SetToSeqsAre == ASSUME NEW T, NEW S \in SUBSET T, IsFiniteSet(S), NEW b \in SetToSeqs(S) PROVE b \in Seq(T)
<1>1. Cardinality(S) \in Nat /\ b \in [1 .. Cardinality(S) -> S]
  BY FS_CardinalityType DEF SetToSeqs
<1> QED BY <1>1

LEMMA PutIs == ASSUME NEW d, ListingOK(d), NEW x \in Live(d) PROVE Put(d, x) \in Call /\ Gone(d, x) \in Call
<1>1. x \in Id /\ d[x].tag \in Version
  BY LiveIs DEF Item
<1> QED BY <1>1, PathInIs DEF Put, Gone, Call

LEMMA JoinedAre ==
    ASSUME NEW T, NEW R, NEW S, R \subseteq Seq(T), S \subseteq Seq(T) PROVE Joined(R, S) \subseteq Seq(T)
<1> SUFFICES ASSUME NEW p \in R \X S PROVE p[1] \o p[2] \in Seq(T)
  BY DEF Joined
<1>1. p[1] \in Seq(T) /\ p[2] \in Seq(T) OBVIOUS
<1> QED BY <1>1, ConcatProperties

\* A batch says of what has gone that it has, and of the rest what it is; of each once.
Lost(old, new) == {Gone(old, x) : x \in Live(old) \ Live(new)}
Listing(new)   == {Put(new, x) : x \in Live(new)}

LEMMA BatchOf ==
    ASSUME NEW old, ListingOK(old), NEW new, ListingOK(new), NEW whole \in BOOLEAN,
           NEW b \in Batches(old, new, whole)
    PROVE  b \in Seq(Lost(old, new) \cup Listing(new))
<1> DEFINE lost == Lost(old, new)
           puts == Listing(new)
           T    == lost \cup puts
<1>1. IsFiniteSet(lost)
  <2>1. IsFiniteSet(Live(old) \ Live(new))
    BY LiveIs, FS_Difference
  <2> DEFINE f == [x \in Live(old) \ Live(new) |-> Gone(old, x)]
  <2>2. f \in Surjection(Live(old) \ Live(new), lost)
    BY DEF Surjection, Lost
  <2> QED BY <2>1, <2>2, FS_Surjection
<1>2. IsFiniteSet(puts)
  <2> DEFINE f == [x \in Live(new) |-> Put(new, x)]
  <2>1. f \in Surjection(Live(new), puts)
    BY DEF Surjection, Listing
  <2> QED BY <2>1, LiveIs, FS_Surjection
<1> DEFINE fs == {g \in lost : g.op = "Removed"}
           ds == {g \in lost : g.op = "FolderRemoved"}
<1>3. IsFiniteSet(fs) /\ IsFiniteSet(ds) /\ fs \in SUBSET T /\ ds \in SUBSET T
  <2>1. fs \in SUBSET lost /\ ds \in SUBSET lost
    OBVIOUS
  <2> HIDE DEF lost, fs, ds
  <2> QED BY <1>1, <2>1, FS_Subset
<1>4. lost \in SUBSET T /\ puts \in SUBSET T
  OBVIOUS
<1>5. Removals(old, new, whole) = IF whole THEN Listed(lost) ELSE Joined(Listed(fs), FromBelow(ds))
  BY DEF Removals, Lost
<1>6. b \in Joined(Removals(old, new, whole), Listed(puts))
  BY DEF Batches, Listing
<1> HIDE DEF lost, puts, fs, ds, T
<1>7. ASSUME NEW S \in SUBSET T, IsFiniteSet(S) PROVE Listed(S) \subseteq Seq(T) /\ FromBelow(S) \subseteq Seq(T)
  BY <1>7, SetToSeqsAre DEF Listed, FromBelow
<1>8. Removals(old, new, whole) \subseteq Seq(T)
  <2>1. Listed(lost) \subseteq Seq(T) /\ Listed(fs) \subseteq Seq(T) /\ FromBelow(ds) \subseteq Seq(T)
    BY <1>1, <1>3, <1>4, <1>7
  <2>2. Joined(Listed(fs), FromBelow(ds)) \subseteq Seq(T)
    BY <2>1, JoinedAre
  <2> QED BY <1>5, <2>1, <2>2
<1>9. Listed(puts) \subseteq Seq(T)
  BY <1>2, <1>4, <1>7
<1>10. b \in Seq(T)
  BY <1>6, <1>8, <1>9, JoinedAre
<1> QED BY <1>10 DEF T, lost, puts

LEMMA BatchIs ==
    ASSUME NEW old, ListingOK(old), NEW new, ListingOK(new), NEW whole \in BOOLEAN,
           NEW b \in Batches(old, new, whole)
    PROVE  b \in Seq(Call)
<1>1. Lost(old, new) \cup Listing(new) \subseteq Call
  BY PutIs DEF Lost, Listing
<1>2. b \in Seq(Lost(old, new) \cup Listing(new))
  BY BatchOf
<1> QED BY <1>1, <1>2

LEMMA CoalesceIs == ASSUME NEW b \in Seq(Call) PROVE Coalesce(b) \in Seq(Call)
<1> DEFINE S == {i \in DOMAIN b : ~ \E j \in DOMAIN b : j > i /\ b[j].id = b[i].id /\ b[j].op = b[i].op}
<1>1. DOMAIN b = 1 .. Len(b) /\ Len(b) \in Nat
  BY LenProperties
<1>2. IsFiniteSet(1 .. Len(b))
  BY <1>1, FS_Interval
<1>3. S \in SUBSET (1 .. Len(b))
  BY <1>1
<1>4. Coalesce(b) = InOrder(b, S)
  BY DEF Coalesce
<1> HIDE DEF S
<1>5. S \in SUBSET Nat /\ IsFiniteSet(S)
  <2>1. S \in SUBSET Nat
    BY <1>1, <1>3
  <2> QED BY <1>2, <1>3, <2>1, FS_Subset
<1>6. \A i \in S : b[i] \in Call
  BY <1>3, ElementOfSeq
<1> QED BY <1>4, <1>5, <1>6, InOrderLists

-----------------------------------------------------------------------------
(* The directory the drive describes.                                      *)

\* Two chains to one object agree was below, as far as both of them go.
LEMMA ChainsAgree ==
    ASSUME NEW d, ListingOK(d), NEW m \in Nat, NEW n \in Nat, NEW s, NEW t, s[m] = t[n],
           Down(d, s, m), Down(d, t, n)
    PROVE  \A k \in Nat : k < m /\ k < n => s[m - k] = t[n - k]
<1> DEFINE K == {k \in Nat : k < m /\ k < n /\ s[m - k] # t[n - k]}
<1>1. SUFFICES ASSUME K # {} PROVE FALSE
  OBVIOUS
<1>2. PICK k \in K : \A j \in K : k <= j
  <2>1. K \in SUBSET Nat OBVIOUS
  <2> HIDE DEF K
  <2> QED BY <1>1, <2>1, LeastOf
<1>3. k \in Nat /\ k < m /\ k < n /\ s[m - k] # t[n - k]
  OBVIOUS
<1>4. k # 0
  <2>1. m - 0 = m /\ n - 0 = n OBVIOUS
  <2> QED BY <1>3, <2>1
<1>5. s[m - k + 1] = t[n - k + 1]
  <2>1. k - 1 \in Nat /\ k - 1 < m /\ k - 1 < n /\ m - (k - 1) = m - k + 1 /\ n - (k - 1) = n - k + 1 /\ ~ (k <= k - 1)
    BY <1>3, <1>4
  <2>2. k - 1 \notin K
    BY <1>2, <2>1
  <2> QED BY <2>1, <2>2
<1>6. m - k \in 1 .. m - 1 /\ n - k \in 1 .. n - 1
  BY <1>3, <1>4
<1> HIDE DEF K
<1>7. d[s[m - k + 1]].parent = s[m - k]
  BY <1>6 DEF Down
<1>8. d[t[n - k + 1]].parent = t[n - k]
  BY <1>6 DEF Down
<1> QED BY <1>3, <1>5, <1>7, <1>8

LEMMA NoLongerChain ==
    ASSUME NEW d, ListingOK(d), NEW m \in Nat \ {0}, NEW n \in Nat \ {0}, NEW s,
           NEW t \in [1 .. n -> Live(d)], s[m] = t[n], d[s[1]].parent = NoOne,
           Down(d, s, m), Down(d, t, n)
    PROVE  ~ (m < n)
<1>1. SUFFICES ASSUME m < n PROVE FALSE
  OBVIOUS
<1>2. \A k \in Nat : k < m /\ k < n => s[m - k] = t[n - k]
  <2>1. m \in Nat /\ n \in Nat OBVIOUS
  <2> QED BY <2>1, ChainsAgree
<1>3. m - 1 \in Nat /\ m - 1 < m /\ m - 1 < n /\ m - (m - 1) = 1 /\ n - (m - 1) = n - m + 1
      /\ n - m \in 1 .. n - 1 /\ n - m \in 1 .. n
  BY <1>1
<1>4. s[1] = t[n - m + 1]
  BY <1>2, <1>3
<1>5. d[t[n - m + 1]].parent = t[n - m]
  BY <1>3 DEF Down
<1>6. t[n - m] \in Id
  BY <1>3, LiveIs
<1> QED BY <1>4, <1>5, <1>6, PassAssumption

LEMMA OneChain ==
    ASSUME NEW d, ListingOK(d), NEW x, NEW s \in Chains(d, x), NEW t \in Chains(d, x) PROVE s = t
<1>1. PICK m \in Nat \ {0} : /\ s \in [1 .. m -> Live(d)] /\ s[m] = x /\ d[s[1]].parent = NoOne
                             /\ Down(d, s, m)
  BY ChainIs
<1>2. PICK n \in Nat \ {0} : /\ t \in [1 .. n -> Live(d)] /\ t[n] = x /\ d[t[1]].parent = NoOne
                             /\ Down(d, t, n)
  BY ChainIs
<1>3. ~ (m < n)
  BY <1>1, <1>2, NoLongerChain
<1>4. ~ (n < m)
  BY <1>1, <1>2, NoLongerChain
<1>5. m = n
  BY <1>3, <1>4
<1>6. \A k \in Nat : k < m /\ k < n => s[m - k] = t[n - k]
  <2>1. m \in Nat /\ n \in Nat /\ s[m] = t[n]
    BY <1>1, <1>2
  <2> QED BY <2>1, <1>1, <1>2, ChainsAgree
<1>7. ASSUME NEW i \in 1 .. m PROVE s[i] = t[i]
  <2>1. m - i \in Nat /\ m - i < m /\ m - i < n /\ m - (m - i) = i /\ n - (m - i) = i
    BY <1>5
  <2> QED BY <1>6, <2>1
<1> QED BY <1>1, <1>2, <1>5, <1>7

\* Siblings have different names, so no two objects have one path.
LEMMA PathsDiffer ==
    ASSUME NEW d, ListingOK(d), NEW x \in Live(d), NEW y \in Live(d), PathIn(d, x) = PathIn(d, y) PROVE x = y
<1>1. PICK s \in Chains(d, x) : PathIn(d, x) = [i \in DOMAIN s |-> d[s[i]].name]
  BY PathInIs
<1>2. PICK t \in Chains(d, y) : PathIn(d, y) = [i \in DOMAIN t |-> d[t[i]].name]
  BY PathInIs
<1>3. PICK m \in Nat \ {0} : /\ s \in [1 .. m -> Live(d)] /\ s[m] = x /\ d[s[1]].parent = NoOne
                             /\ Down(d, s, m)
  BY ChainIs
<1>4. PICK n \in Nat \ {0} : /\ t \in [1 .. n -> Live(d)] /\ t[n] = y /\ d[t[1]].parent = NoOne
                             /\ Down(d, t, n)
  BY ChainIs
<1>5. m = n
  <2>1. 1 .. m = 1 .. n
    BY <1>1, <1>2, <1>3, <1>4
  <2> QED BY <2>1
<1>6. \A i \in 1 .. m : d[s[i]].name = d[t[i]].name
  <2> DEFINE f == [i \in 1 .. m |-> d[s[i]].name]
             g == [i \in 1 .. m |-> d[t[i]].name]
  <2>1. f = g
    BY <1>1, <1>2, <1>3, <1>4, <1>5
  <2>2. \A i \in 1 .. m : f[i] = g[i]
    <3> HIDE DEF f, g
    <3> QED BY <2>1
  <2> QED BY <2>2
<1>7. \A i \in 1 .. m : s[i] \in Live(d) /\ t[i] \in Live(d)
  BY <1>3, <1>4, <1>5
<1>8. \A v, w \in Live(d) : d[v].parent = d[w].parent /\ d[v].name = d[w].name => v = w
  BY DEF ListingOK, Sane
<1> DEFINE K == {i \in 1 .. m : s[i] # t[i]}
<1>9. K = {}
  <2>1. SUFFICES ASSUME K # {} PROVE FALSE
    OBVIOUS
  <2>2. PICK k \in K : \A j \in K : k <= j
    <3>1. K \in SUBSET Nat OBVIOUS
    <3> HIDE DEF K
    <3> QED BY <2>1, <3>1, LeastOf
  <2>3. k \in 1 .. m /\ s[k] # t[k]
    OBVIOUS
  <2>4. CASE k = 1
    BY <1>3, <1>4, <1>6, <1>7, <1>8, <2>3, <2>4
  <2>5. CASE k # 1
    <3>1. k - 1 \in 1 .. m /\ k - 1 \in 1 .. m - 1 /\ k - 1 + 1 = k /\ ~ (k <= k - 1)
      BY <2>3, <2>5
    <3>2. s[k - 1] = t[k - 1]
      BY <2>2, <3>1
    <3> HIDE DEF K
    <3>3. d[s[k]].parent = s[k - 1]
      BY <1>3, <3>1 DEF Down
    <3>4. d[t[k]].parent = t[k - 1]
      BY <1>4, <1>5, <3>1 DEF Down
    <3> QED BY <1>6, <1>7, <1>8, <2>3, <3>2, <3>3, <3>4
  <2> QED BY <2>4, <2>5
<1>10. m \in 1 .. m OBVIOUS
<1>11. s[m] = t[m]
  BY <1>9, <1>10
<1> QED BY <1>3, <1>4, <1>5, <1>11

\* What lies above an object's path is the path of a folder.
LEMMA AboveIsFolder ==
    ASSUME NEW d, ListingOK(d), NEW x \in Live(d), NEW q \in Ancestors(PathIn(d, x))
    PROVE  \E y \in Live(d) : PathIn(d, y) = q /\ d[y].kind = "folder"
<1>1. PICK s \in Chains(d, x) : PathIn(d, x) = [i \in DOMAIN s |-> d[s[i]].name]
  BY PathInIs
<1>2. PICK n \in Nat \ {0} : /\ n <= Cardinality(Live(d))
                             /\ s \in [1 .. n -> Live(d)] /\ s[n] = x /\ d[s[1]].parent = NoOne
                             /\ Down(d, s, n)
  BY ChainIs
<1>3. q \in Path /\ Over(q, PathIn(d, x)) /\ Len(q) \in Nat \ {0} /\ PathIn(d, x) \in Path
  BY PathInIs, AncestorsAre, PathIs
<1>4. Len(PathIn(d, x)) = n
  <2>1. DOMAIN PathIn(d, x) = 1 .. n /\ DOMAIN PathIn(d, x) = 1 .. Len(PathIn(d, x)) /\ Len(PathIn(d, x)) \in Nat
    BY <1>1, <1>2, <1>3, PathIs
  <2> QED BY <2>1
<1> DEFINE m == Len(q)
           y == s[m]
           t == [i \in 1 .. m |-> s[i]]
<1>5. m \in Nat \ {0} /\ m < n /\ m \in 1 .. n /\ m \in 1 .. n - 1 /\ m + 1 \in 1 .. n
  BY <1>3, <1>4 DEF Over
<1> HIDE DEF m
<1>6. y \in Live(d) /\ s[m + 1] \in Live(d) /\ d[s[m + 1]].parent = y
  BY <1>2, <1>5 DEF Down
<1>7. d[y].kind = "folder"
  <2>1. y # NoOne
    BY <1>6, LiveIs, PassAssumption
  <2> HIDE DEF y
  <2> QED BY <1>6, <2>1 DEF ListingOK, Sane
<1>8. t \in Chains(d, y)
  <2>1. /\ t \in [1 .. m -> Live(d)] /\ t[m] = y /\ t[1] = s[1]
        /\ \A i \in 1 .. m - 1 : t[i] = s[i] /\ t[i + 1] = s[i + 1]
    BY <1>2, <1>5
  <2>2. m <= Cardinality(Live(d))
    BY <1>2, <1>5, LiveIs
  <2>3. \A i \in 1 .. m - 1 : i \in 1 .. n - 1
    BY <1>2, <1>5
  <2>4. Down(d, t, m)
    BY <1>2, <2>1, <2>3 DEF Down
  <2> HIDE DEF t
  <2> QED BY <1>2, <1>5, <2>1, <2>2, <2>4, IsChain
<1>9. PathIn(d, y) = [i \in 1 .. m |-> d[s[i]].name]
  <2>1. PICK u \in Chains(d, y) : PathIn(d, y) = [i \in DOMAIN u |-> d[u[i]].name]
    BY <1>6, PathInIs
  <2>2. u = t
    BY <1>8, <2>1, OneChain
  <2> QED BY <2>1, <2>2
<1>10. q = [i \in 1 .. m |-> d[s[i]].name]
  <2>1. DOMAIN q = 1 .. m /\ q \in [1 .. m -> Seg]
    BY <1>3, LenProperties DEF m, Path
  <2>2. \A i \in 1 .. m : q[i] = PathIn(d, x)[i] /\ i \in 1 .. n
    BY <1>2, <1>3, <1>5 DEF Over, m
  <2>3. \A i \in 1 .. m : q[i] = d[s[i]].name
    BY <1>1, <1>2, <2>2
  <2> QED BY <2>1, <2>3
<1> QED BY <1>6, <1>7, <1>9, <1>10

LEMMA InitPassInv == PassInit => PassInv
<1> SUFFICES ASSUME PassInit PROVE PassInv
  OBVIOUS
<1>1. ListingOK(listed)
  <2>1. listed \in [Id -> Item \cup {Unborn}] /\ Sane(listed) /\ Acyclic(listed)
    BY DEF PassInit
  <2> QED BY <2>1 DEF ListingOK
<1> DEFINE who(p) == CHOOSE y \in Live(listed) : PathIn(listed, y) = p
<1>2. /\ DOMAIN root = {PathIn(listed, x) : x \in Live(listed)} /\ root = [p \in DOMAIN root |-> root[p]]
      /\ \A p \in DOMAIN root :
            root[p] = [kind |-> listed[who(p)].kind, id |-> who(p), tag |-> listed[who(p)].tag,
                       work |-> {}]
  BY DEF PassInit
<1>3. \A p \in DOMAIN root : who(p) \in Live(listed) /\ PathIn(listed, who(p)) = p
  BY <1>2
<1> HIDE DEF who
<1>4. \A p \in DOMAIN root : /\ p \in Path /\ root[p] \in Entry /\ root[p].work = {}
                            /\ root[p].kind = listed[who(p)].kind
  <2> TAKE p \in DOMAIN root
  <2>1. who(p) \in Id /\ listed[who(p)].kind \in {"file", "folder"} /\ listed[who(p)].tag \in Version
    BY <1>1, <1>3, LiveIs DEF Item
  <2>2. p \in Path
    BY <1>1, <1>3, PathInIs
  <2>3. root[p] = [kind |-> listed[who(p)].kind, id |-> who(p), tag |-> listed[who(p)].tag, work |-> {}]
    BY <1>2
  <2>4. root[p].kind = listed[who(p)].kind /\ root[p].work = {}
    BY <2>3
  <2>5. root[p] \in Entry
    BY <2>1, <2>3 DEF Entry
  <2> QED BY <2>2, <2>4, <2>5
<1>5. ASSUME NEW p \in DOMAIN root, NEW q \in Ancestors(p) PROVE q \in DOMAIN root /\ root[q].kind = "folder"
  <2>1. PICK y \in Live(listed) : PathIn(listed, y) = q /\ listed[y].kind = "folder"
    BY <1>1, <1>3, AboveIsFolder
  <2>2. q \in DOMAIN root
    BY <1>2, <2>1
  <2>3. who(q) = y
    BY <1>1, <1>3, <2>1, <2>2, PathsDiffer
  <2> QED BY <1>4, <2>1, <2>2, <2>3
<1>6. TreeOK(root)
  BY <1>2, <1>4, <1>5 DEF TreeOK
<1>7. batch \in Seq(Call) /\ todo \in Seq(Call) /\ acts \in Nat /\ made \subseteq Held(root)
  BY EmptySeq DEF PassInit
<1>8. Tidy(root)
  <2> DEFINE f == [x \in Live(listed) |-> PathIn(listed, x)]
  <2>1. f \in Surjection(Live(listed), DOMAIN root)
    BY <1>2 DEF Surjection
  <2>2. IsFiniteSet(DOMAIN root)
    BY <1>1, <2>1, LiveIs, FS_Surjection
  <2>3. \A p \in DOMAIN root : root[p].id # NoOne
    <3> TAKE p \in DOMAIN root
    <3>1. who(p) \in Id
      BY <1>1, <1>3, LiveIs
    <3>2. root[p] = [kind |-> listed[who(p)].kind, id |-> who(p), tag |-> listed[who(p)].tag, work |-> {}]
      BY <1>2
    <3>3. root[p].id = who(p)
      BY <3>2
    <3> QED BY <3>1, <3>3, PassAssumption
  <2> QED BY <2>2, <2>3 DEF Tidy
<1> QED BY <1>1, <1>6, <1>7, <1>8 DEF PassInv

-----------------------------------------------------------------------------
(* The steps.                                                              *)

LEMMA LaterIs == ASSUME NEW d, ListingOK(d), NEW new \in Later(d) PROVE ListingOK(new)
<1>1. new \in Changed(d) /\ Sane(new) /\ Acyclic(new)
  BY DEF Later
<1>2. PICK S \in SUBSET Id : \E e \in MayBecome(d, S) : new = [x \in Id |-> IF x \in S THEN e[x] ELSE d[x]]
  BY <1>1 DEF Changed
<1>3. PICK e \in MayBecome(d, S) : new = [x \in Id |-> IF x \in S THEN e[x] ELSE d[x]]
  BY <1>2
<1>4. e \in [S -> Item \cup {Absent}]
  BY DEF MayBecome
<1>5. d \in [Id -> Item \cup {Absent, Unborn}]
  BY DEF ListingOK
<1>6. \A x \in Id : new[x] \in Item \cup {Absent, Unborn}
  BY <1>3, <1>4, <1>5
<1>7. new \in [Id -> Item \cup {Absent, Unborn}]
  BY <1>3, <1>6
<1> QED BY <1>1, <1>7 DEF ListingOK

LEMMA ServeKeeps ==
    ASSUME PassInv, NEW new, ListingOK(new), NEW whole \in BOOLEAN, Serve(new, whole) PROVE PassInv'
<1>1. batch' \in Seq(Call)
  BY BatchIs DEF PassInv, Serve
<1> QED BY <1>1 DEF PassInv, Serve

LEMMA BeginPassKeeps == ASSUME PassInv, BeginPass PROVE PassInv'
<1>1. todo' \in Seq(Call)
  BY CoalesceIs DEF PassInv, BeginPass
<1> QED BY <1>1 DEF PassInv, BeginPass

LEMMA ApplyKeeps == ASSUME PassInv, Apply PROVE PassInv' /\ OwnKept(root, root')
<1> DEFINE s0 == [root |-> root, files |-> files, folders |-> folders, retry |-> verdict.retry,
                  did |-> verdict.did, failed |-> verdict.failed, abort |-> FALSE]
           s  == ApplyOne(s0, Head(todo))
<1>1. Head(todo) \in Call /\ Tail(todo) \in Seq(Call)
  BY HeadTailProperties DEF PassInv, Apply
<1>2. Keeps(root, s0)
  BY StaysSame DEF Keeps, IsState, PassInv
<1>3. root' = s.root /\ (todo' = <<>> \/ todo' = Tail(todo)) /\ UNCHANGED <<listed, batch, acts, made>>
  BY DEF Apply, AtRest
<1> HIDE DEF s0
<1>4. Keeps(root, s)
  BY <1>1, <1>2, ApplyOneKeeps
<1> HIDE DEF s
<1>5. TreeOK(root') /\ Held(root') = Held(root) /\ Tidy(root') /\ OwnKept(root, root')
  BY <1>3, <1>4 DEF Keeps, Stays, OwnKept, PassInv
<1>6. todo' \in Seq(Call)
  BY <1>1, <1>3, EmptySeq
<1> QED BY <1>3, <1>5, <1>6 DEF PassInv

LEMMA RestKeeps == ASSUME PassInv, Skip \/ EndPass \/ Stop PROVE PassInv'
<1>1. /\ UNCHANGED <<listed, root, acts, made>> /\ (batch' = batch \/ batch' = <<>>)
      /\ (todo' = todo \/ todo' = <<>>)
  BY DEF Skip, EndPass, Stop, AtRest
<1>2. batch' \in Seq(Call) /\ todo' \in Seq(Call)
  BY <1>1, EmptySeq DEF PassInv
<1> QED BY <1>1, <1>2 DEF PassInv

\* What the user does leaves a whole directory, in which nothing is lost.
LEMMA LocalKeeps ==
    ASSUME PassInv, NEW d, TreeOK(d), Held(root) \subseteq Held(d), OwnKept(root, d), Local(d),
           made' = made \/ (made' = made \cup {acts} /\ acts \in Held(d))
    PROVE  PassInv' /\ OwnKept(root, root')
<1>1. UNCHANGED <<listed, batch, todo>> /\ root' = d /\ acts' = acts + 1
  BY DEF Local
<1>2. acts' \in Nat /\ made' \subseteq Held(root') /\ Tidy(root')
  BY <1>1 DEF PassInv, OwnKept
<1> QED BY <1>1, <1>2 DEF PassInv

LEMMA PathsAre == ASSUME NEW p \in Paths PROVE p \in Path
<1>1. PICK n \in 1 .. 2 : p \in [1 .. n -> Seg]
  BY DEF Paths
<1>2. p \in Seq(Seg) /\ Len(p) = n
  BY <1>1
<1> QED BY <1>2, EmptySeq DEF Path

LEMMA InDir ==
    ASSUME NEW d, TreeOK(d), NEW p \in Path, IsDir(d, Parent(p))
    PROVE  \A q \in Ancestors(p) : q \in DOMAIN d /\ d[q].kind = "folder"
<1> TAKE q \in Ancestors(p)
<1>1. Parent(p) # <<>> /\ (q = Parent(p) \/ q \in Ancestors(Parent(p)))
  BY ParentIs
<1>2. Parent(p) \in DOMAIN d /\ d[Parent(p)].kind = "folder"
  BY <1>1 DEF IsDir
<1> QED BY <1>1, <1>2 DEF TreeOK

LEMMA WriteKeeps == ASSUME PassInv, NEW p \in Paths, Write(p) PROVE PassInv' /\ OwnKept(root, root')
<1> DEFINE v == [Unknown EXCEPT !.kind = "file", !.work = {acts}]
<1>1. TreeOK(root) /\ acts \in Nat /\ p \in Path /\ p \notin DOMAIN root /\ IsDir(root, Parent(p))
  BY PathsAre DEF PassInv, Write
<1>2. v \in Entry /\ v.kind = "file" /\ v.work = {acts}
  BY <1>1 DEF Unknown, Entry
<1>3. Local(With(root, p, v)) /\ made' = made \cup {acts}
  BY DEF Write
<1> HIDE DEF v
<1>4. v.kind = "folder" => v.work = {}
  BY <1>2
<1>5. \A q \in Ancestors(p) : q \in DOMAIN root /\ root[q].kind = "folder"
  BY <1>1, InDir
<1>6. /\ TreeOK(With(root, p, v)) /\ Held(With(root, p, v)) = Held(root) \cup v.work
      /\ OwnKept(root, With(root, p, v))
  BY <1>1, <1>2, <1>4, <1>5, WithKeeps DEF Own
<1>7. Held(root) \subseteq Held(With(root, p, v)) /\ acts \in Held(With(root, p, v))
  BY <1>2, <1>6
<1> QED BY <1>3, <1>6, <1>7, LocalKeeps

LEMMA EditKeeps == ASSUME PassInv, NEW p \in DOMAIN root, Edit(p) PROVE PassInv' /\ OwnKept(root, root')
<1> DEFINE d == [root EXCEPT ![p].work = @ \cup {acts}]
           v == [root[p] EXCEPT !.work = @ \cup {acts}]
<1>1. TreeOK(root) /\ acts \in Nat /\ root[p].kind = "file" /\ root[p] \in Entry /\ p \in Path
  BY EntryIs DEF PassInv, Edit
<1>2. v \in Entry /\ v.kind = "file" /\ v.work = root[p].work \cup {acts} /\ v.id = root[p].id
  BY <1>1 DEF Entry
<1>3. Local(d) /\ made' = made \cup {acts}
  BY DEF Edit
<1>4. d = With(root, p, v)
  <2>1. root = [q \in DOMAIN root |-> root[q]]
    BY <1>1 DEF TreeOK
  <2>2. d = [q \in DOMAIN root |-> IF q = p THEN v ELSE root[q]]
    BY <2>1
  <2>3. DOMAIN root \cup {p} = DOMAIN root
    OBVIOUS
  <2> HIDE DEF d, v
  <2> QED BY <2>2, <2>3 DEF With
<1> HIDE DEF d, v
<1>5. v.kind = "folder" => v.work = {}
  BY <1>2
<1>6. \A q \in Ancestors(p) : q \in DOMAIN root /\ root[q].kind = "folder"
  BY <1>1 DEF TreeOK
<1>7. p \in DOMAIN root => root[p].work \subseteq v.work /\ (root[p].kind = "folder" => v.kind = "folder")
  BY <1>1, <1>2
<1>8. /\ TreeOK(With(root, p, v)) /\ Held(With(root, p, v)) = Held(root) \cup v.work
      /\ OwnKept(root, With(root, p, v))
  BY <1>1, <1>2, <1>5, <1>6, <1>7, WithKeeps
<1>9. TreeOK(d) /\ Held(root) \subseteq Held(d) /\ acts \in Held(d) /\ OwnKept(root, d)
  BY <1>2, <1>4, <1>8
<1> QED BY <1>3, <1>9, LocalKeeps

LEMMA MoveKeeps ==
    ASSUME PassInv, NEW p \in DOMAIN root, NEW q \in Paths, Move(p, q) PROVE PassInv' /\ OwnKept(root, root')
<1>1. TreeOK(root) /\ q \in Path /\ q \notin DOMAIN root /\ IsDir(root, Parent(q)) /\ p \notin Ancestors(q)
  BY PathsAre DEF PassInv, Move
<1>2. Local(Rename(root, p, q)) /\ made' = made
  BY DEF Move
<1>3. \A a \in Ancestors(q) : a \in DOMAIN root /\ root[a].kind = "folder"
  BY <1>1, InDir
<1>4. TreeOK(Rename(root, p, q)) /\ Held(Rename(root, p, q)) = Held(root) /\ OwnKept(root, Rename(root, p, q))
  BY <1>1, <1>3, RenameKeeps DEF Stays
<1> QED BY <1>2, <1>4, LocalKeeps

LEMMA PassStep == PassInv /\ [PassNext]_pvars => PassInv'
<1> SUFFICES ASSUME PassInv, [PassNext]_pvars PROVE PassInv'
  OBVIOUS
<1>1. ListingOK(listed)
  BY DEF PassInv
<1>2. ASSUME NEW new \in Later(listed), NEW whole \in BOOLEAN, Serve(new, whole) PROVE PassInv'
  BY <1>1, <1>2, LaterIs, ServeKeeps
<1>3. CASE Serve(listed, FALSE)
  BY <1>1, <1>3, ServeKeeps
<1>4. CASE BeginPass
  BY <1>4, BeginPassKeeps
<1>5. CASE Skip \/ EndPass \/ Stop
  BY <1>5, RestKeeps
<1>6. CASE Apply
  BY <1>6, ApplyKeeps
<1>7. ASSUME NEW p \in Paths, Write(p) PROVE PassInv'
  BY <1>7, WriteKeeps
<1>8. ASSUME NEW p \in DOMAIN root, Edit(p) PROVE PassInv'
  BY <1>8, EditKeeps
<1>9. ASSUME NEW p \in DOMAIN root, NEW q \in Paths, Move(p, q) PROVE PassInv'
  BY <1>9, MoveKeeps
<1>10. CASE UNCHANGED pvars
  BY <1>10 DEF PassInv, pvars
<1> QED BY <1>2, <1>3, <1>4, <1>5, <1>6, <1>7, <1>8, <1>9, <1>10 DEF PassNext

\* Nothing the pass does, whenever it stops and whatever the user does meanwhile, takes
\* away bytes that only this machine has, or leaves them where no directory leads
\* (delta.rs:697-748, 854-856).
THEOREM Keeps_work == PassSpec => []KeepsWork
<1>1. PassInv => KeepsWork
  <2> SUFFICES ASSUME PassInv PROVE KeepsWork
    OBVIOUS
  <2>1. TreeOK(root) /\ made \subseteq UNION {root[p].work : p \in DOMAIN root}
    BY DEF PassInv, Held
  <2>2. ASSUME NEW p \in DOMAIN root PROVE IsDir(root, Parent(p))
    <3>1. Parent(p) = <<>> \/ Parent(p) \in Ancestors(p)
      BY <2>1, EntryIs, ParentIs
    <3> QED BY <2>1, <3>1 DEF IsDir, TreeOK
  <2> QED BY <2>1, <2>2 DEF KeepsWork
<1> QED BY <1>1, InitPassInv, PassStep, PTL DEF PassSpec

-----------------------------------------------------------------------------
(* One name for each object: the inductive invariant.                      *)

Putting(c) == c.op \in {"Upserted", "FolderUpserted"}
KindOf(c)  == IF c.op = "Upserted" THEN "file" ELSE "folder"

\* Where the index has the object of a change.
Index(f, g, c) == IF c.op = "Upserted" THEN f ELSE g

\* An object that has still to come is where it is listed, or where the index has it.
Located(d, f, g, c) ==
    \A p \in DOMAIN d : d[p].id = c.id =>
        p = c.path \/ (c.id \in DOMAIN Index(f, g, c) /\ Index(f, g, c)[c.id] = p)

\* What a list of changes says is so of the drive, and it puts each object once.
Describes(d, b) ==
    \A i \in DOMAIN b : IF Putting(b[i]) THEN b[i].id \in Live(d) /\ b[i] = Put(d, b[i].id)
                        ELSE b[i].id \notin Live(d)
PutsOnce(b) == \A i, j \in DOMAIN b : Putting(b[i]) /\ Putting(b[j]) /\ b[i].id = b[j].id => i = j

\* An object here is, or was, of the drive, and of the kind it has there.
KindsAgree(d, t) ==
    \A p \in DOMAIN t : t[p].id # NoOne =>
        d[t[p].id] # Unborn /\ (t[p].id \in Live(d) => t[p].kind = d[t[p].id].kind)

NamesInv ==
    /\ PassInv
    /\ phase \in {"rest", "pass"} /\ (phase = "rest" => todo = <<>>)
    /\ Describes(listed, batch) /\ Describes(listed, todo) /\ PutsOnce(todo)
    /\ ~tangled => /\ One(root) /\ KindsAgree(listed, root)
                   /\ \A i \in DOMAIN todo : Putting(todo[i]) => Located(root, files, folders, todo[i])

-----------------------------------------------------------------------------
(* One change gives no object a second name.                               *)

\* From d to e, names change hands only as the change c says.
Names(d, e, c) ==
    /\ One(e)
    /\ \A p \in DOMAIN e : \/ e[p].id = NoOne
                           \/ \E q \in DOMAIN d : d[q].id = e[p].id /\ d[q].kind = e[p].kind
                           \/ Putting(c) /\ e[p].id = c.id /\ e[p].kind = KindOf(c)

LEMMA NamesThen ==
    ASSUME NEW d, NEW e, NEW u, NEW c, Names(d, e, c), Names(e, u, c) PROVE Names(d, u, c)
<1> SUFFICES ASSUME NEW p \in DOMAIN u
             PROVE  \/ u[p].id = NoOne
                    \/ \E q \in DOMAIN d : d[q].id = u[p].id /\ d[q].kind = u[p].kind
                    \/ Putting(c) /\ u[p].id = c.id /\ u[p].kind = KindOf(c)
  BY DEF Names
<1>1. CASE \E q \in DOMAIN e : e[q].id = u[p].id /\ e[q].kind = u[p].kind
  <2>1. PICK q \in DOMAIN e : e[q].id = u[p].id /\ e[q].kind = u[p].kind
    BY <1>1
  <2>2. \/ e[q].id = NoOne
        \/ \E r \in DOMAIN d : d[r].id = e[q].id /\ d[r].kind = e[q].kind
        \/ Putting(c) /\ e[q].id = c.id /\ e[q].kind = KindOf(c)
    BY DEF Names
  <2> QED BY <2>1, <2>2
<1> QED BY <1>1 DEF Names

LEMMA NamesSame == ASSUME NEW d, One(d), NEW c PROVE Names(d, d, c)
BY DEF Names

\* The object's name, if it has one, is that of the change.
AtMost(d, c) == \A p \in DOMAIN d : d[p].id = c.id => p = c.path

LEMMA MkdirsNames ==
    ASSUME NEW d, One(d), NEW c \in Call
    PROVE  /\ Names(d, Mkdirs(d, c.path), c)
           /\ \A p \in DOMAIN Mkdirs(d, c.path) : Mkdirs(d, c.path)[p].id = c.id =>
                 p \in DOMAIN d /\ Mkdirs(d, c.path)[p] = d[p]
<1> DEFINE e == Mkdirs(d, c.path)
<1>1. \A p \in DOMAIN e : e[p] = IF p \in DOMAIN d THEN d[p] ELSE Unknown
  BY DEF Mkdirs
<1>2. Unknown.id = NoOne /\ c.id # NoOne
  BY PassAssumption DEF Unknown, Call
<1> HIDE DEF e
<1>3. One(e)
  BY <1>1, <1>2 DEF One
<1>4. \A p \in DOMAIN e : e[p].id = c.id => p \in DOMAIN d /\ e[p] = d[p]
  BY <1>1, <1>2
<1>5. \A p \in DOMAIN e : e[p].id = NoOne \/ \E q \in DOMAIN d : d[q].id = e[p].id /\ d[q].kind = e[p].kind
  BY <1>1, <1>2
<1> QED BY <1>3, <1>4, <1>5 DEF Names, e

\* What is put at the change's path is nobody's, or the object's, which has no other name.
LEMMA WithNames ==
    ASSUME NEW d, One(d), NEW c \in Call, AtMost(d, c), NEW v,
           v.id = NoOne \/ (Putting(c) /\ v.id = c.id /\ v.kind = KindOf(c))
    PROVE  Names(d, With(d, c.path, v), c) /\ AtMost(With(d, c.path, v), c)
<1> DEFINE e == With(d, c.path, v)
<1>1. /\ DOMAIN e = DOMAIN d \cup {c.path}
      /\ \A p \in DOMAIN e : e[p] = IF p = c.path THEN v ELSE d[p]
  BY DEF With
<1> HIDE DEF e
<1>2. One(e)
  <2> SUFFICES ASSUME NEW p \in DOMAIN e, NEW q \in DOMAIN e, e[p].id = e[q].id, e[p].id # NoOne, p # q
               PROVE  FALSE
    BY DEF One
  <2>1. CASE p # c.path /\ q # c.path
    BY <1>1, <2>1 DEF One
  <2>2. CASE p = c.path
    BY <1>1, <2>2 DEF AtMost
  <2>3. CASE q = c.path
    BY <1>1, <2>3 DEF AtMost
  <2> QED BY <2>1, <2>2, <2>3
<1>3. AtMost(e, c)
  BY <1>1 DEF AtMost
<1>4. \A p \in DOMAIN e : \/ e[p].id = NoOne
                          \/ \E q \in DOMAIN d : d[q].id = e[p].id /\ d[q].kind = e[p].kind
                          \/ Putting(c) /\ e[p].id = c.id /\ e[p].kind = KindOf(c)
  BY <1>1
<1> QED BY <1>2, <1>3, <1>4 DEF Names, e

LEMMA WithoutNames == ASSUME NEW d, One(d), NEW c, NEW S PROVE Names(d, Without(d, S), c)
BY DEF Without, Names, One

\* An entry is given the object's identity, or loses the one it had.
LEMMA NamedNames ==
    ASSUME NEW d, One(d), d \in [DOMAIN d -> Entry], NEW c \in Call, NEW p \in DOMAIN d, NEW x, NEW t,
           x = NoOne \/ (Putting(c) /\ x = c.id /\ p = c.path /\ d[p].kind = KindOf(c) /\ AtMost(d, c))
    PROVE  Names(d, Named(d, p, x, t), c) /\ (AtMost(d, c) => AtMost(Named(d, p, x, t), c))
<1> DEFINE e == Named(d, p, x, t)
<1>1. DOMAIN e = DOMAIN d /\ (\A q \in DOMAIN d : q # p => e[q] = d[q])
  BY DEF Named
<1>2. e[p] = [[d[p] EXCEPT !.id = x] EXCEPT !.tag = t]
  BY DEF Named
<1>3. e[p].id = x /\ e[p].kind = d[p].kind
  BY <1>2 DEF Entry
<1> HIDE DEF e
<1>4. One(e)
  <2> SUFFICES ASSUME NEW q \in DOMAIN d, NEW r \in DOMAIN d, e[q].id = e[r].id, e[q].id # NoOne, q # r
               PROVE  FALSE
    BY <1>1 DEF One
  <2>1. CASE q # p /\ r # p
    BY <1>1, <2>1 DEF One
  <2>2. CASE q = p
    BY <1>1, <1>3, <2>2 DEF AtMost
  <2>3. CASE r = p
    BY <1>1, <1>3, <2>3 DEF AtMost
  <2> QED BY <2>1, <2>2, <2>3
<1>5. AtMost(d, c) => AtMost(e, c)
  <2> SUFFICES ASSUME AtMost(d, c), NEW q \in DOMAIN d, e[q].id = c.id PROVE q = c.path
    BY <1>1 DEF AtMost
  <2>1. c.id # NoOne
    BY PassAssumption DEF Call
  <2> QED BY <1>1, <1>3, <2>1 DEF AtMost
<1>6. \A q \in DOMAIN e : \/ e[q].id = NoOne
                          \/ \E r \in DOMAIN d : d[r].id = e[q].id /\ d[r].kind = e[q].kind
                          \/ Putting(c) /\ e[q].id = c.id /\ e[q].kind = KindOf(c)
  BY <1>1, <1>3
<1> QED BY <1>4, <1>5, <1>6 DEF Names, e

\* The index of every other object is left as it is.
IndexKept(s, t, c) ==
    \A x \in Id \ {c.id} :
        /\ x \in DOMAIN t.files <=> x \in DOMAIN s.files
        /\ x \in DOMAIN s.files => t.files[x] = s.files[x]
        /\ x \in DOMAIN t.folders <=> x \in DOMAIN s.folders
        /\ x \in DOMAIN s.folders => t.folders[x] = s.folders[x]

LEMMA RetryNames ==
    ASSUME NEW d, NEW s, Keeps(d, s)
    PROVE  /\ Retry(s).root = s.root /\ Retry(s).files = s.files /\ Retry(s).folders = s.folders
           /\ Failed(s).root = s.root /\ Failed(s).files = s.files /\ Failed(s).folders = s.folders
BY DEF Keeps, IsState, Retry, Failed

LEMMA ClaimNames ==
    ASSUME NEW d, NEW s, Keeps(d, s), One(s.root), NEW c \in Call, c.op = "FolderUpserted",
           c.path \in DOMAIN s.root, AtMost(s.root, c)
    PROVE  Names(s.root, Claim(s, c).root, c) /\ IndexKept(s, Claim(s, c), c)
<1>1. CASE s.root[c.path].kind = "file" \/ s.root[c.path].id \notin {NoOne, c.id}
  BY <1>1, RetryNames, NamesSame DEF Claim, IndexKept
<1>2. CASE ~ (s.root[c.path].kind = "file" \/ s.root[c.path].id \notin {NoOne, c.id})
  <2> DEFINE t == [s EXCEPT !.root[c.path].id = c.id, !.root[c.path].tag = c.tag,
                            !.folders = With(@, c.id, c.path)]
  <2>1. Claim(s, c) = t
    BY <1>2 DEF Claim
  <2>2. /\ t.root = Named(s.root, c.path, c.id, c.tag) /\ t.files = s.files
        /\ t.folders = With(s.folders, c.id, c.path)
    BY DEF Keeps, IsState, Named
  <2>3. s.root[c.path].kind = "folder" /\ Putting(c) /\ KindOf(c) = "folder"
    BY <1>2, EntryIs DEF Keeps, Putting, KindOf
  <2>4. s.root \in [DOMAIN s.root -> Entry]
    BY DEF Keeps, TreeOK
  <2>5. Names(s.root, t.root, c)
    BY <2>2, <2>3, <2>4, NamedNames
  <2>6. IndexKept(s, t, c)
    BY <2>2 DEF IndexKept, With
  <2> QED BY <2>1, <2>5, <2>6
<1> QED BY <1>1, <1>2

\* What the object had for a name becomes the change's, and takes along what was in it.
LEMMA MovedNames ==
    ASSUME NEW d, NEW s, Keeps(d, s), One(s.root), NEW c \in Call, NEW was \in DOMAIN s.root,
           c.path \notin DOMAIN s.root, ~Blocked(s.root, c.path), was \notin Ancestors(c.path),
           \A p \in DOMAIN s.root : s.root[p].id = c.id => p = was
    PROVE  /\ Names(s.root, Moved(s, was, c).root, c) /\ AtMost(Moved(s, was, c).root, c)
           /\ Moved(s, was, c).files = s.files /\ Moved(s, was, c).folders = s.folders
<1> DEFINE m == Mkdirs(s.root, c.path)
           e == Rename(m, was, c.path)
<1>1. c.path \in Path /\ c.path \notin Ancestors(c.path)
  BY ParentIs DEF Call
<1>2. /\ TreeOK(m) /\ DOMAIN m = DOMAIN s.root \cup Ancestors(c.path)
      /\ \A q \in Ancestors(c.path) : m[q].kind = "folder"
  BY <1>1, MkdirsKeeps DEF Keeps
<1>3. /\ Names(s.root, m, c)
      /\ \A p \in DOMAIN m : m[p].id = c.id => p \in DOMAIN s.root /\ m[p] = s.root[p]
  BY MkdirsNames
<1>4. Moved(s, was, c).root = e /\ Moved(s, was, c).files = s.files /\ Moved(s, was, c).folders = s.folders
  BY DEF Keeps, IsState, Moved
<1> HIDE DEF m
<1>5. /\ One(e)
      /\ \A q \in DOMAIN e : \E r \in DOMAIN m : e[q] = m[r] /\ (r = was => q = c.path)
  <2>1. One(m)
    BY <1>3 DEF Names
  <2> QED BY <1>1, <1>2, <2>1, RenameKeeps
<1> HIDE DEF e
<1>6. Names(m, e, c)
  BY <1>5 DEF Names
<1>7. AtMost(e, c)
  <2> SUFFICES ASSUME NEW q \in DOMAIN e, e[q].id = c.id PROVE q = c.path
    BY DEF AtMost
  <2>1. PICK r \in DOMAIN m : e[q] = m[r] /\ (r = was => q = c.path)
    BY <1>5
  <2> QED BY <1>3, <2>1
<1> QED BY <1>3, <1>4, <1>6, <1>7, NamesThen

\* An object that is not elsewhere has no other name; one whose path is free is where the index has it.
LEMMA WhereItIs ==
    ASSUME NEW s, NEW c, Located(s.root, s.files, s.folders, c)
    PROVE  /\ ~Elsewhere(s, Index(s.files, s.folders, c), c) => AtMost(s.root, c)
           /\ c.path \notin DOMAIN s.root =>
                 \A p \in DOMAIN s.root : s.root[p].id = c.id => p = Index(s.files, s.folders, c)[c.id]
BY DEF Located, Elsewhere, AtMost

LEMMA UpsertFolderNames ==
    ASSUME NEW d, NEW s, Keeps(d, s), One(s.root), NEW c \in Call, c.op = "FolderUpserted",
           Located(s.root, s.files, s.folders, c)
    PROVE  Names(s.root, UpsertFolder(s, c).root, c) /\ IndexKept(s, UpsertFolder(s, c), c)
<1> DEFINE free  == c.path \notin DOMAIN s.root
           moves == Elsewhere(s, s.folders, c)
           was   == s.folders[c.id]
           m     == Mkdirs(s.root, c.path)
           fresh == [s EXCEPT !.root = With(Mkdirs(@, c.path), c.path, Unknown), !.did = TRUE]
<1>1. c.path \in Path /\ Index(s.files, s.folders, c) = s.folders
  BY DEF Call, Index
<1>2. Names(s.root, s.root, c)
  BY NamesSame
<1>3. CASE (~free /\ moves) \/ (free /\ ~moves /\ Blocked(s.root, c.path))
  <2>1. UpsertFolder(s, c) = Retry(s)
    BY <1>3 DEF UpsertFolder
  <2> QED BY <1>2, <2>1, RetryNames DEF IndexKept
<1>4. CASE ~free /\ ~moves
  <2>1. UpsertFolder(s, c) = Claim(s, c)
    BY <1>4 DEF UpsertFolder
  <2>2. AtMost(s.root, c)
    BY <1>1, <1>4, WhereItIs
  <2> QED BY <1>4, <2>1, <2>2, ClaimNames
<1>5. CASE free /\ moves /\ Blocked(s.root, c.path)
  <2>1. UpsertFolder(s, c) = [s EXCEPT !.abort = TRUE]
    BY <1>5 DEF UpsertFolder
  <2>2. /\ UpsertFolder(s, c).root = s.root /\ UpsertFolder(s, c).files = s.files
        /\ UpsertFolder(s, c).folders = s.folders
    BY <2>1 DEF Keeps, IsState
  <2> QED BY <1>2, <2>2 DEF IndexKept
<1>6. CASE free /\ moves /\ ~Blocked(s.root, c.path) /\ was \in Ancestors(c.path)
  <2> DEFINE t == [s EXCEPT !.root = Mkdirs(@, c.path)]
  <2>1. UpsertFolder(s, c) = Retry(t)
    BY <1>6 DEF UpsertFolder
  <2>2. IsState(t) /\ t.root = m /\ t.files = s.files /\ t.folders = s.folders
    BY DEF Keeps, IsState
  <2>3. Retry(t).root = m /\ Retry(t).files = s.files /\ Retry(t).folders = s.folders
    BY <2>2 DEF Retry, IsState
  <2> QED BY <2>1, <2>3, MkdirsNames DEF IndexKept
<1>7. CASE free /\ moves /\ ~Blocked(s.root, c.path) /\ was \notin Ancestors(c.path)
  <2> DEFINE t == Moved(s, was, c)
  <2>1. UpsertFolder(s, c) = Claim(t, c)
    BY <1>7 DEF UpsertFolder
  <2>2. was \in DOMAIN s.root /\ \A p \in DOMAIN s.root : s.root[p].id = c.id => p = was
    BY <1>1, <1>7, WhereItIs DEF Elsewhere
  <2>3. /\ Names(s.root, t.root, c) /\ AtMost(t.root, c) /\ t.files = s.files /\ t.folders = s.folders
        /\ Keeps(d, t) /\ c.path \in DOMAIN t.root
    BY <1>7, <2>2, MovedNames, MovedKeeps
  <2> HIDE DEF t
  <2>4. One(t.root)
    BY <2>3 DEF Names
  <2>5. Names(t.root, Claim(t, c).root, c) /\ IndexKept(t, Claim(t, c), c)
    BY <2>3, <2>4, ClaimNames
  <2>6. IndexKept(s, Claim(t, c), c)
    BY <2>3, <2>5 DEF IndexKept
  <2> QED BY <2>1, <2>3, <2>5, <2>6, NamesThen
<1>8. CASE free /\ ~moves /\ ~Blocked(s.root, c.path)
  <2>1. UpsertFolder(s, c) = Claim(fresh, c)
    BY <1>8 DEF UpsertFolder
  <2>2. IsState(fresh) /\ fresh.root = With(m, c.path, Unknown) /\ fresh.files = s.files /\ fresh.folders = s.folders
    BY DEF Keeps, IsState
  <2>3. /\ Names(s.root, m, c)
        /\ \A p \in DOMAIN m : m[p].id = c.id => p \in DOMAIN s.root /\ m[p] = s.root[p]
    BY MkdirsNames
  <2>4. AtMost(m, c) /\ One(m)
    <3>1. AtMost(s.root, c)
      BY <1>1, <1>8, WhereItIs
    <3> HIDE DEF m
    <3> QED BY <2>3, <3>1 DEF AtMost, Names
  <2>5. Names(m, fresh.root, c) /\ AtMost(fresh.root, c)
    <3>1. Unknown.id = NoOne
      BY DEF Unknown
    <3> HIDE DEF m, fresh
    <3> QED BY <2>2, <2>4, <3>1, WithNames
  <2>6. c.path \in DOMAIN fresh.root
    BY <2>2 DEF With
  <2>7. Keeps(d, fresh)
    <3>1. /\ TreeOK(m) /\ Stays(s.root, m) /\ DOMAIN m = DOMAIN s.root \cup Ancestors(c.path)
          /\ \A q \in Ancestors(c.path) : m[q].kind = "folder"
      BY <1>1, <1>8, MkdirsKeeps DEF Keeps
    <3>2. c.path \notin DOMAIN m
      BY <1>1, <1>8, <3>1, ParentIs
    <3> HIDE DEF m, fresh
    <3>3. TreeOK(With(m, c.path, Unknown)) /\ Stays(m, With(m, c.path, Unknown))
      <4>1. \A q \in Ancestors(c.path) : q \in DOMAIN m /\ m[q].kind = "folder"
        BY <3>1
      <4> QED BY <1>1, <3>1, <3>2, <4>1, UnknownIs, FreshKeeps
    <3> QED BY <2>2, <3>1, <3>3, StaysThen, KeepsThen
  <2> HIDE DEF m, fresh
  <2>8. One(fresh.root)
    BY <2>5 DEF Names
  <2>9. Names(fresh.root, Claim(fresh, c).root, c) /\ IndexKept(fresh, Claim(fresh, c), c)
    BY <2>5, <2>6, <2>7, <2>8, ClaimNames
  <2>10. Names(s.root, Claim(fresh, c).root, c)
    BY <2>3, <2>5, <2>9, NamesThen
  <2>11. IndexKept(s, Claim(fresh, c), c)
    BY <2>2, <2>9 DEF IndexKept
  <2> QED BY <2>1, <2>10, <2>11
<1> QED BY <1>3, <1>4, <1>5, <1>6, <1>7, <1>8

\* What place puts at the change's path is the object's only name.
LEMMA PlaceNames ==
    ASSUME NEW d, NEW s, Keeps(d, s), One(s.root), NEW c \in Call, c.op = "Upserted", AtMost(s.root, c)
    PROVE  /\ Names(s.root, Place(s, c).root, c)
           /\ Place(s, c).files = s.files /\ Place(s, c).folders = s.folders
<1>1. CASE Blocked(s.root, c.path)
  BY <1>1, RetryNames, NamesSame DEF Place
<1>2. CASE ~Blocked(s.root, c.path)
  <2> DEFINE m == Mkdirs(s.root, c.path)
             v == [kind |-> "file", id |-> c.id, tag |-> c.tag, work |-> {}]
  <2>1. /\ Place(s, c).root = With(m, c.path, v)
        /\ Place(s, c).files = s.files /\ Place(s, c).folders = s.folders
    BY <1>2 DEF Keeps, IsState, Place
  <2>2. /\ Names(s.root, m, c)
        /\ \A p \in DOMAIN m : m[p].id = c.id => p \in DOMAIN s.root /\ m[p] = s.root[p]
    BY MkdirsNames
  <2>3. Putting(c) /\ v.id = c.id /\ v.kind = KindOf(c)
    BY DEF Putting, KindOf
  <2> HIDE DEF m, v
  <2>4. One(m) /\ AtMost(m, c)
    BY <2>2 DEF Names, AtMost
  <2>5. Names(m, With(m, c.path, v), c)
    BY <2>3, <2>4, WithNames
  <2> QED BY <2>1, <2>2, <2>5, NamesThen
<1> QED BY <1>1, <1>2

LEMMA PutFileNames ==
    ASSUME NEW d, NEW s, Keeps(d, s), One(s.root), NEW c \in Call, c.op = "Upserted", AtMost(s.root, c)
    PROVE  /\ Names(s.root, PutFile(s, c).root, c)
           /\ PutFile(s, c).files = s.files /\ PutFile(s, c).folders = s.folders
<1>1. CASE PutFile(s, c) \in {s, Failed(s)}
  BY <1>1, RetryNames, NamesSame
<1>2. CASE PutFile(s, c) = Place(s, c)
  BY <1>2, PlaceNames
<1>3. PutFile(s, c) \in {s, Failed(s), Place(s, c)}
  BY EntryIs DEF PutFile, Keeps
<1> QED BY <1>1, <1>2, <1>3

LEMMA UpsertFileNames ==
    ASSUME NEW d, NEW s, Keeps(d, s), One(s.root), NEW c \in Call, c.op = "Upserted",
           Located(s.root, s.files, s.folders, c)
    PROVE  Names(s.root, UpsertFile(s, c).root, c) /\ IndexKept(s, UpsertFile(s, c), c)
<1> DEFINE was == s.files[c.id]
<1>1. Index(s.files, s.folders, c) = s.files
  BY DEF Index
<1>2. CASE ~Elsewhere(s, s.files, c)
  <2>1. UpsertFile(s, c) = PutFile(s, c)
    BY <1>2 DEF UpsertFile
  <2>2. AtMost(s.root, c)
    BY <1>1, <1>2, WhereItIs
  <2> QED BY <2>1, <2>2, PutFileNames DEF IndexKept
<1>3. CASE Elsewhere(s, s.files, c) /\ (c.path \in DOMAIN s.root \/ Blocked(s.root, c.path))
  <2>1. UpsertFile(s, c) = Retry(s)
    BY <1>3 DEF UpsertFile
  <2> QED BY <2>1, RetryNames, NamesSame DEF IndexKept
<1>4. CASE /\ Elsewhere(s, s.files, c) /\ c.path \notin DOMAIN s.root /\ ~Blocked(s.root, c.path)
           /\ was \in Ancestors(c.path)
  <2> DEFINE t == [s EXCEPT !.root = Mkdirs(@, c.path)]
  <2>1. UpsertFile(s, c) = Retry(t)
    BY <1>4 DEF UpsertFile
  <2>2. IsState(t) /\ t.root = Mkdirs(s.root, c.path) /\ t.files = s.files /\ t.folders = s.folders
    BY DEF Keeps, IsState
  <2> HIDE DEF t
  <2>3. Retry(t).root = t.root /\ Retry(t).files = t.files /\ Retry(t).folders = t.folders
    BY <2>2 DEF Retry, IsState
  <2> QED BY <2>1, <2>2, <2>3, MkdirsNames DEF IndexKept
<1>5. CASE /\ Elsewhere(s, s.files, c) /\ c.path \notin DOMAIN s.root /\ ~Blocked(s.root, c.path)
           /\ was \notin Ancestors(c.path)
  <2> DEFINE u == Moved(s, was, c)
             t == [u EXCEPT !.files[c.id] = c.path]
  <2>1. UpsertFile(s, c) = PutFile(t, c)
    BY <1>5 DEF UpsertFile
  <2>2. was \in DOMAIN s.root /\ \A p \in DOMAIN s.root : s.root[p].id = c.id => p = was
    BY <1>1, <1>5, WhereItIs DEF Elsewhere
  <2>3. /\ Names(s.root, u.root, c) /\ AtMost(u.root, c) /\ u.files = s.files /\ u.folders = s.folders
        /\ Keeps(d, u)
    BY <1>5, <2>2, MovedNames, MovedKeeps
  <2> HIDE DEF u
  <2>4. /\ Keeps(d, t) /\ t.root = u.root /\ t.folders = u.folders
        /\ t.files = [u.files EXCEPT ![c.id] = c.path]
    BY <2>3 DEF Keeps, IsState
  <2> HIDE DEF t
  <2>5. One(t.root)
    BY <2>3, <2>4 DEF Names
  <2>6. /\ Names(t.root, PutFile(t, c).root, c)
        /\ PutFile(t, c).files = t.files /\ PutFile(t, c).folders = t.folders
    BY <2>3, <2>4, <2>5, PutFileNames
  <2>7. IndexKept(s, PutFile(t, c), c)
    BY <2>3, <2>4, <2>6 DEF IndexKept
  <2> QED BY <2>1, <2>3, <2>4, <2>6, <2>7, NamesThen
<1> QED BY <1>2, <1>3, <1>4, <1>5

LEMMA RemoveFileNames ==
    ASSUME NEW d, NEW s, Keeps(d, s), One(s.root), NEW c \in Call
    PROVE  Names(s.root, RemoveFile(s, c).root, c) /\ IndexKept(s, RemoveFile(s, c), c)
<1> DEFINE p == s.files[c.id]
           t == [s EXCEPT !.root = Without(@, {p}), !.did = TRUE]
<1>1. t.root = Without(s.root, {p}) /\ t.files = s.files /\ t.folders = s.folders
  BY DEF Keeps, IsState
<1>2. RemoveFile(s, c) \in {s, Failed(s), t}
  BY EntryIs DEF RemoveFile, Keeps
<1> HIDE DEF t
<1>3. CASE RemoveFile(s, c) = t
  BY <1>1, <1>3, WithoutNames DEF IndexKept
<1>4. CASE RemoveFile(s, c) \in {s, Failed(s)}
  BY <1>4, RetryNames, NamesSame DEF IndexKept
<1> QED BY <1>2, <1>3, <1>4

LEMMA RemoveFolderNames ==
    ASSUME NEW d, NEW s, Keeps(d, s), One(s.root), NEW c \in Call
    PROVE  Names(s.root, RemoveFolder(s, c).root, c) /\ IndexKept(s, RemoveFolder(s, c), c)
<1> DEFINE p    == s.folders[c.id]
           lost == [s EXCEPT !.folders = Without(@, {c.id})]
           bare == [lost EXCEPT !.root[p].id = NoOne, !.root[p].tag = NoOne]
           none == [lost EXCEPT !.root = Without(@, {p}), !.did = TRUE]
           f    == Without(s.folders, {c.id})
<1>1. /\ lost.root = s.root /\ lost.files = s.files /\ lost.folders = f
      /\ bare.root = Named(s.root, p, NoOne, NoOne) /\ bare.files = s.files /\ bare.folders = f
      /\ none.root = Without(s.root, {p}) /\ none.files = s.files /\ none.folders = f
  BY DEF Keeps, IsState, Named
<1>2. \/ RemoveFolder(s, c) \in {s, Retry(s), lost, none}
      \/ RemoveFolder(s, c) = bare /\ p \in DOMAIN s.root
  BY DEF RemoveFolder
<1> HIDE DEF lost, bare, none
<1>3. CASE RemoveFolder(s, c) \in {s, Retry(s)}
  BY <1>3, RetryNames, NamesSame DEF IndexKept
<1>4. CASE RemoveFolder(s, c) \in {lost, none} \/ (RemoveFolder(s, c) = bare /\ p \in DOMAIN s.root)
  <2>1. IndexKept(s, RemoveFolder(s, c), c)
    BY <1>1, <1>4 DEF IndexKept, Without
  <2>2. s.root \in [DOMAIN s.root -> Entry]
    BY DEF Keeps, TreeOK
  <2>3. CASE RemoveFolder(s, c) = lost
    BY <1>1, <2>1, <2>3, NamesSame
  <2>4. CASE RemoveFolder(s, c) = none
    BY <1>1, <2>1, <2>4, WithoutNames
  <2>5. CASE RemoveFolder(s, c) = bare /\ p \in DOMAIN s.root
    BY <1>1, <2>1, <2>2, <2>5, NamedNames
  <2> QED BY <1>4, <2>3, <2>4, <2>5
<1> QED BY <1>2, <1>3, <1>4

LEMMA ApplyOneNames ==
    ASSUME NEW d, NEW s, Keeps(d, s), One(s.root), NEW c \in Call,
           Putting(c) => Located(s.root, s.files, s.folders, c)
    PROVE  Names(s.root, ApplyOne(s, c).root, c) /\ IndexKept(s, ApplyOne(s, c), c)
<1>1. CASE c.op = "Removed"
  BY <1>1, RemoveFileNames DEF ApplyOne
<1>2. CASE c.op = "FolderRemoved"
  BY <1>2, RemoveFolderNames DEF ApplyOne
<1>3. CASE c.op = "Upserted"
  BY <1>3, UpsertFileNames DEF ApplyOne, Putting
<1>4. CASE c.op = "FolderUpserted"
  BY <1>4, UpsertFolderNames DEF ApplyOne, Putting
<1>5. c.op \in {"Removed", "FolderRemoved", "Upserted", "FolderUpserted"}
  BY DEF Call
<1> QED BY <1>1, <1>2, <1>3, <1>4, <1>5

-----------------------------------------------------------------------------
(* What a batch says, and each step of the pass and of the user.           *)

LEMMA KindsDiffer == ASSUME NEW d, ListingOK(d), NEW x \in Live(d)
                     PROVE  /\ d[x].kind \in {"file", "folder"} /\ d[x] # Unborn /\ d[x] # Absent
                            /\ Putting(Put(d, x)) /\ KindOf(Put(d, x)) = d[x].kind /\ Put(d, x).id = x
                            /\ ~Putting(Gone(d, x)) /\ Gone(d, x).id = x
<1>1. d[x].kind \in {"file", "folder"}
  BY LiveIs DEF Item
<1> QED BY <1>1 DEF Live, Put, Gone, Putting, KindOf

LEMMA BatchDescribes ==
    ASSUME NEW old, ListingOK(old), NEW new, ListingOK(new), NEW whole \in BOOLEAN,
           NEW b \in Batches(old, new, whole)
    PROVE  Describes(new, b)
<1>1. b \in Seq(Lost(old, new) \cup Listing(new))
  BY BatchOf
<1> SUFFICES ASSUME NEW i \in DOMAIN b
             PROVE  IF Putting(b[i]) THEN b[i].id \in Live(new) /\ b[i] = Put(new, b[i].id)
                    ELSE b[i].id \notin Live(new)
  BY DEF Describes
<1>2. b[i] \in Lost(old, new) \cup Listing(new)
  BY <1>1, ElementOfSeq, LenProperties
<1>3. CASE b[i] \in Lost(old, new)
  <2>1. PICK x \in Live(old) \ Live(new) : b[i] = Gone(old, x)
    BY <1>3 DEF Lost
  <2> QED BY <2>1, KindsDiffer
<1>4. CASE b[i] \in Listing(new)
  <2>1. PICK x \in Live(new) : b[i] = Put(new, x)
    BY <1>4 DEF Listing
  <2> QED BY <2>1, KindsDiffer
<1> QED BY <1>2, <1>3, <1>4

\* Of two changes that put one object, coalesce leaves the later.
LEMMA CoalescePutsOnce ==
    ASSUME NEW d, NEW b \in Seq(Call), Describes(d, b)
    PROVE  Describes(d, Coalesce(b)) /\ PutsOnce(Coalesce(b))
<1> DEFINE S == {i \in DOMAIN b : ~ \E j \in DOMAIN b : j > i /\ b[j].id = b[i].id /\ b[j].op = b[i].op}
           nth(n) == CHOOSE i \in S : Rank(S, i) = n
           c == Coalesce(b)
<1>1. DOMAIN b = 1 .. Len(b) /\ Len(b) \in Nat
  BY LenProperties
<1>2. c = [n \in 1 .. Cardinality(S) |-> b[nth(n)]]
  BY DEF Coalesce, InOrder, Rank
<1>3. \A i, j \in S : b[i].id = b[j].id /\ b[i].op = b[j].op => ~ (i < j)
  OBVIOUS
<1>4. S \in SUBSET (1 .. Len(b))
  BY <1>1
<1> HIDE DEF S
<1>5. S \in SUBSET Nat /\ IsFiniteSet(S)
  <2>1. S \in SUBSET Nat
    BY <1>1, <1>4
  <2>2. IsFiniteSet(1 .. Len(b))
    BY <1>1, FS_Interval
  <2> QED BY <1>4, <2>1, <2>2, FS_Subset
<1>6. \A n \in 1 .. Cardinality(S) : nth(n) \in S /\ Rank(S, nth(n)) = n
  BY <1>5, RankHits
<1> HIDE DEF nth
<1>7. DOMAIN c = 1 .. Cardinality(S) /\ \A n \in DOMAIN c : c[n] = b[nth(n)] /\ nth(n) \in DOMAIN b
  BY <1>1, <1>2, <1>4, <1>6
<1> HIDE DEF c
<1>8. Describes(d, c)
  BY <1>7 DEF Describes
<1>9. ASSUME NEW n \in DOMAIN c, NEW k \in DOMAIN c, Putting(c[n]), Putting(c[k]), c[n].id = c[k].id PROVE n = k
  <2>1. c[n] = Put(d, c[n].id) /\ c[k] = Put(d, c[k].id)
    BY <1>8, <1>9 DEF Describes
  <2>2. b[nth(n)] = b[nth(k)]
    BY <1>7, <1>9, <2>1
  <2>3. nth(n) \in Nat /\ nth(k) \in Nat /\ nth(n) \in S /\ nth(k) \in S
    BY <1>5, <1>6, <1>7
  <2>4. nth(n) = nth(k)
    BY <1>3, <2>2, <2>3
  <2> QED BY <1>6, <1>7, <2>4
<1> QED BY <1>8, <1>9 DEF PutsOnce, c

LEMMA InitNamesInv == PassInit => NamesInv
<1> SUFFICES ASSUME PassInit PROVE NamesInv
  OBVIOUS
<1>1. PassInv
  BY InitPassInv
<1>2. /\ DOMAIN root = {PathIn(listed, x) : x \in Live(listed)}
      /\ \A p \in DOMAIN root :
            \E x \in Live(listed) : PathIn(listed, x) = p /\ root[p].id = x /\ root[p].kind = listed[x].kind
  BY DEF PassInit
<1>3. One(root)
  BY <1>2 DEF One
<1>4. KindsAgree(listed, root)
  BY <1>1, <1>2, KindsDiffer DEF KindsAgree, PassInv
<1>5. batch = <<>> /\ todo = <<>> /\ phase = "rest"
  BY DEF PassInit
<1> QED BY <1>1, <1>3, <1>4, <1>5 DEF NamesInv, Describes, PutsOnce

\* An object keeps its kind, and does not come back.
LEMMA KindsLast ==
    ASSUME NEW d, ListingOK(d), NEW new \in Later(d), NEW t, TreeOK(t), KindsAgree(d, t) PROVE KindsAgree(new, t)
<1>1. PICK S \in SUBSET Id : /\ \A x \in S : d[x] # Absent
                             /\ \E e \in MayBecome(d, S) : new = [x \in Id |-> IF x \in S THEN e[x] ELSE d[x]]
  BY DEF Later, Changed
<1>2. PICK e \in MayBecome(d, S) : new = [x \in Id |-> IF x \in S THEN e[x] ELSE d[x]]
  BY <1>1
<1>3. /\ e \in [S -> Item \cup {Absent}]
      /\ \A x \in S : d[x] # Unborn /\ e[x] # Absent => e[x].kind = d[x].kind
  BY DEF MayBecome
<1>4. Unborn \notin Item \cup {Absent}
  BY DEF Item, Absent, Unborn
<1> SUFFICES ASSUME NEW p \in DOMAIN t, t[p].id # NoOne
             PROVE  new[t[p].id] # Unborn /\ (t[p].id \in Live(new) => t[p].kind = new[t[p].id].kind)
  BY DEF KindsAgree
<1> DEFINE x == t[p].id
<1>5. x \in Id /\ d[x] # Unborn /\ (x \in Live(d) => t[p].kind = d[x].kind)
  BY EntryIs DEF KindsAgree
<1> HIDE DEF x
<1>6. CASE x \notin S
  <2>1. new[x] = d[x]
    BY <1>2, <1>5, <1>6
  <2> QED BY <1>5, <2>1 DEF Live, x
<1>7. CASE x \in S
  <2>1. new[x] = e[x]
    BY <1>2, <1>5, <1>7
  <2>2. x \in Live(d)
    BY <1>1, <1>5, <1>7 DEF Live
  <2>3. new[x] # Unborn
    BY <1>3, <1>4, <1>7, <2>1
  <2>4. new[x] # Absent => new[x].kind = d[x].kind
    BY <1>3, <1>5, <1>7, <2>1
  <2> QED BY <1>5, <2>2, <2>3, <2>4 DEF Live, x
<1> QED BY <1>6, <1>7

LEMMA ServeNames ==
    ASSUME NamesInv, NEW new, new \in Later(listed) \/ new = listed, NEW whole \in BOOLEAN, Serve(new, whole)
    PROVE  NamesInv'
<1>1. PassInv /\ ListingOK(listed) /\ ListingOK(new)
  BY LaterIs DEF NamesInv, PassInv
<1>2. PassInv'
  BY <1>1, ServeKeeps
<1>3. /\ phase = "rest" /\ listed' = new /\ batch' \in Batches(listed, new, whole)
      /\ UNCHANGED <<root, todo, phase, tangled>>
  BY DEF Serve
<1>4. Describes(new, batch')
  BY <1>1, <1>3, BatchDescribes
<1>5. todo = <<>> /\ todo' = <<>>
  BY <1>3 DEF NamesInv
<1>6. ~tangled => KindsAgree(new, root)
  BY <1>1, KindsLast DEF NamesInv, PassInv
<1> QED BY <1>2, <1>3, <1>4, <1>5, <1>6 DEF NamesInv, Describes, PutsOnce

LEMMA BeginPassNames == ASSUME NamesInv, BeginPass PROVE NamesInv'
<1>1. PassInv /\ PassInv'
  BY BeginPassKeeps DEF NamesInv
<1>2. /\ phase' = "pass" /\ todo' = Coalesce(batch) /\ UNCHANGED <<listed, root, batch, tangled>>
      /\ files' \in Indexes(root, "file") /\ folders' \in Indexes(root, "folder")
  BY DEF BeginPass
<1>3. Describes(listed, todo') /\ PutsOnce(todo')
  BY <1>1, <1>2, CoalescePutsOnce DEF NamesInv, PassInv
<1>4. ASSUME ~tangled, NEW i \in DOMAIN todo', Putting(todo'[i]) PROVE Located(root, files', folders', todo'[i])
  <2> DEFINE c    == todo'[i]
             kind == KindOf(c)
             f    == Index(files', folders', c)
  <2>1. c.id \in Live(listed) /\ c = Put(listed, c.id) /\ kind = listed[c.id].kind
    BY <1>1, <1>3, <1>4, KindsDiffer DEF Describes, PassInv
  <2>2. f \in Indexes(root, kind)
    BY <1>2, <1>4 DEF Index, KindOf, Putting
  <2> SUFFICES ASSUME NEW p \in DOMAIN root, root[p].id = c.id
               PROVE  c.id \in DOMAIN f /\ f[c.id] = p
    BY DEF Located
  <2> HIDE DEF c, f
  <2>3. c.id \in Id /\ c.id # NoOne
    BY <1>1, <2>1, LiveIs, PassAssumption DEF PassInv
  <2>4. root[p].kind = kind
    BY <1>4, <2>1, <2>3 DEF NamesInv, KindsAgree
  <2> HIDE DEF kind
  <2>5. c.id \in Claimed(root, kind)
    BY <2>3, <2>4 DEF Claimed
  <2>6. c.id \in DOMAIN f /\ f[c.id] \in Claimants(root, kind, c.id)
    BY <2>2, <2>5 DEF Indexes
  <2>7. f[c.id] \in DOMAIN root /\ root[f[c.id]].id = c.id
    BY <2>6 DEF Claimants
  <2> QED BY <1>4, <2>3, <2>6, <2>7 DEF NamesInv, One
<1> QED BY <1>1, <1>2, <1>3, <1>4 DEF NamesInv

LEMMA ApplyNames == ASSUME NamesInv, Apply PROVE NamesInv'
<1> DEFINE s0 == [root |-> root, files |-> files, folders |-> folders, retry |-> verdict.retry,
                  did |-> verdict.did, failed |-> verdict.failed, abort |-> FALSE]
           c    == Head(todo)
           rest == Tail(todo)
           s    == ApplyOne(s0, c)
<1>1. PassInv /\ PassInv' /\ TreeOK(root) /\ todo \in Seq(Call) /\ todo # <<>>
  BY ApplyKeeps DEF NamesInv, PassInv, Apply
<1>2. /\ c \in Call /\ rest \in Seq(Call) /\ 1 \in DOMAIN todo /\ c = todo[1]
      /\ \A i \in DOMAIN rest : i + 1 \in DOMAIN todo /\ rest[i] = todo[i + 1] /\ i + 1 # 1
  BY <1>1, HeadTailProperties, EmptySeq, LenProperties
<1>3. Keeps(root, s0) /\ s0.root = root /\ s0.files = files /\ s0.folders = folders
  BY <1>1, StaysSame DEF Keeps, IsState
<1>4. /\ root' = s.root /\ tangled' = (tangled \/ Strays(root, s.root, rest)) /\ UNCHANGED <<listed, batch>>
      /\ \/ todo' = <<>> /\ phase' = "rest"
         \/ todo' = rest /\ phase' = phase /\ files' = s.files /\ folders' = s.folders
  BY DEF Apply, AtRest
<1>5. phase' \in {"rest", "pass"} /\ (phase' = "rest" => todo' = <<>>)
  BY <1>4 DEF NamesInv, Apply
<1> HIDE DEF s0, c, rest
<1>6. /\ Describes(listed, rest) /\ PutsOnce(rest)
      /\ IF Putting(c) THEN c.id \in Live(listed) /\ c = Put(listed, c.id) ELSE c.id \notin Live(listed)
      /\ \A i \in DOMAIN rest : Putting(rest[i]) => rest[i].id # c.id
  <2>1. Describes(listed, todo) /\ PutsOnce(todo)
    BY DEF NamesInv
  <2>2. Describes(listed, rest)
    BY <1>2, <2>1 DEF Describes
  <2>3. PutsOnce(rest)
    <3> SUFFICES ASSUME NEW i \in DOMAIN rest, NEW j \in DOMAIN rest,
                        Putting(rest[i]), Putting(rest[j]), rest[i].id = rest[j].id
                 PROVE  i = j
      BY DEF PutsOnce
    <3>1. i + 1 = j + 1
      BY <1>2, <2>1 DEF PutsOnce
    <3>2. i \in Int /\ j \in Int
      BY <1>2, LenProperties
    <3> QED BY <3>1, <3>2
  <2>4. IF Putting(c) THEN c.id \in Live(listed) /\ c = Put(listed, c.id) ELSE c.id \notin Live(listed)
    BY <1>2, <2>1 DEF Describes
  <2>5. ASSUME NEW i \in DOMAIN rest, Putting(rest[i]), rest[i].id = c.id PROVE FALSE
    <3>1. c.id \in Live(listed)
      BY <2>2, <2>5 DEF Describes
    <3>2. Putting(c)
      BY <2>4, <3>1
    <3> QED BY <1>2, <2>1, <2>5, <3>2 DEF PutsOnce
  <2> QED BY <2>2, <2>3, <2>4, <2>5
<1>7. Describes(listed, todo') /\ PutsOnce(todo')
  BY <1>4, <1>6 DEF Describes, PutsOnce
<1>8. ASSUME ~tangled' PROVE /\ One(root') /\ KindsAgree(listed, root')
                             /\ \A i \in DOMAIN todo' : Putting(todo'[i]) => Located(root', files', folders', todo'[i])
  <2>1. /\ One(root) /\ KindsAgree(listed, root) /\ ~Strays(root, s.root, rest)
        /\ \A i \in DOMAIN todo : Putting(todo[i]) => Located(root, files, folders, todo[i])
    BY <1>4, <1>8 DEF NamesInv
  <2>2. Names(root, s.root, c) /\ IndexKept(s0, s, c)
    BY <1>2, <1>3, <2>1, ApplyOneNames
  <2> HIDE DEF s
  <2>3. One(root')
    BY <1>4, <2>2 DEF Names
  <2>4. KindsAgree(listed, root')
    <3> SUFFICES ASSUME NEW p \in DOMAIN root', root'[p].id # NoOne
                 PROVE  /\ listed[root'[p].id] # Unborn
                        /\ root'[p].id \in Live(listed) => root'[p].kind = listed[root'[p].id].kind
      BY DEF KindsAgree
    <3>1. CASE \E q \in DOMAIN root : root[q].id = root'[p].id /\ root[q].kind = root'[p].kind
      BY <2>1, <3>1 DEF KindsAgree
    <3>2. CASE Putting(c) /\ root'[p].id = c.id /\ root'[p].kind = KindOf(c)
      BY <1>1, <1>6, <3>2, KindsDiffer DEF PassInv
    <3> QED BY <1>4, <2>2, <3>1, <3>2 DEF Names
  <2>5. ASSUME NEW i \in DOMAIN rest, Putting(rest[i]) PROVE Located(s.root, s.files, s.folders, rest[i])
    <3> DEFINE e == rest[i]
    <3>1. e \in Call /\ e.id \in Id \ {c.id} /\ Located(root, files, folders, e)
      <4>1. e \in Call
        BY <1>2, ElementOfSeq, LenProperties
      <4>2. e.id \in Id
        BY <4>1 DEF Call
      <4> QED BY <1>2, <1>6, <2>1, <2>5, <4>1, <4>2
    <3> SUFFICES ASSUME NEW p \in DOMAIN s.root, s.root[p].id = e.id, p # e.path
                 PROVE  e.id \in DOMAIN Index(s.files, s.folders, e) /\ Index(s.files, s.folders, e)[e.id] = p
      BY DEF Located
    <3>2. p \in DOMAIN root /\ root[p].id = e.id
      <4>1. e \in Range(rest)
        BY DEF Range
      <4>2. e.op \in {"Upserted", "FolderUpserted"}
        BY <2>5 DEF Putting
      <4> HIDE DEF e
      <4> QED BY <2>1, <4>1, <4>2 DEF Strays
    <3>3. e.id \in DOMAIN Index(files, folders, e) /\ Index(files, folders, e)[e.id] = p
      BY <3>1, <3>2 DEF Located
    <3> HIDE DEF e
    <3> QED BY <1>3, <2>2, <3>1, <3>3 DEF IndexKept, Index
  <2> QED BY <1>4, <2>3, <2>4, <2>5
<1> QED BY <1>1, <1>4, <1>5, <1>7, <1>8 DEF NamesInv

LEMMA RestNames == ASSUME NamesInv, Skip \/ EndPass \/ Stop PROVE NamesInv'
<1>1. PassInv'
  BY RestKeeps DEF NamesInv
<1>2. /\ UNCHANGED <<listed, root, tangled>> /\ (batch' = batch \/ batch' = <<>>)
      /\ phase' = "rest" /\ todo' = <<>>
  BY DEF Skip, EndPass, Stop, AtRest, NamesInv
<1> QED BY <1>1, <1>2 DEF NamesInv, Describes, PutsOnce

\* What the user does leaves each name with its object.
LEMMA LocalNames ==
    ASSUME NamesInv, PassInv', NEW d, Local(d), tangled' = tangled,
           \A p \in DOMAIN d : \/ d[p].id = NoOne
                               \/ p \in DOMAIN root /\ d[p].id = root[p].id /\ d[p].kind = root[p].kind
    PROVE  NamesInv'
<1>1. root' = d /\ UNCHANGED <<listed, batch, todo, phase, files, folders>>
  BY DEF Local, index
<1>2. One(root) => One(d)
  BY DEF One
<1>3. KindsAgree(listed, root) => KindsAgree(listed, d)
  BY DEF KindsAgree
<1>4. ASSUME NEW i \in DOMAIN todo, Located(root, files, folders, todo[i])
      PROVE  Located(d, files, folders, todo[i])
  <2>1. todo \in Seq(Call)
    BY DEF NamesInv, PassInv
  <2>2. todo[i] \in Call
    BY <2>1, ElementOfSeq, LenProperties
  <2>3. todo[i].id # NoOne
    BY <2>2, PassAssumption DEF Call
  <2> QED BY <1>4, <2>3 DEF Located
<1> QED BY <1>1, <1>2, <1>3, <1>4 DEF NamesInv

LEMMA WriteNames == ASSUME NamesInv, NEW p \in Paths, Write(p) PROVE NamesInv'
<1> DEFINE v == [Unknown EXCEPT !.kind = "file", !.work = {acts}]
<1>1. PassInv'
  BY WriteKeeps DEF NamesInv
<1>2. Local(With(root, p, v)) /\ tangled' = tangled
  BY DEF Write
<1>3. v.id = NoOne
  BY DEF Unknown
<1> HIDE DEF v
<1> QED BY <1>1, <1>2, <1>3, LocalNames DEF With

LEMMA EditNames == ASSUME NamesInv, NEW p \in DOMAIN root, Edit(p) PROVE NamesInv'
<1> DEFINE d == [root EXCEPT ![p].work = @ \cup {acts}]
<1>1. PassInv'
  BY EditKeeps DEF NamesInv
<1>2. Local(d) /\ tangled' = tangled
  BY DEF Edit
<1>3. root \in [DOMAIN root -> Entry]
  BY DEF NamesInv, PassInv, TreeOK
<1>4. DOMAIN d = DOMAIN root /\ \A q \in DOMAIN root : d[q].id = root[q].id /\ d[q].kind = root[q].kind
  BY <1>3 DEF Entry
<1> HIDE DEF d
<1> QED BY <1>1, <1>2, <1>4, LocalNames

LEMMA MoveNames == ASSUME NamesInv, NEW p \in DOMAIN root, NEW q \in Paths, Move(p, q) PROVE NamesInv'
<1> DEFINE d == Rename(root, p, q)
<1>1. PassInv'
  BY MoveKeeps DEF NamesInv
<1>2. /\ root' = d /\ tangled' = (tangled \/ phase = "pass")
      /\ UNCHANGED <<listed, batch, todo, phase>>
  BY DEF Move, Local
<1>3. TreeOK(root) /\ q \in Path /\ q \notin DOMAIN root /\ IsDir(root, Parent(q)) /\ p \notin Ancestors(q)
  BY PathsAre DEF NamesInv, PassInv, Move
<1>4. \A a \in Ancestors(q) : a \in DOMAIN root /\ root[a].kind = "folder"
  BY <1>3, InDir
<1>5. /\ One(root) => One(d)
      /\ \A r \in DOMAIN d : \E a \in DOMAIN root : d[r] = root[a]
  BY <1>3, <1>4, RenameKeeps
<1> HIDE DEF d
<1>6. KindsAgree(listed, root) => KindsAgree(listed, d)
  BY <1>5 DEF KindsAgree
<1>7. ~tangled' => ~tangled /\ todo = <<>>
  BY <1>2 DEF NamesInv
<1> QED BY <1>1, <1>2, <1>5, <1>6, <1>7 DEF NamesInv

LEMMA NamesStep == NamesInv /\ [PassNext]_pvars => NamesInv'
<1> SUFFICES ASSUME NamesInv, [PassNext]_pvars PROVE NamesInv'
  OBVIOUS
<1>1. ASSUME NEW new \in Later(listed), NEW whole \in BOOLEAN, Serve(new, whole) PROVE NamesInv'
  BY <1>1, ServeNames
<1>2. CASE Serve(listed, FALSE)
  BY <1>2, ServeNames
<1>3. CASE BeginPass
  BY <1>3, BeginPassNames
<1>4. CASE Skip \/ EndPass \/ Stop
  BY <1>4, RestNames
<1>5. CASE Apply
  BY <1>5, ApplyNames
<1>6. ASSUME NEW p \in Paths, Write(p) PROVE NamesInv'
  BY <1>6, WriteNames
<1>7. ASSUME NEW p \in DOMAIN root, Edit(p) PROVE NamesInv'
  BY <1>7, EditNames
<1>8. ASSUME NEW p \in DOMAIN root, NEW q \in Paths, Move(p, q) PROVE NamesInv'
  BY <1>8, MoveNames
<1>9. CASE UNCHANGED pvars
  BY <1>9 DEF NamesInv, PassInv, pvars, index
<1> QED BY <1>1, <1>2, <1>3, <1>4, <1>5, <1>6, <1>7, <1>8, <1>9 DEF PassNext

\* No two names here bear one identity, unless a folder that was renamed took along an object
\* whose turn was still to come, to where that is not listed, or the user has moved something
\* while a pass was under way (delta.rs:498-558, 612-613).
THEOREM One_claimant == PassSpec => []OneClaimant
<1>1. NamesInv => OneClaimant
  <2> SUFFICES ASSUME NamesInv, ~tangled, NEW x \in Id
               PROVE  ~ (Cardinality(Claimants(root, "file", x) \cup Claimants(root, "folder", x)) > 1)
    BY DEF OneClaimant, Twice
  <2> DEFINE C == Claimants(root, "file", x) \cup Claimants(root, "folder", x)
  <2>1. One(root) /\ x # NoOne
    BY PassAssumption DEF NamesInv
  <2>2. \A p \in C : p \in DOMAIN root /\ root[p].id = x
    BY DEF Claimants
  <2> HIDE DEF C
  <2>3. \A p, q \in C : p = q
    BY <2>1, <2>2 DEF One
  <2>4. C = {} \/ \E p : C = {p}
    BY <2>3
  <2>5. Cardinality(C) = 0 \/ Cardinality(C) = 1
    BY <2>4, FS_EmptySet, FS_Singleton
  <2> QED BY <2>5 DEF C
<1> QED BY <1>1, InitNamesInv, NamesStep, PTL DEF PassSpec

-----------------------------------------------------------------------------
(* A pass that is skipped has nothing to do: the inductive invariant.      *)

\* The names of the files that are nobody's, in what a pass has walked.
Loose(T) == {e[1] : e \in {g \in T : g[2] = NoOne}}

\* An object's file has bytes that only this machine has.
Holds(d, x) == \E p \in Own(d) : d[p].id = x

\* What a change asks for is so, in a tree T that a pass has walked with the directories D:
\* its file is there, or one that is kept, or a directory; or the user has written one since.
\* What it removes is gone, or kept.
Done(c, T, D, d) ==
    CASE c.op = "Upserted" -> \/ <<c.path, c.id, c.tag>> \in T
                              \/ \E e \in T : e[1] = c.path /\ (e[2] = NoOne \/ Holds(d, e[2]))
                              \/ c.path \in D
                              \/ /\ Cardinality(Loose(T)) \in Nat
                                 /\ Cardinality(Loose(T)) < Cardinality(Loose(Tree(d)))
      [] c.op = "Removed" -> (\A e \in T : e[2] # c.id) \/ Holds(d, c.id)
      [] OTHER -> TRUE

Pending(c, b) == \E i \in DOMAIN b : b[i].op = c.op /\ b[i].id = c.id

\* A pass that has done nothing so far: the files are those it has walked, and what the user
\* has written since; they are in its index; and each change is done, or its turn is to come.
Quiet ==
    /\ walked \subseteq Tree(root) /\ \A e \in Tree(root) : e[2] # NoOne => e \in walked
    /\ \A e \in walked : e[2] # NoOne =>
          e[2] \in DOMAIN files /\ \E g \in walked : g[1] = files[e[2]] /\ g[2] = e[2]
    /\ \A c \in Range(batch) : Pending(c, todo) \/ Done(c, walked, Dirs(root), root)

SkipInv ==
    /\ NamesInv
    /\ ~tangled /\ phase = "pass" /\ Remembers(verdict) => Quiet
    /\ ~tangled /\ seen # NoOne => \A c \in Range(seen.batch) : Done(c, seen.tree, dirs, root)

LEMMA TreeIs ==
    ASSUME NEW d
    PROVE  /\ \A e \in Tree(d) : /\ e[1] \in DOMAIN d /\ d[e[1]].kind = "file"
                                 /\ e = <<e[1], d[e[1]].id, d[e[1]].tag>>
           /\ \A p \in DOMAIN d : d[p].kind = "file" => <<p, d[p].id, d[p].tag>> \in Tree(d)
           /\ \A p : p \in Loose(Tree(d)) <=> p \in DOMAIN d /\ d[p].kind = "file" /\ d[p].id = NoOne
<1>1. \A e \in Tree(d) : /\ e[1] \in DOMAIN d /\ d[e[1]].kind = "file"
                         /\ e = <<e[1], d[e[1]].id, d[e[1]].tag>>
  BY DEF Tree
<1>2. \A p \in DOMAIN d : d[p].kind = "file" => <<p, d[p].id, d[p].tag>> \in Tree(d)
  BY DEF Tree
<1>3. ASSUME NEW p, p \in Loose(Tree(d)) PROVE p \in DOMAIN d /\ d[p].kind = "file" /\ d[p].id = NoOne
  <2>1. PICK e \in Tree(d) : e[2] = NoOne /\ p = e[1]
    BY <1>3 DEF Loose
  <2>2. e = <<e[1], d[e[1]].id, d[e[1]].tag>>
    BY <1>1
  <2>3. e[2] = d[e[1]].id
    BY <2>2
  <2> QED BY <1>1, <2>1, <2>3
<1>4. ASSUME NEW p \in DOMAIN d, d[p].kind = "file", d[p].id = NoOne PROVE p \in Loose(Tree(d))
  <2> DEFINE e == <<p, d[p].id, d[p].tag>>
  <2>1. e \in Tree(d) /\ e[2] = NoOne /\ e[1] = p
    BY <1>2, <1>4
  <2> HIDE DEF e
  <2> QED BY <2>1 DEF Loose
<1> QED BY <1>1, <1>2, <1>3, <1>4

LEMMA LooseFinite == ASSUME NEW d, Tidy(d) PROVE IsFiniteSet(Loose(Tree(d))) /\ Cardinality(Loose(Tree(d))) \in Nat
<1>1. Loose(Tree(d)) \in SUBSET DOMAIN d
  BY TreeIs
<1>2. IsFiniteSet(DOMAIN d)
  BY DEF Tidy
<1> QED BY <1>1, <1>2, FS_Subset, FS_CardinalityType

\* No file of the user's is lost, so what is done stays done.
LEMMA DoneStays ==
    ASSUME NEW d, NEW e, Tidy(d), OwnKept(d, e), NEW T, NEW D, NEW D2, D \subseteq D2,
           NEW c, Done(c, T, D, d)
    PROVE  Done(c, T, D2, e)
<1>1. PICK f \in [Own(d) -> Own(e)] : \A p, q \in Own(d) : e[f[p]].id = d[p].id /\ (f[p] = f[q] => p = q)
  BY DEF OwnKept
<1>2. \A x : Holds(d, x) => Holds(e, x)
  BY <1>1 DEF Holds
<1>3. Cardinality(Loose(Tree(d))) <= Cardinality(Loose(Tree(e)))
  <2> DEFINE g == [p \in Loose(Tree(d)) |-> f[p]]
  <2>1. \A p \in Loose(Tree(d)) : p \in Own(d) /\ d[p].id = NoOne
    BY TreeIs DEF Tidy, Own
  <2>2. \A p \in Loose(Tree(d)) : f[p] \in Loose(Tree(e))
    <3> TAKE p \in Loose(Tree(d))
    <3>1. f[p] \in Own(e) /\ e[f[p]].id = NoOne
      BY <1>1, <2>1
    <3>2. f[p] \in DOMAIN e /\ e[f[p]].kind = "file"
      BY <3>1 DEF Own
    <3> QED BY <3>1, <3>2, TreeIs
  <2>3. g \in Injection(Loose(Tree(d)), Loose(Tree(e)))
    BY <1>1, <2>1, <2>2 DEF Injection, IsInjective
  <2>4. IsFiniteSet(Loose(Tree(e)))
    BY LooseFinite DEF OwnKept
  <2> HIDE DEF g
  <2> QED BY <2>3, <2>4, FS_Injection
<1>4. Cardinality(Loose(Tree(d))) \in Nat /\ Cardinality(Loose(Tree(e))) \in Nat
  BY LooseFinite DEF OwnKept
<1>5. CASE c.op = "Upserted"
  <2>1. CASE Cardinality(Loose(T)) \in Nat /\ Cardinality(Loose(T)) < Cardinality(Loose(Tree(d)))
    <3>1. Cardinality(Loose(T)) < Cardinality(Loose(Tree(e)))
      BY <1>3, <1>4, <2>1
    <3> QED BY <1>5, <2>1, <3>1 DEF Done
  <2>2. CASE ~ (Cardinality(Loose(T)) \in Nat /\ Cardinality(Loose(T)) < Cardinality(Loose(Tree(d))))
    BY <1>2, <1>5, <2>2 DEF Done
  <2> QED BY <2>1, <2>2
<1>6. CASE c.op # "Upserted"
  BY <1>2, <1>6 DEF Done
<1> QED BY <1>5, <1>6

-----------------------------------------------------------------------------
(* A change that the pass could remember has left every file as it was.    *)

SameFiles(s, t) == Tree(t.root) = Tree(s.root) /\ Dirs(t.root) = Dirs(s.root) /\ t.files = s.files

\* What a change finds that it leaves as it is.
Met(s, c) ==
    /\ c.op = "Upserted" => /\ c.path \in DOMAIN s.root
                            /\ \/ s.root[c.path].kind = "folder" \/ s.root[c.path].work # {}
                               \/ s.root[c.path].id = c.id /\ s.root[c.path].tag = c.tag
    /\ c.op = "Removed" => \/ c.id \notin DOMAIN s.files \/ s.files[c.id] \notin DOMAIN s.root
                           \/ s.root[s.files[c.id]].work # {}

\* A pass that has changed, refused or failed in something is not remembered.
LEMMA NotQuiet ==
    ASSUME NEW d, NEW s, Keeps(d, s)
    PROVE  /\ ~Remembers(Retry(s)) /\ ~Remembers(Failed(s))
           /\ \A c : ~Remembers(Place(s, c))
           /\ s.did => \A c : ~Remembers(PutFile(s, c)) /\ ~Remembers(Claim(s, c))
<1>1. Retry(s).retry = TRUE /\ Failed(s).failed = TRUE
  BY DEF Keeps, IsState, Retry, Failed
<1>2. ASSUME NEW c PROVE ~Remembers(Place(s, c))
  <2>1. CASE Blocked(s.root, c.path)
    BY <1>1, <2>1 DEF Place, Remembers
  <2>2. CASE ~Blocked(s.root, c.path)
    <3>1. Place(s, c).did = TRUE
      BY <2>2 DEF Keeps, IsState, Place
    <3> QED BY <3>1 DEF Remembers
  <2> QED BY <2>1, <2>2
<1>3. ASSUME s.did, NEW c PROVE ~Remembers(PutFile(s, c)) /\ ~Remembers(Claim(s, c))
  <2>1. ~Remembers(s)
    BY <1>3 DEF Remembers
  <2>2. PutFile(s, c) \in {s, Failed(s), Place(s, c)}
    BY EntryIs DEF PutFile, Keeps
  <2>3. ~Remembers(PutFile(s, c))
    BY <1>1, <1>2, <2>1, <2>2 DEF Remembers
  <2> DEFINE t == [s EXCEPT !.root[c.path].id = c.id, !.root[c.path].tag = c.tag, !.folders = With(@, c.id, c.path)]
  <2>4. t.did = s.did
    BY DEF Keeps, IsState
  <2>5. Claim(s, c) = Retry(s) \/ Claim(s, c) = t
    BY DEF Claim
  <2> HIDE DEF t
  <2>6. ~Remembers(Claim(s, c))
    BY <1>1, <1>3, <2>4, <2>5 DEF Remembers
  <2> QED BY <2>3, <2>6
<1> QED BY <1>1, <1>2, <1>3 DEF Remembers

LEMMA NamedSame ==
    ASSUME NEW d, TreeOK(d), NEW p \in DOMAIN d, d[p].kind = "folder", NEW x, NEW t
    PROVE  Tree(Named(d, p, x, t)) = Tree(d) /\ Dirs(Named(d, p, x, t)) = Dirs(d)
<1> DEFINE e == Named(d, p, x, t)
<1>1. DOMAIN e = DOMAIN d /\ \A q \in DOMAIN d : q # p => e[q] = d[q]
  BY DEF Named
<1>2. e[p] = [[d[p] EXCEPT !.id = x] EXCEPT !.tag = t]
  BY DEF Named
<1>3. d[p] \in Entry
  BY DEF TreeOK
<1>4. e[p].kind = d[p].kind
  BY <1>2, <1>3 DEF Entry
<1> HIDE DEF e
<1>5. Dirs(e) = Dirs(d)
  BY <1>1, <1>4 DEF Dirs
<1>6. {q \in DOMAIN e : e[q].kind = "file"} = {q \in DOMAIN d : d[q].kind = "file"}
  BY <1>1, <1>4
<1>7. \A q \in {r \in DOMAIN d : d[r].kind = "file"} : e[q] = d[q]
  BY <1>1
<1>8. Tree(e) = Tree(d)
  BY <1>6, <1>7 DEF Tree
<1> QED BY <1>5, <1>8 DEF e

LEMMA ClaimQuiet ==
    ASSUME NEW d, NEW s, Keeps(d, s), NEW c \in Call, c.path \in DOMAIN s.root, Remembers(Claim(s, c))
    PROVE  Remembers(s) /\ SameFiles(s, Claim(s, c))
<1> DEFINE t == [s EXCEPT !.root[c.path].id = c.id, !.root[c.path].tag = c.tag, !.folders = With(@, c.id, c.path)]
<1>1. Claim(s, c) = t /\ s.root[c.path].kind # "file"
  BY NotQuiet DEF Claim
<1>2. t.root = Named(s.root, c.path, c.id, c.tag) /\ t.files = s.files
      /\ t.did = s.did /\ t.retry = s.retry /\ t.failed = s.failed
  BY DEF Keeps, IsState, Named
<1> HIDE DEF t
<1>3. TreeOK(s.root) /\ s.root[c.path].kind = "folder"
  BY <1>1, EntryIs DEF Keeps
<1>4. Remembers(s)
  BY <1>1, <1>2 DEF Remembers
<1> QED BY <1>1, <1>2, <1>3, <1>4, NamedSame DEF SameFiles

LEMMA UpsertFolderQuiet ==
    ASSUME NEW d, NEW s, Keeps(d, s), NEW c \in Call, Remembers(UpsertFolder(s, c)), ~UpsertFolder(s, c).abort
    PROVE  Remembers(s) /\ SameFiles(s, UpsertFolder(s, c))
<1> DEFINE free  == c.path \notin DOMAIN s.root
           moves == Elsewhere(s, s.folders, c)
           above == [s EXCEPT !.root = Mkdirs(@, c.path)]
           fresh == [s EXCEPT !.root = With(Mkdirs(@, c.path), c.path, Unknown), !.did = TRUE]
           moved == Moved(s, s.folders[c.id], c)
           stop  == [s EXCEPT !.abort = TRUE]
<1>1. \/ ~free /\ ~moves /\ UpsertFolder(s, c) = Claim(s, c)
      \/ UpsertFolder(s, c) \in {Retry(s), stop, Retry(above), Claim(moved, c), Claim(fresh, c)}
  BY DEF UpsertFolder
<1>2. IsState(above) /\ IsState(fresh) /\ fresh.did /\ IsState(moved) /\ moved.did /\ stop.abort
  BY DEF Keeps, IsState, Moved
<1> HIDE DEF above, fresh, moved, stop
<1>3. \A t : IsState(t) => ~Remembers(Retry(t)) /\ (t.did => ~Remembers(Claim(t, c)))
  <2> TAKE t
  <2> HAVE IsState(t)
  <2>1. Retry(t).retry = TRUE
    BY DEF IsState, Retry
  <2> DEFINE u == [t EXCEPT !.root[c.path].id = c.id, !.root[c.path].tag = c.tag, !.folders = With(@, c.id, c.path)]
  <2>2. u.did = t.did
    BY DEF IsState
  <2>3. Claim(t, c) \in {Retry(t), u}
    BY DEF Claim
  <2> HIDE DEF u
  <2> QED BY <2>1, <2>2, <2>3 DEF Remembers
<1>4. IsState(s)
  BY DEF Keeps
<1>5. ~free /\ UpsertFolder(s, c) = Claim(s, c)
  BY <1>1, <1>2, <1>3, <1>4
<1> QED BY <1>5, ClaimQuiet

LEMMA PutFileQuiet ==
    ASSUME NEW d, NEW s, Keeps(d, s), NEW c \in Call, c.op = "Upserted", Remembers(PutFile(s, c))
    PROVE  Remembers(s) /\ PutFile(s, c) = s /\ Met(s, c)
<1>1. ~Remembers(Failed(s)) /\ ~Remembers(Place(s, c))
  BY NotQuiet
<1>2. c.path \in DOMAIN s.root
  BY <1>1 DEF PutFile
<1>3. s.root[c.path].kind \in {"file", "folder"}
  BY <1>2, EntryIs DEF Keeps
<1>4. /\ PutFile(s, c) = s
      /\ \/ s.root[c.path].kind = "folder" \/ s.root[c.path].work # {}
         \/ s.root[c.path].id = c.id /\ s.root[c.path].tag = c.tag
  BY <1>1, <1>2, <1>3 DEF PutFile
<1> QED BY <1>2, <1>4 DEF Met

LEMMA UpsertFileQuiet ==
    ASSUME NEW d, NEW s, Keeps(d, s), NEW c \in Call, c.op = "Upserted", Remembers(UpsertFile(s, c))
    PROVE  Remembers(s) /\ UpsertFile(s, c) = s /\ Met(s, c)
<1> DEFINE above == [s EXCEPT !.root = Mkdirs(@, c.path)]
           u     == Moved(s, s.files[c.id], c)
           t     == [u EXCEPT !.files[c.id] = c.path]
<1>1. \/ UpsertFile(s, c) = PutFile(s, c)
      \/ UpsertFile(s, c) \in {Retry(s), Retry(above)}
      \/ /\ UpsertFile(s, c) = PutFile(t, c) /\ Elsewhere(s, s.files, c) /\ c.path \notin DOMAIN s.root
         /\ ~Blocked(s.root, c.path) /\ s.files[c.id] \notin Ancestors(c.path)
  BY DEF UpsertFile
<1>2. UpsertFile(s, c) \notin {Retry(s), Retry(above)}
  <2>1. Retry(s).retry = TRUE /\ Retry(above).retry = TRUE
    BY DEF Keeps, IsState, Retry
  <2> QED BY <2>1 DEF Remembers
<1>3. ASSUME /\ UpsertFile(s, c) = PutFile(t, c) /\ Elsewhere(s, s.files, c) /\ c.path \notin DOMAIN s.root
             /\ ~Blocked(s.root, c.path) /\ s.files[c.id] \notin Ancestors(c.path)
      PROVE  FALSE
  <2>1. Keeps(d, u)
    BY <1>3, MovedKeeps DEF Elsewhere
  <2>2. u.did
    BY DEF Keeps, IsState, Moved
  <2> HIDE DEF u
  <2>3. IsState(t) /\ t.root = u.root /\ t.did
    BY <2>1, <2>2 DEF Keeps, IsState
  <2> HIDE DEF t
  <2>4. Keeps(d, t)
    BY <2>1, <2>3 DEF Keeps
  <2> QED BY <1>3, <2>3, <2>4, NotQuiet
<1> HIDE DEF above, t
<1> QED BY <1>1, <1>2, <1>3, PutFileQuiet

LEMMA RemoveFileQuiet ==
    ASSUME NEW d, NEW s, Keeps(d, s), NEW c \in Call, c.op = "Removed", Remembers(RemoveFile(s, c))
    PROVE  Remembers(s) /\ RemoveFile(s, c) = s /\ Met(s, c)
<1> DEFINE p == s.files[c.id]
           t == [s EXCEPT !.root = Without(@, {p}), !.did = TRUE]
<1>1. t.did /\ ~Remembers(Failed(s))
  BY NotQuiet DEF Keeps, IsState
<1>2. CASE c.id \notin DOMAIN s.files \/ p \notin DOMAIN s.root
  BY <1>2 DEF RemoveFile, Met
<1>3. CASE c.id \in DOMAIN s.files /\ p \in DOMAIN s.root
  <2>1. s.root[p].work # {} \/ RemoveFile(s, c) \in {Failed(s), t}
    BY <1>3 DEF RemoveFile
  <2>2. s.root[p].work # {} => RemoveFile(s, c) = s
    BY <1>3 DEF RemoveFile
  <2> HIDE DEF t
  <2>3. s.root[p].work # {}
    BY <1>1, <2>1 DEF Remembers
  <2> QED BY <2>2, <2>3 DEF Met
<1> QED BY <1>2, <1>3

LEMMA RemoveFolderQuiet ==
    ASSUME NEW d, NEW s, Keeps(d, s), NEW c \in Call, Remembers(RemoveFolder(s, c))
    PROVE  Remembers(s) /\ SameFiles(s, RemoveFolder(s, c))
<1> DEFINE p    == s.folders[c.id]
           lost == [s EXCEPT !.folders = Without(@, {c.id})]
           bare == [lost EXCEPT !.root[p].id = NoOne, !.root[p].tag = NoOne]
           none == [lost EXCEPT !.root = Without(@, {p}), !.did = TRUE]
<1>1. /\ lost.root = s.root /\ lost.files = s.files
      /\ lost.did = s.did /\ lost.retry = s.retry /\ lost.failed = s.failed
      /\ bare.root = Named(s.root, p, NoOne, NoOne) /\ bare.files = s.files
      /\ bare.did = s.did /\ bare.retry = s.retry /\ bare.failed = s.failed
      /\ none.did
  BY DEF Keeps, IsState, Named
<1>2. \/ RemoveFolder(s, c) \in {s, Retry(s), lost, none}
      \/ RemoveFolder(s, c) = bare /\ p \in DOMAIN s.root /\ s.root[p].kind = "folder"
  BY EntryIs DEF RemoveFolder, Keeps
<1>3. ~Remembers(Retry(s))
  BY NotQuiet
<1> HIDE DEF lost, bare, none
<1>4. RemoveFolder(s, c) \in {s, lost} \/ (RemoveFolder(s, c) = bare /\ p \in DOMAIN s.root /\ s.root[p].kind = "folder")
  BY <1>1, <1>2, <1>3 DEF Remembers
<1>5. Remembers(s)
  BY <1>1, <1>4 DEF Remembers
<1>6. CASE RemoveFolder(s, c) \in {s, lost}
  BY <1>1, <1>5, <1>6 DEF SameFiles
<1>7. CASE RemoveFolder(s, c) = bare /\ p \in DOMAIN s.root /\ s.root[p].kind = "folder"
  BY <1>1, <1>5, <1>7, NamedSame DEF SameFiles, Keeps
<1> QED BY <1>4, <1>6, <1>7

LEMMA ApplyOneQuiet ==
    ASSUME NEW d, NEW s, Keeps(d, s), NEW c \in Call, Remembers(ApplyOne(s, c)), ~ApplyOne(s, c).abort
    PROVE  Remembers(s) /\ SameFiles(s, ApplyOne(s, c)) /\ Met(s, c)
<1>1. CASE c.op = "Removed"
  <2>1. ApplyOne(s, c) = RemoveFile(s, c)
    BY <1>1 DEF ApplyOne
  <2> QED BY <1>1, <2>1, RemoveFileQuiet DEF SameFiles
<1>2. CASE c.op = "FolderRemoved"
  <2>1. ApplyOne(s, c) = RemoveFolder(s, c)
    BY <1>2 DEF ApplyOne
  <2> QED BY <1>2, <2>1, RemoveFolderQuiet DEF Met
<1>3. CASE c.op = "Upserted"
  <2>1. ApplyOne(s, c) = UpsertFile(s, c)
    BY <1>3 DEF ApplyOne
  <2> QED BY <1>3, <2>1, UpsertFileQuiet DEF SameFiles
<1>4. CASE c.op = "FolderUpserted"
  <2>1. ApplyOne(s, c) = UpsertFolder(s, c)
    BY <1>4 DEF ApplyOne
  <2> QED BY <1>4, <2>1, UpsertFolderQuiet DEF Met
<1>5. c.op \in {"Removed", "FolderRemoved", "Upserted", "FolderUpserted"}
  BY DEF Call
<1> QED BY <1>1, <1>2, <1>3, <1>4, <1>5

-----------------------------------------------------------------------------
(* A pass that is skipped has nothing to do: each step.                    *)

\* Each change of a batch is one of those that coalesce leaves, or says what one of them says.
LEMMA CoalescePends ==
    ASSUME NEW b \in Seq(Call), NEW c \in Range(b) PROVE Pending(c, Coalesce(b))
<1> DEFINE S == {i \in DOMAIN b : ~ \E j \in DOMAIN b : j > i /\ b[j].id = b[i].id /\ b[j].op = b[i].op}
           A == {i \in DOMAIN b : b[i].id = c.id /\ b[i].op = c.op}
           nth(n) == CHOOSE i \in S : Rank(S, i) = n
<1>1. DOMAIN b = 1 .. Len(b) /\ Len(b) \in Nat
  BY LenProperties
<1>2. PICK k \in A : \A i \in A : i <= k
  <2> DEFINE R == {Len(b) - i : i \in A}
  <2>1. R \in SUBSET Nat
    BY <1>1
  <2>2. R # {}
    BY DEF Range
  <2>3. \A i \in A : Len(b) - i \in R
    OBVIOUS
  <2>4. \A r \in R : \E i \in A : r = Len(b) - i
    OBVIOUS
  <2> HIDE DEF R
  <2>5. PICK r \in R : \A q \in R : r <= q
    BY <2>1, <2>2, LeastOf
  <2>6. PICK k \in A : r = Len(b) - k
    BY <2>4
  <2>7. \A i \in A : Len(b) - k <= Len(b) - i /\ i \in Nat /\ k \in Nat
    BY <1>1, <2>3, <2>5, <2>6
  <2>8. \A i \in A : i <= k
    BY <1>1, <2>7
  <2> QED BY <2>8
<1>3. k \in S /\ b[k].id = c.id /\ b[k].op = c.op
  <2>1. \A j \in DOMAIN b : j > k => ~ (b[j].id = b[k].id /\ b[j].op = b[k].op)
    <3> SUFFICES ASSUME NEW j \in DOMAIN b, j > k, b[j].id = b[k].id, b[j].op = b[k].op PROVE FALSE
      OBVIOUS
    <3>1. j <= k
      BY <1>2
    <3> QED BY <1>1, <3>1
  <2> QED BY <2>1
<1>4. S \in SUBSET (1 .. Len(b))
  BY <1>1
<1>5. Coalesce(b) = [n \in 1 .. Cardinality(S) |-> b[nth(n)]]
  BY DEF Coalesce, InOrder, Rank
<1> HIDE DEF S
<1>6. S \in SUBSET Nat /\ IsFiniteSet(S)
  <2>1. S \in SUBSET Nat
    BY <1>1, <1>4
  <2>2. IsFiniteSet(1 .. Len(b))
    BY <1>1, FS_Interval
  <2> QED BY <1>4, <2>1, <2>2, FS_Subset
<1>7. Rank(S, k) \in 1 .. Cardinality(S)
  BY <1>3, <1>6, RankGrows
<1>8. nth(Rank(S, k)) = k
  <2>1. \A i \in S : Rank(S, i) = Rank(S, k) => i = k
    BY <1>3, <1>6, RankHits
  <2> QED BY <1>3, <2>1
<1> HIDE DEF nth
<1>9. Coalesce(b)[Rank(S, k)] = b[k] /\ Rank(S, k) \in DOMAIN Coalesce(b)
  BY <1>5, <1>7, <1>8
<1> QED BY <1>3, <1>9 DEF Pending

LEMMA InitSkipInv == PassInit => SkipInv
<1> SUFFICES ASSUME PassInit PROVE SkipInv
  OBVIOUS
<1>1. phase = "rest" /\ seen = NoOne
  BY DEF PassInit
<1> QED BY <1>1, InitNamesInv DEF SkipInv

\* What a pass that was remembered has left stays done.
LEMMA SeenStays ==
    ASSUME SkipInv, OwnKept(root, root'), UNCHANGED <<seen, dirs>>, tangled => tangled'
    PROVE  ~tangled' /\ seen' # NoOne => \A c \in Range(seen'.batch) : Done(c, seen'.tree, dirs', root')
<1> SUFFICES ASSUME ~tangled', seen # NoOne, NEW c \in Range(seen.batch) PROVE Done(c, seen.tree, dirs, root')
  OBVIOUS
<1>1. Tidy(root) /\ Done(c, seen.tree, dirs, root)
  BY DEF SkipInv, NamesInv, PassInv
<1> QED BY <1>1, DoneStays

LEMMA BeginPassSkip == ASSUME SkipInv, BeginPass PROVE SkipInv'
<1>1. NamesInv /\ NamesInv' /\ batch \in Seq(Call)
  BY BeginPassNames DEF SkipInv, NamesInv, PassInv
<1>2. /\ walked' = Tree(root) /\ todo' = Coalesce(batch) /\ files' \in Indexes(root, "file")
      /\ UNCHANGED <<root, batch, seen, dirs, tangled>>
  BY DEF BeginPass
<1>3. ASSUME NEW e \in walked', e[2] # NoOne
      PROVE  e[2] \in DOMAIN files' /\ \E g \in walked' : g[1] = files'[e[2]] /\ g[2] = e[2]
  <2>1. e[1] \in DOMAIN root /\ root[e[1]].kind = "file" /\ e = <<e[1], root[e[1]].id, root[e[1]].tag>>
    BY <1>2, TreeIs
  <2> DEFINE x == e[2]
             p == files'[x]
             g == <<p, root[p].id, root[p].tag>>
  <2>2. x = root[e[1]].id
    BY <2>1
  <2> HIDE DEF x
  <2>3. x \in Claimed(root, "file")
    BY <1>3, <2>1, <2>2 DEF Claimed, x
  <2>4. x \in DOMAIN files' /\ p \in Claimants(root, "file", x)
    BY <1>2, <2>3 DEF Indexes
  <2> HIDE DEF p
  <2>5. p \in DOMAIN root /\ root[p].kind = "file" /\ root[p].id = x
    BY <2>4 DEF Claimants
  <2>6. g \in walked' /\ g[1] = p /\ g[2] = x
    BY <1>2, <2>5, TreeIs
  <2> QED BY <2>4, <2>6 DEF x, p
<1>4. \A c \in Range(batch) : Pending(c, todo')
  BY <1>1, <1>2, CoalescePends
<1>5. Quiet'
  BY <1>2, <1>3, <1>4 DEF Quiet
<1> QED BY <1>1, <1>2, <1>5 DEF SkipInv

\* A change that the pass has left as it is, is done.
LEMMA HeadDone ==
    ASSUME NamesInv, ~tangled, Quiet, todo # <<>>, NEW s, s.root = root, s.files = files, Met(s, Head(todo)),
           NEW c \in Range(batch), c.op = Head(todo).op, c.id = Head(todo).id
    PROVE  Done(c, walked, Dirs(root), root)
<1>1. /\ todo \in Seq(Call) /\ batch \in Seq(Call) /\ Tidy(root) /\ Describes(listed, todo) /\ Describes(listed, batch)
  BY DEF NamesInv, PassInv
<1>2. Head(todo) = todo[1] /\ 1 \in DOMAIN todo /\ todo[1] \in Call
  BY <1>1, HeadTailProperties, EmptySeq, LenProperties, ElementOfSeq
<1>3. c.id \in Id /\ c.id # NoOne
  BY <1>2, PassAssumption DEF Call
<1>4. CASE c.op = "Upserted"
  <2> DEFINE p == c.path
             e == <<p, root[p].id, root[p].tag>>
  <2>1. PICK i \in DOMAIN batch : c = batch[i]
    BY DEF Range
  <2>2. c = Head(todo)
    BY <1>1, <1>2, <1>4, <2>1 DEF Describes, Putting
  <2>3. p \in DOMAIN root /\ \/ root[p].kind = "folder" \/ root[p].work # {}
                             \/ root[p].id = c.id /\ root[p].tag = c.tag
    BY <1>4, <2>2 DEF Met
  <2>4. root[p].kind \in {"file", "folder"}
    BY <2>3, EntryIs DEF NamesInv, PassInv
  <2>5. CASE root[p].kind = "folder"
    BY <1>4, <2>3, <2>5 DEF Done, Dirs
  <2>6. CASE root[p].kind = "file"
    <3>1. e \in Tree(root) /\ e[1] = p /\ e[2] = root[p].id
      BY <2>3, <2>6, TreeIs
    <3>2. CASE root[p].id = c.id /\ root[p].tag = c.tag
      <4>1. e \in walked /\ e = <<c.path, c.id, c.tag>>
        BY <1>3, <3>1, <3>2 DEF Quiet
      <4> QED BY <1>4, <4>1 DEF Done
    <3>3. CASE root[p].work # {} /\ e \in walked
      <4>1. Holds(root, e[2])
        BY <2>3, <2>6, <3>1, <3>3 DEF Holds, Own
      <4> QED BY <1>4, <3>1, <3>3, <4>1 DEF Done
    <3>4. CASE root[p].work # {} /\ e \notin walked
      <4>1. root[p].id = NoOne
        BY <3>1, <3>4 DEF Quiet
      <4>2. Loose(walked) \subseteq Loose(Tree(root))
        BY DEF Loose, Quiet
      <4>3. p \in Loose(Tree(root))
        BY <2>3, <2>6, <4>1, TreeIs
      <4>4. p \notin Loose(walked)
        <5> SUFFICES ASSUME NEW g \in walked, g[1] = p PROVE FALSE
          BY DEF Loose
        <5>1. g \in Tree(root)
          BY DEF Quiet
        <5>2. g = <<g[1], root[g[1]].id, root[g[1]].tag>>
          BY <5>1, TreeIs
        <5> QED BY <3>4, <5>2
      <4>5. IsFiniteSet(Loose(Tree(root)))
        BY <1>1, LooseFinite
      <4>6. /\ IsFiniteSet(Loose(walked)) /\ Cardinality(Loose(walked)) <= Cardinality(Loose(Tree(root)))
            /\ Cardinality(Loose(walked)) # Cardinality(Loose(Tree(root)))
        BY <4>2, <4>3, <4>4, <4>5, FS_Subset
      <4>7. Cardinality(Loose(walked)) \in Nat /\ Cardinality(Loose(Tree(root))) \in Nat
        BY <4>5, <4>6, FS_CardinalityType
      <4>8. Cardinality(Loose(walked)) < Cardinality(Loose(Tree(root)))
        BY <4>6, <4>7
      <4> QED BY <1>4, <4>7, <4>8 DEF Done
    <3> QED BY <2>3, <2>6, <3>2, <3>3, <3>4
  <2> QED BY <2>4, <2>5, <2>6
<1>5. CASE c.op = "Removed"
  <2> SUFFICES ASSUME NEW e \in walked, e[2] = c.id PROVE Holds(root, c.id)
    BY <1>5 DEF Done
  <2> DEFINE p == files[c.id]
  <2>1. c.id \in DOMAIN files /\ \E g \in walked : g[1] = p /\ g[2] = c.id
    BY <1>3 DEF Quiet
  <2>2. PICK g \in walked : g[1] = p /\ g[2] = c.id
    BY <2>1
  <2> HIDE DEF p
  <2>3. g \in Tree(root)
    BY DEF Quiet
  <2>4. p \in DOMAIN root /\ root[p].kind = "file" /\ g = <<p, root[p].id, root[p].tag>>
    BY <2>2, <2>3, TreeIs
  <2>5. root[p].id = c.id
    BY <2>2, <2>4
  <2>6. root[p].work # {}
    BY <1>5, <2>1, <2>4 DEF Met, p
  <2> QED BY <2>4, <2>5, <2>6 DEF Holds, Own
<1>6. CASE c.op \notin {"Upserted", "Removed"}
  BY <1>6 DEF Done
<1> QED BY <1>4, <1>5, <1>6

LEMMA ApplySkip == ASSUME SkipInv, Apply PROVE SkipInv'
<1> DEFINE s0 == [root |-> root, files |-> files, folders |-> folders, retry |-> verdict.retry,
                  did |-> verdict.did, failed |-> verdict.failed, abort |-> FALSE]
           c    == Head(todo)
           s    == ApplyOne(s0, c)
<1>1. /\ NamesInv /\ NamesInv' /\ PassInv /\ TreeOK(root) /\ Tidy(root) /\ todo \in Seq(Call) /\ todo # <<>>
      /\ phase = "pass"
  BY ApplyNames DEF SkipInv, NamesInv, PassInv, Apply
<1>2. OwnKept(root, root')
  BY <1>1, ApplyKeeps
<1>3. /\ c \in Call /\ Tail(todo) \in Seq(Call)
      /\ \A i \in DOMAIN todo : i = 1 \/ (i - 1 \in DOMAIN Tail(todo) /\ todo[i] = Tail(todo)[i - 1])
  BY <1>1, HeadTailProperties, EmptySeq, LenProperties
<1>4. /\ Keeps(root, s0) /\ s0.root = root /\ s0.files = files
      /\ s0.retry = verdict.retry /\ s0.did = verdict.did /\ s0.failed = verdict.failed
  BY <1>1, StaysSame DEF Keeps, IsState
<1>5. /\ root' = s.root /\ (tangled => tangled') /\ UNCHANGED <<batch, seen, dirs>>
      /\ \/ phase' = "rest"
         \/ /\ ~s.abort /\ todo' = Tail(todo) /\ walked' = walked /\ files' = s.files
            /\ verdict' = [retry |-> s.retry, did |-> s.did, failed |-> s.failed]
  BY DEF Apply, AtRest
<1>6. c = todo[1]
  BY <1>1, HeadTailProperties
<1> HIDE DEF s0, c, s
<1>7. ASSUME ~tangled', phase' = "pass", Remembers(verdict') PROVE Quiet'
  <2>1. /\ ~s.abort /\ todo' = Tail(todo) /\ walked' = walked /\ files' = s.files /\ ~tangled
        /\ verdict' = [retry |-> s.retry, did |-> s.did, failed |-> s.failed]
    BY <1>5, <1>7
  <2>2. Remembers(s)
    BY <1>7, <2>1 DEF Remembers
  <2>3. Remembers(s0) /\ SameFiles(s0, s) /\ Met(s0, c)
    BY <1>3, <1>4, <2>1, <2>2, ApplyOneQuiet DEF s
  <2>4. Quiet
    <3>1. Remembers(verdict)
      BY <1>4, <2>3 DEF Remembers
    <3> QED BY <1>1, <2>1, <3>1 DEF SkipInv
  <2>5. Tree(root') = Tree(root) /\ Dirs(root') = Dirs(root) /\ files' = files
    BY <1>4, <1>5, <2>1, <2>3 DEF SameFiles
  <2>6. ASSUME NEW e \in Range(batch) PROVE Pending(e, Tail(todo)) \/ Done(e, walked, Dirs(root'), root')
    <3>1. CASE Done(e, walked, Dirs(root), root)
      BY <1>1, <1>2, <2>5, <3>1, DoneStays
    <3>2. CASE c.op = e.op /\ c.id = e.id
      <4>1. Done(e, walked, Dirs(root), root)
        BY <1>1, <1>4, <2>1, <2>3, <2>4, <3>2, HeadDone DEF c
      <4> QED BY <3>1, <4>1
    <3>3. CASE Pending(e, todo) /\ ~ (c.op = e.op /\ c.id = e.id)
      BY <1>3, <1>6, <3>3 DEF Pending
    <3> QED BY <2>4, <3>1, <3>2, <3>3 DEF Quiet
  <2> QED BY <1>5, <2>1, <2>4, <2>5, <2>6 DEF Quiet
<1> QED BY <1>1, <1>2, <1>5, <1>7, SeenStays DEF SkipInv

LEMMA RestSkip == ASSUME SkipInv, Skip \/ EndPass \/ Stop PROVE SkipInv'
<1>1. NamesInv' /\ PassInv
  BY RestNames DEF SkipInv, NamesInv
<1>2. root' = root /\ tangled' = tangled /\ phase' = "rest"
  BY DEF Skip, EndPass, Stop, AtRest
<1>3. CASE UNCHANGED <<seen, dirs>>
  BY <1>1, <1>2, <1>3 DEF SkipInv
<1>4. CASE EndPass /\ Remembers(verdict)
  <2>1. /\ seen' = [batch |-> batch, tree |-> walked] /\ dirs' = Dirs(root) /\ phase = "pass" /\ todo = <<>>
    BY <1>4 DEF EndPass
  <2>2. seen'.batch = batch /\ seen'.tree = walked
    BY <2>1
  <2>3. ASSUME ~tangled, NEW c \in Range(batch) PROVE Done(c, walked, Dirs(root), root)
    <3>1. Quiet
      BY <1>4, <2>1, <2>3 DEF SkipInv
    <3>2. ~Pending(c, todo)
      BY <2>1 DEF Pending
    <3> QED BY <3>1, <3>2 DEF Quiet
  <2> QED BY <1>1, <1>2, <2>1, <2>2, <2>3 DEF SkipInv
<1> QED BY <1>3, <1>4 DEF Skip, EndPass, Stop

LEMMA ServeSkip ==
    ASSUME SkipInv, NEW new, new \in Later(listed) \/ new = listed, NEW whole \in BOOLEAN, Serve(new, whole)
    PROVE  SkipInv'
<1>1. NamesInv'
  BY ServeNames DEF SkipInv
<1>2. UNCHANGED <<root, phase, seen, dirs, tangled>> /\ phase = "rest"
  BY DEF Serve
<1> QED BY <1>1, <1>2 DEF SkipInv

\* A file that the user writes is nobody's; one that he edits keeps its place in the tree.
LEMMA LocalSkip ==
    ASSUME SkipInv, NamesInv', OwnKept(root, root'), tangled => tangled',
           UNCHANGED <<batch, todo, phase, files, verdict, walked, seen, dirs>>,
           phase = "pass" /\ ~tangled' => /\ Dirs(root') = Dirs(root) /\ Tree(root) \subseteq Tree(root')
                                          /\ \A e \in Tree(root') : e \in Tree(root) \/ e[2] = NoOne
    PROVE  SkipInv'
<1>1. Tidy(root)
  BY DEF SkipInv, NamesInv, PassInv
<1>2. ASSUME ~tangled', phase' = "pass", Remembers(verdict') PROVE Quiet'
  <2>1. Quiet /\ Dirs(root') = Dirs(root) /\ Tree(root) \subseteq Tree(root')
        /\ \A e \in Tree(root') : e \in Tree(root) \/ e[2] = NoOne
    BY <1>2 DEF SkipInv
  <2>2. ASSUME NEW c \in Range(batch) PROVE Pending(c, todo) \/ Done(c, walked, Dirs(root'), root')
    <3>1. Pending(c, todo) \/ Done(c, walked, Dirs(root), root)
      BY <2>1 DEF Quiet
    <3> QED BY <1>1, <2>1, <3>1, DoneStays
  <2> QED BY <2>1, <2>2 DEF Quiet
<1> QED BY <1>2, SeenStays DEF SkipInv

LEMMA WriteSkip == ASSUME SkipInv, NEW p \in Paths, Write(p) PROVE SkipInv'
<1> DEFINE v == [Unknown EXCEPT !.kind = "file", !.work = {acts}]
<1>1. NamesInv' /\ OwnKept(root, root')
  BY WriteNames, WriteKeeps DEF SkipInv, NamesInv
<1>2. /\ root' = With(root, p, v) /\ p \notin DOMAIN root
      /\ UNCHANGED <<batch, todo, phase, files, verdict, walked, seen, dirs, tangled>>
  BY DEF Write, Local, index
<1>3. v.id = NoOne /\ v.kind = "file"
  BY DEF Unknown
<1> HIDE DEF v
<1>4. /\ DOMAIN root' = DOMAIN root \cup {p} /\ root'[p] = v
      /\ \A q \in DOMAIN root : root'[q] = root[q]
  BY <1>2 DEF With
<1>5. Dirs(root') = Dirs(root)
  BY <1>3, <1>4 DEF Dirs
<1>6. Tree(root) \subseteq Tree(root')
  <2> SUFFICES ASSUME NEW e \in Tree(root) PROVE e \in Tree(root')
    OBVIOUS
  <2>1. e[1] \in DOMAIN root /\ root[e[1]].kind = "file" /\ e = <<e[1], root[e[1]].id, root[e[1]].tag>>
    BY TreeIs
  <2>2. e[1] \in DOMAIN root' /\ root'[e[1]] = root[e[1]]
    BY <1>4, <2>1
  <2>3. <<e[1], root'[e[1]].id, root'[e[1]].tag>> \in Tree(root')
    BY <2>1, <2>2, TreeIs
  <2> QED BY <2>1, <2>2, <2>3
<1>7. ASSUME NEW e \in Tree(root') PROVE e \in Tree(root) \/ e[2] = NoOne
  <2>1. e[1] \in DOMAIN root' /\ root'[e[1]].kind = "file" /\ e = <<e[1], root'[e[1]].id, root'[e[1]].tag>>
    BY TreeIs
  <2>2. CASE e[1] = p
    BY <1>3, <1>4, <2>1, <2>2
  <2>3. CASE e[1] # p
    <3>1. e[1] \in DOMAIN root /\ root'[e[1]] = root[e[1]]
      BY <1>4, <2>1, <2>3
    <3>2. <<e[1], root[e[1]].id, root[e[1]].tag>> \in Tree(root)
      BY <2>1, <3>1, TreeIs
    <3> QED BY <2>1, <3>1, <3>2
  <2> QED BY <2>2, <2>3
<1> QED BY <1>1, <1>2, <1>5, <1>6, <1>7, LocalSkip

LEMMA EditSkip == ASSUME SkipInv, NEW p \in DOMAIN root, Edit(p) PROVE SkipInv'
<1> DEFINE d == [root EXCEPT ![p].work = @ \cup {acts}]
<1>1. NamesInv' /\ OwnKept(root, root')
  BY EditNames, EditKeeps DEF SkipInv, NamesInv
<1>2. /\ root' = d /\ UNCHANGED <<batch, todo, phase, files, verdict, walked, seen, dirs, tangled>>
  BY DEF Edit, Local, index
<1>3. root \in [DOMAIN root -> Entry]
  BY DEF SkipInv, NamesInv, PassInv, TreeOK
<1>4. /\ DOMAIN d = DOMAIN root
      /\ \A q \in DOMAIN root : d[q].id = root[q].id /\ d[q].kind = root[q].kind /\ d[q].tag = root[q].tag
  BY <1>3 DEF Entry
<1> HIDE DEF d
<1>5. Dirs(d) = Dirs(root)
  BY <1>4 DEF Dirs
<1>6. Tree(d) = Tree(root)
  <2>1. {q \in DOMAIN d : d[q].kind = "file"} = {q \in DOMAIN root : root[q].kind = "file"}
    BY <1>4
  <2> QED BY <1>4, <2>1 DEF Tree
<1> QED BY <1>1, <1>2, <1>5, <1>6, LocalSkip

LEMMA MoveSkip == ASSUME SkipInv, NEW p \in DOMAIN root, NEW q \in Paths, Move(p, q) PROVE SkipInv'
<1>1. NamesInv' /\ OwnKept(root, root')
  BY MoveNames, MoveKeeps DEF SkipInv, NamesInv
<1>2. /\ tangled' = (tangled \/ phase = "pass")
      /\ UNCHANGED <<batch, todo, phase, files, verdict, walked, seen, dirs>>
  BY DEF Move, Local, index
<1> QED BY <1>1, <1>2, LocalSkip

LEMMA SkipStep == SkipInv /\ [PassNext]_pvars => SkipInv'
<1> SUFFICES ASSUME SkipInv, [PassNext]_pvars PROVE SkipInv'
  OBVIOUS
<1>1. ASSUME NEW new \in Later(listed), NEW whole \in BOOLEAN, Serve(new, whole) PROVE SkipInv'
  BY <1>1, ServeSkip
<1>2. CASE Serve(listed, FALSE)
  BY <1>2, ServeSkip
<1>3. CASE BeginPass
  BY <1>3, BeginPassSkip
<1>4. CASE Skip \/ EndPass \/ Stop
  BY <1>4, RestSkip
<1>5. CASE Apply
  BY <1>5, ApplySkip
<1>6. ASSUME NEW p \in Paths, Write(p) PROVE SkipInv'
  BY <1>6, WriteSkip
<1>7. ASSUME NEW p \in DOMAIN root, Edit(p) PROVE SkipInv'
  BY <1>7, EditSkip
<1>8. ASSUME NEW p \in DOMAIN root, NEW q \in Paths, Move(p, q) PROVE SkipInv'
  BY <1>8, MoveSkip
<1>9. CASE UNCHANGED pvars
  <2>1. NamesInv'
    <3>1. NamesInv /\ [PassNext]_pvars
      BY <1>9 DEF SkipInv
    <3> QED BY <3>1, NamesStep
  <2> QED BY <1>9, <2>1 DEF SkipInv, Quiet, pvars, index
<1> QED BY <1>1, <1>2, <1>3, <1>4, <1>5, <1>6, <1>7, <1>8, <1>9 DEF PassNext

\* While the files are those that a remembered pass has walked, and no directory has gone from
\* where it left it, each change of its batch is as it would leave it: a pass that is skipped
\* has nothing to do (delta.rs:886-911, store.rs:141-142).
THEOREM Skips_nothing == PassSpec => []SkipsNothing
<1>1. SkipInv => SkipsNothing
  <2> SUFFICES ASSUME SkipInv, seen # NoOne, seen.tree = Tree(root), dirs \subseteq Dirs(root), ~tangled,
                      NEW c \in Range(seen.batch)
               PROVE  /\ c.op = "Upserted" =>
                            /\ c.path \in DOMAIN root
                            /\ \/ root[c.path].id = c.id /\ root[c.path].tag = c.tag
                               \/ root[c.path].work # {} \/ root[c.path].kind = "folder"
                      /\ c.op = "Removed" => \A p \in Claimants(root, "file", c.id) : root[p].work # {}
    BY DEF SkipsNothing
  <2>1. Done(c, Tree(root), dirs, root) /\ One(root) /\ Tidy(root)
    BY DEF SkipInv, NamesInv, PassInv
  <2>2. ASSUME NEW p \in DOMAIN root, root[p].kind = "file", root[p].id = NoOne \/ Holds(root, root[p].id)
        PROVE  root[p].work # {}
    <3>1. CASE root[p].id = NoOne
      BY <2>1, <2>2, <3>1 DEF Tidy
    <3>2. CASE root[p].id # NoOne
      <4>1. PICK q \in Own(root) : root[q].id = root[p].id
        BY <2>2, <3>2 DEF Holds
      <4>2. q \in DOMAIN root /\ root[q].work # {}
        BY DEF Own
      <4> QED BY <2>1, <3>2, <4>1, <4>2 DEF One
    <3> QED BY <3>1, <3>2
  <2>3. ASSUME c.op = "Upserted"
        PROVE  /\ c.path \in DOMAIN root
               /\ \/ root[c.path].id = c.id /\ root[c.path].tag = c.tag
                  \/ root[c.path].work # {} \/ root[c.path].kind = "folder"
    <3>1. ~ (Cardinality(Loose(Tree(root))) < Cardinality(Loose(Tree(root))))
      BY <2>1, LooseFinite
    <3>2. CASE <<c.path, c.id, c.tag>> \in Tree(root)
      <4> DEFINE e == <<c.path, c.id, c.tag>>
      <4>1. e \in Tree(root) /\ e[1] = c.path /\ e[2] = c.id /\ e[3] = c.tag
        BY <3>2
      <4> HIDE DEF e
      <4>2. e[1] \in DOMAIN root /\ e = <<e[1], root[e[1]].id, root[e[1]].tag>>
        BY <4>1, TreeIs
      <4>3. e[2] = root[e[1]].id /\ e[3] = root[e[1]].tag
        BY <4>2
      <4> QED BY <4>1, <4>2, <4>3
    <3>3. CASE \E e \in Tree(root) : e[1] = c.path /\ (e[2] = NoOne \/ Holds(root, e[2]))
      <4>1. PICK e \in Tree(root) : e[1] = c.path /\ (e[2] = NoOne \/ Holds(root, e[2]))
        BY <3>3
      <4>2. e[1] \in DOMAIN root /\ root[e[1]].kind = "file" /\ e = <<e[1], root[e[1]].id, root[e[1]].tag>>
        BY TreeIs
      <4>3. e[2] = root[e[1]].id
        BY <4>2
      <4> QED BY <2>2, <4>1, <4>2, <4>3
    <3>4. CASE c.path \in dirs
      BY <3>4 DEF Dirs
    <3> QED BY <2>1, <2>3, <3>1, <3>2, <3>3, <3>4 DEF Done
  <2>4. ASSUME c.op = "Removed", NEW p \in Claimants(root, "file", c.id) PROVE root[p].work # {}
    <3>1. p \in DOMAIN root /\ root[p].kind = "file" /\ root[p].id = c.id
      BY DEF Claimants
    <3> DEFINE e == <<p, root[p].id, root[p].tag>>
    <3>2. e \in Tree(root) /\ e[2] = c.id
      BY <3>1, TreeIs
    <3> HIDE DEF e
    <3>3. Holds(root, c.id)
      BY <2>1, <2>4, <3>2 DEF Done
    <3> QED BY <2>2, <3>1, <3>3
  <2> QED BY <2>3, <2>4
<1> QED BY <1>1, InitSkipInv, SkipStep, PTL DEF PassSpec
=============================================================================

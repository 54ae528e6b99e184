------------------------------ MODULE DeltaFeed ------------------------------
(***************************************************************************)
(* The delta feed from the cloud to the folder, across crashes: the        *)
(* provider's rounds (GraphDiscover in hydration-graph/src/lib.rs), the two *)
(* files in which it keeps its tree and its token, and the thread of the   *)
(* daemon that applies each batch and moves its cursor (daemon_loop.rs).   *)
(*                                                                         *)
(* A file is an id; where it lies in the tree is the business of Namespace. *)
(* The service is external: a log of changes of which a token is a         *)
(* position, reported in pages while it grows.                             *)
(***************************************************************************)
EXTENDS Naturals, FiniteSets

CONSTANTS
    File,           \* ids of files on the drive
    NoLink,         \* there is no token
    NoCursor,       \* the cursor a daemon starts with
    BlastLimit,     \* deletions an enumeration may imply (the code: max(64, known / 10))
    MaxOps,         \* bound: entries in the log, changes and expiries
    MaxTroubles     \* bound: crashes, failed requests, writes, changes, expired tokens, lost trees

ASSUME FeedAssumption ==
    /\ BlastLimit \in Nat /\ MaxOps \in Nat /\ MaxTroubles \in Nat
    /\ NoLink \notin Nat /\ NoCursor \notin [n : 0 .. 1, link : Nat]

VARIABLES
    cloud,      \* [File -> Nat]: the version the drive holds, 0 for none
    look,       \* [File -> Look]: how the service describes it
    touched,    \* [File -> Nat]: the log position of its last change
    head,       \* the end of the log
    floor,      \* tokens before this position have expired
    hasTree,    \* the tree file exists
    tree,       \* [File -> Nat]: the items in it
    treeGen,    \* the generation stamped on it
    token,      \* the position in the token file, or NoLink
    tokenGen,   \* the generation stamped on it
    at,         \* where the delta thread stands
    enum,       \* Attempt::enumerated
    work,       \* [File -> Nat]: the round's Namespace
    gone,       \* the round's Removed changes
    left,       \* files the round's feed has not reported yet
    from,       \* the log position the round's token will name
    held,       \* a refusal or a pending item withholds the token
    applied,    \* Round::applied > 0
    pend,       \* GraphDiscover::pending
    cursor,     \* the daemon's cursor
    lastIn,     \* GraphDiscover::last_input
    served,     \* GraphDiscover::served
    rounds,     \* GraphDiscover::rounds, modulo 2: only neighbours are ever compared
    toRemove,   \* what is left of the batch being applied: removals
    toPlace,    \* and files to place
    retry,      \* Applied::retryable
    local,      \* [File -> Nat]: the version the folder holds, 0 for none
    missed,     \* history: why a deletion will not reach a file
    troubles

drive    == <<cloud, look, touched, head, floor>>
disk     == <<hasTree, tree, treeGen, token, tokenGen>>
round    == <<enum, work, gone, left, from, held, applied>>
memory   == <<pend, lastIn, served, rounds>>
pass     == <<toRemove, toPlace, retry>>
vars     == <<drive, disk, round, memory, pass, at, cursor, local, missed, troubles>>

Look    == {"good", "deferred", "refused"}
Reasons == {"no", "crash", "lost", "blast", "kept"}
Points  == {"idle", "saveTree", "saveToken", "begin", "again", "fetch", "pass"}

NoTree == [f \in File |-> 0]
NoPend == [is |-> FALSE, save |-> FALSE, tree |-> NoTree, tok |-> NoLink, gen |-> 0]
Unserved == [is |-> FALSE, gone |-> {}, tree |-> NoTree, next |-> NoCursor]
Issued  == [n : 0 .. 1, link : Nat]
Cursors == {NoCursor} \cup Issued

DriveOK ==
    /\ cloud \in [File -> Nat] /\ look \in [File -> Look] /\ touched \in [File -> Nat]
    /\ head \in Nat /\ floor \in Nat

DiskOK ==
    /\ hasTree \in BOOLEAN /\ tree \in [File -> Nat] /\ treeGen \in Nat
    /\ token \in Nat \cup {NoLink} /\ tokenGen \in Nat
    /\ ~ hasTree => tree = NoTree

RoundOK ==
    /\ at \in Points /\ enum \in BOOLEAN /\ work \in [File -> Nat] /\ from \in Nat
    /\ gone \in SUBSET File /\ left \in SUBSET File /\ held \in BOOLEAN /\ applied \in BOOLEAN

MemoryOK ==
    /\ pend \in [is : BOOLEAN, save : BOOLEAN, tree : [File -> Nat], tok : Nat \cup {NoLink},
                 gen : Nat]
    /\ cursor \in Cursors /\ lastIn \in Cursors \cup {NoLink}
    /\ served \in [is : BOOLEAN, gone : SUBSET File, tree : [File -> Nat], next : Cursors]
    /\ rounds \in 0 .. 1

PassOK ==
    /\ toRemove \in SUBSET File /\ toPlace \in SUBSET File /\ retry \in BOOLEAN
    /\ local \in [File -> Nat] /\ missed \in [File -> Reasons] /\ troubles \in Nat

TypeOK == DriveOK /\ DiskOK /\ RoundOK /\ MemoryOK /\ PassOK

Trouble == troubles < MaxTroubles /\ troubles' = troubles + 1

In(t) == {f \in File : t[f] # 0}

\* The drive was filled in the first entry of the log, which this machine has not seen,
NeverSynced ==
    /\ touched = cloud /\ head = 1
    /\ hasTree = FALSE /\ tree = NoTree /\ treeGen = 0 /\ token = NoLink /\ tokenGen = 0
    /\ local = NoTree

\* or before it, and it was synced, and nothing has happened since.
SyncedOnce ==
    /\ touched = [f \in File |-> 0] /\ head = 0
    /\ hasTree = TRUE /\ tree = cloud /\ treeGen = 1 /\ token = 0 /\ tokenGen = 1
    /\ local = cloud

Init ==
    /\ cloud \in [File -> 0 .. 1] /\ look = [f \in File |-> "good"] /\ floor = 0
    /\ NeverSynced \/ SyncedOnce
    /\ at = "idle" /\ enum = FALSE /\ work = NoTree /\ gone = {} /\ left = {} /\ from = 0
    /\ held = FALSE /\ applied = FALSE
    /\ pend = NoPend /\ cursor = NoCursor /\ lastIn = NoLink /\ served = Unserved /\ rounds = 0
    /\ toRemove = {} /\ toPlace = {} /\ retry = FALSE
    /\ missed = [f \in File |-> "no"] /\ troubles = 0

-----------------------------------------------------------------------------
(* The drive: external.                                                    *)

\* A file is created, gets content, is deleted, or comes to be described otherwise
\* (quarantined or still uploading; or in a way no mapping exists for).
Drive(f, v, l) ==
    /\ head < MaxOps /\ head' = head + 1
    /\ cloud' = [cloud EXCEPT ![f] = v] /\ look' = [look EXCEPT ![f] = l]
    /\ touched' = [touched EXCEPT ![f] = head']
    /\ UNCHANGED <<floor, disk, round, memory, pass, at, cursor, local, missed, troubles>>

DriveChange(f) ==
    \/ Drive(f, head + 2, "good")
    \/ cloud[f] # 0 /\ Drive(f, 0, "good")
    \/ \E l \in {"deferred", "refused"} : cloud[f] # 0 /\ Drive(f, cloud[f], l)

\* The service forgets the positions it has given out so far.
Expire ==
    /\ head < MaxOps /\ head' = head + 1 /\ floor' = head' /\ Trouble
    /\ UNCHANGED <<cloud, look, touched, disk, round, memory, pass, at, cursor, local,
                   missed>>

-----------------------------------------------------------------------------
(* The provider.                                                           *)

\* StoredView::read: a token is worth something only beside a tree that is at least
\* as new as it.
Usable == hasTree /\ token # NoLink /\ tokenGen <= treeGen

\* What a deletion can no longer reach: files placed from a batch that is now
\* nowhere written down.
Unrecorded(t) == {f \in File : local[f] # 0 /\ t[f] = 0}

\* Fault: every request is taken as proof that the last batch was applied.
AskOn ==
    /\ at = "idle"
    /\ at' = IF ~pend.is THEN "begin" ELSE IF pend.save THEN "saveTree" ELSE "saveToken"
    /\ UNCHANGED <<drive, disk, round, memory, pass, cursor, local, missed, troubles>>

\* GraphDiscover::changes, its first decision: the same cursor again means the
\* batch was not applied, and is answered from memory; any other means it was.
Ask ==
    /\ at = "idle"
    /\ IF cursor = lastIn /\ served.is
       THEN at' = "again"
       ELSE at' = IF ~pend.is THEN "begin" ELSE IF pend.save THEN "saveTree" ELSE "saveToken"
    /\ UNCHANGED <<drive, disk, round, memory, pass, cursor, local, missed, troubles>>

ServeAgain ==
    /\ at = "again" /\ at' = "pass"
    /\ toRemove' = served.gone /\ toPlace' = In(served.tree) /\ retry' = FALSE
    /\ UNCHANGED <<drive, disk, round, memory, cursor, local, missed, troubles>>

\* GraphDiscover::commit: the tree first, then the token.  A failure discards both.
SaveTree ==
    /\ at = "saveTree" /\ at' = "saveToken"
    /\ hasTree' = TRUE /\ tree' = pend.tree /\ treeGen' = pend.gen
    /\ missed' = [f \in File |-> IF pend.tree[f] # 0 THEN "no" ELSE missed[f]]
    /\ UNCHANGED <<drive, token, tokenGen, round, memory, pass, cursor, local, troubles>>

SaveToken ==
    /\ at = "saveToken" /\ at' = "begin"
    /\ token' = pend.tok /\ tokenGen' = pend.gen
    /\ pend' = NoPend
    /\ UNCHANGED <<drive, hasTree, tree, treeGen, round, lastIn, served, rounds, pass, cursor,
                   local, missed, troubles>>

SaveFails ==
    /\ at \in {"saveTree", "saveToken"} /\ Trouble /\ at' = "idle"
    /\ pend' = NoPend
    /\ missed' = [f \in File |-> IF at = "saveTree" /\ f \in Unrecorded(tree)
                                 THEN "crash" ELSE missed[f]]
    /\ UNCHANGED <<drive, disk, round, lastIn, served, rounds, pass, cursor, local>>

\* What a round works on does not outlive it.
EndRound ==
    /\ enum' = FALSE /\ work' = NoTree /\ gone' = {} /\ left' = {} /\ from' = 0
    /\ held' = FALSE /\ applied' = FALSE

\* GraphDiscover::attempt, its start: resume from the token, or list everything.
Start(all) ==
    /\ at' = "fetch" /\ enum' = all
    /\ work' = IF all THEN NoTree ELSE tree
    /\ left' = IF all THEN In(cloud) ELSE {f \in File : touched[f] > token}
    /\ gone' = {} /\ from' = head /\ held' = FALSE /\ applied' = FALSE

\* run_round: load, and resume; a token the service no longer knows means one more
\* attempt that lists everything.
Begin ==
    /\ at = "begin"
    /\ Start(~Usable \/ token < floor)
    /\ UNCHANGED <<drive, disk, memory, pass, cursor, local, missed, troubles>>

\* map_item, by how the service describes f: a tombstone deletes, a transient state
\* is deferred, anything without a mapping withholds the round.
MapItem(f) == IF cloud[f] = 0 THEN "delete"
              ELSE IF look[f] = "good" THEN "upsert"
              ELSE look[f]

\* What the next page of an attempt may report: something it has yet to report, and
\* again whatever changed while it was going on.
Reported(S) ==
    S \cap left # {} /\ (S \ left) \subseteq {f \in File : touched[f] > from}

\* One page: Round::feed.  What the feed says last counts, and replaces what the
\* round had made of a file.
Page(S) ==
    /\ at = "fetch" /\ Reported(S)
    /\ LET says(m) == {f \in S : MapItem(f) = m}
       IN /\ work' = [f \in File |-> IF f \in says("upsert") THEN cloud[f]
                                     ELSE IF f \in says("delete") THEN 0 ELSE work[f]]
          /\ gone' = (gone \ says("upsert"))
                        \cup {f \in says("delete") : work[f] # 0}
          /\ held' = (held \/ says("refused") # {})
          /\ applied' = (applied \/ says("upsert") \cup says("delete") # {})
    /\ left' = left \ S
    /\ UNCHANGED <<drive, disk, enum, from, memory, pass, at, cursor, local, missed, troubles>>

\* A page cannot be had: throttled without end, an endless or looping feed, a link
\* off the endpoint, a broken reply.  The round is lost, the cursor stays.
FetchFails ==
    /\ at = "fetch" /\ Trouble /\ at' = "idle" /\ EndRound
    /\ UNCHANGED <<drive, disk, memory, pass, cursor, local, missed>>

\* The round is given up, its token with it.
Withhold ==
    /\ at = "fetch" /\ left = {} /\ held /\ at' = "idle" /\ EndRound
    /\ UNCHANGED <<drive, disk, memory, pass, cursor, local, missed, troubles>>

\* deletions_since: what an enumeration no longer mentions, unless that is more than
\* a mistake should be able to remove.
Vanished == {f \in In(tree) : work[f] = 0}
Deletions == IF enum /\ hasTree /\ Cardinality(Vanished) <= BlastLimit THEN Vanished ELSE {}

\* Fault: the delta link alone is the cursor.
CursorOfLink(link) == [n |-> 0, link |-> link]

CursorOf(link) == [n |-> 1 - rounds, link |-> link]

\* The end of an attempt: what goes out are the removals and the whole listing.
Batch == [gone |-> gone \cup Deletions, tree |-> work]

\* A round that changed nothing does not rewrite the tree, and keeps its generation.
Generation(unchanged) == (IF hasTree THEN treeGen ELSE 0) + (IF unchanged THEN 0 ELSE 1)

\* Fault: what could not be placed is only counted.
MayFinishAnyway == left = {}

\* Round::finish lets a round through only if it could place everything.
MayFinish == left = {} /\ ~held

\* What is left to commit once the batch is known to be applied.
Uncommitted(unchanged) ==
    [is |-> TRUE, save |-> ~unchanged, tree |-> work, tok |-> from,
     gen |-> Generation(unchanged)]

\* The tree and the token are derived and held back; the batch goes out.
Finish ==
    /\ at = "fetch" /\ MayFinish
    /\ pend' = Uncommitted(~enum /\ ~applied /\ gone = {})
    /\ served' = [is |-> TRUE, gone |-> Batch.gone, tree |-> Batch.tree,
                  next |-> CursorOf(from)]
    /\ toRemove' = Batch.gone
    /\ rounds' = 1 - rounds /\ lastIn' = cursor
    /\ toPlace' = In(work) /\ retry' = FALSE /\ at' = "pass"
    /\ missed' = [f \in File |->
                    IF enum /\ hasTree /\ f \in Vanished \ Deletions /\ local[f] # 0
                    THEN "blast" ELSE missed[f]]
    /\ EndRound
    /\ UNCHANGED <<drive, disk, cursor, local, troubles>>

-----------------------------------------------------------------------------
(* The daemon's delta thread.  Removals come first in a batch.             *)

PassRemove(f) ==
    /\ at = "pass" /\ f \in toRemove /\ toRemove' = toRemove \ {f}
    /\ \/ /\ local' = [local EXCEPT ![f] = 0] /\ missed' = [missed EXCEPT ![f] = "no"]
          /\ UNCHANGED troubles
       \* an edit not yet sent, or a file that cannot be removed: for good
       \/ /\ local[f] # 0 /\ Trouble
          /\ missed' = [missed EXCEPT ![f] = "kept"] /\ UNCHANGED local
    /\ UNCHANGED <<drive, disk, round, memory, toPlace, retry, at, cursor>>

PassPlace(f) ==
    /\ at = "pass" /\ toRemove = {} /\ f \in toPlace /\ toPlace' = toPlace \ {f}
    /\ \/ local' = [local EXCEPT ![f] = served.tree[f]] /\ UNCHANGED <<retry, troubles>>
       \* the change cannot be applied, for now or until it is listed again
       \/ Trouble /\ retry' \in {retry, TRUE} /\ UNCHANGED local
    /\ UNCHANGED <<drive, disk, round, memory, toRemove, at, cursor, missed>>

\* The mount goes away under the pass, or the folder cannot be walked.
PassStops ==
    /\ at = "pass" /\ Trouble
    /\ toRemove' = {} /\ toPlace' = {} /\ retry' = TRUE
    /\ UNCHANGED <<drive, disk, round, memory, at, cursor, local, missed>>

\* The cursor moves only past a pass that finished.
Accept ==
    /\ at = "pass" /\ toRemove = {} /\ toPlace = {} /\ at' = "idle"
    /\ cursor' = (IF retry THEN cursor ELSE served.next) /\ retry' = FALSE
    /\ UNCHANGED <<drive, disk, round, memory, toRemove, toPlace, local, missed, troubles>>

\* The daemon is restarted, and what it held in memory is gone.
Restart ==
    /\ Trouble /\ at' = "idle"
    /\ EndRound
    /\ pend' = NoPend /\ lastIn' = NoLink /\ served' = Unserved /\ rounds' = 0
    /\ toRemove' = {} /\ toPlace' = {} /\ retry' = FALSE /\ cursor' = NoCursor
    /\ UNCHANGED <<drive, local>>

\* The two files are not.
Crash ==
    /\ Restart /\ UNCHANGED disk
    /\ missed' = [f \in File |-> IF f \in Unrecorded(tree) /\ missed[f] = "no"
                                 THEN "crash" ELSE missed[f]]

\* StoredView::nothing: the tree is gone, cannot be parsed or is another drive's, and nothing
\* says what the folder has.
LoseTree ==
    /\ Restart /\ hasTree /\ hasTree' = FALSE /\ tree' = NoTree /\ treeGen' = 0
    /\ missed' = [f \in File |-> IF local[f] # 0 /\ missed[f] = "no" THEN "lost" ELSE missed[f]]
    /\ UNCHANGED <<token, tokenGen>>

-----------------------------------------------------------------------------

Thread ==
    \/ Ask \/ ServeAgain \/ SaveTree \/ SaveToken \/ Begin
    \/ (\E S \in SUBSET File : Page(S)) \/ Withhold \/ Finish
    \/ (\E f \in File : PassRemove(f) \/ PassPlace(f)) \/ Accept

Next ==
    \/ Thread
    \/ \E f \in File : DriveChange(f)
    \/ Expire \/ SaveFails \/ FetchFails \/ PassStops \/ Crash \/ LoseTree

Spec == Init /\ [][Next]_vars

\* The delta thread runs for ever, with a pause between rounds.  Its steps do not
\* fail unless something goes wrong, and that is bounded.
LiveSpec == Spec /\ WF_vars(Thread /\ troubles' = troubles)

-----------------------------------------------------------------------------
(* Properties.                                                             *)

\* Types, and: a token on disk never claims more than the tree beside it knows: whatever the
\* drive last did to a file by the token's position is in the tree, so that a
\* round resumed from it misses nothing (lib.rs:1954, "a token newer than its tree
\* is unrecoverable").  A deferred file is reported again when it settles.
TokenNotAhead ==
    TypeOK /\ (Usable => \A f \in File : touched[f] <= token /\ look[f] # "deferred" => tree[f] = cloud[f])

\* A file the drive no longer has, and the folder still does, is one a later round
\* or the next commit will find: it is in a tree whose token is older than the
\* deletion.  The exceptions are named: deletions deferred as too many, a removal
\* that was refused for good, a batch applied but never written down, and what was in the
\* folder when the tree was lost, until the next tree has it.
NoGhost ==
    \A f \in File : local[f] # 0 /\ cloud[f] = 0 =>
        \/ missed[f] # "no"
        \/ tree[f] # 0 /\ (~Usable \/ touched[f] > token)
        \/ pend.is /\ pend.tree[f] # 0 /\ touched[f] > pend.tok

\* Once the drive is quiet and nothing fails, the folder holds what it holds, unless
\* a refused item keeps the feed where it is; a deferred file may wait.
Settled(f) == missed[f] # "no" \/ look[f] = "deferred" \/ local[f] = cloud[f]
Converges ==
    (<>[](\E f \in File : look[f] = "refused")) \/ (<>[](\A f \in File : Settled(f)))

=============================================================================

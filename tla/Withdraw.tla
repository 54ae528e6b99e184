------------------------------ MODULE Withdraw ------------------------------
(***************************************************************************)
(* What the upload thread of a client does with the names that leave and   *)
(* enter its tree (hydration-client/src/daemon_loop.rs): it withdraws the  *)
(* objects of files that left, carries renames to the cloud, removes the   *)
(* folders that left and creates those that are new, and at the start of   *)
(* the daemon withdraws what left while it was not running.                *)
(*                                                                         *)
(* The object of a file, and the folder in the cloud made for a folder,    *)
(* have the number of the inode they were made for. The delta pass is in   *)
(* LocalFiles and DeltaFeed, the requests in Sink; here a request succeeds *)
(* or fails.                                                               *)
(***************************************************************************)
EXTENDS Removals

CONSTANTS
    Floor, Ratio,  \* REMOVAL_FLOOR, REMOVAL_RATIO
    Busy,          \* whether a delta pass may be running when the tree is walked for new folders
    MaxTroubles    \* bound: restarts of the daemon, of its helper, and times events are dropped

ASSUME WithdrawAssumption ==
    /\ Floor \in Nat \ {0} /\ Ratio \in Nat \ {0} /\ Busy \in BOOLEAN /\ MaxTroubles \in Nat

VARIABLES
    alive,      \* the daemon is running
    step,       \* where in its turn the loop is: "look", "taken", "renaming"
    leaving,    \* the files that left, of a batch or of a stop, still to be withdrawn
    stale,      \* a helper has connected since the watch was begun
    up,         \* the objects of files there are in the cloud
    fid,        \* the files that carry the identity of their object
    recent,     \* recent: what this process sent, by path
    journal,    \* the lineage and the manifest: the object last seen at a path
    cloudDir,   \* of each folder name in the cloud the identity, 0 for none
    made,       \* folders_pending
    committed,  \* folders_committed: the inode and the identity, by name
    parked,     \* renames_pending and folders_gone_pending
    rooted,     \* the root carries an identity
    seeded, resync,
    crashes,
    created,    \* history: of each folder, the creates that this process made for it
    unseen      \* history: folders whose coming was thrown away with a watch, until the next walk

loop    == <<alive, step, leaving, stale>>
files   == <<up, fid, recent, journal>>
folders == <<cloudDir, made, committed, parked, rooted, seeded, resync, created, unseen>>
vars    == <<rvars, loop, files, folders, crashes>>

FilePath == {<<FileName>>} \cup {<<n, FileName>> : n \in Name}
NoFolder == [ino |-> 0, id |-> 0]
Nothing  == [renamed |-> {}, gone |-> <<>>]

WTypeOK ==
    /\ TypeOK /\ alive \in BOOLEAN /\ up \subseteq File /\ fid \subseteq File
    /\ recent \in [FilePath -> {0} \cup File] /\ journal \in [FilePath -> {0} \cup File]
    /\ cloudDir \in [Name -> 0 .. Cardinality(Folder)] /\ made \subseteq Name
    /\ \A n \in Name : committed[n] = NoFolder \/ (committed[n].ino \in Folder /\ committed[n].id \in Folder)
    /\ \A n \in Name : committed[n] # NoFolder => n \in made
    /\ step \in {"look", "taken", "renaming"} /\ (step = "renaming" => parked.renamed # {})
    /\ \A i \in DOMAIN leaving : leaving[i].path \in FilePath /\ leaving[i].obj \in {0} \cup File
                                /\ leaving[i].why \in {"left", "other", "back", "hidden"}
    /\ {stale, rooted, seeded, resync} \subseteq BOOLEAN /\ unseen \subseteq Folder /\ crashes \in 0 .. MaxTroubles

-----------------------------------------------------------------------------
(* Files.                                                                  *)

Here(f) == in[f] \in Dir /\ Inside(in[f])

\* The loop is at a step of its turn that reads what there is, and is not withdrawing anything.
Looping == alive /\ Root \in watched /\ leaving = <<>> /\ step # "renaming"
Looks   == Looping /\ step' = "look" /\ batch' = NoBatch

\* A file is sent, and gets the identity of its object; its path is remembered.
Upload(f) ==
    /\ Looks /\ Here(f) /\ f \notin fid
    /\ fid' = fid \cup {f} /\ up' = up \cup {f} /\ recent' = [recent EXCEPT ![Path(in[f])] = f]
    /\ UNCHANGED <<tree, kernel, reader, ops, losses, owed, alive, leaving, stale, journal, folders, crashes>>

CarrierAt(p) == {f \in fid : Here(f) /\ Path(in[f]) = p}

\* A pass writes the registers from what the files carry.
WriteJournal ==
    /\ alive /\ batch' = NoBatch
    /\ journal' = [p \in FilePath |-> IF CarrierAt(p) = {} THEN 0 ELSE CHOOSE f \in CarrierAt(p) : TRUE]
    /\ UNCHANGED <<tree, kernel, reader, ops, losses, owed, loop, up, fid, recent, folders, crashes>>

\* removal_ceiling.
Ceiling(known) == IF known \div Ratio > Floor THEN known \div Ratio ELSE Floor

Recorded == {p \in FilePath : journal[p] # 0}

\* Registers::record, and recent before it.
ObjectOf(p) == IF recent[p] # 0 THEN recent[p] ELSE journal[p]

\* One that left, with the object its path stands for. Why it is withdrawn is history: it left, or
\* the path stands for another file than the one that left, or it is back by now.
Look(g) ==
    LET obj  == ObjectOf(g.path)
        is   == [path |-> g.path, how |-> IF g.out THEN "out" ELSE "deleted", to |-> <<>>, dir |-> FALSE]
        left == {owed[i].id : i \in {j \in DOMAIN owed : owed[j].is = is}}
    IN  [path |-> g.path, obj |-> obj,
         why  |-> IF obj = 0 \/ (left # {} /\ obj \notin left) THEN "other"
                  ELSE IF obj \in left /\ Here(obj) THEN "back" ELSE "left"]

\* apply_removals up to the requests: too many are refused, by a count of placeholders that may be old.
Withdrawn(gone) ==
    {IF Len(gone) > Ceiling(tracked) THEN <<>> ELSE [i \in DOMAIN gone |-> Look(gone[i])] :
        tracked \in 0 .. Cardinality(File)}

\* The object to name: the lineage was read with the batch, the manifest is read when it is asked.
Obj(g) == IF g.obj # 0 THEN g.obj ELSE journal[g.path]

\* One request, which may fail.
Withdrawing ==
    /\ alive /\ leaving # <<>> /\ leaving' = Tail(leaving) /\ batch' = NoBatch
    /\ up' \in {up, up \ {Obj(Head(leaving))}}
    /\ UNCHANGED <<tree, kernel, reader, ops, losses, owed, alive, step, stale, fid, recent, journal, folders, crashes>>

\* Fault: an object that is at another path is withdrawn too.
OfflineByPath(present, carried) == Recorded \ present

\* detect_offline_removals: where an object is recorded of which neither the path nor the identity is there.
Offline(present, carried) ==
    LET gone == {p \in Recorded : p \notin present /\ journal[p] \notin carried}
    IN  IF Cardinality(gone) > Ceiling(Cardinality(Recorded)) THEN {} ELSE gone

\* scan_present: a directory that cannot be read is passed over, with what is in it.
Seen(hidden)    == {f \in File : Here(f) /\ {Root, in[f]} \cap hidden = {}}
Present(hidden) == {Path(in[f]) : f \in Seen(hidden)}
Carried(hidden) == fid \cap Seen(hidden)

-----------------------------------------------------------------------------
(* Folders.                                                                *)

\* unidentified_folders.
Unidentified == {at[k] : k \in {j \in Folder : at[j] \in Name /\ cid[j] = 0}}

\* The daemon looks through the tree once it is up and the root has its identity.
Seed ==
    /\ Looks /\ rooted /\ ~ seeded /\ seeded' = TRUE /\ made' = made \cup Unidentified /\ unseen' = {}
    /\ UNCHANGED <<tree, kernel, reader, ops, losses, owed, alive, leaving, stale, files, cloudDir, committed,
                   parked, rooted, resync, created, crashes>>

\* It looks again when it is told to, unless a delta pass is running.
Resync ==
    /\ Looks /\ resync /\ resync' = FALSE
    /\ \/ made' = made \cup Unidentified /\ unseen' = {}
       \/ Busy /\ UNCHANGED <<made, unseen>>
    /\ UNCHANGED <<tree, kernel, reader, ops, losses, owed, alive, leaving, stale, files, cloudDir, committed,
                   parked, rooted, seeded, created, crashes>>

\* The loop: what take returns is withdrawn next, or put where the later steps find it. Renames of
\* files are left out, as where files are in the cloud is.
Drain ==
    /\ Looping /\ Take /\ step' = "taken"
    /\ resync' = (resync \/ over)
    /\ made' = made \cup batch'.made
    /\ parked' = [renamed |-> parked.renamed \cup {r \in batch'.renamed : r.dir},
                  gone    |-> parked.gone \o batch'.foldersGone]
    /\ leaving' \in Withdrawn(batch'.gone)
    /\ UNCHANGED <<alive, stale, files, cloudDir, committed, rooted, seeded, created, unseen, crashes>>

\* apply_renames: one of the renames, in whatever order the map gives them, and the next step waits
\* for all: a folder's name in the cloud follows if the request succeeds; what carries no identity
\* is left to others.
ApplyRename(r) ==
    /\ alive /\ leaving = <<>> /\ Root \in watched /\ r \in parked.renamed /\ batch' = NoBatch
    /\ parked' = [parked EXCEPT !.renamed = @ \ {r}]
    /\ step' = IF parked'.renamed = {} THEN "look" ELSE "renaming"
    /\ \/ cloudDir' = cloudDir
       \/ \E k \in Folder :
             /\ at[k] = r.to[1] /\ cid[k] # 0 /\ cloudDir[r.to[1]] = 0
             /\ cloudDir' = [n \in Name |-> IF n = r.to[1] THEN cid[k]
                                            ELSE IF cloudDir[n] = cid[k] THEN 0 ELSE cloudDir[n]]
    /\ UNCHANGED <<tree, kernel, reader, ops, losses, owed, alive, leaving, stale, files, made, committed, rooted,
                   seeded, resync, created, unseen, crashes>>

ProvenNow(g) == records[g.path[1]]   \* Fault: the identity recorded at the path is looked up too late.

\* What a removal names, if anything: the identity the folder carried before it disappeared.
Proven(g) == g.record

\* apply_folder_removals: one by its record, deepest first, if the request succeeds.
ApplyFolderRemovals ==
    /\ Looks /\ parked.renamed = {} /\ parked.gone # <<>> /\ parked' = [parked EXCEPT !.gone = <<>>]
    /\ \/ cloudDir' = cloudDir
       \/ /\ \E tracked \in 0 .. Cardinality(File) : Len(parked.gone) <= Ceiling(tracked)
          /\ \E W \in SUBSET {Proven(parked.gone[i]) : i \in DOMAIN parked.gone} :
                cloudDir' = [n \in Name |-> IF cloudDir[n] \in W THEN 0 ELSE cloudDir[n]]
    /\ UNCHANGED <<tree, kernel, reader, ops, losses, owed, alive, leaving, stale, files, made, committed, rooted,
                   seeded, resync, created, unseen, crashes>>

Forgotten(n) == made' = made \ {n} /\ committed' = [committed EXCEPT ![n] = NoFolder]

\* adopt_cloud_id, and what remembers it: the identity is recorded on the folder.
Adopted(n, k, id) ==
    /\ cid' = [cid EXCEPT ![k] = id] /\ records' = Remember(records, n, id) /\ Forgotten(n)

NotAdopted == UNCHANGED <<cid, records>>

KeepNothing(n, k, id) == committed' = committed   \* Fault: that the create succeeded is forgotten.

\* What is kept when the identity could not be recorded.
Keep(n, k, id) == committed' = [committed EXCEPT ![n] = [ino |-> k, id |-> id]]

StillPending(n) == UNCHANGED <<made, committed>>

\* create_folder: a new one, or the one that has the name already.
ReconcileFolder(n) == cloudDir[n]
CreateIn(n, k) == IF cloudDir[n] = 0 THEN k ELSE ReconcileFolder(n)

\* apply_folder_creates, for a folder that is pending.
Considered(n) ==
    /\ Looks /\ n \in made /\ parked = Nothing
    /\ UNCHANGED <<at, in, kernel, dirs, pending, ops, losses, owed, alive, leaving, stale, files, parked, rooted,
                   seeded, resync, unseen, crashes>>

\* It is not there any more, or has an identity by now.
Settled1(n) ==
    /\ Considered(n) /\ \A k \in Folder : at[k] = n => cid[k] # 0
    /\ Forgotten(n) /\ NotAdopted /\ UNCHANGED <<cloudDir, created>>

\* The folder a create was made for has been replaced: what was created is withdrawn first.
Orphaned(n, k) ==
    /\ Considered(n) /\ at[k] = n /\ cid[k] = 0
    /\ committed[n] # NoFolder /\ committed[n].ino # k /\ NotAdopted
    /\ \/ cloudDir' = [m \in Name |-> IF cloudDir[m] = committed[n].id THEN 0 ELSE cloudDir[m]]
          /\ committed' = [committed EXCEPT ![n] = NoFolder] /\ made' = made
       \/ UNCHANGED <<cloudDir, committed, made>>
    /\ UNCHANGED created

\* It was created before, and only its identity is to be recorded.
AdoptLater(n, k) ==
    /\ Considered(n) /\ at[k] = n /\ cid[k] = 0 /\ committed[n] # NoFolder /\ committed[n].ino = k
    /\ Adopted(n, k, committed[n].id) \/ (NotAdopted /\ UNCHANGED <<made, committed>>)
    /\ UNCHANGED <<cloudDir, created>>

\* It is created, if its parent has an identity, and its own recorded if that succeeds.
Create(n, k) ==
    /\ Considered(n) /\ rooted /\ at[k] = n /\ cid[k] = 0 /\ committed[n] = NoFolder
    /\ cloudDir' = [cloudDir EXCEPT ![n] = CreateIn(n, k)] /\ created' = [created EXCEPT ![k] = @ + 1]
    /\ \/ Adopted(n, k, CreateIn(n, k))
       \/ Keep(n, k, CreateIn(n, k)) /\ made' = made /\ NotAdopted

\* The request fails, or only its answer is lost.
CreateFails(n, k) ==
    /\ Considered(n) /\ rooted /\ at[k] = n /\ cid[k] = 0 /\ committed[n] = NoFolder
    /\ cloudDir' \in {cloudDir, [cloudDir EXCEPT ![n] = CreateIn(n, k)]}
    /\ StillPending(n) /\ NotAdopted /\ created' = created

-----------------------------------------------------------------------------
(* The daemon.                                                             *)

Trouble == crashes + losses < MaxTroubles

\* A helper connects.
Connect ==
    /\ alive /\ Trouble /\ crashes' = crashes + 1 /\ stale' = TRUE /\ resync' = TRUE
    /\ batch' = NoBatch
    /\ UNCHANGED <<tree, kernel, reader, ops, losses, owed, alive, step, leaving, files, cloudDir, made, committed,
                   parked, rooted, seeded, created, unseen>>

\* The watch is replaced, after what it reported has been taken and withdrawn: what was queued for it
\* since is not read by anyone.
ReplaceWatch ==
    /\ Looping /\ step = "taken" /\ stale /\ Rebuild /\ step' = "look" /\ stale' = FALSE
    /\ unseen' = unseen \cup ({queue[i].about : i \in {j \in DOMAIN queue : queue[j].kind \in {"create", "to"}}} \ {0})
    /\ UNCHANGED <<alive, leaving, files, cloudDir, made, committed, parked, rooted, seeded, resync, created, crashes>>

\* The delta pass has made or changed folders.
RefreshFolders == Looks /\ Refresh /\ UNCHANGED <<alive, leaving, stale, files, folders, crashes>>

\* The delta pass has given the root its identity.
RootIdentified ==
    /\ alive /\ ~ rooted /\ rooted' = TRUE /\ batch' = NoBatch
    /\ UNCHANGED <<tree, kernel, reader, ops, losses, owed, loop, files, cloudDir, made, committed, parked, seeded,
                   resync, created, unseen, crashes>>

\* The daemon stops, and its watch with it.
Stop ==
    /\ alive /\ Trouble /\ crashes' = crashes + 1 /\ alive' = FALSE
    /\ watched' = {} /\ queue' = <<>> /\ over' = FALSE /\ dirs' = [d \in Dir |-> Unknown]
    /\ records' = [n \in Name |-> 0] /\ pending' = {} /\ batch' = NoBatch /\ owed' = <<>>
    /\ recent' = [p \in FilePath |-> 0] /\ step' = "look" /\ leaving' = <<>> /\ stale' = FALSE
    /\ made' = {} /\ committed' = [n \in Name |-> NoFolder] /\ parked' = Nothing
    /\ seeded' = FALSE /\ resync' = TRUE /\ created' = [k \in Folder |-> 0] /\ unseen' = {}
    /\ UNCHANGED <<tree, half, ops, losses, up, fid, journal, cloudDir, rooted>>

\* It starts, and compares the tree with what was recorded; some directories cannot be read.
Restart ==
    /\ ~ alive /\ alive' = TRUE /\ batch' = NoBatch
    /\ \E hidden \in SUBSET {d \in Dir : Inside(d)} :
          LET gone == SetToSeq(Offline(Present(hidden), Carried(hidden)))
          IN  leaving' = [i \in DOMAIN gone |->
                  [path |-> gone[i], obj |-> journal[gone[i]],
                   why  |-> IF Here(journal[gone[i]]) /\ journal[gone[i]] \notin Seen(hidden)
                            THEN "hidden" ELSE "left"]]
    /\ UNCHANGED <<tree, kernel, reader, ops, losses, owed, step, stale, files, folders, crashes>>

\* Once what left has been withdrawn, the watch is begun.
BeginWatch ==
    /\ alive /\ Root \notin watched /\ leaving = <<>> /\ Rebuild /\ stale' = FALSE
    /\ UNCHANGED <<alive, step, leaving, files, folders, crashes>>

\* The daemon finds a tree in which everything is as the cloud and the registers have it, or the
\* only folder and a file are new; it may have sent a file from a path it has left. Bound: another
\* file is there at first only if there is one folder, which is not new.
WInit ==
    /\ Init /\ alive = TRUE /\ fid = (IF cid[1] = 0 THEN File \ {1} ELSE File) /\ up = {f \in fid : in[f] # Nowhere}
    /\ \A f \in File : f \in fid \/ in[f] # Away
    /\ cid[1] = 0 => \A k \in Folder \ {1} : at[k] = "none"
    /\ journal = [p \in FilePath |-> IF CarrierAt(p) = {} THEN 0 ELSE CHOOSE f \in CarrierAt(p) : TRUE]
    /\ recent \in {[p \in FilePath |-> IF p = <<FileName>> THEN f ELSE 0] : f \in {0} \cup {g \in up \cap {1} : in[g] # Root}}
    /\ \A f \in File \ {1} : in[f] # Nowhere => in[f] \in Dir /\ cid[1] # 0 /\ \A k \in Folder \ {1} : at[k] = "none"
    /\ cloudDir = records /\ step = "look" /\ leaving = <<>> /\ stale = FALSE
    /\ made = {} /\ committed = [n \in Name |-> NoFolder] /\ parked = Nothing
    /\ rooted \in BOOLEAN /\ (~ rooted => cid[1] = 0 /\ up = {})
    /\ seeded = FALSE /\ resync = TRUE /\ crashes = 0 /\ created = [k \in Folder |-> 0] /\ unseen = {}

\* A patient user also waits until the name of a new folder is free in the cloud, or about to be, until
\* a folder has its identity before renaming it, and until the watch has seen off what is brought back.
Waits ==
    Patient =>
        /\ \A k \in Folder : at'[k] # at[k] /\ at'[k] \in Name =>
              /\ cid'[k] = 0 => cloudDir[at'[k]] \in {0, committed[at'[k]].id}
              /\ at[k] = "out" => pending = {} /\ queue = <<>> /\ parked = Nothing
        /\ \A k \in Folder : at'[k] \notin {at[k], "dead"} /\ at[k] \in Name =>
              /\ cid[k] # 0 /\ parked.renamed = {}
              /\ \A f \in File : in[f] = k => f \in fid

\* The user acts at any time; what is back although it is still to be withdrawn is marked.
Changes == /\ User /\ Waits
           /\ leaving' = [i \in DOMAIN leaving |->
                             IF \E f \in File : f = Obj(leaving[i]) /\ ~ Here(f) /\ Here(f)'
                             THEN [leaving[i] EXCEPT !.why = "back"] ELSE leaving[i]]
           /\ UNCHANGED <<alive, step, stale, files, folders, crashes>>

Watching == (Arrives \/ (Trouble /\ Overflow)) /\ UNCHANGED <<loop, files, folders, crashes>>

Folders(n) == Settled1(n) \/ \E k \in Folder : Orphaned(n, k) \/ AdoptLater(n, k) \/ Create(n, k) \/ CreateFails(n, k)

Next == \/ Changes \/ Watching
        \/ \E f \in File : Upload(f)
        \/ WriteJournal \/ Seed \/ Resync \/ Drain \/ Withdrawing
        \/ (\E r \in parked.renamed : ApplyRename(r)) \/ ApplyFolderRemovals
        \/ \E n \in Name : Folders(n)
        \/ Connect \/ ReplaceWatch \/ RefreshFolders \/ RootIdentified \/ Stop \/ Restart \/ BeginWatch

Spec == WInit /\ [][Next]_vars

-----------------------------------------------------------------------------
(* Properties.                                                             *)

\* An object that is withdrawn from the cloud, by the running daemon or at its start, is that of no
\* file in the tree, unless its path stands for another file than the one that left, or it has come
\* back since it was found to have left, or the start could not read its directory; and of those no
\* more than the ceiling at once (apply_removals, detect_offline_removals).
WithdrawnIsNotHere ==
    [][/\ \A f \in up \ up' : Here(f) => Head(leaving).why \in {"other", "back", "hidden"}
       /\ Cardinality({i \in DOMAIN leaving' : leaving'[i].why = "hidden"}) <= Ceiling(Cardinality(Recorded))]_vars

\* A folder that is removed from the cloud is that of no folder in the tree: the record a departure
\* takes along is of what had the path (folder_records, apply_folder_removals).
RemovedIsNotHere ==
    [][\A k \in Folder :
          at[k] \in Name /\ (\E n \in Name : cloudDir[n] = cid[k] /\ cid[k] # 0)
          => \E n \in Name : cloudDir'[n] = cid[k]]_vars

\* Types, and: a folder is created in the cloud once by a process that lives on, whatever fails
\* after, and a folder without an identity is never out of sight: it is waiting to be created, or
\* there is yet an event about it to be read, or the tree to be walked, unless the event was thrown
\* away when the watch was replaced (apply_folder_creates, unidentified_folders, replace_removal_watch).
FolderCreatedOnce ==
    /\ WTypeOK
    /\ \A k \in Folder : created[k] <= 1
    /\ alive => \A k \in Folder : at[k] \in Name /\ cid[k] = 0 =>
                    at[k] \in made \/ Unread({k}) \/ over \/ resync \/ ~ seeded \/ k \in unseen
=============================================================================

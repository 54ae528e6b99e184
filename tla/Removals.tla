------------------------------ MODULE Removals ------------------------------
(***************************************************************************)
(* What a client learns about names that leave its tree (Removals in       *)
(* hydration-client/src/removals.rs): a user's file manager changes the    *)
(* tree, the kernel queues events for the directories that are watched,    *)
(* and take turns what is queued into a batch of departures, renames and   *)
(* new folders.                                                            *)
(*                                                                         *)
(* Folders lie in the root; a directory holds at most one file, so a file  *)
(* is named by its directory and FileName. A watch descriptor is the       *)
(* directory it watches.                                                   *)
(***************************************************************************)
EXTENDS Integers, Sequences, FiniteSets, SequencesExt

CONSTANTS
    Folder,    \* folder inodes, 1 .. n
    File,      \* file inodes, 1 .. n
    Name,      \* names of folders
    FileName,  \* the name of a file
    Patient,   \* the user changes and uses folders no faster than the watch reads of them
    MaxOps,    \* bound: changes the user makes
    MaxLost    \* bound: times the kernel drops events

ASSUME RemovalsAssumption ==
    /\ Folder = 1 .. Cardinality(Folder) /\ File = 1 .. Cardinality(File)
    /\ FileName \notin Name /\ Patient \in BOOLEAN /\ MaxOps \in Nat /\ MaxLost \in Nat

VARIABLES
    at,          \* of each folder: its name, or "none", "out", "dead"
    in,          \* of each file: its directory, or Nowhere, Away, Dead
    cid,         \* of each folder: the identity it carries, 0 for none
    watched,     \* the kernel's watches
    queue, over, \* the events not read, and whether some were dropped after them
    half,        \* the destination event of a rename that is not queued yet
    dirs,        \* dirs: of each watch the path it is taken for
    records,     \* folder_records: of each folder name the identity
    pending,     \* pending_moves
    batch,       \* what take has just returned
    ops, losses,
    owed         \* history: departures from the tree not yet reported

tree   == <<at, in, cid>>
kernel == <<watched, queue, over, half>>
reader == <<dirs, records, pending>>
rvars  == <<tree, kernel, reader, batch, ops, losses, owed>>

Root    == 0
Nowhere == -1   \* of a file that is not there yet; of one that lies outside; of one that is deleted
Away    == -2
Dead    == -3
Dir     == {Root} \cup Folder
Unknown == <<"?">>
NoHalf  == [wd |-> -1, seen |-> FALSE]
NoBatch == [gone |-> <<>>, renamed |-> {}, made |-> {}, foldersGone |-> <<>>]

Inside(d)  == d = Root \/ (d \in Folder /\ at[d] \in Name)
Exists(d)  == Inside(d) \/ (d \in Folder /\ at[d] = "out")
DirPath(d) == IF d = Root THEN <<>> ELSE <<at[d]>>
Path(d)    == Append(DirPath(d), FileName)
Free(n)    == \A k \in Folder : at[k] # n
Empty(d)   == \A f \in File : in[f] # d

TypeOK ==
    /\ at \in [Folder -> Name \cup {"none", "out", "dead"}]
    /\ in \in [File -> Dir \cup {Nowhere, Away, Dead}] /\ cid \in [Folder -> 0 .. Cardinality(Folder)]
    /\ \A j, k \in Folder : at[j] \in Name /\ at[j] = at[k] => j = k
    /\ \A f, g \in File : in[f] \in Dir /\ in[f] = in[g] => f = g
    /\ watched \subseteq Dir /\ over \in BOOLEAN
    /\ \A i \in DOMAIN queue : queue[i].wd \in Dir
    /\ dirs \in [Dir -> {Unknown, <<>>} \cup {<<n>> : n \in Name}]
    /\ records \in [Name -> 0 .. Cardinality(Folder)]
    /\ \A m, n \in Name : records[m] # 0 /\ records[m] = records[n] => m = n
    /\ \A m \in pending : Len(m.path) \in {1, 2}
    /\ ops \in 0 .. MaxOps /\ losses \in 0 .. MaxLost

-----------------------------------------------------------------------------
(* The user and the kernel.                                                *)

Event(kind, d, name, about) ==
    [kind |-> kind, wd |-> d, name |-> name, cookie |-> ops, about |-> about]

\* Events are queued for directories that are watched, until some are dropped.
Emit(events) == queue' = IF over THEN queue
                         ELSE queue \o SelectSeq(events, LAMBDA e : e.wd \in watched)

\* Whether there is an unread event about one of these folders.
Unread(K) == \/ \E i \in DOMAIN queue : queue[i].about \in K
             \/ half # NoHalf /\ half.about \in K

\* To use a folder before the watch has read of its coming and going, or after it left the tree, or
\* to change one before another's change is read and settled: a patient user does neither.
MayUse(K)    == Patient => ~ Unread(K) /\ \A k \in K \cap Folder : ~ (at[k] = "out" /\ k \in watched)
MayChange(K) == Patient => MayUse(K) /\ ~ Unread(Folder) /\ ~ over /\ \A m \in pending : ~ m.dir

\* What is owed while there is a watch: a report of a path, how it left, where to, and the identity it had.
Owe(path, how, to, dir, id) ==
    owed' = IF Root \notin watched THEN owed
            ELSE Append(owed, [is |-> [path |-> path, how |-> how, to |-> to, dir |-> dir], id |-> id])

Op == ops < MaxOps /\ ops' = ops + 1 /\ half = NoHalf /\ batch' = NoBatch

\* A folder is made, by the user, or by the delta pass with the identity it has.
MakeFolder(k, n) ==
    /\ Op /\ at[k] = "none" /\ Free(n) /\ at' = [at EXCEPT ![k] = n]
    /\ cid' \in {cid, [cid EXCEPT ![k] = k]}
    /\ Emit(<<Event("create", Root, n, k)>>) /\ MayChange({k})
    /\ UNCHANGED <<in, watched, over, half, reader, losses, owed>>

RemoveFolder(k) ==
    /\ Op /\ at[k] \in Name /\ Empty(k) /\ at' = [at EXCEPT ![k] = "dead"]
    /\ Emit(<<Event("delete", Root, at[k], k), Event("ignored", k, "", 0)>>)
    /\ watched' = watched \ {k} /\ MayChange({k})
    /\ Owe(<<at[k]>>, "deleted", <<>>, TRUE, cid[k])
    /\ UNCHANGED <<in, cid, over, half, reader, losses>>

\* A rename has two halves, of which the second is queued a moment later.
MoveFolder(k, n) ==
    /\ Op /\ at[k] \in Name \cup {"out"} /\ n # at[k] /\ (n = "out" \/ Free(n))
    /\ at' = [at EXCEPT ![k] = n]
    /\ IF at[k] = "out" THEN UNCHANGED <<queue, owed>>
       ELSE /\ Emit(<<Event("from", Root, at[k], k)>>)
            /\ Owe(<<at[k]>>, IF n = "out" THEN "out" ELSE "renamed",
                   IF n = "out" THEN <<>> ELSE <<n>>, TRUE, cid[k])
    /\ half' = IF n = "out" THEN NoHalf ELSE Event("to", Root, n, k) @@ [seen |-> FALSE]
    /\ MayChange({k})
    /\ UNCHANGED <<in, cid, watched, over, reader, losses>>

\* A file is written; that is for others to notice.
MakeFile(f, d) ==
    /\ Op /\ in[f] = Nowhere /\ Inside(d) /\ Empty(d) /\ in' = [in EXCEPT ![f] = d]
    /\ MayUse({d})
    /\ UNCHANGED <<at, cid, kernel, reader, losses, owed>>

RemoveFile(f) ==
    /\ Op /\ in[f] \in Dir /\ in' = [in EXCEPT ![f] = Dead]
    /\ Emit(<<Event("delete", in[f], FileName, 0)>>) /\ MayUse({in[f]})
    /\ IF Inside(in[f]) THEN Owe(Path(in[f]), "deleted", <<>>, FALSE, f) ELSE owed' = owed
    /\ UNCHANGED <<at, cid, watched, over, half, reader, losses>>

MoveFile(f, d) ==
    /\ Op /\ in[f] \in Dir \cup {Away} /\ d # in[f]
    /\ d = Away \/ (Exists(d) /\ Empty(d))
    /\ in' = [in EXCEPT ![f] = d]
    /\ IF in[f] = Away THEN queue' = queue ELSE Emit(<<Event("from", in[f], FileName, 0)>>)
    /\ IF ~ Inside(in[f]) THEN owed' = owed
       ELSE Owe(Path(in[f]), IF Inside(d) THEN "renamed" ELSE "out",
                IF Inside(d) THEN Path(d) ELSE <<>>, FALSE, f)
    /\ half' = IF d = Away THEN NoHalf ELSE Event("to", d, FileName, 0) @@ [seen |-> FALSE]
    /\ MayUse({in[f], d})
    /\ UNCHANGED <<at, cid, watched, over, reader, losses>>

\* The second half. One batch at most is taken between the two.
Arrives ==
    /\ half # NoHalf /\ batch' = NoBatch /\ Emit(<<[x \in DOMAIN half \ {"seen"} |-> half[x]]>>) /\ half' = NoHalf
    /\ UNCHANGED <<tree, watched, over, reader, ops, losses, owed>>

\* The queue is full: what comes until it is read is dropped.
Overflow ==
    /\ losses < MaxLost /\ ~ over /\ queue # <<>> /\ batch' = NoBatch
    /\ over' = TRUE /\ losses' = losses + 1
    /\ Patient => ~ (half # NoHalf /\ half.about # 0)   \* a folder's arrival is not dropped
    /\ UNCHANGED <<tree, watched, queue, half, reader, ops, owed>>

-----------------------------------------------------------------------------
(* take.                                                                   *)

\* remember_folder: an identity is at one path.
Remember(rec, n, id) == [m \in Name |-> IF m = n THEN id ELSE IF rec[m] = id THEN 0 ELSE rec[m]]

\* record_folder: the identity that is now on what has the name, if it has any.
RecordFolder(rec, n) ==
    IF \E k \in Folder : at[k] = n /\ cid[k] # 0
    THEN Remember(rec, n, cid[CHOOSE k \in Folder : at[k] = n])
    ELSE [rec EXCEPT ![n] = 0]

\* Fault: what arrives is not watched.
AddNothing(acc, n) == acc

\* add_tree and add_one, for a folder in the root: what now has the name is watched.
AddTree(acc, n) ==
    LET K == {k \in Folder : at[k] = n}
    IN  [acc EXCEPT !.watched = @ \cup K,
                    !.dirs    = [d \in Dir |-> IF d \in K THEN <<n>> ELSE acc.dirs[d]],
                    !.records = RecordFolder(@, n)]

\* folder_gone.
FolderGone(acc, path, out) ==
    [acc EXCEPT !.records = [@ EXCEPT ![path[1]] = 0],
                !.foldersGone = Append(@, [path |-> path, out |-> out, record |-> acc.records[path[1]]])]

\* One event.
Read(acc, e) ==
    LET path == Append(acc.dirs[e.wd], e.name)
        dir  == e.name \in Name
        move == [cookie |-> e.cookie, path |-> path, dir |-> dir]
    IN  CASE e.kind = "ignored" -> [acc EXCEPT !.dirs = [@ EXCEPT ![e.wd] = Unknown]]
          [] e.kind # "ignored" /\ acc.dirs[e.wd] = Unknown -> acc
          [] e.kind = "create" /\ acc.dirs[e.wd] # Unknown ->
                [AddTree(acc, e.name) EXCEPT !.made = @ \cup {e.name}]
          [] e.kind = "to" /\ acc.dirs[e.wd] # Unknown ->
                [(IF dir THEN AddTree(acc, e.name) ELSE acc) EXCEPT !.to = @ \cup {move}]
          [] e.kind = "from" /\ acc.dirs[e.wd] # Unknown -> [acc EXCEPT !.from = @ \cup {move}]
          [] e.kind = "delete" /\ acc.dirs[e.wd] # Unknown ->
                IF dir THEN FolderGone(acc, path, FALSE)
                ELSE [acc EXCEPT !.gone = Append(@, [path |-> path, out |-> FALSE])]

Start == [watched |-> watched, dirs |-> dirs, records |-> records, from |-> {}, to |-> {},
          gone |-> <<>>, made |-> {}, foldersGone |-> <<>>]

\* settle_moves: a destination is paired with its source, of this batch or of the one before.
Pairs(from, to) == {p \in from \X to : p[1].cookie = p[2].cookie}

\* What was lost may be the other half of anything: nothing is concluded, and the records of the
\* folders said to be gone are put back.
Lost(acc) ==
    /\ batch' = NoBatch /\ pending' = {}
    /\ records' = FoldLeft(LAMBDA rec, g : IF g.record = 0 THEN rec ELSE Remember(rec, g.path[1], g.record),
                           acc.records, acc.foldersGone)

\* The batch: what waited in vain for a whole batch has left the tree; a folder that came from
\* elsewhere is new; a folder that was renamed takes its record along.
Settled(acc) ==
    LET pairs  == Pairs(pending \cup acc.from, acc.to)
        outs   == pending \ {p[1] : p \in pairs}
        newdir == {m \in acc.to \ {p[2] : p \in pairs} : m.dir}
        after  == FoldSet(LAMBDA m, a : FolderGone(a, m.path, TRUE), acc, {m \in outs : m.dir})
        moved  == {[from |-> p[1].path, to |-> p[2].path, dir |-> p[1].dir \/ p[2].dir, nth |-> p[1].cookie]
                      : p \in pairs}
    IN  /\ pending' = acc.from \ {p[1] : p \in pairs}
        /\ batch' = [gone |-> acc.gone \o [i \in 1 .. Cardinality({m \in outs : ~ m.dir}) |->
                                 [path |-> SetToSeq({m \in outs : ~ m.dir})[i].path, out |-> TRUE]],
                     renamed |-> moved, made |-> acc.made \cup {m.path[1] : m \in newdir},
                     foldersGone |-> after.foldersGone]
        \* The renames are replayed in whatever order the map gives them.
        /\ \E order \in SetToSeqs({r \in moved : r.dir}) :
              records' = FoldLeft(LAMBDA rec, r :
                                     IF rec[r.from[1]] = 0 THEN rec
                                     ELSE Remember([rec EXCEPT ![r.from[1]] = 0], r.to[1], rec[r.from[1]]),
                                  after.records, order)

\* What a batch reports, as it is owed.
Reports(b) ==
    LET How(out) == IF out THEN "out" ELSE "deleted"
        Plain(g, dir) == [path |-> g.path, how |-> How(g.out), to |-> <<>>, dir |-> dir]
        ren == SetToSeq(b.renamed)
    IN  [i \in DOMAIN b.gone |-> Plain(b.gone[i], FALSE)]
        \o [i \in DOMAIN b.foldersGone |-> Plain(b.foldersGone[i], TRUE)]
        \o [i \in DOMAIN ren |-> [path |-> ren[i].from, how |-> "renamed", to |-> ren[i].to, dir |-> ren[i].dir]]

Paid(b) == FoldLeft(LAMBDA o, r : RemoveFirstMatch(o, LAMBDA x : x.is = r), owed, Reports(b))

\* Everything that is queued is read.
Take ==
    /\ half # NoHalf => ~ half.seen
    /\ LET acc == FoldLeft(Read, Start, queue)
       IN  /\ IF over THEN Lost(acc) /\ owed' = <<>> ELSE Settled(acc) /\ owed' = Paid(batch')
           /\ watched' = acc.watched /\ dirs' = acc.dirs
    /\ queue' = <<>> /\ over' = FALSE
    /\ half' = IF half = NoHalf THEN half ELSE [half EXCEPT !.seen = TRUE]
    /\ UNCHANGED <<tree, ops, losses>>

\* replace_removal_watch: a new watch of everything there is; what the old one has not read is gone
\* with it, and so is what was owed.
Rebuild ==
    /\ watched' = {d \in Dir : Inside(d)} /\ queue' = <<>> /\ over' = FALSE
    /\ dirs' = [d \in Dir |-> IF Inside(d) THEN DirPath(d) ELSE Unknown]
    /\ \E order \in SetToSeqs({n \in Name : ~ Free(n)}) :
          records' = FoldLeft(RecordFolder, [n \in Name |-> 0], order)
    /\ pending' = {} /\ batch' = NoBatch /\ owed' = <<>>
    /\ UNCHANGED <<tree, half, ops, losses>>

\* refresh_folders: the records of every folder there is are read again.
Refresh ==
    /\ \E order \in SetToSeqs({n \in Name : ~ Free(n)}) : records' = FoldLeft(RecordFolder, records, order)
    /\ batch' = NoBatch /\ UNCHANGED <<tree, kernel, dirs, pending, ops, losses, owed>>

\* The watch is begun on a tree that may have a folder and files.
Init ==
    /\ at \in [Folder -> Name \cup {"none"}] /\ at[1] = (CHOOSE n \in Name : TRUE)
    /\ \A j, k \in Folder : j # k => at[j] # at[k] \/ at[j] = "none"
    /\ cid \in {[k \in Folder |-> IF at[k] = "none" \/ k \in new THEN 0 ELSE k] : new \in SUBSET {1}}
    /\ in \in [File -> Dir \cup {Nowhere, Away}]
    /\ \A f, g \in File : (in[f] \in Dir => Inside(in[f])) /\ (f # g /\ in[f] \in Dir => in[f] # in[g])
    /\ watched = {d \in Dir : Inside(d)} /\ queue = <<>> /\ over = FALSE /\ half = NoHalf
    /\ dirs = [d \in Dir |-> IF Inside(d) THEN DirPath(d) ELSE Unknown]
    /\ records = [n \in Name |-> IF Free(n) THEN 0 ELSE cid[CHOOSE k \in Folder : at[k] = n]]
    /\ pending = {} /\ batch = NoBatch /\ ops = 0 /\ losses = 0 /\ owed = <<>>

User ==
    \/ \E k \in Folder : RemoveFolder(k) \/ \E n \in Name : MakeFolder(k, n)
    \/ \E k \in Folder, n \in Name \cup {"out"} : MoveFolder(k, n)
    \/ \E f \in File : RemoveFile(f) \/ \E d \in Dir : MakeFile(f, d)
    \/ \E f \in File, d \in Dir \cup {Away} : MoveFile(f, d)

-----------------------------------------------------------------------------
(* Properties.                                                             *)

\* Every departure and every rename is reported, under the path it had and in the way it happened,
\* wherever the batches cut the events: when all is read, what is not yet reported waits for its
\* other half. What is dropped by the kernel, or thrown away with a watch, is no longer owed; that
\* nothing is reported that did not happen is WithdrawnIsNotHere (take, settle_moves, add_tree).
Complete ==
    queue = <<>> /\ ~ over /\ half = NoHalf =>
        \A i \in DOMAIN owed : \E m \in pending : m.path = owed[i].is.path
=============================================================================

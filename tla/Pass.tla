-------------------------------- MODULE Pass --------------------------------
(***************************************************************************)
(* One pass of the client over a batch of remote changes, in the sync      *)
(* directory (hydration-client/src/delta.rs, apply_remembering).  A batch  *)
(* is what the provider serves: removals, then everything the drive lists, *)
(* parents before children.  Objects are found by the identity on their    *)
(* files and directories, which the pass indexes once, at its start; what  *)
(* has moved is renamed, what is new is placed, and what holds bytes the   *)
(* cloud has never seen is left alone.                                     *)
(*                                                                         *)
(* How a file is judged to hold such bytes is the business of LocalFiles,  *)
(* how a batch comes about that of Rounds and DeltaFeed.  The drive and    *)
(* the user are external; they act between any two changes of a pass.      *)
(***************************************************************************)
EXTENDS Integers, FiniteSets, Sequences, SequencesExt, Order

CONSTANTS
    Id,         \* objects of the drive
    NoOne,      \* not an object: the drive's root, or no identity
    Seg,        \* names, numbered in their order
    Version,    \* versions of an object
    MinItems,   \* bound: objects a drive starts with, at least
    MaxChanged, \* bound: objects that change between two rounds
    MaxRounds,  \* bound: rounds with a change
    MaxLocal    \* bound: what the user does

ASSUME PassAssumption ==
    /\ NoOne \notin Id /\ IsFiniteSet(Id) /\ Seg \subseteq Nat
    /\ MinItems \in Nat /\ MaxChanged \in Nat /\ MaxRounds \in Nat /\ MaxLocal \in Nat

VARIABLES
    listed,     \* what the last round listed: [Id -> item, or Unborn, or Absent]
    root,       \* the directory: path -> what is there
    batch,      \* the batch that is being served, or <<>>
    todo,       \* changes of it that the pass has still to make
    phase,      \* "rest", or a "pass" is under way
    files,      \* by_cloud_id, as indexed at the start and kept up since
    folders,    \* FolderIndex::synced
    verdict,    \* Applied: what the pass has met so far
    walked,     \* the files it found when it began
    seen,       \* the fingerprint a pass that did nothing has left, or NoOne
    turns,
    made,       \* history: the user's acts that left bytes behind
    acts,
    tangled,    \* history: an object has been moved, in mid-pass, to where it is not listed
    dirs        \* history: the directories that a remembered pass has left

index == <<files, folders>>
pvars == <<listed, root, batch, todo, phase, files, folders, verdict, walked, seen, turns, made, acts,
           tangled, dirs>>

Absent == [parent |-> NoOne, name |-> 0, kind |-> "none", tag |-> NoOne]
Unborn == [Absent EXCEPT !.kind = "unborn"]
Item   == [parent : Id \cup {NoOne}, name : Seg, kind : {"file", "folder"}, tag : Version]
Live(d) == {x \in Id : d[x] \notin {Absent, Unborn}}

Empty == [x \in {} |-> NoOne]
Without(f, S) == [x \in DOMAIN f \ S |-> f[x]]
With(f, x, v) == [y \in DOMAIN f \cup {x} |-> IF y = x THEN v ELSE f[y]]

-----------------------------------------------------------------------------
(* Paths and the directory.                                                *)

\* The ways from the root down to an object, of which there is one.
Chains(d, x) ==
    {s \in UNION {[1 .. n -> Live(d)] : n \in 1 .. Cardinality(Live(d))} :
        /\ s[Len(s)] = x /\ d[s[1]].parent = NoOne
        /\ \A i \in 1 .. Len(s) - 1 : d[s[i + 1]].parent = s[i]}

PathIn(d, x) == LET chain == CHOOSE s \in Chains(d, x) : TRUE
                IN  [i \in DOMAIN chain |-> d[chain[i]].name]

Parent(p) == Front(p)
Ancestors(p) == {SubSeq(p, 1, n) : n \in 1 .. Len(p) - 1}
Beneath(d, p) == {q \in DOMAIN d : p \in Ancestors(q)}
Dirs(d) == {p \in DOMAIN d : d[p].kind = "folder"}
IsDir(d, p) == p = <<>> \/ (p \in DOMAIN d /\ d[p].kind = "folder")
Unknown == [kind |-> "folder", id |-> NoOne, tag |-> NoOne, work |-> {}]

\* create_dir_all: fails where a file is in the way.
Blocked(d, p) == \E q \in Ancestors(p) : q \in DOMAIN d /\ d[q].kind = "file"
Mkdirs(d, p) ==
    LET new == Ancestors(p) \ DOMAIN d
    IN [q \in DOMAIN d \cup new |-> IF q \in new THEN Unknown ELSE d[q]]

\* rename: a directory takes along what is in it.
Rename(d, from, to) ==
    LET old   == {from} \cup Beneath(d, from)
        To(q) == to \o SubSeq(q, Len(from) + 1, Len(q))
    IN [q \in (DOMAIN d \ old) \cup {To(r) : r \in old} |->
            IF \E r \in old : To(r) = q THEN d[CHOOSE r \in old : To(r) = q] ELSE d[q]]

Claimants(d, kind, x) == {p \in DOMAIN d : d[p].kind = kind /\ d[p].id = x}
Claimed(d, kind) == {d[p].id : p \in {q \in DOMAIN d : d[q].kind = kind}} \ {NoOne}
Twice(d) == {x \in Id : Cardinality(Claimants(d, "file", x) \cup Claimants(d, "folder", x)) > 1}

-----------------------------------------------------------------------------
(* The batch.                                                              *)

Put(d, x)  == [op |-> IF d[x].kind = "file" THEN "Upserted" ELSE "FolderUpserted",
               id |-> x, path |-> PathIn(d, x), tag |-> d[x].tag]
Gone(d, x) == [op |-> IF d[x].kind = "file" THEN "Removed" ELSE "FolderRemoved",
               id |-> x, path |-> PathIn(d, x), tag |-> NoOne]

\* The order of paths of one length, by the first name in which they differ.
Before(p, q) == \E i \in DOMAIN p : p[i] < q[i] /\ \A j \in 1 .. i - 1 : p[j] = q[j]
Parents(c, e)  == Len(c.path) < Len(e.path)
                  \/ (Len(c.path) = Len(e.path) /\ Before(c.path, e.path))
Children(c, e) == Len(c.path) > Len(e.path)
                  \/ (Len(c.path) = Len(e.path) /\ Before(c.path, e.path))
\* The changes of a set in the order of Parents, or of Children.
Listed(S)    == {b \in SetToSeqs(S) : \A i, j \in DOMAIN b : i < j => Parents(b[i], b[j])}
FromBelow(S) == {b \in SetToSeqs(S) : \A i, j \in DOMAIN b : i < j => Children(b[i], b[j])}

Joined(R, S) == {p[1] \o p[2] : p \in R \X S}

\* A resumed round orders what its tombstones remove, files first and then folders from
\* the bottom; an enumeration finds what has gone in the order of the old listing.
Removals(old, new, enum) ==
    LET gone == {Gone(old, x) : x \in Live(old) \ Live(new)}
    IN IF enum THEN Listed(gone)
       ELSE Joined(Listed({g \in gone : g.op = "Removed"}), FromBelow({g \in gone : g.op = "FolderRemoved"}))
Batches(old, new, enum) == Joined(Removals(old, new, enum), Listed({Put(new, x) : x \in Live(new)}))

-----------------------------------------------------------------------------
(* One change.  s is the state of the pass: [root, files, folders, retry,  *)
(* did, failed, abort].                                                    *)

Retry(s)  == [s EXCEPT !.retry = TRUE, !.failed = TRUE]
Failed(s) == [s EXCEPT !.failed = TRUE]

\* The object's file or directory is, as far as the index knows, at another name.
Elsewhere(s, found, c) ==
    c.id \in DOMAIN found /\ found[c.id] # c.path /\ found[c.id] \in DOMAIN s.root

Moved(s, from, c) ==
    [s EXCEPT !.root = Rename(Mkdirs(@, c.path), from, c.path), !.did = TRUE]

\* A directory that is there, whatever it was, becomes the folder's.
Claim(s, c) ==
    IF s.root[c.path].kind = "file" \/ s.root[c.path].id \notin {NoOne, c.id} THEN Retry(s)
    ELSE [s EXCEPT !.root[c.path].id = c.id, !.root[c.path].tag = c.tag,
                   !.folders = With(@, c.id, c.path)]

UpsertFolder(s, c) ==
    LET free  == c.path \notin DOMAIN s.root
        moves == Elsewhere(s, s.folders, c)
        fresh == [s EXCEPT !.root = With(Mkdirs(@, c.path), c.path, Unknown), !.did = TRUE]
    IN CASE ~free /\ moves  -> Retry(s)
         [] ~free /\ ~moves -> Claim(s, c)
         [] free /\ moves /\ Blocked(s.root, c.path) -> [s EXCEPT !.abort = TRUE]
         [] free /\ ~moves /\ Blocked(s.root, c.path) -> Retry(s)
         [] free /\ moves /\ ~Blocked(s.root, c.path) /\ s.folders[c.id] \in Ancestors(c.path) ->
                Retry([s EXCEPT !.root = Mkdirs(@, c.path)])
         [] OTHER -> IF moves THEN Claim(Moved(s, s.folders[c.id], c), c) ELSE Claim(fresh, c)

\* place: parents are made; what is at the name is replaced.
Place(s, c) ==
    IF Blocked(s.root, c.path) THEN Failed(s)
    ELSE [s EXCEPT !.root = With(Mkdirs(@, c.path), c.path,
                                 [kind |-> "file", id |-> c.id, tag |-> c.tag, work |-> {}]),
                   !.did = TRUE]

\* Nothing there; already as described; bytes nobody has sent, or a directory without an
\* identity, are kept; no file can take a directory's place.
PutFile(s, c) ==
    IF c.path \notin DOMAIN s.root THEN Place(s, c)
    ELSE LET here == s.root[c.path]
         IN CASE here.id = c.id /\ here.tag = c.tag -> s
              [] (here.id # c.id \/ here.tag # c.tag) /\ here.kind = "folder" ->
                    IF here.id = NoOne THEN s ELSE Failed(s)
              [] (here.id # c.id \/ here.tag # c.tag) /\ here.kind = "file" /\ here.work # {} -> s
              [] OTHER -> Place(s, c)

\* Fault: the object is looked for under its new name only.
UpsertByName(s, c) == PutFile(s, c)

UpsertFile(s, c) ==
    IF ~Elsewhere(s, s.files, c) THEN PutFile(s, c)
    ELSE IF c.path \in DOMAIN s.root \/ Blocked(s.root, c.path) THEN Retry(s)
    ELSE IF s.files[c.id] \in Ancestors(c.path) THEN Retry([s EXCEPT !.root = Mkdirs(@, c.path)])
    ELSE PutFile([Moved(s, s.files[c.id], c) EXCEPT !.files[c.id] = c.path], c)

RemoveFile(s, c) ==
    IF c.id \notin DOMAIN s.files \/ s.files[c.id] \notin DOMAIN s.root THEN s
    ELSE LET p == s.files[c.id]
         IN CASE s.root[p].work # {} -> s
              [] s.root[p].work = {} /\ s.root[p].kind = "folder" -> Failed(s)
              [] OTHER -> [s EXCEPT !.root = Without(@, {p}), !.did = TRUE]

\* Fault: what is in the folder goes with it.
RemoveTree(s, c) ==
    IF c.id \notin DOMAIN s.folders \/ s.folders[c.id] \notin DOMAIN s.root THEN s
    ELSE LET p == s.folders[c.id]
         IN [s EXCEPT !.root = Without(@, {p} \cup Beneath(@, p)), !.did = TRUE,
                      !.folders = Without(@, {c.id})]

\* A directory that is not empty survives, without the identity.
RemoveFolder(s, c) ==
    IF c.id \notin DOMAIN s.folders THEN s
    ELSE LET p    == s.folders[c.id]
             lost == [s EXCEPT !.folders = Without(@, {c.id})]
         IN CASE p \notin DOMAIN s.root -> lost
              [] p \in DOMAIN s.root /\ s.root[p].kind = "file" -> Retry(s)
              [] p \in DOMAIN s.root /\ s.root[p].kind = "folder" /\ Beneath(s.root, p) # {} ->
                    [lost EXCEPT !.root[p].id = NoOne, !.root[p].tag = NoOne]
              [] OTHER -> [lost EXCEPT !.root = Without(@, {p}), !.did = TRUE]

ApplyOne(s, c) ==
    CASE c.op = "Removed"        -> RemoveFile(s, c)
      [] c.op = "FolderRemoved"  -> RemoveFolder(s, c)
      [] c.op = "Upserted"       -> UpsertFile(s, c)
      [] c.op = "FolderUpserted" -> UpsertFolder(s, c)

-----------------------------------------------------------------------------
(* The pass.                                                               *)

\* Store::fingerprint covers files, and of a file everything but its bytes.
Tree(d) == {<<p, d[p].id, d[p].tag>> : p \in {q \in DOMAIN d : d[q].kind = "file"}}
Fingerprint(b, d) == [batch |-> b, tree |-> Tree(d)]

\* coalesce: of what a batch says about one object in one way, the last.
Coalesce(b) ==
    InOrder(b, {i \in DOMAIN b : ~ \E j \in DOMAIN b : j > i /\ b[j].id = b[i].id /\ b[j].op = b[i].op})

\* At most MaxChanged objects are made, moved, renamed, changed or deleted between two
\* rounds.  An object never comes back, nor becomes one of the other kind.
Sane(d) ==
    /\ \A x \in Live(d) : d[x].parent = NoOne \/ (d[x].parent \in Live(d) /\ d[d[x].parent].kind = "folder")
    /\ \A x, y \in Live(d) : x # y => d[x].parent # d[y].parent \/ d[x].name # d[y].name

Acyclic(d) == \A x \in Live(d) : Chains(d, x) # {}

MayBecome(d, S) ==
    {e \in [S -> Item \cup {Absent}] :
        \A x \in S : /\ e[x] # d[x] /\ (e[x] = Absent => d[x] # Unborn)
                     /\ (d[x] # Unborn /\ e[x] # Absent => e[x].kind = d[x].kind)}
Changed(d) ==
    UNION {{[x \in Id |-> IF x \in S THEN e[x] ELSE d[x]] : e \in MayBecome(d, S)} :
               S \in {T \in SUBSET Id : Cardinality(T) <= MaxChanged /\ \A x \in T : d[x] # Absent}}
Later(d) == {e \in Changed(d) : Sane(e) /\ Acyclic(e)}

NewVerdict == [retry |-> FALSE, did |-> FALSE, failed |-> FALSE]

\* The provider serves what has changed and all there is.
Serve(new, enum) ==
    /\ phase = "rest" /\ batch = <<>>
    /\ listed' = new /\ batch' \in Batches(listed, new, enum) /\ batch' # <<>>
    /\ turns' = IF new = listed THEN turns ELSE turns + 1
    /\ UNCHANGED <<root, todo, phase, index, verdict, walked, seen, made, acts, tangled, dirs>>

\* The index of a kind of object; of two files with one identity either may be in it.
Indexes(d, kind) ==
    {f \in [Claimed(d, kind) -> DOMAIN d] : \A x \in DOMAIN f : f[x] \in Claimants(d, kind, x)}

\* An identity claimed by two directories is an error, and no pass begins.
BeginPass ==
    /\ phase = "rest" /\ batch # <<>> /\ seen # Fingerprint(batch, root)
    /\ \A x \in Id : Cardinality(Claimants(root, "folder", x)) <= 1
    /\ phase' = "pass" /\ todo' = Coalesce(batch) /\ verdict' = NewVerdict /\ walked' = Tree(root)
    /\ files' \in Indexes(root, "file") /\ folders' \in Indexes(root, "folder")
    /\ UNCHANGED <<listed, root, batch, seen, turns, made, acts, tangled, dirs>>

\* Neither the batch nor the tree has moved since a pass that did nothing.
Skip ==
    /\ phase = "rest" /\ batch # <<>> /\ seen = Fingerprint(batch, root)
    /\ batch' = <<>>
    /\ UNCHANGED <<listed, root, todo, phase, index, verdict, walked, seen, turns, made, acts,
                   tangled, dirs>>

AtRest == phase' = "rest" /\ todo' = <<>> /\ walked' = {} /\ files' = Empty /\ folders' = Empty /\ verdict' = NewVerdict

\* What has still to come has been taken along, to where it is not listed.
Strays(d, new, rest) ==
    \E e \in Range(rest), p \in DOMAIN new :
        /\ e.op \in {"Upserted", "FolderUpserted"} /\ new[p].id = e.id /\ p # e.path
        /\ p \notin DOMAIN d \/ d[p].id # e.id

Apply ==
    /\ phase = "pass" /\ todo # <<>>
    /\ LET s == ApplyOne([root |-> root, files |-> files, folders |-> folders, retry |-> verdict.retry,
                          did |-> verdict.did, failed |-> verdict.failed, abort |-> FALSE], Head(todo))
       IN /\ root' = s.root /\ tangled' = (tangled \/ Strays(root, s.root, Tail(todo)))
          /\ IF s.abort THEN AtRest
             ELSE /\ todo' = Tail(todo) /\ UNCHANGED <<phase, walked>> /\ files' = s.files /\ folders' = s.folders
                  /\ verdict' = [retry |-> s.retry, did |-> s.did, failed |-> s.failed]
    /\ UNCHANGED <<listed, batch, seen, turns, made, acts, dirs>>

\* Fault: remembered whatever it did.
RemembersAll(v) == ~v.retry

\* Remembered only by a pass that did nothing, and found nothing in the way.
Remembers(v) == ~v.did /\ ~v.retry /\ ~v.failed

\* The cursor moves past a pass that finished.  The tree remembered is the one the pass
\* has walked at its start.
EndPass ==
    /\ phase = "pass" /\ todo = <<>> /\ AtRest
    /\ batch' = IF verdict.retry THEN batch ELSE <<>>
    /\ seen' = IF Remembers(verdict) THEN [batch |-> batch, tree |-> walked] ELSE seen
    /\ dirs' = IF Remembers(verdict) THEN Dirs(root) ELSE dirs
    /\ UNCHANGED <<listed, root, turns, made, acts, tangled>>

\* The root has stopped being the mount the pass began on.
Stop ==
    /\ phase = "pass" /\ todo # <<>> /\ AtRest
    /\ UNCHANGED <<listed, root, batch, seen, turns, made, acts, tangled, dirs>>

-----------------------------------------------------------------------------
(* The user: external.                                                     *)

\* bound: the user works near the root
Paths == UNION {[1 .. n -> Seg] : n \in 1 .. 2}

Local(d) ==
    /\ acts < MaxLocal /\ acts' = acts + 1 /\ root' = d
    /\ UNCHANGED <<listed, batch, todo, phase, index, verdict, walked, seen, turns, dirs>>

Write(p) ==
    /\ p \notin DOMAIN root /\ IsDir(root, Parent(p))
    /\ Local(With(root, p, [Unknown EXCEPT !.kind = "file", !.work = {acts}]))
    /\ made' = made \cup {acts} /\ UNCHANGED tangled
Edit(p) ==
    /\ p \in DOMAIN root /\ root[p].kind = "file"
    /\ Local([root EXCEPT ![p].work = @ \cup {acts}])
    /\ made' = made \cup {acts} /\ UNCHANGED tangled
Move(p, q) ==
    /\ p \in DOMAIN root /\ q \notin DOMAIN root /\ IsDir(root, Parent(q)) /\ p \notin Ancestors(q)
    /\ Local(Rename(root, p, q))
    /\ tangled' = (tangled \/ phase = "pass") /\ UNCHANGED made

-----------------------------------------------------------------------------

PassInit ==
    /\ listed \in {d \in [Id -> Item \cup {Unborn}] : Cardinality(Live(d)) >= MinItems /\ Sane(d) /\ Acyclic(d)}
    /\ root = [p \in {PathIn(listed, x) : x \in Live(listed)} |->
                  LET x == CHOOSE y \in Live(listed) : PathIn(listed, y) = p
                  IN [kind |-> listed[x].kind, id |-> x, tag |-> listed[x].tag, work |-> {}]]
    /\ batch = <<>> /\ todo = <<>> /\ phase = "rest" /\ files = Empty /\ folders = Empty
    /\ verdict = NewVerdict /\ walked = {} /\ seen = NoOne /\ turns = 0 /\ made = {} /\ acts = 0
    /\ tangled = FALSE /\ dirs = {}

PassNext ==
    \/ turns < MaxRounds /\ \E new \in Later(listed), enum \in BOOLEAN : Serve(new, enum)
    \/ Serve(listed, FALSE) \/ BeginPass \/ Skip \/ Apply \/ EndPass \/ Stop
    \/ \E p \in Paths : Write(p)
    \/ \E p \in DOMAIN root : Edit(p) \/ \E q \in Paths : Move(p, q)

PassSpec == PassInit /\ [][PassNext]_pvars

-----------------------------------------------------------------------------
(* Properties.                                                             *)

\* Nothing the pass does takes away bytes that only this machine has: not a removal, not
\* a placeholder, not a folder that moves or goes (delta.rs:697-748, 854-856); and what is
\* there lies in a directory, so the bytes are still found under the root.
KeepsWork ==
    /\ made \subseteq UNION {root[p].work : p \in DOMAIN root}
    /\ \A p \in DOMAIN root : IsDir(root, Parent(p))

\* "The only handling that cannot end with two claimants" (delta.rs:612-613): no two names
\* bear one identity, unless a folder that the pass has renamed took along an object whose
\* turn was still to come, to where that is not listed, or the user has moved something while a
\* pass was under way.  Whatever is refused, stops, or fails, the index finds the rest.
OneClaimant == Twice(root) # {} => tangled

\* A pass that is skipped has nothing to do (delta.rs:886-911, store.rs:141-142): while the
\* files are those a remembered pass has walked, each file of its batch is where it belongs,
\* as described, and none of what it removes is there, but for bytes that were kept, and for
\* a directory in a file's place.  The fingerprint does not see directories: this is said
\* while none has gone from where that pass left it; and the index knows one name of an
\* object, so it is said of objects that have only one.
SkipsNothing ==
    seen # NoOne /\ seen.tree = Tree(root) /\ dirs \subseteq Dirs(root) /\ ~tangled =>
    \A c \in Range(seen.batch) :
        CASE c.op = "Upserted" -> /\ c.path \in DOMAIN root
                                  /\ \/ root[c.path].id = c.id /\ root[c.path].tag = c.tag
                                     \/ root[c.path].work # {} \/ root[c.path].kind = "folder"
          [] c.op = "Removed" -> \A p \in Claimants(root, "file", c.id) : root[p].work # {}
          [] OTHER -> TRUE

=============================================================================

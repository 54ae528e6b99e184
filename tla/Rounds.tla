------------------------------- MODULE Rounds -------------------------------
(***************************************************************************)
(* Rounds of the delta feed, item by item (hydration-graph/src/lib.rs): a  *)
(* page of described items is mapped, judged against what the round knows  *)
(* of the tree, fed to the tracker of Namespace, and at the end either     *)
(* becomes the stored tree and a batch for the receiver, or is withheld    *)
(* together with its token.  How tree, token and batch survive a crash is  *)
(* the business of DeltaFeed; here a commit is one step.                   *)
(*                                                                         *)
(* The drive is external.  The service owes a client every item that has   *)
(* changed since its token; it reports an item as it is at that moment, in *)
(* any order, and again if it changes once more.  One drive, no mounts.    *)
(***************************************************************************)
EXTENDS Namespace

CONSTANTS
    Looks,          \* the names and sets of facets an item may come with
    Source,         \* TagSource
    Conventional,   \* the one that is pinned when no file shows another
    Offers,         \* which of them the drive may report
    MaxDepth,       \* MAX_MAPPED_DEPTH
    BlastLimit,     \* deletions an enumeration may imply (the code: max(64, known / 10))
    MinItems,       \* bound: items a synced drive starts with, at least
    MaxPage,        \* bound: items on a full page
    MaxOps          \* bound: changes to the drive

ASSUME OffersAssumption ==
    /\ \A k \in Looks : k.name \in Name
    /\ Conventional \in Source /\ Offers \subseteq SUBSET Source
    /\ MaxDepth \in Nat /\ BlastLimit \in Nat /\ MinItems \in Nat /\ MaxPage \in Nat /\ MaxOps \in Nat

VARIABLES
    drive,      \* [Id \ {Top} -> [parent, name, facets, tag], or Unborn, or Absent]
    offers,     \* the tag sources this drive reports
    ops,
    news,       \* ids that have changed since the token
    forgot,     \* there is no token, or the service no longer knows it
    tree,       \* StoredTree::items, as the nodes they restore to
    pin,        \* StoredTree::tags
    at,         \* "idle", or a "round" is under way
    enum,       \* it lists everything
    work,       \* Round::namespace
    index,      \* Round::index
    tags,       \* Round::tags
    out,        \* Round::changes
    halt,       \* Round::escalation is set, or Report::refusals is not empty
    deferred,   \* the ids of Report::deferred
    undone,     \* history: ids of which the round may have undone the last report
    left,       \* ids the round's feed has still to report
    owed,       \* and those it may report, having changed meanwhile
    mirror,     \* the receiver: id -> [path, class, tag], from the batches alone
    told,       \* history: ids a committed round has named as deferred or problems
    stale,      \* history: ids a committed round has left so
    spared      \* history: ids whose deletion a round has chosen not to send

outside == <<drive, offers, ops, news>>
stored  == <<forgot, tree, pin>>
round   == <<enum, work, index, tags, out, halt, deferred, undone, left, owed>>
past    == <<mirror, told, stale, spared>>
vars    == <<outside, stored, at, round, past>>

Absent == [facets |-> {"deleted"}, parent |-> NoOne, name |-> NoOne, tag |-> NoOne]
Unborn == [Absent EXCEPT !.facets = {"unborn"}]
TreeRoot == IF tree = Empty THEN NoOne ELSE Top

\* StoredItem: as what the tree is written down, kind by kind, and read back.
StoredItems == Snapshot(tree, TreeRoot)
There  == {x \in Id \ {Top} : drive[x] \notin {Absent, Unborn}}

\* What the service sends for an item.
Raw(x) ==
    LET d == IF x = Top THEN [Absent EXCEPT !.facets = {"root", "folder"}] ELSE drive[x]
    IN [id |-> x, facets |-> d.facets, parent |-> d.parent, name |-> d.name, tag |-> d.tag]

-----------------------------------------------------------------------------
(* One reply.                                                              *)

Reply == [status : {200, 410, 429, 500}, error : {"none", "resyncRequired", "other"},
          value : BOOLEAN, next : BOOLEAN, delta : BOOLEAN]

\* DeltaPage::parse: an error anywhere, or not exactly one link, is no page.
Parse(r) ==
    IF r.status = 429 THEN "Throttled"
    ELSE IF r.status = 410 \/ r.error = "resyncRequired" THEN "ResyncRequired"
    ELSE IF r.error # "none" \/ r.status >= 400 THEN "Malformed"
    ELSE IF ~r.value \/ r.next = r.delta THEN "Malformed"
    ELSE IF r.next THEN "More" ELSE "Done"
NoPages == {r \in Reply : Parse(r) \notin {"More", "Done"}}

-----------------------------------------------------------------------------
(* What an item is, and what the round remembers of the tree: TreeIndex.   *)

\* shape_of: the first whose facets are all there.
Precedence == << [of |-> {"deleted"}, is |-> "Deleted"], [of |-> {"root"}, is |-> "Root"],
                 [of |-> {"malware"}, is |-> "Blocked"], [of |-> {"pending"}, is |-> "Unsettled"],
                 [of |-> {"package"}, is |-> "Opaque"],
                 [of |-> {"folder", "file"}, is |-> "Ambiguous"],
                 [of |-> {"folder"}, is |-> "Folder"], [of |-> {"file"}, is |-> "File"],
                 [of |-> {}, is |-> "Neither"] >>
ShapeOf(f) == SelectSeq(Precedence, LAMBDA p : p.of \subseteq f)[1].is

\* What the first pass over a page takes an item for: transient states do not matter.
KindOf(f) == LET s == ShapeOf(f \ {"malware", "pending"}) IN IF s \in Shape THEN s ELSE NoOne

NewIndex == [shape |-> [x \in Id |-> NoOne], parent |-> [x \in Id |-> NoOne],
             kids |-> [x \in Id |-> {}]]

Attach(ix, x, p, s) ==
    [shape  |-> [ix.shape EXCEPT ![x] = s],
     parent |-> IF p = NoOne THEN ix.parent ELSE [ix.parent EXCEPT ![x] = p],
     kids   |-> [y \in Id |-> IF y = p THEN ix.kids[y] \cup {x}
                              ELSE IF y = ix.parent[x] THEN ix.kids[y] \ {x}
                              ELSE ix.kids[y]]]

Forget(ix, x) ==
    [shape  |-> [ix.shape EXCEPT ![x] = NoOne],
     parent |-> [ix.parent EXCEPT ![x] = NoOne],
     kids   |-> [y \in Id |-> IF y = x THEN {}
                              ELSE IF y = ix.parent[x] THEN ix.kids[y] \ {x}
                              ELSE ix.kids[y]]]

\* Counted as far up as the index reaches; a cycle in it counts as very deep.
RECURSIVE DepthFrom(_, _, _)
DepthFrom(ix, x, n) ==
    IF ix.parent[x] = NoOne \/ n > 4 * MaxDepth THEN n
    ELSE DepthFrom(ix, ix.parent[x], n + 1)

-----------------------------------------------------------------------------
(* Mapping a page: map_item and map_page.                                  *)

\* probe_tag_source: the first file that has any tag decides, in the order of
\* preference; only the conventional one is told apart from the rest.
Probe(page) ==
    IF offers # {} /\ \E k \in DOMAIN page : KindOf(page[k].facets) = "File"
    THEN IF Conventional \in offers THEN Conventional ELSE CHOOSE s \in offers : TRUE
    ELSE Conventional

\* map_item: why an item cannot be mapped, or "mapped".
Judge(ix, src, i) ==
    LET s == ShapeOf(i.facets)
        refused ==
            CASE s = "Deleted" -> IF "root" \in i.facets THEN "RootDeleted" ELSE "mapped"
              [] s = "Root" -> "mapped"
              [] s \in {"Blocked", "Unsettled", "Ambiguous", "Neither"} -> s
              [] s \in Shape /\ i.parent = NoOne -> "NoParent"
              [] s \in Shape /\ i.parent = i.id -> "SelfParent"
              [] OTHER -> "placed"
    IN IF refused # "placed" THEN refused
       ELSE IF DepthFrom(ix, i.parent, 0) + 1 > MaxDepth THEN "TooDeep"
       ELSE IF ix.shape[i.id] \notin {NoOne, s} /\ ix.kids[i.id] # {} THEN "ShapeFlip"
       ELSE IF s = "File" /\ src \notin offers THEN "NoContentTag"
       ELSE "mapped"

ItemOf(i) ==
    LET s == ShapeOf(i.facets)
    IN CASE s = "Deleted" -> [op |-> "Delete", id |-> i.id]
         [] s = "Root" -> [op |-> "Root", id |-> i.id]
         [] s \in Shape -> [op |-> "Upsert", id |-> i.id, parent |-> i.parent,
                            name |-> i.name, shape |-> s, tag |-> i.tag]

\* The first pass registers shapes and parents without judging.
Register(ix, i) ==
    LET k == KindOf(i.facets)
    IN CASE "deleted" \in i.facets -> ix
         [] ShapeOf(i.facets) = "Root" -> Attach(ix, i.id, NoOne, "Folder")
         [] ShapeOf(i.facets) \notin {"Deleted", "Root"} /\ k = NoOne -> ix
         [] OTHER -> Attach(ix, i.id, i.parent, IF ix.shape[i.id] = NoOne THEN k
                                                ELSE ix.shape[i.id])

\* The second one maps; m is [ix, items, refused], a refusal [id, why].
MapOne(m, i, src) ==
    LET why == Judge(m.ix, src, i)
        item == ItemOf(i)
    IN IF why # "mapped" THEN [m EXCEPT !.refused = @ \cup {[id |-> i.id, why |-> why]}]
       ELSE [m EXCEPT !.items = Append(@, item),
                      !.ix = CASE item.op = "Upsert" -> Attach(@, i.id, @.parent[i.id], item.shape)
                               [] item.op = "Delete" -> Forget(@, i.id)
                               [] item.op = "Root" -> @]

\* The third refuses, for the same reason, what lies directly in a refused item.
MapPage(ix, src, page) ==
    LET known  == FoldLeft(Register, ix, page)
        m      == FoldLeft(LAMBDA acc, i : MapOne(acc, i, src),
                           [ix |-> known, items |-> <<>>, refused |-> {}], page)
        ids    == {r.id : r \in m.refused}
        orphan == {i \in Range(page) : i.id \notin ids /\ i.parent \in ids}
    IN [m EXCEPT !.items = SelectSeq(@, LAMBDA i : i.id \notin {o.id : o \in orphan}),
                 !.refused = @ \cup {[id |-> o.id,
                                      why |-> (CHOOSE r \in m.refused : r.id = o.parent).why]
                                     : o \in orphan}]

\* Ways in which a report is undone by another, as the code stands: an earlier one of
\* the same id is waiting, and is taken up after it; a folder that is deleted, or turns
\* out to be of another kind, takes along what has left it or has just been put there.
Undoes(t, item) ==
    LET beneath == IF item.id \in DOMAIN t.nodes THEN Beneath(t.nodes, item.id) \cap There ELSE {}
    IN CASE item.op = "Root" -> {}
         [] item.op = "Delete" -> beneath
         [] item.op = "Upsert" ->
                {i.id : i \in {j \in HeldItems(t.waiting) : j.id = item.id}}
                \cup IF beneath # {} /\ t.nodes[item.id].shape # item.shape THEN beneath ELSE {}

\* Round::feed, one item: what it changes replaces what an earlier occurrence did.
FeedItem(acc, item) ==
    LET t   == Apply(acc.work, item)
        ids == {c.id : c \in t.out}
    IN [work |-> [t EXCEPT !.out = {}, !.placed = NoOne],
        out  |-> {c \in acc.out : c.id \notin ids} \cup t.out,
        undone |-> acc.undone \cup Undoes(acc.work, item)]

Transient == {"Blocked", "Unsettled"}

-----------------------------------------------------------------------------
(* The drive: external.                                                    *)

RECURSIVE Under(_, _)
Under(d, S) == LET more == S \cup {x \in Id \ {Top} : d[x].parent \in S}
               IN IF more = S THEN S ELSE Under(d, more)

Holders == {Top} \cup {x \in There : ShapeOf(drive[x].facets) \in {"Folder", "Opaque"}}

Notice(S) ==
    /\ ops' = ops + 1
    /\ news' = news \cup S
    /\ owed' = (IF at = "round" THEN owed \cup S ELSE {})
    /\ UNCHANGED <<offers, stored, at, enum, work, index, tags, out, halt, deferred, undone, left, past>>

\* An item is made, moved, renamed, edited or described otherwise.  An id changes
\* its kind only when nothing lies in it.
Set(x, d) ==
    /\ drive[x] \notin {d, Absent} /\ d.parent \in Holders /\ d.parent \notin Under(drive, {x})
    /\ Under(drive, {x}) # {x} => ShapeOf(d.facets) = ShapeOf(drive[x].facets)
    /\ drive' = [drive EXCEPT ![x] = d] /\ Notice({x})

\* With all that lies in it, each of which gets a tombstone.
Discard(x) ==
    /\ x \in There
    /\ drive' = [y \in Id \ {Top} |-> IF y \in Under(drive, {x}) THEN Absent ELSE drive[y]]
    /\ Notice(Under(drive, {x}))

Expire ==
    /\ ops' = ops + 1 /\ ~forgot /\ forgot' = TRUE
    /\ UNCHANGED <<drive, offers, news, tree, pin, at, round, past>>

-----------------------------------------------------------------------------
(* The round.                                                              *)

EndRound ==
    /\ at' = "idle" /\ enum' = FALSE /\ work' = Fresh /\ index' = NewIndex /\ tags' = NoOne
    /\ out' = {} /\ halt' = FALSE /\ deferred' = {} /\ undone' = {} /\ left' = {} /\ owed' = {}

\* GraphDiscover::attempt: an enumeration is judged against an empty tree, a resumed
\* round against the stored one; the index starts empty in both.
Begin ==
    /\ at = "idle" /\ at' = "round"
    /\ enum' = forgot
    /\ work' = IF forgot THEN Fresh ELSE [Restore(StoredItems) EXCEPT !.out = {}, !.placed = NoOne]
    /\ left' = IF forgot THEN There \cup {Top} ELSE news
    /\ owed' = left'
    /\ index' = NewIndex /\ tags' = NoOne /\ out' = {} /\ halt' = FALSE
    /\ deferred' = {} /\ undone' = {}
    /\ UNCHANGED <<outside, stored, past>>

\* The round's tag source: pinned once, from the first page.
Pinned(page) == IF tags # NoOne THEN tags ELSE IF pin # NoOne THEN pin ELSE Probe(page)

Page(s) ==
    /\ at = "round" /\ Range(s) \cap left # {}
    /\ LET page == [k \in DOMAIN s |-> Raw(s[k])]
           m    == MapPage(index, Pinned(page), page)
           fed  == FoldLeft(FeedItem, [work |-> work, out |-> out, undone |-> undone], m.items)
       IN /\ tags' = Pinned(page) /\ index' = m.ix
          /\ work' = fed.work /\ out' = fed.out /\ undone' = fed.undone
          /\ halt' = (halt \/ \E r \in m.refused : r.why \notin Transient)
          /\ deferred' = deferred \cup {r.id : r \in {q \in m.refused : q.why \in Transient}}
    /\ left' = left \ Range(s) /\ owed' = owed \ Range(s)
    /\ UNCHANGED <<outside, stored, at, enum, past>>

\* A reply that is no page; throttled for too long; a link that leads back.
Lost ==
    /\ at = "round" /\ EndRound
    /\ NoPages # {}
    /\ UNCHANGED <<outside, stored, past>>

\* Fault: what waits for a parent is only reported.
MayFinishPending(w) == ~halt

\* Round::finish.
MayFinish(w) == ~halt /\ HeldItems(w.waiting) = {}

Withhold ==
    /\ at = "round" /\ left = {} /\ ~MayFinish(work) /\ EndRound
    /\ UNCHANGED <<outside, stored, past>>

\* deletions_since: what was listed and an enumeration no longer mentions.
Vanished == {c \in Listing(tree, TreeRoot) : c.id # Top /\ c.id \notin DOMAIN work.nodes}
Deletions == IF Cardinality(Vanished) > BlastLimit THEN {}
             ELSE {[c EXCEPT !.class = IF @ = "Upserted" THEN "Removed" ELSE "FolderRemoved"]
                   : c \in Vanished}

Follows(ns, x) ==
    IF x \notin There THEN x \notin DOMAIN ns
    ELSE /\ x \in DOMAIN ns /\ ns[x].shape = ShapeOf(drive[x].facets)
         /\ ns[x].parent = drive[x].parent /\ ns[x].name = drive[x].name
         /\ ns[x].tag = drive[x].tag

\* The batch is the round's removals and the whole listing.
Commit ==
    /\ at = "round" /\ left = {} /\ MayFinish(work)
    /\ forgot' = FALSE /\ tree' = work.nodes
    /\ pin' = Pinned(<<>>) /\ news' = owed
    /\ LET removals == {c \in out : c.class \in {"Removed", "FolderRemoved"}}
                       \cup IF enum THEN Deletions ELSE {}
           listing  == Listing(work.nodes, work.root)
           reported == (IF enum THEN Id ELSE news) \ owed
           unsent   == IF enum THEN DOMAIN tree \ DOMAIN work.nodes ELSE {}
       IN /\ mirror' = Receive(mirror, removals \cup listing)
          /\ told' = {x \in (told \ reported) \cup work.problems \cup deferred : ~Follows(tree', x)}
          /\ stale' = {x \in (stale \ reported) \cup undone : ~Follows(tree', x)}
          /\ spared' = ((spared \cup unsent) \ {c.id : c \in removals}) \ {c.id : c \in listing}
    /\ EndRound
    /\ UNCHANGED <<drive, offers, ops>>

-----------------------------------------------------------------------------

Desc == {[parent |-> p, name |-> k.name, facets |-> k.facets, tag |-> t] :
             p \in Id, k \in Looks, t \in Tag}

\* A drive of plain files and folders that has been synced, or an empty one that never was.
Plain(d) == \A x \in Id \ {Top} :
    d[x] = Unborn \/ /\ d[x].name \notin BadName /\ d[x].facets \in {{"file"}, {"folder"}}
                     /\ x \in Under(d, {Top})
                     /\ d[x].parent = Top \/ d[d[x].parent].facets = {"folder"}

Init ==
    /\ drive \in {d \in [Id \ {Top} -> Desc \cup {Unborn}] : Plain(d)}
    /\ offers \in Offers /\ ops = 0 /\ news = {}
    /\ \/ forgot = TRUE /\ tree = Empty /\ pin = NoOne /\ There = {}
       \/ /\ forgot = FALSE /\ Cardinality(There) >= MinItems
          /\ tree = [x \in There \cup {Top} |->
                        IF x = Top THEN [parent |-> NoOne, name |-> NoOne, shape |-> "Folder", tag |-> NoOne]
                        ELSE [parent |-> drive[x].parent, name |-> drive[x].name,
                              shape |-> ShapeOf(drive[x].facets), tag |-> drive[x].tag]]
          /\ \E x \in There : pin \in offers
    /\ at = "idle" /\ enum = FALSE /\ work = Fresh /\ index = NewIndex /\ tags = NoOne
    /\ out = {} /\ halt = FALSE /\ deferred = {} /\ undone = {}
    /\ left = {} /\ owed = {}
    /\ mirror = Receive(Empty, Listing(tree, TreeRoot))
    /\ told = {} /\ stale = {} /\ spared = {}

\* Pages are full, but for the last.
Pages == LET n == IF Cardinality(owed) < MaxPage THEN Cardinality(owed) ELSE MaxPage
         IN {s \in [1 .. n -> owed] : IsInjective(s)}

Next ==
    \/ ops < MaxOps /\ \E x \in Id \ {Top} : (\E d \in Desc : Set(x, d)) \/ Discard(x)
    \/ ops < MaxOps /\ Expire
    \/ Begin \/ (\E s \in Pages : Page(s)) \/ Lost \/ Withhold \/ Commit

Spec == Init /\ [][Next]_vars

-----------------------------------------------------------------------------
(* Properties.                                                             *)

\* One root, every other node under one that can hold it; nobody waits for a parent
\* that is there; and what is stored comes back as it was (namespace.rs:250-289).
Sound(ns, r) ==
    /\ DOMAIN ns \subseteq Id /\ ns \in [DOMAIN ns -> Node]
    /\ \A x \in DOMAIN ns :
          /\ ns[x].parent = NoOne <=> x = r
          /\ x # r => /\ ns[x].parent \in DOMAIN ns /\ ns[ns[x].parent].shape # "File"
                      /\ r \in Range(Chain(ns, x))
TreeSound ==
    /\ Sound(work.nodes, work.root) /\ \A p \in DOMAIN work.nodes : work.waiting[p] = <<>>
    /\ at = "idle" =>
       LET t == Restore(StoredItems)
       IN Sound(tree, Top) /\ t.nodes = tree /\ HeldItems(t.waiting) = {}

\* "A delta feed does not replay: advancing past an item that was never placed is
\* how a file silently never syncs" (lib.rs:1308-1311): whatever the service no longer
\* owes is in the stored tree as the drive has it, or gone from it, or was named as
\* deferred or as a problem.
TreeFollowsDrive ==
    at = "idle" /\ ~forgot => \A x \in Id \ (news \cup told \cup stale \cup {Top}) : Follows(tree, x)

\* A receiver that saw every batch has what the tree lists, where it lists it, and
\* nothing else: no file of an item that has gone, but for deletions spared.
MirrorAgrees ==
    at = "idle" =>
    LET seen == Listing(tree, TreeRoot)
    IN /\ \A c \in seen : /\ c.id \in DOMAIN mirror
                          /\ mirror[c.id] = [path |-> c.path, class |-> c.class, tag |-> c.tag]
       /\ \A x \in DOMAIN mirror :
            (\E c \in seen : c.id = x) \/ x \in spared \/ (x \in DOMAIN tree /\ Hidden(tree, x))

=============================================================================

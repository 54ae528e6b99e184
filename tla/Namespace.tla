------------------------------ MODULE Namespace ------------------------------
(***************************************************************************)
(* The tracker of the remote tree (hydration-client/src/namespace.rs): a   *)
(* service reports items by id, in any order, and the tracker turns them   *)
(* into the changes a receiver has to make to its files.                   *)
(*                                                                         *)
(* What a report does (placing the item, the items that were waiting for   *)
(* it, removals of whole subtrees) is Apply, a function of the tracker's   *)
(* state; Rounds is the module that feeds it.  The tracker's `children`    *)
(* index is the inverse of the parents in `nodes` and is not kept apart.   *)
(* The order among the changes of one batch is modelled by what it         *)
(* guarantees: removals before upserts.                                    *)
(***************************************************************************)
EXTENDS Naturals, FiniteSets, Sequences, SequencesExt

CONSTANTS
    Id,             \* ids of items
    Top,            \* the one that is the drive's root
    NoOne,          \* not an id
    Name, BadName,  \* names; those that cannot be part of a path
    Tag             \* versions of a file's content or a folder's metadata

ASSUME IdAssumption ==
    Top \in Id /\ NoOne \notin Id /\ BadName \subseteq Name

Shape == {"File", "Folder", "Opaque"}
Node  == [parent : Id \cup {NoOne}, name : Name \cup {NoOne}, shape : Shape,
          tag : Tag \cup {NoOne}]

Upsert == [op : {"Upsert"}, id : Id \ {Top}, parent : Id, name : Name, shape : Shape, tag : Tag]
Item   == Upsert \cup [op : {"Root", "Delete"}, id : Id]

Empty == [x \in {} |-> NoOne]
Without(f, S) == [x \in DOMAIN f \ S |-> f[x]]
With(f, x, v) == [y \in DOMAIN f \cup {x} |-> IF y = x THEN v ELSE f[y]]

-----------------------------------------------------------------------------
(* The tree.                                                               *)

Children(ns, x) == {y \in DOMAIN ns : ns[y].parent = x}

\* The ids from x up to the root, x first.
RECURSIVE Chain(_, _)
Chain(ns, x) == IF x \notin DOMAIN ns THEN <<>>
                ELSE <<x>> \o Chain(ns, ns[x].parent)

PathOf(ns, x) ==
    LET up == Chain(ns, x) IN [i \in 1 .. Len(up) - 1 |-> ns[up[Len(up) - i]].name]

WouldCycle(ns, x, parent) == x = parent \/ x \in Range(Chain(ns, parent))

\* Fault: a folder in the folder is taken for a file.
BeneathNear(ns, x) == Children(ns, x)

\* collect_ids: everything beneath x.
Beneath(ns, x) == {y \in DOMAIN ns : y # x /\ x \in Range(Chain(ns, y))}

\* Beneath a package: tracked, and no file of anybody's.
Hidden(ns, x) == \E y \in Range(Chain(ns, x)) : ns[y].shape = "Opaque"

Put(ns, x) == [class |-> IF ns[x].shape = "File" THEN "Upserted" ELSE "FolderUpserted",
               id |-> x, path |-> PathOf(ns, x), tag |-> ns[x].tag]
Gone(ns, x) == [class |-> IF ns[x].shape = "File" THEN "Removed" ELSE "FolderRemoved",
                id |-> x, path |-> PathOf(ns, x), tag |-> NoOne]

\* collect_tree: x and what is beneath it, packages skipped with their contents.
\* Only what lies between x and y counts, not what x itself is in.
CollectTree(ns, x) ==
    LET mine     == Beneath(ns, x) \cup {x}
        shown(y) == \A z \in Range(Chain(ns, y)) \cap mine : ns[z].shape # "Opaque"
    IN {Put(ns, y) : y \in {z \in mine : shown(z)}}

CollectDescendants(ns, x) == UNION {CollectTree(ns, y) : y \in Children(ns, x)}

Listing(ns, r) == IF r = NoOne THEN {} ELSE CollectTree(ns, r)

-----------------------------------------------------------------------------
(* One item.  t is the state of the tracker with `out`, the changes so far, *)
(* of which finalise keeps the last of each id and class, and `placed`, the *)
(* id whose waiters may go on.                                              *)

Emit(out, more) ==
    more \cup {c \in out : \A d \in more : d.id # c.id \/ d.class # c.class}

\* Everything held for S, and for what was held for them.
RECURSIVE HeldFor(_, _)
HeldFor(w, S) ==
    LET more == S \cup UNION {{i.id : i \in Range(w[x])} : x \in S}
    IN IF more = S THEN S ELSE HeldFor(w, more)

Refuse(t, x) ==
    LET S == HeldFor(t.waiting, {x})
    IN [t EXCEPT !.waiting = [y \in Id |-> IF y \in S THEN <<>> ELSE t.waiting[y]],
                 !.problems = @ \cup S]

\* What waits for S is dropped with whatever waits for that, and so is any other
\* report of the same ids.
ForgetWaiters(w, S) ==
    LET all == HeldFor(w, S)
    IN [y \in Id |-> IF y \in all THEN <<>>
                     ELSE SelectSeq(w[y], LAMBDA i : i.id \notin all)]

\* Fault: a deleted folder is reported without what was in it.
FarewellOfOne(ns, x, S) == {Gone(ns, y) : y \in S \cap {x}}

\* What is beneath a deleted folder is reported as removed with it, packages are not.
Farewell(ns, x, S) == {Gone(ns, y) : y \in {z \in S : ns[z].shape # "Opaque"}}

DeleteIt(t, x) ==
    LET doomed == {x} \cup (IF x \in DOMAIN t.nodes THEN Beneath(t.nodes, x) ELSE {})
        known  == doomed \cap DOMAIN t.nodes
    IN [t EXCEPT !.nodes = Without(@, doomed),
                 !.waiting = ForgetWaiters(@, doomed),
                 !.problems = @ \ doomed,
                 !.root = IF @ = x THEN NoOne ELSE @,
                 !.out = Emit(@, Farewell(t.nodes, x, known))]

Place(t, i) ==
    LET was      == i.id \in DOMAIN t.nodes
        old      == t.nodes[i.id]
        moved    == was /\ (old.parent # i.parent \/ old.name # i.name)
        reshaped == was /\ old.shape # i.shape
        changed  == was /\ (reshaped \/ old.tag # i.tag)
        cleared  == IF reshaped THEN DeleteIt(t, i.id) ELSE t
        ns       == With(cleared.nodes, i.id,
                         [parent |-> i.parent, name |-> i.name, shape |-> i.shape, tag |-> i.tag])
        news     == CASE i.shape = "File" -> {Put(ns, i.id)}
                      [] i.shape = "Folder" /\ (~was \/ moved \/ changed) ->
                            {Put(ns, i.id)} \cup
                                IF moved \/ reshaped THEN CollectDescendants(ns, i.id) ELSE {}
                      [] OTHER -> {}
    IN [cleared EXCEPT !.nodes = ns, !.problems = @ \ {i.id}, !.out = Emit(@, news),
                       !.placed = i.id]

UpsertOne(t, i) ==
    CASE i.name \in BadName -> Refuse(t, i.id)
      [] i.name \notin BadName /\ i.parent \notin DOMAIN t.nodes ->
            [t EXCEPT !.waiting[i.parent] = Append(@, i)]
      [] i.name \notin BadName /\ i.parent \in DOMAIN t.nodes
            /\ (t.nodes[i.parent].shape = "File" \/ WouldCycle(t.nodes, i.id, i.parent)) ->
            Refuse(t, i.id)
      [] OTHER -> Place(t, i)

RootOne(t, x) ==
    IF t.root \notin {NoOne, x} THEN [t EXCEPT !.problems = @ \cup {x}]
    ELSE LET ns == With(t.nodes, x, [parent |-> NoOne, name |-> NoOne,
                                     shape |-> "Folder", tag |-> NoOne])
         IN [t EXCEPT !.root = x, !.nodes = ns, !.out = Emit(@, {Put(ns, x)}), !.placed = x]

ApplyOne(t, i) ==
    CASE i.op = "Root" -> RootOne(t, i.id)
      [] i.op = "Upsert" -> UpsertOne(t, i)
      [] i.op = "Delete" -> DeleteIt(t, i.id)

\* The work is a stack: what an item unblocks is taken from its end.
RECURSIVE Work(_, _)
Work(t, stack) ==
    IF stack = <<>> THEN t
    ELSE LET u == ApplyOne([t EXCEPT !.placed = NoOne], Last(stack))
             freed == IF u.placed = NoOne THEN <<>> ELSE u.waiting[u.placed]
             v == IF u.placed = NoOne THEN u ELSE [u EXCEPT !.waiting[u.placed] = <<>>]
         IN Work(v, Front(stack) \o freed)

Apply(t, i) == Work([t EXCEPT !.out = {}], <<i>>)

-----------------------------------------------------------------------------
(* Persisting it.                                                          *)

Fresh == [nodes |-> Empty, root |-> NoOne, waiting |-> [x \in Id |-> <<>>],
          problems |-> {}, out |-> {}, placed |-> NoOne]

RECURSIVE Breadth(_, _)
Breadth(ns, queue) ==
    IF queue = <<>> THEN <<>>
    ELSE LET kids == SetToSeq(Children(ns, Head(queue)))
         IN [k \in 1 .. Len(kids) |->
                [op |-> "Upsert", id |-> kids[k], parent |-> Head(queue),
                 name |-> ns[kids[k]].name, shape |-> ns[kids[k]].shape,
                 tag |-> ns[kids[k]].tag]]
            \o Breadth(ns, Tail(queue) \o kids)

Snapshot(ns, r) ==
    IF r = NoOne THEN <<>> ELSE <<[op |-> "Root", id |-> r]>> \o Breadth(ns, <<r>>)

RECURSIVE Restored(_, _)
Restored(t, items) == IF items = <<>> THEN t ELSE Restored(Apply(t, Head(items)), Tail(items))

Restore(items) == [Restored(Fresh, items) EXCEPT !.problems = {}]

-----------------------------------------------------------------------------
(* The receiver.                                                           *)

\* Removals come first in a batch.
Receive(m, out) ==
    LET kept == Without(m, {c.id : c \in {d \in out : d.class \in {"Removed", "FolderRemoved"}}})
        puts == {c \in out : c.class \in {"Upserted", "FolderUpserted"}}
        of(x) == {c \in puts : c.id = x}
    IN [x \in DOMAIN kept \cup {c.id : c \in puts} |->
            IF of(x) = {} THEN kept[x]
            ELSE LET c == CHOOSE c \in of(x) : TRUE
                 IN [path |-> c.path, class |-> c.class, tag |-> c.tag]]

HeldItems(w) == UNION {Range(w[p]) : p \in Id}

=============================================================================

# A TLA+ development of HydrationAPI

This directory holds TLA+ specifications of HydrationAPI, the TLC configurations
that check them on small instances, and TLAPS proofs of the properties that
matter most. Paths such as `daemon.rs:544` are relative to the crate named in
the text; `hydrationd`, `hydration-protocol`, `hydration-client` and
`hydration-graph` are under `src/crates/`.

## 1. The system

HydrationAPI puts a cloud folder on a Linux filesystem. A file that has not been
downloaded is a **placeholder**: its real size, no blocks on disk, an extended
attribute that marks it. A privileged **helper** (`hydrationd`) holds a fanotify
group with a pre-content mark on the mount: a process that reads a placeholder is
blocked in the kernel until the helper has filled the range it asked for and
answers. The helper has no credentials and no network. An unprivileged **sync
daemon** (`hydration-client`, with a provider such as `hydration-graph`) has them:
it streams content to the helper over one Unix socket, is told over the same
socket which files were edited, uploads edits, applies the cloud's changes to the
folder, and gives space back.

```
   reader --read(2)--> kernel --event--> helper worker <--shared page--> helper supervisor
                                            |  ^  |
                                     fetch thread  reporter (notify events)
                                            |  ^  |
                                       Unix socket: fetch requests, chunks, changed files
                                            v  |  v
                          sync daemon: serve | upload | delta | eviction | status
                                            |
                                     provider (Microsoft Graph)
```

### 1.1 Components, their state, and how they meet

| component | state it keeps | operations | interacts with |
|---|---|---|---|
| helper: supervisor (`bin/hydrationd.rs`, `supervisor.rs`) | the group's descriptor, identity of the marked mount, a page shared with the worker (slot, beat) | watch the worker, take over, kill, deny the slot, detach, drain, exit | kernel (permission events), worker (slot), systemd (restart) |
| helper: worker (`daemon.rs`, `fanotify.rs`) | a batch of events, the slot, limits, failure log | read events, decide, fill, answer, give up | supervisor, fetch thread, files |
| helper: hydration of a file (`daemon.rs`, `placeholder.rs`, `partial.rs`) | file: blocks, mark, stamp, backup flag; worker: record of ranges filled; kernel: ignore mark | fill a demand with readahead, roll back, record, settle, unmark, abandon | readers, writers, fetch thread |
| helper: fetch wedge and reconnection (`daemon.rs` Timed, `remote.rs`) | counters of misses, abandoned transfers, lost connections; give-up clock; two channels; connection | send, wait, abandon, deny at once, reconnect, retry, heal | worker, daemon, reporter |
| helper: change reporting (`watch.rs`, `report.rs`) | set of dirty files, "something was lost" flag | poll events, coalesce, send a batch, ask for a resync | kernel notify group, daemon |
| helper: eviction (`evict.rs`), policy (`policy.rs`), exposure and self-check | none that persists | punch a file; decide about a cgroup; diagnose | files |
| protocol (`hydration-protocol`) | a connection: shared writer, one reader | encode, stream a body, replace the connection; stamps; mount identity | both processes |
| client: change intake and upload (`lib.rs`, `upload.rs`) | queue of pending objects with debounce and backoff, resync flag | touch, take due, upload, finish, fail | helper, provider |
| client: daemon loop (`daemon_loop.rs`) | threads for upload, delta, eviction, status; generation; watchers | accept one connection, propagate renames, removals, folders; ceiling on removals | all of the client |
| client: removals (`removals.rs`) | inotify watches, halves of moves, settling batch | read, pair halves, settle | daemon loop |
| client: delta (`delta.rs`, `place.rs`, `namespace.rs`) | tree of remote items, pending changes | resolve items to changes, apply them, place placeholders atomically | folder, provider, upload queue |
| client: store, lineage, manifest | object identity and versions as attributes on files; index rebuilt by walking | look up, adopt, rename, forget | upload, delta |
| client: eviction and pins (`reclaim.rs`, `evict_policy.rs`) | none that persists | plan, swap a hydrated file for a placeholder | folder |
| provider: Graph (`hydration-graph`) | delta token and tree on disk, single-flight OAuth token cache, prefetched pages | page through a delta, commit, refresh, retry | client |
| deployment, conformance, adapters, probes | — | units, tests, examples, kernel measurements | — |

### 1.2 What is hard, and what makes each part correct

*Supervision.* A permission event answered by nobody blocks its reader for ever;
the last descriptor of the group closing lets every blocked reader through, to
zeros. So: nobody is handed zeros while the supervisor lives, and by its exit only those it
could not see or not answer; after a takeover
nobody is left behind that any process could have answered; readers are released
and takeovers end. Interleavings: a crash between any two steps of the worker, a
worker that comes back to life as it is being killed, a mount replaced under the
mark, two descriptor tables that use the same numbers.

*Hydration.* The mark is all that stands between a hole and a reader. So: the
mark goes only from a file with every block; what is counted as present is
present; nobody is let through to a block that is not there; nothing writes into
the file after the mark has gone. Hard: transfers that were given up and go on
writing, spans that fail with or without readahead in them, holes that cannot be
punched, writers the worker does not see, restarts.

*Wedge and reconnection.* The worker must neither hold a reader on a fetcher that
will not answer, nor condemn one that would. Hard: replies to transfers nobody
waits for, a transfer asked for a second time on another connection while the
worker counts the first, a full channel, a daemon that is restarted, slow, absent
or somebody else, counters zeroed by evidence of life.

*Change reporting and upload.* Every local edit reaches the cloud, or is
overtaken by a later one: notifications may overflow, batches may be lost with
the connection, either process may restart, a file may change, move or vanish
while it is being sent.

*Removals and folders.* A file removed, renamed or moved locally is so in the cloud,
and a folder made locally is made there once, without a mass withdrawal when a
tree becomes unreadable. Hard: halves of a rename in different batches, dropped
events, a name that stands for another inode by the time it is acted on, failures
between creating a folder and recording its identity, restarts.

*Namespace and rounds.* Items arrive by id, in any order, over pages, while they
change again. The stored tree must be one tree, be what the drive holds as far as
the token claims, and every removal must reach the receiver. Hard: a parent after
its children, a parent under its own descendant, a folder deleted before the
report of what has left it, refused and deferred items, a round that fails.

*A pass and its files.* The cloud's changes are applied to a directory that its
user changes at the same time. No bytes the cloud never had may go, no object may
get two names, and a pass may be skipped only when it had nothing to do. Hard:
an index made once and renames that invalidate it, a look at a file and an act
on it, a snapshot of the queue, atomic saves, folders deleted with work in them.

*The feed across crashes.* Tree and token are two files, a batch is applied by the
client and acknowledged by its next request. No change may be skipped and no
deletion lost. Hard: crashes and failed writes between any two of these, expired
tokens, mass deletions.

*The sink.* A write replaces only what it was based on, a deletion takes only what
was seen, what the stamp calls clean is on the drive whole, and an upload ends.
Hard: requests applied and never answered, throttling, sessions that stall or
overlap, another device, saves in the middle.

*Eviction.* Only content the cloud has is given back. Hard: an edit or an open
between the choice and the swap.

*Tokens.* Users of one single-use refresh token refresh it once, keep their distance
from a failing service, and give the credential up on evidence only. Hard:
rotation and its persistence, failures in turn with refusals, a sign-in meanwhile.

*Content.* A fetch delivers the bytes asked for, of one version where one is
promised. Hard: resumption on an object that changed, prefetched windows that come
late, workers that never end.

## 2. Plan

The order is that of how much depends on it. A module that is proved about has no
recursive operator.

| # | modules | what | status |
|---|---|---|---|
| 1 | `Supervision`, `SupervisionProofs` | who answers a blocked reader | checked and proved |
| 2 | `PreContent` (abstract), `Hydration`, `MCHydration`, `HydrationProofs` | filling one file; refines `PreContent` | checked and proved |
| 3 | `Wedge`, `WedgeProofs` | waiting, giving up, reconnecting | checked and proved |
| 4 | `Changes`, `ChangesProofs` | a local edit from the notify queue to the provider | checked and proved |
| 5 | `Sink`, `SinkProofs` | the requests of one upload, rename, removal | checked and proved |
| 6 | `LocalFiles`, `LocalFilesProofs` | one name between pass, eviction, upload and user | checked and proved |
| 7 | `Removals`, `Withdraw` (extends it) | what leaves and enters the tree locally, and what the cloud is told | checked |
| 8 | `Namespace`, `Rounds` (extends it), `MCRounds` | items to changes, over pages and rounds | checked |
| 9 | `Pass`, `MCPass`, `RemoteProofs` | a batch applied to a directory | checked and proved |
| 10 | `DeltaFeed`, `RemoteProofs` | tree, token, batch and cursor across crashes | checked and proved |
| 11 | `Tokens`, `TokensProofs` | the token cache | checked and proved |
| 12 | `Content`, `RemoteProofs` | fetches, windows and resumption | checked and proved |

How the modules divide the system: `Rounds` says what batch a round yields and
takes its commit for one step; `DeltaFeed` takes the tree for a set of files and
splits the commit into its writes; `Pass` applies one batch and takes the judgement
of a file for one step; `LocalFiles` takes one name and splits that judgement from
the act. `Changes` takes a send for one step and `Sink` makes it requests. In `Wedge`
the daemon delivers chunks or does not; `Content` is where they come from. `Order`, which
`Pass` and `Content` extend, is the sequence of what belongs to a set of numbers.

Open: an abstract register that `Sink` implements for the object under one name; a
second level of folders in `Removals`.

## 3. The modules and the code

### 3.1 Supervision

One action per step of the worker's loop (`daemon.rs:1383-1459`, `842-906`), of the
supervisor's (`bin/hydrationd.rs:381-559`, `supervisor.rs:249-360`), of the readers
and of whoever mounts things.

| in the model | in the code |
|---|---|
| `queue`, `fdOf` | the kernel's queue of permission events; the descriptor number under which one was delivered |
| `batch`, `slot`, `wpc` | the buffer one read of the group returned; `InFlight` in the shared page; the point in `Worker::run`/`handle` |
| `child` | the process: running, stuck so that the beat stops, or dead |
| `known`, `mounts` | `MOUNT_CHECK_EVERY`: the identity of the marked mount, and what the path leads to |
| `sup`, `verdict`, `faulty` | the supervisor's position (`drain`, then `silent` after the last look of a quiet window), `Drained::Quiet` or `StillBusy`, and "the group cannot be read or written" |
| `unheard`, `late`, `reach` | history: readers whose answer could not be written; who asked after the last look; who may read on the marked mount once the supervisor has gone |

`Respond` answers by number, as the kernel does, and may fail (`daemon.rs:897-904`);
`DrainDeny` models that the supervisor's own reads get numbers from another table than
the dead worker's, so the two can coincide. `FailsClosed` is about the step in which a
reader is handed zeros and says who it can be (`LetThrough`): that a drain which looked
once would leave others is what its mutant shows. A worker killed while in uninterruptible I/O, which keeps
its copy of the group past the kill, is outside the model.

### 3.2 PreContent and Hydration

`Hydration` is `decide_and_fill` (`daemon.rs:908-1265`) and `fill_failed`
(`1308-1337`) step by step, for the events of several processes on one file, with
the fetch thread (`385-439`) as a process of its own.

| in the model | in the code |
|---|---|
| `disk`, `marked`, `stamped` | the file's blocks and where they came from; the placeholder attribute; "the file is as its stamp says" |
| `ignored` | the group's ignore mark on the file (`fanotify.rs:158-188`) |
| `vouched` | `Partial`'s ranges for the file while its witness still matches, `{}` otherwise |
| `have`, `todo`, `span` | the local `Ranges`, what is still missing of the widened demand, the span under way |
| `jobs` | transfers the thread has not ended, each with what is left to write and whether the worker still waits |
| `status`, `op`, `demand` | the processes' system calls |
| `helper`, `watched` | the worker up, dead under a supervisor that drains, or the group closed; the processes on a mount that has the group's mark |

`Widened` and `FirstRun` translate the readahead and `Ranges::missing`. Every
rollback is a `TryPunch`, which may fail and then leaves file and times alone.
Times are abstracted to the two comparisons made with them; equal times of two
writes inside one clock tick are outside the model. `PreContent` is the promise:
while a file is marked its content may come and go, nobody is let through to a
block that is not there, and the mark goes only from a file without holes. It ends for
a process when the group closes (`Close`, `Promise!Leave`): whoever the takeover has not
denied goes on to what is there, batch mates of the dead worker's event among them, and
its descriptor stays unwatched until it opens the file again. Which readers these can
be is `FailsClosed` in `Supervision`; here it can be any.
The wedge counters appear only as "a transfer may be refused at once".
Eviction of the file is not in the module.

### 3.3 Wedge

`Timed` (`daemon.rs:300-676`) and `SocketFetch` (`remote.rs:151-425`).

| in the model | in the code |
|---|---|
| `missed`, `abandoned`, `lost`, `since` | the fields of `Timed`; the counters stop at `WEDGED_AFTER`, past which nothing distinguishes them |
| `old` | `since.elapsed() >= WEDGED_LIMIT` |
| `req`, `replies` | the two channels; an entry is *live* as long as its sequence number is the one awaited |
| `tpc`, `mine`, `sent`, `retried`, `outcome` | the thread inside `fetch_into`, `revive` or `reconnect`, or blocked in a send |
| `dead`, `knocked`, `knocks` | `SocketFetch::dead`, `knocked`, and the attempts left in the window |
| `peerLost` | the flag the reporter raises and the idle thread takes |
| `peer`, `link` | the daemon at the socket, and whether the connection leads to it |
| `last` | history: how the last event ended |

Timing assumptions taken from the code: a window of attempts is shorter than the
wait for a first byte (`remote.rs:130-136`), so a deadline expires only on a daemon
that is there and slow; the total is longer than the wait for the first byte, so
`TooLong` follows some progress. Of more than `MaxQueue` requests not yet taken,
the oldest, which nobody waits for, are left out.

### 3.4 Changes

The way of an edit, with everything that can fail on it: `watch.rs:109-176` and
`report.rs` (drainer, sender), `Notifier::send` and `replace` (`transport.rs`),
`Daemon::serve` (`lib.rs:237-322`), the upload thread (`daemon_loop.rs:1045-1181`),
`Queue` and `run_upload` (`upload.rs`), `Store::scan` and `lookup` (`store.rs`).

| in the model | in the code |
|---|---|
| `ver`, `present`, `stamp`, `id` | the file: its content, whether it exists, what its stamp describes, its cloud id |
| `queue`, `over` | the notify group: one event per inode, and the overflow marker |
| `dirty`, `lost` / `batch`, `admit` | `Dirty::files`, `Dirty::lost` / what the sender has taken out of them |
| `conn`, `wire`, `peerLost` | the socket, connected, accepted or gone; what is in it; the flag that makes the fetch thread reconnect |
| `resync`, `waiting` | the daemon's flag, `Queue::waiting` |
| `at`, `cur`, `obs`, `todo`, `index` | the upload thread: its place, the file in hand and the state observed before the send, the batch that came due, `Store::index` |
| `missed` | history: an edit was let go of, and where |

A file is an inode and its content a number; `cloud` is external, the version the
provider has been given. Renaming a file takes it out of `index`, since `lookup`
re-verifies the path; the next scan brings it back. The filter by pid leaves
user's writes only, so closed and modified events are not told apart.

### 3.5 Sink

`GraphSink` (`hydration-graph/src/lib.rs:3257-4613`) request by request, under
`run_upload` (`upload.rs:414-576`). An action is one request and all the sink does
with its answer, up to the next one.

| in the model | in the code |
|---|---|
| `drive`, `folder` | external: the object under the name with its tag and its body in two fragments, the upload session; a folder, its tag and its children |
| `file`, `attrs` | the local file: inode and content; its id, tag and stamp |
| `known` | `GraphSink::known` |
| `pc`, `attempt` | the request being made, and `call`'s count of tries |
| `job`, `fd` | `run_upload`'s observation before the send; the file as opened, its `Snapshot` |
| `xfer` | the locals of `transfer`: next range, fragments sent, stalls, faults, whether the tag was read back |
| `seen`, `done` | the tag last read; `Uploaded`, whose tag may be none |
| `lent` | history: tags of another device's versions that were read back as the sink's own |

Every request may be applied and answered, refused, throttled, or answered by
nobody whether it was applied or not (`Ask`, `Reconcile`). The answer to a write names
the tag, or does not and the tag is read back in a request of its own (`Settle`,
`ReadBack`, `lib.rs:3600-3632`), which may fail, find none, or find a version another
device has written since. The session may take a fragment without advancing, or ask
for an earlier range.

### 3.6 LocalFiles

One name and the three threads that may take away what is under it.

| in the model | in the code |
|---|---|
| `file`, `at`, `scratch`, `hidden` | inodes with content, mark, stamp, id and tag; the one under the name; exchanged out; preserved under scratch names (`place.rs:392-604`) |
| `record` | `lineage.rs`: what gives an atomically saved file its identity back (`Absorbed`) |
| `waiting`, `sending` | `Queue` (`upload.rs`) |
| `dAt`, `snap`, `looked` | the delta thread: its snapshot of the queue (`daemon_loop.rs:1397`), its look (`delta.rs:652-759`), its act (`604`, `642`) |
| `eAt`, `eSnap`, `guard`, `own` | the sweep: snapshot (`daemon_loop.rs:1571`), `ReplacementGuard` (`reclaim.rs:99-156`), exchange, comparison, drop or restore (`place.rs:392-561`) |
| `uAt`, `job`, `base`, `observed`, `uploaded` | `run_upload`: the file is begun, the request `sent` and answered, the name looked up (`found` or `gone`, `upload.rs:480-541`), id and tag written (`named`; the two writes of `adopt_cloud_id` are one step), the stamp (`upload.rs:569`) |
| `basis`, `unsent`, `last` | history: what each content was written over, and which the drive never had |
| `strayed`, `late`, `crossed` | history: contents stamped for an upload that read another file; an upload has landed since the pass took its batch; two threads have come between each other (§6) |

### 3.7 Removals and Withdraw

`Removals` is the watch (`removals.rs:97-474`): the kernel's queue of inotify events,
cut into batches anywhere, dropped once; `Take` pairs the halves of moves and
settles them. `Withdraw` is the upload thread (`daemon_loop.rs:971-1268`,
`1800-2488`, `915-928`) with what is written on files and directories.

| in the model | in the code |
|---|---|
| `at`, `in`, `cid` | where folders and files lie; the identity attribute of a folder |
| `watched`, `queue`, `over`, `half` | the kernel's side; `half` is a rename whose second event is not queued yet |
| `dirs`, `records`, `pending` | `Removals::dirs`, `folder_records`, `pending_moves` |
| `up`, `fid`, `recent`, `journal` | objects in the cloud; identities on files; `recent`; lineage and manifest as the journal read at the start |
| `step`, `leaving`, `stale` | where the loop is in its turn; what is still to be withdrawn of a batch or of a stop; whether a helper has connected since the watch was begun |
| `cloudDir`, `made`, `committed`, `parked` | folders in the cloud; `folders_pending`; `folders_committed`; renames and removals kept for later |
| `rooted`, `unseen` | whether the root has its identity; history: the folders whose coming was thrown away with a watch |

One turn of the loop is `Seed` and `Resync` (the walks for folders), `Upload`,
`RefreshFolders`, `Drain` (the take), `Withdrawing` once for each file that left,
`ReplaceWatch` if a helper has connected, `ApplyRename` once for each folder,
`ApplyFolderRemovals` and the creates; the user, the kernel and the other threads act
between any two. `Restart` is the comparison with what was recorded
(`detect_offline_removals`), in which a directory that cannot be read is passed over; its
requests are `Withdrawing` too, and `BeginWatch` comes after the last. What is to be
withdrawn carries, as history, why: it left, or the path stands for another file
(`other`), or it is back (`back`), or it could not be read (`hidden`).

### 3.8 Namespace and Rounds

`Namespace` is the tracker (`namespace.rs`) as a function of its state: `Apply` on
a list of items with everything it calls, `Snapshot` and `Restore`. `Rounds` feeds it:
`Page` is one page through `map_page`, `map_item` and `feed`
(`lib.rs:956-1488`), `Withhold` and `Commit` are the ends of a round
(`lib.rs:2234-2758`). `drive`, `news` and `owed` are external: an item is
reported as it is when the page is made, in any order, and again if it changes
afterwards. `mirror` is a receiver that sees nothing but the batches.

### 3.9 Pass

`apply_remembering` (`delta.rs:366-911`) change by change on a directory of files
and folders two names deep, with a user between any two changes and a pass that may stop.
`files` and `folders` are the two indexes made at the start; `verdict` is
`Applied`; `seen` is what a remembered pass leaves; `batch` is one of `Batches`: what has
gone, then what there is, each in the provider's order (`namespace.rs:729-752`,
`lib.rs:2617`), stated as the sequences of the changes in which an earlier one comes
before a later. `Chains` are the ways from the root to an object, of which there is one; its
path is the names along it. A file is an identity, a tag and the set of the user's acts whose
bytes are in it. `tangled` and `dirs` are history. `tangled`: in a pass, a folder that was
renamed has taken along an object whose turn was still to come, to where that is not listed
(`Strays`), or the user has moved something. `dirs`: the directories there were when a pass
was last remembered.

### 3.10 DeltaFeed

`GraphDiscover` (`lib.rs:2007-2652`) with its two files, and the delta thread
(`daemon_loop.rs:1342-1513`). `tree`/`treeGen` and `token`/`tokenGen` are the files with
the generation that binds them, `pend` what is kept until the next request
acknowledges it, `served` and `lastIn` what is served again. The service is
external: a log in which a token is a position, with expiry at `floor`. The drive was
synced once or never (`Init`). `Crash`, `SaveFails`, `FetchFails` and `PassStops` may strike
at any point of a round, and a restart may find the tree file gone, cut short or of another
drive, beside a token that is still there (`LoseTree`, `StoredView::nothing`).

### 3.11 Tokens

`TokenCache` (`auth.rs:727-1401`). The variables of `cache` are the fields of
`State`; `lock` is its mutex, held across the request (`Post` to `Finish`);
`attempts` and `observed` are read without it. `Begin`, `Poll`, `SignIn` are the sign-in
with a device code, `Persist` the credential store, which may fail. What a reply
is taken for (`OauthError`, `Reading`) is enumerated.

### 3.12 Content

`GraphProvider::fetch` and `Prefetcher` (`access.rs`), `download_span`, `resume_copy`
and `validate_content_range` (`http.rs:826-1107`). `pc`, `ask`, `got`, `retries`,
`slept`, `sum` are the fetch, `inflight` and `done` the ledger, `queue` and `job`
the pool. A response carries the version current when it was asked for, and
`remembered` locations may serve it.

## 4. Runs

`MCHydration`, `MCRounds` and `MCPass` add symmetry and the values a `.cfg` cannot
write; every constant is given in the `.cfg`.

| run | question | instance |
|---|---|---|
| `supervision` | who can be handed zeros, who can be stranded, readers are released, takeovers end | 3 readers, 2 numbers, buffer of 2: a batch with a mate and one more queued reader, numbers that collide |
| `hydration` | the mark, the count, late transfers; implements `PreContent`; every access is answered | 2 blocks, readahead 2, 2 processes, 2 transfers: a demand with readahead, one abandoned transfer under a live one |
| `wedge` | nobody waits for nothing; readers are served again; a mount that cannot be served comes down | 2 misses wedge, 2 chunks, reply channel of 1, 2 attempts, 2 queued requests |
| `changes` | is any edit forgotten, is a file called clean that is not, does every edit arrive | 2 files, 2 writes, 1 trouble, 1 message in the socket |
| `sink` | what a write and a deletion may take away; does an upload end | 2 tries, 2 faults, 2 stalls, 2 saves, 1 write by another device, files of two fragments |
| `local_files` | does any of three threads take away what only this machine has, or write over what it has not seen | 4 inodes, 3 contents, 2 objects, 2 turns of any thread |
| `delta_feed` | tree, token, folder and drive across crashes | 2 files, 3 log entries, 2 troubles (a lost tree is one), 1 deletion before the brake; a drive never synced starts with 1 entry |
| `rounds` | is the stored tree one, does it follow the drive, does the receiver follow it | root and 3 items, 2 changes or expiries, pages of 2, depth 3 |
| `pass` | are the user's bytes kept, identities single, skips harmless | 3 objects, of which 2 change at once, 2 names, 1 round, 1 local act |
| `withdraw` | is every departure reported, a folder made once, nothing withdrawn that is there | 2 folders, 2 files (at first one of them, or one folder), 2 names, 2 changes, 1 loss or restart, of the daemon or its helper; ceiling 1 |
| `tokens` | is the credential given up on evidence only, the service spared | 2 callers, 4 calls, 2 refusals, 3 ticks, 1 restart |
| `content` | is what is delivered what was asked for, does a fetch end | 2 objects (one hashed), 3 blocks and a longer version, windows of 2, 1 worker, 1 retry |

Why the bounds are enough: each is the smallest at which the interesting case happens,
and one more of the same adds interleavings of cases already there. Two batch mates and
a queued third; an abandoned transfer beneath a live one; a counter that passes through
a value that is neither zero nor the limit; a second file behind the one in hand, and
one trouble at each step. For `sink`: a save before, during and after a transfer whose
last fragment differs from its first. For `local_files`: an inode under the name, one
saved over it, one exchanged out and the placeholder. `NoBlindOverwrite` fails in it
without the exception for `crossed`; `SeenIsKept` and `EvictedIsSent` fail without the one
for `strayed` with one turn more (3 inodes, 2 contents, 3 turns: 17,772,325 states), and
with the exceptions all three hold there too. For `delta_feed`: a
trouble in one round and a second while the first is made good. For `rounds`: a folder
in a folder in the root, with something that leaves it while it goes; pages are full but
the last, since a short page adds only a different cut, and a drive starts with at least
3 items, so that the changes are spent on a tree that has something to move. For `pass`:
an exchange of two names, a folder renamed with something in it, and a third object in
the way. All three properties were found to hold too with two objects, 2 rounds and 2 local
acts (2,648,466 states), two objects and 3 rounds (654,217), and three objects of which one
changes, with 2 rounds (1,285,519). For `withdraw`: two names a folder can exchange, two files of which one has
the path of the other, or is one more than the ceiling, and one event lost or one restart
at each step (2,301,503 states). All four properties were found to hold too with both
files and both folders at first, a loss and a restart in one behaviour and a helper that
connects besides (17,360,312 states). For `tokens`: two callers that wait for one refresh, time for a
backoff to grow twice. For `content`: a window that is followed by another, a last one
that is short, and a resumption across a version that is longer. The proofs of §5 do not
depend on the bounds.

What the instances leave out on purpose:

* `NodumpCanFail = FALSE` in `hydration`: with it `UnmarkedIsWhole` fails (§6).
* `Patient = TRUE` in `withdraw`: the user changes a folder, or what is in it, no faster than
  the watch has read of the last change; `Waits` says it for what the daemon does with a folder. Without it the code's answers are
  those of §6. Files may still be made, moved, brought back and deleted under any name, events cut and dropped, requests fail
  and the daemon be restarted at any point.
* `other`, `back`, `hidden` and `unseen` in the properties of `Withdraw` are exceptions of that
  kind too: each is set where the case arises, and without any one of them the run fails. The
  ceiling bounds `hidden`: without it the second part of `WithdrawnIsNotHere` fails.
* `Busy = FALSE` in `withdraw`: no delta pass is running when the tree is walked (§6).
* `tangled` in `OneClaimant` and `SkipsNothing`, `dirs` in `SkipsNothing`, `stale` in `TreeFollowsDrive`, `missed` in `NoGhost` and
  `NothingForgotten`, `strayed` and `crossed` in the properties of `LocalFiles`: the exceptions
  are history variables set where the case arises, so the properties hold of everything else in the same behaviour.
* `unheard`, `late` and `reach` in the properties of `Supervision` are no assumption: they name
  the readers the code lets through or leaves, one by one.

Deadlock is checked in `delta_feed`, `hydration` and `wedge`. It is not in
`supervision`, where the supervisor exits, nor in the others, which are at rest
once their bounds on calls, changes and troubles are spent.

A type invariant is part of a property a run checks (`CleanIsThere`, `SeenIsKept`,
`TokenNotAhead`, `CredentialIsKnown`, `DeliversExactly`, `NeverWaitsForNothing`,
`FolderCreatedOnce`, `TreeSound`), or proved (§5).

### Fairness

* `Supervision`: worker and supervisor are scheduled; `DrainCap` is a clock of its
  own, so it stays fair however busy the queue is. Readers, crashes and stalls are
  not fair.
* `Hydration`: the worker is scheduled and its deadlines pass (`Abandon` is a step
  of the worker); a takeover ends, which is `TakeoverEnds` of `Supervision`. It takes the file's events in the order they were raised, which
  is strong fairness for each process's event. The fetch thread is *not* fair: a
  provider may never answer.
* `Wedge`: worker and thread are scheduled; a daemon that answers in full and in
  time delivers; a slow one need not. `BusySpec` adds readers that keep coming;
  `ComesDown` assumes the clock, and the look at it at the head of the worker's loop.
* `Changes`: drainer, sender, serving thread, accept loop and upload thread are
  scheduled (each is a loop that sleeps or polls with a timeout), a waiting file
  comes due, and systemd restarts the helper. `Reconnect` is fair only once
  `peerLost` is up, which is when the idle fetch thread acts (`daemon.rs:431`).
  Failures are not fair: `MaxTroubles` makes them finitely many, and "every
  edit arrives" is a statement about what happens after the last of them.
* `Sink`: `WF(Step)`: every request is answered or given up by the transport's
  deadlines, whatever the answer is.
* `DeltaFeed`: the delta thread runs for ever with a pause between rounds
  (`daemon_loop.rs:1342`); the fair step is one in which nothing fails, and failures
  are bounded.
* `Content`: the thread that serves a fetch goes on, by its timeouts; nothing is
  asked of the workers.

The other runs check safety only.

## 5. Proofs

Eight modules (`SupervisionProofs`, `HydrationProofs`, `WedgeProofs`, `ChangesProofs`,
`SinkProofs`, `LocalFilesProofs`, `TokensProofs`, and `RemoteProofs` for `DeltaFeed`,
`Content` and `Pass`) are checked by TLAPS from the named assumptions on the constants alone, for
every number of readers, blocks, processes, files, inodes, callers, workers and objects, and every
bound. Each states its inductive invariant (`IInv`; `AInv` in `HydrationProofs`,
`FeedInv`, `ContentInv`, and `PassInv`, `NamesInv` and `SkipInv`, each on the one before, in
`RemoteProofs`) as named parts, shows that it holds at the start, has a lemma for
each action that the action keeps it, and derives the properties from it; TLC has
checked each of them as an invariant first.

**Supervision.** `IInv` says that the worker publishes exactly the head of its batch for
as long as it handles it (`WorkerInv`), that delivered events are those of the batch, one
number to each, but for those whose answer was lost (`DeliveredInv`), that no event is
delivered and queued (`QueueInv`), that nothing of the worker runs once the supervisor has
killed it and nobody else waits under the slot's number once it has been answered
(`TakeoverInv`), that who waits is on the marked mount and is queued or delivered
(`WaitingInv`), that a drain which saw nobody has nobody queued but who asked since, unless
the group failed (`DrainInv`), and that a marked mount taken away has no readers but those
of before (`ReachInv`). `LeftBehind` puts these together: who is blocked when the group closes
is one of `LetThrough`; `WhoGetsZeros` finds the two steps that hand out zeros. `TypeCorrect`,
`Closed` and `Stranded` follow.

**Hydration.** `AInv` adds to the four safety invariants that what is being
transferred is not counted (`DisjointInv`), that only the last transfer can be
waited for and what it no longer owes is on disk (`JobsInv`), that the whole file
is counted only with the fetch thread at rest (`WholeInv`: this is why no late
write follows the mark's removal), and that demand is covered by what is here and
what is to come, with readahead after it (`DemandInv`, `CoverInv`: this is why
dropping failed readahead may drop all that is left). `Whole`, `Counted`,
`NoGhost`, `TypeCorrect` and `Refines` follow; the closing of the group is the promise's
`Leave`, every other step lets through only to what is there. All are proved under
`~NodumpCanFail`; with it `UnmarkedIsWhole` does not hold (§6).

**Changes.** `NothingForgotten` and `CleanIsSent` are proved together. What they need: a
stamp never describes a version newer than the file (`StampsBehind`, because it is
observed before the send); the upload thread's observation is no newer than the file,
and if it still is the file as it stands, the cloud has it (`JobSound`: this is why a
stamp from before the send never blesses a later edit); and a file in hand whose content
has moved on since it was observed is announced again or found by a walk that is due
(`JobHeld`). Each action then either leaves a file with the holder it had or hands it to
the next one, and each failure raises `lost`, `peerLost`, `resync` or `missed`.
`TypeCorrect`, `Clean` and `Remembered` follow.

**Wedge.** A worker that waits has one transfer, and it is in one place: asked for, in the
thread's hands, or among the replies (`OneTransfer`); and one of these it is (`Awaited`). That no
whole transfer is refused as short takes the order of the replies: each chunk is reported
before the next is read and all of them before the end (`InStep`), so that whoever takes the end
has heard of every chunk, of this transfer and not of an older one, whose replies carry
another number. `Waits` follows.

**Sink.** Tags and objects in use were given out before (`Bounded`), so a new one collides with
nothing; there is an object for each time there was none, paid for by a save, another device
or an abandoned request (`Objects`). A stamp is of the inode that was sent (`Stamped`); of
what was uploaded neither the sink nor the file knows another tag that the object may be
at (`Settled`), which gives `Deletions`. The last fragment of an update goes only after the tag
was read back, into a session for the object it was based on (`Transfers`), which gives
`Conditional`. As long as the file is as it was seen, all that was read of it is what was seen,
in either fragment, in the session and at the end on the drive, or what is there is at a tag
that was lent (`Whole`): the stamp is written when that holds, and `CleanFiles` follows. An
upload whose answer brings no tag leaves the file with its former one, and so does one that
only the sink knows of: the same has to hold of a clean file under the tag the sink knows
(`CleanAsKnown`), because a rename is made under that.

**LocalFiles.** *Owed* is what the drive never had and no stamp has been given for. A
clean file holds nothing that is owed and a placeholder holds nothing (`FilesSound`),
and what a thread saw, if it is still what it finds, is not owed (`Truthful` for the
pass and the upload, `Approved` for the sweep): an edit makes a content that was not
there before, so it is never one that was approved. `Seen` and `Evicted` follow, with
what each step can take out of the names (`Perishes`). For `Overwrites`, `Descends` says
of every version a request may name (of the record, of the file, of the upload in hand)
that it was written over by what is on the drive and by what is shown here, if it is of
the object there is; and of a batch, that what it brings was written over what is here,
unless an upload has landed since. `Gone` says that a removal is applied to a name whose
recorded object is gone. `Sent` and `Holding` say of the steps after the answer that what
the drive answered is what it took, or lies before what it has now, and that what has the
name between the lookup and the writes was written over it, unless `crossed`; `Truthful`
also needs that content which is owed is in one file only, since the upload reads the
path and not the inode.

**DeltaFeed.** Positions only grow from the token on disk to the end of the log
(`Ordered`); what is not rewritten by a commit did not change and is there (`Staged`); the
tree on disk, if there is one beside a token, the one to be written and the one in the making each say what the drive did last
up to their token (`TreesSound`). `Feed` follows. For `Deletions_arrive`, the cursor of
the daemon is that of the last batch or of the one before it, and which of them says
whether the batch is still to be committed (`CursorsAgree`: two batches in a row never
have the same cursor; that no cursor is `NoCursor` is an assumption); a file that is
expected in the folder is in a tree, and if the next tree has not got it, in the
removals of a batch that is not accepted until they are done (`Recorded`).

**Tokens.** `CredentialIsKnown` needs two facts more: the refusals the cache counts are
those there were since the last success or sign-in (`Counted`), and whoever has the lock
posted while the credential stood (`Standing`): a refusal on top of the last one is
therefore impossible, and the count stays within `MaxRejections`. Each outcome is taken
in by `ClearFailures` or `NoteFailure`, followed by `Publish`, and `Persist` leaves the
disk as the credential or the error set. `Known` follows. For `Spared` (`Sparing`): a
caller that waited through an attempt finds its failure, or the attempt is about to be
taken in (`Missing`); the wait is counted from the last request, whoever makes it
(`Distant`); and who refreshes holds a report of the token there is, while those given
up before are older (`Newest`). The doubling of the wait is a power of two, of which the
provers know only what the library says of the number of subsets of a set; `BackoffIs`
takes it from there, with a ceiling of 2 steps or more (60 in `auth.rs:762-770`).

**Content.** What a fetch has written follows on from the first block it was asked for,
and where the version is read before and after, nothing of it is older than the one
promised (`Written`): versions only grow, so the one read last tells what every block
was. A whole file with a hash is not finished without comparing it (`Arms`), and a window
of a walk is never a whole file, so what the pool fetched is held to no version.
`Delivers` follows. For `Walks` the fetch that waits has abandoned every other object's
windows (`Walking`), and what is hinted is the walk's own: as many windows as the ledger
has room for, each with its job. That takes counting: the jobs are the windows taken, in
their order, none left out (`InOrderLists`, from `RankHits`), and no more than there is
room (`FirstOnes`).

**Pass.** A directory is *whole* when only files hold bytes and whatever lies above
something is a folder (`TreeOK`). In a whole directory nothing that a change replaces or
puts away can hold bytes but the entry itself, and the guards of the code look at that
entry: a folder goes only when nothing is beneath it, a file only when it holds no work
(`PlaceKeeps`, `RemoveFileKeeps`, `RemoveFolderKeeps`). A rename is the case that needs work:
what moves keeps its place relative to the directory moved (`ToIs`, `ToAncestors`), so two
entries never meet (`ToOnce`), and it meets nothing that was there, since the new name
was free and what is beneath a free name in a whole directory is nothing (`RenameKeeps`). So
each change keeps the directory whole and the bytes in it the same (`ApplyOneKeeps`),
wherever the pass stops. What the changes say is no more than that each is about an
object and has a path (`BatchIs`, `CoalesceIs`: the index may be as stale as it likes). At the start
the directory is the listing's: whole because there is one way down to an object
(`OneChain`), siblings differ, so paths do (`PathsDiffer`), and the paths above an object's
are those of the folders it is in (`AboveIsFolder`); each is shown at the first place
where it would fail. Assumed is that the objects are finitely many. `Keeps_work` follows.

`One_claimant` rests on where the objects still to come are: each is where it is listed, or
where the index has it, or not there (`Located` in `NamesInv`). So when its turn comes the
code either finds it at its new name or moves it from its old one, and no second file or
directory is given its identity. That needs a batch that speaks of the drive as it is
listed (`BatchDescribes`) and places each object once (`CoalescePutsOnce`), and an object
that keeps its kind (`KindsAgree`). Each change hands names on only as it says it does
(`ApplyOneNames`); a directory that takes others along is the one that can move them away
from where the index has them. Where such an object still has to come, `tangled` is set;
where it has had its turn, it comes to lie at the wrong name but at one only.

`Skips_nothing` follows the pass that is remembered (`SkipInv`). While a pass has done
nothing, the files it has walked are still there, each with an entry in the index, and a
change is done or its turn is to come (`Quiet`): a change that gives no reason to do
anything leaves every file and every directory as it was (`ApplyOneQuiet`), and what it
asked for is so (`HeadDone`). What is done stays done, until the fingerprint tells: the
identities with bytes of the user's behind them are never taken away (`OwnKept`), and a
file that is nobody's is in the fingerprint, unless it was written while the pass ran: then
there are more such files than the pass had walked, and the fingerprint differs
(`DoneStays`, `WriteSkip`). A directory is the one reason that can go without a trace,
which is what `dirs` is for.

Only model-checked: all liveness, since it rests on fairness; and the modules `Removals`,
`Withdraw`, `Namespace` and `Rounds`, which define what they compute by recursion on data
or by a fold over a queue, of which the provers at hand show nothing for every input.
That an ignore mark is set only on a file without the placeholder's mark is part of
`Hydration`'s invariant.

## 6. Where the code and what it says of itself differ

`PROJECT.json` quotes each statement and names the run whose property had to be
stated around it. In short:

*Helper.* A quiet drain can strand the batch mates of the event a dead worker was
handling. A takeover because of a mount put over the marked one detaches that one, by
path, and uncovers the marked mount, without a group. A failure to clear the backup flag punches a file that has lost its mark.
A reader let through to part of a file can copy holes when the next event finds
the record falsified. The stamp is taken from the file as it is after the transfer,
so a write that landed meanwhile reads as clean. The counter of abandoned transfers
is zeroed by every transfer's first byte. A fetch thread held by a full channel
does not heal the connection.

*Intake.* A file that exists and is not in the upload driver's index when its turn
comes is taken for deleted and its edit dropped. `NothingForgotten` names three
more ways an edit is left behind that contradict no statement of the code: a
resync walk that fails after its flag was taken, an object withdrawn because its
file could not be found after the transfer, and a file with a cloud id and no
stamp, which no walk looks for. A file deleted during its upload, whose object then
cannot be removed, is queued again and found gone (`RemovalFails`, then `Lookup`): the
object stays in the drive and the next delta brings the file back, where DESIGN.md §5.5
has the deletion always win.

*Pass.* A folder renamed in the same batch as a child that leaves it makes the index
stale: the child's identity is given to a second directory and deltas stop. The search for
`NamesInv` found another way there: a folder whose rename is refused because another's
directory lies at its new name. Objects that belong in it are moved into that directory,
with what is in them, and go with it when its turn comes; what was in them is placed a second
time. Of the two names the index knows one, so a removal looks at that one only: if it holds
the user's bytes it is kept, nothing is done, the pass is remembered, and the other copy
stays. Deletions found by
an enumeration come parents first, so the folders survive without identity and are
created again. Two objects that swap names refuse each other for ever. The
fingerprint of a tree says nothing of directories, so a file kept out of its place by a
directory of the user's stays out when that directory is moved away. Less than that: a file renamed from
x to y with a new one at x is overwritten by the new one's placeholder and
fetched again by the next batch; a directory in a file's place is passed over
without a word; a file the user moves in mid-pass is placed a second time.

*Namespace and rounds.* The tombstone of a folder takes along what has left it and
is not reported in time; of two reports that wait for one parent the older wins; a
drive with hashes only whose first page has no file never gets past its first round.
Also: an item waiting under an unknown new parent is dropped by its old folder's
tombstone; a folder that turns into a file in a later round deletes its children,
the round's index being new; children of a refused folder that arrive later
wait for ever; parent and child exchanged in one page are a cycle or not
according to their order; items hidden in a package keep the receiver's old files.

*Feed.* A batch applied and not yet written down is forgotten by a crash; a file it
placed and the drive then loses, with the token expired, stays for ever. So does what
was in the folder when the tree was lost and the drive had not any more by the time of the
next one (`missed` is `lost` until then): an enumeration reports no deletion without a tree
to compare with, as `lib.rs:2042-2047` intends.

*Local files.* Removal and placement spare a file whose stamp says dirty, not one that
has no stamp. An upload that begins after the sweep's snapshot runs while its file is
exchanged for a placeholder, and ends with the object removed. Two more came out of the
search for the invariants of §5. If the file so exchanged is a save made since the sweep
approved the name, the request may read the placeholder, filled, in its place; the sweep
then puts the save back (`restore_target`, `place.rs:576`), and `run_upload` finds the
inode it began with and gives it the tag and the stamp of what it had seen
(`upload.rs:553-570`), though the drive never had that content: the file reads as clean,
and a later pass or sweep may destroy it (`strayed`). In these cases an upload may
replace a version its content was not written over (`crossed`):

* `run_upload` asks the index whether the name is still that file's (`upload.rs:541`), and
  then writes id, tag and stamp by path. `upload.rs:551-552` says that this "writes one
  attribute onto a file that has had the same inode since it was created"; a pass or a
  sweep that changes what has the name in between has its placeholder of another version
  so named. (What the user does there is harmless: what is saved over the file was written
  over the version that was sent.)
* A pass that pulled a version before an upload of the file landed finds the file clean and
  with another tag (`is_current`, `delta.rs:696`) and puts the older version in its place,
  while the record keeps the newer tag; what an editor saves over that goes up under the
  newer tag. The next round brings the newer version back if nothing is saved in between.
* A sweep writes into the placeholder the id and tag it read from the path when it asked
  (`reclaim.rs:156-203`), and exchanges it for what has the name later: a file with another
  tag, or an older one than the record's. When it finds at the comparison that it took
  out what it did not approve, it puts that back, under whatever was recorded since.
* A tag that is read back after the write is another device's (*Sink*, below).

*Sink.* A child that arrives in a folder between the listing and the reading of its
tag is deleted with it. A tag that is read back after a write (`lib.rs:3617-3619`) is that
of the object by then: if another device has written in between, the file is clean under
the id and tag of content it does not hold, no delta will say so, and the next upload of
it replaces that version (`lent`). If it finds none, the file keeps its former tag and the
sink the one it knew, if any; with none, the object of a file that went away is removed
unconditionally (`lib.rs:4440-4450`). If it fails, so does the upload, which has happened.

*Removals.* A path is resolved to the object last sent from it and else to the one last
recorded there: a file deleted and another moved to its name before the lookup has its
own object withdrawn, and what was sent from a path is remembered long after the file has
left it (`recent`, not superseded within a delta round). A file brought back before the
request is withdrawn. A directory that cannot be read at the start counts as empty, and
its files, up to the ceiling, are withdrawn. A folder made between the take and the
replacement of the watch is created after the next restart. With `Patient` set to `FALSE`:
a folder's watch is kept when it moves out; a folder renamed twice, or
deleted and made again, between two drains is taken for another; a folder moved out
and back before the second drain has its object removed; one renamed before it was created is not
created until the next restart; `mv d t; mv e d` mixes up `folder_records`; a refused rename
with a new folder under the old name leaves two folders with one identity; and a
mass deletion spread over several batches stays under the ceiling each time. With `Busy`, the
walk after dropped events is skipped while a pass runs, its flag already taken.

*Content.* A prefetched window is not compared with the version asked for. Waiting
for a window and sleeping between retries add up to more than the budget for the
first byte (`access.rs:186-189`); windows of a former walk hold the ledger until
they end; a resumed whole download goes on from a remembered location.

## 7. Not modelled

For good: the text formats (messages, JSON, status, command line), headers, TLS and
URLs, the start-up checks and diagnostics read from `/proc`, the control socket, the
status and the provider registry, the mount helper, deployment, the conformance
suite, adapters, tests and probes: they keep no state the properties could be
about. Eviction by punching (`evict.rs`) is reached only from the privileged command;
policy is a decision without state and a refusal in `Hydration`.

Of the modelled parts:

* `Supervision`: a worker that survives its kill in uninterruptible I/O.
* `Hydration`: eviction, and two writes inside one clock tick.
* `Changes`: an event batch truncated for want of descriptors (`watch.rs:125-130` sizes
  the buffer so that it is not), the lengths of debounce and backoff, and
  placeholders, which the walk skips and nobody queues. Names that pass from one
  inode to another are in `LocalFiles`.
* `LocalFiles`: which files the sweep prefers, free space, pins.
* `Removals`, `Withdraw`: folders in folders, directories with more than one file,
  hard links, a watch that cannot be begun, the order in which the directories of a new
  watch are walked, and a rename of which two batches are taken between the two halves
  (`half`): the first would be taken for a departure.
* `Namespace`, `Rounds`: the mounts and anchors of other drives, and the order among the changes of a batch,
  which `Pass` has.
* `Pass`: ignore rules, `safe_join` and the checks on names and sizes, and the entry of
  the root itself.
* `DeltaFeed`: failures the service reports without an end.
* `Tokens`: the length of the device poll. `Content`: the writing of state files.

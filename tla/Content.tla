------------------------------- MODULE Content -------------------------------
(***************************************************************************)
(* The provider side of a hydration (GraphProvider, Prefetcher and         *)
(* download_span in hydration-graph/src/access.rs and http.rs): one thread *)
(* serves a fetch at a time, whole or a window of a walk, from an object   *)
(* that keeps changing; a pool of workers fetches the windows it expects   *)
(* next.                                                                   *)
(*                                                                         *)
(* Content is counted in blocks from 0. Two versions of an object differ   *)
(* in every block, so a hash tells them apart. A response carries the      *)
(* version current when it was asked for. Time is counted in steps of      *)
(* PREFETCH_PATIENCE.                                                      *)
(***************************************************************************)
EXTENDS Integers, Sequences, FiniteSets, Order

CONSTANTS
    Object,      \* the objects
    Hashed,      \* those of which the service reports a hash
    None,        \* no object
    Stride,      \* the length of a window
    Size,        \* the size of an object, in blocks, except
    Longer,      \* the version that is one block longer
    MaxVersion,  \* bound: versions of an object
    Depth,       \* PREFETCH_DEPTH: the workers, and the windows ahead
    MaxRetries,  \* MAX_DOWNLOAD_RETRIES
    Budget,      \* FIRST_BYTE_BUDGET
    MaxCalls     \* bound: fetches

ASSUME ContentAssumption ==
    /\ Hashed \subseteq Object /\ None \notin Object
    /\ Size \in Nat \ {0} /\ Stride \in Nat \ {0} /\ MaxVersion \in Nat \ {0} /\ Longer \in Nat /\ Depth \in Nat
    /\ MaxRetries \in Nat /\ Budget \in Nat \ {0} /\ MaxCalls \in Nat

VARIABLES
    version,           \* of each object, the current one
    pc,                \* where the fetch is
    ask,               \* what it was asked for, and the version and tag the placeholder promises
    got,               \* what it has written out: of each block its number and its version
    retries, slept,    \* of resume_copy
    sum,               \* the version whose hash the bytes must have, 0 for none
    outcome,           \* how it ended
    last,              \* last_window: the object, and where the window ended
    remembered,        \* the objects whose content location is remembered
    inflight, done,    \* the ledger: windows being fetched; windows fetched, with what they hold
    queue,             \* the jobs no worker has
    job, since,        \* of each worker: its job, and the version its fetch began with
    calls

reader == <<pc, ask, got, retries, slept, sum, outcome, last, remembered>>
ledger == <<inflight, done>>
pool   == <<queue, job, since>>
cvars   == <<version, reader, ledger, pool, calls>>

Worker == 1 .. Depth
Tag    == {"qx", "ct", "none"}
NoJob  == <<None, 0, 0, 0>>

SizeOf(v)  == IF v = Longer THEN Size + 1 ELSE Size
Total      == SizeOf(ask.expect)
WholeAsked == ask.from = 0 /\ ask.len = Total
Key        == <<ask.o, ask.from, ask.len>>
KeyOf(j)   == <<j[1], j[2], j[3]>>

ContentTypeOK ==
    /\ version \in [Object -> 1 .. MaxVersion]
    /\ pc \in {"idle", "meta", "take", "waiting", "copy", "closing"}
    /\ ask.o \in Object \cup {None} /\ ask.tag \in Tag /\ ask.expect \in 0 .. MaxVersion
    /\ Len(got) <= ask.len /\ retries \in 0 .. MaxRetries /\ slept \in 0 .. Budget - 1
    /\ sum \in {0, ask.expect} /\ outcome \in {"none", "ok", "failed"}
    /\ remembered \subseteq Object
    /\ \A k \in inflight : k[1] \in Object
    /\ \A d \in done : d[1] \notin inflight /\ \A e \in done : d[1] = e[1] => d = e
    /\ Cardinality(inflight) + Cardinality(done) <= Depth + 2
    /\ \A w \in Worker : job[w] = NoJob <=> since[w] = 0
    /\ calls \in 0 .. MaxCalls

-----------------------------------------------------------------------------
(* The service.                                                            *)

\* An object gets a new version.
Change(o) ==
    /\ version[o] < MaxVersion /\ version' = [version EXCEPT ![o] = @ + 1]
    /\ UNCHANGED <<reader, ledger, pool, calls>>

-----------------------------------------------------------------------------
(* The ledger and the pool.                                                *)

\* next_window, as often as the walk looks ahead: the windows of the same length that follow.
Ahead(from, len, size) ==
    LET At(i) == from + i * len
    IN  [i \in 1 .. Depth |-> IF At(i) >= size THEN NoJob
                              ELSE <<ask.o, At(i), IF size - At(i) < len THEN size - At(i) ELSE len, size>>]

\* hint, for each of them: dropped when the ledger has it, or is full.
Hint(Flying, Fetched) ==
    LET ahead  == Ahead(ask.from, ask.len, Total)
        wanted == {i \in 1 .. Depth : /\ ahead[i] # NoJob /\ KeyOf(ahead[i]) \notin Flying
                                      /\ \A d \in Fetched : d[1] # KeyOf(ahead[i])}
        room   == Depth + 2 - Cardinality(Flying) - Cardinality(Fetched)
        taken  == {i \in wanted : Cardinality({j \in wanted : j < i}) < room}
    IN  /\ inflight' = Flying \cup {KeyOf(ahead[i]) : i \in taken} /\ done' = Fetched
        /\ queue' = queue \o InOrder(ahead, taken)

\* A worker takes the oldest job and fetches it.
WorkerBegins(w) ==
    /\ job[w] = NoJob /\ queue # <<>>
    /\ job' = [job EXCEPT ![w] = Head(queue)] /\ queue' = Tail(queue)
    /\ since' = [since EXCEPT ![w] = version[Head(queue)[1]]]
    /\ UNCHANGED <<version, reader, ledger, calls>>

WorkerKeepsErrors(w, v) ==     \* Fault: an error is not taken to the ledger.
    IF v # 0 /\ KeyOf(job[w]) \in inflight
    THEN inflight' = inflight \ {KeyOf(job[w])} /\ done' = done \cup {<<KeyOf(job[w]), v>>}
    ELSE UNCHANGED ledger

\* What it fetched is recorded if the window has not been abandoned meanwhile.
WorkerRecords(w, v) ==
    IF KeyOf(job[w]) \in inflight
    THEN inflight' = inflight \ {KeyOf(job[w])} /\ done' = done \cup {<<KeyOf(job[w]), v>>}
    ELSE UNCHANGED ledger

\* Its fetch ends, with an error (0) or with the window, of a version of the size it was told.
WorkerEnds(w) ==
    /\ job[w] # NoJob
    /\ \E v \in {0} \cup since[w] .. version[job[w][1]] :
          /\ v # 0 => SizeOf(v) = job[w][4]
          /\ WorkerRecords(w, v)
    /\ job' = [job EXCEPT ![w] = NoJob] /\ since' = [since EXCEPT ![w] = 0]
    /\ UNCHANGED <<version, reader, queue, calls>>

-----------------------------------------------------------------------------
(* A fetch begins.                                                         *)

ContentInit ==
    /\ version = [o \in Object |-> 1] /\ pc = "idle"
    /\ ask = [o |-> None, from |-> 0, len |-> 0, tag |-> "none", expect |-> 0]
    /\ got = <<>> /\ retries = 0 /\ slept = 0 /\ sum = 0 /\ outcome = "none"
    /\ last = <<None, 0>> /\ remembered = {}
    /\ inflight = {} /\ done = {} /\ queue = <<>>
    /\ job = [w \in Worker |-> NoJob] /\ since = [w \in Worker |-> 0]
    /\ calls = 0

\* What a reader may demand: the whole, or a window, clipped at the end.
Span(size) == {<<0, size>>} \cup
              {<<f, IF size - f < Stride THEN size - f ELSE Stride>> : f \in 0 .. size - 1}

Sequential == ask'.from = 0 \/ last = <<ask'.o, ask'.from>>

\* The helper demands content; the placeholder it was demanded for may be of an older version.
\* fetch chooses its arm; a window is recognised as part of a walk or is not.
Demand ==
    /\ pc = "idle" /\ calls < MaxCalls /\ calls' = calls + 1
    /\ \E o \in Object, t \in Tag : \E e \in 1 .. version[o] : \E w \in Span(SizeOf(e)) :
          /\ ask' = [o |-> o, from |-> w[1], len |-> w[2], tag |-> t, expect |-> e]
          /\ IF w = <<0, SizeOf(e)>>
             THEN /\ pc' = IF t = "ct" THEN "meta" ELSE "copy"
                  /\ sum' = IF t = "qx" THEN e ELSE 0
                  /\ last' = last
             ELSE /\ pc' = IF Sequential THEN "take" ELSE "copy"
                  /\ sum' = 0 /\ last' = <<o, w[1] + w[2]>>
    /\ got' = <<>> /\ retries' = 0 /\ slept' = 0 /\ outcome' = "none"
    /\ UNCHANGED <<version, remembered, ledger, pool>>

\* fetch returns; what it counted is gone.
End(how) == pc' = "idle" /\ outcome' = how /\ retries' = 0 /\ slept' = 0 /\ sum' = 0

\* quickxor_for before the download: the version must be the one promised; its hash is what the
\* bytes will be held to, if the service reports one.
Meta ==
    /\ pc = "meta"
    /\ \/ End("failed")
       \/ /\ version[ask.o] = ask.expect /\ pc' = "copy"
          /\ sum' = IF ask.o \in Hashed THEN ask.expect ELSE 0
          /\ UNCHANGED <<retries, slept, outcome>>
    /\ UNCHANGED <<version, ask, got, last, remembered, ledger, pool, calls>>

\* take: the windows of every other object are abandoned.
Abandon(o) == [fly |-> {k \in inflight : k[1] = o}, held |-> {d \in done : d[1][1] = o}]

\* The wait is over: the window is served, or the inline path is taken, and either way the windows
\* that follow are hinted.
Leave(fly, held) ==
    LET here == {d \in held : d[1] = Key}
    IN  /\ Hint(fly, held \ here)
        /\ \/ \E d \in here : d[2] # 0 /\ got' = [i \in 1 .. ask.len |-> <<ask.from + i - 1, d[2]>>]
              /\ End("ok")
           \/ here # {} /\ got' = got /\ End("failed")   \* out does not take it
           \/ (\A d \in here : d[2] = 0) /\ pc' = "copy" /\ UNCHANGED <<got, retries, slept, sum, outcome>>
        /\ UNCHANGED <<version, ask, last, remembered, job, since, calls>>

\* take: what is fetched is taken at once, what is being fetched is waited for.
Take ==
    /\ pc = "take"
    /\ LET kept == Abandon(ask.o)
       IN  IF Key \notin kept.fly THEN Leave(kept.fly, kept.held)
           ELSE /\ inflight' = kept.fly /\ done' = kept.held /\ pc' = "waiting"
                /\ UNCHANGED <<version, ask, got, retries, slept, sum, outcome, last, remembered,
                               pool, calls>>

\* A worker has woken it.
Woken == pc = "waiting" /\ Key \notin inflight /\ Leave(inflight, done)

NeverImpatient == FALSE   \* Fault: it waits as long as it takes.

\* PREFETCH_PATIENCE is over.
Impatient == pc = "waiting" /\ Key \in inflight /\ Leave(inflight, done)

-----------------------------------------------------------------------------
(* download_span: attempts, each one request, until all is written.        *)

Ranged == ~ WholeAsked \/ got # <<>>

\* validate_content_range.
GoodRange(a, e, total) ==
    a = ask.from + Len(got) /\ e = ask.from + ask.len - 1 /\ total = Total

\* A remembered location has expired, or refuses: it is forgotten, and Graph is asked instead.
Forget ==
    /\ pc = "copy" /\ Ranged /\ ask.o \in remembered
    /\ remembered' = remembered \ {ask.o}
    /\ UNCHANGED <<version, pc, ask, got, retries, slept, sum, outcome, last, ledger, pool, calls>>

\* Where Graph sends a ranged request is remembered.
Learn == remembered' = IF Ranged THEN remembered \cup {ask.o} ELSE remembered

MayRetry(wait) == retries < MaxRetries /\ slept + wait < Budget

\* resume_copy after an attempt that did not complete.
Again(wait) ==
    IF MayRetry(wait)
    THEN retries' = retries + 1 /\ slept' = slept + wait /\ UNCHANGED <<pc, sum, outcome>>
    ELSE End("failed")

\* All is written: the hash is compared, or the version is read again, or neither.
Complete(bytes) ==
    IF WholeAsked /\ ask.tag = "ct" /\ sum = 0
    THEN pc' = "closing" /\ UNCHANGED <<retries, slept, sum, outcome>>
    ELSE End(IF sum = 0 \/ \A i \in DOMAIN bytes : bytes[i][2] = sum THEN "ok" ELSE "failed")

\* Throttled, or the service failed: Retry-After, or DOWNLOAD_BACKOFF, which is no step at all.
Throttled == /\ pc = "copy" /\ (\E wait \in 0 .. Budget : Again(wait)) /\ Learn
             /\ UNCHANGED <<version, ask, got, last, ledger, pool, calls>>

\* Refused by Graph or where it redirects to, or the wire cannot be used.
Refused == /\ pc = "copy" /\ End("failed") /\ (Learn \/ remembered' = remembered)
           /\ UNCHANGED <<version, ask, got, last, ledger, pool, calls>>

\* The blocks an answer offers: what was asked for, or something else.
Offer == IF ~ Ranged THEN {<<0, SizeOf(version[ask.o]) - 1>>}
         ELSE {<<ask.from + Len(got), ask.from + ask.len - 1>>, <<ask.from, ask.from + ask.len - 1>>,
               <<ask.from + Len(got), SizeOf(version[ask.o]) - 1>>}

\* An answer with a body, of which any part arrives; what goes beyond the promise is refused.
Body ==
    /\ pc = "copy"
    /\ \E r \in Offer :
          IF Ranged /\ ~ GoodRange(r[1], r[2], SizeOf(version[ask.o]))
          THEN End("failed") /\ got' = got
          ELSE \E n \in 0 .. r[2] - r[1] + 1 :
                  LET room  == ask.len - Len(got)
                      bytes == got \o [i \in 1 .. n |-> <<r[1] + i - 1, version[ask.o]>>]
                  IN  IF n > room THEN End("failed") /\ got' = got
                      ELSE /\ got' = bytes
                           /\ \/ Len(bytes) = ask.len /\ Complete(bytes)
                              \/ Len(bytes) < ask.len /\ Again(0)
                              \/ End("failed")   \* out does not take it
    /\ Learn
    /\ UNCHANGED <<version, ask, last, ledger, pool, calls>>

ClosingSkipped ==   \* Fault: the version is not read again.
    pc = "closing" /\ End("ok")
    /\ UNCHANGED <<version, ask, got, last, remembered, ledger, pool, calls>>

\* The closing read of the version, where there was no hash.
Closing ==
    /\ pc = "closing"
    /\ End("failed") \/ (version[ask.o] = ask.expect /\ End("ok"))
    /\ UNCHANGED <<version, ask, got, last, remembered, ledger, pool, calls>>

-----------------------------------------------------------------------------

Fetch == Meta \/ Take \/ Woken \/ Impatient \/ Forget \/ Throttled \/ Refused \/ Body \/ Closing

ContentNext ==
    \/ \E o \in Object : Change(o)
    \/ Demand \/ Fetch
    \/ \E w \in Worker : WorkerBegins(w) \/ WorkerEnds(w)

ContentSpec == ContentInit /\ [][ContentNext]_cvars

\* The thread that serves a fetch goes on with it. Nothing is asked of the workers: they may be
\* stuck in a request for ever.
Fairness == WF_cvars(Fetch)

ContentLiveSpec == ContentSpec /\ Fairness

-----------------------------------------------------------------------------
(* Properties.                                                             *)

\* Types, and: what a successful fetch has written is each block asked for, once and in order,
\* whoever fetched it and in however many attempts; and of a whole file, for a placeholder that
\* names a version, it is that version and nothing of another, whenever the object changed and
\* however often the download was resumed (fetch, quickxor_for_version, QuickXorWriter::verify,
\* resume_copy, validate_content_range, take).
DeliversExactly ==
    /\ ContentTypeOK
    /\ outcome = "ok" => /\ Len(got) = ask.len
                         /\ \A i \in DOMAIN got : got[i][1] = ask.from + i - 1
                         /\ WholeAsked /\ ask.tag # "none" => \A i \in DOMAIN got : got[i][2] = ask.expect

\* Memory holds windows of the walk's own object only, also when a worker finishes late; and what
\* is said to be being fetched has a job waiting, or a worker on it: the reader would wait for
\* nothing (take, hint, and the workers of new).
LedgerIsOfTheWalk ==
    /\ \A k, l \in inflight \cup {d[1] : d \in done} : k[1] = l[1]
    /\ \A k \in inflight : \/ \E i \in DOMAIN queue : KeyOf(queue[i]) = k
                           \/ \E w \in Worker : KeyOf(job[w]) = k

\* Every fetch ends, even if no worker ever does (take, resume_copy).
FetchReturns == pc # "idle" ~> pc = "idle"
=============================================================================

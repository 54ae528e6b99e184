-------------------------- MODULE HydrationProofs --------------------------
(* Proofs about Hydration, for files of any size and any number of          *)
(* processes, on a filesystem where clearing the backup flag cannot fail.   *)
EXTENDS Hydration, SequenceTheorems, WellFoundedInduction, TLAPS

-----------------------------------------------------------------------------
(* The inductive invariant. *)

\* Between events, and when it is gone, the worker handles nobody; otherwise the process whose event
\* it is stays blocked, and the file keeps its mark until everything is here.
HandlingInv ==
  /\ wpc = "idle" <=> cur = NoProc
  /\ wpc = "idle" => have = {} /\ todo = {} /\ span = {}
  /\ wpc # "idle" => status[cur] = "blocked"
  /\ wpc \notin {"idle", "unmarked"} => marked
  /\ wpc = "unmarked" => have = Block /\ ~marked
  /\ helper # "up" => wpc = "idle"

\* What is being transferred is not counted as present.
DisjointInv == todo \cap have = {} /\ span \cap have = {}

\* Only the last transfer can be waited for, and what it no longer owes is here.
JobsInv ==
  /\ \A i \in DOMAIN jobs : jobs[i].live =>
       /\ i = Len(jobs) /\ wpc \in {"wait", "retry"}
       /\ \A b \in span \ jobs[i].left : disk[b] # "hole"
  /\ wpc \in {"wait", "retry"} => jobs # << >> /\ jobs[Len(jobs)].live

\* The whole file is counted only with the fetch thread at rest, just before
\* the mark goes.
WholeInv ==
  /\ have = Block => wpc \in {"fill", "unmarked"} /\ jobs = << >>
  /\ vouched # Block

\* A demand is an interval of the file.
DemandInv ==
  \A p \in Procs : \A x, z \in demand[p], y \in Block :
    x <= y /\ y <= z => y \in demand[p]

\* While it is being filled, a demand is covered by what is here and what is
\* still to come, readahead after it; once settled, by what is here.
CoverInv ==
  /\ wpc \in {"fill", "wait", "failed"} => demand[cur] \subseteq have \cup todo
  /\ wpc \in {"wait", "failed"} => span = FirstRun(todo) /\ todo # {}
  /\ wpc = "retry" => demand[cur] \subseteq have \cup span /\ todo = {}
  /\ wpc = "settled" => demand[cur] \subseteq have
  /\ wpc # "idle" => \A t \in todo \ demand[cur], a \in demand[cur] : a < t

IInv ==
  /\ TypeOK /\ HandlingInv /\ DisjointInv /\ JobsInv /\ WholeInv
  /\ UnmarkedIsWhole /\ CountedIsPresent /\ NoGhostAfterMark /\ IgnoredIsUnmarked

AInv == IInv /\ DemandInv /\ CoverInv

USE DEF helperVars

-----------------------------------------------------------------------------
(* Facts about ranges. *)

\* A file has a first block, and blocks are numbers.
LEMMA BlockFacts == 0 \in Block /\ Block \subseteq Nat
BY SizeAssumption DEF Block

\* A non-empty set of blocks has a first one.
LEMMA HasFirst == \A S \in SUBSET Block : S # {} => \E a \in S : IsFirst(a, S)
<1> SUFFICES ASSUME NEW S \in SUBSET Block, S # {} PROVE \E a \in S : IsFirst(a, S)
  OBVIOUS
<1>1. S \subseteq Nat
  BY SizeAssumption DEF Block
<1>2. PICK a \in S : \A c \in S : <<c, a>> \notin OpToRel(<, Nat)
  BY <1>1, NatLessThanWellFounded, WFMin
<1>3. ASSUME NEW c \in Nat, NEW b \in Nat, c < b PROVE <<c, b>> \in OpToRel(<, Nat)
  BY <1>3 DEF OpToRel
<1>4. \A c \in S : ~(c < a)
  BY <1>1, <1>2, <1>3
<1> QED BY <1>1, <1>4 DEF IsFirst

\* The span asked for is part of what is to come; it has the first block of it,
\* and with any block all the earlier ones.
LEMMA FirstRunFacts ==
  ASSUME NEW S \in SUBSET Block, S # {}
  PROVE  /\ FirstRun(S) \subseteq S /\ FirstRun(S) # {}
         /\ \E a \in FirstRun(S) : IsFirst(a, S)
         /\ \A t \in FirstRun(S), x \in S : x <= t => x \in FirstRun(S)
<1>1. S \subseteq Nat
  BY SizeAssumption DEF Block
<1>2. PICK a \in S : IsFirst(a, S)
  BY HasFirst
<1>3. a \in FirstRun(S)
  BY <1>1, <1>2 DEF FirstRun
<1>4. ASSUME NEW t \in FirstRun(S), NEW x \in S, x <= t PROVE x \in FirstRun(S)
  <2>1. PICK f \in S : IsFirst(f, S) /\ \A c \in f..t : c \in S
    BY DEF FirstRun
  <2>2. \A c \in f..x : c \in f..t
    BY <1>1, <1>4 DEF FirstRun
  <2> QED BY <2>1, <2>2 DEF FirstRun
<1> QED BY <1>2, <1>3, <1>4 DEF FirstRun

\* Readahead adds only blocks after the demand.
LEMMA WidenedFacts ==
  ASSUME NEW d \in SUBSET Block, NEW h \in SUBSET Block,
         \A x, z \in d, y \in Block : x <= y /\ y <= z => y \in d
  PROVE  /\ Widened(d, h) \subseteq Block /\ d \subseteq Widened(d, h)
         /\ \A t \in Widened(d, h) \ d, a \in d : a < t
<1>1. Block \subseteq Nat
  BY SizeAssumption DEF Block
<1>2. Widened(d, h) \subseteq Block /\ d \subseteq Widened(d, h)
  BY DEF Widened
<1>3. ASSUME NEW t \in Widened(d, h) \ d, NEW a \in d PROVE a < t
  <2>1. PICK f \in d : f <= t
    BY <1>3 DEF Widened
  <2>2. t \in Block /\ ~(t <= a)
    BY <1>2, <1>3, <2>1
  <2> QED BY <1>1, <2>2
<1> QED BY <1>2, <1>3

\* Punching takes away exactly what it names.
LEMMA PunchFacts ==
  ASSUME disk \in [Block -> Content], NEW S
  PROVE  /\ Punch(S) \in [Block -> Content]
         /\ \A b \in Block : Punch(S)[b] = IF b \in S THEN "hole" ELSE disk[b]
BY DEF Punch, Content

\* A punch falsifies the record together with the file.
LEMMA TryPunchFacts ==
  ASSUME TypeOK, NEW S, TryPunch(S)
  PROVE  /\ disk' \in [Block -> Content] /\ stamped' \in BOOLEAN
         /\ vouched' \in {{}, vouched}
         /\ disk' # disk => vouched' = {}
         /\ \A b \in Block \ S : disk'[b] = disk[b]
<1>1. CASE disk' = Punch(S) /\ stamped' = FALSE /\ vouched' = {}
  BY <1>1, PunchFacts DEF TypeOK
<1>2. CASE UNCHANGED <<disk, stamped, vouched>>
  BY <1>2 DEF TypeOK
<1> QED BY <1>1, <1>2 DEF TryPunch

\* Writing brings exactly what it names and takes nothing away.
LEMMA PutFacts ==
  ASSUME disk \in [Block -> Content], NEW S, NEW c \in {"cloud", "user"}
  PROVE  /\ Put(S, c) \in [Block -> Content]
         /\ \A b \in Block : Put(S, c)[b] = IF b \in S THEN c ELSE disk[b]
BY DEF Put, Content

-----------------------------------------------------------------------------
(* The invariant holds initially and is preserved by every action. *)

\* A fresh placeholder satisfies the invariant.
LEMMA InitAInv == Init => AInv
<1> SUFFICES ASSUME Init PROVE AInv OBVIOUS
<1> USE SizeAssumption, NoProcAssumption DEF Init
<1>1. TypeOK
  <2>1. jobs \in Seq([left : SUBSET Block, live : BOOLEAN])
    BY EmptySeq
  <2> QED BY <2>1 DEF TypeOK, Content
<1>2. 0 \in Block
  BY DEF Block
<1>3. HandlingInv /\ DisjointInv /\ WholeInv
  BY <1>2 DEF HandlingInv, DisjointInv, WholeInv
<1>4. JobsInv
  <2>1. DOMAIN jobs = {}
    BY EmptySeq
  <2> QED BY <2>1 DEF JobsInv
<1>5. UnmarkedIsWhole /\ CountedIsPresent /\ NoGhostAfterMark /\ IgnoredIsUnmarked
  BY DEF UnmarkedIsWhole, CountedIsPresent, NoGhostAfterMark, IgnoredIsUnmarked
<1>6. DemandInv /\ CoverInv
  BY DEF DemandInv, CoverInv
<1> QED BY <1>1, <1>3, <1>4, <1>5, <1>6 DEF AInv, IInv

\* Asking changes nothing the worker knows.
LEMMA AccessStep ==
  ASSUME AInv, NEW p \in Procs, Access(p) PROVE AInv'
<1> USE DEF AInv, IInv, Access, fileVars, fillVars
<1>1. PICK d \in Demand, o \in {"read", "write"} :
        /\ demand' = [demand EXCEPT ![p] = d]
        /\ op' = [op EXCEPT ![p] = o]
  OBVIOUS
<1>2. d \subseteq Block /\ \A x, z \in d, y \in Block : x <= y /\ y <= z => y \in d
  BY SizeAssumption DEF Demand, Block
<1>3. p # cur /\ cur \in Procs \cup {NoProc}
  BY NoProcAssumption DEF HandlingInv, TypeOK
<1>4. TypeOK'
  BY <1>1, <1>2 DEF TypeOK
<1>5. HandlingInv' /\ CoverInv'
  BY <1>1, <1>3 DEF HandlingInv, CoverInv, TypeOK
<1>6. DisjointInv' /\ JobsInv' /\ WholeInv'
  BY DEF DisjointInv, JobsInv, WholeInv
<1>7. UnmarkedIsWhole' /\ CountedIsPresent' /\ NoGhostAfterMark' /\ IgnoredIsUnmarked'
  BY DEF UnmarkedIsWhole, CountedIsPresent, NoGhostAfterMark, IgnoredIsUnmarked
<1>8. DemandInv'
  BY <1>1, <1>2 DEF DemandInv, TypeOK
<1> QED BY <1>4, <1>5, <1>6, <1>7, <1>8

\* When an access that the worker is not handling ends, nothing it keeps about
\* the one it is handling changes.
LEMMA OverFacts ==
  ASSUME AInv, NEW S \in SUBSET Procs, Over(S), UNCHANGED <<wpc, cur, fillVars>>,
         cur \notin S
  PROVE  /\ status' \in [Procs -> {"idle", "blocked", "allowed"}]
         /\ op' \in [Procs -> {"read", "write"}]
         /\ demand' \in [Procs -> SUBSET Block]
         /\ wpc # "idle" => status'[cur] = "blocked"
         /\ DemandInv' /\ CoverInv'
<1> USE DEF AInv, IInv, Over, fillVars
<1>1. cur = NoProc \/ cur \in Procs
  BY DEF TypeOK
<1>2. /\ status' \in [Procs -> {"idle", "blocked", "allowed"}]
      /\ op' \in [Procs -> {"read", "write"}]
      /\ demand' \in [Procs -> SUBSET Block]
  BY DEF TypeOK
<1>3. cur # NoProc => status'[cur] = status[cur] /\ demand'[cur] = demand[cur]
  BY <1>1 DEF TypeOK
<1>4. wpc # "idle" => cur # NoProc
  BY DEF HandlingInv
<1>5. DemandInv'
  BY DEF DemandInv, TypeOK
<1>6. CoverInv'
  BY <1>3, <1>4 DEF CoverInv
<1> QED BY <1>2, <1>3, <1>4, <1>5, <1>6 DEF HandlingInv

\* A reader going on takes nothing away.
LEMMA CopyStep ==
  ASSUME AInv, NEW p \in Procs, Copy(p) PROVE AInv'
<1> USE DEF AInv, IInv, fileVars, fillVars
<1>1. /\ Over({p}) /\ status[p] = "allowed"
      /\ UNCHANGED <<disk, marked, ignored, stamped, vouched, wpc, cur, have, todo, span, jobs, helper, watched>>
  BY DEF Copy
<1>2. cur # p
  BY <1>1, NoProcAssumption DEF HandlingInv
<1>3. /\ status' \in [Procs -> {"idle", "blocked", "allowed"}]
      /\ op' \in [Procs -> {"read", "write"}]
      /\ demand' \in [Procs -> SUBSET Block]
      /\ wpc # "idle" => status'[cur] = "blocked"
      /\ DemandInv' /\ CoverInv'
  BY <1>1, <1>2, OverFacts
<1>4. TypeOK' /\ HandlingInv'
  BY <1>1, <1>3 DEF TypeOK, HandlingInv
<1>5. DisjointInv' /\ JobsInv' /\ WholeInv'
  BY <1>1 DEF DisjointInv, JobsInv, WholeInv
<1>6. UnmarkedIsWhole' /\ CountedIsPresent' /\ NoGhostAfterMark' /\ IgnoredIsUnmarked'
  BY <1>1 DEF UnmarkedIsWhole, CountedIsPresent, NoGhostAfterMark, IgnoredIsUnmarked
<1> QED BY <1>3, <1>4, <1>5, <1>6

\* A write lands content and falsifies the record; it makes no hole.
LEMMA LandStep ==
  ASSUME AInv, NEW p \in Procs, Land(p) PROVE AInv'
<1> USE DEF AInv, IInv, fillVars
<1>1. /\ Over({p}) /\ status[p] = "allowed"
      /\ disk' = Put(demand[p], "user") /\ vouched' = {} /\ stamped' = FALSE
      /\ UNCHANGED <<marked, ignored, wpc, cur, have, todo, span, jobs, helper, watched>>
  BY DEF Land
<1>2. cur # p
  BY <1>1, NoProcAssumption DEF HandlingInv
<1>3. /\ status' \in [Procs -> {"idle", "blocked", "allowed"}]
      /\ op' \in [Procs -> {"read", "write"}]
      /\ demand' \in [Procs -> SUBSET Block]
      /\ wpc # "idle" => status'[cur] = "blocked"
      /\ DemandInv' /\ CoverInv'
  BY <1>1, <1>2, OverFacts
<1>4. /\ disk' \in [Block -> Content]
      /\ \A b \in Block : disk'[b] = IF b \in demand[p] THEN "user" ELSE disk[b]
  BY <1>1, PutFacts DEF TypeOK
<1>5. TypeOK' /\ HandlingInv'
  BY <1>1, <1>3, <1>4 DEF TypeOK, HandlingInv
<1>6. DisjointInv' /\ WholeInv'
  BY <1>1, BlockFacts DEF DisjointInv, WholeInv
<1>7. JobsInv'
  BY <1>1, <1>4 DEF JobsInv, TypeOK
<1>8. UnmarkedIsWhole' /\ CountedIsPresent' /\ NoGhostAfterMark' /\ IgnoredIsUnmarked'
  BY <1>1, <1>4 DEF UnmarkedIsWhole, CountedIsPresent, NoGhostAfterMark, IgnoredIsUnmarked, TypeOK
<1> QED BY <1>3, <1>5, <1>6, <1>7, <1>8

\* Letting an access through whose handling needed no transfer.
LEMMA HandleUnmarkedStep ==
  ASSUME AInv, NEW p \in Procs, HandleUnmarked(p) PROVE AInv'
<1> USE DEF AInv, IInv
<1>1. /\ wpc = "idle" /\ ~marked /\ ignored' \in {ignored, TRUE}
      /\ status' = [status EXCEPT ![p] = "allowed"]
      /\ UNCHANGED <<disk, marked, stamped, vouched, wpc, cur, have, todo, span, jobs, op, demand, helper, watched>>
  BY DEF HandleUnmarked, TryIgnore, Allow, fillVars
<1>2. TypeOK'
  BY <1>1 DEF TypeOK
<1>3. HandlingInv' /\ DisjointInv' /\ WholeInv' /\ DemandInv' /\ CoverInv'
  BY <1>1 DEF HandlingInv, DisjointInv, WholeInv, DemandInv, CoverInv
<1>4. JobsInv'
  BY <1>1 DEF JobsInv
<1>5. UnmarkedIsWhole' /\ CountedIsPresent' /\ NoGhostAfterMark' /\ IgnoredIsUnmarked'
  BY <1>1 DEF UnmarkedIsWhole, CountedIsPresent, NoGhostAfterMark, IgnoredIsUnmarked
<1> QED BY <1>2, <1>3, <1>4, <1>5

\* A refusal before the record is asked leaves the file alone.
LEMMA RefuseStep ==
  ASSUME AInv, NEW p \in Procs, Refuse(p) PROVE AInv'
<1> USE DEF AInv, IInv
<1>1. /\ Over({p}) /\ wpc = "idle"
      /\ UNCHANGED <<disk, marked, ignored, stamped, vouched, wpc, cur, have, todo, span, jobs, helper, watched>>
  BY DEF Refuse, Deny, fileVars, fillVars
<1>2. cur \notin {p}
  BY <1>1, NoProcAssumption DEF HandlingInv
<1>3. /\ status' \in [Procs -> {"idle", "blocked", "allowed"}]
      /\ op' \in [Procs -> {"read", "write"}]
      /\ demand' \in [Procs -> SUBSET Block]
      /\ DemandInv' /\ CoverInv'
  BY <1>1, <1>2, OverFacts DEF fillVars
<1>4. TypeOK' /\ HandlingInv'
  BY <1>1, <1>3 DEF TypeOK, HandlingInv
<1>5. DisjointInv' /\ JobsInv' /\ WholeInv'
  BY <1>1 DEF DisjointInv, JobsInv, WholeInv
<1>6. UnmarkedIsWhole' /\ CountedIsPresent' /\ NoGhostAfterMark' /\ IgnoredIsUnmarked'
  BY <1>1 DEF UnmarkedIsWhole, CountedIsPresent, NoGhostAfterMark, IgnoredIsUnmarked
<1> QED BY <1>3, <1>4, <1>5, <1>6

\* Starting to fill from what is counted as present.
LEMMA StartFacts ==
  ASSUME AInv, NEW p \in Procs, NEW h \in SUBSET Block,
         wpc = "idle", status[p] = "blocked", marked, helper = "up",
         wpc' = "fill", cur' = p, have' = h, todo' = Widened(demand[p], h) \ h,
         UNCHANGED <<marked, ignored, span, jobs, status, op, demand, helper>>,
         h # Block, vouched' = h
  PROVE  /\ HandlingInv' /\ DisjointInv' /\ WholeInv'
         /\ DemandInv' /\ CoverInv' /\ todo' \in SUBSET Block
<1> USE DEF AInv, IInv
<1>1. demand[p] \in SUBSET Block
  BY DEF TypeOK
<1>2. \A x, z \in demand[p], y \in Block : x <= y /\ y <= z => y \in demand[p]
  BY DEF DemandInv
<1>3. /\ Widened(demand[p], h) \subseteq Block /\ demand[p] \subseteq Widened(demand[p], h)
      /\ \A t \in Widened(demand[p], h) \ demand[p], a \in demand[p] : a < t
  BY <1>1, <1>2, WidenedFacts
<1>4. HandlingInv'
  BY NoProcAssumption DEF HandlingInv
<1>5. WholeInv' /\ DemandInv' /\ DisjointInv'
  BY DEF HandlingInv, WholeInv, DemandInv, DisjointInv
<1>6. CoverInv'
  BY <1>3 DEF CoverInv
<1> QED BY <1>3, <1>4, <1>5, <1>6

\* A believed record is what the new event starts from.
LEMMA HandleOursStep ==
  ASSUME AInv, NEW p \in Procs, HandleOurs(p) PROVE AInv'
<1> USE DEF AInv, IInv
<1>1. /\ wpc = "idle" /\ status[p] = "blocked" /\ marked /\ helper = "up"
      /\ UNCHANGED <<disk, marked, ignored, stamped, vouched, jobs, helper, watched>>
      /\ wpc' \in {"idle", "fill"}
  BY DEF HandleOurs, fileVars
<1>2. JobsInv'
  <2>1. \A i \in DOMAIN jobs : ~jobs[i].live
    BY <1>1 DEF JobsInv
  <2> QED BY <1>1, <2>1 DEF JobsInv
<1>3. UnmarkedIsWhole' /\ NoGhostAfterMark' /\ IgnoredIsUnmarked'
  BY <1>1 DEF UnmarkedIsWhole, NoGhostAfterMark, IgnoredIsUnmarked
<1>4. CASE demand[p] \subseteq vouched
  <2>1. /\ status' = [status EXCEPT ![p] = "allowed"]
        /\ UNCHANGED <<wpc, cur, have, todo, span, op, demand>>
    BY <1>4 DEF HandleOurs, Allow, fillVars
  <2>2. TypeOK'
    BY <1>1, <2>1 DEF TypeOK
  <2>3. HandlingInv' /\ DisjointInv' /\ WholeInv' /\ DemandInv' /\ CoverInv' /\ CountedIsPresent'
    BY <1>1, <2>1 DEF HandlingInv, DisjointInv, WholeInv, DemandInv, CoverInv, CountedIsPresent
  <2> QED BY <1>2, <1>3, <2>2, <2>3
<1>5. CASE ~(demand[p] \subseteq vouched)
  <2>1. /\ wpc' = "fill" /\ cur' = p /\ have' = vouched
        /\ todo' = Widened(demand[p], vouched) \ vouched
        /\ UNCHANGED <<span, status, op, demand>>
    BY <1>5 DEF HandleOurs, procVars
  <2>2. vouched \in SUBSET Block /\ vouched # Block
    BY DEF TypeOK, WholeInv
  <2>3. /\ HandlingInv' /\ DisjointInv' /\ WholeInv'
        /\ DemandInv' /\ CoverInv' /\ todo' \in SUBSET Block
    BY <1>1, <2>1, <2>2, StartFacts
  <2>4. TypeOK' /\ CountedIsPresent'
    BY <1>1, <2>1, <2>3 DEF TypeOK, CountedIsPresent
  <2> QED BY <1>2, <1>3, <2>3, <2>4
<1> QED BY <1>4, <1>5

\* With the residue punched the new event starts from nothing.
LEMMA HandleUnknownStep ==
  ASSUME AInv, NEW p \in Procs, HandleUnknown(p) PROVE AInv'
<1> USE DEF AInv, IInv
<1>1. /\ wpc = "idle" /\ status[p] = "blocked" /\ marked /\ vouched = {} /\ helper = "up"
      /\ UNCHANGED <<marked, ignored, vouched, jobs, helper, watched>>
  BY DEF HandleUnknown
<1>2. UnmarkedIsWhole' /\ NoGhostAfterMark' /\ IgnoredIsUnmarked'
  BY <1>1 DEF UnmarkedIsWhole, NoGhostAfterMark, IgnoredIsUnmarked
<1>3. JobsInv' \/ wpc' \in {"wait", "retry"}
  BY <1>1 DEF JobsInv
<1>4. CASE Deny(p) /\ UNCHANGED <<disk, stamped, wpc, cur, fillVars>>
  <2>1. cur \notin {p}
    BY <1>1, NoProcAssumption DEF HandlingInv
  <2>2. /\ status' \in [Procs -> {"idle", "blocked", "allowed"}]
        /\ op' \in [Procs -> {"read", "write"}]
        /\ demand' \in [Procs -> SUBSET Block]
        /\ DemandInv' /\ CoverInv'
    BY <1>1, <1>4, <2>1, OverFacts DEF fillVars, Deny
  <2>3. TypeOK' /\ HandlingInv' /\ DisjointInv' /\ WholeInv' /\ CountedIsPresent'
    BY <1>1, <1>4, <2>2 DEF TypeOK, HandlingInv, DisjointInv, WholeInv, CountedIsPresent, fillVars
  <2> QED BY <1>1, <1>2, <1>3, <1>4, <2>2, <2>3
<1>5. ASSUME disk' = Punch(Block), stamped' = FALSE PROVE disk' \in [Block -> Content]
  BY <1>5, PunchFacts DEF TypeOK
<1>6. CASE /\ disk' = Punch(Block) /\ stamped' = FALSE /\ demand[p] = {}
           /\ Allow(p) /\ UNCHANGED <<wpc, cur, fillVars>>
  <2>1. TypeOK'
    BY <1>1, <1>5, <1>6 DEF TypeOK, Allow, fillVars
  <2>2. HandlingInv' /\ DisjointInv' /\ WholeInv' /\ DemandInv' /\ CoverInv' /\ CountedIsPresent'
    BY <1>1, <1>6 DEF HandlingInv, DisjointInv, WholeInv, DemandInv, CoverInv,
                      CountedIsPresent, Allow, fillVars
  <2> QED BY <1>1, <1>2, <1>3, <1>6, <2>1, <2>2
<1>7. CASE /\ disk' = Punch(Block) /\ stamped' = FALSE
           /\ wpc' = "fill" /\ cur' = p /\ have' = {} /\ todo' = Widened(demand[p], {})
           /\ UNCHANGED <<span, procVars>>
  <2>1. todo' = Widened(demand[p], {}) \ {} /\ {} # Block /\ UNCHANGED <<status, op, demand>>
    BY <1>7, BlockFacts DEF procVars
  <2>2. /\ HandlingInv' /\ DisjointInv' /\ WholeInv'
        /\ DemandInv' /\ CoverInv' /\ todo' \in SUBSET Block
    BY <1>1, <1>7, <2>1, StartFacts
  <2>3. TypeOK' /\ CountedIsPresent'
    BY <1>1, <1>5, <1>7, <2>1, <2>2 DEF TypeOK, CountedIsPresent
  <2> QED BY <1>1, <1>2, <1>3, <1>7, <2>2, <2>3
<1> QED BY <1>4, <1>6, <1>7 DEF HandleUnknown

Job == [left : SUBSET Block, live : BOOLEAN]

\* A new transfer is the one being waited for.
LEMMA AppendJob ==
  ASSUME AInv, NEW s \in SUBSET Block, wpc \notin {"wait", "retry"},
         wpc' \in {"wait", "retry"}, span' = s,
         jobs' = Append(jobs, [left |-> s, live |-> TRUE])
  PROVE  jobs' \in Seq(Job) /\ JobsInv'
<1> DEFINE j == [left |-> s, live |-> TRUE]
<1>1. jobs \in Seq(Job) /\ j \in Job
  BY DEF AInv, IInv, TypeOK, Job
<1>2. jobs' \in Seq(Job) /\ Len(jobs') = Len(jobs) + 1
  BY <1>1, AppendProperties
<1>3. /\ \A i \in 1 .. Len(jobs) : jobs'[i] = jobs[i]
      /\ jobs'[Len(jobs) + 1] = j
  BY <1>1, AppendProperties
<1>4. /\ DOMAIN jobs = 1 .. Len(jobs) /\ DOMAIN jobs' = 1 .. Len(jobs')
      /\ Len(jobs) \in Nat
  BY <1>1, <1>2, LenProperties
<1>5. \A i \in DOMAIN jobs : ~jobs[i].live
  BY DEF AInv, IInv, JobsInv
<1>6. ASSUME NEW i \in DOMAIN jobs', jobs'[i].live PROVE i = Len(jobs') /\ jobs'[i].left = s
  <2>1. i \in DOMAIN jobs \/ i = Len(jobs) + 1
    BY <1>2, <1>4
  <2> QED BY <1>2, <1>3, <1>4, <1>5, <1>6, <2>1
<1>7. jobs' # << >> /\ jobs'[Len(jobs')].live
  BY <1>2, <1>3, <1>4, EmptySeq
<1> QED BY <1>2, <1>6, <1>7 DEF JobsInv

\* The worker gives up on the transfer it is waiting for: nobody waits any more.
LEMMA GiveUpJob ==
  ASSUME AInv, wpc \in {"wait", "retry"},
         jobs' = [jobs EXCEPT ![Len(jobs)].live = FALSE]
  PROVE  /\ jobs' \in Seq(Job) /\ jobs # << >>
         /\ \A i \in DOMAIN jobs' : ~jobs'[i].live
<1>1. jobs \in Seq(Job) /\ jobs # << >>
  BY DEF AInv, IInv, TypeOK, Job, JobsInv
<1>2. Len(jobs) \in 1 .. Len(jobs)
  BY <1>1, EmptySeq
<1>3. jobs[Len(jobs)] \in Job
  BY <1>1, <1>2, ElementOfSeq
<1> DEFINE j == [jobs[Len(jobs)] EXCEPT !.live = FALSE]
<1>4. j \in Job /\ ~j.live
  BY <1>3 DEF Job
<1>5. jobs' = [jobs EXCEPT ![Len(jobs)] = j]
  OBVIOUS
<1> HIDE DEF j
<1>6. /\ jobs' \in Seq(Job) /\ Len(jobs') = Len(jobs)
      /\ \A i \in 1 .. Len(jobs) : jobs'[i] = IF i = Len(jobs) THEN j ELSE jobs[i]
  <2>1. ASSUME NEW s, s \in Seq(Job), NEW k \in 1 .. Len(s), NEW e \in Job
        PROVE  /\ [s EXCEPT ![k] = e] \in Seq(Job)
               /\ Len([s EXCEPT ![k] = e]) = Len(s)
               /\ \A i \in 1 .. Len(s) : [s EXCEPT ![k] = e][i] = IF i = k THEN e ELSE s[i]
    BY <2>1, ExceptSeq
  <2>2. /\ [jobs EXCEPT ![Len(jobs)] = j] \in Seq(Job)
        /\ Len([jobs EXCEPT ![Len(jobs)] = j]) = Len(jobs)
        /\ \A i \in 1 .. Len(jobs) :
             [jobs EXCEPT ![Len(jobs)] = j][i] = IF i = Len(jobs) THEN j ELSE jobs[i]
    BY <1>1, <1>2, <1>4, <2>1
  <2> QED BY <1>5, <2>2
<1>7. DOMAIN jobs' = 1 .. Len(jobs) /\ DOMAIN jobs = 1 .. Len(jobs)
  BY <1>1, <1>6, LenProperties
<1>8. \A i \in DOMAIN jobs : jobs[i].live => i = Len(jobs)
  BY DEF AInv, IInv, JobsInv
<1> QED BY <1>1, <1>4, <1>6, <1>7, <1>8

\* The transfer asked for is the first of what is missing.
LEMMA TransferStep ==
  ASSUME AInv, Transfer PROVE AInv'
<1> USE DEF AInv, IInv
<1>1. /\ wpc = "fill" /\ todo # {} /\ span' = FirstRun(todo)
      /\ wpc' \in {"wait", "failed"}
      /\ UNCHANGED <<disk, marked, ignored, stamped, vouched, cur, have, todo, status, op, demand, helper, watched>>
  BY DEF Transfer, fileVars, procVars
<1>2. span' \subseteq todo
  BY <1>1, FirstRunFacts DEF TypeOK
<1>3. jobs' \in Seq(Job) /\ JobsInv'
  <2>1. CASE jobs' = jobs /\ wpc' = "failed"
    <3>1. \A i \in DOMAIN jobs : ~jobs[i].live
      BY <1>1 DEF JobsInv
    <3> QED BY <2>1, <3>1 DEF JobsInv, TypeOK, Job
  <2>2. CASE jobs' = Append(jobs, [left |-> span', live |-> TRUE]) /\ wpc' = "wait"
    <3>1. span' \in SUBSET Block
      BY <1>2 DEF TypeOK
    <3> QED BY <1>1, <2>2, <3>1, AppendJob
  <2> QED BY <2>1, <2>2 DEF Transfer
<1>4. TypeOK'
  BY <1>1, <1>2, <1>3 DEF TypeOK, Job
<1>5. HandlingInv' /\ DisjointInv' /\ DemandInv' /\ CoverInv'
  BY <1>1, <1>2 DEF HandlingInv, DisjointInv, DemandInv, CoverInv
<1>6. WholeInv'
  <2>1. have # Block
    BY <1>1 DEF DisjointInv, TypeOK
  <2> QED BY <1>1, <2>1 DEF WholeInv
<1>7. UnmarkedIsWhole' /\ CountedIsPresent' /\ NoGhostAfterMark' /\ IgnoredIsUnmarked'
  BY <1>1 DEF UnmarkedIsWhole, CountedIsPresent, NoGhostAfterMark, IgnoredIsUnmarked, HandlingInv
<1> QED BY <1>3, <1>4, <1>5, <1>6, <1>7

\* Giving up on a transfer leaves it running on a marked file.
LEMMA AbandonStep ==
  ASSUME AInv, Abandon PROVE AInv'
<1> USE DEF AInv, IInv
<1>1. /\ wpc \in {"wait", "retry"} /\ wpc' = IF wpc = "wait" THEN "failed" ELSE "stamp"
      /\ jobs' = [jobs EXCEPT ![Len(jobs)].live = FALSE]
      /\ UNCHANGED <<marked, ignored, cur, have, todo, span, status, op, demand, helper, watched>>
  BY DEF Abandon, fillVars, procVars
<1>2. /\ jobs' \in Seq(Job) /\ jobs # << >>
      /\ \A i \in DOMAIN jobs' : ~jobs'[i].live
  BY <1>1, GiveUpJob
<1>3. /\ disk' \in [Block -> Content] /\ stamped' \in BOOLEAN
      /\ vouched' \in {{}, vouched}
      /\ disk' # disk => vouched' = {}
      /\ \A b \in Block \ span : disk'[b] = disk[b]
  <2>1. CASE TryPunch(span)
    BY <2>1, TryPunchFacts
  <2>2. CASE UNCHANGED <<disk, stamped, vouched>>
    BY <2>2 DEF TypeOK
  <2> QED BY <2>1, <2>2 DEF Abandon
<1>4. TypeOK'
  BY <1>1, <1>2, <1>3 DEF TypeOK, Job
<1>5. HandlingInv' /\ DisjointInv' /\ DemandInv' /\ CoverInv' /\ JobsInv'
  BY <1>1, <1>2 DEF HandlingInv, DisjointInv, DemandInv, CoverInv, JobsInv
<1>6. WholeInv'
  BY <1>1, <1>3, BlockFacts DEF WholeInv
<1>7. marked
  BY <1>1 DEF HandlingInv
<1>8. CountedIsPresent'
  BY <1>1, <1>3 DEF CountedIsPresent, DisjointInv, TypeOK
<1>9. UnmarkedIsWhole' /\ NoGhostAfterMark' /\ IgnoredIsUnmarked'
  BY <1>1, <1>7 DEF UnmarkedIsWhole, NoGhostAfterMark, IgnoredIsUnmarked
<1> QED BY <1>4, <1>5, <1>6, <1>8, <1>9

\* What of a demand is still to come lies in the first run of it, when that run
\* reaches past the demand; when the run has none of it, nothing is.
LEMMA OnlyFacts ==
  ASSUME AInv, wpc = "failed"
  PROVE  /\ span \cap demand[cur] = {} => demand[cur] \subseteq have
         /\ span \cap demand[cur] # span => demand[cur] \subseteq have \cup (span \cap demand[cur])
<1> USE DEF AInv, IInv
<1>1. /\ span = FirstRun(todo) /\ todo # {} /\ todo \in SUBSET Block
      /\ demand[cur] \subseteq have \cup todo
      /\ \A t \in todo \ demand[cur], a \in demand[cur] : a < t
  BY DEF CoverInv, TypeOK
<1>2. /\ span \subseteq todo
      /\ \E a \in span : IsFirst(a, todo)
      /\ \A t \in span, x \in todo : x <= t => x \in span
  BY <1>1, FirstRunFacts
<1>3. todo \subseteq Nat
  BY <1>1, BlockFacts
<1>4. ASSUME span \cap demand[cur] = {} PROVE demand[cur] \subseteq have
  <2>1. PICK a \in span : IsFirst(a, todo)
    BY <1>2
  <2>2. \A x \in demand[cur] \cap todo : x < a
    BY <1>1, <1>2, <1>4, <2>1
  <2>3. demand[cur] \cap todo = {}
    BY <1>2, <1>3, <2>1, <2>2 DEF IsFirst
  <2> QED BY <1>1, <2>3
<1>5. ASSUME span \cap demand[cur] # span
      PROVE  demand[cur] \subseteq have \cup (span \cap demand[cur])
  <2>1. PICK t \in span : t \notin demand[cur]
    BY <1>5
  <2>2. ASSUME NEW x \in demand[cur] \cap todo PROVE x \in span
    <3>1. x < t
      BY <1>1, <1>2, <2>1
    <3>2. x <= t
      BY <1>2, <1>3, <3>1
    <3> QED BY <1>2, <3>2
  <2> QED BY <1>1, <2>2
<1> QED BY <1>4, <1>5

\* A rollback punches only what is not counted as present.
LEMMA SpanFailedStep ==
  ASSUME AInv, SpanFailed PROVE AInv'
<1> USE DEF AInv, IInv
<1> DEFINE only == span \cap demand[cur]
<1>1. /\ wpc = "failed" /\ TryPunch(span)
      /\ UNCHANGED <<marked, ignored, cur, have, status, op, demand, helper, watched>>
      /\ wpc' \in {"fill", "retry", "stamp"}
  BY DEF SpanFailed, procVars
<1>2. /\ disk' \in [Block -> Content] /\ stamped' \in BOOLEAN
      /\ vouched' \in {{}, vouched}
      /\ disk' # disk => vouched' = {}
      /\ \A b \in Block \ span : disk'[b] = disk[b]
  BY <1>1, TryPunchFacts
<1>3. /\ only = {} => demand[cur] \subseteq have
      /\ only # span => demand[cur] \subseteq have \cup only
  BY <1>1, OnlyFacts
<1>4. only \in SUBSET Block /\ only \subseteq span
  BY DEF TypeOK
<1>5. \A i \in DOMAIN jobs : ~jobs[i].live
  BY <1>1 DEF JobsInv
<1>6. TypeOK' /\ JobsInv' /\ HandlingInv' /\ DisjointInv' /\ DemandInv' /\ CoverInv'
  <2>1. CASE only = {} /\ wpc' = "fill" /\ todo' = {} /\ span' = {} /\ UNCHANGED jobs
    <3>1. TypeOK' /\ JobsInv'
      BY <1>1, <1>2, <1>5, <2>1 DEF TypeOK, JobsInv
    <3>2. HandlingInv' /\ DisjointInv' /\ DemandInv' /\ CoverInv'
      BY <1>1, <1>3, <2>1 DEF HandlingInv, DisjointInv, DemandInv, CoverInv
    <3> QED BY <3>1, <3>2
  <2>2. CASE /\ only # {} /\ only # span /\ span' = only /\ todo' = {}
             /\ wpc' = "retry" /\ jobs' = Append(jobs, [left |-> only, live |-> TRUE])
    <3>1. jobs' \in Seq(Job) /\ JobsInv'
      BY <1>1, <1>4, <2>2, AppendJob
    <3>2. TypeOK'
      BY <1>1, <1>2, <1>4, <2>2, <3>1 DEF TypeOK, Job
    <3>3. HandlingInv' /\ DisjointInv' /\ DemandInv' /\ CoverInv'
      BY <1>1, <1>3, <2>2 DEF HandlingInv, DisjointInv, DemandInv, CoverInv
    <3> QED BY <3>1, <3>2, <3>3
  <2>3. CASE /\ only # {} /\ only # span /\ span' = only /\ todo' = {}
             /\ wpc' = "stamp" /\ UNCHANGED jobs
    <3>1. TypeOK' /\ JobsInv'
      BY <1>1, <1>2, <1>4, <1>5, <2>3 DEF TypeOK, JobsInv
    <3>2. HandlingInv' /\ DisjointInv' /\ DemandInv' /\ CoverInv'
      BY <1>1, <2>3 DEF HandlingInv, DisjointInv, DemandInv, CoverInv
    <3> QED BY <3>1, <3>2
  <2>4. CASE only = span /\ wpc' = "stamp" /\ UNCHANGED <<todo, span, jobs>>
    <3>1. TypeOK' /\ JobsInv'
      BY <1>1, <1>2, <1>5, <2>4 DEF TypeOK, JobsInv
    <3>2. HandlingInv' /\ DisjointInv' /\ DemandInv' /\ CoverInv'
      BY <1>1, <2>4 DEF HandlingInv, DisjointInv, DemandInv, CoverInv
    <3> QED BY <3>1, <3>2
  <2> QED BY <2>1, <2>2, <2>3, <2>4 DEF SpanFailed
<1>7. WholeInv'
  BY <1>1, <1>2, BlockFacts DEF WholeInv
<1>8. marked
  BY <1>1 DEF HandlingInv
<1>9. CountedIsPresent'
  BY <1>1, <1>2 DEF CountedIsPresent, DisjointInv, TypeOK
<1>10. UnmarkedIsWhole' /\ NoGhostAfterMark' /\ IgnoredIsUnmarked'
  BY <1>1, <1>8 DEF UnmarkedIsWhole, NoGhostAfterMark, IgnoredIsUnmarked
<1> QED BY <1>6, <1>7, <1>9, <1>10

\* The steps that stamp the file or take its mark off, and leave the rest.
LEMMA StampingStep ==
  ASSUME AInv, StampFailure \/ SettleRange \/ Unmark PROVE AInv'
<1> USE DEF AInv, IInv
<1>1. /\ UNCHANGED <<disk, ignored, vouched, cur, have, todo, span, jobs, status, op, demand, helper, watched>>
      /\ stamped' \in BOOLEAN
      /\ \/ wpc = "stamp" /\ wpc' = "record" /\ marked' = marked
         \/ wpc = "fill" /\ todo = {} /\ have # Block /\ wpc' = "settled" /\ marked' = marked
         \/ wpc = "fill" /\ have = Block /\ wpc' = "unmarked" /\ marked' = FALSE
  BY DEF StampFailure, SettleRange, Unmark, fillVars, procVars, TypeOK
<1>2. TypeOK'
  BY <1>1 DEF TypeOK
<1>3. HandlingInv' /\ DisjointInv' /\ DemandInv'
  BY <1>1 DEF HandlingInv, DisjointInv, DemandInv
<1>4. JobsInv'
  <2>1. \A i \in DOMAIN jobs : ~jobs[i].live
    BY <1>1 DEF JobsInv
  <2> QED BY <1>1, <2>1 DEF JobsInv
<1>5. WholeInv' /\ CoverInv'
  BY <1>1 DEF WholeInv, CoverInv
<1>6. UnmarkedIsWhole' /\ CountedIsPresent' /\ NoGhostAfterMark' /\ IgnoredIsUnmarked'
  BY <1>1 DEF UnmarkedIsWhole, CountedIsPresent, NoGhostAfterMark, IgnoredIsUnmarked,
              WholeInv, HandlingInv
<1> QED BY <1>2, <1>3, <1>4, <1>5, <1>6

\* Once the event is answered the worker is idle and keeps nothing about it.
LEMMA AnsweredFacts ==
  ASSUME AInv, Answered, wpc \notin {"wait", "retry"}, jobs' = jobs,
         (wpc # "idle" /\ Allow(cur)) \/ \E S \in SUBSET Procs : Over(S)
  PROVE  /\ status' \in [Procs -> {"idle", "blocked", "allowed"}]
         /\ op' \in [Procs -> {"read", "write"}]
         /\ demand' \in [Procs -> SUBSET Block]
         /\ HandlingInv' /\ DisjointInv' /\ DemandInv' /\ CoverInv' /\ JobsInv'
<1> USE DEF AInv, IInv
<1>1. \A i \in DOMAIN jobs : ~jobs[i].live
  BY DEF JobsInv
<1>2. HandlingInv' /\ DisjointInv' /\ CoverInv' /\ JobsInv'
  BY <1>1 DEF Answered, HandlingInv, DisjointInv, CoverInv, JobsInv
<1>3. CASE wpc # "idle" /\ Allow(cur)
  BY <1>2, <1>3 DEF Allow, TypeOK, DemandInv
<1>4. CASE \E S \in SUBSET Procs : Over(S)
  BY <1>2, <1>4 DEF Over, TypeOK, DemandInv
<1> QED BY <1>3, <1>4

\* Recording and answering keep to what was counted.
LEMMA AnsweringStep ==
  ASSUME AInv, ~NodumpCanFail, RecordFailure \/ Served \/ Hydrated \/ AbandonFile PROVE AInv'
<1> USE DEF AInv, IInv
<1>1. /\ Answered /\ UNCHANGED <<jobs, marked, helper, watched>>
      /\ wpc \in {"record", "settled", "unmarked", "fill"}
  BY DEF RecordFailure, Served, Hydrated, AbandonFile, fileVars
<1>2. cur \in Procs
  BY <1>1 DEF HandlingInv, TypeOK
<1>3. (wpc # "idle" /\ Allow(cur)) \/ \E S \in SUBSET Procs : Over(S)
  BY <1>1, <1>2 DEF RecordFailure, Served, Hydrated, AbandonFile, Deny
<1>4. /\ status' \in [Procs -> {"idle", "blocked", "allowed"}]
      /\ op' \in [Procs -> {"read", "write"}]
      /\ demand' \in [Procs -> SUBSET Block]
      /\ HandlingInv' /\ DisjointInv' /\ DemandInv' /\ CoverInv' /\ JobsInv'
  BY <1>1, <1>3, AnsweredFacts
<1>5. /\ disk' \in [Block -> Content] /\ stamped' \in BOOLEAN /\ ignored' \in BOOLEAN
      /\ vouched' \in {{}, have}
      /\ vouched' = have => have = {} \/ (wpc \in {"record", "settled"} /\ disk' = disk)
      /\ ignored' # ignored => ~marked
      /\ disk' # disk => wpc = "fill"
  <2>1. CASE RecordFailure \/ Served
    BY <2>1 DEF RecordFailure, Served, fileVars, TypeOK
  <2>2. CASE Hydrated
    BY <2>2 DEF Hydrated, TryIgnore, TypeOK, HandlingInv
  <2>3. CASE AbandonFile
    <3>1. \/ disk' = Punch(Block) /\ stamped' \in BOOLEAN
          \/ disk' = disk /\ stamped' = stamped
          \/ disk' = disk /\ stamped' = TRUE
      BY <2>3 DEF AbandonFile
    <3>2. disk' \in [Block -> Content]
      BY <3>1, PunchFacts DEF TypeOK
    <3>3. stamped' \in BOOLEAN
      BY <3>1 DEF TypeOK
    <3> QED BY <2>3, <3>2, <3>3 DEF AbandonFile, TypeOK
  <2> QED BY <2>1, <2>2, <2>3
<1>6. TypeOK'
  BY <1>1, <1>4, <1>5 DEF TypeOK, Answered
<1>7. WholeInv'
  BY <1>1, <1>5, BlockFacts DEF WholeInv, Answered
<1>8. UnmarkedIsWhole'
  BY <1>1, <1>5 DEF UnmarkedIsWhole, HandlingInv
<1>9. CountedIsPresent'
  BY <1>1, <1>5 DEF CountedIsPresent, Answered
<1>10. NoGhostAfterMark' /\ IgnoredIsUnmarked'
  BY <1>1, <1>5 DEF NoGhostAfterMark, IgnoredIsUnmarked, TypeOK
<1> QED BY <1>4, <1>6, <1>7, <1>8, <1>9, <1>10

\* Forgetting the record costs nothing but another fetch.
LEMMA ForgetOldestStep ==
  ASSUME AInv, ForgetOldest PROVE AInv'
<1> USE DEF AInv, IInv
<1>1. /\ vouched' = {}
      /\ UNCHANGED <<disk, marked, ignored, stamped, wpc, cur, have, todo, span, jobs, status, op, demand, helper, watched>>
  BY DEF ForgetOldest, fileVars, fillVars, procVars
<1>2. TypeOK' /\ HandlingInv' /\ DisjointInv' /\ DemandInv' /\ CoverInv'
  BY <1>1 DEF TypeOK, HandlingInv, DisjointInv, DemandInv, CoverInv
<1>3. JobsInv' /\ WholeInv'
  BY <1>1, BlockFacts DEF JobsInv, WholeInv
<1>4. UnmarkedIsWhole' /\ CountedIsPresent' /\ NoGhostAfterMark' /\ IgnoredIsUnmarked'
  BY <1>1 DEF UnmarkedIsWhole, CountedIsPresent, NoGhostAfterMark, IgnoredIsUnmarked
<1> QED BY <1>2, <1>3, <1>4

\* A death forgets the record and the transfers, and keeps the file.
LEMMA DieStep ==
  ASSUME AInv, Die PROVE AInv'
<1> USE DEF AInv, IInv, Die, fileVars, procVars
<1>1. jobs' \in Seq([left : SUBSET Block, live : BOOLEAN]) /\ DOMAIN jobs' = {}
  BY EmptySeq
<1>2. TypeOK'
  BY <1>1 DEF TypeOK
<1>3. HandlingInv' /\ DisjointInv' /\ CoverInv' /\ DemandInv'
  BY DEF HandlingInv, DisjointInv, CoverInv, DemandInv
<1>4. JobsInv' /\ WholeInv'
  BY <1>1, BlockFacts DEF JobsInv, WholeInv
<1>5. UnmarkedIsWhole' /\ CountedIsPresent' /\ NoGhostAfterMark' /\ IgnoredIsUnmarked'
  BY DEF UnmarkedIsWhole, CountedIsPresent, NoGhostAfterMark, IgnoredIsUnmarked
<1> QED BY <1>2, <1>3, <1>4, <1>5

\* Who is denied by the supervisor was not in the hands of a worker.
LEMMA DrainDenyStep ==
  ASSUME AInv, NEW p \in Procs, DrainDeny(p) PROVE AInv'
<1> USE DEF AInv, IInv
<1>1. /\ Over({p}) /\ wpc = "idle"
      /\ UNCHANGED <<disk, marked, ignored, stamped, vouched, wpc, cur, have, todo, span, jobs, helper, watched>>
  BY DEF DrainDeny, Deny, fileVars, fillVars, HandlingInv
<1>2. cur \notin {p}
  BY <1>1, NoProcAssumption DEF HandlingInv
<1>3. /\ status' \in [Procs -> {"idle", "blocked", "allowed"}]
      /\ op' \in [Procs -> {"read", "write"}]
      /\ demand' \in [Procs -> SUBSET Block]
      /\ DemandInv' /\ CoverInv'
  BY <1>1, <1>2, OverFacts DEF fillVars
<1>4. TypeOK' /\ HandlingInv'
  BY <1>1, <1>3 DEF TypeOK, HandlingInv
<1>5. DisjointInv' /\ JobsInv' /\ WholeInv'
  BY <1>1 DEF DisjointInv, JobsInv, WholeInv
<1>6. UnmarkedIsWhole' /\ CountedIsPresent' /\ NoGhostAfterMark' /\ IgnoredIsUnmarked'
  BY <1>1 DEF UnmarkedIsWhole, CountedIsPresent, NoGhostAfterMark, IgnoredIsUnmarked
<1> QED BY <1>3, <1>4, <1>5, <1>6

\* The group closes, a helper starts, a process opens the file: nothing of the
\* file, or of what a worker has in hand, is touched.
LEMMA HelperStep ==
  ASSUME AInv, Close \/ Start \/ \E p \in Procs : Open(p) PROVE AInv'
<1> USE DEF AInv, IInv
<1>1. /\ UNCHANGED <<disk, marked, stamped, vouched, wpc, cur, have, todo, span, jobs, op, demand>>
      /\ helper' \in {"up", "gone", "closed"} /\ watched' \in SUBSET Procs
      /\ ~ignored' \/ ignored' = ignored
      /\ ignored' \in BOOLEAN /\ (helper' # "up" => wpc = "idle")
      /\ status' = status \/ (wpc = "idle" /\ status' \in [Procs -> {"idle", "blocked", "allowed"}])
  BY DEF Close, Start, Open, fileVars, fillVars, procVars, TypeOK, HandlingInv
<1>2. TypeOK'
  BY <1>1 DEF TypeOK
<1>3. HandlingInv' /\ DisjointInv' /\ CoverInv' /\ DemandInv'
  BY <1>1 DEF HandlingInv, DisjointInv, CoverInv, DemandInv
<1>4. JobsInv' /\ WholeInv'
  BY <1>1 DEF JobsInv, WholeInv
<1>5. UnmarkedIsWhole' /\ CountedIsPresent' /\ NoGhostAfterMark' /\ IgnoredIsUnmarked'
  BY <1>1 DEF UnmarkedIsWhole, CountedIsPresent, NoGhostAfterMark, IgnoredIsUnmarked
<1> QED BY <1>2, <1>3, <1>4, <1>5

\* The fetch thread goes on to the next transfer; if the worker was waiting for
\* the one at the head, there is no other.
LEMMA NextJob ==
  ASSUME AInv, jobs # << >>, jobs' = Tail(jobs)
  PROVE  /\ jobs' \in Seq(Job)
         /\ Head(jobs) = jobs[1] /\ 1 \in DOMAIN jobs
         /\ jobs[1] \in Job
         /\ jobs[1].live => jobs' = << >>
         /\ ~jobs[1].live /\ JobsInv /\ UNCHANGED <<wpc, span, disk>> => JobsInv'
<1>1. jobs \in Seq(Job)
  BY DEF AInv, IInv, TypeOK, Job
<1>2. /\ jobs' \in Seq(Job) /\ Len(jobs') = Len(jobs) - 1
      /\ \A i \in 1 .. Len(jobs') : jobs'[i] = jobs[i + 1]
  BY <1>1, HeadTailProperties
<1>3. /\ Len(jobs) \in Nat \ {0} /\ DOMAIN jobs = 1 .. Len(jobs)
      /\ DOMAIN jobs' = 1 .. Len(jobs')
  BY <1>1, <1>2, LenProperties, EmptySeq
<1>4. Head(jobs) = jobs[1] /\ 1 \in DOMAIN jobs /\ jobs[1] \in Job
  BY <1>1, <1>3, ElementOfSeq
<1>5. ASSUME jobs[1].live PROVE jobs' = << >>
  <2>1. Len(jobs) = 1
    BY <1>4, <1>5 DEF AInv, IInv, JobsInv
  <2> QED BY <1>2, <2>1, EmptySeq
<1>6. ASSUME ~jobs[1].live, JobsInv, UNCHANGED <<wpc, span, disk>> PROVE JobsInv'
  <2>1. ASSUME NEW i \in DOMAIN jobs', jobs'[i].live
        PROVE  /\ i = Len(jobs') /\ wpc \in {"wait", "retry"}
               /\ \A b \in span \ jobs'[i].left : disk[b] # "hole"
    <3>1. i + 1 \in DOMAIN jobs /\ jobs'[i] = jobs[i + 1]
      BY <1>2, <1>3
    <3>2. i + 1 = Len(jobs)
      BY <1>6, <2>1, <3>1 DEF JobsInv
    <3>3. i = Len(jobs')
      BY <1>2, <1>3, <3>2
    <3> QED BY <1>6, <2>1, <3>1, <3>3 DEF JobsInv
  <2>2. ASSUME wpc \in {"wait", "retry"} PROVE jobs' # << >> /\ jobs'[Len(jobs')].live
    <3>1. jobs[Len(jobs)].live /\ Len(jobs) # 1
      BY <1>6, <2>2 DEF JobsInv
    <3>2. Len(jobs') \in 1 .. Len(jobs') /\ Len(jobs') + 1 = Len(jobs)
      BY <1>2, <1>3, <3>1
    <3>3. jobs'[Len(jobs')] = jobs[Len(jobs)]
      BY <1>2, <3>2
    <3>4. Len(jobs') # 0
      BY <3>2
    <3>5. jobs' # << >>
      BY <3>4, EmptySeq
    <3> QED BY <3>1, <3>3, <3>5
  <2> QED BY <1>6, <2>1, <2>2 DEF JobsInv
<1> QED BY <1>2, <1>4, <1>5, <1>6

\* A byte that arrives makes no hole.
LEMMA WriteStep ==
  ASSUME AInv, Write PROVE AInv'
<1> USE DEF AInv, IInv
<1>1. PICK b \in Head(jobs).left :
        /\ disk' = Put({b}, "cloud")
        /\ jobs' = [jobs EXCEPT ![1].left = @ \ {b}]
  BY DEF Write
<1>2. /\ jobs # << >> /\ vouched' = {} /\ stamped' = FALSE
      /\ UNCHANGED <<marked, ignored, wpc, cur, have, todo, span, status, op, demand, helper, watched>>
  BY DEF Write, fillVars, procVars
<1>3. jobs \in Seq(Job) /\ Head(jobs) = jobs[1] /\ 1 \in 1 .. Len(jobs) /\ jobs[1] \in Job
  <2>1. jobs \in Seq(Job)
    BY DEF TypeOK, Job
  <2>2. Len(jobs) \in Nat \ {0}
    BY <1>2, <2>1, EmptySeq
  <2> QED BY <2>1, <2>2, ElementOfSeq
<1> DEFINE j == [jobs[1] EXCEPT !.left = @ \ {b}]
<1>4. /\ j \in Job /\ j.live = jobs[1].live /\ j.left = jobs[1].left \ {b}
      /\ b \in Block
  BY <1>1, <1>3 DEF Job
<1>5. jobs' = [jobs EXCEPT ![1] = j]
  BY <1>1
<1> HIDE DEF j
<1>6. /\ jobs' \in Seq(Job) /\ Len(jobs') = Len(jobs)
      /\ \A i \in 1 .. Len(jobs) : jobs'[i] = IF i = 1 THEN j ELSE jobs[i]
  <2>1. ASSUME NEW s, s \in Seq(Job), NEW k \in 1 .. Len(s), NEW e \in Job
        PROVE  /\ [s EXCEPT ![k] = e] \in Seq(Job)
               /\ Len([s EXCEPT ![k] = e]) = Len(s)
               /\ \A i \in 1 .. Len(s) : [s EXCEPT ![k] = e][i] = IF i = k THEN e ELSE s[i]
    BY <2>1, ExceptSeq
  <2>2. /\ [jobs EXCEPT ![1] = j] \in Seq(Job)
        /\ Len([jobs EXCEPT ![1] = j]) = Len(jobs)
        /\ \A i \in 1 .. Len(jobs) : [jobs EXCEPT ![1] = j][i] = IF i = 1 THEN j ELSE jobs[i]
    BY <1>3, <1>4, <2>1
  <2> QED BY <1>5, <2>2
<1>7. DOMAIN jobs' = 1 .. Len(jobs) /\ DOMAIN jobs = 1 .. Len(jobs) /\ Len(jobs) \in Nat
  BY <1>3, <1>6, LenProperties
<1>8. /\ disk' \in [Block -> Content]
      /\ \A c \in Block : disk'[c] = IF c = b THEN "cloud" ELSE disk[c]
  BY <1>1, <1>4, PutFacts DEF TypeOK
<1>9. TypeOK'
  BY <1>2, <1>6, <1>8 DEF TypeOK, Job
<1>10. HandlingInv' /\ DisjointInv' /\ DemandInv' /\ CoverInv'
  BY <1>2 DEF HandlingInv, DisjointInv, DemandInv, CoverInv
<1>11. JobsInv'
  <2>1. ASSUME NEW i \in DOMAIN jobs', jobs'[i].live
        PROVE  /\ i = Len(jobs') /\ wpc \in {"wait", "retry"}
               /\ \A c \in span \ jobs'[i].left : disk'[c] # "hole"
    <3>1. i \in DOMAIN jobs /\ jobs[i].live /\ jobs[i].left \subseteq jobs'[i].left \cup {b}
      BY <1>4, <1>6, <1>7, <2>1
    <3>2. /\ i = Len(jobs) /\ wpc \in {"wait", "retry"}
          /\ \A c \in span \ jobs[i].left : disk[c] # "hole"
      BY <3>1 DEF JobsInv
    <3>3. span \subseteq Block
      BY DEF TypeOK
    <3> QED BY <1>6, <1>8, <3>1, <3>2, <3>3
  <2>2. ASSUME wpc \in {"wait", "retry"} PROVE jobs' # << >> /\ jobs'[Len(jobs')].live
    <3>1. jobs[Len(jobs)].live
      BY <2>2 DEF JobsInv
    <3>2. Len(jobs) \in 1 .. Len(jobs)
      BY <1>3, <1>7
    <3>3. jobs'[Len(jobs)].live
      BY <1>4, <1>6, <3>1, <3>2
    <3>4. jobs' # << >>
      BY <1>6, <3>2, EmptySeq
    <3> QED BY <1>6, <3>3, <3>4
  <2> QED BY <1>2, <2>1, <2>2 DEF JobsInv
<1>12. WholeInv'
  BY <1>2, BlockFacts DEF WholeInv
<1>13. UnmarkedIsWhole' /\ CountedIsPresent' /\ NoGhostAfterMark' /\ IgnoredIsUnmarked'
  BY <1>2, <1>8 DEF UnmarkedIsWhole, CountedIsPresent, NoGhostAfterMark, IgnoredIsUnmarked, TypeOK
<1> QED BY <1>9, <1>10, <1>11, <1>12, <1>13

\* The end of a transfer nobody waits for.
LEMMA GhostEnds ==
  ASSUME AInv, jobs # << >>, jobs' = Tail(jobs), ~Head(jobs).live,
         UNCHANGED <<disk, marked, ignored, stamped, vouched, wpc, cur, have, todo, span,
                     status, op, demand, helper, watched>>
  PROVE  AInv'
<1> USE DEF AInv, IInv
<1>1. jobs' \in Seq(Job) /\ JobsInv'
  BY NextJob
<1>2. TypeOK' /\ HandlingInv' /\ DisjointInv' /\ DemandInv' /\ CoverInv'
  BY <1>1 DEF TypeOK, Job, HandlingInv, DisjointInv, DemandInv, CoverInv
<1>3. WholeInv' /\ UnmarkedIsWhole' /\ CountedIsPresent' /\ NoGhostAfterMark' /\ IgnoredIsUnmarked'
  BY DEF WholeInv, UnmarkedIsWhole, CountedIsPresent, NoGhostAfterMark, IgnoredIsUnmarked
<1> QED BY <1>1, <1>2, <1>3

\* A transfer that is waited for has brought its whole span.
LEMMA FinishedStep ==
  ASSUME AInv, Finished PROVE AInv'
<1> USE DEF AInv, IInv
<1>1. /\ jobs # << >> /\ Head(jobs).left = {} /\ jobs' = Tail(jobs)
      /\ UNCHANGED <<disk, marked, ignored, stamped, vouched, cur, status, op, demand, helper, watched>>
  BY DEF Finished, Report, fileVars, procVars
<1>2. CASE ~Head(jobs).live
  BY <1>1, <1>2, GhostEnds DEF Finished, Report, fillVars
<1>3. CASE Head(jobs).live
  <2>1. /\ wpc' = "fill" /\ have' = have \cup span /\ todo' = todo \ span /\ span' = {}
    BY <1>3 DEF Finished, Report
  <2>2. /\ jobs' = << >> /\ jobs' \in Seq(Job) /\ jobs[1].live /\ jobs[1].left = {}
        /\ 1 \in DOMAIN jobs
    BY <1>1, <1>3, NextJob
  <2>3. wpc \in {"wait", "retry"} /\ \A b \in span : disk[b] # "hole"
    BY <2>2 DEF JobsInv
  <2>4. TypeOK'
    BY <1>1, <2>1, <2>2 DEF TypeOK, Job
  <2>5. HandlingInv' /\ DisjointInv' /\ DemandInv'
    BY <1>1, <2>1, <2>3 DEF HandlingInv, DisjointInv, DemandInv
  <2>6. CoverInv'
    BY <1>1, <2>1, <2>3 DEF CoverInv
  <2>7. JobsInv'
    BY <2>1, <2>2, EmptySeq DEF JobsInv
  <2>8. WholeInv'
    BY <1>1, <2>1, <2>2 DEF WholeInv
  <2>9. UnmarkedIsWhole' /\ CountedIsPresent' /\ NoGhostAfterMark' /\ IgnoredIsUnmarked'
    BY <1>1, <2>1, <2>2, <2>3
       DEF UnmarkedIsWhole, CountedIsPresent, NoGhostAfterMark, IgnoredIsUnmarked
  <2> QED BY <2>4, <2>5, <2>6, <2>7, <2>8, <2>9
<1> QED BY <1>2, <1>3

\* A transfer that fails adds nothing to what is counted.
LEMMA FetchFailedStep ==
  ASSUME AInv, FetchFailed PROVE AInv'
<1> USE DEF AInv, IInv
<1>1. /\ jobs # << >> /\ jobs' = Tail(jobs)
      /\ UNCHANGED <<marked, ignored, cur, status, op, demand, helper, watched>>
  BY DEF FetchFailed, Report, procVars
<1>2. CASE ~Head(jobs).live
  BY <1>1, <1>2, GhostEnds DEF FetchFailed, Report, fillVars
<1>3. CASE Head(jobs).live
  <2>1. /\ wpc' = IF wpc = "wait" THEN "failed" ELSE "stamp"
        /\ UNCHANGED <<have, todo, span>>
    BY <1>3 DEF FetchFailed, Report, fillVars
  <2>2. jobs' = << >> /\ jobs' \in Seq(Job) /\ jobs[1].live /\ 1 \in DOMAIN jobs
    BY <1>1, <1>3, NextJob
  <2>3. wpc \in {"wait", "retry"}
    BY <2>2 DEF JobsInv
  <2>4. /\ disk' \in [Block -> Content] /\ stamped' \in BOOLEAN
        /\ vouched' \in {{}, vouched}
        /\ disk' # disk => vouched' = {}
        /\ \A b \in Block \ span : disk'[b] = disk[b]
    <3>1. CASE TryPunch(span)
      BY <3>1, TryPunchFacts
    <3>2. CASE UNCHANGED <<disk, stamped, vouched>>
      BY <3>2 DEF TypeOK
    <3> QED BY <3>1, <3>2 DEF FetchFailed
  <2>5. TypeOK'
    BY <1>1, <2>1, <2>2, <2>4 DEF TypeOK, Job
  <2>6. HandlingInv' /\ DisjointInv' /\ DemandInv' /\ CoverInv'
    BY <1>1, <2>1, <2>3 DEF HandlingInv, DisjointInv, DemandInv, CoverInv
  <2>7. JobsInv'
    BY <2>1, <2>2, EmptySeq DEF JobsInv
  <2>8. WholeInv'
    BY <2>1, <2>3, <2>4, BlockFacts DEF WholeInv
  <2>9. marked
    BY <2>3 DEF HandlingInv
  <2>10. CountedIsPresent'
    BY <2>1, <2>4 DEF CountedIsPresent, DisjointInv, TypeOK
  <2>11. UnmarkedIsWhole' /\ NoGhostAfterMark' /\ IgnoredIsUnmarked'
    BY <1>1, <2>2, <2>9 DEF UnmarkedIsWhole, NoGhostAfterMark, IgnoredIsUnmarked
  <2> QED BY <2>5, <2>6, <2>7, <2>8, <2>10, <2>11
<1> QED BY <1>2, <1>3

\* Every step preserves the invariant where the backup flag can be cleared.
LEMMA Inductive == ~NodumpCanFail /\ AInv /\ [Next]_vars => AInv'
<1> SUFFICES ASSUME ~NodumpCanFail, AInv, [Next]_vars PROVE AInv' OBVIOUS
<1>1. ASSUME NEW p \in Procs, Open(p) \/ Access(p) \/ Copy(p) \/ Land(p) \/ DrainDeny(p)
      PROVE  AInv'
  BY <1>1, AccessStep, CopyStep, LandStep, DrainDenyStep, HelperStep
<1>2. ASSUME NEW p \in Procs,
             HandleUnmarked(p) \/ Refuse(p) \/ HandleOurs(p) \/ HandleUnknown(p)
      PROVE  AInv'
  BY <1>2, HandleUnmarkedStep, RefuseStep, HandleOursStep, HandleUnknownStep
<1>3. CASE Transfer \/ Abandon \/ SpanFailed
  BY <1>3, TransferStep, AbandonStep, SpanFailedStep
<1>4. CASE StampFailure \/ SettleRange \/ Unmark
  BY <1>4, StampingStep
<1>5. CASE RecordFailure \/ Served \/ Hydrated \/ AbandonFile
  BY <1>5, AnsweringStep
<1>6. CASE ForgetOldest \/ Die \/ Close \/ Start
  BY <1>6, ForgetOldestStep, DieStep, HelperStep
<1>7. CASE Fetcher
  BY <1>7, WriteStep, FinishedStep, FetchFailedStep DEF Fetcher
<1>8. CASE UNCHANGED vars
  BY <1>8 DEF vars, fileVars, fillVars, procVars, AInv, IInv, TypeOK, HandlingInv, DisjointInv,
              JobsInv, WholeInv, DemandInv, CoverInv, UnmarkedIsWhole, CountedIsPresent,
              NoGhostAfterMark, IgnoredIsUnmarked
<1> QED BY <1>1, <1>2, <1>3, <1>4, <1>5, <1>6, <1>7, <1>8 DEF Next, Worker, Handle

\* The invariant holds in every reachable state, wherever clearing the backup
\* flag cannot fail.
THEOREM Invariance == ~NodumpCanFail /\ Spec => []AInv
<1> SUFFICES ASSUME ~NodumpCanFail PROVE Spec => []AInv OBVIOUS
<1>1. AInv /\ [Next]_vars => AInv'
  BY Inductive
<1> QED BY <1>1, InitAInv, PTL DEF Spec

\* Every variable keeps its type, and the worker, the fetch thread and the
\* processes keep to the states their code has.
THEOREM TypeCorrect == ~NodumpCanFail /\ Spec => []TypeOK
<1>1. AInv => TypeOK
  BY DEF AInv, IInv
<1> QED BY <1>1, Invariance, PTL

\* Whatever is punched, abandoned, retried or left running, a file without a
\* mark has every byte (daemon.rs:1209-1213).
THEOREM Whole == ~NodumpCanFail /\ Spec => []UnmarkedIsWhole
<1>1. AInv => UnmarkedIsWhole
  BY DEF AInv, IInv
<1> QED BY <1>1, Invariance, PTL

\* What the worker counts or remembers as filled is filled (partial.rs:143-151).
THEOREM Counted == ~NodumpCanFail /\ Spec => []CountedIsPresent
<1>1. AInv => CountedIsPresent
  BY DEF AInv, IInv
<1> QED BY <1>1, Invariance, PTL

\* No transfer, abandoned ones included, outlives the mark (daemon.rs:334-353).
THEOREM NoGhost == ~NodumpCanFail /\ Spec => []NoGhostAfterMark
<1>1. AInv => NoGhostAfterMark
  BY DEF AInv, IInv
<1> QED BY <1>1, Invariance, PTL

-----------------------------------------------------------------------------
(* The fills implement the promise of PreContent. *)

\* The initial states are the promise's.
LEMMA InitRefines == Init => Promise!Init
<1> SUFFICES ASSUME Init PROVE Promise!Init OBVIOUS
<1>1. Holes = Block
  BY DEF Init, Holes
<1> QED BY <1>1 DEF Init, Promise!Init

\* While the mark stays on, what happens to the content is the promise's Change.
LEMMA ChurnRefines ==
  ASSUME marked, marked', UNCHANGED <<status, demand, watched>> PROVE Promise!Next
BY DEF Holes, Promise!Next, Promise!Change, Promise!Churn

\* Accesses end, refused or done, while the content stays or the mark does.
LEMMA OverRefines ==
  ASSUME NEW S \in SUBSET Procs, Over(S), UNCHANGED <<marked, watched>>,
         Holes' = Holes \/ marked
  PROVE  Promise!Next
<1>1. Promise!End(S)
  BY DEF Over, Holes, Promise!End, Promise!Churn
<1> QED BY <1>1 DEF Promise!Next

\* An access is let through to blocks that are all there.
LEMMA AllowRefines ==
  ASSUME NEW p \in Procs, status[p] = "blocked", Allow(p), UNCHANGED <<marked, watched>>,
         Holes' = Holes \/ marked, demand[p] \cap Holes' = {}
  PROVE  Promise!Next
<1>1. Promise!Allow(p)
  BY DEF Allow, Holes, Promise!Allow, Promise!Churn
<1> QED BY <1>1 DEF Promise!Next

\* The processes ask, go on and finish as the promise says.
LEMMA ProcessRefines ==
  ASSUME AInv, NEW p \in Procs, Access(p) \/ Copy(p) \/ Land(p) PROVE Promise!Next
<1> USE DEF AInv, IInv
<1>1. CASE Access(p)
  <2>1. Holes' = Holes
    BY <1>1 DEF Access, fileVars, Holes
  <2>2. PICK d \in Demand : demand' = [demand EXCEPT ![p] = d]
    BY <1>1 DEF Access
  <2>3. d \in SUBSET Block
    BY SizeAssumption DEF Demand, Block
  <2>4. Promise!Ask(p)
    BY <1>1, <2>1, <2>2, <2>3 DEF Access, fileVars, IgnoredIsUnmarked, TypeOK, Promise!Ask
  <2> QED BY <2>4 DEF Promise!Next
<1>2. CASE Copy(p)
  <2>1. Over({p}) /\ UNCHANGED <<marked, watched>> /\ Holes' = Holes
    BY <1>2 DEF Copy, fileVars, Holes
  <2> QED BY <2>1, OverRefines
<1>3. CASE Land(p)
  <2>1. Over({p}) /\ UNCHANGED <<marked, watched>> /\ disk' = Put(demand[p], "user")
    BY <1>3 DEF Land
  <2>2. \A b \in Block : disk'[b] = "hole" => disk[b] = "hole"
    BY <2>1, PutFacts DEF TypeOK
  <2>3. Holes' = Holes \/ marked
    BY <2>2 DEF Holes, UnmarkedIsWhole
  <2> QED BY <2>1, <2>3, OverRefines
<1> QED BY <1>1, <1>2, <1>3

\* Answering at once lets through only to what is there.
LEMMA HandleRefines ==
  ASSUME AInv, NEW p \in Procs,
         HandleUnmarked(p) \/ Refuse(p) \/ HandleOurs(p) \/ HandleUnknown(p)
  PROVE  Promise!Next \/ UNCHANGED <<marked, Holes, status, demand, watched>>
<1> USE DEF AInv, IInv
<1>1. CASE HandleUnmarked(p)
  <2>1. /\ status[p] = "blocked" /\ Allow(p) /\ UNCHANGED <<marked, watched>> /\ ~marked
        /\ Holes' = Holes
    BY <1>1 DEF HandleUnmarked, Holes
  <2>2. demand[p] \cap Holes' = {}
    BY <2>1 DEF Holes, UnmarkedIsWhole
  <2> QED BY <2>1, <2>2, AllowRefines
<1>2. CASE Refuse(p)
  <2>1. Over({p}) /\ UNCHANGED <<marked, watched>> /\ Holes' = Holes
    BY <1>2 DEF Refuse, Deny, fileVars, Holes
  <2> QED BY <2>1, OverRefines
<1>3. CASE HandleOurs(p)
  <2>1. UNCHANGED <<marked, watched>> /\ Holes' = Holes /\ status[p] = "blocked"
    BY <1>3 DEF HandleOurs, fileVars, Holes
  <2>2. CASE demand[p] \subseteq vouched
    <3>1. Allow(p)
      BY <1>3, <2>2 DEF HandleOurs
    <3>2. demand[p] \cap Holes' = {}
      BY <2>1, <2>2 DEF Holes, CountedIsPresent
    <3> QED BY <2>1, <3>1, <3>2, AllowRefines
  <2>3. CASE ~(demand[p] \subseteq vouched)
    BY <1>3, <2>1, <2>3 DEF HandleOurs, procVars
  <2> QED BY <2>2, <2>3
<1>4. CASE HandleUnknown(p)
  <2>1. marked /\ UNCHANGED <<marked, watched>> /\ status[p] = "blocked"
    BY <1>4 DEF HandleUnknown
  <2>2. CASE Allow(p) /\ demand[p] = {}
    BY <2>1, <2>2, AllowRefines
  <2>3. CASE Deny(p)
    BY <2>1, <2>3, OverRefines DEF Deny
  <2>4. CASE UNCHANGED procVars
    BY <2>1, <2>4, ChurnRefines DEF procVars
  <2> QED BY <1>4, <2>2, <2>3, <2>4 DEF HandleUnknown
<1> QED BY <1>1, <1>2, <1>3, <1>4

\* Filling, rolling back and retrying happen under the mark.
LEMMA FillRefines ==
  ASSUME AInv, Transfer \/ Abandon \/ SpanFailed \/ StampFailure \/ SettleRange \/ Fetcher
  PROVE  Promise!Next
<1> USE DEF AInv, IInv
<1>1. marked
  BY DEF Transfer, Abandon, SpanFailed, StampFailure, SettleRange, Fetcher, Write, Finished,
         FetchFailed, HandlingInv, NoGhostAfterMark
<1>2. UNCHANGED <<marked, watched>> /\ UNCHANGED <<status, demand, watched>>
  BY DEF Transfer, Abandon, SpanFailed, StampFailure, SettleRange, Fetcher, Write, Finished,
         FetchFailed, procVars, fileVars
<1> QED BY <1>1, <1>2, ChurnRefines

\* The answers that end a fill let through only to what is there.
LEMMA AnswerRefines ==
  ASSUME AInv, ~NodumpCanFail, RecordFailure \/ Served \/ Unmark \/ Hydrated \/ AbandonFile
  PROVE  Promise!Next
<1> USE DEF AInv, IInv
<1>1. wpc \in {"record", "settled", "fill", "unmarked"}
  BY DEF RecordFailure, Served, Unmark, Hydrated, AbandonFile
<1>2. cur \in Procs /\ status[cur] = "blocked"
  BY <1>1 DEF HandlingInv, TypeOK
<1>3. CASE RecordFailure
  <2>1. Over({cur}) /\ UNCHANGED <<marked, watched>> /\ Holes' = Holes
    BY <1>3 DEF RecordFailure, Deny, fileVars, Holes
  <2> QED BY <1>2, <2>1, OverRefines
<1>4. CASE Served
  <2>1. Allow(cur) /\ UNCHANGED <<marked, watched>> /\ Holes' = Holes
    BY <1>4 DEF Served, fileVars, Holes
  <2>2. demand[cur] \cap Holes' = {}
    BY <1>4, <2>1 DEF Served, CoverInv, CountedIsPresent, Holes
  <2> QED BY <1>2, <2>1, <2>2, AllowRefines
<1>5. CASE Unmark
  <2>1. Holes = {} /\ Holes' = Holes /\ marked
    BY <1>5 DEF Unmark, Holes, CountedIsPresent, HandlingInv
  <2>2. Promise!Complete
    BY <1>5, <2>1 DEF Unmark, procVars, Promise!Complete
  <2> QED BY <2>2 DEF Promise!Next
<1>6. CASE Hydrated
  <2>1. Allow(cur) /\ UNCHANGED <<marked, watched>> /\ Holes' = Holes /\ ~marked
    BY <1>6 DEF Hydrated, Holes, HandlingInv
  <2>2. demand[cur] \cap Holes' = {}
    BY <2>1 DEF UnmarkedIsWhole, Holes
  <2> QED BY <1>2, <2>1, <2>2, AllowRefines
<1>7. CASE AbandonFile
  <2>1. Over({cur}) /\ UNCHANGED <<marked, watched>> /\ marked
    BY <1>7 DEF AbandonFile, Deny, HandlingInv
  <2> QED BY <1>2, <2>1, OverRefines
<1> QED BY <1>3, <1>4, <1>5, <1>6, <1>7

\* Every step is a step of the promise or changes nothing it speaks of.
LEMMA StepRefines ==
  ASSUME AInv, ~NodumpCanFail, [Next]_vars
  PROVE  Promise!Next \/ UNCHANGED <<marked, Holes, status, demand, watched>>
<1>1. ASSUME NEW p \in Procs, Access(p) \/ Copy(p) \/ Land(p) PROVE Promise!Next
  BY <1>1, ProcessRefines
<1>2. CASE Handle
  BY <1>2, HandleRefines DEF Handle
<1>3. CASE Transfer \/ Abandon \/ SpanFailed \/ StampFailure \/ SettleRange \/ Fetcher
  BY <1>3, FillRefines
<1>4. CASE RecordFailure \/ Served \/ Unmark \/ Hydrated \/ AbandonFile
  BY <1>4, AnswerRefines
<1>5. CASE ForgetOldest \/ UNCHANGED vars
  BY <1>5 DEF ForgetOldest, vars, fileVars, procVars, Holes
<1>6. ASSUME NEW p \in Procs, Open(p) \/ DrainDeny(p) PROVE Promise!Next
  <2>1. CASE Open(p)
    <3>1. Promise!Join(p)
      BY <2>1 DEF Open, fileVars, procVars, Holes, Promise!Join
    <3> QED BY <3>1 DEF Promise!Next
  <2>2. CASE DrainDeny(p)
    <3>1. Over({p}) /\ UNCHANGED <<marked, watched>> /\ Holes' = Holes
      BY <2>2 DEF DrainDeny, Deny, fileVars, Holes
    <3> QED BY <3>1, OverRefines
  <2> QED BY <1>6, <2>1, <2>2
<1>7. CASE Close
  <2>1. Promise!Leave
    BY <1>7 DEF Close, Holes, Promise!Leave
  <2> QED BY <2>1 DEF Promise!Next
<1>8. CASE Die \/ Start
  BY <1>8 DEF Die, Start, fileVars, procVars, Holes
<1> QED BY <1>1, <1>2, <1>3, <1>4, <1>5, <1>6, <1>7, <1>8 DEF Next, Worker

\* Every behaviour of the worker, the fetch thread and the processes is one the
\* promise allows: until the group closes nobody is let through to a block that is
\* not there, and nothing is taken from a file without a mark (daemon.rs:1185-1213).
THEOREM Refines == ~NodumpCanFail /\ Spec => ImplementsPromise
<1> SUFFICES ASSUME ~NodumpCanFail PROVE Spec => Promise!Spec
  BY DEF ImplementsPromise
<1>1. AInv /\ [Next]_vars => [Promise!Next]_<<marked, Holes, status, demand, watched>>
  BY StepRefines
<1>2. Spec => []AInv
  BY Invariance
<1> QED BY <1>1, <1>2, InitRefines, PTL DEF Spec, Promise!Spec, Promise!vars
=============================================================================

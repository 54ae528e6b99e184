----------------------------- MODULE PreContent -----------------------------
(***************************************************************************)
(* What hydration promises about one file, whatever fills it and in        *)
(* whatever pieces: while the file is marked its content comes and goes,   *)
(* but nobody is let through to a block that is not there; the mark goes   *)
(* only when all of it is there, and after that nothing is taken away.     *)
(* The promise is made to processes on a mount that is watched: when its   *)
(* last guardian leaves, whoever is still blocked is let through to        *)
(* whatever there is, and a descriptor on that mount is not watched again. *)
(***************************************************************************)
EXTENDS Naturals

CONSTANTS
  Block,   \* the blocks of the file
  Procs    \* processes that access it

VARIABLES
  marked,  \* the file is a placeholder
  holes,   \* the blocks that are not there
  status,  \* per process: "idle", "blocked" on an event, or "allowed" to go on
  demand,  \* per process: the blocks its access covers
  watched  \* the processes on a mount that is watched

vars == <<marked, holes, status, demand, watched>>

Init ==
  /\ marked = TRUE
  /\ holes = Block
  /\ status = [p \in Procs |-> "idle"]
  /\ demand = [p \in Procs |-> {}]
  /\ watched = Procs

\* An access to a file that is there may be let through at once; one that is not
\* watched is.
Ask(p) ==
  /\ status[p] = "idle"
  /\ \E d \in SUBSET Block : demand' = [demand EXCEPT ![p] = d]
  /\ \/ p \in watched /\ status' = [status EXCEPT ![p] = "blocked"]
     \/ /\ ~marked \/ p \notin watched
        /\ status' = [status EXCEPT ![p] = "allowed"]
  /\ UNCHANGED <<marked, holes, watched>>

\* Content comes and goes while the file is marked.
Churn == marked /\ marked' /\ holes' \in SUBSET Block

Change == Churn /\ UNCHANGED <<status, demand, watched>>

Complete ==
  /\ marked /\ holes = {}
  /\ marked' = FALSE
  /\ UNCHANGED <<holes, status, demand, watched>>

Allow(p) ==
  /\ status[p] = "blocked"
  /\ status' = [status EXCEPT ![p] = "allowed"]
  /\ Churn \/ UNCHANGED <<marked, holes>>
  /\ demand[p] \cap holes' = {}
  /\ UNCHANGED <<demand, watched>>

\* Some accesses end, refused or done; a write leaves fewer holes.
End(S) ==
  /\ status' = [p \in Procs |-> IF p \in S THEN "idle" ELSE status[p]]
  /\ demand' = [p \in Procs |-> IF p \in S THEN {} ELSE demand[p]]
  /\ Churn \/ UNCHANGED <<marked, holes>>
  /\ UNCHANGED watched

\* Nobody watches any more: whoever is blocked goes on.
Leave ==
  /\ status' = [p \in Procs |-> IF status[p] = "blocked" THEN "allowed" ELSE status[p]]
  /\ watched' = {}
  /\ UNCHANGED <<marked, holes, demand>>

\* A process opens the file through a mount that is watched.
Join(p) ==
  /\ status[p] = "idle"
  /\ watched' = watched \cup {p}
  /\ UNCHANGED <<marked, holes, status, demand>>

Next ==
  \/ \E p \in Procs : Ask(p) \/ Allow(p) \/ Join(p)
  \/ Change \/ Complete \/ Leave
  \/ \E S \in SUBSET Procs : End(S)

Spec == Init /\ [][Next]_vars

\* The promise, on a state: what has no mark has no hole.
NoMarkNoHole == ~marked => holes = {}
=============================================================================

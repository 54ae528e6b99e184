---------------------------- MODULE TokensProofs ----------------------------
(***************************************************************************)
(* For every number of callers, every bound and every length of a backoff: *)
(* what the cache knows of the credential is what the service and the disk *)
(* have said of it, and the service is asked no more often than that       *)
(* allows.                                                                 *)
(***************************************************************************)
EXTENDS Tokens, FiniteSetTheorems, TLAPS

-----------------------------------------------------------------------------
(* The inductive invariant.  The refusals counted are those there were,    *)
(* and who makes a request does so while the credential stands: else one   *)
(* more refusal could come on top of the last.                             *)

Counted == streak = rejections
Standing == lock # None => ~ rejected

IInv == CredentialIsKnown /\ Counted /\ Standing

\* The flags say nothing of their own: a sentence is MaxRejections refusals, and the mirror shows it.
LEMMA FlagsFollow ==
    ASSUME rejected \in BOOLEAN, storeError \in BOOLEAN, HealthAgrees,
           rejected <=> rejections = MaxRejections, rejections \in 0 .. MaxRejections, Counted
    PROVE  FlagsOK /\ GivenUpOnEvidence
<1>1. observed \in [signedIn : BOOLEAN, storeError : BOOLEAN]
  BY DEF HealthAgrees
<1>2. rejections = MaxRejections <=> streak >= MaxRejections
  BY TokensAssumption DEF Counted
<1> QED BY <1>1, <1>2 DEF FlagsOK, GivenUpOnEvidence

LEMMA InitIInv == Init => IInv
<1> SUFFICES ASSUME Init PROVE IInv OBVIOUS
<1>1. access \in {0, 1} /\ expiry = access * Lifetime /\ refresh \in {access, 1} /\ disk = refresh
  BY DEF Init
<1>2. failures = 0 /\ rejections = 0 /\ notBefore = 0 /\ lastFailure = 0 /\ attempts = 0
  BY DEF Init
<1>3. expiry \in Nat
  <2>1. CASE access = 0 BY <1>1, <2>1, TokensAssumption
  <2>2. CASE access = 1 BY <1>1, <2>2, TokensAssumption
  <2> QED BY <1>1, <2>1, <2>2
<1>4. CacheOK
  BY <1>1, <1>2, <1>3, TokensAssumption DEF CacheOK
<1>5. CallersOK
  BY TokensAssumption DEF Init, CallersOK
<1>6. WorldOK
  BY <1>1, TokensAssumption DEF Init, WorldOK
<1>7. ~ rejected /\ ~ storeError /\ rejected \in BOOLEAN /\ storeError \in BOOLEAN
  BY DEF Init
<1>8. HealthAgrees
  BY <1>7 DEF Init, HealthAgrees
<1>9. Counted /\ Standing
  BY <1>2, <1>7 DEF Init, Counted, Standing
<1>10. rejected <=> rejections = MaxRejections
  BY <1>2, <1>7, TokensAssumption
<1>11. FlagsOK /\ GivenUpOnEvidence
  BY <1>2, <1>7, <1>8, <1>9, <1>10, FlagsFollow, TokensAssumption
<1>12. StoreFollows
  BY <1>1 DEF StoreFollows
<1> QED BY <1>4, <1>5, <1>6, <1>8, <1>9, <1>11, <1>12 DEF IInv, CredentialIsKnown, TypeOK

-----------------------------------------------------------------------------
(* The steps that leave the cache, the mirror and the counts alone.        *)

LEMMA Aside ==
    ASSUME IInv, UNCHANGED <<cache, observed, world, streak, fails>>,
           attempts' \in Nat, lastFailure \in 0 .. attempts', CallersOK', WorldOK', Standing'
    PROVE  IInv'
<1>1. CacheOK'
  BY DEF IInv, CredentialIsKnown, TypeOK, CacheOK, cache
<1>2. FlagsOK'
  BY DEF IInv, CredentialIsKnown, TypeOK, FlagsOK, cache, world
<1>3. GivenUpOnEvidence' /\ StoreFollows' /\ HealthAgrees' /\ Counted'
  BY DEF IInv, CredentialIsKnown, GivenUpOnEvidence, StoreFollows, HealthAgrees, Counted, cache, world
<1> QED BY <1>1, <1>2, <1>3 DEF IInv, CredentialIsKnown, TypeOK

LEMMA ArriveKeeps == ASSUME IInv, NEW c \in Caller, Arrive(c) PROVE IInv'
<1>1. CallersOK'
  BY TokensAssumption DEF Arrive, IInv, CredentialIsKnown, TypeOK, CacheOK, CallersOK
<1>2. WorldOK'
  BY TokensAssumption DEF Arrive, IInv, CredentialIsKnown, TypeOK, WorldOK, world, bounds, history
<1>3. Standing'
  BY DEF Arrive, IInv, Standing, cache
<1>4. attempts' \in Nat /\ lastFailure \in 0 .. attempts'
  BY DEF Arrive, IInv, CredentialIsKnown, TypeOK, CacheOK
<1>5. UNCHANGED <<cache, observed, world, streak, fails>>
  BY DEF Arrive, history
<1> QED BY <1>1, <1>2, <1>3, <1>4, <1>5, Aside

LEMMA AnsweredKeeps == ASSUME IInv, NEW c \in Caller, Answered(c) PROVE IInv'
<1>1. CallersOK'
  BY TokensAssumption DEF Answered, Return, IInv, CredentialIsKnown, TypeOK, CallersOK
<1>2. WorldOK'
  BY TokensAssumption DEF Answered, IInv, CredentialIsKnown, TypeOK, WorldOK, world, bounds, history
<1>3. Standing'
  BY DEF Answered, IInv, Standing, cache
<1>4. attempts' \in Nat /\ lastFailure \in 0 .. attempts'
  BY DEF Answered, IInv, CredentialIsKnown, TypeOK, CacheOK
<1>5. UNCHANGED <<cache, observed, world, streak, fails>>
  BY DEF Answered, history
<1> QED BY <1>1, <1>2, <1>3, <1>4, <1>5, Aside

LEMMA PostKeeps == ASSUME IInv, NEW c \in Caller, Post(c) PROVE IInv'
<1>1. CallersOK'
  BY TokensAssumption DEF Post, IInv, CredentialIsKnown, TypeOK, CallersOK, WorldOK
<1>2. WorldOK'
  BY TokensAssumption DEF Post, IInv, CredentialIsKnown, TypeOK, WorldOK, world, bounds, history
<1>3. Standing'
  BY DEF Post, Refused, IInv, Standing, cache
<1>4. attempts' \in Nat /\ lastFailure \in 0 .. attempts'
  BY DEF Post, IInv, CredentialIsKnown, TypeOK, CacheOK
<1>5. UNCHANGED <<cache, observed, world, streak, fails>>
  BY DEF Post, history
<1> QED BY <1>1, <1>2, <1>3, <1>4, <1>5, Aside

LEMMA FinishKeeps == ASSUME IInv, NEW c \in Caller, Finish(c) PROVE IInv'
<1>1. CallersOK'
  BY TokensAssumption DEF Finish, IInv, CredentialIsKnown, TypeOK, CallersOK
<1>2. WorldOK'
  BY TokensAssumption DEF Finish, IInv, CredentialIsKnown, TypeOK, WorldOK, world, bounds, history
<1>3. Standing'
  BY DEF Finish, IInv, Standing, cache
<1>4. attempts' \in Nat /\ lastFailure \in 0 .. attempts'
  BY DEF Finish, IInv, CredentialIsKnown, TypeOK, CacheOK
<1>5. UNCHANGED <<cache, observed, world, streak, fails>>
  BY DEF Finish, history
<1> QED BY <1>1, <1>2, <1>3, <1>4, <1>5, Aside

LEMMA BeginKeeps == ASSUME IInv, Begin PROVE IInv'
<1>1. CallersOK'
  BY TokensAssumption DEF Begin, callers, IInv, CredentialIsKnown, TypeOK, CallersOK
<1>2. WorldOK'
  BY TokensAssumption DEF Begin, IInv, CredentialIsKnown, TypeOK, WorldOK, world, bounds, history
<1>3. Standing'
  BY DEF Begin, IInv, Standing, cache
<1>4. attempts' \in Nat /\ lastFailure \in 0 .. attempts'
  BY DEF Begin, IInv, CredentialIsKnown, TypeOK, CacheOK
<1>5. UNCHANGED <<cache, observed, world, streak, fails>>
  BY DEF Begin, history
<1> QED BY <1>1, <1>2, <1>3, <1>4, <1>5, Aside

LEMMA PollKeeps == ASSUME IInv, Poll PROVE IInv'
<1>1. CallersOK'
  BY TokensAssumption DEF Poll, callers, IInv, CredentialIsKnown, TypeOK, CallersOK
<1>2. WorldOK'
  BY TokensAssumption DEF Poll, IInv, CredentialIsKnown, TypeOK, WorldOK, world, bounds, history
<1>3. Standing'
  BY DEF Poll, IInv, Standing, cache
<1>4. attempts' \in Nat /\ lastFailure \in 0 .. attempts'
  BY DEF Poll, IInv, CredentialIsKnown, TypeOK, CacheOK
<1>5. UNCHANGED <<cache, observed, world, streak, fails>>
  BY DEF Poll, history
<1> QED BY <1>1, <1>2, <1>3, <1>4, <1>5, Aside

LEMMA TickKeeps == ASSUME IInv, Tick PROVE IInv'
<1>1. CallersOK'
  BY TokensAssumption DEF Tick, callers, IInv, CredentialIsKnown, TypeOK, CallersOK
<1>2. WorldOK'
  BY TokensAssumption DEF Tick, IInv, CredentialIsKnown, TypeOK, WorldOK, world, bounds, history
<1>3. Standing'
  BY DEF Tick, IInv, Standing, cache
<1>4. attempts' \in Nat /\ lastFailure \in 0 .. attempts'
  BY DEF Tick, IInv, CredentialIsKnown, TypeOK, CacheOK
<1>5. UNCHANGED <<cache, observed, world, streak, fails>>
  BY DEF Tick, history
<1> QED BY <1>1, <1>2, <1>3, <1>4, <1>5, Aside

LEMMA StutterKeeps == ASSUME IInv, UNCHANGED vars PROVE IInv'
<1>1. CallersOK'
  BY TokensAssumption DEF vars, callers, IInv, CredentialIsKnown, TypeOK, CallersOK
<1>2. WorldOK'
  BY TokensAssumption DEF vars, IInv, CredentialIsKnown, TypeOK, WorldOK, world, bounds, history
<1>3. Standing'
  BY DEF vars, IInv, Standing, cache
<1>4. attempts' \in Nat /\ lastFailure \in 0 .. attempts'
  BY DEF vars, IInv, CredentialIsKnown, TypeOK, CacheOK
<1>5. UNCHANGED <<cache, observed, world, streak, fails>>
  BY DEF vars, history
<1> QED BY <1>1, <1>2, <1>3, <1>4, <1>5, Aside

-----------------------------------------------------------------------------
(* The steps that take in an outcome.                                      *)

\* What a reply installs has its type, and is written down or known not to be.
LEMMA InstallKeeps ==
    ASSUME IInv, NEW reply \in 0 .. MaxIssued, issued' \in 1 .. MaxIssued, Install(reply)
    PROVE  /\ access' \in 0 .. MaxIssued /\ refresh' \in 0 .. MaxIssued /\ disk' \in 0 .. MaxIssued
           /\ expiry' \in Nat /\ storeError' \in BOOLEAN /\ StoreFollows'
<1>1. refresh' \in 0 .. MaxIssued /\ access' \in 0 .. MaxIssued
  BY TokensAssumption DEF Install, IInv, CredentialIsKnown, TypeOK, CacheOK
<1>2. expiry' \in Nat
  BY TokensAssumption DEF Install, IInv, CredentialIsKnown, TypeOK, WorldOK
<1>3. disk' \in 0 .. MaxIssued
  BY <1>1 DEF Install, Persist, IInv, CredentialIsKnown, TypeOK, WorldOK
<1>4. storeError' \in BOOLEAN
  BY DEF Install, Persist, IInv, CredentialIsKnown, TypeOK, FlagsOK
<1>5. StoreFollows'
  BY DEF Install, Persist, IInv, CredentialIsKnown, StoreFollows
<1> QED BY <1>1, <1>2, <1>3, <1>4, <1>5

\* A success, a sign-in or a start leaves nothing of the past, and publishes that.
LEMMA ClearKeeps ==
    ASSUME ClearFailures, Publish, storeError' \in BOOLEAN
    PROVE  /\ failures' = 0 /\ rejections' = 0 /\ notBefore' = 0 /\ lastFailure' = 0
           /\ missed' = {} /\ streak' = 0 /\ fails' = 0
           /\ FlagsOK' /\ GivenUpOnEvidence' /\ HealthAgrees' /\ Counted' /\ Standing'
<1>1. /\ failures' = 0 /\ rejections' = 0 /\ notBefore' = 0 /\ lastFailure' = 0
      /\ missed' = {} /\ streak' = 0 /\ fails' = 0
  BY DEF ClearFailures
<1>2. ~ rejected' /\ rejected' \in BOOLEAN
  BY DEF ClearFailures
<1>3. HealthAgrees'
  BY DEF Publish, HealthAgrees
<1>4. Counted' /\ Standing'
  BY <1>1, <1>2 DEF Counted, Standing
<1>5. rejected' <=> rejections' = MaxRejections
  BY <1>1, <1>2, TokensAssumption
<1>6. FlagsOK' /\ GivenUpOnEvidence'
  <2>1. observed' \in [signedIn : BOOLEAN, storeError : BOOLEAN]
    BY <1>3 DEF HealthAgrees
  <2>2. ~ (streak' >= MaxRejections)
    BY <1>1, TokensAssumption
  <2> QED BY <1>2, <1>5, <2>1, <2>2 DEF FlagsOK, GivenUpOnEvidence
<1> QED BY <1>1, <1>3, <1>4, <1>6

\* After a request the lock is free and its holder idle again.
LEMMA Released ==
    ASSUME IInv, NEW c \in Caller, pc[c] = "posted", Return(c), lock' = None, began' = began
    PROVE  CallersOK'
<1>1. lock = c
  BY DEF IInv, CredentialIsKnown, TypeOK, CallersOK
<1> QED BY <1>1, TokensAssumption DEF Return, IInv, CredentialIsKnown, TypeOK, CallersOK

LEMMA RefreshedKeeps == ASSUME IInv, NEW c \in Caller, Refreshed(c) PROVE IInv'
<1>1. issued' \in 1 .. MaxIssued
  BY TokensAssumption DEF Refreshed, IInv, CredentialIsKnown, TypeOK, WorldOK
<1>2. PICK reply \in {0, refresh, issued'} : Install(reply)
  BY DEF Refreshed
<1>3. reply \in 0 .. MaxIssued
  BY <1>1, TokensAssumption DEF IInv, CredentialIsKnown, TypeOK, CacheOK
<1>4. /\ access' \in 0 .. MaxIssued /\ refresh' \in 0 .. MaxIssued /\ disk' \in 0 .. MaxIssued
      /\ expiry' \in Nat /\ storeError' \in BOOLEAN /\ StoreFollows'
  BY <1>1, <1>2, <1>3, InstallKeeps
<1>5. ClearFailures /\ Publish
  BY DEF Refreshed
<1>6. /\ failures' = 0 /\ rejections' = 0 /\ notBefore' = 0 /\ lastFailure' = 0
      /\ missed' = {} /\ streak' = 0 /\ fails' = 0
      /\ FlagsOK' /\ GivenUpOnEvidence' /\ HealthAgrees' /\ Counted' /\ Standing'
  BY <1>4, <1>5, ClearKeeps
<1>7. CallersOK'
  BY Released DEF Refreshed
<1>8. attempts' \in Nat
  BY DEF Refreshed, IInv, CredentialIsKnown, TypeOK, CacheOK
<1>9. CacheOK'
  BY <1>4, <1>6, <1>8, TokensAssumption DEF CacheOK
<1>10. WorldOK'
  <2>1. spent' \subseteq 1 .. MaxIssued
    <3>1. spent \subseteq 1 .. MaxIssued /\ stale[c] \in 0 .. MaxIssued
      BY DEF IInv, CredentialIsKnown, TypeOK, WorldOK, CallersOK
    <3>2. spent' = IF stale[c] # 0 THEN spent \cup {stale[c]} ELSE spent
      BY DEF Refreshed
    <3>3. CASE stale[c] # 0
      <4>1. stale[c] \in 1 .. MaxIssued BY <3>1, <3>3, TokensAssumption
      <4> QED BY <3>1, <3>2, <3>3, <4>1
    <3>4. CASE stale[c] = 0 BY <3>1, <3>2, <3>4
    <3> QED BY <3>3, <3>4
  <2> QED BY <1>1, <1>4, <1>6, <2>1 DEF Refreshed, bounds, IInv, CredentialIsKnown, TypeOK, WorldOK
<1> QED BY <1>4, <1>6, <1>7, <1>9, <1>10 DEF IInv, CredentialIsKnown, TypeOK

\* A failure adds one to both counts of refusals, or starts both again.
LEMMA FailedKeeps == ASSUME IInv, NEW c \in Caller, Failed(c) PROVE IInv'
<1>1. PICK e \in Failures : /\ NoteFailure(e = "invalid_grant")
                            /\ streak' = IF e = "invalid_grant" THEN streak + 1 ELSE 0
  BY DEF Failed
<1> DEFINE refusal == e = "invalid_grant"
<1>2. /\ failures' = failures + 1 /\ rejections' = (IF refusal THEN rejections + 1 ELSE 0)
      /\ streak' = (IF refusal THEN streak + 1 ELSE 0) /\ fails' = fails + 1
      /\ lastFailure' = attempts /\ attempts' = attempts /\ UNCHANGED <<access, expiry, refresh, storeError, disk>>
  BY <1>1 DEF NoteFailure, Failed
<1>3. (rejected' = (rejections' >= MaxRejections)) /\ Publish /\ storeError' = storeError
  BY <1>1 DEF NoteFailure
<1> HIDE DEF refusal
<1>4. ~ rejected
  BY TokensAssumption DEF Failed, IInv, CredentialIsKnown, TypeOK, CallersOK, Standing
<1>5. rejections < MaxRejections
  BY <1>4, TokensAssumption DEF IInv, CredentialIsKnown, TypeOK, CacheOK, FlagsOK
<1>6. CacheOK'
  BY <1>2, <1>5, TokensAssumption DEF IInv, CredentialIsKnown, TypeOK, CacheOK
<1>7. Counted' /\ streak' \in 0 .. fails' /\ fails' \in Nat
  BY <1>2, TokensAssumption DEF IInv, CredentialIsKnown, TypeOK, CacheOK, WorldOK, Counted
<1>8. rejected' \in BOOLEAN /\ (rejected' <=> rejections' >= MaxRejections) /\ storeError' \in BOOLEAN
  <2>1. storeError' \in BOOLEAN
    BY <1>3 DEF IInv, CredentialIsKnown, TypeOK, FlagsOK
  <2>2. (rejections' >= MaxRejections) \in BOOLEAN
    BY <1>6, TokensAssumption DEF CacheOK
  <2> QED BY <1>3, <2>1, <2>2, Zenon
<1>9. HealthAgrees'
  BY <1>3 DEF Publish, HealthAgrees
<1>10. rejections' >= MaxRejections <=> rejections' = MaxRejections
  BY <1>6, TokensAssumption DEF CacheOK
<1>11. FlagsOK' /\ GivenUpOnEvidence'
  <2>1. observed' \in [signedIn : BOOLEAN, storeError : BOOLEAN]
    BY <1>8, <1>9 DEF HealthAgrees
  <2>2. streak' = rejections'
    BY <1>7 DEF Counted
  <2> QED BY <1>8, <1>10, <2>1, <2>2 DEF FlagsOK, GivenUpOnEvidence
<1>12. StoreFollows'
  BY <1>2 DEF IInv, CredentialIsKnown, StoreFollows
<1>13. CallersOK'
  BY Released DEF Failed
<1>14. WorldOK'
  BY <1>2, <1>7 DEF Failed, bounds, IInv, CredentialIsKnown, TypeOK, WorldOK
<1>15. Standing'
  BY DEF Failed, Standing
<1> QED BY <1>6, <1>7, <1>9, <1>11, <1>12, <1>13, <1>14, <1>15 DEF IInv, CredentialIsKnown, TypeOK

LEMMA SignInKeeps == ASSUME IInv, SignIn PROVE IInv'
<1>1. issued' \in 1 .. MaxIssued
  BY TokensAssumption DEF SignIn, IInv, CredentialIsKnown, TypeOK, WorldOK
<1>2. PICK reply \in {0, issued'} : Install(reply)
  BY DEF SignIn
<1>3. reply \in 0 .. MaxIssued
  BY <1>1, TokensAssumption
<1>4. /\ access' \in 0 .. MaxIssued /\ refresh' \in 0 .. MaxIssued /\ disk' \in 0 .. MaxIssued
      /\ expiry' \in Nat /\ storeError' \in BOOLEAN /\ StoreFollows'
  BY <1>1, <1>2, <1>3, InstallKeeps
<1>5. ClearFailures /\ Publish
  BY DEF SignIn
<1>6. /\ failures' = 0 /\ rejections' = 0 /\ notBefore' = 0 /\ lastFailure' = 0
      /\ missed' = {} /\ streak' = 0 /\ fails' = 0
      /\ FlagsOK' /\ GivenUpOnEvidence' /\ HealthAgrees' /\ Counted' /\ Standing'
  BY <1>4, <1>5, ClearKeeps
<1>7. CallersOK'
  BY DEF SignIn, callers, IInv, CredentialIsKnown, TypeOK, CallersOK
<1>8. attempts' \in Nat
  BY DEF SignIn, IInv, CredentialIsKnown, TypeOK, CacheOK
<1>9. CacheOK'
  BY <1>4, <1>6, <1>8, TokensAssumption DEF CacheOK
<1>10. WorldOK'
  BY <1>1, <1>4, <1>6 DEF SignIn, bounds, IInv, CredentialIsKnown, TypeOK, WorldOK
<1> QED BY <1>4, <1>6, <1>7, <1>9, <1>10 DEF IInv, CredentialIsKnown, TypeOK

LEMMA CrashKeeps == ASSUME IInv, Crash PROVE IInv'
<1>1. storeError' \in BOOLEAN /\ disk' = disk /\ refresh' = disk' /\ access' = 0 /\ expiry' = 0
  BY DEF Crash, Adopt
<1>2. ClearFailures /\ Publish
  BY DEF Crash, Adopt
<1>3. /\ failures' = 0 /\ rejections' = 0 /\ notBefore' = 0 /\ lastFailure' = 0
      /\ missed' = {} /\ streak' = 0 /\ fails' = 0
      /\ FlagsOK' /\ GivenUpOnEvidence' /\ HealthAgrees' /\ Counted' /\ Standing'
  BY <1>1, <1>2, ClearKeeps
<1>4. attempts' = 0
  BY DEF Crash
<1>5. CacheOK'
  BY <1>1, <1>3, <1>4, TokensAssumption DEF IInv, CredentialIsKnown, TypeOK, WorldOK, CacheOK
<1>6. CallersOK'
  BY TokensAssumption DEF Crash, CallersOK
<1>7. WorldOK'
  BY <1>1, <1>3, TokensAssumption DEF Crash, IInv, CredentialIsKnown, TypeOK, WorldOK
<1>8. StoreFollows'
  BY <1>1 DEF StoreFollows
<1> QED BY <1>3, <1>5, <1>6, <1>7, <1>8 DEF IInv, CredentialIsKnown, TypeOK

LEMMA Inductive == IInv /\ [Next]_vars => IInv'
<1> SUFFICES ASSUME IInv, [Next]_vars PROVE IInv' OBVIOUS
<1>1. ASSUME NEW c \in Caller, Arrive(c) \/ CallerStep(c) PROVE IInv'
  BY <1>1, ArriveKeeps, AnsweredKeeps, PostKeeps, FinishKeeps, RefreshedKeeps, FailedKeeps DEF CallerStep
<1>2. ASSUME Begin \/ Poll \/ SignIn \/ Tick \/ Crash PROVE IInv'
  BY <1>2, BeginKeeps, PollKeeps, SignInKeeps, TickKeeps, CrashKeeps
<1>3. ASSUME UNCHANGED vars PROVE IInv' BY <1>3, StutterKeeps
<1> QED BY <1>1, <1>2, <1>3 DEF Next

\* The credential is given up exactly when the service has refused it MaxRejections times in a
\* row, whatever failures of the network come between (note_failure); what is on disk is what
\* is held unless the store's error says otherwise (persist); and a health check that reads
\* without the lock sees both (publish).
THEOREM Known == Spec => []CredentialIsKnown
<1>1. Init => IInv
  BY InitIInv
<1>2. IInv /\ [Next]_vars => IInv'
  BY Inductive
<1>3. IInv => CredentialIsKnown
  BY DEF IInv
<1> QED BY <1>1, <1>2, <1>3, PTL DEF Spec

-----------------------------------------------------------------------------
(* How often the service is asked.                                         *)

\* A caller that waited through an attempt finds its failure, or it is about to be taken in.
Missing ==
    /\ \A c \in Caller : arrived[c] <= attempts
    /\ \A c \in missed : pc[c] = "waiting" =>
          \/ lastFailure > arrived[c]
          \/ lock # None /\ pc[lock] = "posted" /\ attempts > arrived[c]

\* The wait is counted from the last request.
Distant ==
    /\ fails = failures
    /\ lock # None => began = lastPost
    /\ lock = None /\ failures >= 2 => notBefore = lastPost + Backoff(failures)

\* A token is given up for a newer one only once: who refreshes holds the report of the token
\* there is, and the tokens that were given up before are older.
Newest ==
    /\ access <= issued /\ \A t \in spent : t <= issued
    /\ \A c \in Caller : stale[c] <= issued /\ (access = 0 => stale[c] = 0)
    /\ access \notin spent
    /\ lock # None /\ stale[lock] # 0 => access = stale[lock]

Sparing == Missing /\ Distant /\ Newest

LEMMA PairHasTwo ==
    ASSUME NEW a, NEW b, a # b
    PROVE  Cardinality({a, b}) = 2
<1>1. IsFiniteSet({a}) /\ Cardinality({a}) = 1
  BY FS_Singleton
<1>2. Cardinality({a} \cup {b}) = 2
  BY <1>1, FS_AddElement
<1>3. {a, b} = {a} \cup {b}
  OBVIOUS
<1> QED BY <1>2, <1>3

\* Two to a power, as the number of subsets of an interval.
LEMMA Doubled ==
    ASSUME NEW k \in Nat
    PROVE  2 ^ k \in Nat /\ 2 ^ k >= 1 /\ (k >= 1 => 2 ^ k >= 2)
<1> DEFINE I == 1 .. k
<1>1. IsFiniteSet(I) /\ Cardinality(I) = k
  BY FS_Interval
<1>2. IsFiniteSet(SUBSET I) /\ Cardinality(SUBSET I) = 2 ^ k
  BY <1>1, FS_SUBSET
<1>3. Cardinality(SUBSET I) \in Nat
  BY <1>2, FS_CardinalityType
<1>4. Cardinality({{}}) = 1 /\ IsFiniteSet({{}}) /\ {{}} \in SUBSET (SUBSET I)
  BY FS_Singleton
<1>5. 2 ^ k >= 1
  BY <1>2, <1>3, <1>4, FS_Subset
<1>6. ASSUME k >= 1 PROVE 2 ^ k >= 2
  <2> DEFINE two == {{}, {1}}
  <2>1. {} # {1}
    OBVIOUS
  <2>2. Cardinality(two) = 2
    BY <2>1, PairHasTwo
  <2>3. two \in SUBSET (SUBSET I)
    BY <1>6
  <2> HIDE DEF two, I
  <2>4. Cardinality(two) <= Cardinality(SUBSET I)
    BY <1>2, <2>3, FS_Subset
  <2> QED BY <1>2, <2>2, <2>4
<1> QED BY <1>2, <1>3, <1>5, <1>6

LEMMA BackoffIs ==
    ASSUME NEW n \in Nat
    PROVE  /\ Backoff(n) \in Nat
           /\ n >= 2 => Backoff(n) >= 1
           /\ n >= 3 => Backoff(n) >= 2
<1>1. CASE n < 2
  BY <1>1 DEF Backoff
<1>2. CASE n >= 2
  <2> DEFINE p == 2 ^ (n - 2)
  <2>1. n - 2 \in Nat /\ (n >= 3 => n - 2 >= 1)
    BY <1>2
  <2>2. p \in Nat /\ p >= 1 /\ (n >= 3 => p >= 2)
    BY <2>1, Doubled
  <2>3. Backoff(n) = IF p > MaxBackoff THEN MaxBackoff ELSE p
    BY <1>2 DEF Backoff
  <2> HIDE DEF p
  <2> QED BY <2>2, <2>3, TokensAssumption
<1> QED BY <1>1, <1>2

LEMMA TypesAre ==
    ASSUME IInv
    PROVE  /\ pc \in [Caller -> {"idle", "waiting", "posting", "posted"}]
           /\ arrived \in [Caller -> Nat] /\ stale \in [Caller -> 0 .. MaxIssued]
           /\ attempts \in Nat /\ lastFailure \in 0 .. attempts /\ failures \in Nat /\ fails \in Nat
           /\ lock \in Caller \cup {None} /\ None \notin Caller
           /\ \A c \in Caller : pc[c] \in {"posting", "posted"} <=> lock = c
           /\ access \in Nat /\ issued \in Nat /\ issued >= 1 /\ missed \subseteq Caller
           /\ spent \subseteq 1 .. MaxIssued /\ lastPost \in Nat /\ now \in Nat /\ MaxIssued \in Nat
BY TokensAssumption DEF IInv, CredentialIsKnown, TypeOK, CacheOK, CallersOK, WorldOK

\* The steps that have nothing to do with requests.
LEMMA AsideSpares ==
    ASSUME Sparing, UNCHANGED <<cache, attempts, lock, callers, began, issued, history>>
    PROVE  Sparing'
<1>1. UNCHANGED <<access, failures, notBefore, lastFailure, pc, arrived, stale, missed, fails,
                  lastPost, spent>>
  BY DEF cache, callers, history
<1>2. Missing'
  BY <1>1 DEF Sparing, Missing
<1>3. Distant'
  BY <1>1 DEF Sparing, Distant
<1>4. Newest'
  BY <1>1 DEF Sparing, Newest
<1> QED BY <1>2, <1>3, <1>4 DEF Sparing

LEMMA ArriveSpares == ASSUME IInv, Sparing, NEW c \in Caller, Arrive(c) PROVE Sparing'
<1>1. /\ pc[c] = "idle" /\ pc' = [pc EXCEPT ![c] = "waiting"]
      /\ arrived' = [arrived EXCEPT ![c] = attempts] /\ missed' = missed \ {c}
      /\ UNCHANGED <<access, failures, notBefore, lastFailure, attempts, lock, began, issued, fails,
                     lastPost, spent>>
  BY DEF Arrive, cache, world
<1>2. PICK t \in {0} \cup (IF access > 0 THEN {access} ELSE {}) : stale' = [stale EXCEPT ![c] = t]
  BY DEF Arrive
<1>3. lock # c
  BY <1>1, TypesAre
<1>4. Missing'
  <2>1. \A d \in Caller : arrived'[d] <= attempts
    BY <1>1, TypesAre DEF Sparing, Missing
  <2>2. ASSUME NEW d \in missed', pc'[d] = "waiting"
        PROVE  \/ lastFailure > arrived'[d]
               \/ lock # None /\ pc'[lock] = "posted" /\ attempts > arrived'[d]
    <3>1. d \in missed /\ d # c /\ d \in Caller /\ pc[d] = "waiting" /\ arrived'[d] = arrived[d]
      BY <1>1, <2>2, TypesAre
    <3>2. lock # None => pc'[lock] = pc[lock]
      BY <1>1, <1>3, TypesAre
    <3> QED BY <3>1, <3>2 DEF Sparing, Missing
  <2> QED BY <1>1, <2>1, <2>2 DEF Missing
<1>5. Distant'
  BY <1>1 DEF Sparing, Distant
<1>6. Newest'
  <2>1. t <= issued /\ (access = 0 => t = 0)
    BY <1>2, TypesAre DEF Sparing, Newest
  <2>2. \A d \in Caller : stale'[d] = stale[d] \/ (d = c /\ stale'[d] = t)
    BY <1>2, TypesAre
  <2>3. lock # None => stale'[lock] = stale[lock]
    BY <1>2, <1>3, TypesAre
  <2> QED BY <1>1, <2>1, <2>2, <2>3 DEF Sparing, Newest
<1> QED BY <1>4, <1>5, <1>6 DEF Sparing

LEMMA AnsweredSpares == ASSUME IInv, Sparing, NEW c \in Caller, Answered(c) PROVE Sparing'
<1>1. /\ lock = None /\ pc' = [pc EXCEPT ![c] = "idle"]
      /\ UNCHANGED <<access, failures, notBefore, lastFailure, attempts, lock, began, issued, fails,
                     lastPost, spent, missed, arrived, stale>>
  BY DEF Answered, Return, cache, world, history
<1>2. Missing'
  BY <1>1, TypesAre DEF Sparing, Missing
<1>3. Distant' /\ Newest'
  BY <1>1 DEF Sparing, Distant, Newest
<1> QED BY <1>2, <1>3 DEF Sparing

LEMMA PostSpares == ASSUME IInv, Sparing, NEW c \in Caller, Post(c) PROVE Sparing'
<1>1. /\ lock = None /\ lock' = c /\ pc' = [pc EXCEPT ![c] = "posting"] /\ ~ Served(c)
      /\ began' = now /\ lastPost' = now
      /\ UNCHANGED <<access, failures, notBefore, lastFailure, attempts, issued, fails, spent,
                     missed, arrived, stale>>
  BY DEF Post, cache, world
<1>2. Missing'
  <2>1. \A d \in Caller : pc'[d] = "waiting" => pc[d] = "waiting"
    BY <1>1, TypesAre
  <2> QED BY <1>1, <2>1, TypesAre DEF Sparing, Missing
<1>3. Distant'
  BY <1>1, TypesAre DEF Sparing, Distant
<1>4. Newest'
  <2>1. stale[c] # 0 => access = 0 \/ access = stale[c]
    BY <1>1 DEF Served
  <2> QED BY <1>1, <2>1 DEF Sparing, Newest
<1> QED BY <1>2, <1>3, <1>4 DEF Sparing

LEMMA FinishSpares == ASSUME IInv, Sparing, NEW c \in Caller, Finish(c) PROVE Sparing'
<1>1. /\ pc[c] = "posting" /\ pc' = [pc EXCEPT ![c] = "posted"] /\ attempts' = attempts + 1
      /\ missed' = missed \cup {d \in Caller : pc[d] = "waiting"}
      /\ UNCHANGED <<access, failures, notBefore, lastFailure, lock, began, issued, fails, lastPost,
                     spent, arrived, stale>>
  BY DEF Finish, cache, world
<1>2. lock = c /\ lock # None
  BY <1>1, TypesAre
<1>3. Missing'
  <2>1. \A d \in Caller : arrived[d] <= attempts /\ arrived[d] \in Nat /\ attempts \in Nat
    BY TypesAre DEF Sparing, Missing
  <2>2. pc'[lock] = "posted"
    BY <1>1, <1>2, TypesAre
  <2>3. missed' \subseteq Caller
    BY <1>1, TypesAre
  <2> QED BY <1>1, <1>2, <2>1, <2>2, <2>3 DEF Missing
<1>4. Distant' /\ Newest'
  BY <1>1 DEF Sparing, Distant, Newest
<1> QED BY <1>3, <1>4 DEF Sparing

LEMMA RefreshedSpares == ASSUME IInv, Sparing, NEW c \in Caller, Refreshed(c) PROVE Sparing'
<1>1. /\ pc[c] = "posted" /\ issued' = issued + 1 /\ access' = issued' /\ lock' = None
      /\ failures' = 0 /\ fails' = 0 /\ missed' = {} /\ attempts' = attempts
      /\ spent' = (IF stale[c] # 0 THEN spent \cup {stale[c]} ELSE spent)
      /\ arrived' = arrived /\ stale' = stale
  BY DEF Refreshed, Install, ClearFailures, Return
<1>2. Missing'
  BY <1>1 DEF Sparing, Missing
<1>3. Distant'
  BY <1>1 DEF Distant
<1>4. Newest'
  <2>1. \A t \in spent' : t <= issued
    BY <1>1 DEF Sparing, Newest
  <2>2. \A d \in Caller : stale[d] <= issued /\ stale[d] \in Nat
    BY TypesAre DEF Sparing, Newest
  <2>3. access' > issued /\ access' # 0 /\ issued <= issued' /\ issued \in Nat
    BY <1>1, TypesAre
  <2>4. spent' \subseteq Nat
    BY <1>1, TypesAre
  <2> QED BY <1>1, <2>1, <2>2, <2>3, <2>4 DEF Newest
<1> QED BY <1>2, <1>3, <1>4 DEF Sparing

LEMMA FailedSpares == ASSUME IInv, Sparing, NEW c \in Caller, Failed(c) PROVE Sparing'
<1>1. /\ pc[c] = "posted" /\ pc' = [pc EXCEPT ![c] = "idle"] /\ lock' = None
      /\ failures' = failures + 1 /\ fails' = fails + 1 /\ lastFailure' = attempts
      /\ notBefore' = began + Backoff(failures')
      /\ UNCHANGED <<access, attempts, began, issued, missed, lastPost, spent, arrived, stale>>
  BY DEF Failed, NoteFailure, Return
<1>2. lock = c /\ c # None
  BY <1>1, TypesAre
<1>3. Missing'
  <2>1. ASSUME NEW d \in missed, pc'[d] = "waiting" PROVE attempts > arrived[d]
    <3>1. d \in Caller /\ pc[d] = "waiting"
      BY <1>1, <2>1, TypesAre
    <3>2. lastFailure > arrived[d] \/ attempts > arrived[d]
      BY <2>1, <3>1 DEF Sparing, Missing
    <3>3. arrived[d] \in Nat /\ lastFailure <= attempts /\ lastFailure \in Nat /\ attempts \in Nat
      BY <3>1, TypesAre
    <3> QED BY <3>2, <3>3
  <2> QED BY <1>1, <2>1 DEF Sparing, Missing
<1>4. Distant'
  <2>1. began = lastPost /\ fails = failures
    BY <1>2 DEF Sparing, Distant
  <2> QED BY <1>1, <2>1 DEF Distant
<1>5. Newest'
  BY <1>1 DEF Sparing, Newest
<1> QED BY <1>3, <1>4, <1>5 DEF Sparing

LEMMA SignInSpares == ASSUME IInv, Sparing, SignIn PROVE Sparing'
<1>1. /\ issued' = issued + 1 /\ access' = issued' /\ lock = None /\ lock' = lock
      /\ failures' = 0 /\ fails' = 0 /\ missed' = {} /\ attempts' = attempts
      /\ UNCHANGED <<arrived, stale, spent>>
  BY DEF SignIn, Install, ClearFailures, callers
<1>2. Missing'
  BY <1>1 DEF Sparing, Missing
<1>3. Distant'
  BY <1>1 DEF Distant
<1>4. Newest'
  <2>1. \A d \in Caller : stale[d] <= issued /\ stale[d] \in Nat
    BY TypesAre DEF Sparing, Newest
  <2>2. access' > issued /\ access' # 0 /\ issued <= issued' /\ issued \in Nat
    BY <1>1, TypesAre
  <2>3. spent \subseteq Nat /\ \A t \in spent : t <= issued
    BY TypesAre DEF Sparing, Newest
  <2> QED BY <1>1, <2>1, <2>2, <2>3 DEF Newest
<1> QED BY <1>2, <1>3, <1>4 DEF Sparing

LEMMA CrashSpares == ASSUME IInv, Sparing, Crash PROVE Sparing'
<1>1. /\ access' = 0 /\ lock' = None /\ failures' = 0 /\ fails' = 0 /\ missed' = {}
      /\ attempts' = 0 /\ arrived' = [c \in Caller |-> 0] /\ stale' = [c \in Caller |-> 0]
      /\ issued' = issued /\ spent' = spent
  BY DEF Crash, Adopt, ClearFailures
<1>2. Missing'
  BY <1>1 DEF Missing
<1>3. Distant'
  BY <1>1 DEF Distant
<1>4. Newest'
  BY <1>1, TypesAre DEF Sparing, Newest
<1> QED BY <1>2, <1>3, <1>4 DEF Sparing

LEMMA InitSparing == Init => Sparing
<1> SUFFICES ASSUME Init PROVE Sparing OBVIOUS
<1>1. /\ access \in {0, 1} /\ issued = 1 /\ spent = {} /\ missed = {} /\ lock = None
      /\ failures = 0 /\ fails = 0 /\ attempts = 0
      /\ arrived = [c \in Caller |-> 0] /\ stale = [c \in Caller |-> 0]
  BY DEF Init
<1>2. Missing /\ Distant /\ Newest
  BY <1>1 DEF Missing, Distant, Newest
<1> QED BY <1>2 DEF Sparing

LEMMA SparingStays == IInv /\ Sparing /\ [Next]_vars => Sparing'
<1> SUFFICES ASSUME IInv, Sparing, [Next]_vars PROVE Sparing' OBVIOUS
<1>1. ASSUME NEW c \in Caller, Arrive(c) \/ CallerStep(c) PROVE Sparing'
  BY <1>1, ArriveSpares, AnsweredSpares, PostSpares, FinishSpares, RefreshedSpares, FailedSpares
     DEF CallerStep
<1>2. CASE Begin \/ Poll \/ Tick \/ UNCHANGED vars
  <2>1. UNCHANGED <<cache, attempts, lock, callers, began, issued, history>>
    BY <1>2 DEF Begin, Poll, Tick, vars, world
  <2> QED BY <2>1, AsideSpares
<1>3. CASE SignIn
  BY <1>3, SignInSpares
<1>4. CASE Crash
  BY <1>4, CrashSpares
<1> QED BY <1>1, <1>2, <1>3, <1>4 DEF Next

\* A caller asks the service only by Post, and a token is replaced under the lock only by
\* Refreshed.
LEMMA AsksByPost ==
    ASSUME IInv, [Next]_vars, NEW c \in Caller, Asks(c)
    PROVE  Post(c)
<1>1. pc[c] = "waiting" /\ pc'[c] = "posting"
  BY DEF Asks
<1>2. ASSUME NEW d \in Caller, Arrive(d) \/ CallerStep(d) PROVE Post(c)
  <2>1. \/ pc' = [pc EXCEPT ![d] = "waiting"] \/ pc' = [pc EXCEPT ![d] = "idle"]
        \/ pc' = [pc EXCEPT ![d] = "posted"] \/ (Post(d) /\ pc' = [pc EXCEPT ![d] = "posting"])
    BY <1>2 DEF Arrive, CallerStep, Answered, Post, Finish, Refreshed, Failed, Return
  <2> QED BY <1>1, <2>1, TypesAre
<1>3. CASE Begin \/ Poll \/ SignIn \/ Tick \/ UNCHANGED vars
  <2>1. pc' = pc
    BY <1>3 DEF Begin, Poll, SignIn, Tick, vars, callers
  <2> QED BY <1>1, <2>1
<1>4. CASE Crash
  <2>1. pc' = [d \in Caller |-> "idle"]
    BY <1>4 DEF Crash
  <2> QED BY <1>1, <2>1
<1> QED BY <1>2, <1>3, <1>4 DEF Next

LEMMA ReplacedByRefreshed ==
    ASSUME IInv, [Next]_vars, lock # None, lock' = None, access' # access, crashes' = crashes
    PROVE  Refreshed(lock)
<1>1. ASSUME NEW d \in Caller, Arrive(d) \/ CallerStep(d) PROVE Refreshed(lock)
  <2>1. Refreshed(d) \/ access' = access
    BY <1>1 DEF Arrive, CallerStep, Answered, Post, Finish, Failed, NoteFailure, cache
  <2>2. Refreshed(d)
    BY <2>1
  <2>3. pc[d] = "posted"
    BY <2>2 DEF Refreshed
  <2>4. lock = d
    BY <2>3, TypesAre
  <2> QED BY <2>2, <2>4
<1>2. ~ (Begin \/ Poll \/ Tick \/ UNCHANGED vars)
  BY DEF Begin, Poll, Tick, vars, cache
<1>3. ~ SignIn
  BY DEF SignIn
<1>4. ~ Crash
  BY TokensAssumption DEF Crash, IInv, CredentialIsKnown, TypeOK, WorldOK
<1> QED BY <1>1, <1>2, <1>3, <1>4 DEF Next

LEMMA PostIsSpared ==
    ASSUME IInv, Sparing, NEW c \in Caller, Post(c)
    PROVE  /\ c \notin missed /\ streak < MaxRejections
           /\ fails >= 2 => now - lastPost >= 1
           /\ fails >= 3 => now - lastPost >= 2
<1>1. pc[c] = "waiting" /\ lock = None /\ ~ WaitedOut(c) /\ ~ Refused
  BY DEF Post
<1>2. c \notin missed
  BY <1>1, TypesAre DEF Sparing, Missing, WaitedOut
<1>3. streak < MaxRejections
  <2>1. ~ rejected
    BY <1>1 DEF Refused
  <2>2. streak \in Nat
    BY DEF IInv, CredentialIsKnown, TypeOK, WorldOK
  <2> QED BY <2>1, <2>2, TokensAssumption DEF IInv, CredentialIsKnown, GivenUpOnEvidence
<1>4. fails = failures /\ (failures >= 2 => notBefore = lastPost + Backoff(failures))
  BY <1>1 DEF Sparing, Distant
<1>5. ~ now < notBefore
  BY <1>1 DEF Refused
<1>6. ASSUME failures >= 2 PROVE now - lastPost >= Backoff(failures)
  <2> DEFINE b == Backoff(failures)
  <2>1. b \in Nat /\ notBefore = lastPost + b
    BY <1>4, <1>6, BackoffIs, TypesAre
  <2> HIDE DEF b
  <2>2. now - lastPost >= b
    BY <1>5, <2>1, TypesAre
  <2> QED BY <2>2 DEF b
<1>7. /\ failures >= 2 => now - lastPost >= 1
      /\ failures >= 3 => now - lastPost >= 2
  <2> DEFINE b == Backoff(failures)
  <2>1. b \in Nat /\ (failures >= 2 => b >= 1) /\ (failures >= 3 => b >= 2)
    BY BackoffIs, TypesAre
  <2>2. failures >= 2 => now - lastPost >= b
    BY <1>6
  <2> HIDE DEF b
  <2> QED BY <2>1, <2>2, TypesAre
<1> QED BY <1>2, <1>3, <1>4, <1>7

LEMMA RefreshedIsNew ==
    ASSUME IInv, Sparing, lock # None, Refreshed(lock)
    PROVE  stale[lock] \notin spent
<1>1. CASE stale[lock] = 0
  BY <1>1, TypesAre
<1>2. CASE stale[lock] # 0
  BY <1>2 DEF Sparing, Newest
<1> QED BY <1>1, <1>2

\* However many callers there are and however long an outage: who waited through an attempt that
\* failed takes that failure and asks no more (waited_out), requests keep their distance from the
\* second failure on, counted from the beginning of the last (backoff, refresh_holding), there
\* are none after the sentence, and a token that several report costs one refresh
\* (refresh_if_stale).
THEOREM Spared == Spec => AsksAreSpared
<1>1. Init => IInv /\ Sparing
  BY InitIInv, InitSparing
<1>2. IInv /\ Sparing /\ [Next]_vars => IInv' /\ Sparing'
  BY Inductive, SparingStays
<1>3. IInv /\ Sparing /\ [Next]_vars =>
        [/\ \A c \in Caller : Asks(c) =>
               /\ c \notin missed /\ streak < MaxRejections
               /\ fails >= 2 => now - lastPost >= 1
               /\ fails >= 3 => now - lastPost >= 2
         /\ lock # None /\ lock' = None /\ access' # access /\ crashes' = crashes
               => stale[lock] \notin spent]_vars
  BY AsksByPost, PostIsSpared, ReplacedByRefreshed, RefreshedIsNew
<1> QED BY <1>1, <1>2, <1>3, PTL DEF Spec, AsksAreSpared
=============================================================================

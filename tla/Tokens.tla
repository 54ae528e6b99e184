------------------------------- MODULE Tokens -------------------------------
(***************************************************************************)
(* The token cache all roles of a daemon share (TokenCache in              *)
(* hydration-graph/src/auth.rs): callers ask for a token, or report the    *)
(* one they used as refused; one of them refreshes it, holding the lock    *)
(* across the request; the credential rotates, is written down, is refused *)
(* by the service, replaced by a new sign-in, and read again when the      *)
(* process starts.                                                         *)
(*                                                                         *)
(* A credential and an access token are numbers, in the order the service  *)
(* issued them. Time is counted in steps of REFRESH_BACKOFF_STEP.          *)
(***************************************************************************)
EXTENDS Integers

CONSTANTS
    Caller,         \* the threads that share the cache
    None,           \* no caller, no credential
    MaxRejections,  \* MAX_REJECTIONS
    MaxBackoff,     \* MAX_REFRESH_BACKOFF, in steps
    Lifetime,       \* expires_in less EXPIRY_SKEW, in steps
    MaxTime,        \* bound: the clock
    MaxIssued,      \* bound: credentials and tokens the service issues
    MaxCalls,       \* bound: calls made
    MaxCrashes      \* bound: restarts

ASSUME TokensAssumption ==
    /\ None \notin Caller /\ MaxRejections \in Nat \ {0} /\ MaxBackoff \in Nat \ {0, 1}
    /\ Lifetime \in Nat \ {0} /\ MaxTime \in Nat /\ MaxIssued \in Nat \ {0}
    /\ MaxCalls \in Nat /\ MaxCrashes \in Nat

VARIABLES
    access, expiry,         \* State: the access token, 0 for none, and when it is no longer given out
    refresh,                \* State: the credential, 0 for none
    failures, rejections,   \* State: failed attempts in a row, and refusals in a row
    rejected, notBefore,    \* State: given up; next_attempt_at
    lastFailure,            \* State: the attempt that failed last, 0 for none
    attempts,               \* attempts that have finished, read without the lock
    observed,               \* what a health check reads without the lock
    lock,                   \* who holds the state
    pc, arrived, stale,     \* of each caller: where it is, attempts as it came, the token it reports
    began,                  \* when the attempt in flight was begun
    code,                   \* the sign-in with a device code
    disk, storeError,       \* the credential written down, and whether writing it failed
    now,                    \* the clock
    issued,                 \* what the service has issued last
    calls, crashes,
    missed,                 \* history: who waited while an attempt was made that did not help
    streak, fails,          \* history: refusals, and failures, in a row since a success or sign-in
    lastPost,               \* history: when the last request was made
    spent                   \* history: the tokens reported as refused that cost a refresh

cache   == <<access, expiry, refresh, failures, rejections, rejected, notBefore, lastFailure>>
callers == <<pc, arrived, stale>>
world   == <<disk, storeError, issued>>
bounds  == <<calls, crashes>>
history == <<missed, streak, fails, lastPost, spent>>
vars    == <<cache, attempts, observed, lock, callers, began, code, world, now, bounds, history>>

CacheOK ==
    /\ access \in 0 .. MaxIssued /\ refresh \in 0 .. MaxIssued /\ expiry \in Nat
    /\ failures \in Nat /\ rejections \in 0 .. MaxRejections /\ rejections <= failures
    /\ attempts \in Nat /\ lastFailure \in 0 .. attempts /\ (notBefore # 0 => failures # 0)

FlagsOK ==
    /\ rejected \in BOOLEAN /\ (rejected <=> rejections = MaxRejections)
    /\ storeError \in BOOLEAN /\ observed \in [signedIn : BOOLEAN, storeError : BOOLEAN]

\* Whoever has the lock is the one whose request is out.
CallersOK ==
    /\ lock \in Caller \cup {None} /\ pc \in [Caller -> {"idle", "waiting", "posting", "posted"}]
    /\ arrived \in [Caller -> Nat] /\ stale \in [Caller -> 0 .. MaxIssued] /\ began \in Nat
    /\ \A c \in Caller : pc[c] \in {"posting", "posted"} <=> lock = c

WorldOK ==
    /\ now \in 0 .. MaxTime /\ issued \in 1 .. MaxIssued /\ disk \in 0 .. MaxIssued
    /\ calls \in 0 .. MaxCalls /\ crashes \in 0 .. MaxCrashes /\ code \in {"none", "polling", "granted"}
    /\ missed \subseteq Caller /\ streak \in 0 .. fails /\ fails \in Nat
    /\ lastPost \in 0 .. MaxTime /\ spent \subseteq 1 .. MaxIssued

TypeOK == CacheOK /\ FlagsOK /\ CallersOK /\ WorldOK

-----------------------------------------------------------------------------
(* The state under the lock.                                               *)

\* State::clear_failures.
ClearFailures ==
    /\ failures' = 0 /\ rejections' = 0 /\ rejected' = FALSE /\ notBefore' = 0 /\ lastFailure' = 0
    /\ missed' = {} /\ streak' = 0 /\ fails' = 0

\* publish: the mirror is written at the end of every path that changes one of these.
Publish == observed' = [signedIn |-> refresh' # 0 /\ ~ rejected', storeError |-> storeError']

Backoff(n) == IF n < 2 THEN 0 ELSE IF 2 ^ (n - 2) > MaxBackoff THEN MaxBackoff ELSE 2 ^ (n - 2)

\* A credential that has changed is written down, and that it could not be is remembered.
Persist ==
    \/ refresh' = refresh /\ UNCHANGED <<disk, storeError>>
    \/ refresh' # refresh /\ disk' = refresh' /\ storeError' = FALSE
    \/ refresh' # refresh /\ disk' = disk /\ storeError' = TRUE

\* A reply without a credential keeps the one held.
Install(reply) ==
    /\ access' = issued' /\ expiry' = now + Lifetime
    /\ refresh' = IF reply = 0 THEN refresh ELSE reply
    /\ Persist

\* sign_in_with, for resume: a credential is taken up with no token and no past.
Adopt(credential) ==
    /\ access' = 0 /\ expiry' = 0 /\ refresh' = credential
    /\ ClearFailures /\ Publish

-----------------------------------------------------------------------------
(* What a request comes to: post and read_token_reply.                     *)

\* oauth_error: the errors the code tells apart, and all others.
OauthError == {"authorization_pending", "slow_down", "expired_token", "access_denied",
               "invalid_grant", "other"}

Answer == [sent : BOOLEAN, json : BOOLEAN, error : OauthError \cup {"none"}, ok : BOOLEAN,
           complete : BOOLEAN]

\* An error the body names counts whatever the status says, and no other evidence does.
Reading(a) ==
    CASE ~ a.sent -> "Transport"
      [] a.sent /\ ~ a.json -> "Malformed"
      [] a.sent /\ a.json /\ a.error # "none" -> a.error
      [] a.sent /\ a.json /\ a.error = "none" /\ ~ a.ok -> "HttpStatus"
      [] OTHER -> IF a.complete THEN "Tokens" ELSE "Malformed"

Failures == {Reading(a) : a \in Answer} \ {"Tokens"}

-----------------------------------------------------------------------------
(* A process starts, and one of its threads wants a token.                 *)

\* A process that has just adopted a credential, or none, or has used it already.
Init ==
    /\ access \in {0, 1} /\ expiry = access * Lifetime /\ failures = 0 /\ rejections = 0 /\ rejected = FALSE
    /\ notBefore = 0 /\ lastFailure = 0 /\ attempts = 0 /\ lock = None /\ began = 0
    /\ refresh \in {access, 1} /\ disk = refresh /\ storeError = FALSE
    /\ observed = [signedIn |-> refresh # 0, storeError |-> FALSE]
    /\ pc = [c \in Caller |-> "idle"] /\ arrived = [c \in Caller |-> 0]
    /\ stale = [c \in Caller |-> 0] /\ code = "none"
    /\ now = 0 /\ issued = 1 /\ calls = 0 /\ crashes = 0
    /\ missed = {} /\ streak = 0 /\ fails = 0 /\ lastPost = 0 /\ spent = {}

\* The process ends, and its successor adopts what was written down: preflight, resume and
\* sign_in_with.
Crash ==
    /\ crashes < MaxCrashes /\ crashes' = crashes + 1
    /\ storeError' = FALSE /\ Adopt(disk)
    /\ attempts' = 0 /\ lock' = None /\ began' = 0 /\ code' = "none"
    /\ pc' = [c \in Caller |-> "idle"] /\ arrived' = [c \in Caller |-> 0]
    /\ stale' = [c \in Caller |-> 0]
    /\ UNCHANGED <<disk, issued, now, calls, lastPost, spent>>

\* token, refresh_if_stale: the attempts are counted before the lock is asked for. A token is
\* reported as refused only by one who was given it.
Arrive(c) ==
    /\ pc[c] = "idle" /\ calls < MaxCalls /\ calls' = calls + 1
    /\ \E t \in {0} \cup (IF access > 0 THEN {access} ELSE {}) : stale' = [stale EXCEPT ![c] = t]
    /\ pc' = [pc EXCEPT ![c] = "waiting"] /\ arrived' = [arrived EXCEPT ![c] = attempts]
    /\ missed' = missed \ {c}
    /\ UNCHANGED <<cache, attempts, observed, lock, began, code, world, now, crashes, streak, fails,
                   lastPost, spent>>

\* State::live; in refresh_if_stale any token that is not the one reported.
Served(c) == access # 0 /\ IF stale[c] = 0 THEN now < expiry ELSE access # stale[c]

NeverWaitedOut(c) == FALSE   \* Fault: every waiter tries for itself.

\* State::waited_out: an attempt failed that had not finished when this caller came.
WaitedOut(c) == lastFailure > arrived[c]

\* refresh_holding refuses: given up, too soon, or no credential.
Refused == rejected \/ now < notBefore \/ refresh = 0

Return(c) == pc' = [pc EXCEPT ![c] = "idle"] /\ UNCHANGED <<arrived, stale>>

\* The lock is had: there is an answer already, or this caller asks the service.
Answered(c) ==
    /\ pc[c] = "waiting" /\ lock = None /\ (Served(c) \/ WaitedOut(c) \/ Refused)
    /\ Return(c)
    /\ UNCHANGED <<cache, attempts, observed, lock, began, code, world, now, bounds, history>>

Post(c) ==
    /\ pc[c] = "waiting" /\ lock = None /\ ~ Served(c) /\ ~ WaitedOut(c) /\ ~ Refused
    /\ lock' = c /\ pc' = [pc EXCEPT ![c] = "posting"] /\ began' = now /\ lastPost' = now
    /\ UNCHANGED <<cache, attempts, observed, arrived, stale, code, world, now, bounds, missed,
                   streak, fails, spent>>

\* The request is over: the attempt is counted, then its outcome is taken in. Another thread may
\* come between the two, for the count is read without the lock.
Finish(c) ==
    /\ pc[c] = "posting" /\ attempts' = attempts + 1 /\ pc' = [pc EXCEPT ![c] = "posted"]
    /\ missed' = missed \cup {d \in Caller : pc[d] = "waiting"}
    /\ UNCHANGED <<cache, observed, lock, arrived, stale, began, code, world, now, bounds, streak,
                   fails, lastPost, spent>>

\* A refresh: the service issues a token, and a credential with it or not.
Refreshed(c) ==
    /\ pc[c] = "posted" /\ issued < MaxIssued /\ issued' = issued + 1
    /\ \E reply \in {0, refresh, issued'} : Install(reply)
    /\ ClearFailures /\ Publish /\ lock' = None /\ Return(c)
    /\ spent' = IF stale[c] # 0 THEN spent \cup {stale[c]} ELSE spent
    /\ UNCHANGED <<attempts, began, code, now, bounds, lastPost>>

\* Fault: an outage counts as a refusal.
NoteFailureAlike(refusal) ==
    /\ failures' = failures + 1 /\ rejections' = rejections + 1
    /\ rejected' = (rejections' >= MaxRejections)
    /\ notBefore' = began + Backoff(failures') /\ lastFailure' = attempts
    /\ UNCHANGED <<access, expiry, refresh, storeError>> /\ Publish

\* note_failure: the credential stays as it is, and the wait is counted from before the request.
NoteFailure(refusal) ==
    /\ failures' = failures + 1 /\ rejections' = IF refusal THEN rejections + 1 ELSE 0
    /\ rejected' = (rejections' >= MaxRejections)
    /\ notBefore' = began + Backoff(failures') /\ lastFailure' = attempts
    /\ UNCHANGED <<access, expiry, refresh, storeError>> /\ Publish

Failed(c) ==
    /\ pc[c] = "posted"
    /\ \E e \in Failures : /\ NoteFailure(e = "invalid_grant")
                           /\ streak' = IF e = "invalid_grant" THEN streak + 1 ELSE 0
    /\ fails' = fails + 1 /\ lock' = None /\ Return(c)
    /\ UNCHANGED <<attempts, began, code, disk, issued, now, bounds, missed, lastPost, spent>>

-----------------------------------------------------------------------------
(* A sign-in with a device code.                                           *)

\* begin_device_code.
Begin ==
    /\ code = "none" /\ calls < MaxCalls /\ calls' = calls + 1 /\ code' = "polling"
    /\ UNCHANGED <<cache, attempts, observed, lock, callers, began, world, now, crashes, history>>

\* complete_device_code: polls, with neither the state nor its lock, until there are tokens or an
\* error that is not to wait, the deadline passes or they have been enough (code' = "none" too).
\* How many and how far apart is left out.
Poll ==
    /\ code = "polling"
    /\ \/ code' = "granted"
       \/ \E e \in Failures \ {"authorization_pending", "slow_down"} : code' = "none"
    /\ UNCHANGED <<cache, attempts, observed, lock, callers, began, world, now, bounds, history>>

\* Its tokens are installed under the lock, which also lifts the sentence on the old credential.
SignIn ==
    /\ code = "granted" /\ lock = None /\ issued < MaxIssued /\ issued' = issued + 1
    /\ \E reply \in {0, issued'} : Install(reply)
    /\ ClearFailures /\ Publish /\ code' = "none"
    /\ UNCHANGED <<attempts, lock, callers, began, now, bounds, lastPost, spent>>

Tick == /\ now < MaxTime /\ now' = now + 1
        /\ UNCHANGED <<cache, attempts, observed, lock, callers, began, code, world, bounds, history>>

CallerStep(c) == Answered(c) \/ Post(c) \/ Finish(c) \/ Refreshed(c) \/ Failed(c)

Next == \/ \E c \in Caller : Arrive(c) \/ CallerStep(c)
        \/ Begin \/ Poll \/ SignIn \/ Tick \/ Crash

Spec == Init /\ [][Next]_vars

-----------------------------------------------------------------------------
(* Properties.                                                             *)

Asks(c) == pc[c] = "waiting" /\ pc'[c] = "posting"

\* How often the service is asked, however many callers there are: who waited through an attempt
\* that failed takes that failure and asks no more; from the second failure on requests keep their
\* distance, counted from request to request, and after the sentence there are none; a token that
\* several report costs one refresh (token, waited_out, refresh_holding, backoff, refresh_if_stale).
AsksAreSpared ==
    [][/\ \A c \in Caller : Asks(c) =>
             /\ c \notin missed /\ streak < MaxRejections
             /\ fails >= 2 => now - lastPost >= 1
             /\ fails >= 3 => now - lastPost >= 2
       /\ lock # None /\ lock' = None /\ access' # access /\ crashes' = crashes => stale[lock] \notin spent
      ]_vars

\* A credential is given up exactly when the service refused it so many times in a row; an outage
\* is not evidence (note_failure, clear_failures).
GivenUpOnEvidence == rejected <=> streak >= MaxRejections

\* What a restart will find is what is held, unless a health check can tell that it is not
\* (persist).
StoreFollows == storeError \/ disk = refresh

\* Whenever the state is not being changed, a health check that does not wait for it sees what it
\* says (publish).
HealthAgrees == observed = [signedIn |-> refresh # 0 /\ ~ rejected, storeError |-> storeError]

\* What is known of the credential is what the service and the disk have said of it.
CredentialIsKnown == TypeOK /\ GivenUpOnEvidence /\ StoreFollows /\ HealthAgrees
=============================================================================

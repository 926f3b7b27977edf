----------------------------- MODULE Credentials -----------------------------
(***************************************************************************)
(* The client's TURN credentials (pkg/clientcore/main.go): streams share   *)
(* caches of credentials, a stream that finds its cache stale fetches new  *)
(* ones from VK while the others wait, and the fetches of all caches are   *)
(* serialized, throttled and locked out after captchas nobody solved.      *)
(* Around the fetch the module has the loop that asks for it               *)
(* (oneTurnConnectionLoop): what a stream does with credentials, and what  *)
(* a failed allocation does to the cache.                                  *)
(*                                                                         *)
(* Time is abstract: a deadline is a flag that a step of time clears.  The *)
(* link is one for the whole process, and the address a stream picks is    *)
(* the concern of VlessClient.                                             *)
(***************************************************************************)
EXTENDS Naturals, FiniteSets

CONSTANTS
    Streams,          \* stream ids, 0 .. n-1
    None,
    Configs,          \* the configurations to start with
    NumVkApps,        \* len(vkCredentialsList)
    maxCacheErrors

ASSUME CredentialConstants ==
    /\ Streams \subseteq Nat /\ Streams # {} /\ \A s \in Streams : 0..s \subseteq Streams
    /\ IsFiniteSet(Streams)
    /\ None \notin Streams
    /\ Configs \subseteq [streamsPerCache : Nat \ {0}, manualCaptcha : BOOLEAN]
    /\ NumVkApps \in Nat \ {0}
    /\ maxCacheErrors \in Nat \ {0}

VARIABLES
    config,      \* streamsPerCache and manualCaptcha
    pc,          \* where the TURN loop of a stream stands
    cache,       \* creds of a StreamCredentialsCache: "empty", "fresh" or "expired"
    cacheMu,     \* the stream that holds its mutex for writing, or None
    errorCount,  \* its errorCount
    inWindow,    \* its lastErrorTime is less than errorWindow ago
    vkMu,        \* the holder of vkRequestMu, or None
    recent,      \* globalLastVkFetchTime is less than minInterval ago
    chain,       \* the fetch under way: VK app and captcha attempt
    lockout,     \* globalCaptchaLockout is in the future
    page,        \* the local page of a manual captcha
    connected,   \* connectedStreams
    cancelled    \* the context of Run is done

cacheVars == <<cache, cacheMu>>
errorVars == <<errorCount, inWindow>>
vkVars == <<vkMu, recent, chain, lockout, page>>
vars == <<config, pc, cacheVars, errorVars, vkVars, connected, cancelled>>

\* A stream with the token chain under way, and one whose call of getVkCredsCached has
\* not returned.
Requesting == {"token1", "token2", "solve", "manual", "token3"}
Calling == {"lookup", "lock", "serialize", "throttle", "fetch"} \cup Requesting
AuthFailing == {"authWindow", "authCount", "stampKeep", "stampDrop", "invalidate", "reset"}
Locations == Calling \cup AuthFailing \cup {"idle", "allocate", "up", "backoff", "fatal", "returned"}

Init ==
    /\ config \in Configs
    /\ pc = [s \in Streams |-> "idle"]
    /\ cache = [c \in Streams |-> "empty"]
    /\ cacheMu = [c \in Streams |-> None]
    /\ errorCount = [c \in Streams |-> 0]
    /\ inWindow = [c \in Streams |-> FALSE]
    /\ vkMu = None /\ recent = FALSE /\ lockout = FALSE
    /\ chain = [app |-> 0, attempt |-> 0]
    /\ page = "closed"
    /\ connected = 0
    /\ cancelled = FALSE

getCacheID(s) == s \div config.streamsPerCache

Goto(s, to) == pc' = [pc EXCEPT ![s] = to]

-----------------------------------------------------------------------------
(* getVkCredsCached.                                                       *)

\* The test under the read lock.
Lookup(s) ==
    /\ pc[s] = "lookup"
    /\ cacheMu[getCacheID(s)] = None
    /\ Goto(s, IF cache[getCacheID(s)] = "fresh" THEN "allocate" ELSE "lock")
    /\ UNCHANGED <<config, cacheVars, errorVars, vkVars, connected, cancelled>>

\* Faulty variant: no second test inside the lock.
LockCache_NoRecheck(s) ==
    LET c == getCacheID(s) IN
    /\ pc[s] = "lock"
    /\ cacheMu[c] = None
    /\ Goto(s, "serialize")
    /\ cacheMu' = [cacheMu EXCEPT ![c] = s]
    /\ UNCHANGED <<config, cache, errorVars, vkVars, connected, cancelled>>

\* The write lock, and the second test: another stream may have fetched meanwhile.
LockCache(s) ==
    LET c == getCacheID(s) IN
    /\ pc[s] = "lock"
    /\ cacheMu[c] = None
    /\ IF cache[c] = "fresh"
         THEN Goto(s, "allocate") /\ UNCHANGED cacheMu
         ELSE Goto(s, "serialize") /\ cacheMu' = [cacheMu EXCEPT ![c] = s]
    /\ UNCHANGED <<config, cache, errorVars, vkVars, connected, cancelled>>

\* fetchVkCredsSerialized takes vkRequestMu, with the cache still locked.
LockVk(s) ==
    /\ pc[s] = "serialize"
    /\ vkMu = None
    /\ vkMu' = s
    /\ Goto(s, IF recent THEN "throttle" ELSE "fetch")
    /\ UNCHANGED <<config, cacheVars, errorVars, recent, chain, lockout, page, connected, cancelled>>

\* The wait for the minimum interval; a cancelled context ends the call, both locks are
\* given back, and the time of the last fetch stays what it was.
Throttle(s) ==
    /\ pc[s] = "throttle"
    /\ \/ ~recent /\ Goto(s, "fetch") /\ UNCHANGED <<vkMu, cacheMu>>
       \/ /\ cancelled
          /\ Goto(s, "backoff")
          /\ vkMu' = None
          /\ cacheMu' = [cacheMu EXCEPT ![getCacheID(s)] = None]
    /\ UNCHANGED <<config, cache, errorVars, recent, chain, lockout, page, connected, cancelled>>

\* fetchVkCreds has returned: the time of the fetch is noted, vkRequestMu is given back,
\* the cache gets what was fetched and is unlocked.
Return(s, to) ==
    /\ Goto(s, to)
    /\ cache' = IF to = "allocate" THEN [cache EXCEPT ![getCacheID(s)] = "fresh"] ELSE cache
    /\ cacheMu' = [cacheMu EXCEPT ![getCacheID(s)] = None]
    /\ vkMu' = None
    /\ recent' = TRUE
    /\ chain' = [app |-> 0, attempt |-> 0]

\* fetchVkCreds refuses during a lockout, or starts with the first VK app.
Fetch(s) ==
    /\ pc[s] = "fetch"
    /\ IF lockout
         THEN Return(s, "backoff")
         ELSE /\ Goto(s, "token1")
              /\ chain' = [app |-> 1, attempt |-> 0]
              /\ UNCHANGED <<cacheVars, vkMu, recent>>
    /\ UNCHANGED <<config, errorVars, lockout, page, connected, cancelled>>

-----------------------------------------------------------------------------
(* getTokenChain.  A request succeeds, fails or brings an answer without   *)
(* the expected field, which is the same to the caller.                    *)

\* The chain failed with one VK app: fetchVkCreds tries the next one.
AppFails(s) ==
    /\ IF chain.app < NumVkApps
         THEN /\ Goto(s, "token1")
              /\ chain' = [app |-> chain.app + 1, attempt |-> 0]
              /\ UNCHANGED <<cacheVars, vkMu, recent>>
         ELSE Return(s, "backoff")
    /\ UNCHANGED <<config, errorVars, lockout, page, connected, cancelled>>

Proceed(s, to) ==
    /\ ~cancelled
    /\ Goto(s, to)
    /\ UNCHANGED <<config, cacheVars, errorVars, vkVars, connected, cancelled>>

Token1(s) ==
    /\ pc[s] = "token1"
    /\ Proceed(s, "token2") \/ AppFails(s)

\* captchaSolveModeForAttempt; None when there is no mode left.
captchaSolveModeForAttempt(attempt, manualOnly, enableSliderPOC) ==
    LET modes == CASE manualOnly -> <<"manual">>
                   [] enableSliderPOC /\ ~manualOnly -> <<"auto", "sliderPOC", "manual">>
                   [] OTHER -> <<"auto", "manual">>
    IN  IF attempt + 1 \in DOMAIN modes THEN modes[attempt + 1] ELSE None

\* Run sets autoCaptchaSliderPOC to !manualCaptcha.
SolveMode(attempt) ==
    captchaSolveModeForAttempt(attempt, config.manualCaptcha, ~config.manualCaptcha)

\* Faulty variant: fetchVkCreds goes on with the next VK app.
CaptchaExhausted_NextApp(s) ==
    /\ lockout' = TRUE
    /\ IF chain.app < NumVkApps
         THEN /\ Goto(s, "token1")
              /\ chain' = [app |-> chain.app + 1, attempt |-> 0]
              /\ UNCHANGED <<cacheVars, vkMu, recent>>
         ELSE Return(s, "backoff")
    /\ UNCHANGED <<config, errorVars, connected, cancelled>>

\* No mode is left: the global lockout starts and fetchVkCreds gives up at once, which is
\* fatal for the process when no stream is connected.
CaptchaExhausted(s) ==
    /\ lockout' = TRUE
    /\ Return(s, IF connected = 0 THEN "fatal" ELSE "backoff")
    /\ UNCHANGED <<config, errorVars, connected, cancelled>>

\* getAnonymousToken: a token, a captcha to solve, or another error.
Token2(s) ==
    /\ pc[s] = "token2"
    /\ \/ Proceed(s, "token3")
       \/ AppFails(s)
       \/ SolveMode(chain.attempt) # None /\ Proceed(s, "solve")
       \/ ~cancelled /\ SolveMode(chain.attempt) = None /\ CaptchaExhausted(s) /\ UNCHANGED page

\* The loop asks again, with the answer if there is one.
NextAttempt(s) ==
    /\ Goto(s, "token2")
    /\ chain' = [chain EXCEPT !.attempt = @ + 1]
    /\ UNCHANGED <<config, cacheVars, errorVars, vkMu, recent, lockout, connected, cancelled>>

NotSolved(s) ==
    IF SolveMode(chain.attempt + 1) # None THEN NextAttempt(s) ELSE CaptchaExhausted(s)

\* solveVkCaptcha (external services), with or without the slider.
AutoSolve(s) ==
    /\ pc[s] = "solve"
    /\ SolveMode(chain.attempt) \in {"auto", "sliderPOC"}
    /\ NextAttempt(s) \/ NotSolved(s)
    /\ UNCHANGED page

\* startCaptchaServer: the listener opens and the user gets a page; or it is held by an
\* earlier page, or cannot be opened at all: the attempt fails.
ManualBegin(s) ==
    /\ pc[s] = "solve"
    /\ SolveMode(chain.attempt) = "manual"
    /\ \/ /\ page = "closed"
          /\ page' = "open"
          /\ Goto(s, "manual")
          /\ UNCHANGED <<config, cacheVars, errorVars, vkMu, recent, chain, lockout, connected, cancelled>>
       \/ UNCHANGED page /\ NotSolved(s)

\* Faulty variant: the stream waits for the user as long as it takes.
ManualEnd_NoTimeout(s) ==
    /\ pc[s] = "manual"
    /\ page = "answered" /\ page' = "closed" /\ NextAttempt(s)

\* The answer arrives and the listeners are shut down; or three minutes pass, and the
\* goroutine of the attempt stays behind with its page.  When both have happened, either
\* case of the select may be taken.  The context does not count.
ManualEnd(s) ==
    /\ pc[s] = "manual"
    /\ \/ page = "answered" /\ page' = "closed" /\ NextAttempt(s)
       \/ page' = (IF page = "open" THEN "abandoned" ELSE "closed") /\ NotSolved(s)

\* The user answers (notifyKey).  When nobody waits any more, the goroutine puts the key
\* into a channel that is not read and shuts its listeners down.
UserAnswers ==
    /\ page \in {"open", "abandoned"}
    /\ page' = IF page = "open" THEN "answered" ELSE "closed"
    /\ UNCHANGED <<config, pc, cacheVars, errorVars, vkMu, recent, chain, lockout, connected, cancelled>>

\* anonymLogin and joinConversationByLink bring the TURN credentials.
Token3(s) ==
    /\ pc[s] = "token3"
    /\ \/ AppFails(s)
       \/ /\ ~cancelled
          /\ Return(s, "allocate")
          /\ UNCHANGED <<config, errorVars, lockout, page, connected, cancelled>>

-----------------------------------------------------------------------------
(* oneTurnConnection and its loop.                                         *)

\* The loop's select: a DTLS connection offers its pipe, or the context is done.
Begin(s) ==
    /\ pc[s] = "idle"
    /\ Goto(s, "lookup")
    /\ UNCHANGED <<config, cacheVars, errorVars, vkVars, connected, cancelled>>

Leave(s) ==
    /\ pc[s] = "idle" /\ cancelled
    /\ Goto(s, "returned")
    /\ UNCHANGED <<config, cacheVars, errorVars, vkVars, connected, cancelled>>

\* The allocation with the credentials succeeds, fails, or is refused.
Allocate(s) ==
    /\ pc[s] = "allocate"
    /\ \/ /\ Goto(s, "up")
          /\ errorCount' = [errorCount EXCEPT ![getCacheID(s)] = 0]
          /\ connected' = connected + 1
       \/ Goto(s, "backoff") /\ UNCHANGED <<errorCount, connected>>
       \/ Goto(s, "authWindow") /\ UNCHANGED <<errorCount, connected>>
    /\ UNCHANGED <<config, cacheVars, inWindow, vkVars, cancelled>>

\* Faulty variant: a relay connection that fails is not subtracted from connectedStreams.
Disconnect_NotCounted(s) ==
    /\ pc[s] = "up"
    /\ \/ Goto(s, "idle") /\ connected' = connected - 1
       \/ Goto(s, "backoff") /\ UNCHANGED connected
    /\ UNCHANGED <<config, cacheVars, errorVars, vkVars, cancelled>>

Disconnect(s) ==
    /\ pc[s] = "up"
    /\ Goto(s, "idle") \/ Goto(s, "backoff")
    /\ connected' = connected - 1
    /\ UNCHANGED <<config, cacheVars, errorVars, vkVars, cancelled>>

\* handleAuthError, one atomic access at a time.
AuthWindow(s) ==
    LET c == getCacheID(s) IN
    /\ pc[s] = "authWindow"
    /\ errorCount' = IF inWindow[c] THEN errorCount ELSE [errorCount EXCEPT ![c] = 0]
    /\ Goto(s, "authCount")
    /\ UNCHANGED <<config, cacheVars, inWindow, vkVars, connected, cancelled>>

\* Faulty variant: the limit is passed by one.
AuthCount_OffByOne(s) ==
    LET c == getCacheID(s) IN
    /\ pc[s] = "authCount"
    /\ errorCount' = [errorCount EXCEPT ![c] = @ + 1]
    /\ Goto(s, IF errorCount[c] + 1 > maxCacheErrors THEN "stampDrop" ELSE "stampKeep")
    /\ UNCHANGED <<config, cacheVars, inWindow, vkVars, connected, cancelled>>

AuthCount(s) ==
    LET c == getCacheID(s) IN
    /\ pc[s] = "authCount"
    /\ errorCount' = [errorCount EXCEPT ![c] = @ + 1]
    /\ Goto(s, IF errorCount[c] + 1 >= maxCacheErrors THEN "stampDrop" ELSE "stampKeep")
    /\ UNCHANGED <<config, cacheVars, inWindow, vkVars, connected, cancelled>>

AuthStamp(s) ==
    /\ pc[s] \in {"stampDrop", "stampKeep"}
    /\ inWindow' = [inWindow EXCEPT ![getCacheID(s)] = TRUE]
    /\ Goto(s, IF pc[s] = "stampDrop" THEN "invalidate" ELSE "backoff")
    /\ UNCHANGED <<config, cacheVars, errorCount, vkVars, connected, cancelled>>

\* invalidate: the credentials under the lock, the counters after it.
Invalidate(s) ==
    /\ pc[s] = "invalidate"
    /\ cacheMu[getCacheID(s)] = None
    /\ cache' = [cache EXCEPT ![getCacheID(s)] = "empty"]
    /\ Goto(s, "reset")
    /\ UNCHANGED <<config, cacheMu, errorVars, vkVars, connected, cancelled>>

InvalidateReset(s) ==
    /\ pc[s] = "reset"
    /\ errorCount' = [errorCount EXCEPT ![getCacheID(s)] = 0]
    /\ inWindow' = [inWindow EXCEPT ![getCacheID(s)] = FALSE]
    /\ Goto(s, "backoff")
    /\ UNCHANGED <<config, cacheVars, vkVars, connected, cancelled>>

\* The loop sleeps after an error; FATAL_CAPTCHA cancels the process instead.
Backoff(s) ==
    /\ pc[s] \in {"backoff", "fatal"}
    /\ Goto(s, IF pc[s] = "fatal" \/ cancelled THEN "returned" ELSE "idle")
    /\ cancelled' = (cancelled \/ pc[s] = "fatal")
    /\ UNCHANGED <<config, cacheVars, errorVars, vkVars, connected>>

\* The caller of Run cancels its context.
Cancel ==
    /\ ~cancelled
    /\ cancelled' = TRUE
    /\ UNCHANGED <<config, pc, cacheVars, errorVars, vkVars, connected>>

-----------------------------------------------------------------------------
(* Time.                                                                   *)

LockoutEnds ==
    /\ lockout /\ lockout' = FALSE
    /\ UNCHANGED <<config, pc, cacheVars, errorVars, vkMu, recent, chain, page, connected, cancelled>>

IntervalEnds ==
    /\ recent /\ recent' = FALSE
    /\ UNCHANGED <<config, pc, cacheVars, errorVars, vkMu, chain, lockout, page, connected, cancelled>>

CredentialsExpire(c) ==
    /\ cache[c] = "fresh"
    /\ cache' = [cache EXCEPT ![c] = "expired"]
    /\ UNCHANGED <<config, pc, cacheMu, errorVars, vkVars, connected, cancelled>>

WindowEnds(c) ==
    /\ inWindow[c]
    /\ inWindow' = [inWindow EXCEPT ![c] = FALSE]
    /\ UNCHANGED <<config, pc, cacheVars, errorCount, vkVars, connected, cancelled>>

-----------------------------------------------------------------------------
Stream(s) ==
    \/ Begin(s) \/ Leave(s) \/ Lookup(s) \/ LockCache(s) \/ LockVk(s) \/ Throttle(s) \/ Fetch(s)
    \/ Token1(s) \/ Token2(s) \/ Token3(s) \/ AutoSolve(s) \/ ManualBegin(s) \/ ManualEnd(s)
    \/ Allocate(s) \/ Disconnect(s) \/ Backoff(s)
    \/ AuthWindow(s) \/ AuthCount(s) \/ AuthStamp(s) \/ Invalidate(s) \/ InvalidateReset(s)

\* All loops have returned.
Finished ==
    /\ \A s \in Streams : pc[s] = "returned"
    /\ UNCHANGED vars

Next ==
    \/ \E s \in Streams : Stream(s)
    \/ \E c \in Streams : CredentialsExpire(c) \/ WindowEnds(c)
    \/ UserAnswers \/ Cancel \/ LockoutEnds \/ IntervalEnds
    \/ Finished

Spec == Init /\ [][Next]_vars

(***************************************************************************)
(* Requests and solvers have timeouts and sleeps end, but a relay          *)
(* connection may stay up until the context is cancelled, and a user need  *)
(* not answer.  Go's mutexes hand over to a waiter that has waited long    *)
(* enough, so that a stream's steps are strongly fair: they differ from    *)
(* weakly fair ones only where it waits for a mutex.                       *)
(***************************************************************************)
Fairness ==
    /\ WF_vars(LockoutEnds) /\ WF_vars(IntervalEnds)
    /\ \A s \in Streams : SF_vars(Stream(s) /\ (pc[s] = "up" => cancelled))

FairSpec == Spec /\ Fairness

-----------------------------------------------------------------------------
(* What the cache and the fetch behind it promise.                         *)

\* Values of the variables; the count of connected streams stays within the streams there
\* are, so that the test for a fatal captcha is not misled by a count that drifts.
TypeOK ==
    /\ config \in Configs
    /\ pc \in [Streams -> Locations]
    /\ cache \in [Streams -> {"empty", "fresh", "expired"}]
    /\ cacheMu \in [Streams -> Streams \cup {None}]
    /\ errorCount \in [Streams -> Nat]
    /\ inWindow \in [Streams -> BOOLEAN]
    /\ vkMu \in Streams \cup {None}
    /\ recent \in BOOLEAN /\ lockout \in BOOLEAN /\ cancelled \in BOOLEAN
    /\ chain \in [app : 0..NumVkApps, attempt : Nat]
    /\ page \in {"closed", "open", "answered", "abandoned"}
    /\ connected \in 0..Cardinality(Streams)

\* getVkCredsCached: of the streams that found a cache stale at the same time, one fetches
\* and the others use what it fetched; VK is never asked for credentials that are there.
FetchOnlyWhenStale ==
    \A c \in Streams : cacheMu[c] # None => cache[c] # "fresh"

\* fetchVkCredsSerialized and fetchVkCreds: no request reaches VK in the minimum interval
\* after the last fetch, nor while the lockout that an unsolved captcha started lasts,
\* whichever streams, caches and VK apps the requests are made for.
VkProtected ==
    (\E s \in Streams : pc[s] \in Requesting) => ~recent /\ ~lockout

\* handleAuthError: its accesses interleave with those of other streams of the cache, and
\* still a count that reached the limit always has a stream about to drop the credentials.
LimitMeansInvalidation ==
    \A c \in Streams :
        errorCount[c] >= maxCacheErrors =>
            \E s \in Streams : getCacheID(s) = c /\ pc[s] \in {"stampDrop", "invalidate", "reset"}

\* getVkCredsCached: every call returns, although the cache stays locked through the wait
\* for vkRequestMu, the throttle and captchas that a user may never solve.
CallAnswered ==
    \A s \in Streams : pc[s] \in Calling ~> pc[s] \notin Calling
=============================================================================

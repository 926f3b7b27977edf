------------------------- MODULE Credentials_proofs -------------------------
(***************************************************************************)
(* The credential cache, for every number of streams, every number of      *)
(* streams to a cache and every list of VK apps.  VkProtected and          *)
(* FetchOnlyWhenStale speak of the streams at VK and of the locked caches; *)
(* what makes them inductive is who holds the locks: LocksHeld.            *)
(***************************************************************************)
EXTENDS Credentials, FiniteSetTheorems, TLAPS

\* Where a stream holds vkRequestMu, and where it holds the mutex of its cache.
AtVk == {"throttle", "fetch"} \cup Requesting
HoldsCache == {"serialize"} \cup AtVk

\* Each mutex is held by the stream that stands in its critical section, and by no other.
LocksHeld ==
    /\ \A s \in Streams : vkMu = s <=> pc[s] \in AtVk
    /\ \A s, c \in Streams :
          cacheMu[c] = s <=> getCacheID(s) = c /\ pc[s] \in HoldsCache

\* The throttle has been waited for once a stream is past it.
Throttled == \A s \in Streams : pc[s] = "fetch" => ~recent

\* connectedStreams counts the streams that have a relay connection.
Up == {s \in Streams : pc[s] = "up"}
UpCounted == connected = Cardinality(Up)

\* Types but for the count.
Types ==
    /\ config \in Configs
    /\ pc \in [Streams -> Locations]
    /\ cache \in [Streams -> {"empty", "fresh", "expired"}]
    /\ cacheMu \in [Streams -> Streams \cup {None}]
    /\ errorCount \in [Streams -> Nat]
    /\ inWindow \in [Streams -> BOOLEAN]
    /\ vkMu \in Streams \cup {None}
    /\ recent \in BOOLEAN /\ lockout \in BOOLEAN /\ cancelled \in BOOLEAN
    /\ chain \in [app : 0..NumVkApps, attempt : Nat]
    /\ page \in {"closed", "open", "answered", "abandoned"}

\* The inductive invariant.
CredentialInv ==
    /\ Types
    /\ LocksHeld
    /\ Throttled
    /\ UpCounted
    /\ FetchOnlyWhenStale
    /\ VkProtected
    /\ LimitMeansInvalidation

\* A step of the token chain that leaves the fetch under way, and the first one.
Advance(s) ==
    /\ pc[s] \in {"fetch"} \cup Requesting
    /\ pc[s] = "fetch" => ~lockout
    /\ \E to \in Requesting : Goto(s, to)
    /\ chain' \in [app : 0..NumVkApps, attempt : Nat]
    /\ page' \in {"closed", "open", "answered", "abandoned"}
    /\ UNCHANGED <<config, cacheVars, errorVars, vkMu, recent, lockout, connected, cancelled>>

\* A step that ends the fetch.
FetchEnds(s) ==
    /\ pc[s] \in {"fetch"} \cup Requesting
    /\ \E to \in {"backoff", "fatal", "allocate"} : Return(s, to)
    /\ lockout' \in BOOLEAN
    /\ page' \in {"closed", "open", "answered", "abandoned"}
    /\ UNCHANGED <<config, errorVars, connected, cancelled>>

-----------------------------------------------------------------------------
\* getCacheID: the caches are numbered like the streams, and no step renumbers them.
LEMMA CacheIds ==
    ASSUME config \in Configs, NEW s \in Streams
    PROVE  getCacheID(s) \in Streams
  <1> DEFINE k == config.streamsPerCache
  <1>1. s \in Nat /\ k \in Nat /\ k > 0 /\ 0..s \subseteq Streams
    BY CredentialConstants
  <1> HIDE DEF k
  <1>2. s \div k \in 0..s
    BY <1>1
  <1> QED
    BY <1>1, <1>2 DEF getCacheID, k

\* No step of the process changes its configuration, so that caches keep their streams.
LEMMA SameCaches ==
    ASSUME [Next]_vars
    PROVE  config' = config /\ \A s \in Streams : getCacheID(s)' = getCacheID(s)
  <1>1. config' = config
    BY DEF Next, Stream, Begin, Leave, Lookup, LockCache, LockVk, Throttle, Fetch, Token1,
           Token2, Token3, AutoSolve, ManualBegin, ManualEnd, Allocate, Disconnect, Backoff,
           AuthWindow, AuthCount, AuthStamp, Invalidate, InvalidateReset, CredentialsExpire,
           WindowEnds, UserAnswers, Cancel, LockoutEnds, IntervalEnds, Finished, vars,
           Proceed, AppFails, CaptchaExhausted, NextAttempt, NotSolved
  <1> QED
    BY <1>1 DEF getCacheID

\* getTokenChain and the fetch around it, seen from the locks: the fetch goes on or ends.
LEMMA ChainSteps ==
    ASSUME Types, NEW s \in Streams,
           \/ Fetch(s) \/ Token1(s) \/ Token2(s) \/ Token3(s)
           \/ AutoSolve(s) \/ ManualBegin(s) \/ ManualEnd(s)
    PROVE  Advance(s) \/ FetchEnds(s)
  <1> USE CredentialConstants
          DEF Types, Advance, FetchEnds, Requesting, cacheVars, errorVars, vkVars
  <1>1. chain.app \in 0..NumVkApps /\ chain.attempt \in Nat
    OBVIOUS
  <1>2. ASSUME AppFails(s), pc[s] \in Requesting PROVE Advance(s) \/ FetchEnds(s)
    BY <1>1, <1>2 DEF AppFails
  <1>3. ASSUME NEW to \in Requesting, Proceed(s, to), pc[s] \in Requesting PROVE Advance(s)
    BY <1>3 DEF Proceed
  <1>4. ASSUME CaptchaExhausted(s), pc[s] \in Requesting,
               page' \in {"closed", "open", "answered", "abandoned"}
        PROVE  FetchEnds(s)
    BY <1>4 DEF CaptchaExhausted
  <1>5. ASSUME NextAttempt(s), pc[s] \in Requesting,
               page' \in {"closed", "open", "answered", "abandoned"}
        PROVE  Advance(s)
    BY <1>1, <1>5 DEF NextAttempt
  <1>6. ASSUME NotSolved(s), pc[s] \in Requesting,
               page' \in {"closed", "open", "answered", "abandoned"}
        PROVE  Advance(s) \/ FetchEnds(s)
    BY <1>4, <1>5, <1>6 DEF NotSolved
  <1>7. CASE Fetch(s)
    BY <1>1, <1>7 DEF Fetch
  <1>8. CASE Token1(s)
    BY <1>2, <1>3, <1>8 DEF Token1
  <1>9. CASE Token2(s)
    BY <1>2, <1>3, <1>4, <1>9 DEF Token2
  <1>10. CASE Token3(s)
    BY <1>2, <1>10 DEF Token3
  <1>11. CASE AutoSolve(s)
    BY <1>5, <1>6, <1>11 DEF AutoSolve
  <1>12. CASE ManualBegin(s)
    BY <1>6, <1>12 DEF ManualBegin
  <1>13. CASE ManualEnd(s)
    BY <1>5, <1>6, <1>13 DEF ManualEnd
  <1> QED
    BY <1>7, <1>8, <1>9, <1>10, <1>11, <1>12, <1>13

\* The actions, one by one: a step of Next is a step of one of them.
LEMMA CredentialActions ==
    ASSUME Types, [Next]_vars
    PROVE  \/ \E s \in Streams :
                 \/ Begin(s) \/ Leave(s) \/ Lookup(s) \/ LockCache(s) \/ LockVk(s) \/ Throttle(s)
                 \/ Advance(s) \/ FetchEnds(s) \/ Allocate(s) \/ Disconnect(s) \/ Backoff(s)
                 \/ AuthWindow(s) \/ AuthCount(s) \/ AuthStamp(s)
                 \/ Invalidate(s) \/ InvalidateReset(s)
           \/ \E c \in Streams : CredentialsExpire(c) \/ WindowEnds(c)
           \/ UserAnswers \/ Cancel \/ LockoutEnds \/ IntervalEnds \/ UNCHANGED vars
  BY ChainSteps DEF Next, Stream, Finished

\* The initial state satisfies the invariant.
LEMMA CredentialInitInv == Init => CredentialInv
  <1> SUFFICES ASSUME Init PROVE CredentialInv
    OBVIOUS
  <1> USE DEF Init
  <1>0. NumVkApps \in Nat /\ maxCacheErrors \in Nat \ {0} /\ None \notin Streams
    BY CredentialConstants
  <1>1. Types
    <2>1. chain \in [app : 0..NumVkApps, attempt : Nat]
      BY <1>0
    <2> QED
      BY <1>0, <2>1 DEF Types, Locations
  <1>2. LocksHeld /\ Throttled
    BY <1>0 DEF LocksHeld, Throttled, AtVk, HoldsCache, Requesting
  <1>3. UpCounted
    <2>1. Up = {}
      BY DEF Up
    <2> QED
      BY <2>1, FS_EmptySet DEF UpCounted
  <1>4. FetchOnlyWhenStale /\ VkProtected /\ LimitMeansInvalidation
    BY <1>0 DEF FetchOnlyWhenStale, VkProtected, LimitMeansInvalidation, Requesting
  <1> QED
    BY <1>1, <1>2, <1>3, <1>4 DEF CredentialInv

\* Every step keeps the types.
LEMMA TypesStep ==
    ASSUME CredentialInv, [Next]_vars
    PROVE  Types'
  <1> USE DEF CredentialInv, Types, Goto, cacheVars, errorVars, vkVars,
             Locations, Calling, AuthFailing, Requesting
  <1>0. /\ \A s \in Streams : getCacheID(s) \in Streams /\ getCacheID(s)' = getCacheID(s)
        /\ config' = config /\ None \notin Streams /\ maxCacheErrors \in Nat \ {0}
    BY CacheIds, SameCaches, CredentialConstants
  <1> USE <1>0
  <1>1. ASSUME NEW s \in Streams, Begin(s) PROVE Types'
    BY <1>1 DEF Begin
  <1>2. ASSUME NEW s \in Streams, Leave(s) PROVE Types'
    BY <1>2 DEF Leave
  <1>3. ASSUME NEW s \in Streams, Lookup(s) PROVE Types'
    BY <1>3 DEF Lookup
  <1>4. ASSUME NEW s \in Streams, LockCache(s) PROVE Types'
    BY <1>4 DEF LockCache
  <1>5. ASSUME NEW s \in Streams, LockVk(s) PROVE Types'
    BY <1>5 DEF LockVk
  <1>6. ASSUME NEW s \in Streams, Throttle(s) PROVE Types'
    BY <1>6 DEF Throttle
  <1>7. ASSUME NEW s \in Streams, Advance(s) PROVE Types'
    BY <1>7 DEF Advance
  <1>8. ASSUME NEW s \in Streams, FetchEnds(s) PROVE Types'
    <2>1. chain' \in [app : 0..NumVkApps, attempt : Nat]
      BY <1>8, CredentialConstants DEF FetchEnds, Return
    <2> QED
      BY <1>8, <2>1 DEF FetchEnds, Return
  <1>9. ASSUME NEW s \in Streams, Allocate(s) PROVE Types'
    BY <1>9 DEF Allocate
  <1>10. ASSUME NEW s \in Streams, Disconnect(s) PROVE Types'
    BY <1>10 DEF Disconnect
  <1>11. ASSUME NEW s \in Streams, Backoff(s) PROVE Types'
    BY <1>11 DEF Backoff
  <1>12. ASSUME NEW s \in Streams, AuthWindow(s) PROVE Types'
    BY <1>12 DEF AuthWindow
  <1>13. ASSUME NEW s \in Streams, AuthCount(s) PROVE Types'
    BY <1>13 DEF AuthCount
  <1>14. ASSUME NEW s \in Streams, AuthStamp(s) PROVE Types'
    BY <1>14 DEF AuthStamp
  <1>15. ASSUME NEW s \in Streams, Invalidate(s) PROVE Types'
    BY <1>15 DEF Invalidate
  <1>16. ASSUME NEW s \in Streams, InvalidateReset(s) PROVE Types'
    BY <1>16 DEF InvalidateReset
  <1>17. ASSUME NEW c \in Streams, CredentialsExpire(c) PROVE Types'
    BY <1>17 DEF CredentialsExpire
  <1>18. ASSUME NEW c \in Streams, WindowEnds(c) PROVE Types'
    BY <1>18 DEF WindowEnds
  <1>19. CASE UserAnswers
    BY <1>19 DEF UserAnswers
  <1>20. CASE Cancel
    BY <1>20 DEF Cancel
  <1>21. CASE LockoutEnds
    BY <1>21 DEF LockoutEnds
  <1>22. CASE IntervalEnds
    BY <1>22 DEF IntervalEnds
  <1>23. CASE UNCHANGED vars
    BY <1>23 DEF vars
  <1> QED
    BY <1>1, <1>2, <1>3, <1>4, <1>5, <1>6, <1>7, <1>8, <1>9, <1>10, <1>11,
       <1>12, <1>13, <1>14, <1>15, <1>16, <1>17, <1>18, <1>19, <1>20, <1>21,
       <1>22, <1>23, CredentialActions

\* Every mutex is taken where a critical section begins and given back where it ends.
LEMMA LocksStep ==
    ASSUME CredentialInv, [Next]_vars
    PROVE  LocksHeld'
  <1> USE DEF CredentialInv, Types, Goto, cacheVars, errorVars, vkVars,
             LocksHeld, AtVk, HoldsCache, Requesting
  <1>0. /\ \A s \in Streams : getCacheID(s) \in Streams /\ getCacheID(s)' = getCacheID(s)
        /\ config' = config /\ None \notin Streams /\ maxCacheErrors \in Nat \ {0}
    BY CacheIds, SameCaches, CredentialConstants
  <1> USE <1>0
  <1>1. ASSUME NEW s \in Streams, Begin(s) PROVE LocksHeld'
    BY <1>1 DEF Begin
  <1>2. ASSUME NEW s \in Streams, Leave(s) PROVE LocksHeld'
    BY <1>2 DEF Leave
  <1>3. ASSUME NEW s \in Streams, Lookup(s) PROVE LocksHeld'
    BY <1>3 DEF Lookup
  <1>4. ASSUME NEW s \in Streams, LockCache(s) PROVE LocksHeld'
    BY <1>4 DEF LockCache
  <1>5. ASSUME NEW s \in Streams, LockVk(s) PROVE LocksHeld'
    BY <1>5 DEF LockVk
  <1>6. ASSUME NEW s \in Streams, Throttle(s) PROVE LocksHeld'
    BY <1>6 DEF Throttle
  <1>7. ASSUME NEW s \in Streams, Advance(s) PROVE LocksHeld'
    BY <1>7 DEF Advance
  <1>8. ASSUME NEW s \in Streams, FetchEnds(s) PROVE LocksHeld'
    BY <1>8 DEF FetchEnds, Return
  <1>9. ASSUME NEW s \in Streams, Allocate(s) PROVE LocksHeld'
    BY <1>9 DEF Allocate
  <1>10. ASSUME NEW s \in Streams, Disconnect(s) PROVE LocksHeld'
    BY <1>10 DEF Disconnect
  <1>11. ASSUME NEW s \in Streams, Backoff(s) PROVE LocksHeld'
    BY <1>11 DEF Backoff
  <1>12. ASSUME NEW s \in Streams, AuthWindow(s) PROVE LocksHeld'
    BY <1>12 DEF AuthWindow
  <1>13. ASSUME NEW s \in Streams, AuthCount(s) PROVE LocksHeld'
    BY <1>13 DEF AuthCount
  <1>14. ASSUME NEW s \in Streams, AuthStamp(s) PROVE LocksHeld'
    BY <1>14 DEF AuthStamp
  <1>15. ASSUME NEW s \in Streams, Invalidate(s) PROVE LocksHeld'
    BY <1>15 DEF Invalidate
  <1>16. ASSUME NEW s \in Streams, InvalidateReset(s) PROVE LocksHeld'
    BY <1>16 DEF InvalidateReset
  <1>17. ASSUME NEW c \in Streams, CredentialsExpire(c) PROVE LocksHeld'
    BY <1>17 DEF CredentialsExpire
  <1>18. ASSUME NEW c \in Streams, WindowEnds(c) PROVE LocksHeld'
    BY <1>18 DEF WindowEnds
  <1>19. CASE UserAnswers
    BY <1>19 DEF UserAnswers
  <1>20. CASE Cancel
    BY <1>20 DEF Cancel
  <1>21. CASE LockoutEnds
    BY <1>21 DEF LockoutEnds
  <1>22. CASE IntervalEnds
    BY <1>22 DEF IntervalEnds
  <1>23. CASE UNCHANGED vars
    BY <1>23 DEF vars
  <1> QED
    BY <1>1, <1>2, <1>3, <1>4, <1>5, <1>6, <1>7, <1>8, <1>9, <1>10, <1>11,
       <1>12, <1>13, <1>14, <1>15, <1>16, <1>17, <1>18, <1>19, <1>20, <1>21,
       <1>22, <1>23, CredentialActions

\* The throttle is left only after the interval, and only a fetch starts a new one.
LEMMA ThrottledStep ==
    ASSUME CredentialInv, [Next]_vars
    PROVE  Throttled'
  <1> USE DEF CredentialInv, Types, Goto, cacheVars, errorVars, vkVars,
             LocksHeld, AtVk, HoldsCache, Requesting, Throttled
  <1>0. /\ \A s \in Streams : getCacheID(s) \in Streams /\ getCacheID(s)' = getCacheID(s)
        /\ config' = config /\ None \notin Streams /\ maxCacheErrors \in Nat \ {0}
    BY CacheIds, SameCaches, CredentialConstants
  <1> USE <1>0
  <1>1. ASSUME NEW s \in Streams, Begin(s) PROVE Throttled'
    BY <1>1 DEF Begin
  <1>2. ASSUME NEW s \in Streams, Leave(s) PROVE Throttled'
    BY <1>2 DEF Leave
  <1>3. ASSUME NEW s \in Streams, Lookup(s) PROVE Throttled'
    BY <1>3 DEF Lookup
  <1>4. ASSUME NEW s \in Streams, LockCache(s) PROVE Throttled'
    BY <1>4 DEF LockCache
  <1>5. ASSUME NEW s \in Streams, LockVk(s) PROVE Throttled'
    BY <1>5 DEF LockVk
  <1>6. ASSUME NEW s \in Streams, Throttle(s) PROVE Throttled'
    BY <1>6 DEF Throttle
  <1>7. ASSUME NEW s \in Streams, Advance(s) PROVE Throttled'
    BY <1>7 DEF Advance
  <1>8. ASSUME NEW s \in Streams, FetchEnds(s) PROVE Throttled'
    BY <1>8 DEF FetchEnds, Return
  <1>9. ASSUME NEW s \in Streams, Allocate(s) PROVE Throttled'
    BY <1>9 DEF Allocate
  <1>10. ASSUME NEW s \in Streams, Disconnect(s) PROVE Throttled'
    BY <1>10 DEF Disconnect
  <1>11. ASSUME NEW s \in Streams, Backoff(s) PROVE Throttled'
    BY <1>11 DEF Backoff
  <1>12. ASSUME NEW s \in Streams, AuthWindow(s) PROVE Throttled'
    BY <1>12 DEF AuthWindow
  <1>13. ASSUME NEW s \in Streams, AuthCount(s) PROVE Throttled'
    BY <1>13 DEF AuthCount
  <1>14. ASSUME NEW s \in Streams, AuthStamp(s) PROVE Throttled'
    BY <1>14 DEF AuthStamp
  <1>15. ASSUME NEW s \in Streams, Invalidate(s) PROVE Throttled'
    BY <1>15 DEF Invalidate
  <1>16. ASSUME NEW s \in Streams, InvalidateReset(s) PROVE Throttled'
    BY <1>16 DEF InvalidateReset
  <1>17. ASSUME NEW c \in Streams, CredentialsExpire(c) PROVE Throttled'
    BY <1>17 DEF CredentialsExpire
  <1>18. ASSUME NEW c \in Streams, WindowEnds(c) PROVE Throttled'
    BY <1>18 DEF WindowEnds
  <1>19. CASE UserAnswers
    BY <1>19 DEF UserAnswers
  <1>20. CASE Cancel
    BY <1>20 DEF Cancel
  <1>21. CASE LockoutEnds
    BY <1>21 DEF LockoutEnds
  <1>22. CASE IntervalEnds
    BY <1>22 DEF IntervalEnds
  <1>23. CASE UNCHANGED vars
    BY <1>23 DEF vars
  <1> QED
    BY <1>1, <1>2, <1>3, <1>4, <1>5, <1>6, <1>7, <1>8, <1>9, <1>10, <1>11,
       <1>12, <1>13, <1>14, <1>15, <1>16, <1>17, <1>18, <1>19, <1>20, <1>21,
       <1>22, <1>23, CredentialActions

\* A cache becomes fresh only in the step that unlocks it.
LEMMA FreshStep ==
    ASSUME CredentialInv, [Next]_vars
    PROVE  FetchOnlyWhenStale'
  <1> USE DEF CredentialInv, Types, Goto, cacheVars, errorVars, vkVars,
             LocksHeld, AtVk, HoldsCache, Requesting, FetchOnlyWhenStale
  <1>0. /\ \A s \in Streams : getCacheID(s) \in Streams /\ getCacheID(s)' = getCacheID(s)
        /\ config' = config /\ None \notin Streams /\ maxCacheErrors \in Nat \ {0}
    BY CacheIds, SameCaches, CredentialConstants
  <1> USE <1>0
  <1>1. ASSUME NEW s \in Streams, Begin(s) PROVE FetchOnlyWhenStale'
    BY <1>1 DEF Begin
  <1>2. ASSUME NEW s \in Streams, Leave(s) PROVE FetchOnlyWhenStale'
    BY <1>2 DEF Leave
  <1>3. ASSUME NEW s \in Streams, Lookup(s) PROVE FetchOnlyWhenStale'
    BY <1>3 DEF Lookup
  <1>4. ASSUME NEW s \in Streams, LockCache(s) PROVE FetchOnlyWhenStale'
    BY <1>4 DEF LockCache
  <1>5. ASSUME NEW s \in Streams, LockVk(s) PROVE FetchOnlyWhenStale'
    BY <1>5 DEF LockVk
  <1>6. ASSUME NEW s \in Streams, Throttle(s) PROVE FetchOnlyWhenStale'
    BY <1>6 DEF Throttle
  <1>7. ASSUME NEW s \in Streams, Advance(s) PROVE FetchOnlyWhenStale'
    BY <1>7 DEF Advance
  <1>8. ASSUME NEW s \in Streams, FetchEnds(s) PROVE FetchOnlyWhenStale'
    BY <1>8 DEF FetchEnds, Return
  <1>9. ASSUME NEW s \in Streams, Allocate(s) PROVE FetchOnlyWhenStale'
    BY <1>9 DEF Allocate
  <1>10. ASSUME NEW s \in Streams, Disconnect(s) PROVE FetchOnlyWhenStale'
    BY <1>10 DEF Disconnect
  <1>11. ASSUME NEW s \in Streams, Backoff(s) PROVE FetchOnlyWhenStale'
    BY <1>11 DEF Backoff
  <1>12. ASSUME NEW s \in Streams, AuthWindow(s) PROVE FetchOnlyWhenStale'
    BY <1>12 DEF AuthWindow
  <1>13. ASSUME NEW s \in Streams, AuthCount(s) PROVE FetchOnlyWhenStale'
    BY <1>13 DEF AuthCount
  <1>14. ASSUME NEW s \in Streams, AuthStamp(s) PROVE FetchOnlyWhenStale'
    BY <1>14 DEF AuthStamp
  <1>15. ASSUME NEW s \in Streams, Invalidate(s) PROVE FetchOnlyWhenStale'
    BY <1>15 DEF Invalidate
  <1>16. ASSUME NEW s \in Streams, InvalidateReset(s) PROVE FetchOnlyWhenStale'
    BY <1>16 DEF InvalidateReset
  <1>17. ASSUME NEW c \in Streams, CredentialsExpire(c) PROVE FetchOnlyWhenStale'
    BY <1>17 DEF CredentialsExpire
  <1>18. ASSUME NEW c \in Streams, WindowEnds(c) PROVE FetchOnlyWhenStale'
    BY <1>18 DEF WindowEnds
  <1>19. CASE UserAnswers
    BY <1>19 DEF UserAnswers
  <1>20. CASE Cancel
    BY <1>20 DEF Cancel
  <1>21. CASE LockoutEnds
    BY <1>21 DEF LockoutEnds
  <1>22. CASE IntervalEnds
    BY <1>22 DEF IntervalEnds
  <1>23. CASE UNCHANGED vars
    BY <1>23 DEF vars
  <1> QED
    BY <1>1, <1>2, <1>3, <1>4, <1>5, <1>6, <1>7, <1>8, <1>9, <1>10, <1>11,
       <1>12, <1>13, <1>14, <1>15, <1>16, <1>17, <1>18, <1>19, <1>20, <1>21,
       <1>22, <1>23, CredentialActions

\* The interval and the lockout start where the stream that was at VK leaves it.
LEMMA ProtectedStep ==
    ASSUME CredentialInv, [Next]_vars
    PROVE  VkProtected'
  <1> USE DEF CredentialInv, Types, Goto, cacheVars, errorVars, vkVars,
             LocksHeld, AtVk, HoldsCache, Requesting, Throttled, VkProtected
  <1>0. /\ \A s \in Streams : getCacheID(s) \in Streams /\ getCacheID(s)' = getCacheID(s)
        /\ config' = config /\ None \notin Streams /\ maxCacheErrors \in Nat \ {0}
    BY CacheIds, SameCaches, CredentialConstants
  <1> USE <1>0
  <1>1. ASSUME NEW s \in Streams, Begin(s) PROVE VkProtected'
    BY <1>1 DEF Begin
  <1>2. ASSUME NEW s \in Streams, Leave(s) PROVE VkProtected'
    BY <1>2 DEF Leave
  <1>3. ASSUME NEW s \in Streams, Lookup(s) PROVE VkProtected'
    BY <1>3 DEF Lookup
  <1>4. ASSUME NEW s \in Streams, LockCache(s) PROVE VkProtected'
    BY <1>4 DEF LockCache
  <1>5. ASSUME NEW s \in Streams, LockVk(s) PROVE VkProtected'
    BY <1>5 DEF LockVk
  <1>6. ASSUME NEW s \in Streams, Throttle(s) PROVE VkProtected'
    BY <1>6 DEF Throttle
  <1>7. ASSUME NEW s \in Streams, Advance(s) PROVE VkProtected'
    BY <1>7 DEF Advance
  <1>8. ASSUME NEW s \in Streams, FetchEnds(s) PROVE VkProtected'
    BY <1>8 DEF FetchEnds, Return
  <1>9. ASSUME NEW s \in Streams, Allocate(s) PROVE VkProtected'
    BY <1>9 DEF Allocate
  <1>10. ASSUME NEW s \in Streams, Disconnect(s) PROVE VkProtected'
    BY <1>10 DEF Disconnect
  <1>11. ASSUME NEW s \in Streams, Backoff(s) PROVE VkProtected'
    BY <1>11 DEF Backoff
  <1>12. ASSUME NEW s \in Streams, AuthWindow(s) PROVE VkProtected'
    BY <1>12 DEF AuthWindow
  <1>13. ASSUME NEW s \in Streams, AuthCount(s) PROVE VkProtected'
    BY <1>13 DEF AuthCount
  <1>14. ASSUME NEW s \in Streams, AuthStamp(s) PROVE VkProtected'
    BY <1>14 DEF AuthStamp
  <1>15. ASSUME NEW s \in Streams, Invalidate(s) PROVE VkProtected'
    BY <1>15 DEF Invalidate
  <1>16. ASSUME NEW s \in Streams, InvalidateReset(s) PROVE VkProtected'
    BY <1>16 DEF InvalidateReset
  <1>17. ASSUME NEW c \in Streams, CredentialsExpire(c) PROVE VkProtected'
    BY <1>17 DEF CredentialsExpire
  <1>18. ASSUME NEW c \in Streams, WindowEnds(c) PROVE VkProtected'
    BY <1>18 DEF WindowEnds
  <1>19. CASE UserAnswers
    BY <1>19 DEF UserAnswers
  <1>20. CASE Cancel
    BY <1>20 DEF Cancel
  <1>21. CASE LockoutEnds
    BY <1>21 DEF LockoutEnds
  <1>22. CASE IntervalEnds
    BY <1>22 DEF IntervalEnds
  <1>23. CASE UNCHANGED vars
    BY <1>23 DEF vars
  <1> QED
    BY <1>1, <1>2, <1>3, <1>4, <1>5, <1>6, <1>7, <1>8, <1>9, <1>10, <1>11,
       <1>12, <1>13, <1>14, <1>15, <1>16, <1>17, <1>18, <1>19, <1>20, <1>21,
       <1>22, <1>23, CredentialActions

\* The count reaches the limit in a step that sends its stream to the invalidation.
LEMMA LimitStep ==
    ASSUME CredentialInv, [Next]_vars
    PROVE  LimitMeansInvalidation'
  <1> USE DEF CredentialInv, Types, Goto, cacheVars, errorVars, vkVars,
             LimitMeansInvalidation, Requesting
  <1>0. /\ \A s \in Streams : getCacheID(s) \in Streams /\ getCacheID(s)' = getCacheID(s)
        /\ config' = config /\ None \notin Streams /\ maxCacheErrors \in Nat \ {0}
    BY CacheIds, SameCaches, CredentialConstants
  <1> USE <1>0
  <1>1. ASSUME NEW s \in Streams, Begin(s) PROVE LimitMeansInvalidation'
    BY <1>1 DEF Begin
  <1>2. ASSUME NEW s \in Streams, Leave(s) PROVE LimitMeansInvalidation'
    BY <1>2 DEF Leave
  <1>3. ASSUME NEW s \in Streams, Lookup(s) PROVE LimitMeansInvalidation'
    BY <1>3 DEF Lookup
  <1>4. ASSUME NEW s \in Streams, LockCache(s) PROVE LimitMeansInvalidation'
    BY <1>4 DEF LockCache
  <1>5. ASSUME NEW s \in Streams, LockVk(s) PROVE LimitMeansInvalidation'
    BY <1>5 DEF LockVk
  <1>6. ASSUME NEW s \in Streams, Throttle(s) PROVE LimitMeansInvalidation'
    BY <1>6 DEF Throttle
  <1>7. ASSUME NEW s \in Streams, Advance(s) PROVE LimitMeansInvalidation'
    BY <1>7 DEF Advance
  <1>8. ASSUME NEW s \in Streams, FetchEnds(s) PROVE LimitMeansInvalidation'
    BY <1>8 DEF FetchEnds, Return
  <1>9. ASSUME NEW s \in Streams, Allocate(s) PROVE LimitMeansInvalidation'
    BY <1>9 DEF Allocate
  <1>10. ASSUME NEW s \in Streams, Disconnect(s) PROVE LimitMeansInvalidation'
    BY <1>10 DEF Disconnect
  <1>11. ASSUME NEW s \in Streams, Backoff(s) PROVE LimitMeansInvalidation'
    BY <1>11 DEF Backoff
  <1>12. ASSUME NEW s \in Streams, AuthWindow(s) PROVE LimitMeansInvalidation'
    BY <1>12 DEF AuthWindow
  <1>13. ASSUME NEW s \in Streams, AuthCount(s) PROVE LimitMeansInvalidation'
    BY <1>13 DEF AuthCount
  <1>14. ASSUME NEW s \in Streams, AuthStamp(s) PROVE LimitMeansInvalidation'
    BY <1>14 DEF AuthStamp
  <1>15. ASSUME NEW s \in Streams, Invalidate(s) PROVE LimitMeansInvalidation'
    BY <1>15 DEF Invalidate
  <1>16. ASSUME NEW s \in Streams, InvalidateReset(s) PROVE LimitMeansInvalidation'
    BY <1>16 DEF InvalidateReset
  <1>17. ASSUME NEW c \in Streams, CredentialsExpire(c) PROVE LimitMeansInvalidation'
    BY <1>17 DEF CredentialsExpire
  <1>18. ASSUME NEW c \in Streams, WindowEnds(c) PROVE LimitMeansInvalidation'
    BY <1>18 DEF WindowEnds
  <1>19. CASE UserAnswers
    BY <1>19 DEF UserAnswers
  <1>20. CASE Cancel
    BY <1>20 DEF Cancel
  <1>21. CASE LockoutEnds
    BY <1>21 DEF LockoutEnds
  <1>22. CASE IntervalEnds
    BY <1>22 DEF IntervalEnds
  <1>23. CASE UNCHANGED vars
    BY <1>23 DEF vars
  <1> QED
    BY <1>1, <1>2, <1>3, <1>4, <1>5, <1>6, <1>7, <1>8, <1>9, <1>10, <1>11,
       <1>12, <1>13, <1>14, <1>15, <1>16, <1>17, <1>18, <1>19, <1>20, <1>21,
       <1>22, <1>23, CredentialActions

\* connectedStreams changes by one, in the steps that open and close a relay connection.
LEMMA UpStep ==
    ASSUME CredentialInv, [Next]_vars
    PROVE  UpCounted'
  <1> USE DEF CredentialInv, Types, Goto, cacheVars, errorVars, vkVars, Up
  <1>0. Up \subseteq Streams /\ IsFiniteSet(Up) /\ connected = Cardinality(Up)
    BY FS_Subset, CredentialConstants DEF UpCounted
  <1>1. ASSUME Up' = Up, connected' = connected PROVE UpCounted'
    BY <1>0, <1>1 DEF UpCounted
  <1>2. ASSUME NEW s \in Streams, Allocate(s) PROVE UpCounted'
    <2>1. CASE pc' = [pc EXCEPT ![s] = "up"] /\ connected' = connected + 1
      <3>1. s \notin Up /\ Up' = Up \cup {s}
        BY <1>2, <2>1 DEF Allocate
      <3>2. Cardinality(Up \cup {s}) = Cardinality(Up) + 1
        BY <1>0, <3>1, FS_AddElement
      <3> QED
        BY <1>0, <2>1, <3>1, <3>2 DEF UpCounted
    <2>2. CASE \E to \in {"backoff", "authWindow"} :
                  pc' = [pc EXCEPT ![s] = to] /\ connected' = connected
      <3>1. Up' = Up
        BY <1>2, <2>2 DEF Allocate
      <3> QED
        BY <1>1, <2>2, <3>1
    <2> QED
      BY <1>2, <2>1, <2>2 DEF Allocate
  <1>3. ASSUME NEW s \in Streams, Disconnect(s) PROVE UpCounted'
    <2>1. s \in Up /\ Up' = Up \ {s}
      BY <1>3 DEF Disconnect
    <2>2. Cardinality(Up \ {s}) = Cardinality(Up) - 1
      BY <1>0, <2>1, FS_RemoveElement
    <2> QED
      BY <1>0, <1>3, <2>1, <2>2 DEF UpCounted, Disconnect
  <1>4. ASSUME NEW s \in Streams,
               \/ Begin(s) \/ Leave(s) \/ Lookup(s) \/ LockCache(s) \/ LockVk(s) \/ Throttle(s)
               \/ Advance(s) \/ FetchEnds(s) \/ Backoff(s)
               \/ AuthWindow(s) \/ AuthCount(s) \/ AuthStamp(s)
               \/ Invalidate(s) \/ InvalidateReset(s)
        PROVE  Up' = Up /\ connected' = connected
    BY <1>4 DEF Begin, Leave, Lookup, LockCache, LockVk, Throttle, Advance, FetchEnds, Return,
                Requesting, Backoff, AuthWindow, AuthCount, AuthStamp, Invalidate,
                InvalidateReset
  <1>5. ASSUME NEW c \in Streams, CredentialsExpire(c) \/ WindowEnds(c)
        PROVE  Up' = Up /\ connected' = connected
    BY <1>5 DEF CredentialsExpire, WindowEnds
  <1>6. CASE UserAnswers \/ Cancel \/ LockoutEnds \/ IntervalEnds \/ UNCHANGED vars
    <2>1. Up' = Up /\ connected' = connected
      BY <1>6 DEF UserAnswers, Cancel, LockoutEnds, IntervalEnds, vars
    <2> QED
      BY <1>1, <2>1
  <1> QED
    BY <1>1, <1>2, <1>3, <1>4, <1>5, <1>6, CredentialActions

\* The count stays within the number of streams.
LEMMA UpWithinStreams ==
    ASSUME Types, UpCounted
    PROVE  TypeOK
  <1>1. Up \subseteq Streams
    BY DEF Up
  <1>2. Cardinality(Up) \in Nat /\ Cardinality(Streams) \in Nat
        /\ Cardinality(Up) <= Cardinality(Streams)
    BY <1>1, FS_Subset, FS_CardinalityType, CredentialConstants
  <1>3. connected \in 0..Cardinality(Streams)
    BY <1>2 DEF UpCounted
  <1> QED
    BY <1>3 DEF Types, TypeOK

-----------------------------------------------------------------------------
\* CredentialInv is an inductive invariant of the credential cache.
THEOREM CredentialInvariant == Spec => []CredentialInv
  <1>1. ASSUME CredentialInv, [Next]_vars PROVE CredentialInv'
    <2>1. Types' /\ LocksHeld' /\ Throttled' /\ UpCounted'
      BY <1>1, TypesStep, LocksStep, ThrottledStep, UpStep
    <2>2. FetchOnlyWhenStale' /\ VkProtected' /\ LimitMeansInvalidation'
      BY <1>1, FreshStep, ProtectedStep, LimitStep
    <2> QED
      BY <2>1, <2>2 DEF CredentialInv
  <1> QED
    BY <1>1, CredentialInitInv, PTL DEF Spec

\* The variables keep their types, and connectedStreams, which decides whether an
\* unsolved captcha ends the process, stays within the streams there are.
THEOREM CredentialsTyped == Spec => []TypeOK
  BY CredentialInvariant, UpWithinStreams, PTL DEF CredentialInv

\* connectedStreams is the number of streams that have a relay connection, so that
\* FATAL_CAPTCHA ends the process only when no stream has one.
THEOREM ConnectedIsExact == Spec => []UpCounted
  BY CredentialInvariant, PTL DEF CredentialInv

\* getVkCredsCached: while a stream holds a cache for a fetch, the cache is not fresh,
\* however many streams found it stale together.
THEOREM FetchesAreNeeded == Spec => []FetchOnlyWhenStale
  BY CredentialInvariant, PTL DEF CredentialInv

\* fetchVkCredsSerialized, fetchVkCreds: no request within the minimum interval nor during
\* a lockout, for any number of streams, caches and VK apps.
THEOREM VkIsProtected == Spec => []VkProtected
  BY CredentialInvariant, PTL DEF CredentialInv

\* fetchVkCredsSerialized: at most one stream talks to VK at a time.
THEOREM OneRequestAtATime ==
    Spec => [](\A s, t \in Streams : pc[s] \in Requesting /\ pc[t] \in Requesting => s = t)
  <1>1. CredentialInv =>
          \A s, t \in Streams : pc[s] \in Requesting /\ pc[t] \in Requesting => s = t
    BY DEF CredentialInv, LocksHeld, AtVk
  <1> QED
    BY <1>1, CredentialInvariant, PTL

\* handleAuthError: an error count at the limit always has a stream that is about to drop
\* the credentials, in whatever order the streams of a cache count their errors.
THEOREM LimitIsActedUpon == Spec => []LimitMeansInvalidation
  BY CredentialInvariant, PTL DEF CredentialInv
=============================================================================

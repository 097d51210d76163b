-------------------------- MODULE ManagementToken --------------------------
(***************************************************************************)
(* The machine-to-machine token of HTTPOrgCreator                          *)
(* (platform/auth0/httporgcreator.go: ensureToken), cached in one worker   *)
(* process and shared, under a mutex, by all the activity attempts it      *)
(* runs.  Time is kept as what is left of it and counted down by Tick, so  *)
(* no clock needs a bound; the unit is any, the code's being the second.   *)
(***************************************************************************)
EXTENDS Integers

CONSTANTS
  Callers,       \* attempts that the process can run at a time
  Lifetime,      \* ExpiresIn: how long Auth0 honours a token it has issued
  Buffer,        \* tokenExpiryBuffer
  AttemptLimit   \* StartToCloseTimeout, the deadline of an attempt's calls

\* As configured, 86400, 1000 and 60 seconds.
ASSUME TokenAssumption ==
  /\ Lifetime \in Nat /\ Buffer \in Nat /\ AttemptLimit \in Nat
  /\ AttemptLimit <= Lifetime
  /\ 2 * AttemptLimit <= Buffer

VARIABLES
  cached,   \* the token and its exp, as time left at Auth0 and in the cache
  holder,   \* the callers that hold the mutex while they fetch
  caller    \* each caller: where it is, and what is left to it and its token

tokenVars == <<cached, holder, caller>>

NoToken == [life |-> 0, use |-> 0]

\* waiting wants a token; fetching has asked Auth0 for one; issued is the
\* same, the answer being under way; calling has a token in hand.
Caller == [at   : {"idle", "waiting", "fetching", "issued", "calling"},
           left : 0..AttemptLimit,
           life : 0..Lifetime]

Idle == [at |-> "idle", left |-> 0, life |-> 0]

TokenTypeOK ==
  /\ cached \in [life : 0..Lifetime, use : 0..Lifetime]
  /\ holder \in SUBSET Callers
  /\ caller \in [Callers -> Caller]

TokenInit ==
  /\ cached = NoToken
  /\ holder = {}
  /\ caller = [c \in Callers |-> Idle]

At(c, place) == caller[c].at = place
Moves(c, place, life) ==
  caller' = [caller EXCEPT ![c] = [at |-> place, left |-> @.left,
                                   life |-> life]]

\* An attempt begins.
Begin(c) ==
  /\ At(c, "idle")
  /\ caller' = [caller EXCEPT ![c] = [at |-> "waiting", left |-> AttemptLimit,
                                      life |-> 0]]
  /\ UNCHANGED <<cached, holder>>

\* Mutant: the mutex is given back with the token only, not on an error.
EndKeepsMutex(c) ==
  /\ ~At(c, "idle")
  /\ caller' = [caller EXCEPT ![c] = Idle]
  /\ UNCHANGED <<cached, holder>>

\* The attempt is over, for whatever reason; a fetch of its own returns at
\* its deadline and gives the mutex back.
End(c) ==
  /\ ~At(c, "idle")
  /\ caller' = [caller EXCEPT ![c] = Idle]
  /\ holder' = holder \ {c}
  /\ UNCHANGED cached

-----------------------------------------------------------------------------
\* Now is before exp.
Usable == cached.use > 0

\* ensureToken, the mutex free: the cached token is returned, ...
TakeCached(c) ==
  /\ At(c, "waiting")
  /\ holder = {}
  /\ Usable
  /\ Moves(c, "calling", cached.life)
  /\ UNCHANGED <<cached, holder>>

\* Mutant: the cache is consulted before the mutex is taken.
FetchUnlocked(c) ==
  /\ At(c, "waiting")
  /\ ~Usable
  /\ holder' = holder \cup {c}
  /\ Moves(c, "fetching", 0)
  /\ UNCHANGED cached

\* ... or one is fetched, the mutex being held.
Fetch(c) ==
  /\ At(c, "waiting")
  /\ holder = {}
  /\ ~Usable
  /\ holder' = {c}
  /\ Moves(c, "fetching", 0)
  /\ UNCHANGED cached

\* Auth0 issues a token.
Issue(c) ==
  /\ At(c, "fetching")
  /\ Moves(c, "issued", Lifetime)
  /\ UNCHANGED <<cached, holder>>

\* Mutant: exp is when the token expires.
NoBuffer == Lifetime

\* exp is counted from the answer, not from the issue.
UseTime == IF Lifetime > Buffer THEN Lifetime - Buffer ELSE 0

\* The answer arrives: the token is cached and returned.
Store(c) ==
  /\ At(c, "issued")
  /\ cached' = [life |-> caller[c].life, use |-> UseTime]
  /\ holder' = holder \ {c}
  /\ Moves(c, "calling", caller[c].life)

\* UserEmail asks for a token again, in the same attempt.
Again(c) ==
  /\ At(c, "calling")
  /\ Moves(c, "waiting", 0)
  /\ UNCHANGED <<cached, holder>>

\* The process restarts: the cache, the mutex and the attempts are gone.
Restart ==
  /\ cached' = NoToken
  /\ holder' = {}
  /\ caller' = [c \in Callers |-> Idle]

Less(t) == IF t > 0 THEN t - 1 ELSE 0

\* Time passes, but not beyond a deadline: by then the attempt has ended.
Tick ==
  /\ \A c \in Callers : ~At(c, "idle") => caller[c].left > 0
  /\ cached' = [life |-> Less(cached.life), use |-> Less(cached.use)]
  /\ caller' = [c \in Callers |->
                  [at   |-> caller[c].at,
                   left |-> Less(caller[c].left),
                   life |-> Less(caller[c].life)]]
  /\ UNCHANGED holder

EnsureToken(c) == TakeCached(c) \/ Fetch(c) \/ Issue(c) \/ Store(c)

TokenNext ==
  \/ \E c \in Callers : Begin(c) \/ End(c) \/ EnsureToken(c) \/ Again(c)
  \/ Restart
  \/ Tick

TokenSpec == TokenInit /\ [][TokenNext]_tokenVars

-----------------------------------------------------------------------------
(***************************************************************************)
(* Properties.                                                             *)
(***************************************************************************)

\* A token in hand outlives the attempt that holds it, although exp is set
\* late by the time the answer took and the token may be taken from the cache
\* in its last moment (httporgcreator.go:37-38, 223-239).
TokenOutlivesAttempt ==
  \A c \in Callers : At(c, "calling") => caller[c].life >= caller[c].left

\* One attempt at a time fetches, and only while the cache has no token to
\* give: those that waited for it share what it fetched.
NoNeedlessFetch ==
  \A c \in Callers : At(c, "fetching") \/ At(c, "issued") =>
    holder = {c} /\ ~Usable

\* The mutex is held by an attempt that fetches, not by one that is over.
HolderFetches == \A c \in holder : At(c, "fetching") \/ At(c, "issued")

\* A fetched token has lost no more than the attempt has, and a cached one no
\* more than an attempt may take.
TokenAges ==
  /\ \A c \in Callers : At(c, "issued") =>
       caller[c].life >= Lifetime - AttemptLimit + caller[c].left
  /\ Usable => cached.life - cached.use >= Buffer - AttemptLimit

TokenInv == TokenTypeOK /\ TokenAges /\ TokenOutlivesAttempt
              /\ NoNeedlessFetch /\ HolderFetches
=============================================================================

----------------------- MODULE ManagementTokenProofs -----------------------
(***************************************************************************)
(* The token that the attempts of a worker process share: for every number *)
(* of attempts, lifetime, buffer and deadline that TokenAssumption admits, *)
(* a token in hand outlives the attempt that holds it, and one attempt at  *)
(* a time fetches.                                                         *)
(***************************************************************************)
EXTENDS ManagementToken, TLAPS

\* exp lies a buffer ahead of the end of the token.
LEMMA UseTimeFacts ==
  UseTime \in 0..Lifetime /\ (UseTime > 0 => Lifetime - UseTime = Buffer)
BY TokenAssumption DEF UseTime

LEMMA InitToken == TokenInit => TokenInv
BY TokenAssumption
   DEF TokenInit, TokenInv, TokenTypeOK, TokenAges, TokenOutlivesAttempt,
       NoNeedlessFetch, HolderFetches, NoToken, Idle, Caller, At, Usable

\* What a step of one caller preserves, Tick and Restart aside.
LEMMA NextToken ==
  ASSUME TokenInv, [TokenNext]_tokenVars
  PROVE  TokenInv'
<1>. USE TokenAssumption, UseTimeFacts DEF TokenInv, At, Moves
<1>1. ASSUME NEW c \in Callers, Begin(c)
      PROVE  TokenInv'
  <2>. USE <1>1 DEF Begin
  <2>0. /\ caller[c] \in Caller
        /\ caller' \in [Callers -> Caller]
        /\ caller'[c].at = "waiting"
        /\ \A d \in Callers \ {c} : caller'[d] = caller[d]
    BY DEF TokenTypeOK, Caller, Idle
  <2>1. TokenTypeOK'
    BY <2>0 DEF TokenTypeOK, Caller, NoToken
  <2>2. TokenAges'
    BY <2>0 DEF TokenTypeOK, TokenAges, Caller, Usable, NoNeedlessFetch
  <2>3. TokenOutlivesAttempt'
    BY <2>0 DEF TokenTypeOK, TokenOutlivesAttempt, TokenAges, Caller, Usable
  <2>4. NoNeedlessFetch'
    BY <2>0 DEF NoNeedlessFetch, HolderFetches, Usable
  <2>5. HolderFetches'
    BY <2>0 DEF HolderFetches, NoNeedlessFetch
  <2>. QED  BY <2>1, <2>2, <2>3, <2>4, <2>5
<1>2. ASSUME NEW c \in Callers, End(c)
      PROVE  TokenInv'
  <2>. USE <1>2 DEF End, Idle
  <2>0. /\ caller[c] \in Caller
        /\ caller' \in [Callers -> Caller]
        /\ caller'[c].at = "idle"
        /\ \A d \in Callers \ {c} : caller'[d] = caller[d]
    BY DEF TokenTypeOK, Caller, Idle
  <2>1. TokenTypeOK'
    BY <2>0 DEF TokenTypeOK, Caller, NoToken
  <2>2. TokenAges'
    BY <2>0 DEF TokenTypeOK, TokenAges, Caller, Usable, NoNeedlessFetch
  <2>3. TokenOutlivesAttempt'
    BY <2>0 DEF TokenTypeOK, TokenOutlivesAttempt, TokenAges, Caller, Usable
  <2>4. NoNeedlessFetch'
    BY <2>0 DEF NoNeedlessFetch, HolderFetches, Usable
  <2>5. HolderFetches'
    BY <2>0 DEF HolderFetches, NoNeedlessFetch
  <2>. QED  BY <2>1, <2>2, <2>3, <2>4, <2>5
<1>3. ASSUME NEW c \in Callers, TakeCached(c)
      PROVE  TokenInv'
  <2>. USE <1>3 DEF TakeCached
  <2>0. /\ caller[c] \in Caller
        /\ caller' \in [Callers -> Caller]
        /\ caller'[c].at = "calling"
        /\ caller'[c].left = caller[c].left
        /\ caller'[c].life = cached.life
        /\ \A d \in Callers \ {c} : caller'[d] = caller[d]
    BY DEF TokenTypeOK, Caller, Idle
  <2>1. TokenTypeOK'
    BY <2>0 DEF TokenTypeOK, Caller, NoToken
  <2>2. TokenAges'
    BY <2>0 DEF TokenTypeOK, TokenAges, Caller, Usable, NoNeedlessFetch
  <2>3. TokenOutlivesAttempt'
    BY <2>0 DEF TokenTypeOK, TokenOutlivesAttempt, TokenAges, Caller, Usable
  <2>4. NoNeedlessFetch'
    BY <2>0 DEF NoNeedlessFetch, HolderFetches, Usable
  <2>5. HolderFetches'
    BY <2>0 DEF HolderFetches, NoNeedlessFetch
  <2>. QED  BY <2>1, <2>2, <2>3, <2>4, <2>5
<1>4. ASSUME NEW c \in Callers, Fetch(c)
      PROVE  TokenInv'
  <2>. USE <1>4 DEF Fetch
  <2>0. /\ caller[c] \in Caller
        /\ caller' \in [Callers -> Caller]
        /\ caller'[c].at = "fetching"
        /\ \A d \in Callers \ {c} : caller'[d] = caller[d]
    BY DEF TokenTypeOK, Caller, Idle
  <2>1. TokenTypeOK'
    BY <2>0 DEF TokenTypeOK, Caller, NoToken
  <2>2. TokenAges'
    BY <2>0 DEF TokenTypeOK, TokenAges, Caller, Usable, NoNeedlessFetch
  <2>3. TokenOutlivesAttempt'
    BY <2>0 DEF TokenTypeOK, TokenOutlivesAttempt, TokenAges, Caller, Usable
  <2>4. NoNeedlessFetch'
    BY <2>0 DEF NoNeedlessFetch, HolderFetches, Usable
  <2>5. HolderFetches'
    BY <2>0 DEF HolderFetches, NoNeedlessFetch
  <2>. QED  BY <2>1, <2>2, <2>3, <2>4, <2>5
<1>5. ASSUME NEW c \in Callers, Issue(c)
      PROVE  TokenInv'
  <2>. USE <1>5 DEF Issue
  <2>0. /\ caller[c] \in Caller
        /\ caller' \in [Callers -> Caller]
        /\ caller'[c].at = "issued"
        /\ caller'[c].left = caller[c].left
        /\ caller'[c].life = Lifetime
        /\ \A d \in Callers \ {c} : caller'[d] = caller[d]
    BY DEF TokenTypeOK, Caller, Idle
  <2>1. TokenTypeOK'
    BY <2>0 DEF TokenTypeOK, Caller, NoToken
  <2>2. TokenAges'
    BY <2>0 DEF TokenTypeOK, TokenAges, Caller, Usable, NoNeedlessFetch
  <2>3. TokenOutlivesAttempt'
    BY <2>0 DEF TokenTypeOK, TokenOutlivesAttempt, TokenAges, Caller, Usable
  <2>4. NoNeedlessFetch'
    BY <2>0 DEF NoNeedlessFetch, HolderFetches, Usable
  <2>5. HolderFetches'
    BY <2>0 DEF HolderFetches, NoNeedlessFetch
  <2>. QED  BY <2>1, <2>2, <2>3, <2>4, <2>5
<1>6. ASSUME NEW c \in Callers, Store(c)
      PROVE  TokenInv'
  <2>. USE <1>6 DEF Store
  <2>0. /\ caller[c] \in Caller
        /\ caller' \in [Callers -> Caller]
        /\ caller'[c].at = "calling"
        /\ caller'[c].left = caller[c].left
        /\ caller'[c].life = caller[c].life
        /\ \A d \in Callers \ {c} : caller'[d] = caller[d]
    BY DEF TokenTypeOK, Caller, Idle
  <2>1. TokenTypeOK'
    BY <2>0 DEF TokenTypeOK, Caller, NoToken
  <2>2. TokenAges'
    BY <2>0 DEF TokenTypeOK, TokenAges, Caller, Usable, NoNeedlessFetch
  <2>3. TokenOutlivesAttempt'
    BY <2>0 DEF TokenTypeOK, TokenOutlivesAttempt, TokenAges, Caller, Usable
  <2>4. NoNeedlessFetch'
    BY <2>0 DEF NoNeedlessFetch, HolderFetches, Usable
  <2>5. HolderFetches'
    BY <2>0 DEF HolderFetches, NoNeedlessFetch
  <2>. QED  BY <2>1, <2>2, <2>3, <2>4, <2>5
<1>7. ASSUME NEW c \in Callers, Again(c)
      PROVE  TokenInv'
  <2>. USE <1>7 DEF Again
  <2>0. /\ caller[c] \in Caller
        /\ caller' \in [Callers -> Caller]
        /\ caller'[c].at = "waiting"
        /\ \A d \in Callers \ {c} : caller'[d] = caller[d]
    BY DEF TokenTypeOK, Caller, Idle
  <2>1. TokenTypeOK'
    BY <2>0 DEF TokenTypeOK, Caller, NoToken
  <2>2. TokenAges'
    BY <2>0 DEF TokenTypeOK, TokenAges, Caller, Usable, NoNeedlessFetch
  <2>3. TokenOutlivesAttempt'
    BY <2>0 DEF TokenTypeOK, TokenOutlivesAttempt, TokenAges, Caller, Usable
  <2>4. NoNeedlessFetch'
    BY <2>0 DEF NoNeedlessFetch, HolderFetches, Usable
  <2>5. HolderFetches'
    BY <2>0 DEF HolderFetches, NoNeedlessFetch
  <2>. QED  BY <2>1, <2>2, <2>3, <2>4, <2>5
<1>8. CASE Restart
  BY <1>8 DEF Restart, NoToken, Idle, TokenTypeOK, TokenAges, Caller, Usable,
              TokenOutlivesAttempt, NoNeedlessFetch, HolderFetches
<1>9. CASE Tick
  <2>. USE <1>9 DEF Tick
  <2>0. ASSUME NEW c \in Callers
        PROVE  /\ caller[c] \in Caller
               /\ caller'[c] \in Caller
               /\ caller'[c].at = caller[c].at
               /\ caller'[c].life = Less(caller[c].life)
               /\ caller[c].at # "idle" =>
                    /\ caller[c].left > 0
                    /\ caller'[c].left = caller[c].left - 1
    BY DEF TokenTypeOK, Caller, Less
  <2>1. TokenTypeOK'
    BY <2>0 DEF TokenTypeOK, Less
  <2>2. TokenAges'
    <3>1. \A c \in Callers : caller'[c].at = "issued" =>
            caller'[c].life >= Lifetime - AttemptLimit + caller'[c].left
      BY <2>0 DEF TokenAges, Caller, Less
    <3>2. Usable' => cached'.life - cached'.use >= Buffer - AttemptLimit
      BY DEF TokenTypeOK, TokenAges, Usable, Less
    <3>. QED  BY <3>1, <3>2 DEF TokenAges
  <2>3. TokenOutlivesAttempt'
    BY <2>0 DEF TokenOutlivesAttempt, Caller, Less
  <2>4. NoNeedlessFetch'
    BY <2>0 DEF NoNeedlessFetch, Usable, TokenTypeOK, Less
  <2>5. HolderFetches'
    BY <2>0 DEF HolderFetches, TokenTypeOK
  <2>. QED  BY <2>1, <2>2, <2>3, <2>4, <2>5
<1>10. CASE UNCHANGED tokenVars
  BY <1>10 DEF tokenVars, TokenTypeOK, TokenAges, Usable,
               TokenOutlivesAttempt, NoNeedlessFetch, HolderFetches
<1>. QED
  BY <1>1, <1>2, <1>3, <1>4, <1>5, <1>6, <1>7, <1>8, <1>9, <1>10
     DEF TokenNext, EnsureToken

\* A token in hand outlives its attempt, one attempt at a time fetches, and the
\* mutex is held by nobody else (httporgcreator.go:219-241).
THEOREM TokenCorrect == TokenSpec => []TokenInv
BY InitToken, NextToken, PTL DEF TokenSpec
=============================================================================

------------------------- MODULE VerticalCacheProofs -------------------------
(***************************************************************************)
(* The vertical cache serves the latest release, for every set of names    *)
(* and any number of releases.                                             *)
(***************************************************************************)
EXTENDS VerticalCache, FiniteSetTheorems, TLAPS

\* A release that changes something calls the handler once or twice.
LEMMA WatchedFacts ==
  ASSUME NEW s \in Source, NEW t \in Source
  PROVE  Watched(s, t) \in 0..2 /\ (s # t => Watched(s, t) > 0)
<1>. DEFINE Changed == {k \in Keys : s[k] # t[k]}
<1>1. Changed \in {{}, {"verticals"}, {"questions"},
                   {"verticals"} \cup {"questions"}}
  BY DEF Keys
<1>2. Cardinality({}) = 0
  BY FS_EmptySet
<1>3. /\ Cardinality({"verticals"}) = 1 /\ IsFiniteSet({"verticals"})
      /\ Cardinality({"questions"}) = 1
  BY FS_Singleton
<1>4. Cardinality({"verticals"} \cup {"questions"}) = 2
  BY <1>3, FS_AddElement
<1>5. s # t => Changed # {}
  BY DEF Source, Keys
<1>. QED  BY <1>1, <1>2, <1>3, <1>4, <1>5 DEF Watched

CallsInv == calls <= 2 * releases

\* What the reload in progress has read is what the keys hold, or a call for
\* the change is outstanding; the snapshot is the same once it is done, unless
\* a key does not parse.
FreshInv ==
  startup = "called" /\ calls = 0 =>
    /\ reload.at \in {"questions", "swap"} =>
         /\ source["verticals"].parses
         /\ reload.read["verticals"] = source["verticals"].list
    /\ reload.at = "swap" =>
         /\ source["questions"].parses
         /\ reload.read["questions"] = source["questions"].list
    /\ reload.at = "idle" /\ (\A k \in Keys : source[k].parses) =>
         \A k \in Keys : snap[k] = source[k].list

CacheInv == TypeOK /\ CallsInv /\ FreshInv

LEMMA InitCache == Init => CacheInv
BY VerticalCacheAssumption
   DEF Init, CacheInv, TypeOK, CallsInv, FreshInv, BeginReload, Reload, Empty,
       Snapshot

\* A list that has been read.
LEMMA ListFacts ==
  ASSUME NEW v \in Value
  PROVE  v.list \in SUBSET Names
<1>1. CASE v \in [parses : {TRUE}, list : SUBSET Names]
  BY <1>1
<1>2. CASE v = Garbage
  <2>1. v.list = {}
    BY <1>2 DEF Garbage
  <2>. QED  BY <2>1
<1>. QED  BY <1>1, <1>2 DEF Value

LEMMA NextCache ==
  ASSUME CacheInv, [Next]_vars
  PROVE  CacheInv'
<1>. USE VerticalCacheAssumption DEF CacheInv, CallsInv, FreshInv
<1>1. CASE Release
  <2>1. /\ source' \in Source /\ source' # source
        /\ calls' = IF Subscribed THEN calls + Watched(source, source')
                    ELSE calls
        /\ releases' = releases + 1 /\ releases < MaxReleases
        /\ UNCHANGED <<startup, reload, snap>>
    BY <1>1 DEF Release
  <2>2. Watched(source, source') \in 1..2
    BY <2>1, WatchedFacts DEF TypeOK
  <2>3. calls' \in 0..(2 * MaxReleases) /\ CallsInv'
    BY <2>1, <2>2 DEF TypeOK
  <2>4. TypeOK'
    BY <2>1, <2>3 DEF TypeOK
  <2>5. FreshInv'
    BY <2>1, <2>2 DEF TypeOK, Subscribed
  <2>. QED  BY <2>3, <2>4, <2>5
<1>2. CASE Subscribe
  BY <1>2 DEF Subscribe, TypeOK
<1>3. CASE KeyChanged
  BY <1>3 DEF KeyChanged, TypeOK, BeginReload, Reload, Snapshot, Empty
<1>4. ASSUME NEW k \in Keys, NEW next \in {"questions", "swap"},
             next = (IF k = "verticals" THEN "questions" ELSE "swap"),
             ReadKey(k, next)
      PROVE  CacheInv'
  <2>1. /\ source[k] \in Value /\ reload.read \in Snapshot
        /\ UNCHANGED <<source, releases, calls, snap>>
    BY <1>4 DEF TypeOK, Source, Reload, ReadKey
  <2>2. CASE source[k].parses
    <3>1. /\ reload' = [at |-> next,
                        read |-> [reload.read EXCEPT ![k] = source[k].list]]
          /\ startup' = startup /\ reload.at = k
      BY <1>4, <2>2 DEF ReadKey
    <3>2. TypeOK'
      BY <1>4, <2>1, <3>1, ListFacts DEF TypeOK, Reload, Snapshot
    <3>3. FreshInv'
      BY <1>4, <2>1, <2>2, <3>1 DEF Keys, Snapshot
    <3>. QED  BY <2>1, <3>2, <3>3
  <2>3. CASE ~source[k].parses
    <3>1. ReloadFails
      BY <1>4, <2>3 DEF ReadKey
    <3>2. TypeOK'
      BY <2>1, <3>1
         DEF ReloadFails, TypeOK, NoReload, Reload, Snapshot, Empty
    <3>3. FreshInv'
      BY <1>4, <2>1, <2>3, <3>1 DEF ReloadFails, NoReload
    <3>. QED  BY <2>1, <3>2, <3>3
  <2>. QED  BY <2>2, <2>3
<1>5. CASE Replace
  <2>1. TypeOK'
    BY <1>5 DEF Replace, TypeOK, NoReload, Reload, Snapshot, Empty
  <2>2. FreshInv'
    BY <1>5 DEF Replace, NoReload, Keys
  <2>. QED  BY <1>5, <2>1, <2>2 DEF Replace
<1>6. CASE UNCHANGED vars
  BY <1>6 DEF vars, TypeOK
<1>. QED
  BY <1>1, <1>2, <1>3, <1>4, <1>5, <1>6
     DEF Next, Instance, ReloadStep, ReadVerticals, ReadQuestions, Keys

LEMMA CacheInvariant == Spec => []CacheInv
BY InitCache, NextCache, PTL DEF Spec

-----------------------------------------------------------------------------
\* The cache is type-correct; no more calls are outstanding than keys were
\* released (verticals.go:143-154).
THEOREM CacheTypeCorrect == Spec => []TypeOK
BY CacheInvariant, PTL DEF CacheInv

\* An instance that has been called and has no call outstanding serves the
\* latest release that parses, however releases fall between the reads of a
\* reload (verticals.go:156-169).
THEOREM LatestServed == Spec => []LatestIsServed
<1>1. CacheInv => LatestIsServed
  BY DEF CacheInv, FreshInv, LatestIsServed, CaughtUp
<1>. QED  BY <1>1, CacheInvariant, PTL

-----------------------------------------------------------------------------
\* A key holds nothing but lists of Good, as long as it parses.
Releases(k, Good) == source[k].parses => source[k].list \in Good

\* What a reload has read of the key is in Good, and what is served as well.
OnlyGood(k, Good) ==
  /\ reload.at = "swap" => reload.read[k] \in Good
  /\ reload.at = "questions" /\ k = "verticals" => reload.read[k] \in Good
  /\ startup \notin {"loading", "failed"} => snap[k] \in Good

LEMMA NextOnlyGood ==
  ASSUME NEW k \in Keys, NEW Good, TypeOK, OnlyGood(k, Good),
         Releases(k, Good), [Next]_vars
  PROVE  OnlyGood(k, Good)'
<1>. USE DEF OnlyGood
<1>1. CASE Release \/ Subscribe \/ UNCHANGED vars
  BY <1>1 DEF Release, Subscribe, vars
<1>2. CASE KeyChanged
  BY <1>2 DEF KeyChanged, Subscribed, BeginReload
<1>3. ASSUME NEW l \in Keys, NEW next \in {"questions", "swap"},
             next = (IF l = "verticals" THEN "questions" ELSE "swap"),
             ReadKey(l, next)
      PROVE  OnlyGood(k, Good)'
  <2>1. reload.read \in Snapshot /\ snap' = snap
    BY <1>3 DEF TypeOK, Reload, ReadKey
  <2>2. CASE source[l].parses
    <3>1. /\ reload' = [at |-> next,
                        read |-> [reload.read EXCEPT ![l] = source[l].list]]
          /\ startup' = startup /\ reload.at = l
      BY <1>3, <2>2 DEF ReadKey
    <3>2. CASE k = l
      BY <2>1, <2>2, <3>1, <3>2 DEF Releases, Snapshot
    <3>3. CASE k # l
      BY <1>3, <2>1, <3>1, <3>3 DEF Keys, Snapshot
    <3>. QED  BY <3>2, <3>3
  <2>3. CASE ~source[l].parses
    BY <1>3, <2>1, <2>3 DEF ReadKey, ReloadFails, NoReload
  <2>. QED  BY <2>2, <2>3
<1>4. CASE Replace
  BY <1>4 DEF Replace, NoReload
<1>. QED
  BY <1>1, <1>2, <1>3, <1>4
     DEF Next, Instance, ReloadStep, ReadVerticals, ReadQuestions, Keys

\* Nothing is made up, and no list is served in part: what holds of every list
\* that was ever released under a key holds of the one that is served, whatever
\* is released, or does not parse, while a reload reads (verticals.go:156-169).
THEOREM ServedWasReleased ==
  ASSUME NEW k \in Keys, NEW Good
  PROVE  Spec /\ []Releases(k, Good) =>
           [](startup \notin {"loading", "failed"} => snap[k] \in Good)
<1>1. Init => OnlyGood(k, Good)
  BY DEF Init, OnlyGood, BeginReload
<1>2. OnlyGood(k, Good) =>
        (startup \notin {"loading", "failed"} => snap[k] \in Good)
  BY DEF OnlyGood
<1>3. TypeOK /\ OnlyGood(k, Good) /\ Releases(k, Good) /\ [Next]_vars =>
        OnlyGood(k, Good)'
  BY NextOnlyGood
<1>. QED  BY <1>1, <1>2, <1>3, CacheTypeCorrect, PTL DEF Spec
=============================================================================

---------------------------- MODULE VerticalCache ----------------------------
(***************************************************************************)
(* The vertical cache of one instance (internal/config/verticals.go): it   *)
(* is loaded from two keys of the configuration service, subscribes to     *)
(* their changes and reloads both on each one.  The configuration client   *)
(* is external: a release may change both keys, a handler is called once   *)
(* per changed key, one call after the other, and GetRaw answers what the  *)
(* key holds at that moment.  Every step of the handlers of requests reads *)
(* the snapshot once, so the readers need no actions.                      *)
(***************************************************************************)
EXTENDS Integers, FiniteSets

CONSTANTS
  Names,        \* the names a list of verticals or of questions may have
  MaxReleases   \* bound on the releases published

ASSUME VerticalCacheAssumption == MaxReleases \in Nat

VARIABLES
  source,     \* configuration service: what each key holds
  releases,   \* ... how many releases were published
  calls,      \* ... calls of the change handler not begun
  startup,    \* LoadVerticalCache: how far the instance is
  reload,     \* the reload in progress: its next step and what it has read
  snap        \* the snapshot served

vars == <<source, releases, calls, startup, reload, snap>>

Keys == {"verticals", "questions"}

\* What a key holds: a list that parses, the empty string of the questions
\* being an empty one, or something that does not.
Garbage == [parses |-> FALSE, list |-> {}]
Value   == [parses : {TRUE}, list : SUBSET Names] \cup {Garbage}
Source  == [Keys -> Value]

Snapshot == [Keys -> SUBSET Names]
Empty    == [k \in Keys |-> {}]

Reload == [at : {"idle", "verticals", "questions", "swap"}, read : Snapshot]
NoReload    == [at |-> "idle", read |-> Empty]
BeginReload == [at |-> "verticals", read |-> Empty]

TypeOK ==
  /\ source \in Source
  /\ releases \in 0..MaxReleases
  /\ calls \in 0..(2 * MaxReleases)
  /\ startup \in {"loading", "loaded", "watching", "called", "failed"}
  /\ reload \in Reload
  /\ snap \in Snapshot

Init ==
  /\ source \in Source
  /\ releases = 0
  /\ calls = 0
  /\ startup = "loading"
  /\ reload = BeginReload
  /\ snap = Empty

Subscribed == startup \in {"watching", "called"}

-----------------------------------------------------------------------------
\* Mutant: the pattern has the verticals only.
WatchesVerticals(old, new) ==
  Cardinality({k \in {"verticals"} : old[k] # new[k]})

\* OnKeyChange: the pattern is matched by either key.
Watched(old, new) == Cardinality({k \in Keys : old[k] # new[k]})

\* A release; before the subscription nobody is called.
Release ==
  /\ releases < MaxReleases
  /\ releases' = releases + 1
  /\ source' \in Source \ {source}
  /\ calls' = IF Subscribed THEN calls + Watched(source, source') ELSE calls
  /\ UNCHANGED <<startup, reload, snap>>

\* The subscription, once the first load has succeeded.
Subscribe ==
  /\ startup = "loaded"
  /\ startup' = "watching"
  /\ UNCHANGED <<source, releases, calls, reload, snap>>

\* The handler is called for a change.
KeyChanged ==
  /\ Subscribed
  /\ reload.at = "idle"
  /\ calls > 0
  /\ calls' = calls - 1
  /\ startup' = "called"
  /\ reload' = BeginReload
  /\ UNCHANGED <<source, releases, snap>>

\* Mutant: the reload that fails stays where it is.
StuckReload == UNCHANGED <<reload, startup>>

\* A value does not parse: the snapshot stays, but the first load must succeed.
ReloadFails ==
  /\ reload' = NoReload
  /\ startup' = IF startup = "loading" THEN "failed" ELSE startup

\* The value of a key is read and parsed; the reload goes on with the next key.
ReadKey(k, next) ==
  /\ reload.at = k
  /\ IF source[k].parses
     THEN /\ reload' = [at |-> next,
                        read |-> [reload.read EXCEPT ![k] = source[k].list]]
          /\ UNCHANGED startup
     ELSE ReloadFails
  /\ UNCHANGED <<source, releases, calls, snap>>

\* reloadVerticalCache: one key, then the other, then the swap.
ReadVerticals == ReadKey("verticals", "questions")
ReadQuestions == ReadKey("questions", "swap")

Replace ==
  /\ reload.at = "swap"
  /\ snap' = reload.read
  /\ reload' = NoReload
  /\ startup' = IF startup = "loading" THEN "loaded" ELSE startup
  /\ UNCHANGED <<source, releases, calls>>

ReloadStep == ReadVerticals \/ ReadQuestions \/ Replace

Instance == ReloadStep \/ Subscribe \/ KeyChanged

Next == Release \/ Instance

Spec == Init /\ [][Next]_vars

\* The configuration client keeps calling, and the handler has no call that
\* could wait.
FairSpec == Spec /\ WF_vars(Instance)

-----------------------------------------------------------------------------
(***************************************************************************)
(* Properties.                                                             *)
(***************************************************************************)

CaughtUp == calls = 0 /\ reload.at = "idle"

\* Although a reload reads two keys that change under it, and drops what it has
\* read when either does not parse, the snapshot is the latest release whenever
\* no call is outstanding (verticals.go:156-169).  That holds from the first
\* call on: a release between the first load and the subscription
\* (verticals.go:145-148) goes unnoticed until the next one.
LatestIsServed ==
  startup = "called" /\ CaughtUp /\ (\A k \in Keys : source[k].parses)
  => \A k \in Keys : snap[k] = source[k].list

\* An instance that has been called catches up, whatever fails to parse.
CatchesUp == startup = "called" ~> CaughtUp
=============================================================================

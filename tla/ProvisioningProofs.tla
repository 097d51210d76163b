------------------------- MODULE ProvisioningProofs -------------------------
(***************************************************************************)
(* The provisioning activities call by call, for any list of environments  *)
(* and any number of attempts: what is recorded was provisioned, and is    *)
(* left alone from then on; and what an attempt leaves behind is what the  *)
(* workflow's model says it may.                                           *)
(***************************************************************************)
EXTENDS Provisioning, TLAPS

N == Len(Environments)

\* A concatenation, by position.
LEMMA ConcatFacts ==
  ASSUME NEW S, NEW s \in Seq(S), NEW t \in Seq(S)
  PROVE  /\ s \o t \in Seq(S)
         /\ Len(s \o t) = Len(s) + Len(t)
         /\ \A i \in 1..Len(s) : (s \o t)[i] = s[i]
         /\ \A i \in 1..Len(t) : (s \o t)[Len(s) + i] = t[i]
<1>1. s \o t \in Seq(S) /\ Len(s \o t) = Len(s) + Len(t)
  OBVIOUS
<1>2. \A i \in 1..Len(s) : (s \o t)[i] = s[i]
  OBVIOUS
<1>3. \A i \in 1..Len(t) : (s \o t)[Len(s) + i] = t[i]
  OBVIOUS
<1>. QED  BY <1>1, <1>2, <1>3, Zenon

\* One element and two sequences of the same length, by position.
LEMMA ThreeParts ==
  ASSUME NEW S, NEW s \in Seq(S), NEW t \in Seq(S), NEW u \in Seq(S),
         NEW n \in Nat, Len(s) = 1, Len(t) = n, Len(u) = n
  PROVE  /\ DOMAIN (s \o t \o u) = 1..(1 + n + n)
         /\ Len(s \o t \o u) = 1 + n + n
         /\ (s \o t \o u)[1] = s[1]
         /\ \A i \in 1..n : /\ (s \o t \o u)[1 + i] = t[i]
                            /\ (s \o t \o u)[1 + n + i] = u[i]
<1>1. PICK v \in Seq(S) :
        /\ v = s \o t
        /\ Len(v) = 1 + n
        /\ v[1] = s[1]
        /\ \A i \in 1..n : v[1 + i] = t[i]
  <2>1. /\ s \o t \in Seq(S) /\ Len(s \o t) = Len(s) + Len(t)
        /\ \A i \in 1..Len(s) : (s \o t)[i] = s[i]
        /\ \A i \in 1..Len(t) : (s \o t)[Len(s) + i] = t[i]
    BY ONLY ConcatFacts
  <2>2. \A i \in 1..n : (s \o t)[1 + i] = t[i]
    BY <2>1
  <2>3. (s \o t)[1] = s[1]
    BY <2>1
  <2>4. s \o t \in Seq(S) /\ Len(s \o t) = 1 + n
    BY <2>1
  <2>. QED  BY <2>2, <2>3, <2>4
<1>2. PICK w \in Seq(S) :
        /\ w = v \o u
        /\ Len(w) = 1 + n + n
        /\ \A i \in 1..(1 + n) : w[i] = v[i]
        /\ \A i \in 1..n : w[1 + n + i] = u[i]
  <2>0. v \in Seq(S)
    BY <1>1
  <2>1. /\ v \o u \in Seq(S) /\ Len(v \o u) = Len(v) + Len(u)
        /\ \A i \in 1..Len(v) : (v \o u)[i] = v[i]
        /\ \A i \in 1..Len(u) : (v \o u)[Len(v) + i] = u[i]
    BY ONLY <2>0, ConcatFacts
  <2>2. \A i \in 1..n : (v \o u)[1 + n + i] = u[i]
    BY <1>1, <2>1
  <2>3. \A i \in 1..(1 + n) : (v \o u)[i] = v[i]
    BY <1>1, <2>1
  <2>4. v \o u \in Seq(S) /\ Len(v \o u) = 1 + n + n
    BY <1>1, <2>1
  <2>. QED  BY <2>2, <2>3, <2>4
<1>3. DOMAIN w = 1..(1 + n + n)
  BY <1>2
<1>4. 1 \in 1..(1 + n) /\ \A i \in 1..n : 1 + i \in 1..(1 + n)
  OBVIOUS
<1>. QED  BY <1>1, <1>2, <1>3, <1>4

\* What Lago is asked for, by position.
LEMMA LagoFacts ==
  /\ N \in Nat \ {0}
  /\ DOMAIN Lago = 1..Len(Lago)
  /\ Len(Lago) = 1 + N + N
  /\ Lago[1] = <<"customer", None>>
  /\ \A i \in 1..N : /\ Lago[1 + i] = <<"plan", Environments[i]>>
                     /\ Lago[1 + N + i] = <<"subscription", Environments[i]>>
<1>. DEFINE C == << <<"customer", None>> >>
            All == {<<"customer", None>>}
                     \cup {<<"plan", Environments[i]>> : i \in 1..N}
                     \cup {<<"subscription", Environments[i]>> : i \in 1..N}
<1>1. N \in Nat \ {0} /\ DOMAIN Environments = 1..N
  BY ProvisioningAssumption DEF N
<1>2. ASSUME NEW kind \in {"plan", "subscription"}
      PROVE  /\ ForEach(kind) \in Seq(All)
             /\ Len(ForEach(kind)) = N
             /\ \A i \in 1..N : ForEach(kind)[i] = <<kind, Environments[i]>>
  <2>1. ForEach(kind) = [i \in 1..N |-> <<kind, Environments[i]>>]
    BY <1>1 DEF ForEach
  <2>2. \A i \in 1..N : <<kind, Environments[i]>> \in All
    OBVIOUS
  <2>. HIDE DEF All
  <2>. QED  BY <1>1, <2>1, <2>2
<1>3. C \in Seq(All) /\ Len(C) = 1 /\ C[1] = <<"customer", None>>
  OBVIOUS
<1>4. Lago = (C \o ForEach("plan")) \o ForEach("subscription")
  BY DEF Lago
<1>. HIDE DEF C, All
<1>5. /\ DOMAIN Lago = 1..(1 + N + N)
      /\ Len(Lago) = 1 + N + N
      /\ Lago[1] = C[1]
      /\ \A i \in 1..N : /\ Lago[1 + i] = ForEach("plan")[i]
                         /\ Lago[1 + N + i] = ForEach("subscription")[i]
  BY <1>1, <1>2, <1>3, <1>4, ThreeParts
<1>. QED  BY <1>1, <1>2, <1>3, <1>5

Kinds ==
  [kong |-> {"consumer"}, aws |-> {"key", "attachment"}, svix |-> {"app"},
   lago |-> {"customer", "plan", "subscription"}]

\* What each provider is asked for.
LEMMA CallsFacts ==
  ASSUME NEW r \in Resources
  PROVE  /\ Len(CallsFor[r]) \in 1..Len(Lago)
         /\ DOMAIN CallsFor[r] = 1..Len(CallsFor[r])
         /\ \A i \in 1..Len(CallsFor[r]) : /\ CallsFor[r][i] \in Objects
                                           /\ CallsFor[r][i][1] \in Kinds[r]
<1>1. \A i \in DOMAIN CallsFor[r] : CallsFor[r][i] \in Objects
  BY DEF Objects, ToSet
<1>2. CASE r = "kong"
  <2>1. CallsFor[r] = << <<"consumer", None>> >> /\ Kinds[r] = {"consumer"}
    BY <1>2 DEF CallsFor, Kinds
  <2>2. /\ Len(CallsFor[r]) = 1 /\ DOMAIN CallsFor[r] = 1..1
        /\ CallsFor[r][1][1] = "consumer"
    BY <2>1
  <2>. QED  BY <1>1, <2>1, <2>2, LagoFacts
<1>3. CASE r = "aws"
  <2>1. /\ CallsFor[r] = << <<"key", None>>, <<"attachment", None>> >>
        /\ Kinds[r] = {"key", "attachment"}
    BY <1>3 DEF CallsFor, Kinds
  <2>2. /\ Len(CallsFor[r]) = 2 /\ DOMAIN CallsFor[r] = 1..2
        /\ CallsFor[r][1][1] = "key" /\ CallsFor[r][2][1] = "attachment"
    BY <2>1
  <2>. QED  BY <1>1, <2>1, <2>2, LagoFacts
<1>4. CASE r = "svix"
  <2>1. CallsFor[r] = << <<"app", None>> >> /\ Kinds[r] = {"app"}
    BY <1>4 DEF CallsFor, Kinds
  <2>2. /\ Len(CallsFor[r]) = 1 /\ DOMAIN CallsFor[r] = 1..1
        /\ CallsFor[r][1][1] = "app"
    BY <2>1
  <2>. QED  BY <1>1, <2>1, <2>2, LagoFacts
<1>5. CASE r = "lago"
  <2>1. /\ CallsFor[r] = Lago
        /\ Kinds[r] = {"customer", "plan", "subscription"}
    BY <1>5 DEF CallsFor, Kinds
  <2>2. \A i \in 1..(1 + N + N) :
          \/ i = 1
          \/ i - 1 \in 1..N /\ i = 1 + (i - 1)
          \/ i - 1 - N \in 1..N /\ i = 1 + N + (i - 1 - N)
    BY LagoFacts
  <2>3. \A i \in 1..Len(Lago) :
          Lago[i][1] \in {"customer", "plan", "subscription"}
    <3>1. /\ <<"customer", None>>[1] = "customer"
          /\ \A e : /\ <<"plan", e>>[1] = "plan"
                    /\ <<"subscription", e>>[1] = "subscription"
      OBVIOUS
    <3>2. ASSUME NEW i \in 1..Len(Lago)
          PROVE  Lago[i][1] \in {"customer", "plan", "subscription"}
      <4>1. CASE i = 1
        BY <3>1, <4>1, LagoFacts
      <4>2. CASE i - 1 \in 1..N
        <5>1. Lago[1 + (i - 1)] = <<"plan", Environments[i - 1]>>
          BY <4>2, LagoFacts
        <5>2. 1 + (i - 1) = i
          BY <4>2
        <5>. QED  BY <3>1, <5>1, <5>2
      <4>3. CASE i - 1 - N \in 1..N
        <5>1. Lago[1 + N + (i - 1 - N)]
                = <<"subscription", Environments[i - 1 - N]>>
          BY <4>3, LagoFacts
        <5>2. 1 + N + (i - 1 - N) = i
          BY <4>3, LagoFacts
        <5>. QED  BY <3>1, <5>1, <5>2
      <4>. QED  BY <2>2, <4>1, <4>2, <4>3, LagoFacts
    <3>. QED  BY <3>2
  <2>4. Len(Lago) \in 1..Len(Lago)
    BY LagoFacts
  <2>. QED  BY <1>1, <2>1, <2>3, <2>4, LagoFacts
<1>. QED  BY <1>2, <1>3, <1>4, <1>5 DEF Resources

\* No two providers are asked for the same object.
LEMMA ApartFacts ==
  ASSUME NEW q \in Resources, NEW r \in Resources, q # r,
         NEW i \in 1..Len(CallsFor[q]), NEW j \in 1..Len(CallsFor[r])
  PROVE  CallsFor[q][i] # CallsFor[r][j]
<1>1. Kinds[q] \cap Kinds[r] = {}
  BY DEF Resources, Kinds
<1>2. CallsFor[q][i][1] \in Kinds[q] /\ CallsFor[r][j][1] \in Kinds[r]
  BY CallsFacts
<1>. QED  BY <1>1, <1>2


\* An activity is for one resource at most.
LEMMA IsForFacts ==
  ASSUME NEW q \in Resources, NEW r \in Resources, IsFor(q), IsFor(r)
  PROVE  q = r
<1>1. /\ ProvisionAction["kong"] = "ProvisionKong"
      /\ ProvisionAction["aws"] = "ProvisionAWS"
      /\ ProvisionAction["svix"] = "ProvisionSvix"
      /\ ProvisionAction["lago"] = "ProvisionLago"
  BY DEF ProvisionAction
<1>. QED  BY <1>1 DEF Resources, IsFor

-----------------------------------------------------------------------------
Attachment == <<"attachment", None>>

\* The first n calls for r have been made; the attachment of a key counts as
\* made with the key.
CallsMade(r, n) ==
  \A j \in 1..n :
    CallsFor[r][j] # Attachment => count[CallsFor[r][j]] > 0

\* What the attempt has done when it comes to a call, and to the write.
AttemptInv ==
  /\ at = "read" => next = 1
  /\ at \in {"call", "write"} => rec = record
  /\ at = "call" =>
       \E r \in Resources :
         /\ IsFor(r) /\ r \notin record.resources
         /\ next \in 1..Len(CallsFor[r])
         /\ CallsMade(r, next - 1)
  /\ at = "write" => \A r \in Resources : IsFor(r) => Provisioned(r)

CallsInv ==
  TypeOK /\ AttemptInv /\ RecordedIsProvisioned /\ SubscriptionsHavePlans

LEMMA MadeIsProvisioned ==
  ASSUME NEW r \in Resources, CallsMade(r, Len(CallsFor[r]))
  PROVE  Provisioned(r)
BY CallsFacts DEF CallsMade, Provisioned, ToSet, Attachment

LEMMA InitCalls == Init => CallsInv
<1>1. DOMAIN Activities = 1..5
  BY DEF Activities
<1>2. Len(Lago) >= 3
  BY LagoFacts
<1>3. \A i \in DOMAIN Environments :
        <<"subscription", Environments[i]>> \in Objects
  <2>1. DOMAIN Environments = 1..N
    BY ProvisioningAssumption DEF N
  <2>2. "lago" \in Resources /\ CallsFor["lago"] = Lago
    BY DEF Resources, CallsFor
  <2>3. ASSUME NEW i \in 1..N
        PROVE  <<"subscription", Environments[i]>> \in Objects
    <3>1. /\ Lago[1 + N + i] = <<"subscription", Environments[i]>>
          /\ 1 + N + i \in 1..Len(Lago)
      BY LagoFacts
    <3>. QED  BY <2>2, <3>1, CallsFacts
  <2>. QED  BY <2>1, <2>3
<1>. QED
  BY <1>1, <1>2, <1>3, ProvisioningAssumption, LagoFacts
     DEF Init, CallsInv, TypeOK, AttemptInv, RecordedIsProvisioned,
         SubscriptionsHavePlans, NewRecord, Record

\* An attempt that fails touches no store and leaves nothing behind.
LEMMA FailsOK ==
  ASSUME TypeOK, AttemptFails
  PROVE  /\ at' \in {"read", "failed"} /\ next' = 1 /\ rec' = NewRecord
         /\ attempt' \in 0..(MaxAttempts - 1)
         /\ activity' = activity
         /\ next' \in 1..(Len(Lago) + 1) /\ rec' \in Record
BY ProvisioningAssumption, LagoFacts
   DEF TypeOK, AttemptFails, NewRecord, Record

\* A step that changes neither the record nor the providers keeps what is said
\* of them.
LEMMA StoresSame ==
  ASSUME CallsInv, UNCHANGED <<record, count>>
  PROVE  RecordedIsProvisioned' /\ SubscriptionsHavePlans'
BY DEF CallsInv, RecordedIsProvisioned, SubscriptionsHavePlans, Provisioned

\* One more object of one kind: what was provisioned stays so, and a
\* subscription that is new comes after its plan.
LEMMA CreationKeeps ==
  ASSUME CallsInv, at = "call", NEW r \in Resources, IsFor(r), Creation(r),
         UNCHANGED record
  PROVE  /\ count' \in [Objects -> Nat]
         /\ \A obj \in Objects : count'[obj] >= count[obj]
         /\ count'[CallsFor[r][next]] > 0
         /\ RecordedIsProvisioned'
         /\ SubscriptionsHavePlans'
<1>. DEFINE obj == CallsFor[r][next]
<1>1. /\ next \in 1..Len(CallsFor[r]) /\ CallsMade(r, next - 1)
      /\ r \notin record.resources
  BY IsForFacts DEF CallsInv, AttemptInv
<1>2. obj \in Objects /\ obj[1] \in Kinds[r]
  BY <1>1, CallsFacts
<1>3. count \in [Objects -> Nat] /\ count' = [count EXCEPT ![obj] = @ + 1]
  BY DEF CallsInv, TypeOK, Creation, Created
<1>4. /\ count' \in [Objects -> Nat]
      /\ \A o \in Objects : count'[o] >= count[o]
      /\ \A o \in Objects : o # obj => count'[o] = count[o]
      /\ count'[obj] > 0
  BY <1>2, <1>3
<1>5. RecordedIsProvisioned'
  <2>1. \A q \in Resources : \A o \in ToSet(CallsFor[q]) : o \in Objects
    BY DEF Objects
  <2>. QED
    BY <1>4, <2>1
       DEF CallsInv, TypeOK, Record, RecordedIsProvisioned, Provisioned
<1>6. SubscriptionsHavePlans'
  <2>. SUFFICES ASSUME NEW i \in DOMAIN Environments,
                       count'[<<"subscription", Environments[i]>>] > 0
                PROVE  /\ count'[<<"customer", None>>] > 0
                       /\ count'[<<"plan", Environments[i]>>] > 0
    BY DEF SubscriptionsHavePlans
  <2>. DEFINE sub == <<"subscription", Environments[i]>>
              plan == <<"plan", Environments[i]>>
              customer == <<"customer", None>>
  <2>1. i \in 1..N
    BY ProvisioningAssumption DEF N
  <2>2. "lago" \in Resources /\ CallsFor["lago"] = Lago
    BY DEF Resources, CallsFor
  <2>3. sub \in Objects /\ plan \in Objects /\ customer \in Objects
    <3>1. /\ Lago[1 + N + i] = sub /\ Lago[1 + i] = plan
          /\ Lago[1] = customer
      BY <2>1, LagoFacts
    <3>2. /\ 1 + N + i \in 1..Len(Lago) /\ 1 + i \in 1..Len(Lago)
          /\ 1 \in 1..Len(Lago)
      BY <2>1, LagoFacts
    <3>3. \A j \in 1..Len(Lago) : Lago[j] \in Objects
      BY <2>2, CallsFacts
    <3>. QED  BY <3>1, <3>2, <3>3
  <2>4. CASE count[sub] > 0
    <3>1. count[customer] > 0 /\ count[plan] > 0
      BY <2>4 DEF CallsInv, SubscriptionsHavePlans
    <3>2. count[customer] \in Nat /\ count[plan] \in Nat
          /\ count'[customer] \in Nat /\ count'[plan] \in Nat
      BY <1>3, <1>4, <2>3
    <3>3. count'[customer] >= count[customer] /\ count'[plan] >= count[plan]
      BY <1>4, <2>3
    <3>. QED  BY <3>1, <3>2, <3>3
  <2>5. CASE ~(count[sub] > 0)
    <3>1. obj = sub
      BY <1>4, <2>3, <2>5
    <3>2. r = "lago"
      <4>1. sub[1] = "subscription"
        OBVIOUS
      <4>2. \A q \in Resources : "subscription" \in Kinds[q] => q = "lago"
        BY DEF Resources, Kinds
      <4>. QED  BY <1>2, <3>1, <4>1, <4>2
    <3>3. PICK k \in 1..N : next = 1 + N + k
      <4>1. next \in 1..(1 + N + N) /\ Lago[next] = sub
        BY <1>1, <2>2, <3>1, <3>2, LagoFacts
      <4>2. CASE next = 1
        <5>1. Lago[next] = customer
          BY <4>2, LagoFacts
        <5>2. customer[1] = "customer" /\ sub[1] = "subscription"
          OBVIOUS
        <5>. QED  BY <4>1, <5>1, <5>2
      <4>3. ASSUME NEW m \in 1..N, next = 1 + m
            PROVE  FALSE
        <5>1. Lago[next] = <<"plan", Environments[m]>>
          BY <4>3, LagoFacts
        <5>2. /\ <<"plan", Environments[m]>>[1] = "plan"
              /\ sub[1] = "subscription"
          OBVIOUS
        <5>3. <<"plan", Environments[m]>>[1] = sub[1]
          BY <4>1, <5>1
        <5>. QED  BY <5>2, <5>3
      <4>4. \/ next = 1
            \/ next - 1 \in 1..N /\ next = 1 + (next - 1)
            \/ next - 1 - N \in 1..N /\ next = 1 + N + (next - 1 - N)
        BY <4>1, LagoFacts
      <4>. QED  BY <4>2, <4>3, <4>4
    <3>4. /\ Environments[k] = Environments[i]
          /\ Lago[1 + k] = plan /\ Lago[1] = customer
      <4>1. /\ Lago[next] = <<"subscription", Environments[k]>>
            /\ Lago[1 + k] = <<"plan", Environments[k]>>
            /\ Lago[1] = customer
        BY <3>3, LagoFacts
      <4>2. <<"subscription", Environments[k]>>[2] = Environments[k]
            /\ sub[2] = Environments[i]
        OBVIOUS
      <4>3. Lago[next] = sub
        BY <2>2, <3>1, <3>2
      <4>. QED  BY <4>1, <4>2, <4>3
    <3>5. /\ 1 \in 1..(next - 1) /\ 1 + k \in 1..(next - 1)
      BY <3>3, LagoFacts
    <3>6. plan # Attachment /\ customer # Attachment
      <4>1. /\ plan[1] = "plan" /\ customer[1] = "customer"
            /\ Attachment[1] = "attachment"
        BY DEF Attachment
      <4>. QED  BY <4>1
    <3>7. count[plan] > 0 /\ count[customer] > 0
      BY <1>1, <2>2, <3>2, <3>4, <3>5, <3>6 DEF CallsMade
    <3>8. /\ count[customer] \in Nat /\ count[plan] \in Nat
          /\ count'[customer] \in Nat /\ count'[plan] \in Nat
          /\ count'[customer] >= count[customer]
          /\ count'[plan] >= count[plan]
      BY <1>3, <1>4, <2>3
    <3>. QED  BY <3>7, <3>8
  <2>. QED  BY <2>4, <2>5
<1>. QED  BY <1>4, <1>5, <1>6

LEMMA NextCalls ==
  ASSUME CallsInv, [Next]_vars
  PROVE  CallsInv'
<1>. DEFINE Same == UNCHANGED <<record, count>>
<1>0. ASSUME AttemptFails, Same, had' \in SUBSET Resources
      PROVE  CallsInv'
  <2>1. AttemptInv' /\ TypeOK'
    BY <1>0, FailsOK DEF CallsInv, TypeOK, AttemptInv
  <2>. QED  BY <1>0, <2>1, StoresSame DEF CallsInv
<1>1. CASE ReadRecord
  <2>0. had' \in SUBSET Resources /\ Same /\ at = "read"
    BY <1>1 DEF ReadRecord
  <2>1. CASE Answers
    <3>1. TypeOK' /\ AttemptInv'
      BY <2>0, <2>1 DEF CallsInv, TypeOK, AttemptInv, Answers
    <3>. QED  BY <2>0, <3>1, StoresSame DEF CallsInv
  <2>2. CASE /\ ~\E r \in record.resources : IsFor(r)
             /\ rec' = record
             /\ at' = IF \E r \in Resources : IsFor(r) THEN "call" ELSE "write"
             /\ UNCHANGED <<next, attempt>>
             /\ UNCHANGED activity
    <3>1. TypeOK'
      BY <2>0, <2>2 DEF CallsInv, TypeOK
    <3>2. next' = 1 /\ next = 1
      BY <2>0, <2>2 DEF CallsInv, AttemptInv
    <3>3. \A r \in Resources : IsFor(r) <=> IsFor(r)'
      BY <2>2 DEF IsFor, Action
    <3>4. CASE \E r \in Resources : IsFor(r)
      <4>1. PICK r \in Resources : IsFor(r)
        BY <3>4
      <4>2. /\ IsFor(r)' /\ r \notin record'.resources
            /\ next' \in 1..Len(CallsFor[r]) /\ CallsMade(r, next - 1)'
        BY <2>0, <2>2, <3>2, <3>3, <4>1, CallsFacts DEF CallsMade
      <4>3. AttemptInv'
        BY <2>0, <2>2, <3>2, <3>4, <4>2 DEF AttemptInv
      <4>. QED  BY <2>0, <3>1, <4>3, StoresSame DEF CallsInv
    <3>5. CASE ~\E r \in Resources : IsFor(r)
      <4>1. AttemptInv'
        BY <2>0, <2>2, <3>3, <3>5 DEF AttemptInv
      <4>. QED  BY <2>0, <3>1, <4>1, StoresSame DEF CallsInv
    <3>. QED  BY <3>4, <3>5
  <2>. QED  BY <1>0, <1>1, <2>0, <2>1, <2>2 DEF ReadRecord
<1>2. ASSUME at = "call", NEW r \in Resources, IsFor(r),
             Conflict(r) \/ Creation(r), UNCHANGED <<record, had>>
      PROVE  CallsInv'
  <2>. DEFINE obj == CallsFor[r][next]
  <2>1. /\ next \in 1..Len(CallsFor[r]) /\ CallsMade(r, next - 1)
        /\ r \notin record.resources /\ rec = record
        /\ obj \in Objects /\ obj[1] \in Kinds[r]
        /\ count \in [Objects -> Nat]
    BY <1>2, IsForFacts, CallsFacts DEF CallsInv, AttemptInv, TypeOK
  <2>2. /\ count' \in [Objects -> Nat]
        /\ \A o \in Objects : count'[o] >= count[o]
        /\ count'[obj] > 0
        /\ RecordedIsProvisioned' /\ SubscriptionsHavePlans'
    <3>1. CASE Conflict(r)
      <4>1. UNCHANGED count /\ count[obj] > 0
        BY <3>1 DEF Conflict
      <4>2. RecordedIsProvisioned' /\ SubscriptionsHavePlans'
        BY <1>2, <4>1, StoresSame
      <4>3. \A o \in Objects : count'[o] >= count[o]
        BY <2>1, <4>1
      <4>. QED  BY <2>1, <4>1, <4>2, <4>3
    <3>2. CASE Creation(r)
      BY <1>2, <3>2, CreationKeeps
    <3>. QED  BY <1>2, <3>1, <3>2
  <2>3. \A j \in 1..next :
          CallsFor[r][j] # Attachment => count'[CallsFor[r][j]] > 0
    <3>. SUFFICES ASSUME NEW j \in 1..next, CallsFor[r][j] # Attachment
                  PROVE  count'[CallsFor[r][j]] > 0
      OBVIOUS
    <3>1. CASE j = next
      BY <2>2, <3>1
    <3>2. CASE j # next
      <4>1. j \in 1..(next - 1) /\ CallsFor[r][j] \in Objects
        BY <2>1, <3>2, CallsFacts
      <4>2. count[CallsFor[r][j]] > 0
        BY <2>1, <4>1 DEF CallsMade
      <4>3. /\ count[CallsFor[r][j]] \in Nat
            /\ count'[CallsFor[r][j]] \in Nat
            /\ count'[CallsFor[r][j]] >= count[CallsFor[r][j]]
        BY <2>1, <2>2, <4>1
      <4>. QED  BY <4>2, <4>3
    <3>. QED  BY <3>1, <3>2
  <2>4. ASSUME CallMade(r, next)
        PROVE  AttemptInv' /\ TypeOK'
    <3>1. next' = next + 1 /\ UNCHANGED <<attempt, rec, activity>>
      BY <2>4 DEF CallMade
    <3>2. next' \in 1..(Len(Lago) + 1)
      BY <2>1, <3>1, CallsFacts, LagoFacts
    <3>3. CASE next = Len(CallsFor[r])
      <4>1. at' = "write"
        BY <2>4, <3>3 DEF CallMade
      <4>2. CallsMade(r, Len(CallsFor[r]))'
        BY <2>3, <3>3 DEF CallsMade
      <4>3. Provisioned(r)'
        BY <4>2, CallsFacts DEF CallsMade, Provisioned, ToSet, Attachment
      <4>4. \A q \in Resources : IsFor(q)' => q = r
        BY <1>2, <3>1, IsForFacts DEF IsFor, Action
      <4>5. AttemptInv'
        BY <1>2, <2>1, <3>1, <4>1, <4>3, <4>4 DEF AttemptInv
      <4>6. TypeOK'
        BY <1>2, <2>2, <3>1, <3>2, <4>1 DEF CallsInv, TypeOK
      <4>. QED  BY <4>5, <4>6
    <3>4. CASE next # Len(CallsFor[r])
      <4>1. at' = "call" /\ next' \in 1..Len(CallsFor[r])
        BY <2>1, <2>4, <3>1, <3>4, CallsFacts, LagoFacts DEF CallMade
      <4>2. CallsMade(r, next - 1)'
        <5>1. next' - 1 = next
          BY <2>1, <3>1
        <5>. QED  BY <2>3, <5>1 DEF CallsMade
      <4>3. IsFor(r)'
        BY <1>2, <3>1 DEF IsFor, Action
      <4>4. AttemptInv'
        BY <1>2, <2>1, <3>1, <4>1, <4>2, <4>3 DEF AttemptInv
      <4>5. TypeOK'
        BY <1>2, <2>2, <3>1, <3>2, <4>1 DEF CallsInv, TypeOK
      <4>. QED  BY <4>4, <4>5
    <3>. QED  BY <3>3, <3>4
  <2>5. CASE Conflict(r)
    <3>1. CASE obj # <<"key", None>>
      BY <2>2, <2>4, <2>5, <3>1 DEF Conflict, CallsInv
    <3>2. CASE obj = <<"key", None>>
      <4>1. r = "aws"
        <5>1. <<"key", None>>[1] = "key"
          OBVIOUS
        <5>2. \A q \in Resources : "key" \in Kinds[q] => q = "aws"
          BY DEF Resources, Kinds
        <5>. QED  BY <2>1, <3>2, <5>1, <5>2
      <4>2. /\ CallsFor[r] = << <<"key", None>>, Attachment >>
            /\ Len(CallsFor[r]) = 2
        BY <4>1 DEF CallsFor, Attachment
      <4>3. Provisioned(r)'
        BY <2>2, <3>2, <4>2 DEF Provisioned, ToSet, Attachment
      <4>4. /\ next' = 3 /\ at' = "write"
            /\ UNCHANGED <<attempt, rec, activity>>
        BY <2>5, <3>2, <4>2 DEF Conflict, CallMade
      <4>5. \A q \in Resources : IsFor(q)' => q = r
        BY <1>2, <4>4, IsForFacts DEF IsFor, Action
      <4>6. AttemptInv'
        BY <1>2, <2>1, <4>3, <4>4, <4>5 DEF AttemptInv
      <4>7. TypeOK'
        BY <1>2, <2>2, <4>4, LagoFacts DEF CallsInv, TypeOK
      <4>. QED  BY <2>2, <4>6, <4>7 DEF CallsInv
    <3>. QED  BY <3>1, <3>2
  <2>6. CASE Creation(r)
    <3>1. CASE CallMade(r, next)
      BY <2>2, <2>4, <3>1 DEF CallsInv
    <3>2. CASE AttemptFails
      <4>1. TypeOK' /\ AttemptInv'
        BY <1>2, <2>2, <3>2, FailsOK DEF CallsInv, TypeOK, AttemptInv
      <4>. QED  BY <2>2, <4>1 DEF CallsInv
    <3>. QED  BY <2>6, <3>1, <3>2 DEF Creation
  <2>. QED  BY <1>2, <2>5, <2>6
<1>3. CASE WriteRecord
  <2>1. /\ at = "write" /\ UNCHANGED <<count, had>> /\ rec = record
        /\ record' \in {Written, record}
        /\ Answers \/ AttemptFails
        /\ SubscriptionsHavePlans'
    BY <1>3 DEF WriteRecord, CallsInv, AttemptInv, SubscriptionsHavePlans
  <2>2. Written \in Record /\ record' \in Record
    <3>1. rec \in Record /\ record \in Record
      BY DEF CallsInv, TypeOK
    <3>2. rec.completed \in BOOLEAN /\ rec.resources \in SUBSET Resources
      BY <3>1 DEF Record
    <3>3. rec.resources \cup {r \in Resources : IsFor(r)} \in SUBSET Resources
      BY <3>2
    <3>4. (rec.completed \/ Action = "CompleteProvisioning") \in BOOLEAN
      BY <3>2
    <3>5. Written \in Record
      BY <3>3, <3>4 DEF Written, Record
    <3>. QED  BY <2>1, <3>1, <3>5
  <2>3. ASSUME NEW r \in record'.resources
        PROVE  Provisioned(r)'
    <3>1. r \in Resources /\ (r \in record.resources \/ IsFor(r))
      BY <2>1, <2>2 DEF Written, Record, CallsInv, TypeOK
    <3>2. Provisioned(r)
      BY <2>1, <3>1 DEF CallsInv, AttemptInv, RecordedIsProvisioned
    <3>. QED  BY <2>1, <3>2 DEF Provisioned
  <2>4. TypeOK' /\ AttemptInv'
    <3>1. CASE Answers
      BY <2>1, <2>2, <3>1 DEF CallsInv, TypeOK, AttemptInv, Answers
    <3>2. CASE AttemptFails
      BY <2>1, <2>2, <3>2, FailsOK DEF CallsInv, TypeOK, AttemptInv
    <3>. QED  BY <2>1, <3>1, <3>2
  <2>. QED  BY <2>1, <2>3, <2>4 DEF CallsInv, RecordedIsProvisioned
<1>4. CASE Crash
  BY <1>0, <1>4 DEF Crash, CallsInv, TypeOK
<1>5. CASE CallFails
  BY <1>0, <1>5 DEF CallFails, CallsInv, TypeOK
<1>6. CASE NextActivity
  <2>1. TypeOK' /\ AttemptInv' /\ Same
    <3>1. DOMAIN Activities = 1..5 /\ Len(Activities) = 5
      BY DEF Activities
    <3>2. /\ activity < 5 /\ activity' = activity + 1 /\ at' = "read"
          /\ next' = 1 /\ attempt' = 0 /\ rec' = NewRecord
          /\ UNCHANGED <<record, count, had>>
      BY <1>6, <3>1 DEF NextActivity
    <3>3. activity' \in 1..5
      BY <3>1, <3>2 DEF CallsInv, TypeOK
    <3>4. /\ NewRecord \in Record /\ 1 \in 1..(Len(Lago) + 1)
          /\ 0 \in 0..(MaxAttempts - 1)
      BY LagoFacts, ProvisioningAssumption DEF NewRecord, Record
    <3>. QED  BY <3>1, <3>2, <3>3, <3>4 DEF CallsInv, TypeOK, AttemptInv
  <2>. QED  BY <2>1, StoresSame DEF CallsInv
<1>7. CASE UNCHANGED vars
  <2>1. TypeOK' /\ AttemptInv' /\ Same
    BY <1>7 DEF vars, position, CallsInv, TypeOK, AttemptInv, CallsMade, IsFor,
                Action, Provisioned
  <2>. QED  BY <2>1, StoresSame DEF CallsInv
<1>. QED
  BY <1>1, <1>2, <1>3, <1>4, <1>5, <1>6, <1>7 DEF Next, CallProvider

LEMMA CallsInvariant == Spec => []CallsInv
BY InitCalls, NextCalls, PTL DEF Spec

-----------------------------------------------------------------------------
\* The provisioning activities are type-correct: an attempt never asks for more
\* than the provider is to have.
THEOREM CallsTypeCorrect == Spec => []TypeOK
BY CallsInvariant, PTL DEF CallsInv

\* A resource is recorded after every one of the provider calls behind it
\* (activities.go:196-215), for any number of attempts and environments.
THEOREM RecordedCorrect == Spec => []RecordedIsProvisioned
BY CallsInvariant, PTL DEF CallsInv

\* Lago never holds a subscription without its customer and its plan
\* (httpprovisioner.go:138-191), wherever an attempt stops.
THEOREM SubscriptionsCorrect == Spec => []SubscriptionsHavePlans
BY CallsInvariant, PTL DEF CallsInv

-----------------------------------------------------------------------------
Sub(i) == <<"subscription", Environments[i]>>

\* The index of ProvisionLago among the activities.
LagoAt == 4

LEMMA LagoAtFacts ==
  ASSUME TypeOK
  PROVE  /\ activity \in 1..5
         /\ IsFor("lago") <=> activity = LagoAt
<1>1. DOMAIN Activities = 1..5
  BY DEF Activities
<1>2. /\ Activities[1].action = "ProvisionKong"
      /\ Activities[2].action = "ProvisionAWS"
      /\ Activities[3].action = "ProvisionSvix"
      /\ Activities[4].action = "ProvisionLago"
      /\ Activities[5].action = "CompleteProvisioning"
  BY DEF Activities, System, RecordOnly
<1>3. ProvisionAction["lago"] = "ProvisionLago"
  BY DEF ProvisionAction
<1>. QED  BY <1>1, <1>2, <1>3 DEF TypeOK, IsFor, Action, LagoAt

\* What is not keyed is a subscription.
LEMMA SubFacts ==
  /\ \A i \in 1..N : Sub(i) \in Objects /\ ~Keyed(Sub(i))
  /\ \A i, k \in 1..N : Sub(i) = Sub(k) => i = k
  /\ \A j \in 1..Len(Lago) : ~Keyed(Lago[j]) =>
       \E i \in 1..N : j = 1 + N + i /\ Lago[j] = Sub(i)
  /\ \A obj \in Objects : ~Keyed(obj) => \E i \in 1..N : obj = Sub(i)
<1>0. N \in Nat \ {0} /\ DOMAIN Environments = 1..N
  BY ProvisioningAssumption DEF N
<1>1. "lago" \in Resources /\ CallsFor["lago"] = Lago
  BY DEF Resources, CallsFor
<1>2. ASSUME NEW i \in 1..N
      PROVE  Sub(i) \in Objects /\ ~Keyed(Sub(i))
  <2>1. Lago[1 + N + i] = Sub(i) /\ 1 + N + i \in 1..Len(Lago)
    BY LagoFacts DEF Sub
  <2>2. Sub(i)[1] = "subscription"
    BY DEF Sub
  <2>. QED  BY <1>1, <2>1, <2>2, CallsFacts DEF Keyed
<1>3. ASSUME NEW i \in 1..N, NEW k \in 1..N, Sub(i) = Sub(k)
      PROVE  i = k
  <2>1. Sub(i)[2] = Environments[i] /\ Sub(k)[2] = Environments[k]
    BY DEF Sub
  <2>. QED  BY <1>0, <1>3, <2>1, ProvisioningAssumption
<1>4. ASSUME NEW j \in 1..Len(Lago), ~Keyed(Lago[j])
      PROVE  \E i \in 1..N : j = 1 + N + i /\ Lago[j] = Sub(i)
  <2>1. Lago[j][1] = "subscription"
    BY <1>4 DEF Keyed
  <2>2. CASE j = 1
    <3>1. Lago[j] = <<"customer", None>> /\ <<"customer", None>>[1] = "customer"
      BY <2>2, LagoFacts
    <3>. QED  BY <2>1, <3>1
  <2>3. CASE j - 1 \in 1..N
    <3>1. Lago[1 + (j - 1)] = <<"plan", Environments[j - 1]>>
      BY <2>3, LagoFacts
    <3>2. 1 + (j - 1) = j /\ <<"plan", Environments[j - 1]>>[1] = "plan"
      BY <2>3
    <3>. QED  BY <2>1, <3>1, <3>2
  <2>4. CASE j - 1 - N \in 1..N
    <3>1. Lago[1 + N + (j - 1 - N)] = <<"subscription", Environments[j - 1 - N]>>
      BY <2>4, LagoFacts
    <3>2. 1 + N + (j - 1 - N) = j
      BY <2>4, LagoFacts
    <3>. QED  BY <2>4, <3>1, <3>2 DEF Sub
  <2>. QED  BY <2>2, <2>3, <2>4, LagoFacts
<1>5. ASSUME NEW obj \in Objects, ~Keyed(obj)
      PROVE  \E i \in 1..N : obj = Sub(i)
  <2>1. PICK r \in Resources : obj \in ToSet(CallsFor[r])
    BY DEF Objects
  <2>2. PICK j \in 1..Len(CallsFor[r]) : obj = CallsFor[r][j]
    BY <2>1, CallsFacts DEF ToSet
  <2>3. obj[1] = "subscription" /\ obj[1] \in Kinds[r]
    BY <1>5, <2>2, CallsFacts DEF Keyed
  <2>4. r = "lago"
    BY <2>3 DEF Resources, Kinds
  <2>. QED  BY <1>1, <1>4, <1>5, <2>2, <2>4
<1>. QED  BY <1>2, <1>3, <1>4, <1>5

\* How many subscriptions for the i-th environment there may be by now: one for
\* each attempt that has failed, and one for the attempt that is past the call.
SubLimit(i) ==
  IF activity < LagoAt THEN 0
  ELSE IF activity > LagoAt \/ at \in {"answered", "failed"} THEN MaxAttempts
  ELSE IF at = "write" \/ (at = "call" /\ next > 1 + N + i) THEN attempt + 1
  ELSE attempt

RepeatInv ==
  /\ \A obj \in Objects : Keyed(obj) => count[obj] <= 1
  /\ \A i \in 1..N : count[Sub(i)] <= SubLimit(i)

\* The limit only rises.
LEMMA LimitRises ==
  ASSUME CallsInv, [Next]_vars, NEW i \in 1..N
  PROVE  /\ SubLimit(i) \in Nat /\ SubLimit(i)' \in Nat
         /\ SubLimit(i) <= SubLimit(i)'
         /\ SubLimit(i) <= MaxAttempts
<1>0. /\ activity \in 1..5 /\ attempt \in 0..(MaxAttempts - 1)
      /\ MaxAttempts \in Nat \ {0} /\ N \in Nat /\ next \in Nat
      /\ activity' \in 1..5 /\ attempt' \in 0..(MaxAttempts - 1)
      /\ at = "read" => next = 1
      /\ Len(Activities) = 5
      /\ i \in Nat
  <2>1. TypeOK /\ TypeOK' /\ AttemptInv
    BY NextCalls DEF CallsInv
  <2>2. activity' \in 1..5
    <3>1. DOMAIN Activities = 1..5
      BY DEF Activities
    <3>. QED  BY <2>1, <3>1 DEF TypeOK
  <2>. QED
    BY <2>1, <2>2, LagoAtFacts, LagoFacts, ProvisioningAssumption
       DEF TypeOK, AttemptInv, Activities
<1>1. SubLimit(i) \in Nat /\ SubLimit(i)' \in Nat /\ SubLimit(i) <= MaxAttempts
  <2>1. SubLimit(i) \in Nat /\ SubLimit(i) <= MaxAttempts
    BY <1>0 DEF SubLimit, LagoAt
  <2>2. SubLimit(i)' \in {0, MaxAttempts, attempt', attempt' + 1}
    BY DEF SubLimit
  <2>. QED  BY <1>0, <2>1, <2>2
<1>. SUFFICES SubLimit(i) <= SubLimit(i)'
  BY <1>1
<1>2. ASSUME activity' = activity, activity # LagoAt
      PROVE  SubLimit(i) <= SubLimit(i)'
  <2>1. CASE activity < LagoAt
    BY <1>2, <2>1 DEF SubLimit
  <2>2. CASE activity > LagoAt
    BY <1>0, <1>2, <2>2 DEF SubLimit, LagoAt
  <2>. QED  BY <1>0, <1>2, <2>1, <2>2 DEF LagoAt
<1>3. ASSUME activity = LagoAt, at = "read" PROVE SubLimit(i) = attempt
  BY <1>0, <1>3 DEF SubLimit, LagoAt
<1>4. ASSUME activity = LagoAt, at \in {"read", "call", "write"}
      PROVE  SubLimit(i) <= attempt + 1
  BY <1>0, <1>4 DEF SubLimit, LagoAt
<1>5. ASSUME activity' = LagoAt, at' \in {"answered", "failed"}
      PROVE  SubLimit(i) <= SubLimit(i)'
  <2>1. SubLimit(i)' = MaxAttempts
    BY <1>5 DEF SubLimit, LagoAt
  <2>. QED  BY <1>1, <2>1
<1>6. ASSUME AttemptFails, at \in {"read", "call", "write"}
      PROVE  SubLimit(i) <= SubLimit(i)'
  <2>0. activity' = activity
    BY <1>6 DEF AttemptFails
  <2>1. CASE activity = LagoAt /\ at' = "read" /\ attempt' = attempt + 1
    <3>1. SubLimit(i)' = attempt'
      BY <2>0, <2>1 DEF SubLimit, LagoAt
    <3>. QED  BY <1>4, <1>6, <2>1, <3>1
  <2>. QED  BY <1>2, <1>5, <1>6, <2>0, <2>1 DEF AttemptFails
<1>7. CASE ReadRecord
  <2>1. CASE AttemptFails \/ Answers
    BY <1>2, <1>5, <1>6, <1>7, <2>1 DEF ReadRecord, Answers
  <2>2. CASE ~(AttemptFails \/ Answers)
    <3>1. /\ activity' = activity /\ attempt' = attempt /\ next' = next
          /\ at = "read" /\ at' \in {"call", "write"}
      BY <1>7, <2>2 DEF ReadRecord
    <3>2. activity = LagoAt => SubLimit(i)' \in {attempt, attempt + 1}
      BY <3>1 DEF SubLimit, LagoAt
    <3>. QED  BY <1>0, <1>2, <1>3, <3>1, <3>2
  <2>. QED  BY <2>1, <2>2
<1>8. ASSUME NEW r, NEW n \in Nat, at = "call", CallMade(r, n), n >= next
      PROVE  SubLimit(i) <= SubLimit(i)'
  BY <1>0, <1>8 DEF SubLimit, CallMade, LagoAt
<1>9. CASE CallProvider
  <2>1. PICK r \in Resources : IsFor(r) /\ (Conflict(r) \/ Creation(r))
    BY <1>9 DEF CallProvider
  <2>2. next \in 1..Len(CallsFor[r])
    BY <1>9, <2>1, IsForFacts DEF CallsInv, AttemptInv, CallProvider
  <2>3. Len(CallsFor[r]) \in Nat /\ Len(CallsFor[r]) >= next
    BY <2>2, CallsFacts, LagoFacts
  <2>4. AttemptFails \/ CallMade(r, next) \/ CallMade(r, Len(CallsFor[r]))
    <3>1. CASE CallsFor[r][next] = <<"key", None>>
      BY <2>1, <3>1 DEF Conflict, Creation
    <3>2. CASE CallsFor[r][next] # <<"key", None>>
      BY <2>1, <3>2 DEF Conflict, Creation
    <3>. QED  BY <3>1, <3>2
  <2>5. at = "call"
    BY <1>9 DEF CallProvider
  <2>6. next >= next
    BY <1>0
  <2>7. ASSUME CallMade(r, next) PROVE SubLimit(i) <= SubLimit(i)'
    BY <1>0, <1>8, <2>5, <2>6, <2>7
  <2>8. ASSUME CallMade(r, Len(CallsFor[r])) PROVE SubLimit(i) <= SubLimit(i)'
    BY <1>8, <2>3, <2>5, <2>8
  <2>. QED
    BY <1>6, <2>4, <2>5, <2>7, <2>8
<1>10. CASE WriteRecord
  BY <1>2, <1>5, <1>6, <1>10 DEF WriteRecord, Answers
<1>11. CASE Crash \/ CallFails
  BY <1>6, <1>11 DEF Crash, CallFails
<1>12. CASE NextActivity
  BY <1>0, <1>12 DEF SubLimit, NextActivity, LagoAt
<1>13. CASE UNCHANGED vars
  BY <1>0, <1>13 DEF SubLimit, vars, position
<1>. QED
  BY <1>7, <1>9, <1>10, <1>11, <1>12, <1>13 DEF Next

LEMMA NextRepeat ==
  ASSUME CallsInv, RepeatInv, [Next]_vars
  PROVE  RepeatInv'
<1>0. /\ count \in [Objects -> Nat]
      /\ \A i \in 1..N : Sub(i) \in Objects
  BY SubFacts DEF CallsInv, TypeOK
<1>1. CASE UNCHANGED count
  <2>1. ASSUME NEW i \in 1..N PROVE count[Sub(i)] <= SubLimit(i)'
    <3>1. /\ SubLimit(i) \in Nat /\ SubLimit(i)' \in Nat
          /\ SubLimit(i) <= SubLimit(i)'
      BY LimitRises
    <3>2. count[Sub(i)] \in Nat /\ count[Sub(i)] <= SubLimit(i)
      BY <1>0 DEF RepeatInv
    <3>. QED  BY <3>1, <3>2
  <2>. QED  BY <1>1, <2>1 DEF RepeatInv, Sub
<1>2. ASSUME NEW r \in Resources, at = "call", IsFor(r), Creation(r)
      PROVE  RepeatInv'
  <2>. DEFINE obj == CallsFor[r][next]
  <2>1. next \in 1..Len(CallsFor[r]) /\ obj \in Objects
    BY <1>2, IsForFacts, CallsFacts DEF CallsInv, AttemptInv
  <2>2. /\ count'[obj] = count[obj] + 1
        /\ \A o \in Objects : o # obj => count'[o] = count[o]
        /\ Keyed(obj) => count[obj] = 0
    BY <1>0, <1>2, <2>1 DEF Creation, Created
  <2>3. ASSUME NEW o \in Objects, Keyed(o) PROVE count'[o] <= 1
    BY <1>0, <2>1, <2>2, <2>3 DEF RepeatInv
  <2>4. ASSUME NEW i \in 1..N PROVE count'[Sub(i)] <= SubLimit(i)'
    <3>1. /\ SubLimit(i) \in Nat /\ SubLimit(i)' \in Nat
          /\ SubLimit(i) <= SubLimit(i)'
          /\ count[Sub(i)] \in Nat /\ count[Sub(i)] <= SubLimit(i)
      BY <1>0, LimitRises DEF RepeatInv
    <3>2. CASE obj # Sub(i)
      BY <1>0, <2>2, <3>1, <3>2
    <3>3. CASE obj = Sub(i)
      <4>1. r = "lago"
        <5>1. obj[1] \in Kinds[r] /\ obj[1] = "subscription"
          BY <2>1, <3>3, CallsFacts DEF Sub
        <5>. QED  BY <5>1 DEF Resources, Kinds
      <4>2. next = 1 + N + i
        <5>1. /\ CallsFor[r] = Lago
              /\ next \in 1..Len(Lago) /\ Lago[next] = Sub(i)
          BY <2>1, <3>3, <4>1 DEF CallsFor
        <5>2. ~Keyed(Lago[next])
          BY <5>1, SubFacts
        <5>3. PICK k \in 1..N : next = 1 + N + k /\ Lago[next] = Sub(k)
          BY <5>1, <5>2, SubFacts
        <5>. QED  BY <5>1, <5>3, SubFacts
      <4>3. /\ activity = LagoAt /\ attempt \in 0..(MaxAttempts - 1)
            /\ MaxAttempts \in Nat /\ N \in Nat
        BY <1>2, <4>1, LagoAtFacts, LagoFacts, ProvisioningAssumption
           DEF CallsInv, TypeOK
      <4>4. SubLimit(i) = attempt
        BY <1>2, <4>2, <4>3 DEF SubLimit, LagoAt
      <4>5. SubLimit(i)' = attempt + 1 \/ SubLimit(i)' = MaxAttempts
        <5>1. CASE CallMade(r, next)
          BY <1>2, <4>2, <4>3, <5>1 DEF CallMade, SubLimit, LagoAt
        <5>2. CASE AttemptFails
          BY <4>3, <5>2 DEF AttemptFails, SubLimit, LagoAt
        <5>. QED  BY <1>2, <5>1, <5>2 DEF Creation
      <4>. QED  BY <2>2, <3>1, <3>3, <4>3, <4>4, <4>5
    <3>. QED  BY <3>2, <3>3
  <2>. QED  BY <2>3, <2>4 DEF RepeatInv, Sub
<1>3. CASE CallProvider
  <2>1. PICK r \in Resources : IsFor(r) /\ (Conflict(r) \/ Creation(r))
    BY <1>3 DEF CallProvider
  <2>. QED
    BY <1>1, <1>2, <1>3, <2>1 DEF CallProvider, Conflict
<1>. QED
  BY <1>1, <1>3 DEF Next, ReadRecord, CallFails, WriteRecord, Crash,
     NextActivity, vars

LEMMA RepeatInvariant == Spec => [](CallsInv /\ RepeatInv)
<1>1. Init => RepeatInv
  <2>. SUFFICES ASSUME Init PROVE RepeatInv
    OBVIOUS
  <2>1. \A obj \in Objects : count[obj] = 0
    BY DEF Init
  <2>2. \A i \in 1..N : SubLimit(i) = 0
    BY DEF Init, SubLimit, LagoAt
  <2>. QED  BY <2>1, <2>2, SubFacts DEF RepeatInv
<1>. QED  BY <1>1, InitCalls, NextCalls, NextRepeat, PTL DEF Spec

\* An attempt that is repeated makes one subscription more at most, and nothing
\* else a second time (httpprovisioner.go:110-191).
THEOREM RepeatsBounded == Spec => []RepeatsAreBounded
<1>1. CallsInv /\ RepeatInv => RepeatsAreBounded
  <2>. SUFFICES ASSUME CallsInv, RepeatInv, NEW obj \in Objects, ~Keyed(obj)
                PROVE  count[obj] <= MaxAttempts
    BY DEF RepeatsAreBounded, RepeatInv
  <2>1. PICK i \in 1..N : obj = Sub(i)
    BY SubFacts
  <2>2. SubLimit(i) \in Nat /\ SubLimit(i) <= MaxAttempts
    <3>1. TypeOK /\ activity \in 1..5
      BY LagoAtFacts DEF CallsInv
    <3>. QED
      BY <3>1, ProvisioningAssumption DEF TypeOK, SubLimit, LagoAt
  <2>3. count[obj] \in Nat /\ count[obj] <= SubLimit(i)
    BY <2>1 DEF CallsInv, TypeOK, RepeatInv
  <2>. QED  BY <2>2, <2>3, ProvisioningAssumption
<1>. QED  BY <1>1, RepeatInvariant, PTL

Key == <<"key", None>>

LEMMA AwsFacts ==
  /\ "aws" \in Resources
  /\ CallsFor["aws"][1] = Key /\ CallsFor["aws"][2] = Attachment
  /\ Len(CallsFor["aws"]) = 2
  /\ Key \in Objects /\ Attachment \in Objects /\ Key # Attachment
  /\ Keyed(Key)
  /\ \A r \in Resources :
       "attachment" \in Kinds[r] \/ "key" \in Kinds[r] => r = "aws"
<1>1. "aws" \in Resources /\ CallsFor["aws"] = <<Key, Attachment>>
  BY DEF Resources, CallsFor, Key, Attachment
<1>2. /\ CallsFor["aws"][1] = Key /\ CallsFor["aws"][2] = Attachment
      /\ Len(CallsFor["aws"]) = 2
  BY <1>1
<1>3. Key \in Objects /\ Attachment \in Objects
  BY <1>1, <1>2, CallsFacts
<1>4. Key[1] = "key" /\ Attachment[1] = "attachment"
  BY DEF Key, Attachment
<1>. QED
  BY <1>1, <1>2, <1>3, <1>4 DEF Keyed, Resources, Kinds

\* With the key there, no step attaches it nor gets an attempt to where it would.
LEMMA NextUnattached ==
  ASSUME CallsInv, [Next]_vars, Unattached
  PROVE  Unattached'
<1>0. /\ count \in [Objects -> Nat]
      /\ count[Key] > 0 /\ count[Attachment] = 0
      /\ ~(IsFor("aws") /\ at = "call" /\ next = 2)
  BY DEF CallsInv, TypeOK, Unattached, Key, Attachment
<1>. SUFFICES /\ count'[Key] > 0 /\ count'[Attachment] = 0
              /\ ~(IsFor("aws")' /\ at' = "call" /\ next' = 2)
  BY DEF Unattached, Key, Attachment
<1>1. CASE CallProvider
  <2>1. PICK r \in Resources : IsFor(r) /\ (Conflict(r) \/ Creation(r))
    BY <1>1 DEF CallProvider
  <2>. DEFINE obj == CallsFor[r][next]
  <2>2. /\ at = "call" /\ next \in 1..Len(CallsFor[r])
        /\ obj \in Objects /\ obj[1] \in Kinds[r]
    BY <1>1, <2>1, IsForFacts, CallsFacts
       DEF CallsInv, AttemptInv, CallProvider
  <2>3. r = "aws" => next = 1 /\ obj = Key
    BY <1>0, <2>1, <2>2, AwsFacts
  <2>4. obj # Attachment
    <3>1. Attachment[1] = "attachment"
      BY DEF Attachment
    <3>. QED  BY <2>2, <2>3, <3>1, AwsFacts
  <2>5. count'[Key] > 0 /\ count'[Attachment] = 0
    <3>1. CASE Conflict(r)
      BY <1>0, <3>1 DEF Conflict
    <3>2. CASE Creation(r)
      <4>1. count' = [count EXCEPT ![obj] = @ + 1]
        BY <3>2 DEF Creation, Created
      <4>. QED  BY <1>0, <2>2, <2>4, <4>1, AwsFacts
    <3>. QED  BY <2>1, <3>1, <3>2
  <2>6. CASE r = "aws"
    <3>1. Conflict(r) /\ obj = <<"key", None>>
      BY <1>0, <2>1, <2>3, <2>6, AwsFacts DEF Creation, Key
    <3>2. CallMade(r, Len(CallsFor[r]))
      BY <3>1 DEF Conflict
    <3>3. next' = 3
      BY <2>6, <3>2, AwsFacts DEF CallMade
    <3>. QED  BY <2>5, <3>3
  <2>7. CASE r # "aws"
    <3>1. activity' = activity
      BY <2>1 DEF Conflict, Creation, CallMade, AttemptFails
    <3>2. ~IsFor("aws")'
      BY <2>1, <2>7, <3>1, IsForFacts, AwsFacts DEF IsFor, Action
    <3>. QED  BY <2>5, <3>2
  <2>. QED  BY <2>6, <2>7
<1>2. CASE \/ ReadRecord \/ CallFails \/ WriteRecord \/ Crash \/ NextActivity
  <2>1. /\ count' = count
        /\ next' = 1 \/ (next' = next /\ at = "read") \/ at' # "call"
    BY <1>2 DEF ReadRecord, CallFails, WriteRecord, Crash, NextActivity,
                Answers, AttemptFails
  <2>2. at = "read" => next = 1
    BY DEF CallsInv, AttemptInv
  <2>. QED  BY <1>0, <2>1, <2>2
<1>3. CASE UNCHANGED vars
  BY <1>0, <1>3 DEF vars, position, IsFor, Action
<1>. QED  BY <1>1, <1>2, <1>3 DEF Next

\* An API key that its own attempt has left unattached stays so (aws.go:49-71).
THEOREM UnattachedCorrect == Spec => UnattachedForGood
<1>1. CallsInv /\ [Next]_vars => [Unattached => Unattached']_vars
  BY NextUnattached
<1>. QED  BY <1>1, CallsInvariant, PTL DEF Spec, UnattachedForGood

\* A recorded resource is never asked for again (activities.go:190-192).
THEOREM LeftAlone == Spec => RecordedIsLeftAlone
<1>. DEFINE A == \A r \in record.resources :
                   \A obj \in ToSet(CallsFor[r]) : count'[obj] = count[obj]
<1>1. ASSUME CallsInv, [Next]_vars
      PROVE  [A]_<<count, record>>
  <2>1. CASE UNCHANGED count
    BY <2>1
  <2>2. ASSUME NEW q \in Resources, at = "call", IsFor(q), Creation(q)
        PROVE  A
    <3>1. /\ next \in 1..Len(CallsFor[q]) /\ q \notin record.resources
          /\ count' = [count EXCEPT ![CallsFor[q][next]] = @ + 1]
          /\ count \in [Objects -> Nat]
      BY <1>1, <2>2, IsForFacts
         DEF CallsInv, AttemptInv, TypeOK, Creation, Created
    <3>. SUFFICES ASSUME NEW r \in record.resources,
                         NEW obj \in ToSet(CallsFor[r])
                  PROVE  count'[obj] = count[obj]
      OBVIOUS
    <3>2. r \in Resources /\ q # r
      BY <1>1, <3>1 DEF CallsInv, TypeOK, Record
    <3>3. PICK j \in 1..Len(CallsFor[r]) : obj = CallsFor[r][j]
      BY <3>2, CallsFacts DEF ToSet
    <3>4. obj # CallsFor[q][next] /\ obj \in Objects
      BY <3>1, <3>2, <3>3, ApartFacts, CallsFacts
    <3>. QED  BY <3>1, <3>4
  <2>3. UNCHANGED count \/ \E q \in Resources :
                             at = "call" /\ IsFor(q) /\ Creation(q)
    BY <1>1 DEF Next, ReadRecord, CallProvider, CallFails, WriteRecord, Crash,
                NextActivity, Conflict, vars
  <2>. QED  BY <2>1, <2>2, <2>3
<1>. QED  BY <1>1, CallsInvariant, PTL DEF Spec, RecordedIsLeftAlone

-----------------------------------------------------------------------------
(***************************************************************************)
(* Each activity implements the workflow's Provision or                    *)
(* CompleteProvisioning.                                                   *)
(***************************************************************************)

AtProviders == {r \in Resources : Provisioned(r)}

\* The activity's own resource, if it is for one.
Own == {r \in Resources : IsFor(r)}

\* What the workflow's model takes the providers to have.
Seen == IF InAttempt THEN had ELSE AtProviders

\* An attempt adds to what the providers had no resource but its own, which the
\* record did not have.
HadInv ==
  InAttempt => /\ had \subseteq AtProviders
               /\ AtProviders \subseteq had \cup Own
               /\ Own \cap record.resources = {}

Attempting == at \in {"read", "call", "write"}

\* Calls take nothing from the providers and add to the activity's resource only.
LEMMA CallsAddOwn ==
  ASSUME CallsInv, CallProvider
  PROVE  AtProviders \subseteq AtProviders' /\ AtProviders' \subseteq AtProviders \cup Own
<1>1. PICK r \in Resources : at = "call" /\ IsFor(r) /\ (Conflict(r) \/ Creation(r))
                             /\ UNCHANGED record
  BY DEF CallProvider
<1>2. CASE Conflict(r)
  BY <1>2 DEF Conflict, AtProviders, Provisioned
<1>3. CASE Creation(r)
  <2>1. /\ next \in 1..Len(CallsFor[r])
        /\ count' = [count EXCEPT ![CallsFor[r][next]] = @ + 1]
        /\ count \in [Objects -> Nat]
    BY <1>1, <1>3, IsForFacts
       DEF CallsInv, AttemptInv, TypeOK, Creation, Created
  <2>2. /\ count' \in [Objects -> Nat]
        /\ \A obj \in Objects : count'[obj] >= count[obj]
    BY <1>1, <1>3, CreationKeeps
  <2>3. \A q \in Resources : \A obj \in ToSet(CallsFor[q]) : obj \in Objects
    BY DEF Objects
  <2>4. ASSUME NEW q \in Resources, Provisioned(q)
        PROVE  Provisioned(q)'
    BY <2>1, <2>2, <2>3, <2>4 DEF Provisioned
  <2>5. ASSUME NEW q \in Resources, q # r, Provisioned(q)'
        PROVE  Provisioned(q)
    <3>1. ASSUME NEW obj \in ToSet(CallsFor[q])
          PROVE  count'[obj] = count[obj]
      <4>1. PICK j \in 1..Len(CallsFor[q]) : obj = CallsFor[q][j]
        BY CallsFacts DEF ToSet
      <4>2. obj # CallsFor[r][next] /\ obj \in Objects
        BY <2>1, <2>5, <4>1, ApartFacts, CallsFacts
      <4>. QED  BY <2>1, <4>2
    <3>. QED  BY <2>5, <3>1 DEF Provisioned
  <2>. QED  BY <1>1, <2>4, <2>5 DEF AtProviders, Own
<1>. QED  BY <1>1, <1>2, <1>3

LEMMA NextHad ==
  ASSUME CallsInv, HadInv, [Next]_vars
  PROVE  HadInv'
<1>1. CASE ReadRecord
  <2>1. had' = AtProviders /\ UNCHANGED <<activity, record, count>>
    BY <1>1 DEF ReadRecord, AtProviders, Answers, AttemptFails
  <2>2. InAttempt' => Own \cap record.resources = {}
    BY <1>1 DEF ReadRecord, InAttempt, Answers, AttemptFails, Own
  <2>. QED
    BY <2>1, <2>2 DEF HadInv, AtProviders, Provisioned, Own, IsFor, Action
<1>2. ASSUME CallProvider
      PROVE  HadInv'
  <2>1. at = "call" /\ UNCHANGED <<had, record>>
    BY <1>2 DEF CallProvider
  <2>2. CASE activity' = activity
    BY <1>2, <2>1, <2>2, CallsAddOwn DEF HadInv, InAttempt, Own, IsFor, Action
  <2>. QED
    BY <1>2, <2>2
       DEF CallProvider, Conflict, Creation, CallMade, AttemptFails
<1>3. ASSUME AttemptFails PROVE HadInv'
  BY <1>3 DEF AttemptFails, HadInv, InAttempt
<1>4. ASSUME Answers PROVE HadInv'
  BY <1>4 DEF Answers, HadInv, InAttempt
<1>5. CASE NextActivity
  BY <1>5 DEF NextActivity, HadInv, InAttempt
<1>6. CASE UNCHANGED vars
  BY <1>6 DEF vars, position, HadInv, InAttempt, AtProviders, Own, Provisioned,
              IsFor, Action
<1>. QED
  BY <1>1, <1>2, <1>3, <1>4, <1>5, <1>6
     DEF Next, CallFails, WriteRecord, Crash

-----------------------------------------------------------------------------
\* No activity receives a signal.
LEMMA NoChannels == W!NoSignals = [n \in {} |-> << >>]
<1>1. \A i \in DOMAIN Activities : Activities[i].signal = None
  BY DEF Activities, System, RecordOnly
<1>2. W!Channels = {}
  BY <1>1 DEF W!Channels, W!None, None
<1>. QED  BY <1>2 DEF W!NoSignals

\* An attempt that fails, and one that is answered, as the workflow sees it.
LEMMA FailMaps ==
  ASSUME TypeOK, Attempting, AttemptFails
  PROVE  W!AttemptFailed
BY NoChannels, ProvisioningAssumption
   DEF TypeOK, Attempting, AttemptFails, W!AttemptFailed, W!Close

LEMMA AnswerMaps ==
  ASSUME Attempting, Answers
  PROVE  W!AttemptSucceeded("record")
BY DEF Attempting, Answers, W!AttemptSucceeded

\* The stores, as the workflow sees them.
LEMMA StoreMaps ==
  /\ \A r \in Resources : Seen' = Seen \cup {r} => W!AtProvider("org", r)
  /\ \A r \in Resources :
       record \in Record /\ record' = [record EXCEPT !.resources = @ \cup {r}]
         => W!Recorded("org", r)
<1>1. "org" # None
  BY DEF None
<1>2. ASSUME NEW r \in Resources, Seen' = Seen \cup {r}
      PROVE  W!AtProvider("org", r)
  BY <1>1, <1>2 DEF W!AtProvider, Seen, AtProviders
<1>3. ASSUME NEW r \in Resources, record \in Record,
             record' = [record EXCEPT !.resources = @ \cup {r}]
      PROVE  W!Recorded("org", r)
  BY <1>1, <1>3 DEF W!Recorded
<1>. QED  BY <1>2, <1>3

\* What an attempt of a provisioning activity leaves when it fails or answers.
LEMMA ProvisionMaps ==
  ASSUME CallsInv, Attempting, NEW r \in Resources, IsFor(r),
         UNCHANGED activity,
         \/ /\ r \in record.resources
            /\ UNCHANGED <<record, Seen>>
            /\ Answers \/ AttemptFails
         \/ /\ r \notin record.resources
            /\ UNCHANGED record
            /\ Seen' = Seen \/ Seen' = Seen \cup {r}
            /\ AttemptFails
         \/ /\ r \notin record.resources
            /\ record' = [record EXCEPT !.resources = @ \cup {r}]
            /\ Seen' = Seen \cup {r}
            /\ Answers \/ AttemptFails
  PROVE  W!Provision
<1>1. /\ AttemptFails => W!AttemptFailed
      /\ Answers => W!AttemptSucceeded("record")
  BY FailMaps, AnswerMaps DEF CallsInv
<1>2. /\ Seen' = Seen \cup {r} => W!AtProvider("org", r)
      /\ record' = [record EXCEPT !.resources = @ \cup {r}] => W!Recorded("org", r)
  BY StoreMaps DEF CallsInv, TypeOK
<1>3. W!AlreadyProvisioned("org", r) \/ W!ProvisionNew("org", r)
  <2>1. CASE r \in record.resources
    BY <1>1, <2>1 DEF W!AlreadyProvisioned, Seen, AtProviders
  <2>2. CASE r \notin record.resources
    BY <1>1, <1>2, <2>2 DEF W!ProvisionNew, Seen, AtProviders
  <2>. QED  BY <2>1, <2>2
<1>4. r \in W!Resources /\ W!Step.action = W!ProvisionAction[r]
  BY DEF IsFor, Action, W!Step, W!Resources, Resources, W!ProvisionAction,
         ProvisionAction
<1>. QED
  BY <1>3, <1>4 DEF W!Provision, W!NothingMerged, Attempting

LEMMA CompleteMaps ==
  ASSUME CallsInv, Attempting, Own = {}, UNCHANGED <<activity, Seen>>,
         \/ /\ record' = [record EXCEPT !.completed = TRUE]
            /\ Answers \/ AttemptFails
         \/ UNCHANGED record /\ AttemptFails
  PROVE  W!CompleteProvisioning
<1>1. /\ AttemptFails => W!AttemptFailed
      /\ Answers => W!AttemptSucceeded("record")
  BY FailMaps, AnswerMaps DEF CallsInv
<1>2. Action = "CompleteProvisioning"
  BY DEF CallsInv, TypeOK, Own, IsFor, Action, Activities, System, RecordOnly,
         Resources, ProvisionAction
<1>. QED
  BY <1>1, <1>2
     DEF W!CompleteProvisioning, W!NothingMerged, W!Step, W!externalVars,
         Attempting, Action, Seen, AtProviders

\* An attempt that fails, with the record as it was.
LEMMA GivenUpMaps ==
  ASSUME CallsInv, HadInv, Attempting, AttemptFails, UNCHANGED record,
         Seen \subseteq Seen', Seen' \subseteq Seen \cup Own,
         at = "read" => UNCHANGED Seen
  PROVE  W!Provision \/ W!CompleteProvisioning
<1>1. UNCHANGED activity
  BY DEF AttemptFails
<1>2. CASE Own = {}
  BY <1>1, <1>2, CompleteMaps
<1>3. ASSUME NEW r \in Resources, IsFor(r)
      PROVE  W!Provision
  <2>1. Own = {r}
    BY <1>3, IsForFacts DEF Own
  <2>2. Seen' = Seen \/ Seen' = Seen \cup {r}
    BY <2>1
  <2>3. at # "read" => r \notin record.resources
    BY <2>1 DEF HadInv, InAttempt, Attempting
  <2>. QED  BY <1>1, <1>3, <2>2, <2>3, ProvisionMaps
<1>. QED  BY <1>2, <1>3 DEF Own

\* A record with its status set.
LEMMA CompletedSet ==
  ASSUME NEW rr \in Record, NEW b
  PROVE  [rr EXCEPT !.completed = b] = [completed |-> b, resources |-> rr.resources]
BY DEF Record

LEMMA ActivityStep ==
  ASSUME CallsInv, HadInv, HadInv', [Next]_vars
  PROVE  [\/ W!Provision \/ W!CompleteProvisioning \/ NextActivity]_(W!vars)
<1>. DEFINE Step == W!Provision \/ W!CompleteProvisioning
\* Within an attempt the workflow sees nothing.
<1>1. ASSUME Attempting, Attempting', UNCHANGED <<activity, attempt, record, Seen>>
      PROVE  UNCHANGED W!vars
  BY <1>1
     DEF W!vars, W!temporalVars, W!executorVars, W!storeVars, W!externalVars,
         Attempting, Seen, AtProviders
<1>2. CASE ReadRecord
  <2>1. /\ at = "read" /\ UNCHANGED <<record, count>> /\ had' = AtProviders
        /\ UNCHANGED <<activity, AtProviders>>
    BY <1>2 DEF ReadRecord, AtProviders, Provisioned, Answers, AttemptFails
  <2>2. UNCHANGED Seen /\ Attempting
    BY <2>1 DEF Seen, InAttempt, Attempting
  <2>3. CASE AttemptFails
    BY <2>1, <2>2, <2>3, GivenUpMaps
  <2>4. ASSUME NEW r \in record.resources, IsFor(r), Answers
        PROVE  W!Provision
    <3>1. r \in Resources
      BY DEF CallsInv, TypeOK, Record
    <3>. QED  BY <2>1, <2>2, <2>4, <3>1, ProvisionMaps
  <2>5. CASE at' \in {"call", "write"} /\ UNCHANGED <<next, attempt>>
    BY <1>1, <2>1, <2>2, <2>5 DEF Attempting
  <2>. QED  BY <1>2, <2>3, <2>4, <2>5 DEF ReadRecord
<1>3. CASE CallProvider
  <2>1. /\ at = "call" /\ UNCHANGED <<record, had>>
        /\ AttemptFails \/ (UNCHANGED <<activity, attempt>> /\ at' \in {"call", "write"})
    BY <1>3 DEF CallProvider, Conflict, Creation, CallMade
  <2>2. Seen = had /\ Attempting
    BY <2>1 DEF Seen, InAttempt, Attempting
  <2>3. CASE AttemptFails
    <3>1. Seen' = AtProviders'
      BY <2>3 DEF AttemptFails, Seen, InAttempt
    <3>2. Seen \subseteq Seen' /\ Seen' \subseteq Seen \cup Own
      BY <1>3, <2>1, <2>2, <3>1, CallsAddOwn DEF HadInv, InAttempt
    <3>. QED  BY <2>1, <2>2, <2>3, <3>2, GivenUpMaps
  <2>4. CASE UNCHANGED <<activity, attempt>> /\ at' \in {"call", "write"}
    <3>1. Seen' = had' /\ Attempting'
      BY <2>4 DEF Seen, InAttempt, Attempting
    <3>. QED  BY <1>1, <2>1, <2>2, <2>4, <3>1
  <2>. QED  BY <2>1, <2>3, <2>4
<1>4. ASSUME at \in {"call", "write"}, AttemptFails, UNCHANGED <<record, count>>
      PROVE  Step
  <2>1. Seen = had /\ Attempting /\ Seen' = AtProviders' /\ UNCHANGED AtProviders
    BY <1>4 DEF Seen, InAttempt, Attempting, AttemptFails, AtProviders, Provisioned
  <2>2. Seen \subseteq Seen' /\ Seen' \subseteq Seen \cup Own
    BY <1>4, <2>1 DEF HadInv, InAttempt
  <2>. QED  BY <1>4, <2>1, <2>2, GivenUpMaps
<1>5. CASE CallFails
  BY <1>4, <1>5 DEF CallFails
<1>6. CASE Crash
  <2>1. CASE at = "read"
    <3>1. UNCHANGED <<record, Seen>> /\ Attempting /\ AttemptFails
      BY <1>6, <2>1
         DEF Crash, AttemptFails, Seen, InAttempt, Attempting, AtProviders,
             Provisioned
    <3>. QED  BY <3>1, GivenUpMaps
  <2>. QED  BY <1>4, <1>6, <2>1 DEF Crash
<1>7. CASE WriteRecord
  <2>1. /\ at = "write" /\ UNCHANGED <<count, activity>> /\ rec = record
        /\ record \in Record /\ Attempting /\ Seen = had
        /\ Answers \/ AttemptFails
        /\ record' = Written \/ (record' = record /\ AttemptFails)
    BY <1>7
       DEF WriteRecord, CallsInv, AttemptInv, TypeOK, Answers, AttemptFails,
           Attempting, Seen, InAttempt
  <2>2. CASE record' = record /\ AttemptFails
    BY <1>4, <2>1, <2>2
  <2>3. CASE record' = Written
    <3>1. Seen' = AtProviders /\ had \subseteq AtProviders
          /\ AtProviders \subseteq had \cup Own
      BY <2>1 DEF Seen, InAttempt, Answers, AttemptFails, AtProviders, Provisioned,
                  HadInv
    <3>2. CASE Own = {}
      <4>1. Action = "CompleteProvisioning"
        BY <3>2 DEF CallsInv, TypeOK, Own, IsFor, Action, Activities, System,
                    RecordOnly, Resources, ProvisionAction
      <4>2. record' = [record EXCEPT !.completed = TRUE]
        <5>1. Written = [completed |-> TRUE, resources |-> record.resources]
          BY <2>1, <3>2, <4>1 DEF Written, Own
        <5>. QED  BY <2>1, <2>3, <5>1, CompletedSet
      <4>3. UNCHANGED Seen
        BY <2>1, <3>1, <3>2
      <4>. QED  BY <2>1, <3>2, <4>2, <4>3, CompleteMaps
    <3>3. ASSUME NEW r \in Resources, IsFor(r)
          PROVE  W!Provision
      <4>1. Own = {r} /\ r \notin record.resources
        <5>1. Own = {r}
          BY <3>3, IsForFacts DEF Own
        <5>. QED  BY <2>1, <5>1 DEF HadInv, InAttempt
      <4>2. Action # "CompleteProvisioning"
        BY <3>3 DEF IsFor, ProvisionAction, Resources
      <4>3. record' = [record EXCEPT !.resources = @ \cup {r}]
        BY <2>1, <2>3, <4>1, <4>2 DEF Written, Own, Record
      <4>4. r \in AtProviders
        BY <2>1, <3>3 DEF CallsInv, AttemptInv, AtProviders
      <4>5. Seen' = Seen \cup {r}
        BY <2>1, <3>1, <4>1, <4>4
      <4>. QED  BY <2>1, <3>3, <4>1, <4>3, <4>5, ProvisionMaps
    <3>. QED  BY <3>2, <3>3 DEF Own
  <2>. QED  BY <2>1, <2>2, <2>3
<1>8. CASE UNCHANGED vars
  BY <1>8
     DEF vars, position, W!vars, W!temporalVars, W!executorVars, W!storeVars,
         W!externalVars, InAttempt, Provisioned
<1>. QED
  BY <1>2, <1>3, <1>5, <1>6, <1>7, <1>8 DEF Next

\* The calls of an attempt, wherever it stops, amount to one step of the
\* workflow's model of the activity (activities.go:129-216), for any list of
\* environments and any number of attempts.
THEOREM ActivitiesRefinement == Spec => ImplementsActivities
<1>1. Init => HadInv
  BY DEF Init, HadInv, InAttempt
<1>2. Spec => []HadInv
  BY <1>1, CallsInvariant, NextHad, PTL DEF Spec
<1>. QED
  BY <1>2, CallsInvariant, ActivityStep, PTL DEF Spec, ImplementsActivities
=============================================================================

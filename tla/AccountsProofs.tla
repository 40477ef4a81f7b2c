---------------------------- MODULE AccountsProofs ----------------------------
(***************************************************************************)
(* Proofs about what belongs to users, for any values of the constants:    *)
(* the front door (FrontDoor), the address book (AddressBook), the payment *)
(* screenshots (Screenshots) and the seller profiles (Sellers), each about *)
(* its own specification; at the end the types of all four in the          *)
(* composition that MCAccounts checks.                                     *)
(***************************************************************************)
EXTENDS MCAccounts, RowFacts

-----------------------------------------------------------------------------
(* The front door.                                                         *)

Requests == [step : Steps, key : Keys \cup {NoKey}]

\* The two functions that the counting is about.
Counters == count \in [Keys -> Nat] /\ failures \in [Keys -> Nat]

\* A request at any step, with a key or without, is typed.
LEMMA StepTyped ==
  ASSUME NEW s \in Steps, NEW k \in Keys \cup {NoKey}
  PROVE  [step |-> s, key |-> k] \in Requests
  BY DEF Requests

\* A request of b that is put back is typed, idle or with a key.
LEMMA OneRequest ==
  ASSUME request \in [Browsers -> Requests],
         \A b \in Browsers : At(b, "idle") \/ KeyOf(b) \in Keys,
         NEW c \in Browsers, NEW r \in Requests, r.step = "idle" \/ r.key \in Keys,
         request' = [request EXCEPT ![c] = r]
  PROVE  /\ request' \in [Browsers -> Requests]
         /\ \A b \in Browsers : (At(b, "idle") \/ KeyOf(b) \in Keys)'
  BY DEF At, KeyOf

\* A session put in place of another keeps the sessions typed.
LEMMA OneSession ==
  ASSUME session \in [Browsers -> Sessions], NEW b \in Browsers, NEW s \in Sessions
  PROVE  [session EXCEPT ![b] = s] \in [Browsers -> Sessions]
  OBVIOUS

\* Whoever signs in, the new session is typed and carries no preview flag.
LEMMA RoleTyped ==
  ASSUME NEW k PROVE [who |-> Role(k), preview |-> FALSE] \in Sessions
  BY DEF Role, Sessions, Anonymous

RequestsOK == /\ request \in [Browsers -> Requests]
              /\ \A b \in Browsers : At(b, "idle") \/ KeyOf(b) \in Keys

\* The typed parts one by one.
LEMMA DoorParts ==
  DoorTypeOK <=> /\ Counters /\ RequestsOK
                 /\ lockout \in [Keys -> BOOLEAN] /\ session \in [Browsers -> Sessions]
  BY DEF DoorTypeOK, Counters, RequestsOK, Requests

\* A request that moves on to its next step stays typed.
LEMMA GoTyped ==
  ASSUME RequestsOK, NEW b \in Browsers, NEW s \in Steps, ~At(b, "idle"), GoTo(b, s)
  PROVE  RequestsOK'
<1> DEFINE r == [step |-> s, key |-> KeyOf(b)]
<1>1. KeyOf(b) \in Keys
  BY DEF RequestsOK
<1>2. r \in Requests /\ r.key \in Keys
  BY <1>1, StepTyped
<1>3. [request[b] EXCEPT !.step = s] = r
  <2>1. request[b] \in Requests
    BY DEF RequestsOK
  <2> QED
    BY <2>1 DEF Requests, KeyOf
<1>4. request' = [request EXCEPT ![b] = r]
  BY <1>3 DEF GoTo, RequestsOK
<1> HIDE DEF r
<1> QED
  BY <1>2, <1>4, OneRequest DEF RequestsOK

\* A request that ends leaves its browser idle.
LEMMA FinishTyped ==
  ASSUME RequestsOK, NEW b \in Browsers, Finish(b)
  PROVE  RequestsOK'
<1>1. Idle \in Requests /\ Idle.step = "idle"
  BY DEF Idle, Requests, Steps
<1> QED
  BY <1>1, OneRequest DEF RequestsOK, Finish

\* Sign-in and sign-up leave the sessions typed.
LEMMA SignInTyped ==
  ASSUME session \in [Browsers -> Sessions], NEW b \in Browsers,
         SignIn(b) \/ UNCHANGED session
  PROVE  session' \in [Browsers -> Sessions]
  BY RoleTyped, OneSession DEF SignIn

\* Every step keeps the types.
LEMMA DoorStep == DoorTypeOK /\ [DoorNext]_doorVars => DoorTypeOK'
<1> SUFFICES ASSUME DoorTypeOK, [DoorNext]_doorVars PROVE DoorTypeOK'
  OBVIOUS
<1> USE FrontDoorAssumption
<1>0. /\ Counters /\ RequestsOK
      /\ lockout \in [Keys -> BOOLEAN] /\ session \in [Browsers -> Sessions]
  BY DoorParts
<1>k. \A b \in Browsers : ~At(b, "idle") => KeyOf(b) \in Keys
  BY <1>0 DEF RequestsOK
<1> SUFFICES /\ Counters' /\ RequestsOK'
             /\ lockout' \in [Keys -> BOOLEAN] /\ session' \in [Browsers -> Sessions]
  BY DEF DoorTypeOK, Counters, RequestsOK, Requests
<1>1. ASSUME NEW b \in Browsers, NEW k \in Keys, Attempt(b, k)
      PROVE  RequestsOK' /\ UNCHANGED <<count, lockout, session, failures>>
  <2> DEFINE r == [step |-> "check", key |-> k]
  <2>1. r \in Requests /\ r.key \in Keys /\ request' = [request EXCEPT ![b] = r]
    BY <1>1, StepTyped DEF Attempt, Steps
  <2> HIDE DEF r
  <2> QED
    BY <1>0, <1>1, <2>1, OneRequest DEF RequestsOK, Attempt
<1>2. ASSUME NEW b \in Browsers, Succeed(b)
      PROVE  RequestsOK' /\ session' \in [Browsers -> Sessions]
             /\ UNCHANGED <<count, lockout, failures>>
  <2>1. ~At(b, "idle") /\ GoTo(b, "clear") /\ (SignIn(b) \/ UNCHANGED session)
    BY <1>2 DEF Succeed, At
  <2>2. RequestsOK'
    BY <1>0, <2>1, GoTyped DEF Steps
  <2> QED
    BY <1>0, <1>2, <2>1, <2>2, SignInTyped DEF Succeed
<1>3. ASSUME NEW b \in Browsers, ClearCount(b) \/ Forget(b)
      PROVE  Counters' /\ RequestsOK' /\ UNCHANGED <<lockout, session>>
  <2>1. ~At(b, "idle") /\ ForgetCount(KeyOf(b)) /\ (GoTo(b, "unlock") \/ Finish(b))
    BY <1>3 DEF ClearCount, Forget, At
  <2>2. RequestsOK'
    BY <1>0, <2>1, GoTyped, FinishTyped DEF Steps
  <2>3. Counters'
    BY <1>0, <2>1 DEF Counters, ForgetCount
  <2> QED
    BY <1>3, <2>2, <2>3 DEF ClearCount, Forget
<1>4. ASSUME NEW b \in Browsers, ClearLock(b)
      PROVE  RequestsOK' /\ session' \in [Browsers -> Sessions]
             /\ lockout' \in [Keys -> BOOLEAN] /\ UNCHANGED <<count, failures>>
  <2>1. lockout' \in [Keys -> BOOLEAN]
    BY <1>0, <1>4 DEF ClearLock
  <2>2. session' \in [Browsers -> Sessions]
    BY <1>0, <1>4, SignInTyped DEF ClearLock
  <2> QED
    BY <1>0, <1>4, <2>1, <2>2, FinishTyped DEF ClearLock
<1>5. ASSUME NEW b \in Browsers, Increment(b)
      PROVE  Counters' /\ RequestsOK' /\ UNCHANGED <<lockout, session>>
  <2>1. ~At(b, "idle") /\ (GoTo(b, "start") \/ GoTo(b, "lock") \/ Finish(b))
    BY <1>5 DEF Increment, At
  <2>2. RequestsOK'
    BY <1>0, <2>1, GoTyped, FinishTyped DEF Steps
  <2>3. Counters'
    BY <1>0, <1>5 DEF Counters, Increment
  <2> QED
    BY <1>5, <2>2, <2>3 DEF Increment
<1>6. ASSUME NEW b \in Browsers, StartWindow(b)
      PROVE  Counters' /\ RequestsOK' /\ UNCHANGED <<lockout, session>>
  <2>1. ~At(b, "idle") /\ (GoTo(b, "lock") \/ Finish(b))
    BY <1>6 DEF StartWindow, At
  <2>2. RequestsOK'
    BY <1>0, <2>1, GoTyped, FinishTyped DEF Steps
  <2>3. Counters'
    <3> DEFINE k == KeyOf(b)
    <3>1. k \in Keys /\ count' = [count EXCEPT ![k] = 1]
      BY <1>6, <1>k, <2>1 DEF StartWindow
    <3>2. failures' = [failures EXCEPT ![k] = @ + 1]
      BY <1>6 DEF StartWindow
    <3> HIDE DEF k
    <3>3. failures[k] + 1 \in Nat
      BY <1>0, <3>1 DEF Counters
    <3>4. failures' \in [Keys -> Nat]
      BY <1>0, <3>2, <3>3 DEF Counters
    <3>5. count' \in [Keys -> Nat]
      BY <1>0, <3>1 DEF Counters
    <3> QED
      BY <3>4, <3>5 DEF Counters
  <2> QED
    BY <1>6, <2>2, <2>3 DEF StartWindow
<1>7. ASSUME NEW b \in Browsers, Lock(b)
      PROVE  RequestsOK' /\ lockout' \in [Keys -> BOOLEAN]
             /\ UNCHANGED <<count, session, failures>>
  <2>1. ~At(b, "idle") /\ GoTo(b, "forget")
    BY <1>7 DEF Lock, At
  <2>2. RequestsOK'
    BY <1>0, <2>1, GoTyped DEF Steps
  <2> QED
    BY <1>0, <1>7, <2>2 DEF Lock
<1>8. ASSUME NEW b \in Browsers, Fail(b) \/ Logout(b) \/ SetPreview(b)
      PROVE  RequestsOK' /\ session' \in [Browsers -> Sessions]
             /\ UNCHANGED <<count, lockout, failures>>
  <2>1. CASE Fail(b)
    BY <1>0, <2>1, FinishTyped DEF Fail
  <2>2. CASE Logout(b)
    <3>1. Anonymous \in Sessions
      BY DEF Sessions
    <3> QED
      BY <1>0, <2>2, <3>1, OneSession DEF Logout, RequestsOK, At, KeyOf
  <2>3. CASE SetPreview(b)
    <3> DEFINE flag == ~session[b].preview
    <3>1. session[b] \in [who : {"staff"}, preview : BOOLEAN]
      BY <1>0, <2>3 DEF SetPreview, Sessions, Anonymous
    <3>2. [who |-> "staff", preview |-> flag] \in [who : {"staff"}, preview : BOOLEAN]
      OBVIOUS
    <3>3. session' = [session EXCEPT ![b] = [session[b] EXCEPT !.preview = flag]]
      BY <1>0, <2>3 DEF SetPreview
    <3>4. [session[b] EXCEPT !.preview = flag] = [who |-> "staff", preview |-> flag]
      BY <3>1
    <3>5. [session[b] EXCEPT !.preview = flag] \in Sessions
      BY <3>2, <3>4 DEF Sessions
    <3>6. session' \in [Browsers -> Sessions]
      BY <1>0, <3>3, <3>5, OneSession
    <3>7. UNCHANGED <<count, lockout, request, failures>>
      BY <2>3 DEF SetPreview
    <3> QED
      BY <1>0, <3>6, <3>7 DEF RequestsOK, At, KeyOf
  <2> QED
    BY <1>8, <2>1, <2>2, <2>3
<1>9. ASSUME NEW k \in Keys, CountExpires(k)
      PROVE  Counters' /\ UNCHANGED <<lockout, request, session>>
  BY <1>0, <1>9 DEF CountExpires, ForgetCount, Counters
<1>10. ASSUME NEW k \in Keys, LockExpires(k)
       PROVE  lockout' \in [Keys -> BOOLEAN] /\ UNCHANGED <<count, request, session, failures>>
  BY <1>0, <1>10 DEF LockExpires
<1>11. CASE Restart
  <2>1. Idle \in Requests /\ Idle.step = "idle"
    BY DEF Idle, Requests, Steps
  <2> QED
    BY <1>0, <1>11, <2>1 DEF Restart, Counters, RequestsOK, At
<1>12. CASE UNCHANGED doorVars
  BY <1>0, <1>12 DEF doorVars, Counters, RequestsOK, At, KeyOf
<1>13. UNCHANGED <<count, failures>> => Counters'
  BY <1>0 DEF Counters
<1>14. UNCHANGED request => RequestsOK'
  BY <1>0 DEF RequestsOK, At, KeyOf
<1> QED
  BY <1>0, <1>1, <1>2, <1>3, <1>4, <1>5, <1>6, <1>7, <1>8, <1>9, <1>10, <1>11, <1>12,
     <1>13, <1>14 DEF DoorNext

\* Every variable keeps its type; only staff sessions carry the preview flag.
THEOREM DoorTypes == DoorSpec => []DoorTypeOK
<1>1. DoorInit => DoorTypeOK
  BY DEF DoorInit, DoorTypeOK, Sessions, Idle, Steps, At
<1> QED
  BY <1>1, DoorStep, PTL DEF DoorSpec
-----------------------------------------------------------------------------
(* The bound.  A request that found no count and is about to start a       *)
(* window, a starter, will write one over whatever others have counted     *)
(* meanwhile: at most MaxAttempts - 1 failures are lost.  While a window   *)
(* runs nobody becomes a starter, so what can still be lost shrinks with   *)
(* the starters that are left.                                             *)

Losses(k) == (MaxAttempts - 1) * (Cardinality(Browsers) - 1 - Cardinality(Starters(k)))
Window(k) == count[k] > 0 => failures[k] <= count[k] + Losses(k)
Counted(k) == /\ count[k] = 0 => failures[k] = 0
              /\ ~Locking(k) => count[k] < MaxAttempts /\ Window(k)
AllCounted == \A k \in Keys : Counted(k)

\* One browser more that may start a window: one more share of failures.
LEMMA TimesOneMore ==
  ASSUME NEW m \in Nat, NEW n \in Int PROVE m * (n + 1) = m * n + m
  OBVIOUS

\* More browsers, no fewer lost failures.
LEMMA TimesMore ==
  ASSUME NEW m \in Nat, NEW n \in Int, NEW o \in Int, n <= o PROVE m * n <= m * o
  OBVIOUS

\* The browsers about to start a window are finitely many, at most all of them.
LEMMA StartersCounted ==
  ASSUME NEW k \in Keys
  PROVE  /\ IsFiniteSet(Starters(k)) /\ Cardinality(Starters(k)) \in Nat
         /\ Cardinality(Browsers) \in Nat
         /\ Cardinality(Starters(k)) <= Cardinality(Browsers)
<1>1. Starters(k) \in SUBSET Browsers
  BY DEF Starters
<1>2. IsFiniteSet(Starters(k)) /\ Cardinality(Starters(k)) <= Cardinality(Browsers)
  BY <1>1, FS_Subset, FrontDoorAssumption
<1> QED
  BY <1>2, FS_CardinalityType, FrontDoorAssumption

\* The fewer browsers are about to start a window, the more may be lost already.
LEMMA LossesGrow ==
  ASSUME NEW k \in Keys, Starters(k)' \subseteq Starters(k)
  PROVE  Losses(k) \in Int /\ Losses(k)' \in Int /\ Losses(k) <= Losses(k)'
<1>1. /\ IsFiniteSet(Starters(k)) /\ Cardinality(Starters(k)) \in Nat
      /\ Cardinality(Browsers) \in Nat
  BY StartersCounted
<1>2. Starters(k)' \in SUBSET Starters(k)
  OBVIOUS
<1>3. IsFiniteSet(Starters(k)') /\ Cardinality(Starters(k)') <= Cardinality(Starters(k))
  BY <1>1, <1>2, FS_Subset
<1>4. Cardinality(Starters(k)') \in Nat
  BY <1>3, FS_CardinalityType
<1> DEFINE m == MaxAttempts - 1
           n == Cardinality(Browsers) - 1 - Cardinality(Starters(k))
           o == Cardinality(Browsers) - 1 - Cardinality(Starters(k)')
<1>5. m \in Nat /\ n \in Int /\ o \in Int /\ n <= o
  BY <1>1, <1>3, <1>4, FrontDoorAssumption
<1>6. Losses(k) = m * n /\ Losses(k)' = m * o
  BY DEF Losses
<1> HIDE DEF m, n, o
<1> QED
  BY <1>5, <1>6, TimesMore

\* A step that leaves the numbers of k alone, locks no less and lets nobody
\* become a starter keeps k counted.
LEMMA Untouched ==
  ASSUME NEW k \in Keys, Counters, Counted(k),
         count'[k] = count[k], failures'[k] = failures[k],
         Locking(k) => Locking(k)',
         count[k] = 0 \/ Starters(k)' \subseteq Starters(k)
  PROVE  Counted(k)'
<1>1. count[k] \in Nat /\ failures[k] \in Nat
  BY DEF Counters
<1>2. CASE count[k] = 0
  BY <1>1, <1>2, FrontDoorAssumption DEF Counted, Window
<1>3. CASE Starters(k)' \subseteq Starters(k)
  BY <1>1, <1>3, LossesGrow DEF Counted, Window
<1> QED
  BY <1>2, <1>3

\* A step that ends k's window keeps k counted.
LEMMA Reset ==
  ASSUME NEW k \in Keys, count'[k] = 0, failures'[k] = 0
  PROVE  Counted(k)'
  BY FrontDoorAssumption DEF Counted, Window

\* Where a request goes, and what that does to starters and lockers.
LEMMA Moved ==
  ASSUME RequestsOK, NEW b \in Browsers, NEW r, r.step # "start",
         request' = [request EXCEPT ![b] = r],
         \/ request[b].step \notin {"lock", "forget"}
         \/ r.step \in {"lock", "forget"} /\ r.key = request[b].key
  PROVE  \A k \in Keys : /\ Locking(k) => Locking(k)'
                         /\ Starters(k)' \subseteq Starters(k)
<1> SUFFICES ASSUME NEW k \in Keys
             PROVE  /\ Locking(k) => Locking(k)'
                    /\ Starters(k)' \subseteq Starters(k)
  OBVIOUS
<1>1. Locking(k) => Locking(k)'
  BY DEF Locking, At, KeyOf, RequestsOK
<1>2. Starters(k)' \subseteq Starters(k)
  BY DEF Starters, At, KeyOf, RequestsOK
<1> QED
  BY <1>1, <1>2

\* The same for the two ways a handler goes on.
LEMMA GoesOn ==
  ASSUME RequestsOK, NEW b \in Browsers, NEW s \in Steps \ {"start"},
         GoTo(b, s) \/ Finish(b),
         At(b, "lock") \/ At(b, "forget") => GoTo(b, s) /\ s \in {"lock", "forget"}
  PROVE  \A k \in Keys : /\ Locking(k) => Locking(k)'
                         /\ Starters(k)' \subseteq Starters(k)
<1>0. request[b] \in Requests
  BY DEF RequestsOK
<1>1. CASE GoTo(b, s)
  <2> DEFINE r == [request[b] EXCEPT !.step = s]
  <2>1. r.step = s /\ r.key = request[b].key
    BY <1>0 DEF Requests
  <2>2. request' = [request EXCEPT ![b] = r]
    BY <1>1 DEF GoTo
  <2>3. \/ request[b].step \notin {"lock", "forget"}
        \/ r.step \in {"lock", "forget"} /\ r.key = request[b].key
    BY <2>1 DEF At
  <2> HIDE DEF r
  <2> QED
    BY <2>1, <2>2, <2>3, Moved
<1>2. CASE ~GoTo(b, s)
  <2>1. request' = [request EXCEPT ![b] = Idle] /\ Idle.step # "start"
    BY <1>2 DEF Finish, Idle
  <2>2. request[b].step \notin {"lock", "forget"}
    BY <1>2 DEF At
  <2> QED
    BY <2>1, <2>2, Moved
<1> QED
  BY <1>1, <1>2

\* A request that goes on and touches no numbers keeps every key counted.
LEMMA PassingBy ==
  ASSUME Counters, AllCounted, UNCHANGED <<count, failures>>,
         \A k \in Keys : /\ Locking(k) => Locking(k)'
                         /\ Starters(k)' \subseteq Starters(k)
  PROVE  AllCounted'
  BY Untouched DEF AllCounted

\* Another failure in a window that runs, or the first one that finds none.
LEMMA IncrementCounts ==
  ASSUME DoorTypeOK, AllCounted, NEW b \in Browsers, Increment(b)
  PROVE  AllCounted'
<1>k. Counters /\ RequestsOK /\ KeyOf(b) \in Keys /\ At(b, "check")
  BY DoorParts DEF Increment, RequestsOK, At
<1>p. PICK k \in Keys : k = KeyOf(b)
  BY <1>k
<1>0. Counters /\ RequestsOK /\ k = KeyOf(b) /\ At(b, "check")
  BY <1>k, <1>p
<1>1. CASE count[k] = 0
  <2>1. GoTo(b, "start") /\ UNCHANGED <<count, failures>>
    BY <1>0, <1>1 DEF Increment
  <2>2. \A l \in Keys : Locking(l) => Locking(l)'
    BY <1>0, <2>1 DEF Locking, GoTo, At, KeyOf, RequestsOK
  <2>3. \A l \in Keys \ {k} : Starters(l)' \subseteq Starters(l)
    BY <1>0, <2>1 DEF Starters, GoTo, At, KeyOf, RequestsOK, Requests
  <2> QED
    BY <1>0, <1>1, <2>1, <2>2, <2>3, Untouched DEF AllCounted
<1>2. CASE count[k] # 0
  <2>1. /\ count' = [count EXCEPT ![k] = @ + 1]
        /\ failures' = [failures EXCEPT ![k] = @ + 1]
        /\ IF count[k] + 1 >= MaxAttempts THEN GoTo(b, "lock") ELSE Finish(b)
    BY <1>0, <1>2 DEF Increment
  <2>2. \A l \in Keys : /\ Locking(l) => Locking(l)'
                        /\ Starters(l)' \subseteq Starters(l)
    BY <1>0, <2>1, GoesOn DEF At, Steps
  <2>3. Counted(k)'
    <3>1. /\ count[k] \in Nat \ {0} /\ failures[k] \in Nat
          /\ count'[k] = count[k] + 1 /\ failures'[k] = failures[k] + 1
      BY <1>0, <1>2, <2>1 DEF Counters
    <3>2. CASE count[k] + 1 >= MaxAttempts
      <4>1. request'[b].step = "lock" /\ request'[b].key = k
        BY <1>0, <2>1, <3>2 DEF GoTo, RequestsOK, Requests, KeyOf
      <4>2. Locking(k)'
        BY <4>1 DEF Locking, At, KeyOf
      <4> QED
        BY <3>1, <4>2 DEF Counted
    <3>3. CASE ~(count[k] + 1 >= MaxAttempts)
      <4>1. Losses(k) \in Int /\ Losses(k)' \in Int /\ Losses(k) <= Losses(k)'
        BY <1>0, <2>2, LossesGrow
      <4>2. ~Locking(k)' => failures[k] <= count[k] + Losses(k)
        BY <1>0, <2>2, <3>1 DEF AllCounted, Counted, Window
      <4>3. ~Locking(k)' => Window(k)'
        BY <3>1, <4>1, <4>2 DEF Window
      <4>4. count'[k] < MaxAttempts
        BY <3>1, <3>3, FrontDoorAssumption
      <4> QED
        BY <3>1, <4>3, <4>4 DEF Counted
    <3> QED
      BY <3>2, <3>3
  <2>4. ASSUME NEW l \in Keys \ {k} PROVE Counted(l)'
    <3>1. count'[l] = count[l] /\ failures'[l] = failures[l]
      BY <1>0, <2>1, <2>4 DEF Counters
    <3> QED
      BY <1>0, <2>2, <3>1, Untouched DEF AllCounted
  <2> QED
    BY <2>3, <2>4 DEF AllCounted
<1> QED
  BY <1>1, <1>2

\* A starter that starts over loses what was counted, and is a starter no more.
LEMMA StartWindowCounts ==
  ASSUME DoorTypeOK, AllCounted, NEW b \in Browsers, StartWindow(b)
  PROVE  AllCounted'
<1>k. Counters /\ RequestsOK /\ KeyOf(b) \in Keys /\ At(b, "start")
  BY DoorParts DEF StartWindow, RequestsOK, At
<1>p. PICK k \in Keys : k = KeyOf(b)
  BY <1>k
<1>0. Counters /\ RequestsOK /\ k = KeyOf(b) /\ At(b, "start")
  BY <1>k, <1>p
<1>1. /\ count' = [count EXCEPT ![k] = 1]
      /\ failures' = [failures EXCEPT ![k] = @ + 1]
      /\ IF 1 >= MaxAttempts THEN GoTo(b, "lock") ELSE Finish(b)
  BY <1>0 DEF StartWindow
<1>2. \A l \in Keys : /\ Locking(l) => Locking(l)'
                      /\ Starters(l)' \subseteq Starters(l)
  BY <1>0, <1>1, GoesOn DEF At, Steps
<1>3. /\ count[k] \in Nat /\ failures[k] \in Nat
      /\ count'[k] = 1 /\ failures'[k] = failures[k] + 1
  BY <1>0, <1>1 DEF Counters
<1>4. ASSUME 1 >= MaxAttempts PROVE Counted(k)'
  <2>1. request'[b].step = "lock" /\ request'[b].key = k
    BY <1>0, <1>1, <1>4 DEF GoTo, RequestsOK, Requests, KeyOf
  <2>2. Locking(k)'
    BY <2>1 DEF Locking, At, KeyOf
  <2> QED
    BY <1>3, <2>2 DEF Counted
<1>5. ASSUME ~(1 >= MaxAttempts) PROVE Counted(k)'
  <2>1. Starters(k)' = Starters(k) \ {b} /\ b \in Starters(k)
    BY <1>0, <1>1, <1>5 DEF Starters, Finish, Idle, At, KeyOf, RequestsOK
  <2>2. /\ IsFiniteSet(Starters(k)) /\ Cardinality(Starters(k)) \in Nat
        /\ Cardinality(Browsers) \in Nat
        /\ Cardinality(Starters(k)) <= Cardinality(Browsers)
    BY <1>0, StartersCounted
  <2>3. Cardinality(Starters(k)') = Cardinality(Starters(k)) - 1
    BY <2>1, <2>2, FS_RemoveElement
  <2> DEFINE m == MaxAttempts - 1
             n == Cardinality(Browsers) - 1 - Cardinality(Starters(k))
  <2>4. m \in Nat /\ n \in Int /\ n + 1 >= 0 /\ 0 <= n + 1 /\ n + 1 \in Int
    BY <2>2, FrontDoorAssumption
  <2>5. Losses(k) = m * n
    BY DEF Losses
  <2>6. Losses(k)' = m * (n + 1)
    <3>1. Cardinality(Browsers) - 1 - Cardinality(Starters(k)') = n + 1
      BY <2>2, <2>3
    <3>2. Losses(k)' = m * (Cardinality(Browsers) - 1 - Cardinality(Starters(k)'))
      BY DEF Losses
    <3> HIDE DEF m, n
    <3> QED
      BY <3>1, <3>2
  <2>7. count[k] = 0 => failures[k] = 0
    BY <1>0 DEF AllCounted, Counted
  <2>8. ~Locking(k)' => count[k] <= m /\ (count[k] > 0 => failures[k] <= count[k] + Losses(k))
    BY <1>0, <1>2, <1>3, FrontDoorAssumption DEF AllCounted, Counted, Window
  <2>9. 1 < MaxAttempts
    BY <1>5, FrontDoorAssumption
  <2> HIDE DEF m, n
  <2>10. m * (n + 1) = m * n + m /\ m * n \in Int
    BY <2>4, TimesOneMore
  <2>11. 0 <= m * (n + 1)
    <3>1. m * 0 <= m * (n + 1)
      BY <2>4, TimesMore
    <3> QED
      BY <2>4, <3>1
  <2>12. ~Locking(k)' => failures[k] + 1 <= 1 + Losses(k)'
    <3>1. CASE count[k] = 0
      BY <1>3, <3>1, <2>4, <2>6, <2>7, <2>10, <2>11
    <3>2. CASE count[k] > 0
      BY <1>3, <3>2, <2>4, <2>5, <2>6, <2>8, <2>10
    <3> QED
      BY <1>3, <3>1, <3>2
  <2> QED
    BY <1>3, <2>9, <2>12 DEF Counted, Window
<1>6. ASSUME NEW l \in Keys \ {k} PROVE Counted(l)'
  <2>1. count'[l] = count[l] /\ failures'[l] = failures[l]
    BY <1>0, <1>1, <1>6 DEF Counters
  <2> QED
    BY <1>0, <1>2, <2>1, Untouched DEF AllCounted
<1>7. Counted(k)'
  BY <1>4, <1>5
<1> QED
  BY <1>6, <1>7 DEF AllCounted

\* The end of a window: a success, the lock, or time.
LEMMA ForgetCounts ==
  ASSUME Counters, AllCounted, NEW k \in Keys, ForgetCount(k),
         \A l \in Keys \ {k} : /\ Locking(l) => Locking(l)'
                               /\ Starters(l)' \subseteq Starters(l)
  PROVE  AllCounted'
<1>1. Counted(k)'
  <2>1. count'[k] = 0 /\ failures'[k] = 0
    BY DEF ForgetCount, Counters
  <2> QED
    BY <2>1, Reset
<1>2. ASSUME NEW l \in Keys \ {k} PROVE Counted(l)'
  <2>1. count'[l] = count[l] /\ failures'[l] = failures[l]
    BY <1>2 DEF ForgetCount, Counters
  <2> QED
    BY <2>1, Untouched DEF AllCounted
<1> QED
  BY <1>1, <1>2 DEF AllCounted

\* Every step keeps every key counted.
LEMMA CountedStep == DoorTypeOK /\ AllCounted /\ [DoorNext]_doorVars => AllCounted'
<1> SUFFICES ASSUME DoorTypeOK, AllCounted, [DoorNext]_doorVars PROVE AllCounted'
  OBVIOUS
<1>0. Counters /\ RequestsOK /\ \A b \in Browsers : ~At(b, "idle") => KeyOf(b) \in Keys
  BY DoorParts DEF RequestsOK
<1>s. UNCHANGED request => \A k \in Keys : /\ Locking(k) => Locking(k)'
                                           /\ Starters(k)' \subseteq Starters(k)
  BY DEF Locking, Starters, At, KeyOf
<1>1. ASSUME NEW b \in Browsers, NEW k \in Keys, Attempt(b, k) PROVE AllCounted'
  <2> DEFINE r == [step |-> "check", key |-> k]
  <2>1. r.step = "check" /\ request' = [request EXCEPT ![b] = r] /\ request[b].step = "idle"
    BY <1>1 DEF Attempt, At
  <2> HIDE DEF r
  <2>2. \A l \in Keys : /\ Locking(l) => Locking(l)'
                        /\ Starters(l)' \subseteq Starters(l)
    BY <1>0, <2>1, Moved
  <2> QED
    BY <1>0, <1>1, <2>2, PassingBy DEF Attempt
<1>2. ASSUME NEW b \in Browsers, Succeed(b) \/ ClearLock(b) \/ Fail(b) PROVE AllCounted'
  <2>1. /\ GoTo(b, "clear") \/ Finish(b)
        /\ ~At(b, "lock") /\ ~At(b, "forget") /\ UNCHANGED <<count, failures>>
    BY <1>2 DEF Succeed, ClearLock, Fail, At
  <2>2. \A l \in Keys : /\ Locking(l) => Locking(l)'
                        /\ Starters(l)' \subseteq Starters(l)
    BY <1>0, <2>1, GoesOn DEF Steps
  <2> QED
    BY <1>0, <2>1, <2>2, PassingBy
<1>3. ASSUME NEW b \in Browsers, ClearCount(b) PROVE AllCounted'
  <2>0. PICK k \in Keys : k = KeyOf(b)
    BY <1>0, <1>3 DEF ClearCount, At
  <2>1. GoTo(b, "unlock") /\ ForgetCount(k) /\ ~At(b, "lock") /\ ~At(b, "forget")
    BY <1>3, <2>0 DEF ClearCount, At
  <2>2. \A l \in Keys : /\ Locking(l) => Locking(l)'
                        /\ Starters(l)' \subseteq Starters(l)
    BY <1>0, <2>1, GoesOn DEF Steps
  <2> QED
    BY <1>0, <2>1, <2>2, ForgetCounts
<1>4. ASSUME NEW b \in Browsers, Lock(b) PROVE AllCounted'
  <2>1. GoTo(b, "forget") /\ UNCHANGED <<count, failures>>
    BY <1>4 DEF Lock
  <2>2. \A l \in Keys : /\ Locking(l) => Locking(l)'
                        /\ Starters(l)' \subseteq Starters(l)
    BY <1>0, <2>1, GoesOn DEF Steps
  <2> QED
    BY <1>0, <2>1, <2>2, PassingBy
<1>5. ASSUME NEW b \in Browsers, Forget(b) PROVE AllCounted'
  <2>0. PICK k \in Keys : k = KeyOf(b)
    BY <1>0, <1>5 DEF Forget, At
  <2>1. ForgetCount(k) /\ request' = [request EXCEPT ![b] = Idle]
    BY <1>5, <2>0 DEF Forget, Finish
  <2>2. \A l \in Keys \ {k} : /\ Locking(l) => Locking(l)'
                              /\ Starters(l)' \subseteq Starters(l)
    BY <1>0, <2>0, <2>1 DEF Locking, Starters, At, KeyOf, RequestsOK, Idle
  <2> QED
    BY <1>0, <2>1, <2>2, ForgetCounts
<1>6. ASSUME NEW b \in Browsers, Logout(b) \/ SetPreview(b) PROVE AllCounted'
  <2>1. UNCHANGED <<count, request, failures>>
    BY <1>6 DEF Logout, SetPreview
  <2> QED
    BY <1>0, <1>s, <2>1, PassingBy
<1>7. ASSUME NEW k \in Keys, CountExpires(k) PROVE AllCounted'
  <2>1. ForgetCount(k) /\ UNCHANGED request
    BY <1>7 DEF CountExpires
  <2> QED
    BY <1>0, <1>s, <2>1, ForgetCounts
<1>8. ASSUME NEW k \in Keys, LockExpires(k) PROVE AllCounted'
  <2>1. UNCHANGED <<count, request, failures>>
    BY <1>8 DEF LockExpires
  <2> QED
    BY <1>0, <1>s, <2>1, PassingBy
<1>9. CASE Restart
  BY <1>9, Reset DEF Restart, AllCounted
<1>10. CASE UNCHANGED doorVars
  <2>1. UNCHANGED <<count, request, failures>>
    BY <1>10 DEF doorVars
  <2> QED
    BY <1>0, <1>s, <2>1, PassingBy
<1> QED
  BY <1>1, <1>2, <1>3, <1>4, <1>5, <1>6, <1>7, <1>8, <1>9, <1>10,
     IncrementCounts, StartWindowCounts DEF DoorNext

\* What the counting means for a guesser: the window's failures are fewer than
\* MaxAttempts for every browser.
LEMMA CountedIsBounded == DoorTypeOK /\ AllCounted => GuessesBounded
<1> SUFFICES ASSUME DoorTypeOK, AllCounted, NEW k \in Keys, ~Locking(k)
             PROVE  failures[k] <= Cardinality(Browsers) * (MaxAttempts - 1)
  BY DEF GuessesBounded
<1> DEFINE m == MaxAttempts - 1
           B == Cardinality(Browsers)
           n == B - 1 - Cardinality(Starters(k))
<1>1. count[k] \in Nat /\ failures[k] \in Nat
  BY DoorParts DEF Counters
<1>2. /\ m \in Nat /\ B \in Nat /\ n \in Int /\ n <= B - 1 /\ B - 1 \in Int
  BY StartersCounted, FrontDoorAssumption
<1>3. /\ count[k] = 0 => failures[k] = 0
      /\ count[k] <= m /\ (count[k] > 0 => failures[k] <= count[k] + m * n)
  BY <1>1, FrontDoorAssumption DEF AllCounted, Counted, Window, Losses
<1> HIDE DEF m, B, n
<1>4. m * n <= m * (B - 1) /\ m * n \in Int /\ m * (B - 1) \in Int
  BY <1>2, TimesMore
<1>5. m * ((B - 1) + 1) = m * (B - 1) + m /\ (B - 1) + 1 = B
  BY <1>2, TimesOneMore
<1>6. m * B = B * m /\ m * B \in Nat
  BY <1>2
<1>7. failures[k] <= m * B
  BY <1>1, <1>2, <1>3, <1>4, <1>5, <1>6
<1> QED
  BY <1>6, <1>7 DEF m, B

\* However the three operations of a failure interleave, and however many
\* windows are started over: a window that is not being locked has seen fewer
\* than MaxAttempts failures per browser (ratelimit.py:69).
THEOREM GuessesAreBounded == DoorSpec => []GuessesBounded
<1>1. DoorInit => AllCounted
  BY FrontDoorAssumption DEF DoorInit, AllCounted, Counted, Window
<1> QED
  BY <1>1, DoorTypes, CountedStep, CountedIsBounded, PTL DEF DoorSpec

-----------------------------------------------------------------------------
(* The address book.                                                       *)

Saves == [addr : Addresses \cup {NoAddress}, step : {"check", "write"},
          default : BOOLEAN, stored : BOOLEAN]

\* A device that saves nothing is typed.
LEMMA NotSavingTyped == NotSaving \in Saves
  BY DEF NotSaving, Saves

\* A save at either of its statements is typed.
LEMMA SaveTyped ==
  ASSUME NEW a \in Addresses, NEW step \in {"check", "write"},
         NEW default \in BOOLEAN, NEW stored \in BOOLEAN
  PROVE  [addr |-> a, step |-> step, default |-> default, stored |-> stored] \in Saves
  BY DEF Saves

\* A save put in place of another keeps the saves typed.
LEMMA OneSave ==
  ASSUME saving \in [Devices -> Saves], NEW d \in Devices, NEW s \in Saves
  PROVE  [saving EXCEPT ![d] = s] \in [Devices -> Saves]
  OBVIOUS

\* Every step keeps the types.
LEMMA BookStep == BookTypeOK /\ [BookNext]_bookVars => BookTypeOK'
<1> SUFFICES ASSUME BookTypeOK, [BookNext]_bookVars PROVE BookTypeOK'
  OBVIOUS
<1> USE AddressBookAssumption, NotSavingTyped
<1>0. /\ book \in [Addresses -> {"absent", "plain", "default"}]
      /\ saving \in [Devices -> Saves] /\ abandoned \in BOOLEAN
  BY DEF BookTypeOK, Saves
<1> SUFFICES /\ book' \in [Addresses -> {"absent", "plain", "default"}]
             /\ saving' \in [Devices -> Saves] /\ abandoned' \in BOOLEAN
  BY DEF BookTypeOK, Saves
<1>1. ASSUME NEW d \in Devices, NEW a \in Addresses, NEW default \in BOOLEAN,
             StartCreate(d, a, default) \/ StartPatch(d, a, default)
      PROVE  /\ book' = book /\ abandoned' = abandoned
             /\ saving' \in [Devices -> Saves]
  <2> DEFINE s(stored) == [addr |-> a, step |-> "check", default |-> default, stored |-> stored]
  <2>1. \A stored \in BOOLEAN : s(stored) \in Saves
    BY SaveTyped
  <2> HIDE DEF s
  <2>2. \E stored \in BOOLEAN : saving' = [saving EXCEPT ![d] = s(stored)]
    BY <1>1 DEF StartCreate, StartPatch, s
  <2>3. saving' \in [Devices -> Saves]
    BY <1>0, <2>1, <2>2, OneSave
  <2> QED
    BY <1>1, <2>3 DEF StartCreate, StartPatch
<1>2. ASSUME NEW d \in Devices, UnsetOthers(d)
      PROVE  /\ book' \in [Addresses -> {"absent", "plain", "default"}]
             /\ abandoned' = abandoned /\ saving' \in [Devices -> Saves]
  BY <1>0, <1>2 DEF UnsetOthers, Saves
<1>3. ASSUME NEW d \in Devices, CheckFirst(d)
      PROVE  /\ book' = book /\ abandoned' = abandoned
             /\ saving' \in [Devices -> Saves]
  <2> DEFINE first == First(saving[d])
  <2>1. first \in BOOLEAN
    BY DEF First
  <2>2. saving' = [saving EXCEPT ![d] = [saving[d] EXCEPT !.step = "write", !.default = first]]
    BY <1>0, <1>3 DEF CheckFirst
  <2> HIDE DEF first
  <2>3. [saving[d] EXCEPT !.step = "write", !.default = first] \in Saves
    BY <1>0, <2>1 DEF Saves
  <2>4. saving' \in [Devices -> Saves]
    BY <1>0, <2>2, <2>3, OneSave
  <2> QED
    BY <1>3, <2>4 DEF CheckFirst
<1>4. ASSUME NEW d \in Devices, Write(d) \/ Refuse(d) \/ Die(d)
      PROVE  /\ saving' \in [Devices -> Saves] /\ abandoned' \in BOOLEAN
             /\ book' \in [Addresses -> {"absent", "plain", "default"}]
  <2>1. saving' \in [Devices -> Saves]
    BY <1>0, <1>4 DEF Write, Refuse, Die
  <2>2. abandoned' \in BOOLEAN
    BY <1>0, <1>4 DEF Write, Refuse, Die
  <2>3. book' \in [Addresses -> {"absent", "plain", "default"}]
    BY <1>0, <1>4 DEF Write, Refuse, Die, Flag
  <2> QED
    BY <2>1, <2>2, <2>3
<1>5. ASSUME NEW a \in Addresses, Delete(a)
      PROVE  /\ saving' = saving /\ abandoned' \in BOOLEAN
             /\ book' \in [Addresses -> {"absent", "plain", "default"}]
  BY <1>0, <1>5 DEF Delete
<1>6. CASE UNCHANGED bookVars
  BY <1>0, <1>6 DEF bookVars
<1> QED
  BY <1>0, <1>1, <1>2, <1>3, <1>4, <1>5, <1>6 DEF BookNext

\* Every variable keeps its type.
THEOREM BookTypes == BookSpec => []BookTypeOK
<1>1. BookInit => BookTypeOK
  BY NotSavingTyped DEF BookInit, BookTypeOK, Saves
<1> QED
  BY <1>1, BookStep, PTL DEF BookSpec

\* Every step keeps one default at most.
LEMMA DefaultStep ==
  BookTypeOK /\ OneDefault /\ [BookNext]_bookVars => OneDefault'
<1> SUFFICES ASSUME BookTypeOK, OneDefault, [BookNext]_bookVars PROVE OneDefault'
  OBVIOUS
<1>0. /\ book \in [Addresses -> {"absent", "plain", "default"}]
      /\ saving \in [Devices -> Saves]
  BY DEF BookTypeOK, Saves
<1>1. ASSUME Defaults' \subseteq Defaults PROVE OneDefault'
  BY <1>1 DEF OneDefault
<1>2. ASSUME NEW d \in Devices, UnsetOthers(d) PROVE Defaults' \subseteq Defaults
  BY <1>0, <1>2 DEF UnsetOthers, Defaults
<1>3. ASSUME NEW a \in Addresses, Delete(a) PROVE Defaults' \subseteq Defaults
  BY <1>0, <1>3 DEF Delete, Defaults
<1>4. ASSUME NEW d \in Devices, Write(d) PROVE OneDefault'
  <2> DEFINE a == saving[d].addr
  <2>1. a \in Addresses
    BY <1>0, <1>4 DEF Write, Saves
  <2>2. CASE saving[d].default
    <3>1. Defaults \ {a} = {}
      BY <1>4, <2>2 DEF Write, Refused
    <3>2. Defaults' \subseteq {a}
      BY <1>0, <1>4, <2>1, <3>1 DEF Write, Defaults
    <3> QED
      BY <3>2 DEF OneDefault
  <2>3. CASE ~saving[d].default
    <3>1. Defaults' \subseteq Defaults
      BY <1>0, <1>4, <2>1, <2>3 DEF Write, Defaults, Flag
    <3> QED
      BY <3>1, <1>1
  <2> QED
    BY <2>2, <2>3
<1>5. ASSUME book' = book PROVE Defaults' \subseteq Defaults
  BY <1>5 DEF Defaults
<1>6. ASSUME NEW d \in Devices, NEW a \in Addresses, NEW default \in BOOLEAN,
             StartCreate(d, a, default) \/ StartPatch(d, a, default)
      PROVE  book' = book
  BY <1>6 DEF StartCreate, StartPatch
<1>7. ASSUME NEW d \in Devices, CheckFirst(d) \/ Refuse(d) \/ Die(d) PROVE book' = book
  BY <1>7 DEF CheckFirst, Refuse, Die
<1>8. CASE UNCHANGED bookVars
  BY <1>8, <1>5, <1>1 DEF bookVars
<1> QED
  BY <1>1, <1>2, <1>3, <1>4, <1>5, <1>6, <1>7, <1>8 DEF BookNext

\* The customer has one default address at most, however many devices save,
\* edit and delete at once: the partial unique index is enough for it.
THEOREM DefaultIsOne == BookSpec => []OneDefault
<1>1. BookInit => OneDefault
  BY DEF BookInit, OneDefault, Defaults
<1> QED
  BY <1>1, BookTypes, DefaultStep, PTL DEF BookSpec
-----------------------------------------------------------------------------
(* A book without a default.  It may also become empty, and a request that *)
(* decided against the default may then fill it again, so the explanation  *)
(* has to hold from the moment such a request exists.                      *)

Declined(d) == saving[d].addr # NoAddress /\ saving[d].step = "write" /\ ~saving[d].default
Reviving(d) == saving[d].addr # NoAddress /\ saving[d].stored
Promised == \E d \in Devices : saving[d].step = "write" /\ saving[d].default

Explained ==
  Defaults = {} /\ (Held # {} \/ \E d \in Devices : Declined(d) \/ Reviving(d))
    => abandoned \/ Promised

\* Every step keeps a missing default explained.
LEMMA ExplainedStep ==
  BookTypeOK /\ Explained /\ [BookNext]_bookVars => Explained'
<1> SUFFICES ASSUME BookTypeOK, Explained, [BookNext]_bookVars, Defaults' = {},
                    (Held # {} \/ \E d \in Devices : Declined(d) \/ Reviving(d))',
                    ~Promised'
             PROVE  abandoned'
  BY DEF Explained
<1> USE AddressBookAssumption
<1>0. /\ book \in [Addresses -> {"absent", "plain", "default"}]
      /\ saving \in [Devices -> Saves]
  BY DEF BookTypeOK, Saves
<1>1. ASSUME NEW d \in Devices, NEW a \in Addresses, NEW default \in BOOLEAN,
             StartCreate(d, a, default)
      PROVE  abandoned'
  <2>1. book' = book /\ abandoned' = abandoned
    BY <1>1 DEF StartCreate
  <2>2. \A e \in Devices : /\ Declined(e)' => Declined(e)
                           /\ Reviving(e)' => Reviving(e)
    BY <1>0, <1>1 DEF StartCreate, Declined, Reviving
  <2>3. Promised => Promised'
    BY <1>0, <1>1 DEF StartCreate, Promised, NotSaving
  <2> QED
    BY <2>1, <2>2, <2>3 DEF Explained, Held, Defaults
<1>2. ASSUME NEW d \in Devices, NEW a \in Addresses, NEW default \in BOOLEAN,
             StartPatch(d, a, default)
      PROVE  abandoned'
  <2>1. book' = book /\ abandoned' = abandoned /\ Held # {}
    BY <1>2 DEF StartPatch
  <2>2. Promised => Promised'
    BY <1>0, <1>2 DEF StartPatch, Promised, NotSaving
  <2> QED
    BY <2>1, <2>2 DEF Explained, Defaults
<1>3. ASSUME NEW d \in Devices, UnsetOthers(d) PROVE abandoned'
  <2>1. Promised'
    BY <1>0, <1>3 DEF UnsetOthers, Promised, Saves
  <2> QED
    BY <2>1
<1>4. ASSUME NEW d \in Devices, CheckFirst(d) PROVE abandoned'
  <2> DEFINE first == First(saving[d])
  <2>1. book' = book /\ abandoned' = abandoned
    BY <1>4 DEF CheckFirst
  <2>2. saving' = [saving EXCEPT ![d] = [saving[d] EXCEPT !.step = "write", !.default = first]]
    BY <1>0, <1>4 DEF CheckFirst
  <2>3. ~first
    BY <1>0, <2>2 DEF Promised, Saves
  <2>4. Reviving(d) \/ Held # {}
    BY <1>4, <2>3 DEF First, Reviving, CheckFirst
  <2>5. Promised => Promised'
    BY <1>0, <1>4, <2>2 DEF Promised, CheckFirst
  <2> QED
    BY <2>1, <2>4, <2>5 DEF Explained, Defaults
<1>5. ASSUME NEW d \in Devices, Write(d) PROVE abandoned'
  <2> DEFINE s == saving[d]
  <2>1. s.addr \in Addresses
    BY <1>0, <1>5 DEF Write, Saves
  <2>2. ~s.default
    <3>1. s.default => s.addr \in Defaults'
      BY <1>0, <1>5, <2>1 DEF Write, Defaults, Flag
    <3> QED
      BY <3>1
  <2>3. Declined(d)
    BY <1>5, <2>2 DEF Write, Declined
  <2>4. Promised => Promised'
    BY <1>0, <1>5, <2>2 DEF Promised, Write
  <2>5. Defaults = {} => abandoned
    BY <2>3, <2>4 DEF Explained
  <2>6. Defaults # {} => book[s.addr] = "default"
    BY <1>0, <1>5, <2>1 DEF Defaults, Write, Flag
  <2>7. abandoned' = (~s.default /\ (abandoned \/ book[s.addr] = "default"))
    BY <1>5 DEF Write
  <2> QED
    BY <2>2, <2>5, <2>6, <2>7
<1>6. ASSUME NEW d \in Devices, Refuse(d) PROVE abandoned'
  <2>1. Defaults # {} /\ book' = book
    BY <1>6 DEF Refuse, Refused
  <2> QED
    BY <2>1 DEF Defaults
<1>7. ASSUME NEW d \in Devices, Die(d) PROVE abandoned'
  <2>1. book' = book
    BY <1>7 DEF Die
  <2>2. Defaults = {} /\ (Held' # {} => Held # {})
    BY <2>1 DEF Defaults, Held
  <2>3. \A e \in Devices : /\ Declined(e)' => Declined(e)
                           /\ Reviving(e)' => Reviving(e)
    BY <1>0, <1>7 DEF Die, NotSaving, Declined, Reviving
  <2>4. abandoned \/ Promised
    BY <2>2, <2>3 DEF Explained
  <2>5. abandoned' = (abandoned \/ (saving[d].step = "write" /\ saving[d].default /\ Defaults = {}))
    BY <1>7 DEF Die
  <2>6. Promised => Promised' \/ (saving[d].step = "write" /\ saving[d].default)
    BY <1>0, <1>7 DEF Die, Promised
  <2> QED
    BY <2>2, <2>4, <2>5, <2>6
<1>8. ASSUME NEW a \in Addresses, Delete(a) PROVE abandoned'
  <2>1. saving' = saving /\ a \in Held
    BY <1>8 DEF Delete
  <2>2. Promised => Promised'
    BY <2>1 DEF Promised
  <2>3. Defaults = {} => abandoned
    BY <2>1, <2>2 DEF Explained
  <2>4. Defaults # {} => book[a] = "default"
    BY <1>0, <1>8 DEF Delete, Defaults
  <2>5. abandoned' = (abandoned \/ book[a] = "default")
    BY <1>8 DEF Delete
  <2> QED
    BY <2>3, <2>4, <2>5
<1>9. CASE UNCHANGED bookVars
  <2>1. book' = book /\ saving' = saving /\ abandoned' = abandoned
    BY <1>9 DEF bookVars
  <2> QED
    BY <2>1 DEF Explained, Promised, Declined, Reviving, Held, Defaults
<1> QED
  BY <1>1, <1>2, <1>3, <1>4, <1>5, <1>6, <1>7, <1>8, <1>9 DEF BookNext

\* A book without a default is explained: someone deleted or unset it, or a
\* request that unset it died or has yet to write its own (models.py:109).
THEOREM MissingExplained == BookSpec => []DefaultlessExplained
<1>1. BookInit => Explained
  BY DEF BookInit, Explained, Held, Declined, Reviving, NotSaving
<1>2. Explained => DefaultlessExplained
  BY DEF Explained, DefaultlessExplained, Promised
<1> QED
  BY <1>1, <1>2, BookTypes, ExplainedStep, PTL DEF BookSpec

-----------------------------------------------------------------------------
(* Payment screenshots.  A name that no legacy picture has is its first      *)
(* writer's for good; a legacy name belongs to the relocation from the look  *)
(* that found it free to the end of the move, unless an upload contests it.  *)

Busy == move.step \in {"move", "copy", "unlink"}
Here == move.names[move.at]
Unused(n) == \A w \in Workers : upload[w].name # n

OnlyLegacyPublic ==
  /\ \A n \in Names \ LegacyNames : public[n] = NoFile
  /\ contested \subseteq LegacyNames

\* The file that is being moved is still there, and nobody else writes where it goes.
MoveAlone ==
  Busy =>
    /\ public[Here] # NoFile
    /\ move.step # "move" => private[Here] # NoFile
    /\ Here \notin contested =>
         /\ Unused(Here)
         /\ move.step = "move" => private[Here] = NoFile
         /\ \A o \in Legacy : LegacyName[o] = Here =>
              /\ move.step = "copy" => private[Here] = Picture(o, FALSE)
              /\ move.step = "unlink" => private[Here] = Picture(o, TRUE)

UploadsOwn ==
  \A w \in Workers : upload[w] # NoUpload =>
    /\ private[upload[w].name] # NoFile
    /\ upload[w].name \notin LegacyNames =>
         /\ private[upload[w].name] = Picture(upload[w].order, upload[w].written)
         /\ \A v \in Workers : upload[v].name = upload[w].name => v = w
         /\ \A o \in Orders : row[o] # upload[w].name

\* A legacy picture that is not public any more is private, and no upload's.
LegacyOwn ==
  \A o \in Legacy :
    /\ public[LegacyName[o]] \in {Picture(o, TRUE), NoFile}
    /\ public[LegacyName[o]] = NoFile /\ LegacyName[o] \notin contested =>
         private[LegacyName[o]] = Picture(o, TRUE) /\ Unused(LegacyName[o])

FilesInv == OnlyLegacyPublic /\ MoveAlone /\ UploadsOwn /\ LegacyOwn /\ ServedIsOwn
Pictures == [order : Orders, whole : BOOLEAN]
Uploads == [order : Orders, name : Names, written : BOOLEAN]
Moves == [names : [Orders -> Names \cup {NoName}], at : Orders \cup {NoOrder},
          step : {"off", "look", "move", "copy", "unlink"}]

\* A picture is an order's file, whole or not, and never the absence of one.
LEMMA PictureTyped ==
  ASSUME NEW o \in Orders, NEW whole \in BOOLEAN
  PROVE  /\ Picture(o, whole) \in Pictures /\ Picture(o, whole) # NoFile
         /\ Picture(o, whole).order = o /\ Picture(o, whole).whole = whole
  BY ScreenshotsAssumption DEF Picture, Pictures

\* Writing a file changes how much of it is there, not whose it is.
LEMMA PictureWritten ==
  ASSUME NEW p \in Pictures, NEW whole \in BOOLEAN
  PROVE  [p EXCEPT !.whole = whole] = Picture(p.order, whole)
  BY DEF Picture, Pictures

\* A picture is its order and whether it is whole.
LEMMA PictureParts ==
  ASSUME NEW p \in Pictures
  PROVE  p.order \in Orders /\ p.whole \in BOOLEAN /\ p = Picture(p.order, p.whole)
  BY DEF Picture, Pictures

\* A name holds a picture or nothing, and a legacy name belongs to a legacy order.
LEMMA FileOrNone ==
  /\ Files = Pictures \cup {NoFile} /\ NoFile \notin Pictures
  /\ LegacyNames \subseteq Names /\ NoName \notin Names
  /\ \A o \in Legacy : o \in Orders /\ LegacyName[o] \in LegacyNames
  /\ \A n \in LegacyNames : \E o \in Legacy : LegacyName[o] = n
  BY ScreenshotsAssumption DEF Files, Pictures, LegacyNames, Names

\* The types part by part.
LEMMA FileParts ==
  ASSUME FilesTypeOK
  PROVE  /\ row \in [Orders -> Names \cup {NoName}]
         /\ private \in [Names -> Files] /\ public \in [Names -> Files]
         /\ upload \in [Workers -> Uploads \cup {NoUpload}]
         /\ move \in Moves /\ (Busy => move.at \in Orders /\ Here \in Names)
         /\ sameDisk \in BOOLEAN /\ uploads \in Nat /\ contested \subseteq Names
  BY DEF FilesTypeOK, Uploads, Moves, Busy, Here

\* The parts of the type invariant, with pictures and uploads as records.
LEMMA FilesTyped ==
  ASSUME /\ row \in [Orders -> Names \cup {NoName}]
         /\ private \in [Names -> Files] /\ public \in [Names -> Files]
         /\ upload \in [Workers -> Uploads \cup {NoUpload}]
         /\ move \in Moves /\ (Busy => move.at \in Orders /\ Here \in Names)
         /\ sameDisk \in BOOLEAN /\ uploads \in Nat /\ contested \subseteq Names
  PROVE  FilesTypeOK
  BY DEF FilesTypeOK, Uploads, Moves, Busy, Here

\* The parts of an upload in progress.
LEMMA UploadParts ==
  ASSUME FilesTypeOK, NEW w \in Workers
  PROVE  /\ upload[w] # NoUpload => /\ upload[w] \in Uploads
                                    /\ upload[w].order \in Orders /\ upload[w].name \in Names
                                    /\ upload[w].written \in BOOLEAN
         /\ upload[w] = NoUpload => upload[w].name = NoName
<1>1. upload[w] \in Uploads \cup {NoUpload}
  BY FileParts
<1>2. NoUpload.name = NoName
  BY DEF NoUpload
<1> HIDE DEF NoUpload
<1> QED
  BY <1>1, <1>2 DEF Uploads

\* A name that is free has no upload, and no row but a legacy one.
LEMMA FreeName ==
  ASSUME FilesTypeOK, FilesInv, NEW m \in Names, private[m] = NoFile
  PROVE  Unused(m) /\ (m \notin LegacyNames => \A o \in Orders : row[o] # m)
<1>1. ASSUME NEW w \in Workers PROVE upload[w].name # m
  BY UploadParts, FileOrNone DEF FilesInv, UploadsOwn
<1>2. ASSUME m \notin LegacyNames, NEW o \in Orders PROVE row[o] # m
  <2>1. m # NoName /\ Picture(o, TRUE) # NoFile
    BY FileOrNone, PictureTyped
  <2> QED
    BY <1>2, <2>1 DEF FilesInv, ServedIsOwn, Served
<1> QED
  BY <1>1, <1>2 DEF Unused

\* What is being moved has a legacy name, and is the picture of its order.
LEMMA MovedIsLegacy ==
  ASSUME FilesTypeOK, FilesInv, Busy
  PROVE  /\ Here \in LegacyNames /\ public[Here] \in Pictures
         /\ \A o \in Legacy : LegacyName[o] = Here => public[Here] = Picture(o, TRUE)
<1>1. Here \in Names /\ public[Here] \in Files /\ public[Here] # NoFile
  BY FileParts DEF FilesInv, MoveAlone
<1>2. Here \in LegacyNames
  BY <1>1 DEF FilesInv, OnlyLegacyPublic
<1>3. \A o \in Legacy : LegacyName[o] = Here => public[Here] = Picture(o, TRUE)
  BY <1>1 DEF FilesInv, LegacyOwn
<1> QED
  BY <1>1, <1>2, <1>3, FileOrNone

\* The command moves on without touching a file: what holds of its step.
LEMMA OnlyMoves ==
  ASSUME FilesTypeOK, FilesInv, move' \in Moves, ~Busy' \/ MoveAlone',
         Busy' => (move.at \in Orders /\ Here \in Names)',
         UNCHANGED <<row, private, public, upload, sameDisk, uploads, contested>>
  PROVE  FilesTypeOK' /\ FilesInv'
<1>1. FilesTypeOK'
  BY FileParts DEF FilesTypeOK, Uploads, Moves, Busy, Here
<1>2. MoveAlone'
  BY DEF MoveAlone
<1>3. OnlyLegacyPublic' /\ UploadsOwn' /\ LegacyOwn' /\ ServedIsOwn'
  BY DEF FilesInv, OnlyLegacyPublic, UploadsOwn, LegacyOwn, ServedIsOwn, Served, Unused
<1> QED
  BY <1>1, <1>2, <1>3 DEF FilesInv
\* A picture that is stored takes a free name.
LEMMA StoreStep ==
  ASSUME FilesTypeOK, FilesInv, NEW w \in Workers, NEW o \in Orders, NEW n \in Requested,
         StoreFile(w, o, n)
  PROVE  FilesTypeOK' /\ FilesInv'
<1> DEFINE u(m) == [order |-> o, name |-> m, written |-> FALSE]
<1>1. PICK m \in Available(n) :
        /\ upload' = [upload EXCEPT ![w] = u(m)]
        /\ private' = [private EXCEPT ![m] = Picture(o, FALSE)]
        /\ contested' = IF move.step = "move" /\ Here = m THEN contested \cup {m} ELSE contested
  BY DEF StoreFile, Here
<1>2. /\ row' = row /\ public' = public /\ move' = move /\ sameDisk' = sameDisk
      /\ uploads' = uploads + 1 /\ upload[w] = NoUpload
  BY DEF StoreFile
<1>3. m \in Names /\ private[m] = NoFile
  BY DEF Available, Names
<1>4. Unused(m) /\ (m \notin LegacyNames => \A p \in Orders : row[p] # m)
  BY <1>3, FreeName
<1>5. /\ u(m) \in Uploads /\ u(m) # NoUpload /\ u(m).order = o /\ u(m).name = m /\ u(m).written = FALSE
  BY <1>3, ScreenshotsAssumption DEF Uploads, NoUpload
<1>6. Picture(o, FALSE) \in Pictures /\ Picture(o, FALSE) # NoFile
  BY PictureTyped
<1> HIDE DEF u
<1>7. /\ \A v \in Workers : upload'[v] = IF v = w THEN u(m) ELSE upload[v]
      /\ \A k \in Names : private'[k] = IF k = m THEN Picture(o, FALSE) ELSE private[k]
  BY <1>1, FileParts
<1>8. FilesTypeOK'
  <2>1. private' \in [Names -> Files]
    BY <1>1, <1>6, FileParts, FileOrNone
  <2>2. upload' \in [Workers -> Uploads \cup {NoUpload}]
    BY <1>1, <1>5, FileParts
  <2>3. contested' \subseteq Names /\ uploads' \in Nat
    BY <1>1, <1>2, <1>3, FileParts
  <2> QED
    BY <1>2, <2>1, <2>2, <2>3, FileParts DEF FilesTypeOK, Uploads, Moves, Busy, Here
<1>9. Busy => Here # m \/ move.step = "move"
  BY <1>3 DEF Busy, FilesInv, MoveAlone
<1>10. OnlyLegacyPublic'
  <2>1. Busy => Here \in LegacyNames
    BY MovedIsLegacy
  <2> QED
    BY <1>1, <1>2, <2>1 DEF FilesInv, OnlyLegacyPublic, Busy
<1>11. MoveAlone'
  <2> SUFFICES ASSUME Busy PROVE MoveAlone'
    BY <1>2 DEF MoveAlone, Busy, Here
  <2>1. Here \in Names
    BY FileParts
  <2>2. CASE Here = m
    <3>1. Here \in contested' /\ move.step = "move"
      BY <1>1, <1>9, <2>2
    <3> QED
      BY <1>2, <3>1 DEF FilesInv, MoveAlone, Busy, Here
  <2>3. CASE Here # m
    <3>1. private'[Here] = private[Here] /\ contested' = contested
      BY <1>1, <1>7, <2>1, <2>3
    <3>2. Unused(Here) => \A v \in Workers : upload'[v].name # Here
      BY <1>5, <1>7, <2>3 DEF Unused
    <3> QED
      BY <1>2, <3>1, <3>2 DEF FilesInv, MoveAlone, Busy, Here, Unused
  <2> QED
    BY <2>2, <2>3
<1>12. UploadsOwn'
  <2>1. \A v \in Workers : upload'[v] # NoUpload /\ v # w =>
           /\ upload'[v] = upload[v] /\ upload[v].name # m
           /\ private'[upload[v].name] = private[upload[v].name]
    BY <1>4, <1>7, UploadParts DEF Unused
  <2>2. \A v \in Workers : upload'[v].name = m => v = w
    BY <1>4, <1>7 DEF Unused
  <2>3. private'[m] = Picture(o, FALSE) /\ upload'[w] = u(m)
    BY <1>3, <1>7
  <2>4. \A v \in Workers : upload'[v] # NoUpload /\ v # w =>
          /\ private'[upload'[v].name] # NoFile
          /\ upload'[v].name \notin LegacyNames =>
               /\ private'[upload'[v].name] = Picture(upload'[v].order, upload'[v].written)
               /\ \A x \in Workers : upload'[x].name = upload'[v].name => x = v
               /\ \A p \in Orders : row'[p] # upload'[v].name
    BY <1>2, <1>5, <1>7, <2>1 DEF FilesInv, UploadsOwn
  <2> QED
    BY <1>2, <1>4, <1>5, <1>6, <2>2, <2>3, <2>4 DEF UploadsOwn
<1>13. LegacyOwn'
  <2> SUFFICES ASSUME NEW p \in Legacy, public[LegacyName[p]] = NoFile, LegacyName[p] \notin contested'
               PROVE  private'[LegacyName[p]] = Picture(p, TRUE)
                      /\ \A v \in Workers : upload'[v].name # LegacyName[p]
    BY <1>2 DEF FilesInv, LegacyOwn, Unused
  <2>1. LegacyName[p] \in Names /\ LegacyName[p] \notin contested /\ Picture(p, TRUE) # NoFile
    BY <1>1, FileOrNone, PictureTyped
  <2>2. private[LegacyName[p]] = Picture(p, TRUE) /\ Unused(LegacyName[p])
    BY <2>1 DEF FilesInv, LegacyOwn
  <2>3. LegacyName[p] # m
    BY <1>3, <2>1, <2>2
  <2> QED
    BY <1>5, <1>7, <2>1, <2>2, <2>3 DEF Unused
<1>14. ServedIsOwn'
  <2> SUFFICES ASSUME NEW p \in Orders, row[p] \notin LegacyNames \cup {NoName}
               PROVE  private'[row[p]] = Picture(p, TRUE)
    BY <1>2 DEF ServedIsOwn, Served
  <2>1. row[p] \in Names /\ private[row[p]] = Picture(p, TRUE)
    BY FileParts DEF FilesInv, ServedIsOwn, Served
  <2> QED
    BY <1>4, <1>7, <2>1
<1> QED
  BY <1>8, <1>10, <1>11, <1>12, <1>13, <1>14 DEF FilesInv

\* The bytes are written: under a name of its own, the whole picture.
LEMMA FinishStep ==
  ASSUME FilesTypeOK, FilesInv, NEW w \in Workers, FinishFile(w)
  PROVE  FilesTypeOK' /\ FilesInv'
<1> DEFINE n == upload[w].name
           u == [upload[w] EXCEPT !.written = TRUE]
<1>1. /\ upload[w] # NoUpload /\ upload' = [upload EXCEPT ![w] = u]
      /\ row' = row /\ public' = public /\ move' = move /\ sameDisk' = sameDisk
      /\ uploads' = uploads /\ contested' = contested
  BY FileParts DEF FinishFile
<1>2. /\ n \in Names /\ upload[w] \in Uploads /\ private[n] # NoFile /\ private[n] \in Pictures
  BY <1>1, UploadParts, FileParts, FileOrNone DEF FilesInv, UploadsOwn
<1>3. /\ u \in Uploads /\ u.order = upload[w].order /\ u.name = n /\ u.written = TRUE
  BY <1>2 DEF Uploads
<1>4. PICK whole \in BOOLEAN :
        /\ n \notin contested => whole
        /\ private' = [private EXCEPT ![n] = Picture(private[n].order, whole)]
  <2>1. CASE n \in contested /\ private' = private
    <3>1. private[n] = Picture(private[n].order, private[n].whole) /\ private[n].whole \in BOOLEAN
      BY <1>2, PictureParts
    <3> QED
      BY <2>1, <3>1, FileParts
  <2>2. CASE \E whole \in BOOLEAN : /\ n \notin contested => whole
                                    /\ private' = [private EXCEPT ![n].whole = whole]
    <3>1. PICK whole \in BOOLEAN : /\ n \notin contested => whole
                                   /\ private' = [private EXCEPT ![n].whole = whole]
      BY <2>2
    <3>2. [private[n] EXCEPT !.whole = whole] = Picture(private[n].order, whole)
      BY <1>2, PictureWritten
    <3>3. [private EXCEPT ![n].whole = whole] = [private EXCEPT ![n] = [private[n] EXCEPT !.whole = whole]]
      OBVIOUS
    <3> QED
      BY <3>1, <3>2, <3>3
  <2> QED
    BY <2>1, <2>2 DEF FinishFile
<1>5. Picture(private[n].order, whole) \in Pictures /\ private[n].order \in Orders
  BY <1>2, PictureParts, PictureTyped
<1>6. NoUpload.name # n
  BY <1>2, FileOrNone DEF NoUpload
<1> HIDE DEF n, u
<1>7. /\ \A v \in Workers : upload'[v] = IF v = w THEN u ELSE upload[v]
      /\ \A k \in Names : private'[k] = IF k = n THEN Picture(private[n].order, whole) ELSE private[k]
  BY <1>1, <1>4, FileParts
<1>8. FilesTypeOK'
  <2>1. private' \in [Names -> Files] /\ upload' \in [Workers -> Uploads \cup {NoUpload}]
    BY <1>1, <1>3, <1>4, <1>5, FileParts, FileOrNone
  <2> QED
    BY <1>1, <2>1, FileParts DEF FilesTypeOK, Uploads, Moves, Busy, Here
<1>9. \A v \in Workers : upload'[v].name = upload[v].name
  BY <1>3, <1>7 DEF n
<1>10. \A k \in Names : (private'[k] = NoFile) = (private[k] = NoFile)
  BY <1>2, <1>5, <1>7, FileOrNone
<1>11. OnlyLegacyPublic'
  BY <1>1 DEF FilesInv, OnlyLegacyPublic
<1>12. MoveAlone'
  <2> SUFFICES ASSUME Busy PROVE MoveAlone'
    BY <1>1 DEF MoveAlone, Busy, Here
  <2>1. Here \in Names
    BY FileParts
  <2>2. Here \notin contested => Here # n
    BY DEF FilesInv, MoveAlone, Unused, n
  <2>3. Here \notin contested => private'[Here] = private[Here]
    BY <1>7, <2>1, <2>2
  <2> QED
    BY <1>1, <1>9, <1>10, <2>1, <2>3 DEF FilesInv, MoveAlone, Busy, Here, Unused
<1>13. UploadsOwn'
  <2>1. ASSUME NEW v \in Workers, upload'[v] # NoUpload
        PROVE  /\ private'[upload'[v].name] # NoFile
               /\ upload'[v].name \notin LegacyNames =>
                    private'[upload'[v].name] = Picture(upload'[v].order, upload'[v].written)
    <3>1. upload[v] # NoUpload
      BY <1>1, <1>7, <2>1
    <3>2. /\ upload[v].name \in Names /\ private[upload[v].name] # NoFile
          /\ upload[v].name \notin LegacyNames =>
               /\ private[upload[v].name] = Picture(upload[v].order, upload[v].written)
               /\ \A x \in Workers : upload[x].name = upload[v].name => x = v
      BY <3>1, UploadParts DEF FilesInv, UploadsOwn
    <3>3. private'[upload'[v].name] # NoFile
      BY <1>9, <1>10, <3>2
    <3>4. CASE v # w
      <4>1. upload'[v] = upload[v] /\ (upload[v].name \notin LegacyNames => upload[v].name # n)
        BY <1>7, <3>2, <3>4 DEF n
      <4> QED
        BY <1>7, <3>2, <3>3, <4>1
    <3>5. CASE v = w /\ n \notin LegacyNames
      <4>1. n \notin contested /\ private[n] = Picture(upload[w].order, upload[w].written)
        BY <3>2, <3>5 DEF FilesInv, OnlyLegacyPublic, n
      <4>2. upload[w].order \in Orders /\ upload[w].written \in BOOLEAN
        BY <1>1, UploadParts
      <4>3. private[n].order = upload[w].order
        BY <4>1, <4>2, PictureTyped
      <4>4. whole = TRUE
        BY <1>4, <4>1
      <4> QED
        BY <1>2, <1>3, <1>7, <3>3, <3>5, <4>3, <4>4
    <3> QED
      BY <1>3, <1>7, <3>3, <3>4, <3>5
  <2>2. ASSUME NEW v \in Workers, upload'[v] # NoUpload, upload'[v].name \notin LegacyNames
        PROVE  /\ \A x \in Workers : upload'[x].name = upload'[v].name => x = v
               /\ \A p \in Orders : row'[p] # upload'[v].name
    <3>1. upload[v] # NoUpload
      BY <1>1, <1>7, <2>2
    <3> QED
      BY <1>1, <1>9, <2>2, <3>1 DEF FilesInv, UploadsOwn
  <2> QED
    BY <2>1, <2>2 DEF UploadsOwn
<1>14. LegacyOwn'
  <2> SUFFICES ASSUME NEW p \in Legacy, public[LegacyName[p]] = NoFile, LegacyName[p] \notin contested
               PROVE  private'[LegacyName[p]] = Picture(p, TRUE)
                      /\ \A v \in Workers : upload'[v].name # LegacyName[p]
    BY <1>1 DEF FilesInv, LegacyOwn, Unused
  <2>1. private[LegacyName[p]] = Picture(p, TRUE) /\ Unused(LegacyName[p]) /\ LegacyName[p] \in Names
    BY FileOrNone DEF FilesInv, LegacyOwn
  <2>2. LegacyName[p] # n
    BY <2>1 DEF Unused, n
  <2> QED
    BY <1>7, <1>9, <2>1, <2>2 DEF Unused
<1>15. ServedIsOwn'
  <2> SUFFICES ASSUME NEW p \in Orders, row[p] \notin LegacyNames \cup {NoName}
               PROVE  private'[row[p]] = Picture(p, TRUE)
    BY <1>1 DEF ServedIsOwn, Served
  <2>1. row[p] \in Names /\ private[row[p]] = Picture(p, TRUE)
    BY FileParts DEF FilesInv, ServedIsOwn, Served
  <2>2. row[p] # n
    BY <1>1 DEF FilesInv, UploadsOwn, n
  <2> QED
    BY <1>7, <2>1, <2>2
<1> QED
  BY <1>8, <1>11, <1>12, <1>13, <1>14, <1>15 DEF FilesInv
\* The row names the file, whose upload ends.
LEMMA RecordStep ==
  ASSUME FilesTypeOK, FilesInv, NEW w \in Workers, Record(w)
  PROVE  FilesTypeOK' /\ FilesInv'
<1> DEFINE n == upload[w].name
           o == upload[w].order
<1>1. /\ upload[w] # NoUpload /\ upload[w].written /\ upload' = [upload EXCEPT ![w] = NoUpload]
      /\ row' = [row EXCEPT ![o] = n]
      /\ UNCHANGED <<private, public, move, sameDisk, uploads, contested>>
  BY DEF Record
<1>2. n \in Names /\ o \in Orders /\ upload[w].written \in BOOLEAN
  BY <1>1, UploadParts
<1>3. /\ n \notin LegacyNames => private[n] = Picture(o, TRUE)
      /\ n \notin LegacyNames => \A v \in Workers : upload[v].name = n => v = w
  BY <1>1, <1>2 DEF FilesInv, UploadsOwn
<1>4. NoUpload.name = NoName
  BY DEF NoUpload
<1> HIDE DEF n, o
<1>5. /\ \A v \in Workers : upload'[v] = IF v = w THEN NoUpload ELSE upload[v]
      /\ \A p \in Orders : row'[p] = IF p = o THEN n ELSE row[p]
  BY <1>1, FileParts
<1>6. FilesTypeOK'
  <2>1. row' \in [Orders -> Names \cup {NoName}] /\ upload' \in [Workers -> Uploads \cup {NoUpload}]
    BY <1>1, <1>2, FileParts
  <2> QED
    BY <1>1, <2>1, FileParts DEF FilesTypeOK, Uploads, Moves, Busy, Here
<1>7. \A k \in Names : Unused(k) => \A v \in Workers : upload'[v].name # k
  BY <1>4, <1>5, FileOrNone DEF Unused
<1>8. OnlyLegacyPublic' /\ MoveAlone' /\ LegacyOwn'
  BY <1>1, <1>7, FileParts, FileOrNone
     DEF FilesInv, OnlyLegacyPublic, MoveAlone, LegacyOwn, Busy, Here, Unused
<1>9. UploadsOwn'
  <2> SUFFICES ASSUME NEW v \in Workers, upload'[v] # NoUpload
               PROVE  /\ private[upload'[v].name] # NoFile
                      /\ upload'[v].name \notin LegacyNames =>
                           /\ private[upload'[v].name] = Picture(upload'[v].order, upload'[v].written)
                           /\ \A x \in Workers : upload'[x].name = upload'[v].name => x = v
                           /\ \A p \in Orders : row'[p] # upload'[v].name
    BY <1>1 DEF UploadsOwn
  <2>1. v # w /\ upload'[v] = upload[v] /\ upload[v] # NoUpload
    BY <1>5
  <2>2. /\ private[upload[v].name] # NoFile /\ upload[v].name \in Names
        /\ upload[v].name \notin LegacyNames =>
             /\ private[upload[v].name] = Picture(upload[v].order, upload[v].written)
             /\ \A x \in Workers : upload[x].name = upload[v].name => x = v
             /\ \A p \in Orders : row[p] # upload[v].name
    BY <2>1, UploadParts DEF FilesInv, UploadsOwn
  <2>3. upload[v].name \notin LegacyNames => upload[v].name # n
    BY <1>3, <2>1
  <2>4. \A x \in Workers : upload'[x].name = upload[v].name => upload[x].name = upload[v].name
    BY <1>4, <1>5, <2>2, FileOrNone
  <2> QED
    BY <1>5, <2>1, <2>2, <2>3, <2>4
<1>10. ServedIsOwn'
  <2> SUFFICES ASSUME NEW p \in Orders, row'[p] \notin LegacyNames \cup {NoName}
               PROVE  private[row'[p]] = Picture(p, TRUE)
    BY <1>1 DEF ServedIsOwn, Served
  <2>1. CASE p = o
    BY <1>3, <1>5, <2>1
  <2>2. CASE p # o
    BY <1>5, <2>2 DEF FilesInv, ServedIsOwn, Served
  <2> QED
    BY <2>1, <2>2
<1> QED
  BY <1>6, <1>8, <1>9, <1>10 DEF FilesInv

\* An upload that dies leaves its file, and everything else as it was.
LEMMA LoseStep ==
  ASSUME FilesTypeOK, FilesInv, NEW w \in Workers, LoseUpload(w)
  PROVE  FilesTypeOK' /\ FilesInv'
<1>1. /\ upload' = [upload EXCEPT ![w] = NoUpload]
      /\ UNCHANGED <<row, private, public, move, sameDisk, uploads, contested>>
  BY DEF LoseUpload
<1>2. NoUpload.name = NoName
  BY DEF NoUpload
<1>3. \A v \in Workers : upload'[v] = IF v = w THEN NoUpload ELSE upload[v]
  BY <1>1, FileParts
<1>4. FilesTypeOK'
  <2>1. upload' \in [Workers -> Uploads \cup {NoUpload}]
    BY <1>1, FileParts
  <2> QED
    BY <1>1, <2>1, FileParts DEF FilesTypeOK, Uploads, Moves, Busy, Here
<1>5. \A k \in Names : Unused(k) => \A v \in Workers : upload'[v].name # k
  BY <1>2, <1>3, FileOrNone DEF Unused
<1>6. OnlyLegacyPublic' /\ MoveAlone' /\ LegacyOwn' /\ ServedIsOwn'
  BY <1>1, <1>5, FileParts, FileOrNone
     DEF FilesInv, OnlyLegacyPublic, MoveAlone, LegacyOwn, ServedIsOwn, Served, Busy, Here, Unused
<1>7. UploadsOwn'
  <2> SUFFICES ASSUME NEW v \in Workers, upload'[v] # NoUpload
               PROVE  /\ private[upload'[v].name] # NoFile
                      /\ upload'[v].name \notin LegacyNames =>
                           /\ private[upload'[v].name] = Picture(upload'[v].order, upload'[v].written)
                           /\ \A x \in Workers : upload'[x].name = upload'[v].name => x = v
                           /\ \A p \in Orders : row[p] # upload'[v].name
    BY <1>1 DEF UploadsOwn
  <2>1. upload'[v] = upload[v] /\ upload[v] # NoUpload /\ upload[v].name \in Names
    BY <1>3, UploadParts
  <2>2. \A x \in Workers : upload'[x].name = upload[v].name => upload[x].name = upload[v].name
    BY <1>2, <1>3, <2>1, FileOrNone
  <2> QED
    BY <2>1, <2>2 DEF FilesInv, UploadsOwn
<1> QED
  BY <1>4, <1>6, <1>7 DEF FilesInv

\* The command looks at a file, or starts or stops.
LEMMA LookStep ==
  ASSUME FilesTypeOK, FilesInv,
         \/ \E o \in Orders : Skip(o) \/ Missing(o) \/ Found(o)
         \/ StartRelocation \/ EndRelocation \/ Interrupt
  PROVE  FilesTypeOK' /\ FilesInv'
<1>0. NotMoving \in Moves /\ NotMoving.step = "off"
  BY DEF NotMoving, Moves
<1>1. ASSUME NEW o \in Orders, Skip(o) \/ Missing(o) PROVE FilesTypeOK' /\ FilesInv'
  <2>1. /\ move' = [move EXCEPT !.names[o] = NoName, !.at = NoOrder, !.step = "look"]
        /\ UNCHANGED <<row, private, public, upload, sameDisk, uploads, contested>>
    BY <1>1 DEF Skip, Missing, Visited
  <2>2. move' \in Moves /\ move'.step = "look"
    BY <2>1, FileParts DEF Moves
  <2> QED
    BY <2>1, <2>2, OnlyMoves DEF Busy
<1>2. ASSUME NEW o \in Orders, Found(o) PROVE FilesTypeOK' /\ FilesInv'
  <2>1. /\ move' = [move EXCEPT !.at = o, !.step = "move"]
        /\ UNCHANGED <<row, private, public, upload, sameDisk, uploads, contested>>
        /\ move.names[o] # NoName /\ private[move.names[o]] = NoFile /\ public[move.names[o]] # NoFile
    BY <1>2 DEF Found, Looking, TargetExists
  <2>2. /\ move' \in Moves /\ move'.step = "move" /\ move'.at = o /\ move'.names = move.names
        /\ move.names[o] \in Names
    BY <2>1, FileParts DEF Moves
  <2>3. Unused(move.names[o])
    BY <2>1, <2>2, FreeName
  <2>4. MoveAlone'
    BY <2>1, <2>2, <2>3 DEF MoveAlone, Busy, Here, Unused
  <2>5. (move.at \in Orders /\ Here \in Names)'
    BY <2>2 DEF Here
  <2> QED
    BY <2>1, <2>2, <2>4, <2>5, OnlyMoves
<1>3. ASSUME StartRelocation PROVE FilesTypeOK' /\ FilesInv'
  <2>1. /\ move' = [NotMoving EXCEPT !.names = row, !.step = "look"]
        /\ UNCHANGED <<row, private, public, upload, sameDisk, uploads, contested>>
    BY <1>3 DEF StartRelocation
  <2> HIDE DEF NotMoving
  <2>2. move' \in Moves /\ move'.step = "look"
    BY <1>0, <2>1, FileParts DEF Moves
  <2> QED
    BY <2>1, <2>2, OnlyMoves DEF Busy
<1>4. ASSUME EndRelocation \/ Interrupt PROVE FilesTypeOK' /\ FilesInv'
  <2>1. /\ move' = NotMoving
        /\ UNCHANGED <<row, private, public, upload, sameDisk, uploads, contested>>
    BY <1>4 DEF EndRelocation, Interrupt
  <2> QED
    BY <1>0, <2>1, OnlyMoves DEF Busy
<1> QED
  BY <1>1, <1>2, <1>3, <1>4

\* What a step of the move does where it works, at a legacy name, leaves the
\* files of other names and everybody's own names as they are.
LEMMA MoveStep ==
  ASSUME FilesTypeOK, FilesInv, Busy, NEW p \in Pictures, NEW q \in Files,
         private' = [private EXCEPT ![Here] = p], public' = [public EXCEPT ![Here] = q],
         UNCHANGED <<row, upload, sameDisk, uploads, contested>>,
         move' \in Moves, MoveAlone', Busy' => (move.at \in Orders /\ Here \in Names)',
         q = public[Here] \/ q = NoFile,
         \A o \in Legacy : LegacyName[o] = Here /\ q = NoFile /\ Here \notin contested => p = Picture(o, TRUE)
  PROVE  FilesTypeOK' /\ FilesInv'
<1> DEFINE n == Here
<1>1. n \in LegacyNames /\ n \in Names /\ public[n] # NoFile
  BY MovedIsLegacy, FileOrNone DEF FilesInv, MoveAlone
<1>2. p # NoFile
  BY FileOrNone
<1>3. n \notin contested => Unused(n)
  BY DEF FilesInv, MoveAlone
<1> HIDE DEF n
<1>4. /\ \A k \in Names : private'[k] = IF k = n THEN p ELSE private[k]
      /\ \A k \in Names : public'[k] = IF k = n THEN q ELSE public[k]
  BY FileParts DEF n
<1>5. FilesTypeOK'
  <2>1. private' \in [Names -> Files] /\ public' \in [Names -> Files]
    BY FileParts, FileOrNone
  <2> QED
    BY <2>1, FileParts DEF FilesTypeOK, Uploads, Moves, Busy, Here
<1>6. OnlyLegacyPublic'
  BY <1>1, <1>4 DEF FilesInv, OnlyLegacyPublic
<1>7. UploadsOwn'
  <2> SUFFICES ASSUME NEW v \in Workers, upload[v] # NoUpload
               PROVE  /\ private'[upload[v].name] # NoFile
                      /\ upload[v].name \notin LegacyNames =>
                           /\ private'[upload[v].name] = Picture(upload[v].order, upload[v].written)
                           /\ \A x \in Workers : upload[x].name = upload[v].name => x = v
                           /\ \A o \in Orders : row[o] # upload[v].name
    BY DEF UploadsOwn
  <2>1. upload[v].name \in Names
    BY UploadParts
  <2> QED
    BY <1>1, <1>2, <1>4, <2>1 DEF FilesInv, UploadsOwn
<1>8. LegacyOwn'
  <2> SUFFICES ASSUME NEW o \in Legacy
               PROVE  /\ public'[LegacyName[o]] \in {Picture(o, TRUE), NoFile}
                      /\ public'[LegacyName[o]] = NoFile /\ LegacyName[o] \notin contested =>
                           private'[LegacyName[o]] = Picture(o, TRUE) /\ Unused(LegacyName[o])
    BY DEF LegacyOwn, Unused
  <2>1. LegacyName[o] \in Names
    BY FileOrNone
  <2>2. CASE LegacyName[o] # n
    BY <1>4, <2>1, <2>2 DEF FilesInv, LegacyOwn
  <2>3. CASE LegacyName[o] = n
    <3>1. public[n] = Picture(o, TRUE)
      BY <1>1, <2>3 DEF FilesInv, LegacyOwn
    <3>2. q = NoFile /\ n \notin contested => p = Picture(o, TRUE)
      BY <2>3 DEF n
    <3>3. q = Picture(o, TRUE) \/ q = NoFile
      BY <3>1 DEF n
    <3> QED
      BY <1>3, <1>4, <2>1, <2>3, <3>1, <3>2, <3>3
  <2> QED
    BY <2>2, <2>3
<1>9. ServedIsOwn'
  <2> SUFFICES ASSUME NEW o \in Orders, row[o] \notin LegacyNames \cup {NoName}
               PROVE  private'[row[o]] = Picture(o, TRUE)
    BY DEF ServedIsOwn, Served
  <2>1. row[o] \in Names /\ private[row[o]] = Picture(o, TRUE)
    BY FileParts DEF FilesInv, ServedIsOwn, Served
  <2> QED
    BY <1>1, <1>4, <2>1
<1> QED
  BY <1>5, <1>6, <1>7, <1>8, <1>9 DEF FilesInv
\* A rename, or the copy and the removal, of the file of o.
LEMMA RelocateStep ==
  ASSUME FilesTypeOK, FilesInv, NEW o \in Orders,
         Rename(o) \/ StartCopy(o) \/ FinishCopy(o) \/ Unlink(o)
  PROVE  FilesTypeOK' /\ FilesInv'
<1>1. /\ Busy /\ move.at = o /\ move.names[o] = Here
      /\ UNCHANGED <<row, upload, sameDisk, uploads, contested>>
  BY DEF Rename, StartCopy, FinishCopy, Unlink, Busy, Here
<1>2. /\ Here \in Names /\ public[Here] \in Pictures /\ public[Here] \in Files
      /\ private[Here] \in Files /\ (move.step # "move" => private[Here] \in Pictures)
  BY <1>1, FileParts, MovedIsLegacy, FileOrNone DEF FilesInv, MoveAlone
<1>3. \A p \in Legacy : LegacyName[p] = Here =>
        public[Here] = Picture(p, TRUE) /\ public[Here].order = p
  BY <1>1, MovedIsLegacy, PictureTyped, FileOrNone
<1>4. NoFile \in Files
  BY FileOrNone
<1>5. Visited(o) \in Moves /\ Visited(o).step = "look"
  BY <1>1, FileParts DEF Visited, Moves
<1>6. \A step \in {"copy", "unlink"} :
        LET m == [move EXCEPT !.step = step]
        IN m \in Moves /\ m.step = step /\ m.at = move.at /\ m.names = move.names
  BY FileParts DEF Moves
<1>7. Here \notin contested => Unused(Here)
  BY <1>1 DEF FilesInv, MoveAlone
<1>8. CASE Rename(o)
  <2>1. /\ private' = [private EXCEPT ![Here] = public[Here]]
        /\ public' = [public EXCEPT ![Here] = NoFile] /\ move' = Visited(o)
    BY <1>1, <1>8 DEF Rename
  <2>2. ~Busy'
    BY <1>5, <2>1 DEF Busy
  <2>3. MoveAlone'
    BY <2>2 DEF MoveAlone
  <2> QED
    BY <1>1, <1>2, <1>3, <1>4, <1>5, <2>1, <2>2, <2>3, MoveStep
<1>9. CASE StartCopy(o)
  <2> DEFINE p == Picture(public[Here].order, FALSE)
  <2>1. /\ private' = [private EXCEPT ![Here] = p]
        /\ public' = public /\ move' = [move EXCEPT !.step = "copy"]
    BY <1>1, <1>2, <1>9, PictureWritten DEF StartCopy
  <2>2. p \in Pictures /\ p # NoFile
    BY <1>2, PictureParts, PictureTyped
  <2>3. move' \in Moves /\ move'.step = "copy" /\ move'.at = move.at /\ move'.names = move.names
    BY <1>6, <2>1
  <2>4. private'[Here] = p
    BY <1>2, <2>1, FileParts
  <2>5. MoveAlone'
    <3>1. Here' = Here
      BY <2>3 DEF Here
    <3>2. Here \notin contested => \A v \in Workers : upload'[v].name # Here
      BY <1>1, <1>7 DEF Unused
    <3>3. \A q \in Legacy : LegacyName[q] = Here => p = Picture(q, FALSE)
      BY <1>3
    <3> HIDE DEF p
    <3> QED
      BY <1>1, <1>2, <2>1, <2>2, <2>3, <2>4, <3>1, <3>2, <3>3, FileOrNone DEF MoveAlone, Unused
  <2>6. public' = [public EXCEPT ![Here] = public[Here]]
    BY <1>2, <2>1, FileParts
  <2>7. Busy' => (move.at \in Orders /\ Here \in Names)'
    BY <1>1, <1>2, <2>3 DEF Here
  <2> HIDE DEF p
  <2> QED
    BY <1>1, <1>2, <2>1, <2>2, <2>3, <2>5, <2>6, <2>7, MoveStep, FileOrNone
<1>10. CASE FinishCopy(o)
  <2>1. PICK whole \in BOOLEAN :
          /\ Here \notin contested => whole
          /\ private' = [private EXCEPT ![Here].whole = whole]
    BY <1>1, <1>10 DEF FinishCopy
  <2> DEFINE p == Picture(private[Here].order, whole)
  <2>2. /\ public' = public /\ move' = [move EXCEPT !.step = "unlink"] /\ move.step = "copy"
    BY <1>10 DEF FinishCopy
  <2>3. private' = [private EXCEPT ![Here] = p]
    <3>1. [private[Here] EXCEPT !.whole = whole] = p
      BY <1>2, <2>2, PictureWritten
    <3> QED
      BY <2>1, <3>1
  <2>4. p \in Pictures /\ p # NoFile
    BY <1>2, <2>2, PictureParts, PictureTyped
  <2>5. move' \in Moves /\ move'.step = "unlink" /\ move'.at = move.at /\ move'.names = move.names
    BY <1>6, <2>2
  <2>6. private'[Here] = p
    BY <1>2, <2>3, FileParts
  <2>7. \A q \in Legacy : LegacyName[q] = Here /\ Here \notin contested => p = Picture(q, TRUE)
    <3> SUFFICES ASSUME NEW q \in Legacy, LegacyName[q] = Here, Here \notin contested
                 PROVE  p = Picture(q, TRUE)
      OBVIOUS
    <3>1. private[Here] = Picture(q, FALSE)
      BY <1>1, <2>2 DEF FilesInv, MoveAlone
    <3>2. private[Here].order = q
      BY <3>1, PictureTyped, FileOrNone
    <3> QED
      BY <2>1, <3>2
  <2> HIDE DEF p
  <2>8. MoveAlone'
    <3>1. Here' = Here
      BY <2>5 DEF Here
    <3>2. Here \notin contested => \A v \in Workers : upload'[v].name # Here
      BY <1>1, <1>7 DEF Unused
    <3> QED
      BY <1>1, <1>2, <2>2, <2>4, <2>5, <2>6, <2>7, <3>1, <3>2, FileOrNone DEF MoveAlone, Unused
  <2>9. public' = [public EXCEPT ![Here] = public[Here]]
    BY <1>2, <2>2, FileParts
  <2>10. Busy' => (move.at \in Orders /\ Here \in Names)'
    BY <1>1, <1>2, <2>5 DEF Here
  <2> QED
    BY <1>1, <1>2, <2>3, <2>4, <2>5, <2>8, <2>9, <2>10, MoveStep, FileOrNone
<1>11. CASE Unlink(o)
  <2>1. /\ private' = private /\ public' = [public EXCEPT ![Here] = NoFile]
        /\ move' = Visited(o) /\ move.step = "unlink"
    BY <1>1, <1>11 DEF Unlink
  <2>2. ~Busy'
    BY <1>5, <2>1 DEF Busy
  <2>3. MoveAlone'
    BY <2>2 DEF MoveAlone
  <2>4. private' = [private EXCEPT ![Here] = private[Here]] /\ private[Here] \in Pictures
    BY <1>2, <2>1, FileParts
  <2>5. \A p \in Legacy : LegacyName[p] = Here /\ Here \notin contested => private[Here] = Picture(p, TRUE)
    BY <1>1, <2>1 DEF FilesInv, MoveAlone
  <2> QED
    BY <1>1, <1>4, <1>5, <2>1, <2>2, <2>3, <2>4, <2>5, MoveStep
<1> QED
  BY <1>8, <1>9, <1>10, <1>11

\* No picture is shown under another order, and what that rests on.
LEMMA FilesInvariance == FilesSpec => [](FilesTypeOK /\ FilesInv)
<1>1. FilesInit => FilesTypeOK /\ FilesInv
  <2> SUFFICES ASSUME FilesInit PROVE FilesTypeOK /\ FilesInv
    OBVIOUS
  <2>1. \A p \in Legacy : (CHOOSE o \in Legacy : LegacyName[o] = LegacyName[p]) = p
    BY ScreenshotsAssumption
  <2>2. \A n \in Names : /\ n \notin LegacyNames => public[n] = NoFile
                         /\ private[n] = NoFile
    BY DEF FilesInit
  <2>3. \A p \in Legacy : public[LegacyName[p]] = Picture(p, TRUE)
    BY <2>1, FileOrNone DEF FilesInit
  <2>4. public \in [Names -> Files]
    <3>1. \A n \in LegacyNames : (CHOOSE o \in Legacy : LegacyName[o] = n) \in Orders
      BY FileOrNone
    <3>2. \A o \in Orders : Picture(o, TRUE) \in Files
      BY PictureTyped, FileOrNone
    <3>3. \A n \in LegacyNames : Picture(CHOOSE o \in Legacy : LegacyName[o] = n, TRUE) \in Files
      BY <3>1, <3>2
    <3> QED
      BY <3>3, FileOrNone DEF FilesInit
  <2>5. NotMoving \in Moves /\ NotMoving.step = "off"
    BY DEF NotMoving, Moves
  <2>6. /\ row \in [Orders -> Names \cup {NoName}] /\ \A o \in Orders : row[o] \in LegacyNames \cup {NoName}
        /\ private \in [Names -> Files] /\ upload \in [Workers -> Uploads \cup {NoUpload}]
        /\ \A w \in Workers : upload[w] = NoUpload
        /\ sameDisk \in BOOLEAN /\ uploads \in Nat /\ contested = {} /\ move = NotMoving
    BY FileOrNone DEF FilesInit
  <2>7. FilesTypeOK
    BY <2>4, <2>5, <2>6, FilesTyped DEF Busy
  <2>8. OnlyLegacyPublic /\ MoveAlone /\ UploadsOwn /\ ServedIsOwn
    BY <2>2, <2>5, <2>6 DEF OnlyLegacyPublic, MoveAlone, Busy, UploadsOwn, ServedIsOwn
  <2>9. LegacyOwn
    <3>1. \A p \in Legacy : Picture(p, TRUE) # NoFile
      BY PictureTyped, FileOrNone
    <3> QED
      BY <2>3, <3>1 DEF LegacyOwn
  <2> QED
    BY <2>7, <2>8, <2>9 DEF FilesInv
<1>2. FilesTypeOK /\ FilesInv /\ [FilesNext]_fileVars => (FilesTypeOK /\ FilesInv)'
  <2> SUFFICES ASSUME FilesTypeOK, FilesInv, [FilesNext]_fileVars PROVE FilesTypeOK' /\ FilesInv'
    OBVIOUS
  <2>1. CASE UNCHANGED fileVars
    BY <2>1 DEF fileVars, FilesTypeOK, FilesInv, OnlyLegacyPublic, MoveAlone, UploadsOwn, LegacyOwn,
                ServedIsOwn, Served, Busy, Here, Unused
  <2>2. CASE \E w \in Workers : (\E o \in Orders, n \in Requested : StoreFile(w, o, n))
                                \/ FinishFile(w) \/ Record(w) \/ LoseUpload(w)
    BY <2>2, StoreStep, FinishStep, RecordStep, LoseStep
  <2>3. CASE \/ \E o \in Orders : Skip(o) \/ Missing(o) \/ Found(o)
             \/ StartRelocation \/ EndRelocation \/ Interrupt
    BY <2>3, LookStep
  <2>4. CASE \E o \in Orders : Rename(o) \/ StartCopy(o) \/ FinishCopy(o) \/ Unlink(o)
    BY <2>4, RelocateStep
  <2> QED
    BY <2>1, <2>2, <2>3, <2>4 DEF FilesNext
<1> QED
  BY <1>1, <1>2, PTL DEF FilesSpec

\* The two roots, the rows, the uploads and the relocation keep their types: in
\* particular nothing is written to a file that is not there.
THEOREM FileTypes == FilesSpec => []FilesTypeOK
  BY FilesInvariance, PTL

\* Whatever uploads, deaths and relocations overlap, an order whose file does
\* not have a legacy name is shown its own picture, complete (views.py:789, :837).
THEOREM ServedOwn == FilesSpec => []ServedIsOwn
  BY FilesInvariance, PTL DEF FilesInv

\* A legacy picture is complete in one of the two roots at every moment, unless
\* an upload took the target's name between the look and the move
\* (relocate_payment_screenshots.py:47, :55).
THEOREM LegacyStays == FilesSpec => []LegacyKept
<1>1. FilesTypeOK /\ FilesInv => LegacyKept
  BY FileOrNone DEF FilesInv, LegacyOwn, LegacyKept
<1> QED
  BY <1>1, FilesInvariance, PTL

-----------------------------------------------------------------------------
(* Seller profiles.  Keys are handed out once: a profile, a pending one and *)
(* a deletion that share a key belong to the same user, whatever the jobs   *)
(* have looked up before.                                                   *)

SellerJobs == [task : {"none", "dashboard", "api", "delete"},
               step : {"look", "make", "add", "delete", "commit"},
               user : Users \cup {NoUser}, key : Nat, pending : BOOLEAN]
Profiles == [key : Nat, via : {"nothing", "registration", "api", "dashboard"}]

Deletes(w) == job[w].step \in {"delete", "commit"}
Commits(w) == job[w].step = "commit"
Issued(k) == 0 < k /\ k < nextKey

KeysOnce ==
  /\ nextKey > 0
  /\ \A u \in Users : /\ profile[u].key < nextKey
                      /\ profile[u].key = 0 => profile[u] = NoProfile
                      /\ \A v \in Users : profile[u].key = profile[v].key => u = v \/ profile[u].key = 0

\* A profile that is inserted but not committed is its job's alone.
PendingApart ==
  \A w \in Handlers : job[w].pending =>
    /\ job[w].step = "add" /\ job[w].user \in Users /\ Issued(job[w].key)
    /\ profile[job[w].user] = NoProfile
    /\ \A u \in Users : profile[u].key # job[w].key
    /\ \A v \in Handlers : /\ job[v].pending => v = w \/ (job[v].key # job[w].key /\ job[v].user # job[w].user)
                           /\ Deletes(v) => job[v].key # job[w].key

\* A deletion has the key its user's profile has or had, and the one that is
\* about to commit has the row.
DeletesOwn ==
  \A w \in Handlers : Deletes(w) =>
    /\ job[w].task = "delete" /\ job[w].user \in Users /\ Issued(job[w].key)
    /\ \A u \in Users : profile[u].key = job[w].key => u = job[w].user
    /\ Commits(w) => /\ profile[job[w].user].key = job[w].key
                     /\ \A v \in Handlers : Commits(v) => v = w \/ job[v].key # job[w].key

MakesOwn == \A w \in Handlers : job[w].step = "make" => job[w].user \in Users /\ ~job[w].pending

\* A job of any task, step, user and profile is typed.
LEMMA SellerJobTyped ==
  ASSUME NEW t \in {"none", "dashboard", "api", "delete"},
         NEW s \in {"look", "make", "add", "delete", "commit"},
         NEW u \in Users \cup {NoUser}, NEW k \in Nat, NEW p \in BOOLEAN
  PROVE  [task |-> t, step |-> s, user |-> u, key |-> k, pending |-> p] \in SellerJobs
  BY DEF SellerJobs

\* Having no job is typed.
LEMMA NoJobTyped == NoJob \in SellerJobs
  BY SellerJobTyped DEF NoJob, SellerJobs

\* A deletion that has just begun is typed.
LEMMA DeleteTyped ==
  ASSUME NEW u \in Users, NEW k \in Nat
  PROVE  [NoJob EXCEPT !.task = "delete", !.step = "delete", !.user = u, !.key = k] \in SellerJobs
<1> HIDE DEF NoJob
<1> QED
  BY NoJobTyped DEF SellerJobs

\* What MakeProfile leaves of a job.
MadeJob(w, k, p) == [job[w] EXCEPT !.step = "add", !.key = k, !.pending = p]

\* A job that has made its profile is typed.
LEMMA MadeTyped ==
  ASSUME job \in [Handlers -> SellerJobs], NEW w \in Handlers, NEW k \in Nat, NEW p \in BOOLEAN
  PROVE  /\ MadeJob(w, k, p) \in SellerJobs
         /\ [job EXCEPT ![w].step = "add", ![w].key = k, ![w].pending = p]
              = [job EXCEPT ![w] = MadeJob(w, k, p)]
<1> DEFINE j == job[w]
<1>1. j \in SellerJobs
  OBVIOUS
<1>2. [j EXCEPT !.step = "add", !.key = k, !.pending = p] \in SellerJobs
  <2> HIDE DEF j
  <2> QED
    BY <1>1 DEF SellerJobs
<1>3. [job EXCEPT ![w].step = "add", ![w].key = k, ![w].pending = p]
        = [job EXCEPT ![w] = [j EXCEPT !.step = "add", !.key = k, !.pending = p]]
  OBVIOUS
<1> QED
  BY <1>2, <1>3 DEF MadeJob

\* A job put in place of another keeps the jobs typed.
LEMMA OneSellerJob ==
  ASSUME job \in [Handlers -> SellerJobs], NEW w \in Handlers, NEW j \in SellerJobs
  PROVE  [job EXCEPT ![w] = j] \in [Handlers -> SellerJobs]
  OBVIOUS

\* Where there are profiles one of them is the oldest.
LEMMA OldestIsThere ==
  ASSUME ProfileKeys \subseteq Nat, ProfileKeys # {}
  PROVE  Oldest \in ProfileKeys
  BY LeastNatural DEF Oldest

\* The profile a product goes under is a key, or 0 where there is none.
LEMMA ChosenTyped ==
  ASSUME SellersTypeOK, NEW u \in Users
  PROVE  Chosen(u) \in Nat
<1>1. ProfileKeys \subseteq Nat /\ profile[u].key \in Nat
  BY DEF ProfileKeys, SellersTypeOK
<1> QED
  BY <1>1, OldestIsThere DEF Chosen

\* A profile put in place of another keeps the profiles typed.
LEMMA OneProfile ==
  ASSUME profile \in [Users -> Profiles], NEW u \in Users, NEW k \in Nat,
         NEW via \in {"nothing", "registration", "api", "dashboard"}
  PROVE  [profile EXCEPT ![u] = [key |-> k, via |-> via]] \in [Users -> Profiles]
<1>1. [key |-> k, via |-> via] \in Profiles
  BY DEF Profiles
<1> QED
  BY <1>1

\* Every step keeps the types.
LEMMA SellersStep == SellersTypeOK /\ [SellersNext]_sellerVars => SellersTypeOK'
<1> SUFFICES ASSUME SellersTypeOK, [SellersNext]_sellerVars PROVE SellersTypeOK'
  OBVIOUS
<1> USE SellersAssumption
<1>0. /\ account \in [Applicants -> {"none", "saved", "seller"}] /\ approved \subseteq Applicants
      /\ profile \in [Users -> Profiles] /\ products \subseteq Nat
      /\ job \in [Handlers -> SellerJobs] /\ nextKey \in Nat
  BY DEF SellersTypeOK, Profiles, SellerJobs
<1> SUFFICES /\ account' \in [Applicants -> {"none", "saved", "seller"}] /\ approved' \subseteq Applicants
             /\ profile' \in [Users -> Profiles] /\ products' \subseteq Nat
             /\ job' \in [Handlers -> SellerJobs] /\ nextKey' \in Nat
  BY DEF SellersTypeOK, Profiles, SellerJobs
<1>d. ASSUME NEW w \in Handlers, Drop(w) PROVE job' \in [Handlers -> SellerJobs]
  BY <1>0, <1>d, NoJobTyped, OneSellerJob DEF Drop
<1>p. ASSUME NEW u \in Users, NEW via \in {"registration", "api"}, NewProfile(u, via)
      PROVE  profile' \in [Users -> Profiles] /\ nextKey' \in Nat
  <2>1. [profile EXCEPT ![u] = [key |-> nextKey, via |-> via]] \in [Users -> Profiles]
    BY <1>0, OneProfile
  <2> QED
    BY <1>0, <1>p, <2>1 DEF NewProfile
<1>j. ASSUME NEW w \in Handlers, NEW t \in {"none", "dashboard", "api", "delete"},
             NEW s \in {"look", "make", "add", "delete", "commit"},
             NEW u \in Users \cup {NoUser}, NEW k \in Nat, NEW p \in BOOLEAN,
             job' = [job EXCEPT ![w] = [task |-> t, step |-> s, user |-> u, key |-> k, pending |-> p]]
      PROVE  job' \in [Handlers -> SellerJobs]
  BY <1>0, <1>j, SellerJobTyped, OneSellerJob
<1>1. ASSUME NEW u \in Applicants, Register(u) \/ FinishRegistration(u) \/ SetApproval(u)
      PROVE  /\ account' \in [Applicants -> {"none", "saved", "seller"}] /\ approved' \subseteq Applicants
             /\ profile' \in [Users -> Profiles] /\ nextKey' \in Nat /\ UNCHANGED <<products, job>>
  <2>1. CASE Register(u)
    BY <1>0, <2>1 DEF Register
  <2>2. CASE FinishRegistration(u)
    <3>1. u \in Users
      BY DEF Users
    <3>2. profile' \in [Users -> Profiles] /\ nextKey' \in Nat
      BY <1>0, <1>p, <2>2, <3>1 DEF FinishRegistration
    <3> QED
      BY <1>0, <2>2, <3>2 DEF FinishRegistration
  <2>3. CASE SetApproval(u)
    BY <1>0, <2>3 DEF SetApproval
  <2> QED
    BY <1>1, <2>1, <2>2, <2>3
<1>2. ASSUME NEW u \in Staff, CreateOwn(u)
      PROVE  /\ profile' \in [Users -> Profiles] /\ nextKey' \in Nat
             /\ UNCHANGED <<account, approved, products, job>>
  <2>1. u \in Users
    BY DEF Users
  <2> QED
    BY <1>p, <1>2, <2>1 DEF CreateOwn
<1>3. ASSUME NEW w \in Handlers, NEW u \in Users, NEW task \in {"dashboard", "api"}, StartAdd(w, u, task)
      PROVE  job' \in [Handlers -> SellerJobs] /\ UNCHANGED <<account, approved, profile, products, nextKey>>
  <2>1. Chosen(u) \in Nat
    BY ChosenTyped
  <2> QED
    BY <1>j, <1>3, <2>1 DEF StartAdd
<1>4. ASSUME NEW w \in Handlers, NEW u \in Users, StartDelete(w, u)
      PROVE  job' \in [Handlers -> SellerJobs] /\ UNCHANGED <<account, approved, profile, products, nextKey>>
  <2>1. profile[u].key \in Nat
    BY <1>0 DEF Profiles
  <2>2. job' \in [Handlers -> SellerJobs]
    BY <1>0, <1>4, <2>1, DeleteTyped, OneSellerJob DEF StartDelete
  <2> QED
    BY <1>4, <2>2 DEF StartDelete
<1>5. ASSUME NEW w \in Handlers, MakeProfile(w)
      PROVE  /\ job' \in [Handlers -> SellerJobs] /\ nextKey' \in Nat
             /\ profile' \in [Users -> Profiles] /\ UNCHANGED <<account, approved, products>>
  <2>1. job' \in [Handlers -> SellerJobs]
    <3> DEFINE p == job[w].task # "api"
    <3>1. job' = [job EXCEPT ![w].step = "add", ![w].key = nextKey, ![w].pending = p]
      BY <1>5 DEF MakeProfile
    <3>2. p \in BOOLEAN
      OBVIOUS
    <3> HIDE DEF p
    <3>3. job' = [job EXCEPT ![w] = MadeJob(w, nextKey, p)] /\ MadeJob(w, nextKey, p) \in SellerJobs
      BY <1>0, <3>1, <3>2, MadeTyped
    <3> QED
      BY <1>0, <3>3, OneSellerJob
  <2>2. profile' \in [Users -> Profiles] /\ nextKey' \in Nat
    BY <1>0, <1>5, OneProfile DEF MakeProfile, NewProfile, Profiles
  <2> QED
    BY <1>5, <2>1, <2>2 DEF MakeProfile
<1>6. ASSUME NEW w \in Handlers, AddProduct(w)
      PROVE  /\ job' \in [Handlers -> SellerJobs] /\ products' \subseteq Nat
             /\ profile' \in [Users -> Profiles] /\ UNCHANGED <<account, approved, nextKey>>
  <2>1. job[w].key \in Nat
    BY <1>0 DEF SellerJobs
  <2>2. profile' \in [Users -> Profiles]
    BY <1>0, <1>6, <2>1 DEF AddProduct, Profiles
  <2> QED
    BY <1>0, <1>d, <1>6, <2>1, <2>2 DEF AddProduct
<1>7. ASSUME NEW w \in Handlers, MakeTwice(w) \/ SellerGone(w) \/ Crash(w)
      PROVE  job' \in [Handlers -> SellerJobs] /\ UNCHANGED <<account, approved, profile, products, nextKey>>
  BY <1>d, <1>7 DEF MakeTwice, SellerGone, Crash
<1>8. ASSUME NEW w \in Handlers, DeleteRow(w)
      PROVE  job' \in [Handlers -> SellerJobs] /\ UNCHANGED <<account, approved, profile, products, nextKey>>
  <2>1. [job EXCEPT ![w].step = "commit"] \in [Handlers -> SellerJobs]
    BY <1>0 DEF SellerJobs
  <2> QED
    BY <1>d, <1>8, <2>1 DEF DeleteRow
<1>9. ASSUME NEW w \in Handlers, CommitDelete(w)
      PROVE  /\ job' \in [Handlers -> SellerJobs] /\ profile' \in [Users -> Profiles]
             /\ UNCHANGED <<account, approved, products, nextKey>>
  <2>1. NoProfile \in Profiles
    BY DEF NoProfile, Profiles
  <2>2. profile' \in [Users -> Profiles]
    BY <1>0, <1>9, <2>1 DEF CommitDelete
  <2> QED
    BY <1>d, <1>9, <2>2 DEF CommitDelete
<1>10. CASE UNCHANGED sellerVars
  BY <1>0, <1>10 DEF sellerVars
<1>11. CASE \E u \in Applicants : Register(u) \/ FinishRegistration(u) \/ SetApproval(u)
  BY <1>0, <1>1, <1>11
<1>12. CASE \E u \in Staff : CreateOwn(u)
  BY <1>0, <1>2, <1>12
<1>13. ASSUME NEW w \in Handlers, NEW u \in Users,
              (\E task \in {"dashboard", "api"} : StartAdd(w, u, task)) \/ StartDelete(w, u)
       PROVE  job' \in [Handlers -> SellerJobs] /\ UNCHANGED <<account, approved, profile, products, nextKey>>
  BY <1>3, <1>4, <1>13
<1>14. CASE \E w \in Handlers : \/ MakeProfile(w) \/ MakeTwice(w) \/ AddProduct(w) \/ SellerGone(w)
                                \/ DeleteRow(w) \/ CommitDelete(w) \/ Crash(w)
  BY <1>0, <1>5, <1>6, <1>7, <1>8, <1>9, <1>14
<1> QED
  BY <1>0, <1>10, <1>11, <1>12, <1>13, <1>14 DEF SellersNext
\* Accounts, profiles, products and jobs keep their types.
THEOREM SellerTypes == SellersSpec => []SellersTypeOK
<1>1. SellersInit => SellersTypeOK
  BY SellersAssumption DEF SellersInit, SellersTypeOK, NoProfile, NoJob, Users
<1> QED
  BY <1>1, SellersStep, PTL DEF SellersSpec

\* What the keys and jobs are compared by.
LEMMA SellerParts ==
  ASSUME SellersTypeOK
  PROVE  /\ profile \in [Users -> Profiles] /\ job \in [Handlers -> SellerJobs] /\ nextKey \in Nat
         /\ \A u \in Users : profile[u].key \in Nat
         /\ \A w \in Handlers : /\ job[w].key \in Nat /\ job[w].pending \in BOOLEAN
                                /\ job[w].user \in Users \cup {NoUser}
  BY DEF SellersTypeOK, Profiles, SellerJobs

KeysApart == KeysOnce /\ PendingApart /\ DeletesOwn /\ MakesOwn

\* A job of w that may come in place of another.
Fits(w, j) ==
  /\ ~j.pending
  /\ j.step = "make" => j.user \in Users
  /\ j.step \in {"delete", "commit"} =>
       /\ j.task = "delete" /\ j.user \in Users /\ Issued(j.key)
       /\ \A u \in Users : profile[u].key = j.key => u = j.user
       /\ \A v \in Handlers : job[v].pending => job[v].key # j.key
  /\ j.step = "commit" => /\ profile[j.user].key = j.key
                          /\ \A v \in Handlers : Commits(v) => v = w \/ job[v].key # j.key

\* A job that makes and deletes nothing new keeps the profiles' keys apart.
LEMMA JobReplaced ==
  ASSUME SellersTypeOK, KeysApart, NEW w \in Handlers, NEW j, Fits(w, j),
         job' = [job EXCEPT ![w] = j], profile' = profile, nextKey' = nextKey
  PROVE  KeysApart'
<1>0. \A v \in Handlers : job'[v] = IF v = w THEN j ELSE job[v]
  BY SellerParts
<1>1. KeysOnce'
  BY DEF KeysApart, KeysOnce
<1>2. PendingApart'
  BY <1>0 DEF KeysApart, PendingApart, Fits, Deletes, Issued
<1>3. DeletesOwn'
  BY <1>0 DEF KeysApart, DeletesOwn, Fits, Deletes, Commits, Issued
<1>4. MakesOwn'
  BY <1>0 DEF KeysApart, MakesOwn, Fits
<1> QED
  BY <1>1, <1>2, <1>3, <1>4 DEF KeysApart

\* A job that stays, or goes on without a key of its own.
Quiet(v) == job'[v] = job[v] \/ (~job'[v].pending /\ job'[v].step \in {"look", "add"})

\* A new key is given to a user without a profile, committed or not.
LEMMA ProfileInserted ==
  ASSUME SellersTypeOK, KeysApart, NEW u \in Users, profile[u] = NoProfile, ~Inserting(u),
         NEW via, NewProfile(u, via), \A v \in Handlers : Quiet(v)
  PROVE  KeysApart'
<1>0. /\ nextKey \in Nat /\ nextKey' = nextKey + 1
      /\ \A t \in Users : profile'[t] = IF t = u THEN [key |-> nextKey, via |-> via] ELSE profile[t]
      /\ \A t \in Users : profile[t].key \in Nat /\ \A v \in Handlers : job[v].key \in Nat
  BY SellerParts DEF NewProfile
<1>1. KeysOnce'
  BY <1>0 DEF KeysApart, KeysOnce
<1>2. \A v \in Handlers : job[v].pending => job[v].user # u
  BY DEF Inserting
<1>3. PendingApart'
  BY <1>0, <1>2 DEF KeysApart, PendingApart, Deletes, Issued, Quiet
<1>4. DeletesOwn'
  BY <1>0 DEF KeysApart, DeletesOwn, Deletes, Commits, Issued, Quiet, NoProfile
<1>5. MakesOwn'
  BY DEF KeysApart, MakesOwn, Quiet
<1> QED
  BY <1>1, <1>3, <1>4, <1>5 DEF KeysApart
\* The dashboard's insertion: the key is out, the row is not.
LEMMA ProfilePending ==
  ASSUME SellersTypeOK, KeysApart, NEW w \in Handlers, MakeProfile(w), job[w].task # "api"
  PROVE  KeysApart'
<1> DEFINE j == MadeJob(w, nextKey, TRUE)
<1>0. /\ profile' = profile /\ nextKey' = nextKey + 1 /\ nextKey \in Nat
      /\ ~Inserting(job[w].user) /\ profile[job[w].user] = NoProfile /\ job[w].step = "make"
      /\ \A t \in Users : profile[t].key \in Nat /\ \A v \in Handlers : job[v].key \in Nat
  BY SellerParts DEF MakeProfile
<1>1. job' = [job EXCEPT ![w].step = "add", ![w].key = nextKey, ![w].pending = TRUE]
  BY DEF MakeProfile
<1>2. job' = [job EXCEPT ![w] = j] /\ j \in SellerJobs
  BY <1>0, <1>1, SellerParts, MadeTyped
<1>3. /\ j.step = "add" /\ j.user = job[w].user /\ j.key = nextKey /\ j.pending
      /\ j.user \in Users
  <2>1. job[w] \in SellerJobs
    BY SellerParts
  <2> QED
    BY <1>0, <2>1 DEF MadeJob, SellerJobs, KeysApart, MakesOwn
<1> HIDE DEF j
<1>4. \A v \in Handlers : job'[v] = IF v = w THEN j ELSE job[v]
  BY <1>2, SellerParts
<1>5. KeysOnce'
  BY <1>0 DEF KeysApart, KeysOnce
<1>6. \A v \in Handlers : job[v].pending => job[v].user # j.user
  BY <1>0, <1>3 DEF Inserting
<1>7. PendingApart'
  BY <1>0, <1>3, <1>4, <1>6 DEF KeysApart, KeysOnce, PendingApart, DeletesOwn, Deletes, Issued
<1>8. DeletesOwn'
  BY <1>0, <1>3, <1>4 DEF KeysApart, DeletesOwn, Deletes, Commits, Issued
<1>9. MakesOwn'
  BY <1>3, <1>4 DEF KeysApart, MakesOwn
<1> QED
  BY <1>5, <1>7, <1>8, <1>9 DEF KeysApart

\* The product's transaction commits, and with it a pending profile.
LEMMA ProfileCommitted ==
  ASSUME SellersTypeOK, KeysApart, NEW w \in Handlers, AddProduct(w)
  PROVE  KeysApart'
<1>0. /\ nextKey' = nextKey /\ nextKey \in Nat
      /\ \A v \in Handlers : job'[v] = IF v = w THEN NoJob ELSE job[v]
      /\ \A t \in Users : profile[t].key \in Nat /\ \A v \in Handlers : job[v].key \in Nat
  BY SellerParts DEF AddProduct, Drop
<1>1. CASE ~job[w].pending
  <2>1. profile' = profile /\ job' = [job EXCEPT ![w] = NoJob] /\ Fits(w, NoJob)
    BY <1>1 DEF AddProduct, Drop, Fits, NoJob
  <2> QED
    BY <1>0, <2>1, JobReplaced
<1>2. CASE job[w].pending
  <2> DEFINE u == job[w].user
             k == job[w].key
  <2>1. /\ u \in Users /\ Issued(k) /\ profile[u] = NoProfile /\ job[w].step = "add"
        /\ \A t \in Users : profile[t].key # k
        /\ \A v \in Handlers : /\ job[v].pending => v = w \/ (job[v].key # k /\ job[v].user # u)
                               /\ Deletes(v) => job[v].key # k
    BY <1>2 DEF KeysApart, PendingApart
  <2>2. profile' = [profile EXCEPT ![u] = [key |-> k, via |-> "dashboard"]]
    BY <1>2 DEF AddProduct
  <2>3. ~NoJob.pending /\ NoJob.step = "look"
    BY DEF NoJob
  <2> HIDE DEF u, k
  <2>4. \A t \in Users : profile'[t] = IF t = u THEN [key |-> k, via |-> "dashboard"] ELSE profile[t]
    BY <2>2, SellerParts
  <2>5. KeysOnce'
    BY <1>0, <2>1, <2>4 DEF KeysApart, KeysOnce, Issued
  <2>a. \A v \in Handlers : /\ job'[v].pending => v # w /\ job[v].pending /\ job'[v] = job[v]
                            /\ job'[v].step # "look" => v # w /\ job'[v] = job[v]
    BY <1>0, <2>3
  <2>6. PendingApart'
    <3> SUFFICES ASSUME NEW v \in Handlers, job'[v].pending
                 PROVE  /\ job'[v].step = "add" /\ job'[v].user \in Users
                        /\ 0 < job'[v].key /\ job'[v].key < nextKey'
                        /\ profile'[job'[v].user] = NoProfile
                        /\ \A t \in Users : profile'[t].key # job'[v].key
                        /\ \A x \in Handlers :
                             /\ job'[x].pending => x = v \/ (job'[x].key # job'[v].key /\ job'[x].user # job'[v].user)
                             /\ job'[x].step \in {"delete", "commit"} => job'[x].key # job'[v].key
      BY DEF PendingApart, Deletes, Issued
    <3>1. /\ job'[v] = job[v] /\ job[v].pending /\ job[v].key # k /\ job[v].user # u
      BY <2>1, <2>a
    <3>2. /\ job[v].step = "add" /\ job[v].user \in Users /\ Issued(job[v].key)
          /\ profile[job[v].user] = NoProfile
          /\ \A t \in Users : profile[t].key # job[v].key
          /\ \A x \in Handlers :
               /\ job[x].pending => x = v \/ (job[x].key # job[v].key /\ job[x].user # job[v].user)
               /\ job[x].step \in {"delete", "commit"} => job[x].key # job[v].key
      BY <3>1 DEF KeysApart, PendingApart, Deletes
    <3>3. profile'[job[v].user] = NoProfile /\ \A t \in Users : profile'[t].key # job[v].key
      BY <2>4, <3>1, <3>2
    <3> QED
      BY <1>0, <2>a, <3>1, <3>2, <3>3 DEF Issued
  <2>7. DeletesOwn'
    <3> SUFFICES ASSUME NEW v \in Handlers, job'[v].step \in {"delete", "commit"}
                 PROVE  /\ job'[v].task = "delete" /\ job'[v].user \in Users
                        /\ 0 < job'[v].key /\ job'[v].key < nextKey'
                        /\ \A t \in Users : profile'[t].key = job'[v].key => t = job'[v].user
                        /\ job'[v].step = "commit" =>
                             /\ profile'[job'[v].user].key = job'[v].key
                             /\ \A x \in Handlers : job'[x].step = "commit" => x = v \/ job'[x].key # job'[v].key
      BY DEF DeletesOwn, Deletes, Commits, Issued
    <3>1. job'[v] = job[v] /\ Deletes(v) /\ job[v].key # k
      BY <2>1, <2>a DEF Deletes
    <3>2. /\ job[v].task = "delete" /\ job[v].user \in Users /\ Issued(job[v].key)
          /\ \A t \in Users : profile[t].key = job[v].key => t = job[v].user
          /\ job[v].step = "commit" =>
               /\ profile[job[v].user].key = job[v].key
               /\ \A x \in Handlers : job[x].step = "commit" => x = v \/ job[x].key # job[v].key
      BY <3>1 DEF KeysApart, DeletesOwn, Commits
    <3>3. NoProfile.key = 0
      BY DEF NoProfile
    <3>4. job[v].step = "commit" => job[v].user # u
      BY <2>1, <3>2, <3>3 DEF Issued
    <3>5. \A t \in Users : profile'[t].key = job[v].key => t = job[v].user
      BY <2>4, <3>1, <3>2
    <3>6. job[v].step = "commit" => profile'[job[v].user].key = job[v].key
      BY <2>4, <3>2, <3>4
    <3> QED
      BY <1>0, <2>a, <3>1, <3>2, <3>5, <3>6 DEF Issued
  <2>8. MakesOwn'
    BY <1>0, <2>3 DEF KeysApart, MakesOwn
  <2> QED
    BY <2>5, <2>6, <2>7, <2>8 DEF KeysApart
<1> QED
  BY <1>1, <1>2

\* A deletion commits: its row goes, or stays if a product has come.
LEMMA ProfileDeleted ==
  ASSUME SellersTypeOK, KeysApart, NEW w \in Handlers, CommitDelete(w)
  PROVE  KeysApart'
<1> DEFINE u == job[w].user
           k == job[w].key
<1>0. /\ nextKey' = nextKey /\ nextKey \in Nat
      /\ \A v \in Handlers : job'[v] = IF v = w THEN NoJob ELSE job[v]
      /\ \A t \in Users : profile[t].key \in Nat /\ \A v \in Handlers : job[v].key \in Nat
  BY SellerParts DEF CommitDelete, Drop
<1>1. /\ u \in Users /\ Issued(k) /\ profile[u].key = k /\ Deletes(w)
      /\ \A t \in Users : profile[t].key = k => t = u
      /\ \A v \in Handlers : Commits(v) => v = w \/ job[v].key # k
  BY DEF CommitDelete, KeysApart, DeletesOwn, Deletes, Commits
<1>2. profile' = profile \/ profile' = [profile EXCEPT ![u] = NoProfile]
  BY DEF CommitDelete
<1>3. ~NoJob.pending /\ NoJob.step = "look" /\ NoProfile.key = 0
  BY DEF NoJob, NoProfile
<1> HIDE DEF u, k
<1>4. \A t \in Users : profile'[t] = profile[t] \/ (t = u /\ profile'[t] = NoProfile)
  BY <1>2, SellerParts
<1>5. KeysOnce'
  BY <1>0, <1>1, <1>3, <1>4 DEF KeysApart, KeysOnce, Issued
<1>6. PendingApart'
  BY <1>0, <1>1, <1>3, <1>4 DEF KeysApart, PendingApart, Deletes, Issued
<1>7. DeletesOwn'
  <2>1. ASSUME NEW v \in Handlers, Commits(v), v # w
        PROVE  profile'[job[v].user] = profile[job[v].user]
    <3>1. job[v].user \in Users /\ profile[job[v].user].key = job[v].key /\ job[v].key # k
      BY <1>1, <2>1 DEF KeysApart, DeletesOwn, Deletes, Commits
    <3> QED
      BY <1>1, <1>4, <3>1
  <2> QED
    BY <1>0, <1>1, <1>3, <1>4, <2>1 DEF KeysApart, DeletesOwn, Deletes, Commits, Issued
<1>8. MakesOwn'
  BY <1>0, <1>3 DEF KeysApart, MakesOwn
<1> QED
  BY <1>5, <1>6, <1>7, <1>8 DEF KeysApart
\* Every step keeps the profiles' keys apart.
LEMMA KeysStep == SellersTypeOK /\ KeysApart /\ [SellersNext]_sellerVars => KeysApart'
<1> SUFFICES ASSUME SellersTypeOK, KeysApart, [SellersNext]_sellerVars PROVE KeysApart'
  OBVIOUS
<1> USE SellersAssumption
<1>n. \A w \in Handlers : Fits(w, NoJob)
  BY DEF Fits, NoJob
<1>1. ASSUME NEW u \in Applicants, Register(u) \/ FinishRegistration(u) \/ SetApproval(u)
      PROVE  KeysApart'
  <2>1. CASE profile' = profile /\ nextKey' = nextKey
    <3>1. job' = job
      BY <1>1 DEF Register, FinishRegistration, SetApproval
    <3> QED
      BY <2>1, <3>1 DEF KeysApart, KeysOnce, PendingApart, DeletesOwn, MakesOwn, Deletes, Commits, Issued
  <2>2. CASE ~(profile' = profile /\ nextKey' = nextKey)
    <3>1. /\ u \in Users /\ ~Inserting(u) /\ profile[u] = NoProfile
          /\ NewProfile(u, "registration") /\ job' = job
      BY <1>1, <2>2 DEF Register, FinishRegistration, SetApproval, Users
    <3> QED
      BY <3>1, ProfileInserted DEF Quiet
  <2> QED
    BY <2>1, <2>2
<1>2. ASSUME NEW u \in Staff, CreateOwn(u) PROVE KeysApart'
  <2>1. /\ u \in Users /\ ~Inserting(u) /\ profile[u] = NoProfile /\ NewProfile(u, "api") /\ job' = job
    BY <1>2 DEF CreateOwn, Users
  <2> QED
    BY <2>1, ProfileInserted DEF Quiet
<1>3. ASSUME NEW w \in Handlers, NEW u \in Users, NEW task \in {"dashboard", "api"}, StartAdd(w, u, task)
      PROVE  KeysApart'
  <2> DEFINE j == [task |-> task, step |-> IF Chosen(u) = 0 THEN "make" ELSE "add",
                   user |-> u, key |-> Chosen(u), pending |-> FALSE]
  <2>1. job' = [job EXCEPT ![w] = j] /\ profile' = profile /\ nextKey' = nextKey
    BY <1>3 DEF StartAdd
  <2>2. Fits(w, j)
    BY DEF Fits
  <2> QED
    BY <2>1, <2>2, JobReplaced
<1>4. ASSUME NEW w \in Handlers, NEW u \in Users, StartDelete(w, u) PROVE KeysApart'
  <2> DEFINE j == [NoJob EXCEPT !.task = "delete", !.step = "delete", !.user = u, !.key = profile[u].key]
  <2>1. job' = [job EXCEPT ![w] = j] /\ profile' = profile /\ nextKey' = nextKey /\ profile[u] # NoProfile
    BY <1>4 DEF StartDelete
  <2>2. profile[u].key \in Nat /\ Issued(profile[u].key)
    BY <2>1, SellerParts DEF KeysApart, KeysOnce, Issued
  <2>3. /\ j.task = "delete" /\ j.step = "delete" /\ j.user = u /\ j.key = profile[u].key /\ ~j.pending
    BY DEF NoJob
  <2> HIDE DEF j
  <2>4. Fits(w, j)
    BY <2>2, <2>3 DEF Fits, KeysApart, KeysOnce, PendingApart, Issued
  <2> QED
    BY <2>1, <2>4, JobReplaced
<1>5. ASSUME NEW w \in Handlers, MakeProfile(w) PROVE KeysApart'
  <2>1. CASE job[w].task = "api"
    <3> DEFINE p == job[w].task # "api"
    <3>1. /\ job[w].step = "make" /\ ~Inserting(job[w].user) /\ profile[job[w].user] = NoProfile
          /\ NewProfile(job[w].user, "api")
          /\ job' = [job EXCEPT ![w].step = "add", ![w].key = nextKey, ![w].pending = p]
      BY <1>5, <2>1 DEF MakeProfile
    <3>2. job[w].user \in Users /\ p = FALSE
      BY <2>1, <3>1 DEF KeysApart, MakesOwn
    <3> HIDE DEF p
    <3>3. /\ job' = [job EXCEPT ![w] = MadeJob(w, nextKey, FALSE)]
          /\ MadeJob(w, nextKey, FALSE) \in SellerJobs
      BY <3>1, <3>2, SellerParts, MadeTyped
    <3>4. ~MadeJob(w, nextKey, FALSE).pending /\ MadeJob(w, nextKey, FALSE).step = "add"
      <4>1. job[w] \in SellerJobs
        BY SellerParts
      <4> QED
        BY <4>1 DEF MadeJob, SellerJobs
    <3>5. \A v \in Handlers : Quiet(v)
      BY <3>3, <3>4, SellerParts DEF Quiet
    <3> QED
      BY <3>1, <3>2, <3>5, ProfileInserted
  <2> QED
    BY <1>5, <2>1, ProfilePending
<1>6. ASSUME NEW w \in Handlers, MakeTwice(w) \/ SellerGone(w) \/ Crash(w) PROVE KeysApart'
  <2>1. job' = [job EXCEPT ![w] = NoJob] /\ profile' = profile /\ nextKey' = nextKey
    BY <1>6 DEF MakeTwice, SellerGone, Crash, Drop
  <2> QED
    BY <1>n, <2>1, JobReplaced
<1>7. ASSUME NEW w \in Handlers, DeleteRow(w) PROVE KeysApart'
  <2>1. CASE job[w].key \notin ProfileKeys
    <3>1. job' = [job EXCEPT ![w] = NoJob] /\ profile' = profile /\ nextKey' = nextKey
      BY <1>7, <2>1 DEF DeleteRow, Drop
    <3> QED
      BY <1>n, <3>1, JobReplaced
  <2>2. CASE job[w].key \in ProfileKeys
    <3> DEFINE j == [job[w] EXCEPT !.step = "commit"]
    <3>1. job' = [job EXCEPT ![w] = j] /\ profile' = profile /\ nextKey' = nextKey
      BY <1>7, <2>2 DEF DeleteRow
    <3>2. /\ j.step = "commit" /\ j.task = job[w].task /\ j.user = job[w].user
          /\ j.key = job[w].key /\ j.pending = job[w].pending
      <4>1. job[w] \in SellerJobs
        BY SellerParts
      <4> QED
        BY <4>1 DEF SellerJobs
    <3> HIDE DEF j
    <3>3. Deletes(w) /\ job[w].step = "delete" /\ ~Deleting(job[w].key)
      BY <1>7 DEF DeleteRow, Deletes
    <3>4. /\ job[w].task = "delete" /\ job[w].user \in Users /\ Issued(job[w].key)
          /\ \A t \in Users : profile[t].key = job[w].key => t = job[w].user
          /\ \A v \in Handlers : Commits(v) => job[v].task = "delete"
      BY <3>3 DEF KeysApart, DeletesOwn, Deletes, Commits
    <3>5. ~job[w].pending /\ \A v \in Handlers : job[v].pending => job[v].key # job[w].key
      BY <3>3 DEF KeysApart, PendingApart, Deletes
    <3>6. profile[job[w].user].key = job[w].key
      BY <2>2, <3>4 DEF ProfileKeys
    <3>7. \A v \in Handlers : Commits(v) => job[v].key # job[w].key
      BY <3>3, <3>4 DEF Deleting, Commits
    <3>8. Fits(w, j)
      BY <3>2, <3>4, <3>5, <3>6, <3>7 DEF Fits, Issued
    <3> QED
      BY <3>1, <3>8, JobReplaced
  <2> QED
    BY <2>1, <2>2
<1>8. CASE UNCHANGED sellerVars
  BY <1>8 DEF sellerVars, KeysApart, KeysOnce, PendingApart, DeletesOwn, MakesOwn, Deletes, Commits, Issued
<1>9. CASE \E u \in Applicants : Register(u) \/ FinishRegistration(u) \/ SetApproval(u)
  BY <1>1, <1>9
<1>10. CASE \E w \in Handlers, u \in Users :
              (\E task \in {"dashboard", "api"} : StartAdd(w, u, task)) \/ StartDelete(w, u)
  BY <1>3, <1>4, <1>10
<1>11. CASE \E w \in Handlers : \/ MakeProfile(w) \/ MakeTwice(w) \/ AddProduct(w) \/ SellerGone(w)
                                \/ DeleteRow(w) \/ CommitDelete(w) \/ Crash(w)
  BY <1>5, <1>6, <1>7, <1>11, ProfileCommitted, ProfileDeleted
<1> QED
  BY <1>2, <1>8, <1>9, <1>10, <1>11 DEF SellersNext

SellersInv == KeysApart /\ ProductsHaveSellers /\ ProfileComesWithProduct

\* Whatever comes or goes with a step of the products and the profiles.
LEMMA ProductsStep ==
  SellersTypeOK /\ SellersInv /\ [SellersNext]_sellerVars
    => ProductsHaveSellers' /\ ProfileComesWithProduct'
<1> SUFFICES ASSUME SellersTypeOK, SellersInv, [SellersNext]_sellerVars
             PROVE  ProductsHaveSellers' /\ ProfileComesWithProduct'
  OBVIOUS
<1> USE SellersAssumption
<1>0. /\ ProductsHaveSellers /\ ProfileComesWithProduct /\ KeysApart
      /\ profile \in [Users -> Profiles] /\ nextKey \in Nat /\ nextKey > 0
  BY SellerParts DEF SellersInv, KeysApart, KeysOnce
<1>1. CASE UNCHANGED <<profile, products>>
  BY <1>0, <1>1 DEF ProductsHaveSellers, ProfileComesWithProduct, ProfileKeys
<1>2. ASSUME NEW u \in Users, NEW via \in {"registration", "api"}, NewProfile(u, via),
             profile[u] = NoProfile, products' = products
      PROVE  ProductsHaveSellers' /\ ProfileComesWithProduct'
  <2>1. /\ \A t \in Users : profile'[t] = IF t = u THEN [key |-> nextKey, via |-> via] ELSE profile[t]
        /\ profile[u].key = 0
    BY <1>0, <1>2 DEF NewProfile, NoProfile
  <2>2. ProfileKeys \subseteq ProfileKeys'
    BY <2>1 DEF ProfileKeys
  <2>3. ProfileComesWithProduct'
    BY <1>0, <1>2, <2>1 DEF ProfileComesWithProduct
  <2> QED
    BY <1>0, <1>2, <2>2, <2>3 DEF ProductsHaveSellers
<1>3. ASSUME NEW w \in Handlers, AddProduct(w)
      PROVE  ProductsHaveSellers' /\ ProfileComesWithProduct'
  <2> DEFINE k == job[w].key
             u == job[w].user
  <2>1. products' = products \cup {k}
    BY <1>3 DEF AddProduct
  <2>2. CASE ~job[w].pending
    <3>1. profile' = profile /\ k \in ProfileKeys
      BY <1>3, <2>2 DEF AddProduct
    <3>2. ProfileKeys' = ProfileKeys
      BY <3>1 DEF ProfileKeys
    <3> QED
      BY <1>0, <2>1, <3>1, <3>2 DEF ProductsHaveSellers, ProfileComesWithProduct
  <2>3. CASE job[w].pending
    <3>1. u \in Users /\ Issued(k) /\ profile[u] = NoProfile
      BY <1>0, <2>3 DEF KeysApart, PendingApart
    <3>2. profile' = [profile EXCEPT ![u] = [key |-> k, via |-> "dashboard"]]
      BY <1>3, <2>3 DEF AddProduct
    <3>3. k # 0 /\ NoProfile.key = 0
      BY <3>1 DEF Issued, NoProfile
    <3> HIDE DEF u, k
    <3>4. \A t \in Users : profile'[t] = IF t = u THEN [key |-> k, via |-> "dashboard"] ELSE profile[t]
      BY <1>0, <3>2
    <3>5. ProfileKeys' = ProfileKeys \cup {k}
      BY <3>1, <3>3, <3>4 DEF ProfileKeys
    <3> QED
      BY <1>0, <2>1, <3>4, <3>5 DEF ProductsHaveSellers, ProfileComesWithProduct
  <2> QED
    BY <2>2, <2>3
<1>4. ASSUME NEW w \in Handlers, CommitDelete(w)
      PROVE  ProductsHaveSellers' /\ ProfileComesWithProduct'
  <2> DEFINE k == job[w].key
             u == job[w].user
  <2>1. /\ u \in Users /\ profile[u].key = k
        /\ \A t \in Users : profile[t].key = k => t = u
    BY <1>0, <1>4 DEF CommitDelete, KeysApart, DeletesOwn, Deletes, Commits
  <2>2. CASE Referenced(k)
    BY <1>1, <1>4, <2>2 DEF CommitDelete
  <2>3. CASE ~Referenced(k)
    <3>1. profile' = [profile EXCEPT ![u] = NoProfile] /\ products' = products
      BY <1>4, <2>3 DEF CommitDelete
    <3>2. k \notin products
      BY <2>3 DEF Referenced
    <3> HIDE DEF u, k
    <3>3. \A t \in Users : profile'[t] = IF t = u THEN NoProfile ELSE profile[t]
      BY <1>0, <3>1
    <3>4. ProfileKeys \ {k} \subseteq ProfileKeys'
      BY <2>1, <3>3 DEF ProfileKeys
    <3>5. ProductsHaveSellers'
      BY <1>0, <3>1, <3>2, <3>4 DEF ProductsHaveSellers
    <3>6. ProfileComesWithProduct'
      BY <1>0, <3>1, <3>3 DEF ProfileComesWithProduct, NoProfile
    <3> QED
      BY <3>5, <3>6
  <2> QED
    BY <2>2, <2>3
<1>5. ASSUME NEW u \in Applicants, Register(u) \/ FinishRegistration(u) \/ SetApproval(u)
      PROVE  ProductsHaveSellers' /\ ProfileComesWithProduct'
  <2>1. u \in Users
    BY DEF Users
  <2> QED
    BY <1>1, <1>2, <1>5, <2>1 DEF Register, FinishRegistration, SetApproval
<1>6. ASSUME NEW u \in Staff, CreateOwn(u)
      PROVE  ProductsHaveSellers' /\ ProfileComesWithProduct'
  BY <1>2, <1>6 DEF CreateOwn, Users
<1>7. ASSUME NEW w \in Handlers, MakeProfile(w)
      PROVE  ProductsHaveSellers' /\ ProfileComesWithProduct'
  <2>1. CASE job[w].task = "api"
    <3>1. /\ job[w].step = "make" /\ profile[job[w].user] = NoProfile
          /\ NewProfile(job[w].user, "api") /\ products' = products
      BY <1>7, <2>1 DEF MakeProfile
    <3>2. job[w].user \in Users
      BY <1>0, <3>1 DEF KeysApart, MakesOwn
    <3> QED
      BY <1>2, <3>1, <3>2
  <2>2. CASE job[w].task # "api"
    BY <1>1, <1>7, <2>2 DEF MakeProfile
  <2> QED
    BY <2>1, <2>2
<1>8. ASSUME NEW w \in Handlers, NEW u \in Users,
             (\E task \in {"dashboard", "api"} : StartAdd(w, u, task)) \/ StartDelete(w, u)
      PROVE  UNCHANGED <<profile, products>>
  BY <1>8 DEF StartAdd, StartDelete
<1>9. ASSUME NEW w \in Handlers, MakeTwice(w) \/ SellerGone(w) \/ DeleteRow(w) \/ Crash(w)
      PROVE  UNCHANGED <<profile, products>>
  BY <1>9 DEF MakeTwice, SellerGone, DeleteRow, Crash
<1>10. CASE UNCHANGED sellerVars
  BY <1>1, <1>10 DEF sellerVars
<1>11. CASE \E w \in Handlers, u \in Users :
              (\E task \in {"dashboard", "api"} : StartAdd(w, u, task)) \/ StartDelete(w, u)
  BY <1>1, <1>8, <1>11
<1>12. CASE \E w \in Handlers : \/ MakeProfile(w) \/ MakeTwice(w) \/ AddProduct(w) \/ SellerGone(w)
                                \/ DeleteRow(w) \/ CommitDelete(w) \/ Crash(w)
  BY <1>1, <1>3, <1>4, <1>7, <1>9, <1>12
<1> QED
  BY <1>5, <1>6, <1>10, <1>11, <1>12 DEF SellersNext

\* Keys are apart, products have sellers, and store profiles products.
LEMMA SellersInvariance == SellersSpec => []SellersInv
<1>1. SellersInit => SellersInv
  BY DEF SellersInit, SellersInv, KeysApart, KeysOnce, PendingApart, DeletesOwn, MakesOwn, Deletes,
         ProductsHaveSellers, ProfileComesWithProduct, NoProfile, NoJob
<1>2. SellersTypeOK /\ SellersInv /\ [SellersNext]_sellerVars => SellersInv'
  BY KeysStep, ProductsStep DEF SellersInv
<1> QED
  BY <1>1, <1>2, SellerTypes, PTL DEF SellersSpec

\* A product never loses its seller, although a deletion looks for products
\* before it deletes and an addition chooses its profile before it inserts
\* (accounts/views.py:91, catalog/models.py:46).
THEOREM SellersStay == SellersSpec => []ProductsHaveSellers
  BY SellersInvariance, PTL DEF SellersInv

\* From the dashboard a new store profile and its first product come together
\* (dashboard.py:341).
THEOREM ProfilesBringProducts == SellersSpec => []ProfileComesWithProduct
  BY SellersInvariance, PTL DEF SellersInv

-----------------------------------------------------------------------------
(* The four parts together.                                                *)

\* The composition is, for each part, a behaviour of that part alone.
LEMMA PartsApart == MCSpec => DoorSpec /\ BookSpec /\ FilesSpec /\ SellersSpec
<1>1. MCInit => DoorInit /\ BookInit /\ FilesInit /\ SellersInit
  BY DEF MCInit
<1>2. [MCNext]_mcVars => /\ [DoorNext]_doorVars /\ [BookNext]_bookVars
                         /\ [FilesNext]_fileVars /\ [SellersNext]_sellerVars
  BY DEF MCNext, mcVars
<1> QED
  BY <1>1, <1>2, PTL DEF MCSpec, DoorSpec, BookSpec, FilesSpec, SellersSpec

\* Every variable of the four parts keeps its type.
THEOREM TypeCorrect == MCSpec => []TypeOK
<1>1. DoorTypeOK /\ BookTypeOK /\ FilesTypeOK /\ SellersTypeOK => TypeOK
  BY DEF TypeOK
<1> QED
  BY <1>1, PartsApart, DoorTypes, BookTypes, FileTypes, SellerTypes, PTL
=============================================================================

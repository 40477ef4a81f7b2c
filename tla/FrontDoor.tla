------------------------------ MODULE FrontDoor ------------------------------
(***************************************************************************)
(* Signing in and signing up with the HTML forms (storefront.views         *)
(* login_view, register_view, logout_view), the attempt limiter they share *)
(* (config.ratelimit.AttemptLimiter), and the staff member's customer      *)
(* preview.  The limiter is three cache operations per failure, none of    *)
(* them atomic with the next; browsers at the same address with the same   *)
(* user name share a key.  Cache entries live in the server process.       *)
(***************************************************************************)
EXTENDS Naturals, FiniteSets

CONSTANTS Browsers,    \* sessions, each with at most one request in progress
          Keys,        \* limiter keys: address and user name, or address alone
          SignUpKeys,  \* the keys of register_limiter
          StaffKeys,   \* the login keys that name a staff account
          NoKey,       \* the browser has no request in progress
          MaxAttempts, \* LOGIN_MAX_ATTEMPTS, REGISTER_MAX_ATTEMPTS
          MaxFailures  \* bound: failures in one window

ASSUME FrontDoorAssumption ==
  /\ IsFiniteSet(Browsers)
  /\ NoKey \notin Keys
  /\ SignUpKeys \subseteq Keys
  /\ StaffKeys \subseteq Keys \ SignUpKeys
  /\ MaxAttempts \in Nat \ {0}
  /\ MaxFailures \in Nat

VARIABLES
  count,    \* the key's ":count" entry, 0 = absent
  lockout,  \* the key's ":locked" entry is present
  request,  \* where each browser's request is, and its key
  session,  \* who each browser is signed in as, and the customer_preview flag
  failures  \* history: failed attempts since the ":count" entry was last absent

doorVars == <<count, lockout, request, session, failures>>

Idle == [step |-> "idle", key |-> NoKey]
Anonymous == [who |-> "nobody", preview |-> FALSE]
Role(k) == IF k \in StaffKeys THEN "staff" ELSE "customer"

DoorInit ==
  /\ count = [k \in Keys |-> 0]
  /\ lockout = [k \in Keys |-> FALSE]
  /\ request = [b \in Browsers |-> Idle]
  /\ session = [b \in Browsers |-> Anonymous]
  /\ failures = [k \in Keys |-> 0]

At(b, step) == request[b].step = step
KeyOf(b) == request[b].key
GoTo(b, step) == request' = [request EXCEPT ![b].step = step]
Finish(b) == request' = [request EXCEPT ![b] = Idle]
SignIn(b) == session' = [session EXCEPT ![b] = [who |-> Role(KeyOf(b)), preview |-> FALSE]]

\* Mutant: a success or a lock takes one failure off the count.
ForgetOne(k) == /\ count' = [count EXCEPT ![k] = @ - 1]
                /\ failures' = [failures EXCEPT ![k] = 0]

\* The ":count" entry of k goes: its window is over.
ForgetCount(k) == /\ count' = [count EXCEPT ![k] = 0]
                  /\ failures' = [failures EXCEPT ![k] = 0]

-----------------------------------------------------------------------------
\* A POST of the login or registration form by a browser that is not signed
\* in; a locked key is turned away before the password is looked at.
Attempt(b, k) ==
  /\ At(b, "idle")
  /\ session[b].who = "nobody"
  /\ ~lockout[k]
  /\ request' = [request EXCEPT ![b] = [step |-> "check", key |-> k]]
  /\ UNCHANGED <<count, lockout, session, failures>>

\* The attempt succeeds.  register_view signs the browser in and then clears
\* the limiter, login_view clears first.
Succeed(b) ==
  /\ At(b, "check")
  /\ GoTo(b, "clear")
  /\ IF KeyOf(b) \in SignUpKeys THEN SignIn(b) ELSE UNCHANGED session
  /\ UNCHANGED <<count, lockout, failures>>

\* clear deletes the two entries one after the other.
ClearCount(b) ==
  /\ At(b, "clear")
  /\ ForgetCount(KeyOf(b))
  /\ GoTo(b, "unlock")
  /\ UNCHANGED <<lockout, session>>

ClearLock(b) ==
  /\ At(b, "unlock")
  /\ lockout' = [lockout EXCEPT ![KeyOf(b)] = FALSE]
  /\ IF KeyOf(b) \in SignUpKeys THEN UNCHANGED session ELSE SignIn(b)
  /\ Finish(b)
  /\ UNCHANGED <<count, failures>>

\* cache.incr of the ":count" entry; it raises ValueError when the entry is
\* absent, and the handler goes on to start a window.
Increment(b) ==
  LET k == KeyOf(b)
  IN /\ At(b, "check")
     /\ failures[k] < MaxFailures
     /\ IF count[k] = 0
        THEN GoTo(b, "start") /\ UNCHANGED <<count, failures>>
        ELSE /\ count' = [count EXCEPT ![k] = @ + 1]
             /\ failures' = [failures EXCEPT ![k] = @ + 1]
             /\ IF count[k] + 1 >= MaxAttempts THEN GoTo(b, "lock") ELSE Finish(b)
     /\ UNCHANGED <<lockout, session>>

\* Mutant: the window is started with a zero count.
StartWindowAtZero(b) ==
  /\ At(b, "start")
  /\ failures' = [failures EXCEPT ![KeyOf(b)] = @ + 1]
  /\ count' = [count EXCEPT ![KeyOf(b)] = 0]
  /\ Finish(b)
  /\ UNCHANGED <<lockout, session>>

\* cache.set(count_key, 1), over whatever others have counted meanwhile.
StartWindow(b) ==
  /\ At(b, "start")
  /\ failures' = [failures EXCEPT ![KeyOf(b)] = @ + 1]
  /\ count' = [count EXCEPT ![KeyOf(b)] = 1]
  /\ IF 1 >= MaxAttempts THEN GoTo(b, "lock") ELSE Finish(b)
  /\ UNCHANGED <<lockout, session>>

Lock(b) ==
  /\ At(b, "lock")
  /\ lockout' = [lockout EXCEPT ![KeyOf(b)] = TRUE]
  /\ GoTo(b, "forget")
  /\ UNCHANGED <<count, session, failures>>

Forget(b) ==
  /\ At(b, "forget")
  /\ ForgetCount(KeyOf(b))
  /\ Finish(b)
  /\ UNCHANGED <<lockout, session>>

\* The entries time out on their own.
CountExpires(k) == count[k] > 0 /\ ForgetCount(k) /\ UNCHANGED <<lockout, request, session>>

LockExpires(k) ==
  /\ lockout[k]
  /\ lockout' = [lockout EXCEPT ![k] = FALSE]
  /\ UNCHANGED <<count, request, session, failures>>

\* The server process restarts: requests and cache entries are gone, sessions
\* are in the database.
Restart ==
  /\ count' = [k \in Keys |-> 0]
  /\ failures' = [k \in Keys |-> 0]
  /\ lockout' = [k \in Keys |-> FALSE]
  /\ request' = [b \in Browsers |-> Idle]
  /\ UNCHANGED session

\* A sign-up loses the race for its user name, or another error ends the
\* request before the limiter hears of it.
Fail(b) == At(b, "check") /\ Finish(b) /\ UNCHANGED <<count, lockout, session, failures>>

\* logout flushes the whole session.
Logout(b) ==
  /\ At(b, "idle") /\ session[b] # Anonymous
  /\ session' = [session EXCEPT ![b] = Anonymous]
  /\ UNCHANGED <<count, lockout, request, failures>>

\* start_customer_preview, return_from_customer_preview: staff only.
SetPreview(b) ==
  /\ session[b].who = "staff"
  /\ session' = [session EXCEPT ![b].preview = ~@]
  /\ UNCHANGED <<count, lockout, request, failures>>

DoorNext ==
  \/ \E b \in Browsers : \/ \E k \in Keys : Attempt(b, k)
                         \/ Succeed(b) \/ ClearCount(b) \/ ClearLock(b)
                         \/ Increment(b) \/ StartWindow(b) \/ Lock(b) \/ Forget(b)
                         \/ Fail(b) \/ Logout(b) \/ SetPreview(b)
  \/ \E k \in Keys : CountExpires(k) \/ LockExpires(k)
  \/ Restart

DoorSpec == DoorInit /\ [][DoorNext]_doorVars

-----------------------------------------------------------------------------
Steps == {"idle", "check", "clear", "unlock", "start", "lock", "forget"}

\* Only a staff session carries the preview flag, and no logout keeps it.
Sessions == {Anonymous, [who |-> "customer", preview |-> FALSE]}
            \cup [who : {"staff"}, preview : BOOLEAN]

DoorTypeOK ==
  /\ count \in [Keys -> Nat]
  /\ lockout \in [Keys -> BOOLEAN]
  /\ request \in [Browsers -> [step : Steps, key : Keys \cup {NoKey}]]
  /\ \A b \in Browsers : At(b, "idle") \/ KeyOf(b) \in Keys
  /\ session \in [Browsers -> Sessions]
  /\ failures \in [Keys -> Nat]

\* Requests on key k about to write a count of one over whatever is there.
Starters(k) == {b \in Browsers : At(b, "start") /\ KeyOf(b) = k}

\* Some request has counted MaxAttempts and is locking k.
Locking(k) == \E b \in Browsers : (At(b, "lock") \/ At(b, "forget")) /\ KeyOf(b) = k

\* Failures may be lost when a window starts (ratelimit.py:69: incr, then set),
\* but every browser can lose one window's worth at most: until the key is being
\* locked, a window has seen fewer than MaxAttempts failures per browser.
GuessesBounded ==
  \A k \in Keys : ~Locking(k) => failures[k] <= Cardinality(Browsers) * (MaxAttempts - 1)
=============================================================================

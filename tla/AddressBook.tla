----------------------------- MODULE AddressBook -----------------------------
(***************************************************************************)
(* One customer's addresses (accounts.models.Address.save, reached through *)
(* accounts.views.AddressViewSet) while requests from several devices      *)
(* overlap.  Nothing runs in a transaction: unsetting the other defaults   *)
(* and writing the address are two statements, and a PATCH writes every    *)
(* column of the copy it read.  Customers do not affect one another, since *)
(* every query filters by the user.                                        *)
(***************************************************************************)
EXTENDS Naturals, FiniteSets

CONSTANTS Addresses,  \* primary keys
          NoAddress,  \* the device is not saving
          Devices     \* concurrent requests of the customer

ASSUME AddressBookAssumption == NoAddress \notin Addresses

VARIABLES
  book,      \* what each primary key holds
  saving,    \* each device's save in progress
  abandoned  \* history: the default was deleted, overwritten with FALSE, or
             \* lost with a request that died, and none was written since

bookVars == <<book, saving, abandoned>>

NotSaving == [addr |-> NoAddress, step |-> "check", default |-> FALSE, stored |-> FALSE]

BookInit ==
  /\ book = [a \in Addresses |-> "absent"]
  /\ saving = [d \in Devices |-> NotSaving]
  /\ abandoned = FALSE

Held == {a \in Addresses : book[a] # "absent"}
Defaults == {a \in Addresses : book[a] = "default"}

Flag(default) == IF default THEN "default" ELSE "plain"

\* POST: the primary key is assigned by the database, never used before.
StartCreate(d, a, default) ==
  /\ saving[d] = NotSaving
  /\ a \notin Held /\ \A e \in Devices : saving[e].addr # a
  /\ saving' = [saving EXCEPT ![d] = [addr |-> a, step |-> "check",
                                      default |-> default, stored |-> FALSE]]
  /\ UNCHANGED <<book, abandoned>>

\* PATCH: the stored row is read; is_default is the value read, or the one the
\* request sets.
StartPatch(d, a, default) ==
  /\ saving[d] = NotSaving
  /\ a \in Held
  /\ saving' = [saving EXCEPT ![d] = [addr |-> a, step |-> "check",
                                      default |-> default, stored |-> TRUE]]
  /\ UNCHANGED <<book, abandoned>>

\* save, default address: the other defaults are unset.
UnsetOthers(d) ==
  LET a == saving[d].addr
  IN /\ a # NoAddress /\ saving[d].step = "check" /\ saving[d].default
     /\ book' = [b \in Addresses |-> IF b # a /\ book[b] = "default" THEN "plain" ELSE book[b]]
     /\ saving' = [saving EXCEPT ![d].step = "write"]
     /\ UNCHANGED abandoned

\* Mutant: the first address is not made the default.
NeverFirst(s) == FALSE

\* A new address when the customer has none becomes the default.
First(s) == ~s.stored /\ Held \ {s.addr} = {}

\* save, other address: only a look at what else there is.
CheckFirst(d) ==
  /\ saving[d].addr # NoAddress /\ saving[d].step = "check" /\ ~saving[d].default
  /\ saving' = [saving EXCEPT ![d].step = "write", ![d].default = First(saving[d])]
  /\ UNCHANGED <<book, abandoned>>

\* Mutant: the database does not enforce the partial unique index.
NotRefused(s) == FALSE

\* unique_default_address_per_user.
Refused(s) == s.default /\ Defaults \ {s.addr} # {}

\* INSERT, or UPDATE of the whole row; Django inserts again a row that was
\* deleted since it was read.
Write(d) ==
  LET s == saving[d]
  IN /\ s.addr # NoAddress /\ s.step = "write" /\ ~Refused(s)
     /\ book' = [book EXCEPT ![s.addr] = Flag(s.default)]
     /\ saving' = [saving EXCEPT ![d] = NotSaving]
     /\ abandoned' = (~s.default /\ (abandoned \/ book[s.addr] = "default"))

\* IntegrityError: the request fails, what was unset stays unset.
Refuse(d) ==
  /\ saving[d].addr # NoAddress /\ saving[d].step = "write" /\ Refused(saving[d])
  /\ saving' = [saving EXCEPT ![d] = NotSaving]
  /\ UNCHANGED <<book, abandoned>>

\* The request dies between its statements.
Die(d) ==
  /\ saving[d].addr # NoAddress
  /\ saving' = [saving EXCEPT ![d] = NotSaving]
  /\ abandoned' = (abandoned \/ (saving[d].step = "write" /\ saving[d].default /\ Defaults = {}))
  /\ UNCHANGED book

Delete(a) ==
  /\ a \in Held
  /\ book' = [book EXCEPT ![a] = "absent"]
  /\ abandoned' = (abandoned \/ book[a] = "default")
  /\ UNCHANGED saving

BookNext ==
  \/ \E d \in Devices : \/ \E a \in Addresses, default \in BOOLEAN :
                             StartCreate(d, a, default) \/ StartPatch(d, a, default)
                        \/ UnsetOthers(d) \/ CheckFirst(d)
                        \/ Write(d) \/ Refuse(d) \/ Die(d)
  \/ \E a \in Addresses : Delete(a)

BookSpec == BookInit /\ [][BookNext]_bookVars

-----------------------------------------------------------------------------
BookTypeOK ==
  /\ book \in [Addresses -> {"absent", "plain", "default"}]
  /\ saving \in [Devices -> [addr : Addresses \cup {NoAddress}, step : {"check", "write"},
                             default : BOOLEAN, stored : BOOLEAN]]
  /\ abandoned \in BOOLEAN

\* However creations, edits and deletions from several devices interleave,
\* a customer never has two default addresses (accounts/models.py:100).
OneDefault == \A a, b \in Defaults : a = b

\* A customer with addresses but no default deleted the default or saved FALSE
\* over it, or a request died between unsetting it and writing its own
\* (models.py:113); saves of defaults that race never leave the book without one.
DefaultlessExplained ==
  Held # {} /\ Defaults = {} =>
     abandoned \/ \E d \in Devices : saving[d].step = "write" /\ saving[d].default
=============================================================================

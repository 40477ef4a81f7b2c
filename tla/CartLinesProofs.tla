-------------------------- MODULE CartLinesProofs --------------------------
(***************************************************************************)
(* Proofs about module CartLines, for every set of workers and items and   *)
(* any number of requests.                                                 *)
(***************************************************************************)
EXTENDS CartLines, RowFacts, FiniteSetTheorems

Rows == [item : Items, quantity : Nat]

\* A request about to write knows an item, or a row, and a positive quantity.
Ready(j, rows) ==
  /\ j.phase \in {"get", "insert", "reget"} => j.item \in Items /\ j.qty > 0
  /\ j.phase = "save" => j.pk \in rows /\ j.qty > 0

-----------------------------------------------------------------------------
(* Facts about rows and jobs.                                              *)

\* A row whose quantity is written keeps its item, and the others stay.
LEMMA QuantityChanged ==
  ASSUME NEW s \in Seq(Rows), NEW n \in DOMAIN s, NEW q \in Nat
  PROVE  LET t == [s EXCEPT ![n].quantity = q]
         IN /\ t \in Seq(Rows)
            /\ DOMAIN t = DOMAIN s
            /\ t[n].item = s[n].item /\ t[n].quantity = q
            /\ \A m \in DOMAIN s : m # n => t[m] = s[m]
<1> DEFINE r == [s[n] EXCEPT !.quantity = q]
           t == [s EXCEPT ![n] = r]
<1>1. DOMAIN s = 1..Len(s) /\ n \in 1..Len(s)
  BY LenProperties
<1>2. s[n] \in Rows
  BY RowOfTable
<1>3. r \in Rows /\ r.item = s[n].item /\ r.quantity = q
  BY <1>2 DEF Rows
<1>4. t = [s EXCEPT ![n].quantity = q]
  OBVIOUS
<1> HIDE DEF r
<1>5. t \in Seq(Rows)
  BY <1>1, <1>3, ExceptSeq
<1>6. DOMAIN t = DOMAIN s /\ t[n] = r /\ \A m \in DOMAIN s : m # n => t[m] = s[m]
  OBVIOUS
<1> QED
  BY <1>3, <1>4, <1>5, <1>6

\* An empty session cart and an idle worker are typed.
LEMMA Sentinels ==
  /\ Nothing \in Quantities
  /\ NoJob \in Jobs
  /\ \A rows : Ready(NoJob, rows)
BY DEF Nothing, Quantities, NoJob, Jobs, Phases, NoItem, Ready

(* A step that changes one job and deletes no row keeps the jobs in order.  *)
LEMMA OneJob ==
  ASSUME TypeOK, NEW w \in Workers, NEW j \in Jobs,
         job' = [job EXCEPT ![w] = j],
         DOMAIN line \subseteq DOMAIN line',
         Ready(j, DOMAIN line')
  PROVE  /\ job' \in [Workers -> Jobs]
         /\ \A v \in Workers : Ready(job'[v], DOMAIN line')
<1>1. job' \in [Workers -> Jobs]
  BY DEF TypeOK
<1>2. ASSUME NEW v \in Workers PROVE Ready(job'[v], DOMAIN line')
  <2>1. CASE v = w
    BY <2>1 DEF TypeOK
  <2>2. CASE v # w
    BY <2>2 DEF TypeOK, Ready
  <2> QED
    BY <2>1, <2>2
<1> QED
  BY <1>1, <1>2

(* The same for the end of an entry.                                        *)
LEMMA FinishOneJob ==
  ASSUME TypeOK, NEW w \in Workers, Finish(w), DOMAIN line \subseteq DOMAIN line'
  PROVE  /\ job' \in [Workers -> Jobs]
         /\ \A v \in Workers : Ready(job'[v], DOMAIN line')
<1> DEFINE j == IF job[w].login THEN [job[w] EXCEPT !.phase = "merge"] ELSE NoJob
<1>1. job' = [job EXCEPT ![w] = j]
  BY DEF Finish, TypeOK
<1>2. j \in Jobs /\ Ready(j, DOMAIN line')
  <2>1. CASE job[w].login
    BY <2>1 DEF TypeOK, Jobs, Phases, Ready
  <2>2. CASE ~job[w].login
    BY <2>2, Sentinels
  <2> QED
    BY <2>1, <2>2
<1> HIDE DEF j
<1> QED
  BY <1>1, <1>2, OneJob

\* Units added to an item leave quantities.
LEMMA MoreUnits ==
  ASSUME NEW f \in Quantities, NEW i \in Items, NEW q \in Nat
  PROVE  [f EXCEPT ![i] = @ + q] \in Quantities
BY DEF Quantities

\* The parts of the type invariant after a step.
LEMMA TypedAgain ==
  ASSUME line' \in Seq(Rows), session' \in Quantities, sessionKey' \in Nat,
         active' \subseteq Items, job' \in [Workers -> Jobs], requests' \in Nat,
         asked' \in Quantities,
         \A v \in Workers : Ready(job'[v], DOMAIN line')
  PROVE  TypeOK'
BY DEF TypeOK, Rows, Ready

-----------------------------------------------------------------------------
(* Every variable keeps its type; a request that is about to write knows an *)
(* item or a row that exists, and a positive quantity.                      *)
THEOREM TypeCorrect == Spec => []TypeOK
<1>1. Init => TypeOK
  BY Sentinels, CartAssumption DEF Init, TypeOK, NoJob, Rows, Quantities
<1>2. TypeOK /\ [Next]_vars => TypeOK'
  <2> SUFFICES ASSUME TypeOK, [Next]_vars PROVE TypeOK'
    OBVIOUS
  <2>0. line \in Seq(Rows) /\ \A v \in Workers : Ready(job[v], DOMAIN line)
    BY DEF TypeOK, Rows, Ready
  <2>1. ASSUME NEW w \in Workers, NEW i \in Items, NEW q \in 1..MaxQty, StartAdd(w, i, q)
        PROVE  TypeOK'
    <3> DEFINE j == [NoJob EXCEPT !.phase = "get", !.item = i, !.qty = q]
    <3>1. q \in Nat /\ q > 0
      BY CartAssumption
    <3>2. j \in Jobs /\ Ready(j, DOMAIN line)
      BY <3>1, Sentinels DEF NoJob, Jobs, Phases, Ready
    <3>3. job' = [job EXCEPT ![w] = j] /\ requests' = requests + 1
      BY <2>1 DEF StartAdd, Begin
    <3> HIDE DEF j
    <3>4. asked' \in Quantities
      BY <2>1, <3>1, MoreUnits DEF StartAdd, TypeOK
    <3> QED
      BY <2>0, <2>1, <3>2, <3>3, <3>4, OneJob, TypedAgain DEF StartAdd, TypeOK
  <2>2. ASSUME NEW w \in Workers, NEW i \in Items, NEW q \in 1..MaxQty, StartSessionAdd(w, i, q)
        PROVE  TypeOK'
    <3> DEFINE e == [session EXCEPT ![i] = @ + q]
               j == [NoJob EXCEPT !.phase = "session", !.key = sessionKey, !.entries = e]
    <3>1. q \in Nat /\ q > 0
      BY CartAssumption
    <3>2. e \in Quantities
      BY <2>2, <3>1, MoreUnits DEF StartSessionAdd, TypeOK
    <3>3. job' = [job EXCEPT ![w] = j] /\ requests' = requests + 1
      BY <2>2 DEF StartSessionAdd, Begin
    <3> HIDE DEF e
    <3>4. j \in Jobs /\ Ready(j, DOMAIN line)
      BY <3>2, Sentinels DEF NoJob, Jobs, Phases, Ready, TypeOK
    <3> HIDE DEF j
    <3> QED
      BY <2>0, <2>2, <3>2, <3>3, <3>4, OneJob, TypedAgain DEF StartSessionAdd, TypeOK
  <2>3. ASSUME NEW w \in Workers, NEW n \in DOMAIN line, NEW q \in 1..MaxQty, StartUpdate(w, n, q)
        PROVE  TypeOK'
    <3> DEFINE j == [NoJob EXCEPT !.phase = "save", !.item = line[n].item, !.pk = n, !.qty = q]
    <3>1. q \in Nat /\ q > 0 /\ line[n].item \in Items /\ n \in Nat
      <4>1. n \in Nat /\ line[n] \in Rows
        BY <2>0, RowOfTable
      <4> QED
        BY <4>1, CartAssumption DEF Rows
    <3>2. j \in Jobs /\ Ready(j, DOMAIN line)
      BY <3>1, Sentinels DEF NoJob, Jobs, Phases, Ready
    <3>3. job' = [job EXCEPT ![w] = j] /\ requests' = requests + 1
      BY <2>3 DEF StartUpdate, Begin
    <3> HIDE DEF j
    <3>4. asked' \in Quantities
      BY <2>3, <3>1, MoreUnits DEF StartUpdate, TypeOK
    <3> QED
      BY <2>0, <2>3, <3>2, <3>3, <3>4, OneJob, TypedAgain DEF StartUpdate, TypeOK
  <2>4. ASSUME NEW w \in Workers, Get(w) PROVE TypeOK'
    <3>1. CASE job[w].phase = "get" /\ job' = [job EXCEPT ![w].phase = "insert"]
      <4> DEFINE j == [job[w] EXCEPT !.phase = "insert"]
      <4>1. job' = [job EXCEPT ![w] = j]
        BY <3>1
      <4>2. j \in Jobs /\ Ready(j, DOMAIN line)
        BY <2>0, <3>1 DEF TypeOK, Jobs, Phases, Ready
      <4> HIDE DEF j
      <4> QED
        BY <2>0, <2>4, <4>1, <4>2, OneJob, TypedAgain DEF Get, TypeOK
    <3>2. ASSUME NEW n \in Live(job[w].item), job[w].phase \in {"get", "reget"},
                 job' = [job EXCEPT ![w].phase = "save", ![w].pk = n, ![w].qty = line[n].quantity + @]
          PROVE  TypeOK'
      <4> DEFINE j == [job[w] EXCEPT !.phase = "save", !.pk = n, !.qty = line[n].quantity + @]
      <4>1. job' = [job EXCEPT ![w] = j]
        BY <3>2
      <4>2. n \in DOMAIN line /\ n \in Nat /\ line[n].quantity \in Nat
        <5>1. n \in DOMAIN line
          BY DEF Live
        <5>2. n \in Nat /\ line[n] \in Rows
          BY <2>0, <5>1, RowOfTable
        <5> QED
          BY <5>1, <5>2 DEF Rows
      <4>3. job[w] \in Jobs /\ job[w].qty > 0 /\ job[w].qty \in Nat
        BY <2>0, <3>2 DEF TypeOK, Ready, Jobs
      <4>4. j \in Jobs /\ Ready(j, DOMAIN line)
        <5> DEFINE q == line[n].quantity + job[w].qty
        <5>1. q \in Nat /\ q > 0
          BY <4>2, <4>3
        <5>2. j = [job[w] EXCEPT !.phase = "save", !.pk = n, !.qty = q]
          BY <4>3 DEF Jobs
        <5> HIDE DEF q, j
        <5> QED
          BY <4>2, <4>3, <5>1, <5>2 DEF Jobs, Phases, Ready
      <4> HIDE DEF j
      <4> QED
        BY <2>0, <2>4, <4>1, <4>4, OneJob, TypedAgain DEF Get, TypeOK
    <3> QED
      BY <2>4, <3>1, <3>2 DEF Get
  <2>5. ASSUME NEW w \in Workers, Insert(w) PROVE TypeOK'
    <3>0. job[w] \in Jobs /\ job[w].phase = "insert" /\ job[w].item \in Items /\ job[w].qty > 0
      BY <2>0, <2>5 DEF Insert, Ready, TypeOK
    <3>1. CASE UniqueViolation(job[w].item)
      <4> DEFINE j == [job[w] EXCEPT !.phase = "reget"]
      <4>1. job' = [job EXCEPT ![w] = j] /\ line' = line
        BY <2>5, <3>1 DEF Insert
      <4>2. j \in Jobs /\ Ready(j, DOMAIN line)
        BY <3>0 DEF Jobs, Phases, Ready
      <4> HIDE DEF j
      <4> QED
        BY <2>0, <2>5, <4>1, <4>2, OneJob, TypedAgain DEF Insert, TypeOK
    <3>2. CASE ~UniqueViolation(job[w].item)
      <4> DEFINE r == [item |-> job[w].item, quantity |-> job[w].qty]
      <4>1. line' = Append(line, r) /\ Finish(w)
        BY <2>5, <3>2 DEF Insert
      <4>2. r \in Rows
        BY <3>0 DEF Jobs, Rows
      <4> HIDE DEF r
      <4>3. line' \in Seq(Rows) /\ DOMAIN line \subseteq DOMAIN line'
        BY <2>0, <4>1, <4>2
      <4> QED
        BY <2>5, <4>1, <4>3, FinishOneJob, TypedAgain DEF Insert, TypeOK
    <3> QED
      BY <3>1, <3>2
  <2>6. ASSUME NEW w \in Workers, Save(w) PROVE TypeOK'
    <3>1. job[w].pk \in DOMAIN line /\ job[w].qty \in Nat
      BY <2>0, <2>6 DEF Save, Ready, TypeOK, Jobs
    <3>2. line' \in Seq(Rows) /\ DOMAIN line' = DOMAIN line
      BY <2>0, <2>6, <3>1, QuantityChanged DEF Save
    <3> QED
      BY <2>6, <3>2, FinishOneJob, TypedAgain DEF Save, TypeOK
  <2>7. ASSUME NEW w \in Workers, SaveSession(w) PROVE TypeOK'
    <3>1. job[w].entries \in Quantities
      BY DEF TypeOK, Jobs
    <3> QED
      BY <2>0, <2>7, <3>1, Sentinels, OneJob, TypedAgain DEF SaveSession, TypeOK
  <2>8. ASSUME NEW w \in Workers, Fail(w) PROVE TypeOK'
    BY <2>0, <2>8, Sentinels, OneJob, TypedAgain DEF Fail, TypeOK
  <2>9. ASSUME NEW w \in Workers, StartLogin(w) PROVE TypeOK'
    <3> DEFINE j == [NoJob EXCEPT !.phase = "login", !.entries = session, !.key = sessionKey,
                                  !.login = TRUE]
    <3>1. job' = [job EXCEPT ![w] = j] /\ requests' = requests + 1
      BY <2>9 DEF StartLogin, Begin
    <3>2. j \in Jobs /\ Ready(j, DOMAIN line)
      BY Sentinels DEF NoJob, Jobs, Phases, Ready, TypeOK
    <3> HIDE DEF j
    <3> QED
      BY <2>0, <2>9, <3>1, <3>2, OneJob, TypedAgain DEF StartLogin, TypeOK
  <2>10. ASSUME NEW w \in Workers, SignIn(w) PROVE TypeOK'
    <3> DEFINE j == [job[w] EXCEPT !.phase = "merge"]
    <3>1. job' = [job EXCEPT ![w] = j] /\ session' \in Quantities /\ sessionKey' \in Nat
      BY <2>10, Sentinels DEF SignIn, TypeOK
    <3>2. j \in Jobs /\ Ready(j, DOMAIN line)
      BY DEF Jobs, Phases, Ready, TypeOK
    <3> HIDE DEF j
    <3> QED
      BY <2>0, <2>10, <3>1, <3>2, OneJob, TypedAgain DEF SignIn, TypeOK
  <2>11. ASSUME NEW w \in Workers, EndMerge(w) PROVE TypeOK'
    BY <2>0, <2>11, Sentinels, OneJob, TypedAgain DEF EndMerge, TypeOK
  <2>12. ASSUME NEW w \in Workers, NEW i \in Items, MergeEntry(w, i) PROVE TypeOK'
    <3> DEFINE item == IF i \in active THEN i ELSE Plain(i)
               rest == [job[w].entries EXCEPT ![i] = 0]
               q == job[w].entries[i]
    <3>1. item \in Items /\ job[w] \in Jobs /\ q \in Nat /\ q > 0 /\ rest \in Quantities
      BY <2>12, CartAssumption DEF MergeEntry, TypeOK, Jobs, Quantities
    <3>2. CASE Plain(i) \in active
      <4> DEFINE j == [job[w] EXCEPT !.phase = "get", !.item = item, !.qty = q, !.entries = rest]
      <4>1. job' = [job EXCEPT ![w] = j] /\ asked' = [asked EXCEPT ![item] = @ + q]
        BY <2>12, <3>2 DEF MergeEntry
      <4> HIDE DEF item, rest, q
      <4>2. j \in Jobs /\ Ready(j, DOMAIN line)
        BY <3>1 DEF Jobs, Phases, Ready
      <4>3. asked' \in Quantities
        BY <3>1, <4>1, MoreUnits DEF TypeOK
      <4> HIDE DEF j
      <4> QED
        BY <2>0, <2>12, <4>1, <4>2, <4>3, OneJob, TypedAgain DEF MergeEntry, TypeOK
    <3>3. CASE Plain(i) \notin active
      <4> DEFINE j == [job[w] EXCEPT !.entries = rest]
      <4>1. job' = [job EXCEPT ![w] = j] /\ UNCHANGED asked
        BY <2>12, <3>3 DEF MergeEntry
      <4> HIDE DEF item, rest, q
      <4>2. j \in Jobs /\ Ready(j, DOMAIN line)
        BY <2>0, <3>1 DEF Jobs, Phases, Ready
      <4> HIDE DEF j
      <4> QED
        BY <2>0, <2>12, <4>1, <4>2, OneJob, TypedAgain DEF MergeEntry, TypeOK
    <3> QED
      BY <3>2, <3>3
  <2>13. ASSUME NEW n \in DOMAIN line, Remove(n) PROVE TypeOK'
    <3>1. line' \in Seq(Rows) /\ DOMAIN line' = DOMAIN line
      BY <2>0, <2>13, QuantityChanged DEF Remove
    <3> QED
      BY <2>0, <2>13, <3>1, TypedAgain DEF Remove, TypeOK
  <2>14. ASSUME Clear PROVE TypeOK'
    <3>1. line' = [n \in 1..Len(line) |-> [line[n] EXCEPT !.quantity = 0]]
      BY <2>0, <2>14 DEF Clear
    <3>2. \A n \in 1..Len(line) : [line[n] EXCEPT !.quantity = 0] \in Rows
      <4> SUFFICES ASSUME NEW n \in 1..Len(line)
                   PROVE  [line[n] EXCEPT !.quantity = 0] \in Rows
        OBVIOUS
      <4>1. line[n] \in Rows
        BY <2>0, ElementOfSeq
      <4> QED
        BY <4>1 DEF Rows
    <3>3. line' \in Seq(Rows) /\ DOMAIN line' = DOMAIN line
      BY <2>0, <3>1, <3>2
    <3> QED
      BY <2>0, <2>14, <3>3, TypedAgain DEF Clear, TypeOK
  <2>15. ASSUME NEW i \in Items, ToggleActive(i) PROVE TypeOK'
    BY <2>0, <2>15, TypedAgain DEF ToggleActive, TypeOK
  <2>16. CASE UNCHANGED vars
    BY <2>0, <2>16, TypedAgain DEF vars, TypeOK
  <2> QED
    BY <2>1, <2>2, <2>3, <2>4, <2>5, <2>6, <2>7, <2>8, <2>9, <2>10, <2>11, <2>12, <2>13,
       <2>14, <2>15, <2>16 DEF Next
<1> QED
  BY <1>1, <1>2, PTL DEF Spec

-----------------------------------------------------------------------------
(* How a step changes the table of rows: a new row at its end, the quantity *)
(* of a live row, or every quantity set to 0.                               *)

Inserted == \E w \in Workers :
  /\ ~UniqueViolation(job[w].item)
  /\ line' = Append(line, [item |-> job[w].item, quantity |-> job[w].qty])

Rewritten == \E n \in DOMAIN line, q \in Nat :
  /\ line[n].quantity > 0
  /\ line' = [line EXCEPT ![n].quantity = q]

Emptied == line' = [n \in DOMAIN line |-> [line[n] EXCEPT !.quantity = 0]]

\* A step inserts one row, rewrites one, deletes some, or leaves the rows alone.
LEMMA RowChanges ==
  ASSUME TypeOK, [Next]_vars
  PROVE  line' = line \/ Inserted \/ Rewritten \/ Emptied
<1>1. ASSUME NEW w \in Workers, Insert(w) PROVE line' = line \/ Inserted
  <2>1. CASE UniqueViolation(job[w].item)
    BY <1>1, <2>1 DEF Insert
  <2>2. CASE ~UniqueViolation(job[w].item)
    BY <1>1, <2>2 DEF Insert, Inserted
  <2> QED
    BY <2>1, <2>2
<1>2. ASSUME NEW w \in Workers, Save(w) PROVE Rewritten
  <2>1. job[w].pk \in DOMAIN line /\ job[w].qty \in Nat
    BY <1>2 DEF Save, TypeOK, Jobs
  <2> QED
    BY <1>2, <2>1 DEF Save, Rewritten
<1>3. ASSUME NEW n \in DOMAIN line, Remove(n) PROVE Rewritten
  BY <1>3 DEF Remove, Rewritten
<1>4. ASSUME Clear PROVE Emptied
  BY <1>4 DEF Clear, Emptied
<1>5. ASSUME NEW w \in Workers, NEW i \in Items, NEW q \in 1..MaxQty,
             StartAdd(w, i, q) \/ StartSessionAdd(w, i, q)
      PROVE  line' = line
  BY <1>5 DEF StartAdd, StartSessionAdd
<1>6. ASSUME NEW w \in Workers, NEW n \in DOMAIN line, NEW q \in 1..MaxQty, StartUpdate(w, n, q)
      PROVE  line' = line
  BY <1>6 DEF StartUpdate
<1>7. ASSUME NEW w \in Workers,
             Get(w) \/ SaveSession(w) \/ StartLogin(w) \/ SignIn(w) \/ EndMerge(w) \/ Fail(w)
      PROVE  line' = line
  BY <1>7 DEF Get, SaveSession, StartLogin, SignIn, EndMerge, Fail
<1>8. ASSUME NEW w \in Workers, NEW i \in Items, MergeEntry(w, i) PROVE line' = line
  BY <1>8 DEF MergeEntry
<1>9. ASSUME NEW i \in Items, ToggleActive(i) PROVE line' = line
  BY <1>9 DEF ToggleActive
<1>10. CASE UNCHANGED vars
  BY <1>10 DEF vars
<1> QED
  BY <1>1, <1>2, <1>3, <1>4, <1>5, <1>6, <1>7, <1>8, <1>9, <1>10 DEF Next

\* The rows are a table of typed rows.
LEMMA TypedRows ==
  ASSUME TypeOK
  PROVE  line \in Seq(Rows) /\ \A n \in DOMAIN line : n \in Nat /\ line[n] \in Rows
<1>1. line \in Seq(Rows)
  BY DEF TypeOK, Rows
<1> QED
  BY <1>1, RowOfTable

(* A live row of an item after the step was a live row of it before, or the *)
(* step inserted it, which for a variant needs that there was none.         *)
LEMMA LiveAfter ==
  ASSUME TypeOK, [Next]_vars, NEW i \in Items, HasVariant(i)
  PROVE  \/ Live(i)' \subseteq Live(i)
         \/ Live(i)' \subseteq {Len(line) + 1}
<1>1. CASE line' = line
  BY <1>1 DEF Live
<1>2. ASSUME NEW w \in Workers, ~UniqueViolation(job[w].item),
             line' = Append(line, [item |-> job[w].item, quantity |-> job[w].qty])
      PROVE  Live(i)' \subseteq Live(i) \/ Live(i)' \subseteq {Len(line) + 1}
  <2> DEFINE r == [item |-> job[w].item, quantity |-> job[w].qty]
  <2>1. DOMAIN line = 1..Len(line) /\ Len(line) \in Nat
    BY TypedRows, LenProperties
  <2>2. /\ DOMAIN line' = 1..(Len(line) + 1)
        /\ \A n \in 1..Len(line) : line'[n] = line[n]
        /\ line'[Len(line) + 1].item = job[w].item
    BY <1>2, TypedRows
  <2>3. ASSUME NEW n \in Live(i)', n # Len(line) + 1 PROVE n \in Live(i)
    BY <2>1, <2>2, <2>3 DEF Live
  <2>4. CASE job[w].item = i
    <3>1. Live(i) = {}
      BY <1>2, <2>4 DEF UniqueViolation
    <3> QED
      BY <2>3, <3>1
  <2>5. CASE job[w].item # i
    <3>1. Len(line) + 1 \notin Live(i)'
      BY <2>2, <2>5 DEF Live
    <3> QED
      BY <2>3, <3>1
  <2> QED
    BY <2>4, <2>5
<1>3. ASSUME NEW n \in DOMAIN line, NEW q \in Nat, line[n].quantity > 0,
             line' = [line EXCEPT ![n].quantity = q]
      PROVE  Live(i)' \subseteq Live(i)
  <2>1. /\ DOMAIN line' = DOMAIN line
        /\ line'[n].item = line[n].item
        /\ \A m \in DOMAIN line : m # n => line'[m] = line[m]
    BY <1>3, TypedRows, QuantityChanged
  <2> SUFFICES ASSUME NEW m \in Live(i)' PROVE m \in Live(i)
    OBVIOUS
  <2>2. m \in DOMAIN line' /\ line'[m].item = i /\ line'[m].quantity > 0
    BY DEF Live
  <2>3. CASE m = n
    BY <1>3, <2>1, <2>2, <2>3 DEF Live
  <2>4. CASE m # n
    BY <2>1, <2>2, <2>4 DEF Live
  <2> QED
    BY <2>3, <2>4
<1>4. CASE Emptied
  <2>1. ASSUME NEW n \in DOMAIN line' PROVE line'[n].quantity = 0
    <3>1. n \in DOMAIN line /\ line'[n] = [line[n] EXCEPT !.quantity = 0]
      BY <1>4 DEF Emptied
    <3>2. line[n] \in Rows
      BY <3>1, TypedRows
    <3> QED
      BY <3>1, <3>2 DEF Rows
  <2>2. Live(i)' = {}
    BY <2>1 DEF Live
  <2> QED
    BY <2>2
<1> QED
  BY <1>1, <1>2, <1>3, <1>4, RowChanges DEF Inserted, Rewritten

(* Two live rows of one variant are the same row.                           *)
Distinct == \A i \in Items : HasVariant(i) => \A m, n \in Live(i) : m = n

(* Concurrent additions of a variant end up on one line.                    *)
THEOREM VariantOnOneLine == Spec => []OneLinePerVariant
<1>1. Init => Distinct
  BY DEF Init, Distinct, Live
<1>2. TypeOK /\ Distinct /\ [Next]_vars => Distinct'
  <2> SUFFICES ASSUME TypeOK, Distinct, [Next]_vars, NEW i \in Items, HasVariant(i),
                      NEW m \in Live(i)', NEW n \in Live(i)'
               PROVE  m = n
    BY DEF Distinct
  <2> QED
    BY LiveAfter DEF Distinct
<1>3. Distinct => OneLinePerVariant
  <2> SUFFICES ASSUME Distinct, NEW i \in Items, HasVariant(i) PROVE Cardinality(Live(i)) <= 1
    BY DEF OneLinePerVariant
  <2>1. CASE Live(i) = {}
    BY <2>1, FS_EmptySet
  <2>2. ASSUME NEW n \in Live(i) PROVE Cardinality(Live(i)) <= 1
    <3>1. Live(i) = {n}
      BY <2>2 DEF Distinct
    <3>2. Cardinality({n}) = 1
      BY FS_Singleton
    <3> HIDE DEF Live
    <3>3. Cardinality(Live(i)) = 1
      BY <3>1, <3>2
    <3> QED
      BY <3>3
  <2> QED
    BY <2>1, <2>2
<1> QED
  BY <1>1, <1>2, <1>3, TypeCorrect, PTL DEF Spec

(* A request that read a line before it was removed does not restore it.    *)
THEOREM NoLineComesBack == Spec => RemovedStaysRemoved
<1>1. TypeOK /\ [Next]_vars =>
        [\A n \in DOMAIN line : line[n].quantity = 0 => line'[n].quantity = 0]_vars
  <2> SUFFICES ASSUME TypeOK, [Next]_vars, NEW n \in DOMAIN line, line[n].quantity = 0
               PROVE  line'[n].quantity = 0
    OBVIOUS
  <2>1. CASE line' = line
    BY <2>1
  <2>2. CASE Inserted
    BY <2>2, TypedRows, LenProperties DEF Inserted
  <2>3. CASE Rewritten
    <3>1. PICK m \in DOMAIN line, q \in Nat :
            line[m].quantity > 0 /\ line' = [line EXCEPT ![m].quantity = q]
      BY <2>3 DEF Rewritten
    <3> QED
      BY <3>1
  <2>4. CASE Emptied
    <3>1. line'[n] = [line[n] EXCEPT !.quantity = 0] /\ line[n] \in Rows
      BY <2>4, TypedRows DEF Emptied
    <3> QED
      BY <3>1 DEF Rows
  <2> QED
    BY <2>1, <2>2, <2>3, <2>4, RowChanges
<1> QED
  BY <1>1, TypeCorrect, PTL DEF Spec, RemovedStaysRemoved

-----------------------------------------------------------------------------
(* Nothing is invented.  Beside each row goes an account of the units that  *)
(* requests for it have brought to it; rows and the totals that requests    *)
(* are about to save stay within it, however the requests interleave.       *)

Account == [item : Items, units : Nat]
UnitsFor(i) == [a \in Account |-> IF a.item = i THEN a.units ELSE 0]

(* What a request has been asked for and not yet brought to any row.        *)
PendingFor(j, i) == IF j.phase \in {"get", "insert", "reget"} /\ j.item = i THEN j.qty ELSE 0
PendingSum(jobs, i) == SumOf([w \in Workers |-> PendingFor(jobs[w], i)])

Books(b, rows, jobs, wanted) ==
  /\ b \in Seq(Account) /\ Len(b) = Len(rows)
  /\ \A n \in DOMAIN rows : b[n].item = rows[n].item /\ rows[n].quantity <= b[n].units
  /\ \A w \in Workers : jobs[w].phase = "save" => jobs[w].qty <= b[jobs[w].pk].units
  /\ \A i \in Items : TableTotal(UnitsFor(i), b) + PendingSum(jobs, i) <= wanted[i]

Accounted == \E b : Books(b, line, job, asked)

\* The units of an account that count for an item.
LEMMA UnitsForType ==
  ASSUME NEW i \in Items
  PROVE  /\ UnitsFor(i) \in [Account -> Int]
         /\ \A a \in Account : UnitsFor(i)[a] = IF a.item = i THEN a.units ELSE 0
BY DEF UnitsFor, Account

\* The units a job has been asked for and not written are a number.
LEMMA PendingType ==
  ASSUME NEW j \in Jobs, NEW i \in Items
  PROVE  PendingFor(j, i) \in Nat
BY DEF PendingFor, Jobs

\* So are those of all jobs together.
LEMMA PendingSumType ==
  ASSUME NEW jobs \in [Workers -> Jobs], NEW i \in Items
  PROVE  PendingSum(jobs, i) \in Nat
<1> DEFINE f == [w \in Workers |-> PendingFor(jobs[w], i)]
<1>1. DOMAIN f = Workers /\ IsFiniteSet(Workers) /\ \A w \in Workers : f[w] \in Nat
  BY PendingType, CartAssumption
<1> HIDE DEF f
<1>2. SumOf(f) \in Nat
  BY <1>1, SumType
<1> QED
  BY <1>2 DEF PendingSum, f

(* One request changes.                                                    *)
LEMMA PendingChange ==
  ASSUME NEW jobs \in [Workers -> Jobs], NEW w \in Workers, NEW j \in Jobs, NEW i \in Items
  PROVE  PendingSum([jobs EXCEPT ![w] = j], i)
           = PendingSum(jobs, i) - PendingFor(jobs[w], i) + PendingFor(j, i)
<1> DEFINE f == [v \in Workers |-> PendingFor(jobs[v], i)]
           other == [jobs EXCEPT ![w] = j]
           g == [v \in Workers |-> PendingFor(other[v], i)]
<1>1. f \in [Workers -> Int] /\ f[w] = PendingFor(jobs[w], i)
  BY PendingType
<1>2. other \in [Workers -> Jobs] /\ other[w] = j /\ \A v \in Workers \ {w} : other[v] = jobs[v]
  OBVIOUS
<1> HIDE DEF other
<1>3. /\ g \in [Workers -> Int] /\ g[w] = PendingFor(j, i)
      /\ \A v \in Workers \ {w} : g[v] = f[v]
  BY <1>2, PendingType
<1> HIDE DEF f, g
<1>4. SumOf(g) = SumOf(f) - f[w] + g[w]
  BY <1>1, <1>3, SumChanged, CartAssumption
<1>5. PendingSum(other, i) = SumOf(g) /\ PendingSum(jobs, i) = SumOf(f)
  BY DEF PendingSum, f, g
<1> QED
  BY <1>1, <1>3, <1>4, <1>5 DEF other

(* A request moves on and brings nothing to a row: what it still has to     *)
(* bring grows by no more than what the cart was asked for.                 *)
LEMMA BooksKept ==
  ASSUME NEW jobs \in [Workers -> Jobs], NEW w \in Workers, NEW j \in Jobs,
         NEW rows \in Seq(Rows), NEW others \in Seq(Rows), DOMAIN others = DOMAIN rows,
         NEW wanted \in Quantities, NEW asks \in Quantities, NEW b,
         Books(b, rows, jobs, wanted), j.phase # "save",
         \A n \in DOMAIN rows : others[n].item = rows[n].item /\ others[n].quantity <= b[n].units,
         \A i \in Items : PendingFor(j, i) + wanted[i] <= PendingFor(jobs[w], i) + asks[i]
  PROVE  Books(b, others, [jobs EXCEPT ![w] = j], asks)
<1> DEFINE after == [jobs EXCEPT ![w] = j]
<1>1. after \in [Workers -> Jobs] /\ after[w] = j /\ \A v \in Workers \ {w} : after[v] = jobs[v]
  OBVIOUS
<1>2. b \in Seq(Account) /\ Len(b) = Len(others)
  <2>1. DOMAIN rows = 1..Len(rows) /\ DOMAIN others = 1..Len(others)
        /\ Len(rows) \in Nat /\ Len(others) \in Nat
    BY LenProperties
  <2>2. Len(others) = Len(rows)
    BY <2>1
  <2> QED
    BY <2>2 DEF Books
<1>3. \A i \in Items : TableTotal(UnitsFor(i), b) + PendingSum(after, i) <= asks[i]
  <2> SUFFICES ASSUME NEW i \in Items
               PROVE  TableTotal(UnitsFor(i), b) + PendingSum(after, i) <= asks[i]
    OBVIOUS
  <2>1. TableTotal(UnitsFor(i), b) \in Int
    BY <1>2, UnitsForType, TableTotalInt
  <2>2. PendingSum(jobs, i) \in Nat /\ PendingFor(j, i) \in Nat /\ PendingFor(jobs[w], i) \in Nat
    BY PendingSumType, PendingType
  <2>3. PendingSum(after, i) = PendingSum(jobs, i) - PendingFor(jobs[w], i) + PendingFor(j, i)
    BY PendingChange
  <2>4. wanted[i] \in Nat /\ asks[i] \in Nat
    BY DEF Quantities
  <2>5. TableTotal(UnitsFor(i), b) + PendingSum(jobs, i) <= wanted[i]
    BY DEF Books
  <2>6. PendingFor(j, i) + wanted[i] <= PendingFor(jobs[w], i) + asks[i]
    OBVIOUS
  <2> HIDE DEF after
  <2> QED
    BY <2>1, <2>2, <2>3, <2>4, <2>5, <2>6
<1> HIDE DEF after
<1>4. \A v \in Workers : after[v].phase = "save" => after[v].qty <= b[after[v].pk].units
  BY <1>1 DEF Books
<1>5. Books(b, others, after, asks)
  BY <1>2, <1>3, <1>4 DEF Books
<1> QED
  BY <1>5 DEF after

(* A request brings q units to row n, and is about to save them with what   *)
(* it found there.                                                          *)
LEMMA BooksRaised ==
  ASSUME NEW jobs \in [Workers -> Jobs], NEW w \in Workers, NEW j \in Jobs,
         NEW rows \in Seq(Rows), NEW wanted \in Quantities, NEW asks \in Quantities, NEW b,
         Books(b, rows, jobs, wanted),
         NEW n \in DOMAIN rows, NEW q \in Nat,
         \A v \in Workers : jobs[v].phase = "save" => jobs[v].pk \in DOMAIN rows,
         j.phase = "save", j.pk = n, j.qty <= rows[n].quantity + q,
         \A i \in Items : (IF i = rows[n].item THEN q ELSE 0) + wanted[i]
                            <= PendingFor(jobs[w], i) + asks[i]
  PROVE  \E c : Books(c, rows, [jobs EXCEPT ![w] = j], asks)
<1> DEFINE after == [jobs EXCEPT ![w] = j]
           a == [item |-> b[n].item, units |-> b[n].units + q]
           c == [b EXCEPT ![n] = a]
<1>1. after[w] = j /\ \A v \in Workers \ {w} : after[v] = jobs[v]
  OBVIOUS
<1>2. /\ b \in Seq(Account) /\ Len(b) \in Nat
      /\ DOMAIN b = 1..Len(b) /\ DOMAIN rows = 1..Len(b)
  BY LenProperties DEF Books
<1>3. n \in DOMAIN b /\ n \in 1..Len(b)
  BY <1>2
<1>4. b[n] \in Account /\ rows[n] \in Rows
  BY <1>2, <1>3, RowOfTable
<1>5. /\ a \in Account /\ a.item = rows[n].item /\ a.units = b[n].units + q
      /\ b[n].item = rows[n].item /\ rows[n].quantity <= b[n].units
      /\ b[n].units \in Nat /\ rows[n].quantity \in Nat
  BY <1>4 DEF Account, Rows, Books
<1> HIDE DEF a, after
<1>6. /\ c \in Seq(Account) /\ Len(c) = Len(b)
      /\ \A m \in 1..Len(b) : c[m] = IF m = n THEN a ELSE b[m]
  BY <1>2, <1>3, <1>5, ExceptSeq
<1>7. \A i \in Items : TableTotal(UnitsFor(i), c) + PendingSum(after, i) <= asks[i]
  <2> SUFFICES ASSUME NEW i \in Items
               PROVE  TableTotal(UnitsFor(i), c) + PendingSum(after, i) <= asks[i]
    OBVIOUS
  <2> DEFINE f == UnitsFor(i)
  <2>1. f \in [Account -> Int] /\ f[a] = (IF a.item = i THEN a.units ELSE 0)
        /\ f[b[n]] = (IF b[n].item = i THEN b[n].units ELSE 0)
    BY <1>4, <1>5, UnitsForType
  <2> HIDE DEF f
  <2>2. TableTotal(f, b) \in Int /\ TableTotal(f, c) = TableTotal(f, b) - f[b[n]] + f[a]
    <3>1. TableTotal(f, b) \in Int
      BY <1>2, <2>1, TableTotalInt
    <3>2. f \in [Account -> Int] /\ b \in Seq(Account) /\ n \in DOMAIN b /\ a \in Account
      BY <1>2, <1>3, <1>5, <2>1
    <3>3. TableTotal(f, [b EXCEPT ![n] = a]) = TableTotal(f, b) - f[b[n]] + f[a]
      BY ONLY <3>2, TableTotalChanged
    <3> QED
      BY <3>1, <3>3
  <2>3. TableTotal(f, c) = TableTotal(f, b) + (IF i = rows[n].item THEN q ELSE 0)
    BY <1>5, <2>1, <2>2
  <2>4. PendingSum(jobs, i) \in Nat /\ PendingFor(jobs[w], i) \in Nat /\ PendingFor(j, i) = 0
    BY PendingSumType, PendingType DEF PendingFor
  <2>5. PendingSum(after, i) = PendingSum(jobs, i) - PendingFor(jobs[w], i)
    <3>1. PendingSum(after, i) = PendingSum(jobs, i) - PendingFor(jobs[w], i) + PendingFor(j, i)
      BY PendingChange DEF after
    <3> QED
      BY <2>4, <3>1
  <2>6. wanted[i] \in Nat /\ asks[i] \in Nat
    BY DEF Quantities
  <2>7. TableTotal(f, b) + PendingSum(jobs, i) <= wanted[i]
    BY DEF Books, f
  <2>8. (IF i = rows[n].item THEN q ELSE 0) + wanted[i] <= PendingFor(jobs[w], i) + asks[i]
    OBVIOUS
  <2> DEFINE more == IF i = rows[n].item THEN q ELSE 0
  <2>9. more \in Nat
    OBVIOUS
  <2> HIDE DEF more
  <2>10. TableTotal(f, c) + PendingSum(after, i) <= asks[i]
    BY <2>2, <2>3, <2>4, <2>5, <2>6, <2>7, <2>8, <2>9 DEF more
  <2> QED
    BY <2>10 DEF f
<1> HIDE DEF c
<1>8. \A m \in DOMAIN rows : c[m].item = rows[m].item /\ rows[m].quantity <= c[m].units
  <2> SUFFICES ASSUME NEW m \in DOMAIN rows
               PROVE  c[m].item = rows[m].item /\ rows[m].quantity <= c[m].units
    OBVIOUS
  <2>1. CASE m = n
    BY <1>2, <1>5, <1>6, <2>1
  <2>2. CASE m # n
    BY <1>2, <1>6, <2>2 DEF Books
  <2> QED
    BY <2>1, <2>2
<1>9. ASSUME NEW v \in Workers, after[v].phase = "save"
      PROVE  after[v].qty <= c[after[v].pk].units
  <2>1. CASE v = w
    <3>1. c[n].units = b[n].units + q /\ j.qty \in Nat
      BY <1>2, <1>3, <1>5, <1>6 DEF Jobs
    <3>2. j.qty <= rows[n].quantity + q
      OBVIOUS
    <3>3. j.qty <= c[n].units
      BY <1>5, <3>1, <3>2
    <3> QED
      BY <1>1, <2>1, <3>3
  <2>2. CASE v # w
    <3> DEFINE m == jobs[v].pk
    <3>1. after[v] = jobs[v] /\ m \in 1..Len(b) /\ jobs[v].qty <= b[m].units /\ jobs[v].qty \in Nat
      BY <1>1, <1>2, <1>9, <2>2 DEF Books, Jobs
    <3>2. b[m].units \in Nat
      <4>1. b[m] \in Account
        BY <1>2, <3>1, RowOfTable
      <4> QED
        BY <4>1 DEF Account
    <3> HIDE DEF m
    <3>3. jobs[v].qty <= c[m].units
      BY <1>5, <1>6, <3>1, <3>2
    <3> QED
      BY <3>1, <3>3 DEF m
  <2> QED
    BY <2>1, <2>2
<1>10. Len(c) = Len(rows)
  BY <1>6 DEF Books
<1>11. Books(c, rows, after, asks)
  BY <1>6, <1>7, <1>8, <1>9, <1>10 DEF Books
<1> QED
  BY <1>11 DEF after

(* A request inserts its row.                                              *)
LEMMA BooksOpened ==
  ASSUME NEW jobs \in [Workers -> Jobs], NEW w \in Workers, NEW j \in Jobs,
         NEW rows \in Seq(Rows), NEW wanted \in Quantities, NEW b,
         Books(b, rows, jobs, wanted), NEW r \in Rows,
         \A v \in Workers : jobs[v].phase = "save" => jobs[v].pk \in DOMAIN rows,
         j.phase # "save",
         \A i \in Items : (IF i = r.item THEN r.quantity ELSE 0) + PendingFor(j, i)
                            <= PendingFor(jobs[w], i)
  PROVE  \E c : Books(c, Append(rows, r), [jobs EXCEPT ![w] = j], wanted)
<1> DEFINE after == [jobs EXCEPT ![w] = j]
           more == Append(rows, r)
           a == [item |-> r.item, units |-> r.quantity]
           c == Append(b, a)
<1>1. after[w] = j /\ \A v \in Workers \ {w} : after[v] = jobs[v]
  OBVIOUS
<1>2. /\ b \in Seq(Account) /\ Len(b) \in Nat /\ Len(rows) = Len(b)
      /\ DOMAIN b = 1..Len(b) /\ DOMAIN rows = 1..Len(b)
  BY LenProperties DEF Books
<1>3. a \in Account /\ a.item = r.item /\ a.units = r.quantity /\ r.quantity \in Nat
  BY DEF Account, Rows
<1>4. /\ more \in Seq(Rows) /\ Len(more) = Len(b) + 1 /\ DOMAIN more = 1..(Len(b) + 1)
      /\ more[Len(b) + 1] = r /\ \A m \in 1..Len(b) : more[m] = rows[m]
  BY <1>2
<1> HIDE DEF a, after, more
<1>5. /\ c \in Seq(Account) /\ Len(c) = Len(b) + 1
      /\ c[Len(b) + 1] = a /\ \A m \in 1..Len(b) : c[m] = b[m]
  BY <1>2, <1>3
<1>6. \A i \in Items : TableTotal(UnitsFor(i), c) + PendingSum(after, i) <= wanted[i]
  <2> SUFFICES ASSUME NEW i \in Items
               PROVE  TableTotal(UnitsFor(i), c) + PendingSum(after, i) <= wanted[i]
    OBVIOUS
  <2> DEFINE f == UnitsFor(i)
             q == IF i = r.item THEN r.quantity ELSE 0
  <2>1. f \in [Account -> Int] /\ f[a] = q
    BY <1>3, UnitsForType
  <2>2. q \in Nat
    BY <1>3
  <2>3. PendingSum(jobs, i) \in Nat /\ PendingFor(jobs[w], i) \in Nat /\ PendingFor(j, i) \in Nat
    BY PendingSumType, PendingType
  <2>4. PendingSum(after, i) = PendingSum(jobs, i) - PendingFor(jobs[w], i) + PendingFor(j, i)
    BY PendingChange DEF after
  <2>5. wanted[i] \in Nat
    BY DEF Quantities
  <2>6. TableTotal(f, b) + PendingSum(jobs, i) <= wanted[i]
    BY DEF Books
  <2>7. q + PendingFor(j, i) <= PendingFor(jobs[w], i)
    OBVIOUS
  <2> HIDE DEF f, q
  <2>8. TableTotal(f, b) \in Int /\ TableTotal(f, c) = TableTotal(f, b) + f[a]
    BY <1>2, <1>3, <2>1, TableTotalInt, TableTotalAppended
  <2>9. TableTotal(f, c) + PendingSum(after, i) <= wanted[i]
    BY <2>1, <2>2, <2>3, <2>4, <2>5, <2>6, <2>7, <2>8
  <2> QED
    BY <2>9 DEF f
<1> HIDE DEF c
<1>7. \A m \in DOMAIN more : c[m].item = more[m].item /\ more[m].quantity <= c[m].units
  <2> SUFFICES ASSUME NEW m \in DOMAIN more
               PROVE  c[m].item = more[m].item /\ more[m].quantity <= c[m].units
    OBVIOUS
  <2>1. CASE m = Len(b) + 1
    BY <1>3, <1>4, <1>5, <2>1
  <2>2. CASE m # Len(b) + 1
    <3>1. m \in 1..Len(b)
      BY <1>2, <1>4, <2>2
    <3> QED
      BY <1>2, <1>4, <1>5, <3>1 DEF Books
  <2> QED
    BY <2>1, <2>2
<1>8. ASSUME NEW v \in Workers, after[v].phase = "save"
      PROVE  after[v].qty <= c[after[v].pk].units
  <2>1. after[v] = jobs[v] /\ jobs[v].pk \in 1..Len(b) /\ jobs[v].qty <= b[jobs[v].pk].units
    BY <1>1, <1>2, <1>8 DEF Books
  <2> QED
    BY <1>5, <2>1
<1>9. Books(c, more, after, wanted)
  BY <1>4, <1>5, <1>6, <1>7, <1>8 DEF Books
<1> QED
  BY <1>9 DEF after, more

(* Every step can be accounted for.                                        *)
LEMMA AccountedStep == TypeOK /\ TypeOK' /\ Accounted /\ [Next]_vars => Accounted'
<1> SUFFICES ASSUME TypeOK, TypeOK', Accounted, [Next]_vars PROVE Accounted'
  OBVIOUS
<1>0. PICK b : Books(b, line, job, asked)
  BY DEF Accounted
<1>1. /\ line \in Seq(Rows) /\ job \in [Workers -> Jobs] /\ asked \in Quantities
      /\ line' \in Seq(Rows) /\ job' \in [Workers -> Jobs] /\ asked' \in Quantities
      /\ \A v \in Workers : Ready(job[v], DOMAIN line)
  BY DEF TypeOK, Rows, Ready
<1>2. \A v \in Workers : job[v].phase = "save" => job[v].pk \in DOMAIN line
  BY <1>1 DEF Ready
<1>3. ASSUME UNCHANGED <<line, job, asked>> PROVE Accounted'
  BY <1>3 DEF Accounted
<1>4. ASSUME NEW w \in Workers, NEW j \in Jobs, job' = [job EXCEPT ![w] = j],
             DOMAIN line' = DOMAIN line, j.phase # "save",
             \A n \in DOMAIN line : line'[n].item = line[n].item /\ line'[n].quantity <= b[n].units,
             \A i \in Items : PendingFor(j, i) + asked[i] <= PendingFor(job[w], i) + asked'[i]
      PROVE  Accounted'
  BY <1>0, <1>1, <1>4, BooksKept DEF Accounted
<1>5. ASSUME NEW w \in Workers, NEW j \in Jobs, job' = [job EXCEPT ![w] = j],
             line' = line, j.phase # "save",
             \A i \in Items : PendingFor(j, i) + asked[i] <= PendingFor(job[w], i) + asked'[i]
      PROVE  Accounted'
  <2>1. \A n \in DOMAIN line : line'[n].item = line[n].item /\ line'[n].quantity <= b[n].units
    BY <1>0, <1>5 DEF Books
  <2> QED
    BY <1>4, <1>5, <2>1
<1>6. ASSUME NEW w \in Workers, NEW j \in Jobs, job' = [job EXCEPT ![w] = j],
             line' = line, asked' = asked, j.phase \notin {"save", "get", "insert", "reget"}
      PROVE  Accounted'
  <2>1. \A i \in Items : PendingFor(j, i) = 0 /\ PendingFor(job[w], i) \in Nat /\ asked[i] \in Nat
    BY <1>1, <1>6, PendingType DEF PendingFor, Quantities
  <2>2. \A i \in Items : PendingFor(j, i) + asked[i] <= PendingFor(job[w], i) + asked'[i]
    BY <1>6, <2>1
  <2> QED
    BY <1>5, <1>6, <2>2
<1>7. ASSUME NEW w \in Workers, NEW i \in Items, NEW q \in Nat, NEW j \in Jobs,
             job' = [job EXCEPT ![w] = j], line' = line, asked' = [asked EXCEPT ![i] = @ + q],
             j.phase = "get", j.item = i, j.qty = q
      PROVE  Accounted'
  <2> SUFFICES ASSUME NEW k \in Items
               PROVE  PendingFor(j, k) + asked[k] <= PendingFor(job[w], k) + asked'[k]
    BY <1>5, <1>7
  <2>1. PendingFor(j, k) = (IF k = i THEN q ELSE 0) /\ PendingFor(job[w], k) \in Nat
    BY <1>1, <1>7, PendingType DEF PendingFor
  <2>2. asked[k] \in Nat /\ asked'[k] = (IF k = i THEN asked[k] + q ELSE asked[k])
    BY <1>1, <1>7 DEF Quantities
  <2> QED
    BY <2>1, <2>2
<1>8. ASSUME NEW w \in Workers, NEW i \in Items, NEW q \in 1..MaxQty, StartAdd(w, i, q)
      PROVE  Accounted'
  <2> DEFINE j == [NoJob EXCEPT !.phase = "get", !.item = i, !.qty = q]
  <2>1. q \in Nat
    BY CartAssumption
  <2>2. j \in Jobs /\ j.phase = "get" /\ j.item = i /\ j.qty = q
    BY <2>1, Sentinels DEF NoJob, Jobs, Phases
  <2>3. job' = [job EXCEPT ![w] = j] /\ line' = line /\ asked' = [asked EXCEPT ![i] = @ + q]
    BY <1>8 DEF StartAdd, Begin
  <2> HIDE DEF j
  <2> QED
    BY <1>7, <2>1, <2>2, <2>3
<1>9. ASSUME NEW w \in Workers, NEW i \in Items, MergeEntry(w, i) PROVE Accounted'
  <2> DEFINE item == IF i \in active THEN i ELSE Plain(i)
             rest == [job[w].entries EXCEPT ![i] = 0]
             q == job[w].entries[i]
  <2>1. item \in Items /\ job[w] \in Jobs /\ q \in Nat /\ rest \in Quantities
        /\ job[w].phase = "merge" /\ line' = line
    BY <1>1, <1>9, CartAssumption DEF MergeEntry, Jobs, Quantities
  <2>2. CASE Plain(i) \in active
    <3> DEFINE j == [job[w] EXCEPT !.phase = "get", !.item = item, !.qty = q, !.entries = rest]
    <3>1. job' = [job EXCEPT ![w] = j] /\ asked' = [asked EXCEPT ![item] = @ + q]
      BY <1>9, <2>2 DEF MergeEntry
    <3> HIDE DEF item, rest, q
    <3>2. j \in Jobs /\ j.phase = "get" /\ j.item = item /\ j.qty = q
      BY <2>1 DEF Jobs, Phases
    <3> HIDE DEF j
    <3> QED
      BY <1>7, <2>1, <3>1, <3>2
  <2>3. CASE Plain(i) \notin active
    <3> DEFINE j == [job[w] EXCEPT !.entries = rest]
    <3>1. job' = [job EXCEPT ![w] = j] /\ asked' = asked
      BY <1>9, <2>3 DEF MergeEntry
    <3> HIDE DEF rest
    <3>2. j \in Jobs /\ j.phase = "merge"
      BY <2>1 DEF Jobs, Phases
    <3> HIDE DEF j
    <3> QED
      BY <1>6, <2>1, <3>1, <3>2
  <2> QED
    BY <2>2, <2>3
<1>10. ASSUME NEW w \in Workers, NEW n \in DOMAIN line, NEW q \in 1..MaxQty, StartUpdate(w, n, q)
       PROVE  Accounted'
  <2> DEFINE i == line[n].item
             j == [NoJob EXCEPT !.phase = "save", !.item = i, !.pk = n, !.qty = q]
  <2>1. q \in Nat /\ n \in Nat /\ i \in Items /\ line[n].quantity \in Nat
    <3>1. n \in Nat /\ line[n] \in Rows
      BY <1>1, RowOfTable
    <3> QED
      BY <3>1, CartAssumption DEF Rows
  <2>2. j \in Jobs /\ j.phase = "save" /\ j.pk = n /\ j.qty = q
    BY <2>1, Sentinels DEF NoJob, Jobs, Phases
  <2>3. job' = [job EXCEPT ![w] = j] /\ line' = line /\ asked' = [asked EXCEPT ![i] = @ + q]
    BY <1>10 DEF StartUpdate, Begin
  <2> HIDE DEF j
  <2>4. \A k \in Items : (IF k = i THEN q ELSE 0) + asked[k] <= PendingFor(job[w], k) + asked'[k]
    <3> SUFFICES ASSUME NEW k \in Items
                 PROVE  (IF k = i THEN q ELSE 0) + asked[k] <= PendingFor(job[w], k) + asked'[k]
      OBVIOUS
    <3> HIDE DEF i
    <3>1. asked[k] \in Nat /\ asked'[k] = (IF k = i THEN asked[k] + q ELSE asked[k])
      BY <1>1, <2>1, <2>3 DEF Quantities
    <3>2. PendingFor(job[w], k) \in Nat
      BY <1>1, PendingType
    <3> QED
      BY <2>1, <3>1, <3>2
  <2>5. j.qty <= line[n].quantity + q
    BY <2>1, <2>2
  <2>6. \E c : Books(c, line, [job EXCEPT ![w] = j], asked')
    BY <1>0, <1>1, <1>2, <2>1, <2>2, <2>4, <2>5, BooksRaised
  <2> QED
    BY <2>3, <2>6 DEF Accounted
<1>11. ASSUME NEW w \in Workers, Get(w) PROVE Accounted'
  <2>0. line' = line /\ asked' = asked /\ job[w] \in Jobs /\ job[w].phase \in {"get", "reget"}
        /\ job[w].qty \in Nat /\ job[w].item \in Items
    BY <1>1, <1>11 DEF Get, Jobs, Ready
  <2>1. CASE job[w].phase = "get" /\ job' = [job EXCEPT ![w].phase = "insert"]
    <3> DEFINE j == [job[w] EXCEPT !.phase = "insert"]
    <3>1. job' = [job EXCEPT ![w] = j]
      BY <2>1
    <3>2. j \in Jobs /\ j.phase = "insert" /\ j.item = job[w].item /\ j.qty = job[w].qty
      BY <2>0 DEF Jobs, Phases
    <3> HIDE DEF j
    <3>3. \A i \in Items : PendingFor(j, i) = PendingFor(job[w], i)
      BY <2>1, <3>2 DEF PendingFor
    <3>4. \A i \in Items : PendingFor(job[w], i) \in Nat /\ asked[i] \in Nat
      BY <1>1, PendingType DEF Quantities
    <3>5. \A i \in Items : PendingFor(j, i) + asked[i] <= PendingFor(job[w], i) + asked'[i]
      BY <2>0, <3>3, <3>4
    <3> QED
      BY <1>5, <2>0, <3>1, <3>2, <3>5
  <2>2. ASSUME NEW n \in Live(job[w].item),
               job' = [job EXCEPT ![w].phase = "save", ![w].pk = n, ![w].qty = line[n].quantity + @]
        PROVE  Accounted'
    <3> DEFINE q == job[w].qty
               total == line[n].quantity + q
               j == [job[w] EXCEPT !.phase = "save", !.pk = n, !.qty = total]
    <3>1. n \in DOMAIN line /\ line[n].item = job[w].item
      BY DEF Live
    <3>2. n \in Nat /\ line[n].quantity \in Nat
      <4>1. n \in Nat /\ line[n] \in Rows
        BY <1>1, <3>1, RowOfTable
      <4> QED
        BY <4>1 DEF Rows
    <3>3. job' = [job EXCEPT ![w] = j] /\ total \in Nat
      <4>1. job' = [job EXCEPT ![w] = [job[w] EXCEPT !.phase = "save", !.pk = n,
                                                     !.qty = line[n].quantity + @]]
        BY <2>2
      <4>2. [job[w] EXCEPT !.phase = "save", !.pk = n, !.qty = line[n].quantity + @] = j
        BY <2>0 DEF Jobs
      <4>3. total \in Nat
        BY <2>0, <3>2
      <4> QED
        BY <4>1, <4>2, <4>3
    <3> HIDE DEF total
    <3>4. j \in Jobs /\ j.phase = "save" /\ j.pk = n /\ j.qty = total
      BY <2>0, <3>2, <3>3 DEF Jobs, Phases
    <3> HIDE DEF j
    <3>5. \A k \in Items : (IF k = line[n].item THEN q ELSE 0) + asked[k]
                              <= PendingFor(job[w], k) + asked[k]
      <4> SUFFICES ASSUME NEW k \in Items
                   PROVE  (IF k = line[n].item THEN q ELSE 0) + asked[k]
                            <= PendingFor(job[w], k) + asked[k]
        OBVIOUS
      <4>1. PendingFor(job[w], k) = (IF k = line[n].item THEN q ELSE 0)
        BY <2>0, <3>1 DEF PendingFor
      <4>2. asked[k] \in Nat
        BY <1>1 DEF Quantities
      <4> QED
        BY <2>0, <4>1, <4>2
    <3>6. j.qty <= line[n].quantity + q
      BY <2>0, <3>2, <3>3, <3>4 DEF total
    <3>7. \E c : Books(c, line, [job EXCEPT ![w] = j], asked)
      <4> HIDE DEF q
      <4>1. q \in Nat
        BY <2>0 DEF q
      <4> QED
        BY <1>0, <1>1, <1>2, <3>1, <3>4, <3>5, <3>6, <4>1, BooksRaised
    <3> QED
      BY <2>0, <3>3, <3>7 DEF Accounted
  <2> QED
    BY <1>11, <2>1, <2>2 DEF Get
<1>12. ASSUME NEW w \in Workers, Finish(w)
       PROVE  \E j \in Jobs : /\ job' = [job EXCEPT ![w] = j]
                              /\ j.phase \notin {"save", "get", "insert", "reget"}
  <2> DEFINE j == IF job[w].login THEN [job[w] EXCEPT !.phase = "merge"] ELSE NoJob
  <2>1. job' = [job EXCEPT ![w] = j]
    BY <1>1, <1>12 DEF Finish
  <2>2. j \in Jobs /\ j.phase \notin {"save", "get", "insert", "reget"}
    <3>1. CASE job[w].login
      BY <1>1, <3>1 DEF Jobs, Phases
    <3>2. CASE ~job[w].login
      BY <3>2, Sentinels DEF NoJob
    <3> QED
      BY <3>1, <3>2
  <2> QED
    BY <2>1, <2>2
<1>13. ASSUME NEW w \in Workers, Insert(w) PROVE Accounted'
  <2>0. job[w] \in Jobs /\ job[w].phase = "insert" /\ job[w].item \in Items /\ job[w].qty \in Nat
        /\ asked' = asked
    BY <1>1, <1>13 DEF Insert, Ready, Jobs
  <2>1. CASE UniqueViolation(job[w].item)
    <3> DEFINE j == [job[w] EXCEPT !.phase = "reget"]
    <3>1. job' = [job EXCEPT ![w] = j] /\ line' = line
      BY <1>13, <2>1 DEF Insert
    <3>2. j \in Jobs /\ j.phase = "reget" /\ j.item = job[w].item /\ j.qty = job[w].qty
      BY <2>0 DEF Jobs, Phases
    <3> HIDE DEF j
    <3>3. \A i \in Items : PendingFor(j, i) = PendingFor(job[w], i)
      BY <2>0, <3>2 DEF PendingFor
    <3>4. \A i \in Items : PendingFor(job[w], i) \in Nat /\ asked[i] \in Nat
      BY <1>1, PendingType DEF Quantities
    <3>5. \A i \in Items : PendingFor(j, i) + asked[i] <= PendingFor(job[w], i) + asked'[i]
      BY <2>0, <3>3, <3>4
    <3> QED
      BY <1>5, <3>1, <3>2, <3>5
  <2>2. CASE ~UniqueViolation(job[w].item)
    <3> DEFINE r == [item |-> job[w].item, quantity |-> job[w].qty]
    <3>1. line' = Append(line, r) /\ Finish(w)
      BY <1>13, <2>2 DEF Insert
    <3>2. r \in Rows /\ r.item = job[w].item /\ r.quantity = job[w].qty
      BY <2>0 DEF Rows
    <3>3. PICK j \in Jobs : /\ job' = [job EXCEPT ![w] = j]
                            /\ j.phase \notin {"save", "get", "insert", "reget"}
      BY <1>12, <3>1
    <3> HIDE DEF r
    <3>4. \A i \in Items : (IF i = r.item THEN r.quantity ELSE 0) + PendingFor(j, i)
                              <= PendingFor(job[w], i)
      BY <2>0, <3>2, <3>3 DEF PendingFor
    <3>5. \E c : Books(c, Append(line, r), [job EXCEPT ![w] = j], asked)
      BY <1>0, <1>1, <1>2, <3>2, <3>3, <3>4, BooksOpened
    <3> QED
      BY <2>0, <3>1, <3>3, <3>5 DEF Accounted
  <2> QED
    BY <2>1, <2>2
<1>14. ASSUME NEW w \in Workers, Save(w) PROVE Accounted'
  <2> DEFINE n == job[w].pk
             q == job[w].qty
  <2>1. n \in DOMAIN line /\ q \in Nat /\ asked' = asked /\ job[w].phase = "save"
        /\ line' = [line EXCEPT ![n].quantity = q] /\ Finish(w)
    BY <1>1, <1>14 DEF Save, Ready, Jobs
  <2>2. PICK j \in Jobs : /\ job' = [job EXCEPT ![w] = j]
                          /\ j.phase \notin {"save", "get", "insert", "reget"}
    BY <1>12, <2>1
  <2>3. q <= b[n].units
    BY <1>0, <2>1 DEF Books
  <2> HIDE DEF n, q
  <2>4. DOMAIN line' = DOMAIN line
        /\ line'[n].item = line[n].item /\ line'[n].quantity = q
        /\ \A m \in DOMAIN line : m # n => line'[m] = line[m]
    BY <1>1, <2>1, QuantityChanged
  <2>5. ASSUME NEW m \in DOMAIN line
        PROVE  line'[m].item = line[m].item /\ line'[m].quantity <= b[m].units
    <3>1. CASE m = n
      BY <2>3, <2>4, <3>1
    <3>2. CASE m # n
      BY <1>0, <2>4, <3>2 DEF Books
    <3> QED
      BY <3>1, <3>2
  <2>6. \A i \in Items : PendingFor(j, i) = 0 /\ PendingFor(job[w], i) \in Nat /\ asked[i] \in Nat
    BY <1>1, <2>2, PendingType DEF PendingFor, Quantities
  <2>7. \A i \in Items : PendingFor(j, i) + asked[i] <= PendingFor(job[w], i) + asked'[i]
    BY <2>1, <2>6
  <2> QED
    BY <1>4, <2>2, <2>4, <2>5, <2>7
<1>15. ASSUME UNCHANGED <<job, asked>>, DOMAIN line' = DOMAIN line,
              \A n \in DOMAIN line : /\ line'[n].item = line[n].item
                                     /\ line'[n].quantity = line[n].quantity \/ line'[n].quantity = 0
       PROVE  Accounted'
  <2>1. Len(line') = Len(line)
    <3>1. DOMAIN line = 1..Len(line) /\ DOMAIN line' = 1..Len(line')
          /\ Len(line) \in Nat /\ Len(line') \in Nat
      BY <1>1, LenProperties
    <3> QED
      BY <1>15, <3>1
  <2>2. ASSUME NEW n \in DOMAIN line' 
        PROVE  b[n].item = line'[n].item /\ line'[n].quantity <= b[n].units
    <3>1. b[n].item = line[n].item /\ line[n].quantity <= b[n].units /\ n \in DOMAIN line
      BY <1>0, <1>15 DEF Books
    <3>2. b[n].units \in Nat
      <4>1. b \in Seq(Account) /\ DOMAIN b = DOMAIN line
        BY <1>0, <1>1, LenProperties DEF Books
      <4>2. b[n] \in Account
        BY <3>1, <4>1, RowOfTable
      <4> QED
        BY <4>2 DEF Account
    <3> QED
      BY <1>15, <3>1, <3>2
  <2>3. Books(b, line', job', asked')
    BY <1>0, <1>15, <2>1, <2>2 DEF Books
  <2> QED
    BY <2>3 DEF Accounted
<1>16. ASSUME NEW n \in DOMAIN line, Remove(n) PROVE Accounted'
  <2>1. line' = [line EXCEPT ![n].quantity = 0] /\ UNCHANGED <<job, asked>>
    BY <1>16 DEF Remove
  <2>2. DOMAIN line' = DOMAIN line
        /\ line'[n].item = line[n].item /\ line'[n].quantity = 0
        /\ \A m \in DOMAIN line : m # n => line'[m] = line[m]
    BY <1>1, <2>1, QuantityChanged
  <2> QED
    BY <1>15, <2>1, <2>2
<1>17. ASSUME Clear PROVE Accounted'
  <2>1. line' = [n \in DOMAIN line |-> [line[n] EXCEPT !.quantity = 0]] /\ UNCHANGED <<job, asked>>
    BY <1>17 DEF Clear
  <2>2. \A n \in DOMAIN line : line'[n].item = line[n].item /\ line'[n].quantity = 0
    <3> SUFFICES ASSUME NEW n \in DOMAIN line
                 PROVE  line'[n].item = line[n].item /\ line'[n].quantity = 0
      OBVIOUS
    <3>1. line[n] \in Rows
      BY <1>1, RowOfTable
    <3> QED
      BY <2>1, <3>1 DEF Rows
  <2>3. DOMAIN line' = DOMAIN line
    BY <2>1
  <2> QED
    BY <1>15, <2>1, <2>2, <2>3
<1>18. ASSUME NEW w \in Workers, NEW i \in Items, NEW q \in 1..MaxQty, StartSessionAdd(w, i, q)
       PROVE  Accounted'
  <2> DEFINE e == [session EXCEPT ![i] = @ + q]
             j == [NoJob EXCEPT !.phase = "session", !.key = sessionKey, !.entries = e]
  <2>1. job' = [job EXCEPT ![w] = j] /\ line' = line /\ asked' = asked
    BY <1>18 DEF StartSessionAdd, Begin
  <2> HIDE DEF e
  <2>2. job'[w] = j /\ j.phase = "session"
    BY <1>1, <2>1 DEF NoJob
  <2> HIDE DEF j
  <2>3. j \in Jobs
    BY <1>1, <2>2
  <2> QED
    BY <1>6, <2>1, <2>2, <2>3
<1>19. ASSUME NEW w \in Workers, SaveSession(w) \/ Fail(w) \/ EndMerge(w) PROVE Accounted'
  <2>1. job' = [job EXCEPT ![w] = NoJob] /\ line' = line /\ asked' = asked
    BY <1>19 DEF SaveSession, Fail, EndMerge
  <2>2. NoJob.phase = "idle"
    BY DEF NoJob
  <2> QED
    BY <1>6, <2>1, <2>2, Sentinels
<1>20. ASSUME NEW w \in Workers, StartLogin(w) PROVE Accounted'
  <2> DEFINE j == [NoJob EXCEPT !.phase = "login", !.entries = session, !.key = sessionKey,
                                !.login = TRUE]
  <2>1. job' = [job EXCEPT ![w] = j] /\ line' = line /\ asked' = asked
    BY <1>20 DEF StartLogin, Begin
  <2>2. job'[w] = j /\ j.phase = "login"
    BY <1>1, <2>1 DEF NoJob
  <2> HIDE DEF j
  <2>3. j \in Jobs
    BY <1>1, <2>2
  <2> QED
    BY <1>6, <2>1, <2>2, <2>3
<1>21. ASSUME NEW w \in Workers, SignIn(w) PROVE Accounted'
  <2> DEFINE j == [job[w] EXCEPT !.phase = "merge"]
  <2>1. job' = [job EXCEPT ![w] = j] /\ line' = line /\ asked' = asked
    BY <1>21 DEF SignIn
  <2>2. j \in Jobs /\ j.phase = "merge"
    BY <1>1 DEF Jobs, Phases
  <2> HIDE DEF j
  <2> QED
    BY <1>6, <2>1, <2>2
<1>22. ASSUME NEW i \in Items, ToggleActive(i) PROVE Accounted'
  BY <1>3, <1>22 DEF ToggleActive
<1>23. CASE UNCHANGED vars
  BY <1>3, <1>23 DEF vars
<1> QED
  BY <1>8, <1>9, <1>10, <1>11, <1>13, <1>14, <1>16, <1>17, <1>18, <1>19, <1>20, <1>21, <1>22,
     <1>23 DEF Next

(* The cart never holds more of an item than it was asked to hold.         *)
THEOREM NothingAppears == Spec => []NothingInvented
<1>1. Init => Accounted
  <2> SUFFICES ASSUME Init PROVE Accounted
    OBVIOUS
  <2>1. line = <<>> /\ job = [w \in Workers |-> NoJob] /\ asked = Nothing
    BY DEF Init
  <2>2. job \in [Workers -> Jobs] /\ \A w \in Workers : job[w].phase = "idle"
    BY <2>1, Sentinels DEF NoJob
  <2>3. ASSUME NEW i \in Items
        PROVE  TableTotal(UnitsFor(i), <<>>) + PendingSum(job, i) <= asked[i]
    <3> DEFINE f == [w \in Workers |-> PendingFor(job[w], i)]
    <3>1. f \in [Workers -> Nat] /\ \A w \in Workers : f[w] = 0
      BY <2>2 DEF PendingFor
    <3>2. PendingSum(job, i) = SumOf(f)
      BY DEF PendingSum
    <3> HIDE DEF f
    <3>3. SumOf(f) = 0
      BY <3>1, SumOfZeros, CartAssumption
    <3>4. TableTotal(UnitsFor(i), <<>>) = 0 /\ asked[i] = 0
      BY <2>1, TableTotalEmpty DEF Nothing
    <3> QED
      BY <3>2, <3>3, <3>4
  <2>4. Books(<<>>, line, job, asked)
    BY <2>1, <2>2, <2>3 DEF Books
  <2> QED
    BY <2>4 DEF Accounted
<1>2. TypeOK /\ Accounted => NothingInvented
  <2> SUFFICES ASSUME TypeOK, Accounted, NEW i \in Items PROVE Units(i) <= asked[i]
    BY DEF NothingInvented
  <2>1. PICK b : Books(b, line, job, asked)
    BY DEF Accounted
  <2> DEFINE f == [n \in Live(i) |-> line[n].quantity]
             g == [n \in DOMAIN b |-> UnitsFor(i)[b[n]]]
  <2>2. /\ line \in Seq(Rows) /\ job \in [Workers -> Jobs] /\ asked[i] \in Nat
        /\ b \in Seq(Account) /\ DOMAIN b = DOMAIN line /\ DOMAIN b = 1..Len(b) /\ Len(b) \in Nat
    <3>1. line \in Seq(Rows) /\ job \in [Workers -> Jobs] /\ asked[i] \in Nat
      BY DEF TypeOK, Rows, Quantities
    <3> QED
      BY <2>1, <3>1, LenProperties DEF Books
  <2>3. \A n \in DOMAIN b : b[n] \in Account /\ line[n] \in Rows
    BY <2>2, RowOfTable
  <2>4. IsFiniteSet(DOMAIN b) /\ Live(i) \in SUBSET DOMAIN b
    BY <2>2, FS_Interval DEF Live
  <2>5. g \in [DOMAIN b -> Nat]
    BY <2>3 DEF UnitsFor, Account
  <2>6. f \in [Live(i) -> Nat]
    BY <2>3, <2>4 DEF Rows
  <2>7. \A n \in Live(i) : f[n] <= g[n]
    BY <2>1, <2>2, <2>3 DEF UnitsFor, Live, Books
  <2>8. Units(i) = SumOf(f) /\ TableTotal(UnitsFor(i), b) = SumOf(g)
    BY DEF Units, TableTotal, SumOf
  <2>9. TableTotal(UnitsFor(i), b) + PendingSum(job, i) <= asked[i]
    BY <2>1 DEF Books
  <2>10. PendingSum(job, i) \in Nat /\ SumOf(f) \in Int /\ SumOf(g) \in Int
    <3>1. PendingSum(job, i) \in Nat
      BY <2>2, PendingSumType
    <3>2. IsFiniteSet(Live(i))
      BY <2>4, FS_Subset
    <3> HIDE DEF f, g
    <3>3. DOMAIN f = Live(i) /\ (\A n \in DOMAIN f : f[n] \in Int)
          /\ DOMAIN g = DOMAIN b /\ (\A n \in DOMAIN g : g[n] \in Int)
      BY <2>5, <2>6
    <3> QED
      BY <2>4, <3>1, <3>2, <3>3, SumType
  <2> HIDE DEF f, g
  <2>11. SumOf(f) <= SumOf(g)
    BY <2>4, <2>5, <2>6, <2>7, SumMonotone
  <2> QED
    BY <2>2, <2>8, <2>9, <2>10, <2>11
<1> QED
  BY <1>1, <1>2, AccountedStep, TypeCorrect, PTL DEF Spec
=============================================================================

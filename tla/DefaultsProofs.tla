--------------------------- MODULE DefaultsProofs ---------------------------
(***************************************************************************)
(* One default for each purpose, for any set of addresses, flags and       *)
(* requests, and so for saved payment methods, which are a special case.   *)
(***************************************************************************)
EXTENDS PaymentMethods, FiniteSetTheorems, WellFoundedInduction, TLAPS

-----------------------------------------------------------------------------
(* The least and the greatest of finitely many numbers *)

\* A finite set of numbers that had no least member would have a proper subset
\* without one, and so on for ever.
LEMMA HasLeast ==
  ASSUME NEW S \in SUBSET Int, IsFiniteSet(S), S # {}
  PROVE  Min(S) \in S
<1> DEFINE Good(T) == \E x \in T : \A y \in T : x <= y
           Bad == {T \in SUBSET S : T # {} /\ ~Good(T)}
<1>1. ASSUME Bad # {} PROVE FALSE
  <2>1. IsWellFoundedOn(StrictSubsetOrdering(S), SUBSET S)
    BY FS_StrictSubsetOrderingWellFounded, FS_FiniteSubsetsOfFinite
  <2>2. \E T \in Bad : \A U \in Bad : <<U, T>> \notin StrictSubsetOrdering(S)
    <3>1. Bad \in SUBSET (SUBSET S) /\ Bad # {}
      BY <1>1
    <3> HIDE DEF Bad
    <3>2. QED  BY <2>1, <3>1, WFMin
  <2>3. PICK T \in Bad : \A U \in Bad : <<U, T>> \notin StrictSubsetOrdering(S)
    BY <2>2
  <2>4. PICK x \in T : x \in Int
    OBVIOUS
  <2>5. T \ {x} # {} => Good(T \ {x})
    <3>1. <<T \ {x}, T>> \in StrictSubsetOrdering(S)
      BY <2>3, <2>4 DEF StrictSubsetOrdering
    <3>2. T \ {x} \notin Bad
      BY <2>3, <3>1
    <3>3. T \ {x} \in SUBSET S
      BY <2>3
    <3>4. QED  BY <3>2, <3>3
  <2>6. CASE T = {x}
    <3>1. x <= x /\ \A y \in T : x <= y
      BY <2>4, <2>6
    <3>2. QED  BY <2>3, <3>1
  <2>7. CASE T # {x}
    <3>1. PICK y \in T \ {x} : \A z \in T \ {x} : y <= z
      BY <2>4, <2>5, <2>7
    <3>2. \A z \in T : (IF x <= y THEN x ELSE y) <= z
      BY <2>4, <3>1
    <3>3. QED  BY <2>3, <2>4, <3>1, <3>2
  <2>8. QED  BY <2>6, <2>7
<1>2. Good(S)
  BY <1>1
<1>3. QED  BY <1>2 DEF Min

LEMMA HasGreatest ==
  ASSUME NEW S \in SUBSET Int, IsFiniteSet(S), S # {}
  PROVE  Max(S) \in S
<1> DEFINE Good(T) == \E x \in T : \A y \in T : x >= y
           Bad == {T \in SUBSET S : T # {} /\ ~Good(T)}
<1>1. ASSUME Bad # {} PROVE FALSE
  <2>1. IsWellFoundedOn(StrictSubsetOrdering(S), SUBSET S)
    BY FS_StrictSubsetOrderingWellFounded, FS_FiniteSubsetsOfFinite
  <2>2. \E T \in Bad : \A U \in Bad : <<U, T>> \notin StrictSubsetOrdering(S)
    <3>1. Bad \in SUBSET (SUBSET S) /\ Bad # {}
      BY <1>1
    <3> HIDE DEF Bad
    <3>2. QED  BY <2>1, <3>1, WFMin
  <2>3. PICK T \in Bad : \A U \in Bad : <<U, T>> \notin StrictSubsetOrdering(S)
    BY <2>2
  <2>4. PICK x \in T : x \in Int
    OBVIOUS
  <2>5. T \ {x} # {} => Good(T \ {x})
    <3>1. <<T \ {x}, T>> \in StrictSubsetOrdering(S)
      BY <2>3, <2>4 DEF StrictSubsetOrdering
    <3>2. T \ {x} \notin Bad
      BY <2>3, <3>1
    <3>3. T \ {x} \in SUBSET S
      BY <2>3
    <3>4. QED  BY <3>2, <3>3
  <2>6. CASE T = {x}
    <3>1. x >= x /\ \A y \in T : x >= y
      BY <2>4, <2>6
    <3>2. QED  BY <2>3, <3>1
  <2>7. CASE T # {x}
    <3>1. PICK y \in T \ {x} : \A z \in T \ {x} : y >= z
      BY <2>4, <2>5, <2>7
    <3>2. \A z \in T : (IF x >= y THEN x ELSE y) >= z
      BY <2>4, <3>1
    <3>3. QED  BY <2>3, <2>4, <3>1, <3>2
  <2>8. QED  BY <2>6, <2>7
<1>2. Good(S)
  BY <1>1
<1>3. QED  BY <1>2 DEF Max

-----------------------------------------------------------------------------
(* What statements do to a request's record *)

Statement == {"clear", "clearing", "create", "update",
              "choose", "delete", "replace", "promote"}

LEMMA WritingIs ==
  ASSUME NEW job \in Job, NEW i \in Item, NEW row \in Row
  PROVE  LET new == Writing(job, i, row) IN
         /\ new \in Job
         /\ new.wrote = [job.wrote EXCEPT ![i] = row] /\ new.locks = job.locks \cup {i}
         /\ new.do = job.do /\ new.then = job.then /\ new.on = job.on /\ new.was = job.was
         /\ new.to = job.to /\ new.left = job.left /\ new.shared = job.shared
BY DEF Writing, Job, Row

-----------------------------------------------------------------------------
(* What a request that met no other has done *)

Alone(c) == calls[c] # Idle /\ ~calls[c].shared

OneFor(f) ==
  /\ \A i \in DefaultsFor(f), j \in DefaultsFor(f) : i = j
  /\ DefaultsFor(f) = {} => f \in unset \/ \A i \in Item : ~rows[i].there

\* What has been cleared is cleared on every row; all else is as it was.
Clears(c) ==
  LET job == calls[c] IN
  /\ job.then # "delete" /\ job.left \subseteq job.to
  /\ IF job.do \in {"clear", "clearing"} THEN job.left # {} ELSE job.do = job.then /\ job.left = {}
  /\ \A i \in Item : Seen(c, i).there <=> rows[i].there
  /\ \A i \in Item : rows[i].there => Seen(c, i).flags = rows[i].flags \ (job.to \ job.left)
  /\ job.do = "clearing" => job.found = {i \in There(c) : Min(job.left) \in Seen(c, i).flags}
  /\ job.then = "create" => ~rows[job.on].there /\ (job.to = Flag \/ \E i \in Item : rows[i].there)
  /\ job.then = "update" => rows[job.on].there /\ job.was = rows[job.on].flags

\* The row to delete is as it was loaded, and the only one written.
Deletes(c) ==
  LET job == calls[c] IN
  /\ job.do \in {"delete", "replace", "promote"}
  /\ rows[job.on].there /\ job.was = rows[job.on].flags
  /\ IF job.do = "delete" THEN job.locks = {}
     ELSE job.locks = {job.on} /\ ~job.wrote[job.on].there

DefaultsInv ==
  /\ Numbered /\ TypeOK
  /\ \A i \in Item : rows[i].there => i \in used
  /\ \A c \in Call : calls[c] # Idle => calls[c].on \in used /\ calls[c].locks \subseteq used
  /\ \A c \in Call : Alone(c) =>
       (\A d \in Call \ {c} : calls[d] = Idle) /\ (Clears(c) \/ Deletes(c))
  /\ \A f \in Flag \ crossed : OneFor(f)

LEMMA RowsSeen ==
  ASSUME TypeOK, NEW c \in Call, calls[c] # Idle
  PROVE  /\ calls[c] \in Job
         /\ \A i \in Item : Seen(c, i) \in Row
         /\ There(c) \subseteq Item
BY DEF TypeOK, Seen, There, Job

\* Two requests that run at one time know that they are not alone.
LEMMA OthersShared ==
  ASSUME DefaultsInv, NEW c \in Call, NEW d \in Call, c # d, calls[c] # Idle, calls[d] # Idle
  PROVE  ~Alone(c) /\ ~Alone(d)
BY DEF DefaultsInv

\* A statement that commits nothing.
LEMMA GoesStep ==
  ASSUME DefaultsInv, NEW c \in Call, calls[c] # Idle, NEW next \in Job \cup {Idle}, Goes(c, next),
         next # Idle => next.on \in used /\ next.locks \subseteq used /\ next.shared = calls[c].shared,
         Alone(c)' => Clears(c)' \/ Deletes(c)'
  PROVE  DefaultsInv'
<1>1. /\ calls' = [calls EXCEPT ![c] = next] /\ UNCHANGED <<rows, used, unset, crossed>>
  BY DEF Goes
<1>2. calls'[c] = next /\ \A d \in Call \ {c} : calls'[d] = calls[d]
  BY <1>1 DEF DefaultsInv, TypeOK
<1>3. TypeOK'
  BY <1>1 DEF DefaultsInv, TypeOK
<1>4. \A d \in Call : calls'[d] # Idle => calls'[d].on \in used /\ calls'[d].locks \subseteq used
  BY <1>2 DEF DefaultsInv
<1>5. ASSUME NEW d \in Call, Alone(d)'
      PROVE  (\A e \in Call \ {d} : calls'[e] = Idle) /\ (Clears(d)' \/ Deletes(d)')
  <2>1. CASE d = c
    <3>1. Alone(c)
      BY <1>2, <1>5, <2>1 DEF Alone
    <3>2. QED  BY <1>2, <1>5, <2>1, <3>1 DEF DefaultsInv
  <2>2. CASE d # c
    <3>1. Alone(d)
      BY <1>2, <1>5, <2>2 DEF Alone
    <3>2. QED  BY <2>2, <3>1, OthersShared DEF Alone
  <2>3. QED  BY <2>1, <2>2
<1>6. \A f \in Flag \ crossed : OneFor(f)'
  BY <1>1 DEF DefaultsInv, OneFor, DefaultsFor
<1>7. QED  BY <1>1, <1>3, <1>4, <1>5, <1>6 DEF DefaultsInv

\* A statement that commits: the request's rows become the rows.
LEMMA CommitStep ==
  ASSUME DefaultsInv, NEW c \in Call, calls[c] # Idle, NEW i \in used, NEW row \in Row,
         NEW settled \in SUBSET Flag, NEW dropped \in SUBSET Flag,
         Commit(c, i, row, settled, dropped),
         Alone(c) => \A f \in Flag \ (crossed \ settled) : OneFor(f)'
  PROVE  DefaultsInv'
<1>1. i \in Item /\ calls[c] \in Job
  BY DEF DefaultsInv, TypeOK
<1>2. /\ rows' = [k \in Item |-> IF k \in calls[c].locks \cup {i}
                                THEN [calls[c].wrote EXCEPT ![i] = row][k] ELSE rows[k]]
      /\ crossed' = IF calls[c].shared THEN Flag ELSE crossed \ settled
      /\ unset' = (unset \ settled) \cup dropped
      /\ calls' = [calls EXCEPT ![c] = Idle]
      /\ used' = used
  <2>1. /\ Writing(calls[c], i, row).locks = calls[c].locks \cup {i}
        /\ Writing(calls[c], i, row).wrote = [calls[c].wrote EXCEPT ![i] = row]
        /\ Writing(calls[c], i, row).shared = calls[c].shared
    BY <1>1, WritingIs
  <2>2. QED  BY <2>1 DEF Commit
<1>3. \A k \in Item : rows'[k] \in Row /\ (rows'[k].there => k \in used)
  <2>1. /\ calls[c].locks \cup {i} \subseteq used /\ rows \in [Item -> Row]
        /\ \A k \in Item : rows[k].there => k \in used
    BY DEF DefaultsInv, TypeOK
  <2>2. [calls[c].wrote EXCEPT ![i] = row] \in [Item -> Row]
    BY <1>1 DEF Job
  <2>3. QED  BY <1>2, <2>1, <2>2
<1>4. rows' \in [Item -> Row]
  BY <1>2, <1>3
<1>5. TypeOK'
  BY <1>2, <1>4 DEF DefaultsInv, TypeOK
<1>6. calls'[c] = Idle /\ \A d \in Call \ {c} : calls'[d] = calls[d]
  BY <1>2 DEF DefaultsInv, TypeOK
<1>7. \A d \in Call : calls'[d] # Idle => calls'[d].on \in used /\ calls'[d].locks \subseteq used
  BY <1>6 DEF DefaultsInv
<1>8. ASSUME NEW d \in Call, Alone(d)' PROVE FALSE
  <2>1. d # c /\ Alone(d)
    BY <1>6, <1>8 DEF Alone
  <2>2. QED  BY <2>1, OthersShared DEF Alone
<1>9. \A f \in Flag \ crossed' : OneFor(f)'
  BY <1>2 DEF Alone
<1>10. QED  BY <1>2, <1>3, <1>5, <1>7, <1>8, <1>9 DEF DefaultsInv

\* What is committed is what the request saw, but for the last row.
LEMMA WrittenRows ==
  ASSUME TypeOK, NEW c \in Call, calls[c] # Idle, NEW i \in Item, NEW row \in Row,
         LET job == Writing(calls[c], i, row) IN
         rows' = [k \in Item |-> IF k \in job.locks THEN job.wrote[k] ELSE rows[k]]
  PROVE  rows'[i] = row /\ \A k \in Item \ {i} : rows'[k] = Seen(c, k)
<1>1. calls[c] \in Job
  BY DEF TypeOK
<1>2. /\ Writing(calls[c], i, row).locks = calls[c].locks \cup {i}
      /\ Writing(calls[c], i, row).wrote = [calls[c].wrote EXCEPT ![i] = row]
  BY <1>1, WritingIs
<1>3. rows' = [k \in Item |-> IF k \in calls[c].locks \cup {i}
                              THEN [calls[c].wrote EXCEPT ![i] = row][k] ELSE rows[k]]
  BY <1>2
<1>4. calls[c].wrote \in [Item -> Row]
  BY <1>1 DEF Job
<1>5. QED  BY <1>3, <1>4 DEF Seen

LEMMA CommitRows ==
  ASSUME TypeOK, NEW c \in Call, calls[c] # Idle, NEW i \in Item, NEW row \in Row,
         NEW settled, NEW dropped, Commit(c, i, row, settled, dropped)
  PROVE  /\ rows'[i] = row
         /\ \A k \in Item \ {i} : rows'[k] = Seen(c, k)
         /\ unset' = (unset \ settled) \cup dropped
BY WrittenRows DEF Commit

LEMMA CommitPlain ==
  ASSUME TypeOK, NEW c \in Call, calls[c] # Idle, NEW i \in Item, NEW row \in Row,
         Commit(c, i, row, {}, {})
  PROVE  /\ rows'[i] = row
         /\ \A k \in Item \ {i} : rows'[k] = Seen(c, k)
         /\ unset' = unset
BY WrittenRows DEF Commit

LEMMA SharedIs ==
  ASSUME Numbered, NEW job \in Job
  PROVE  LET new == [job EXCEPT !.shared = TRUE] IN
         new \in Job /\ new # Idle /\ new.shared /\ new.on = job.on /\ new.locks = job.locks
<1>1. LET new == [job EXCEPT !.shared = TRUE] IN
      new \in Job /\ new.shared /\ new.on = job.on /\ new.locks = job.locks
  BY DEF Job
<1>2. QED  BY <1>1 DEF Numbered

\* A request that meets no other starts from the rows as they are.
LEMMA BeginStep ==
  ASSUME DefaultsInv, NEW c \in Call, NEW then \in {"create", "update", "choose", "delete"},
         NEW i \in Item, NEW was \in SUBSET Flag, NEW to \in SUBSET Flag,
         Begin(c, then, i, was, to),
         used \subseteq used', used' \subseteq Item, i \in used',
         then = "create" => ~rows[i].there /\ (to = Flag \/ \E k \in Item : rows[k].there),
         then \in {"update", "delete"} => rows[i].there /\ was = rows[i].flags
  PROVE  DefaultsInv'
<1> DEFINE do == IF to = {} \/ then = "delete" THEN then ELSE "clear"
<1>1. PICK job : job = [do |-> do, then |-> then, on |-> i, was |-> was, to |-> to, left |-> to,
                        found |-> {}, wrote |-> [k \in Item |-> Absent], locks |-> {},
                        shared |-> Running # {}]
  OBVIOUS
<1>2. /\ job \in Job /\ job.do = do /\ job.then = then /\ job.on = i /\ job.was = was /\ job.to = to
      /\ job.left = to /\ job.locks = {} /\ job.shared = (Running # {})
  <2>1. do \in Statement
    BY DEF Statement
  <2>2. [k \in Item |-> Absent] \in [Item -> Row]
    BY DEF Absent, Row
  <2> HIDE DEF do
  <2>3. QED  BY <1>1, <2>1, <2>2 DEF Job, Statement
<1> HIDE DEF do
<1>3. /\ calls[c] = Idle /\ UNCHANGED <<rows, unset, crossed>>
      /\ calls' = [d \in Call |-> IF d = c THEN job
                                  ELSE IF calls[d] = Idle THEN Idle ELSE [calls[d] EXCEPT !.shared = TRUE]]
  BY <1>1 DEF Begin, do
<1>4. calls'[c] = job
  BY <1>3
<1>5. \A d \in Call \ {c} :
        /\ calls'[d] \in Job \cup {Idle}
        /\ calls[d] = Idle => calls'[d] = Idle
        /\ calls[d] # Idle => calls'[d].shared /\ calls'[d].on = calls[d].on /\ calls'[d].locks = calls[d].locks
  BY <1>3, SharedIs DEF DefaultsInv, TypeOK
<1>6. TypeOK'
  <2>1. calls' \in [Call -> Job \cup {Idle}]
    BY <1>2, <1>3, <1>4, <1>5
  <2>2. QED  BY <1>3, <2>1 DEF DefaultsInv, TypeOK
<1>7. \A d \in Call : calls'[d] # Idle => calls'[d].on \in used' /\ calls'[d].locks \subseteq used'
  BY <1>2, <1>4, <1>5 DEF DefaultsInv
<1>8. ASSUME NEW d \in Call, Alone(d)'
      PROVE  (\A e \in Call \ {d} : calls'[e] = Idle) /\ (Clears(d)' \/ Deletes(d)')
  <2>1. d = c /\ \A e \in Call \ {c} : calls'[e] = Idle
    BY <1>2, <1>4, <1>5, <1>8 DEF Alone, Running
  <2>2. \A k \in Item : Seen(c, k)' = rows[k]
    BY <1>2, <1>3, <1>4 DEF Seen
  <2>3. CASE then = "delete"
    <3>1. Deletes(c)'
      BY <1>2, <1>3, <1>4, <2>3 DEF Deletes, do
    <3>2. QED  BY <2>1, <3>1
  <2>4. CASE then # "delete"
    <3>1. Clears(c)'
      <4>1. IF job.do \in {"clear", "clearing"} THEN to # {} ELSE job.do = then /\ to = {}
        BY <1>2, <2>4 DEF do
      <4>2. job.do # "clearing"
        BY <1>2 DEF do
      <4>3. QED  BY <1>2, <1>3, <1>4, <2>2, <2>4, <4>1, <4>2 DEF Clears
    <3>2. QED  BY <2>1, <3>1
  <2>5. QED  BY <2>3, <2>4
<1>9. /\ \A k \in Item : rows'[k].there => k \in used'
      /\ \A f \in Flag \ crossed' : OneFor(f)'
  BY <1>3 DEF DefaultsInv, OneFor, DefaultsFor
<1>10. QED  BY <1>6, <1>7, <1>8, <1>9 DEF DefaultsInv, Numbered

LEMMA StartsStep ==
  ASSUME DefaultsInv, NEW c \in Call,
         \/ StartCreate(c)
         \/ \E i \in Item : LoadToUpdate(c, i) \/ LoadToChoose(c, i) \/ LoadToDelete(c, i)
  PROVE  DefaultsInv'
<1>1. /\ rows \in [Item -> Row] /\ used \subseteq Item
      /\ \A i \in Item : rows[i].there => i \in used
  BY DEF DefaultsInv, TypeOK
<1>2. CASE StartCreate(c)
  <2>1. Item \ used # {} /\ Item \ used \subseteq Int /\ IsFiniteSet(Item \ used)
    BY <1>1, <1>2, FS_Subset DEF StartCreate, DefaultsInv, Numbered
  <2>2. PICK i \in Item \ used : i = Min(Item \ used)
    BY <2>1, HasLeast
  <2>3. PICK asked \in SUBSET Flag :
          /\ used' = used \cup {i}
          /\ Begin(c, "create", i, {}, IF \E k \in Item : rows[k].there THEN asked ELSE Flag)
    BY <1>2, <2>2 DEF StartCreate
  <2>4. PICK to \in SUBSET Flag : to = IF \E k \in Item : rows[k].there THEN asked ELSE Flag
    OBVIOUS
  <2>5. Begin(c, "create", i, {}, to) /\ i \in Item /\ {} \in SUBSET Flag
    BY <2>3, <2>4
  <2>6. /\ used \subseteq used' /\ used' \subseteq Item /\ i \in used'
        /\ ~rows[i].there /\ (to = Flag \/ \E k \in Item : rows[k].there)
    BY <1>1, <2>3, <2>4
  <2>7. QED  BY <2>5, <2>6, BeginStep
<1>3. ASSUME NEW i \in Item, LoadToUpdate(c, i) PROVE DefaultsInv'
  <2>1. PICK to \in SUBSET Flag : Begin(c, "update", i, rows[i].flags, to)
    BY <1>3 DEF LoadToUpdate
  <2>2. rows[i].flags \in SUBSET Flag /\ rows[i].there /\ used' = used /\ i \in used
    BY <1>1, <1>3 DEF LoadToUpdate, Row
  <2>3. QED  BY <1>1, <2>1, <2>2, BeginStep
<1>4. ASSUME NEW i \in Item, LoadToChoose(c, i) PROVE DefaultsInv'
  <2>1. PICK f \in Flag : Begin(c, "choose", i, {}, {f})
    BY <1>4 DEF LoadToChoose
  <2>2. {} \in SUBSET Flag /\ {f} \in SUBSET Flag /\ used' = used /\ i \in used
    BY <1>1, <1>4 DEF LoadToChoose
  <2>3. QED  BY <1>1, <2>1, <2>2, BeginStep
<1>5. ASSUME NEW i \in Item, LoadToDelete(c, i) PROVE DefaultsInv'
  <2>1. Begin(c, "delete", i, rows[i].flags, {}) /\ {} \in SUBSET Flag
    BY <1>5 DEF LoadToDelete
  <2>2. rows[i].flags \in SUBSET Flag /\ rows[i].there /\ used' = used /\ i \in used
    BY <1>1, <1>5 DEF LoadToDelete, Row
  <2>3. QED  BY <1>1, <2>1, <2>2, BeginStep
<1>6. QED  BY <1>2, <1>3, <1>4, <1>5


-----------------------------------------------------------------------------
(* Clearing a flag, statement by statement *)

LEMMA ThereUsed ==
  ASSUME DefaultsInv, NEW c \in Call, calls[c] # Idle
  PROVE  There(c) \subseteq used
BY DEF DefaultsInv, There, Seen

LEMMA FindStep ==
  ASSUME DefaultsInv, NEW c \in Call, FindToClear(c)
  PROVE  DefaultsInv'
<1>1. PICK job \in Job : job = calls[c] /\ job # Idle /\ job.do = "clear"
  BY DEF FindToClear, Does, DefaultsInv, TypeOK
<1>2. PICK found \in SUBSET Item : /\ found = {i \in There(c) : Min(calls[c].left) \in Seen(c, i).flags}
        /\ found = {i \in There(c) : Min(job.left) \in Seen(c, i).flags}
  BY <1>1 DEF There
<1>3. PICK next : /\ next = [calls[c] EXCEPT !.do = "clearing", !.found = found]
                  /\ next = [job EXCEPT !.do = "clearing", !.found = found]
  BY <1>1
<1>4. /\ next \in Job /\ next.wrote = job.wrote /\ next.locks = job.locks /\ next.found = found
      /\ next.do = "clearing" /\ next.then = job.then /\ next.on = job.on /\ next.was = job.was
      /\ next.to = job.to /\ next.left = job.left /\ next.shared = job.shared
  <2>1. next = [job EXCEPT !.do = "clearing", !.found = found] /\ "clearing" \in Statement
    BY <1>3 DEF Statement
  <2>2. QED  BY <2>1 DEF Job, Statement, Row
<1>5. Goes(c, next)
  BY <1>2, <1>3 DEF FindToClear
<1>6. calls'[c] = next /\ rows' = rows
  BY <1>1, <1>5 DEF Goes, DefaultsInv, TypeOK
<1>7. \A i \in Item : Seen(c, i)' = Seen(c, i)
  BY <1>1, <1>4, <1>6 DEF Seen
<1>8. ASSUME Alone(c)' PROVE Clears(c)'
  <2>1. Clears(c)
    BY <1>1, <1>4, <1>6, <1>8 DEF Alone, DefaultsInv, Deletes
  <2>2. There(c)' = There(c)
    BY <1>7 DEF There
  <2>3. found = {i \in There(c)' : Min(next.left) \in Seen(c, i)'.flags}
    BY <1>2, <1>4, <1>7, <2>2 DEF There
  <2>4. QED  BY <1>1, <1>4, <1>6, <1>7, <2>1, <2>3 DEF Clears
<1>9. next \in Job \cup {Idle} /\ next.on \in used /\ next.locks \subseteq used
  BY <1>1, <1>4 DEF DefaultsInv
<1>10. QED  BY <1>1, <1>4, <1>5, <1>8, <1>9, GoesStep

LEMMA ClearStep ==
  ASSUME DefaultsInv, NEW c \in Call, ClearFlag(c)
  PROVE  DefaultsInv'
<1>1. PICK job \in Job : job = calls[c] /\ job # Idle /\ job.do = "clearing"
  BY DEF ClearFlag, Does, DefaultsInv, TypeOK
<1>2. PICK f : f = Min(calls[c].left) /\ f = Min(job.left)
  BY <1>1
<1>3. PICK left \in SUBSET Flag : left = calls[c].left \ {f} /\ left = job.left \ {f}
  BY <1>1 DEF Job
<1>4. PICK do \in Statement :
        do = (IF left = {} THEN calls[c].then ELSE "clear") /\ do = (IF left = {} THEN job.then ELSE "clear")
  BY <1>1 DEF Job, Statement
<1>5. PICK locks \in SUBSET Item : locks = ToClear(c)
  BY <1>1 DEF ToClear, Job
<1>6. \A i \in Item : Seen(c, i) \in Row
  BY <1>1, RowsSeen DEF DefaultsInv
<1>7. PICK wrote \in [Item -> Row] :
        wrote = [i \in Item |-> IF i \in locks THEN With(Seen(c, i).flags \ {f}) ELSE calls[c].wrote[i]]
  <2>1. \A i \in Item : With(Seen(c, i).flags \ {f}) \in Row /\ calls[c].wrote[i] \in Row
    BY <1>1, <1>6 DEF With, Row, Job
  <2>2. QED  BY <2>1
<1>8. PICK next :
        /\ next = [calls[c] EXCEPT !.left = left, !.do = do, !.found = {},
                                   !.locks = @ \cup locks, !.wrote = wrote]
        /\ next = [job EXCEPT !.left = left, !.do = do, !.found = {},
                              !.locks = @ \cup locks, !.wrote = wrote]
  BY <1>1
<1>9. /\ next \in Job /\ next.wrote = wrote /\ next.locks = job.locks \cup locks
      /\ next.do = do /\ next.then = job.then /\ next.on = job.on /\ next.was = job.was
      /\ next.to = job.to /\ next.left = left /\ next.shared = job.shared
  <2>1. next = [job EXCEPT !.left = left, !.do = do, !.found = {},
                           !.locks = @ \cup locks, !.wrote = wrote]
    BY <1>8
  <2>2. QED  BY <2>1 DEF Job, Statement, Row
<1>10. Goes(c, next)
  <2>1. Goes(c, [calls[c] EXCEPT !.left = left, !.do = do, !.found = {}, !.locks = @ \cup ToClear(c),
                                 !.wrote = [i \in Item |-> IF i \in ToClear(c)
                                                           THEN With(Seen(c, i).flags \ {f})
                                                           ELSE calls[c].wrote[i]]])
    BY <1>2, <1>3, <1>4 DEF ClearFlag
  <2>2. QED  BY <1>5, <1>7, <1>8, <2>1
<1>11. calls'[c] = next /\ rows' = rows
  BY <1>1, <1>10 DEF Goes, DefaultsInv, TypeOK
<1>12. \A i \in Item : Seen(c, i)' = IF i \in locks THEN With(Seen(c, i).flags \ {f}) ELSE Seen(c, i)
  BY <1>1, <1>7, <1>9, <1>11 DEF Seen
<1>13. ASSUME Alone(c)' PROVE Clears(c)'
  <2>1. Clears(c)
    BY <1>1, <1>9, <1>11, <1>13 DEF Alone, DefaultsInv, Deletes
  <2>2. /\ job.then # "delete" /\ job.left \subseteq job.to /\ job.left # {}
        /\ job.found = {i \in There(c) : f \in Seen(c, i).flags}
        /\ \A i \in Item : Seen(c, i).there <=> rows[i].there
        /\ \A i \in Item : rows[i].there => Seen(c, i).flags = rows[i].flags \ (job.to \ job.left)
    BY <1>1, <1>2, <2>1 DEF Clears
  <2>3. f \in job.left
    <3>1. job.left \subseteq Int /\ IsFiniteSet(job.left)
      BY FS_Subset DEF DefaultsInv, Numbered, Job
    <3>2. QED  BY <1>2, <2>2, <3>1, HasLeast
  <2>4. locks = {i \in There(c) : f \in Seen(c, i).flags}
    BY <1>1, <1>2, <1>5, <2>2 DEF ToClear, There
  <2>5. ASSUME NEW i \in Item
        PROVE  /\ Seen(c, i)'.there <=> rows[i].there
               /\ rows[i].there => Seen(c, i)'.flags = rows[i].flags \ (job.to \ left)
    <3>1. CASE i \in locks
      <4>1. Seen(c, i).there /\ Seen(c, i)' = [there |-> TRUE, flags |-> Seen(c, i).flags \ {f}]
        BY <1>12, <2>4, <3>1 DEF There, With
      <4>2. QED  BY <1>3, <2>2, <2>3, <4>1
    <3>2. CASE i \notin locks
      <4>1. Seen(c, i)' = Seen(c, i) /\ (rows[i].there => f \notin Seen(c, i).flags)
        BY <1>12, <2>2, <2>4, <3>2 DEF There
      <4>2. QED  BY <1>3, <2>2, <2>3, <4>1
    <3>3. QED  BY <3>1, <3>2
  <2>6. IF do \in {"clear", "clearing"} THEN left # {} ELSE do = job.then /\ left = {}
    BY <1>1, <1>4 DEF Job
  <2>7. do # "clearing"
    BY <1>1, <1>4 DEF Job
  <2>8. QED  BY <1>1, <1>3, <1>9, <1>11, <2>1, <2>2, <2>5, <2>6, <2>7 DEF Clears
<1>14. next \in Job \cup {Idle} /\ next.on \in used /\ next.locks \subseteq used
  <2>1. locks \subseteq used
    BY <1>1, <1>5, ThereUsed DEF ToClear, There
  <2>2. QED  BY <1>1, <1>9, <2>1 DEF DefaultsInv
<1>15. QED  BY <1>1, <1>9, <1>10, <1>13, <1>14, GoesStep


-----------------------------------------------------------------------------
(* Committing *)

\* A request about to write its last row has cleared what it is to set.
LEMMA Cleared ==
  ASSUME DefaultsInv, NEW c \in Call, Alone(c), calls[c].do \in {"create", "update", "choose"}
  PROVE  LET job == calls[c] IN
         /\ job.do = job.then /\ Clears(c)
         /\ \A i \in Item : Seen(c, i).there <=> rows[i].there
         /\ \A i \in Item : rows[i].there => Seen(c, i).flags = rows[i].flags \ job.to
<1>1. Clears(c)
  BY DEF DefaultsInv, Deletes
<1>2. QED  BY <1>1 DEF Clears

LEMMA JobOf ==
  ASSUME DefaultsInv, NEW c \in Call, calls[c] # Idle
  PROVE  /\ calls[c] \in Job /\ calls[c].on \in Item /\ calls[c].on \in used
         /\ calls[c].to \in SUBSET Flag /\ calls[c].was \in SUBSET Flag
         /\ \A i \in Item : Seen(c, i) \in Row /\ rows[i] \in Row
BY RowsSeen DEF DefaultsInv, TypeOK, Job

LEMMA CreateStep ==
  ASSUME DefaultsInv, NEW c \in Call, CreateRow(c)
  PROVE  DefaultsInv'
<1> DEFINE on == calls[c].on
           to == calls[c].to
<1>1. /\ calls[c] # Idle /\ calls[c].do = "create"
      /\ Commit(c, on, With(to), to, {})
  BY DEF CreateRow, Does
<1>2. /\ on \in Item /\ on \in used /\ to \in SUBSET Flag /\ {} \in SUBSET Flag /\ With(to) \in Row
      /\ TypeOK
  BY <1>1, JobOf DEF With, Row, DefaultsInv
<1>3. /\ rows'[on] = With(to) /\ \A k \in Item \ {on} : rows'[k] = Seen(c, k)
      /\ unset' = unset \ to
  BY <1>1, <1>2, CommitRows
<1>4. ASSUME Alone(c), NEW f \in Flag, f \notin crossed \ to PROVE OneFor(f)'
  <2>1. /\ \A i \in Item : Seen(c, i).there <=> rows[i].there
        /\ \A i \in Item : rows[i].there => Seen(c, i).flags = rows[i].flags \ to
        /\ ~rows[on].there /\ (to = Flag \/ \E i \in Item : rows[i].there)
    BY <1>1, <1>4, Cleared DEF Clears
  <2>2. rows'[on].there /\ rows'[on].flags = to
    BY <1>3 DEF With
  <2>3. CASE f \in to
    <3>1. \A k \in Item : k \in DefaultsFor(f)' <=> k = on
      BY <1>2, <1>3, <2>1, <2>2, <2>3 DEF DefaultsFor
    <3>2. QED  BY <1>2, <3>1 DEF OneFor, DefaultsFor
  <2>4. CASE f \notin to
    <3>1. \A k \in Item : k \in DefaultsFor(f)' <=> k \in DefaultsFor(f)
      BY <1>2, <1>3, <2>1, <2>2, <2>4 DEF DefaultsFor
    <3>2. OneFor(f) /\ \E i \in Item : rows[i].there
      BY <1>4, <2>1, <2>4 DEF DefaultsInv
    <3>3. QED  BY <1>3, <2>4, <3>1, <3>2 DEF OneFor, DefaultsFor
  <2>5. QED  BY <2>3, <2>4
<1>5. Alone(c) => \A f \in Flag \ (crossed \ to) : OneFor(f)'
  BY <1>4
<1> HIDE DEF on, to
<1>6. QED  BY <1>1, <1>2, <1>5, CommitStep


LEMMA UpdateStep ==
  ASSUME DefaultsInv, NEW c \in Call, UpdateRow(c)
  PROVE  DefaultsInv'
<1> DEFINE on == calls[c].on
           to == calls[c].to
           was == calls[c].was
<1>1. calls[c] # Idle /\ calls[c].do = "update"
  BY DEF UpdateRow, Does
<1>2. PICK off \in SUBSET (Flag \ to) : Commit(c, on, With((was \cup to) \ off), to, was \cap off)
  BY DEF UpdateRow
<1>3. /\ on \in Item /\ on \in used /\ to \in SUBSET Flag /\ was \in SUBSET Flag
      /\ was \cap off \in SUBSET Flag /\ With((was \cup to) \ off) \in Row /\ TypeOK
  BY <1>1, JobOf DEF With, Row, DefaultsInv
<1>4. /\ rows'[on] = With((was \cup to) \ off) /\ \A k \in Item \ {on} : rows'[k] = Seen(c, k)
      /\ unset' = (unset \ to) \cup (was \cap off)
  BY <1>1, <1>2, <1>3, CommitRows
<1>5. ASSUME Alone(c), NEW f \in Flag, f \notin crossed \ to PROVE OneFor(f)'
  <2>1. /\ \A i \in Item : Seen(c, i).there <=> rows[i].there
        /\ \A i \in Item : rows[i].there => Seen(c, i).flags = rows[i].flags \ to
        /\ rows[on].there /\ was = rows[on].flags
    BY <1>1, <1>5, Cleared DEF Clears
  <2>2. rows'[on].there /\ rows'[on].flags = (was \cup to) \ off
    BY <1>4 DEF With
  <2>3. CASE f \in to
    <3>1. \A k \in Item : k \in DefaultsFor(f)' <=> k = on
      BY <1>3, <1>4, <2>1, <2>2, <2>3 DEF DefaultsFor
    <3>2. QED  BY <1>3, <3>1 DEF OneFor, DefaultsFor
  <2>4. CASE f \notin to
    <3>1. \A k \in Item : k \in DefaultsFor(f)' <=> k \in DefaultsFor(f) /\ (k = on => f \notin off)
      BY <1>3, <1>4, <2>1, <2>2, <2>4 DEF DefaultsFor
    <3>2. OneFor(f) /\ (f \in unset => f \in unset') /\ (on \in DefaultsFor(f) /\ f \in off => f \in unset')
      BY <1>3, <1>4, <1>5, <2>1, <2>4 DEF DefaultsInv, DefaultsFor
    <3>3. \A k \in DefaultsFor(f)', l \in DefaultsFor(f)' : k = l
      BY <3>1, <3>2 DEF OneFor, DefaultsFor
    <3>4. DefaultsFor(f)' = {} => f \in unset'
      <4>1. CASE DefaultsFor(f) = {}
        BY <1>3, <2>1, <3>2, <4>1 DEF OneFor
      <4>2. ASSUME NEW k \in DefaultsFor(f), DefaultsFor(f)' = {} PROVE f \in unset'
        BY <3>1, <3>2, <4>2 DEF DefaultsFor
      <4>3. QED  BY <4>1, <4>2
    <3>5. QED  BY <3>3, <3>4 DEF OneFor
  <2>5. QED  BY <2>3, <2>4
<1>6. Alone(c) => \A f \in Flag \ (crossed \ to) : OneFor(f)'
  BY <1>5
<1> HIDE DEF on, to, was
<1>7. QED  BY <1>1, <1>2, <1>3, <1>6, CommitStep

LEMMA ChooseStep ==
  ASSUME DefaultsInv, NEW c \in Call, ChooseRow(c)
  PROVE  DefaultsInv'
<1> DEFINE on == calls[c].on
           to == calls[c].to
<1>1. /\ calls[c] # Idle /\ calls[c].do = "choose" /\ on \in There(c)
      /\ Commit(c, on, With(Seen(c, on).flags \cup to), to, {})
  BY DEF ChooseRow, Does
<1>2. /\ on \in Item /\ on \in used /\ to \in SUBSET Flag /\ {} \in SUBSET Flag
      /\ With(Seen(c, on).flags \cup to) \in Row /\ TypeOK
  BY <1>1, JobOf DEF With, Row, DefaultsInv
<1>3. /\ rows'[on] = With(Seen(c, on).flags \cup to)
      /\ \A k \in Item \ {on} : rows'[k] = Seen(c, k)
      /\ unset' = (unset \ to) \cup {}
  BY <1>1, <1>2, CommitRows
<1>4. ASSUME Alone(c), NEW f \in Flag, f \notin crossed \ to PROVE OneFor(f)'
  <2>1. /\ \A i \in Item : Seen(c, i).there <=> rows[i].there
        /\ \A i \in Item : rows[i].there => Seen(c, i).flags = rows[i].flags \ to
        /\ rows[on].there
    BY <1>1, <1>4, Cleared DEF There
  <2>2. rows'[on].there /\ rows'[on].flags = Seen(c, on).flags \cup to
    BY <1>3 DEF With
  <2>3. CASE f \in to
    <3>1. \A k \in Item : k \in DefaultsFor(f)' <=> k = on
      BY <1>2, <1>3, <2>1, <2>2, <2>3 DEF DefaultsFor
    <3>2. QED  BY <1>2, <3>1 DEF OneFor, DefaultsFor
  <2>4. CASE f \notin to
    <3>1. \A k \in Item : k \in DefaultsFor(f)' <=> k \in DefaultsFor(f)
      BY <1>2, <1>3, <2>1, <2>2, <2>4 DEF DefaultsFor
    <3>2. OneFor(f)
      BY <1>4, <2>4 DEF DefaultsInv
    <3>3. QED  BY <1>2, <1>3, <2>1, <2>4, <3>1, <3>2 DEF OneFor, DefaultsFor
  <2>5. QED  BY <2>3, <2>4
<1>5. Alone(c) => \A f \in Flag \ (crossed \ to) : OneFor(f)'
  BY <1>4
<1> HIDE DEF on, to
<1>6. QED  BY <1>1, <1>2, <1>5, CommitStep

LEMMA DeleteStep ==
  ASSUME DefaultsInv, NEW c \in Call, DeleteRow(c)
  PROVE  DefaultsInv'
<1>1. calls[c] # Idle /\ calls[c].do = "delete" /\ TypeOK
  BY DEF DeleteRow, Does, DefaultsInv
<1>2. PICK job \in Job : job = calls[c]
  BY <1>1, JobOf
<1>3. PICK on \in Item : on = job.on /\ on \in used
  BY <1>1, <1>2, JobOf
<1>4. Absent \in Row /\ {} \in SUBSET Flag /\ ~Absent.there
  BY DEF Absent, Row
<1>5. ASSUME Alone(c)
      PROVE  rows[on].there /\ job.was = rows[on].flags /\ job.locks = {}
  <2>1. Deletes(c)
    <3>1. ~Clears(c)
      BY <1>1 DEF Clears
    <3>2. QED  BY <1>5, <3>1 DEF DefaultsInv
  <2>2. QED  BY <1>1, <1>2, <1>3, <2>1 DEF Deletes
<1>6. CASE job.was = {} /\ Commit(c, on, Absent, {}, {})
  <2>1. /\ rows'[on] = Absent /\ \A k \in Item \ {on} : rows'[k] = Seen(c, k)
        /\ unset' = unset
    BY <1>1, <1>4, <1>6, CommitPlain
  <2>2. ASSUME Alone(c), NEW f \in Flag, f \notin crossed PROVE OneFor(f)'
    <3>1. \A k \in Item : Seen(c, k) = rows[k]
      BY <1>2, <1>5, <2>2 DEF Seen
    <3>2. \A k \in Item : k \in DefaultsFor(f)' <=> k \in DefaultsFor(f)
      BY <1>4, <1>5, <1>6, <2>1, <2>2, <3>1 DEF DefaultsFor
    <3>3. OneFor(f)
      BY <2>2 DEF DefaultsInv
    <3>4. QED  BY <1>4, <2>1, <3>1, <3>2, <3>3 DEF OneFor, DefaultsFor
  <2>3. Alone(c) => \A f \in Flag \ (crossed \ {}) : OneFor(f)'
    BY <2>2
  <2>4. QED  BY <1>1, <1>3, <1>4, <1>6, <2>3, CommitStep
<1>7. ASSUME Goes(c, [Writing(job, on, Absent) EXCEPT !.do = "replace"]) PROVE DefaultsInv'
  <2>1. PICK next : next = [Writing(job, on, Absent) EXCEPT !.do = "replace"]
    OBVIOUS
  <2>2. /\ next \in Job /\ next.wrote = [job.wrote EXCEPT ![on] = Absent]
        /\ next.locks = job.locks \cup {on}
        /\ next.do = "replace" /\ next.on = job.on /\ next.was = job.was /\ next.shared = job.shared
    <3>1. PICK new \in Job :
            /\ new = Writing(job, on, Absent)
            /\ new.wrote = [job.wrote EXCEPT ![on] = Absent] /\ new.locks = job.locks \cup {on}
            /\ new.on = job.on /\ new.was = job.was /\ new.shared = job.shared
      BY <1>4, WritingIs
    <3>2. next = [new EXCEPT !.do = "replace"]
      BY <2>1, <3>1
    <3>3. QED  BY <3>1, <3>2 DEF Job
  <2>3. Goes(c, next)
    BY <1>7, <2>1
  <2>4. calls'[c] = next /\ rows' = rows
    BY <1>1, <2>3 DEF Goes, TypeOK
  <2>5. ASSUME Alone(c)' PROVE Deletes(c)'
    <3>1. Alone(c)
      BY <1>1, <1>2, <2>2, <2>4, <2>5 DEF Alone
    <3>2. job.wrote \in [Item -> Row]
      BY DEF Job
    <3>3. QED  BY <1>3, <1>4, <1>5, <2>2, <2>4, <3>1, <3>2 DEF Deletes
  <2>6. next \in Job \cup {Idle} /\ next.on \in used /\ next.locks \subseteq used
    BY <1>1, <1>2, <1>3, <2>2 DEF DefaultsInv
  <2>7. QED  BY <1>1, <1>2, <2>2, <2>3, <2>5, <2>6, GoesStep
<1>8. QED  BY <1>2, <1>3, <1>6, <1>7 DEF DeleteRow


LEMMA ReplaceStep ==
  ASSUME DefaultsInv, NEW c \in Call, FindReplacement(c)
  PROVE  DefaultsInv'
<1>1. calls[c] # Idle /\ calls[c].do = "replace" /\ TypeOK
  BY DEF FindReplacement, Does, DefaultsInv
<1>2. PICK job \in Job : job = calls[c]
  BY <1>1, JobOf
<1>3. PICK on \in Item : on = job.on /\ on \in used
  BY <1>1, <1>2, JobOf
<1>4. Absent \in Row /\ {} \in SUBSET Flag /\ ~Absent.there /\ There(c) \subseteq Item
  BY DEF Absent, Row, There
<1>5. CASE There(c) = {} /\ Commit(c, on, Absent, {}, {})
  <2>1. rows'[on] = Absent /\ \A k \in Item \ {on} : rows'[k] = Seen(c, k)
    BY <1>1, <1>4, <1>5, CommitPlain
  <2>2. \A k \in Item : ~rows'[k].there
    BY <1>4, <1>5, <2>1 DEF There
  <2>3. Alone(c) => \A f \in Flag \ (crossed \ {}) : OneFor(f)'
    BY <2>2 DEF OneFor, DefaultsFor
  <2>4. QED  BY <1>1, <1>3, <1>4, <1>5, <2>3, CommitStep
<1>6. CASE There(c) # {} /\ Goes(c, [calls[c] EXCEPT !.do = "promote", !.found = {Max(There(c))}])
  <2>1. Max(There(c)) \in Item
    <3>1. There(c) \subseteq Int /\ IsFiniteSet(There(c))
      BY <1>4, FS_Subset DEF DefaultsInv, Numbered
    <3>2. QED  BY <1>4, <1>6, <3>1, HasGreatest
  <2>2. PICK found \in SUBSET Item : found = {Max(There(c))}
    BY <2>1
  <2>3. PICK next : next = [calls[c] EXCEPT !.do = "promote", !.found = found]
    OBVIOUS
  <2>4. next = [job EXCEPT !.do = "promote", !.found = found]
    BY <1>2, <2>3
  <2>5. /\ next \in Job /\ next.wrote = job.wrote /\ next.locks = job.locks
        /\ next.do = "promote" /\ next.on = job.on /\ next.was = job.was /\ next.shared = job.shared
    BY <2>4 DEF Job
  <2>6. Goes(c, next)
    BY <1>6, <2>2, <2>3
  <2>7. calls'[c] = next /\ rows' = rows
    BY <1>1, <2>6 DEF Goes, TypeOK
  <2>8. ASSUME Alone(c)' PROVE Deletes(c)'
    <3>1. Alone(c) /\ ~Clears(c)
      BY <1>1, <1>2, <2>5, <2>7, <2>8 DEF Alone, Clears, Job
    <3>2. Deletes(c)
      BY <3>1 DEF DefaultsInv
    <3>3. QED  BY <1>1, <1>2, <2>5, <2>7, <3>2 DEF Deletes
  <2>9. next \in Job \cup {Idle} /\ next.on \in used /\ next.locks \subseteq used
    BY <1>1, <1>2, <1>3, <2>5 DEF DefaultsInv
  <2>10. QED  BY <1>1, <1>2, <2>5, <2>6, <2>8, <2>9, GoesStep
<1>7. QED  BY <1>2, <1>3, <1>5, <1>6 DEF FindReplacement

LEMMA PromoteStep ==
  ASSUME DefaultsInv, NEW c \in Call, PromoteReplacement(c)
  PROVE  DefaultsInv'
<1>1. calls[c] # Idle /\ calls[c].do = "promote" /\ TypeOK
  BY DEF PromoteReplacement, Does, DefaultsInv
<1>2. PICK job \in Job : job = calls[c]
  BY <1>1, JobOf
<1>3. PICK on \in Item : on = job.on
  BY <1>1, <1>2, JobOf
<1>4. PICK was \in SUBSET Flag : was = job.was
  BY DEF Job
<1>5. PICK i : i = Max(calls[c].found) /\ i \in There(c)
  BY DEF PromoteReplacement
<1>6. PICK row : row = With(Seen(c, i).flags \cup was)
  OBVIOUS
<1>7. Commit(c, i, row, {}, {})
  BY <1>2, <1>4, <1>5, <1>6 DEF PromoteReplacement, Promoted
<1>8. i \in Item /\ i \in used /\ Seen(c, i) \in Row /\ Seen(c, i).there
  BY <1>1, <1>5, ThereUsed, JobOf DEF There
<1>9. row \in Row /\ row.there /\ row.flags = Seen(c, i).flags \cup was /\ {} \in SUBSET Flag
  BY <1>6, <1>8 DEF With, Row
<1>10. /\ rows'[i] = row /\ \A k \in Item \ {i} : rows'[k] = Seen(c, k)
       /\ unset' = unset
  BY <1>1, <1>7, <1>8, <1>9, CommitPlain
<1>11. ASSUME Alone(c), NEW f \in Flag, f \notin crossed PROVE OneFor(f)'
  <2>1. /\ rows[on].there /\ was = rows[on].flags
        /\ job.locks = {on} /\ ~job.wrote[on].there
    <3>1. Deletes(c)
      BY <1>1, <1>2, <1>11 DEF DefaultsInv, Clears, Job
    <3>2. QED  BY <1>1, <1>2, <1>3, <1>4, <3>1 DEF Deletes
  <2>2. /\ \A k \in Item \ {on} : Seen(c, k) = rows[k]
        /\ ~Seen(c, on).there
    BY <1>2, <2>1 DEF Seen
  <2>3. i # on /\ row.flags = rows[i].flags \cup was /\ rows[i].there
    BY <1>8, <1>9, <2>2
  <2>4. OneFor(f)
    BY <1>11 DEF DefaultsInv
  <2>5. CASE f \in was
    <3>1. on \in DefaultsFor(f)
      BY <2>1, <2>5 DEF DefaultsFor
    <3>2. \A k \in Item : k \in DefaultsFor(f)' <=> k = i
      BY <1>8, <1>9, <1>10, <2>2, <2>3, <2>4, <2>5, <3>1 DEF OneFor, DefaultsFor
    <3>3. QED  BY <1>8, <3>2 DEF OneFor, DefaultsFor
  <2>6. CASE f \notin was
    <3>1. \A k \in Item : k \in DefaultsFor(f)' <=> k \in DefaultsFor(f)
      BY <1>8, <1>9, <1>10, <2>1, <2>2, <2>3, <2>6 DEF DefaultsFor
    <3>2. QED  BY <1>10, <2>1, <2>4, <3>1 DEF OneFor, DefaultsFor
  <2>7. QED  BY <2>5, <2>6
<1>12. Alone(c) => \A f \in Flag \ (crossed \ {}) : OneFor(f)'
  BY <1>11
<1>13. QED  BY <1>1, <1>7, <1>8, <1>9, <1>12, CommitStep

-----------------------------------------------------------------------------
(* The invariant *)

LEMMA RollBackStep ==
  ASSUME DefaultsInv, NEW c \in Call, RollBack(c)
  PROVE  DefaultsInv'
<1>1. calls[c] # Idle /\ Goes(c, Idle) /\ Idle \in Job \cup {Idle}
  BY DEF RollBack
<1>2. calls'[c] = Idle
  BY <1>1 DEF Goes, DefaultsInv, TypeOK
<1>3. ~Alone(c)'
  BY <1>2 DEF Alone
<1>4. QED  BY <1>1, <1>3, GoesStep

LEMMA DefaultsStep ==
  ASSUME DefaultsInv, [Next]_vars
  PROVE  DefaultsInv'
<1>1. CASE UNCHANGED vars
  BY <1>1 DEF vars, DefaultsInv, TypeOK, Alone, Clears, Deletes, OneFor, DefaultsFor, Seen, There
<1>2. ASSUME NEW c \in Call, StartCreate(c) \/ \E i \in Item : LoadToUpdate(c, i) \/ LoadToChoose(c, i) \/ LoadToDelete(c, i)
      PROVE  DefaultsInv'
  BY <1>2, StartsStep
<1>3. ASSUME NEW c \in Call, FindToClear(c) PROVE DefaultsInv'
  BY <1>3, FindStep
<1>4. ASSUME NEW c \in Call, ClearFlag(c) PROVE DefaultsInv'
  BY <1>4, ClearStep
<1>5. ASSUME NEW c \in Call, CreateRow(c) PROVE DefaultsInv'
  BY <1>5, CreateStep
<1>6. ASSUME NEW c \in Call, UpdateRow(c) PROVE DefaultsInv'
  BY <1>6, UpdateStep
<1>7. ASSUME NEW c \in Call, ChooseRow(c) PROVE DefaultsInv'
  BY <1>7, ChooseStep
<1>8. ASSUME NEW c \in Call, DeleteRow(c) PROVE DefaultsInv'
  BY <1>8, DeleteStep
<1>9. ASSUME NEW c \in Call, FindReplacement(c) PROVE DefaultsInv'
  BY <1>9, ReplaceStep
<1>10. ASSUME NEW c \in Call, PromoteReplacement(c) PROVE DefaultsInv'
  BY <1>10, PromoteStep
<1>11. ASSUME NEW c \in Call, RollBack(c) PROVE DefaultsInv'
  BY <1>11, RollBackStep
<1>12. QED
  BY <1>1, <1>2, <1>3, <1>4, <1>5, <1>6, <1>7, <1>8, <1>9, <1>10, <1>11 DEF Next

LEMMA DefaultsStart ==
  ASSUME Numbered, Init
  PROVE  DefaultsInv
<1>1. TypeOK /\ \A i \in Item : ~rows[i].there
  BY DEF Init, TypeOK, Row, Absent
<1>2. QED  BY <1>1 DEF Init, DefaultsInv, Alone, OneFor, DefaultsFor

LEMMA DefaultsMean ==
  ASSUME DefaultsInv
  PROVE  OneDefault
<1>1. ASSUME NEW f \in Flag \ crossed PROVE Cardinality(DefaultsFor(f)) <= 1
  <2>1. CASE DefaultsFor(f) = {}
    BY <2>1, FS_EmptySet
  <2>2. CASE DefaultsFor(f) # {}
    <3>1. PICK i \in DefaultsFor(f) : \A j \in DefaultsFor(f) : i = j
      BY <2>2 DEF DefaultsInv, OneFor
    <3>2. DefaultsFor(f) = {i}
      BY <3>1
    <3>3. Cardinality({i}) = 1
      BY FS_Singleton
    <3>4. QED  BY <3>2, <3>3
  <2>3. QED  BY <2>1, <2>2
<1>2. QED  BY <1>1 DEF OneDefault, DefaultsInv, OneFor

\* While a user has addresses exactly one is the default for each purpose,
\* unless the user took the flag off, and unless requests overlapped since the
\* flag was last set by a request that met no other: whatever the addresses,
\* the purposes and the number of requests (create_address, update_address,
\* set_default_address and delete_address of accounts.services).
THEOREM OneDefaultAddress == ASSUME Numbered PROVE Spec => []OneDefault
<1>1. Init => DefaultsInv
  BY DefaultsStart
<1>2. DefaultsInv /\ [Next]_vars => DefaultsInv'
  BY DefaultsStep
<1>3. DefaultsInv => OneDefault
  BY DefaultsMean
<1>4. QED  BY <1>1, <1>2, <1>3, PTL DEF Spec

\* The same of a user's saved payment methods (payments.services).
THEOREM OneDefaultMethod == ASSUME Numbered PROVE MethodsSpec => []OneDefault
<1>1. Init => DefaultsInv
  BY DefaultsStart
<1>2. DefaultsInv /\ [MethodsNext]_vars => DefaultsInv'
  <2>1. MethodsNext => Next
    BY DEF MethodsNext, Next, AttachPaymentMethod, SetDefault, Destroy, SavePaymentMethod,
           SetDefaultPaymentMethod, DeletePaymentMethod
  <2>2. QED  BY <2>1, DefaultsStep
<1>3. DefaultsInv => OneDefault
  BY DefaultsMean
<1>4. QED  BY <1>1, <1>2, <1>3, PTL DEF MethodsSpec

=============================================================================

------------------------ MODULE DeliveryQueues_proofs ------------------------
(***************************************************************************)
(* Safety of the queues of webhooks, mails and digests, for any number of  *)
(* rows, processes, attempts and crashes.                                  *)
(***************************************************************************)
EXTENDS DeliveryQueues, FiniteSetTheorems, TLAPS

\* What a pass holds: nothing outside of its two loops; and a kick only sends webhooks.
PassFits(p) ==
    /\ phase[p] \notin {"webhooks", "mails"} => copies[p] = NoCopies /\ sending[p] = {}
    /\ p = Kick => phase[p] \in {"idle", "webhooks"}

\* The attempts counted of a row are attempts made,
RowCounts(i) ==
    /\ rows[i].status \in {"absent", "pending"} => rows[i].attempts < MaxAttempts
    /\ rows[i].attempts <= tries[i]
    /\ rows[i].status = "failed" => i \in refused \/ tries[i] >= MaxAttempts

\* and those in the copy of a pass: one more, once the pass sends the row.
CopyCounts(p, i) ==
    /\ copies[p][i] # None => copies[p][i] <= tries[i]
    /\ i \in sending[p] => copies[p][i] # None /\ copies[p][i] + 1 <= tries[i]

CountFits(i) == RowCounts(i) /\ \A p \in Passes : CopyCounts(p, i)

\* A lease lets one pass in, and each that lapses another.
Leases(i) == IF rows[i].lease = "held" \/ rows[i].status = "gone" THEN 1 ELSE 0
LeaseFits(i) ==
    /\ Cardinality(Holders(i)) <= lapses[i] + Leases(i)
    /\ rows[i].status \in Finished => rows[i].lease = "none"

\* The digests of this period: those queued, and those that processes may still queue.
MayQueue == {p \in Processes : phase[p] = "digest-queue" \/ (lastDigest < period /\ phase[p] # "digest-mark")}
DigestFits ==
    /\ lastDigest <= period
    /\ \A k \in 1..MaxPeriods : lastDigest = k => digests[k] > 0
    /\ \A p \in Passes : phase[p] \in {"digest-queue", "digest-mark"} => period > 0
    /\ \A p \in Passes : phase[p] = "digest-mark" => digests[period] > 0
    /\ \A k \in 0..MaxPeriods : k > period => digests[k] = 0
    /\ \A k \in 1..MaxPeriods : digests[k] <= Cardinality(Processes) + crashes
    /\ digests[period] + Cardinality(MayQueue) <= Cardinality(Processes) + crashes

Inv ==
    /\ TypeOK
    /\ \A p \in Passes : PassFits(p)
    /\ \A i \in Items : CountFits(i) /\ LeaseFits(i)
    /\ DigestFits

-----------------------------------------------------------------------------
\* Few passes, few processes.
LEMMA PassesAreFinite ==
    /\ IsFiniteSet(Passes) /\ IsFiniteSet(Processes) /\ Processes \subseteq Passes
    /\ Cardinality(Processes) \in Nat
    /\ \A S \in SUBSET Passes : IsFiniteSet(S) /\ Cardinality(S) \in Nat
<1>1. IsFiniteSet(Processes) /\ IsFiniteSet({Kick})
  BY DeliveryQueuesAssumption, FS_Singleton
<1>2. IsFiniteSet(Passes)
  BY <1>1, FS_Union DEF Passes
<1>3. \A S \in SUBSET Passes : IsFiniteSet(S) /\ Cardinality(S) \in Nat
  BY <1>2, FS_Subset, FS_CardinalityType
<1> QED
  BY <1>1, <1>2, <1>3 DEF Passes

LEMMA FewerPasses ==
    ASSUME NEW S \in SUBSET Passes, NEW T \in SUBSET S
    PROVE  Cardinality(T) <= Cardinality(S)
BY PassesAreFinite, FS_Subset

LEMMA OnePassMore ==
    ASSUME NEW S \in SUBSET Passes, NEW T \in SUBSET Passes, NEW p \in Passes, T \subseteq S \cup {p}
    PROVE  Cardinality(T) <= Cardinality(S) + 1
<1>1. Cardinality(T) <= Cardinality(S \cup {p})
  BY FewerPasses
<1>2. Cardinality(S \cup {p}) <= Cardinality(S) + 1
  <2>1. IsFiniteSet(S) /\ Cardinality(S) \in Nat
    BY PassesAreFinite
  <2>2. CASE p \in S
    <3>1. S \cup {p} = S
      BY <2>2
    <3>2. Cardinality(S \cup {p}) = Cardinality(S)
      BY <3>1
    <3> QED
      BY <2>1, <3>2
  <2>3. CASE p \notin S
    <3>1. Cardinality(S \cup {p}) = Cardinality(S) + 1
      BY <2>1, <2>3, FS_AddElement
    <3> QED
      BY <2>1, <3>1
  <2> QED
    BY <2>2, <2>3
<1>3. Cardinality(T) \in Nat /\ Cardinality(S) \in Nat /\ Cardinality(S \cup {p}) \in Nat
  BY PassesAreFinite
<1> QED
  BY <1>1, <1>2, <1>3

LEMMA OnePassFewer ==
    ASSUME NEW S \in SUBSET Passes, NEW T \in SUBSET S, NEW p \in S, p \notin T
    PROVE  Cardinality(T) + 1 <= Cardinality(S)
<1>1. Cardinality(T) <= Cardinality(S \ {p})
  BY FewerPasses
<1>2. Cardinality(S \ {p}) = Cardinality(S) - 1
  BY PassesAreFinite, FS_RemoveElement
<1>3. Cardinality(T) \in Nat /\ Cardinality(S) \in Nat /\ Cardinality(S \ {p}) \in Nat
  BY PassesAreFinite
<1> QED
  BY <1>1, <1>2, <1>3

-----------------------------------------------------------------------------
LEMMA InitFits == Init => Inv
<1> SUFFICES ASSUME Init PROVE Inv
  OBVIOUS
<1>1. NoRow \in Row /\ NoCopies \in [Items -> (0..MaxAttempts - 1) \cup {None}]
  BY DeliveryQueuesAssumption DEF NoRow, Row, NoCopies
<1>2. TypeOK
  <2>1. rows \in [Items -> Row] /\ copies \in [Passes -> [Items -> (0..MaxAttempts - 1) \cup {None}]]
    BY <1>1 DEF Init
  <2>2. phase \in [Passes -> Phases] /\ sending \in [Passes -> SUBSET Items] /\ kicked \in BOOLEAN
    BY DEF Init, Phases
  <2>3. lastDigest \in 0..MaxPeriods /\ period \in 0..MaxPeriods /\ crashes \in 0..MaxCrashes
    BY DeliveryQueuesAssumption DEF Init
  <2>4. tries \in [Items -> Nat] /\ refused \subseteq Items /\ digests \in [0..MaxPeriods -> Nat] /\ lapses \in [Items -> Nat]
    BY DEF Init
  <2> QED
    BY <2>1, <2>2, <2>3, <2>4 DEF TypeOK
<1>3. \A p \in Passes : PassFits(p)
  BY DEF Init, PassFits
<1>4. ASSUME NEW i \in Items PROVE CountFits(i)
  BY DeliveryQueuesAssumption DEF Init, CountFits, RowCounts, CopyCounts, NoRow, NoCopies
<1>5. ASSUME NEW i \in Items PROVE LeaseFits(i)
  <2>1. Holders(i) = {}
    BY DEF Init, Holders, NoCopies
  <2>2. Cardinality(Holders(i)) = 0
    BY <2>1, FS_EmptySet
  <2> QED
    BY <2>2 DEF Init, LeaseFits, Leases, NoRow, Finished
<1>6. DigestFits
  <2>1. MayQueue = {}
    BY PassesAreFinite DEF Init, MayQueue
  <2>2. Cardinality(MayQueue) = 0
    BY <2>1, FS_EmptySet
  <2> QED
    BY <2>2, PassesAreFinite, DeliveryQueuesAssumption DEF Init, DigestFits
<1> QED
  BY <1>2, <1>3, <1>4, <1>5, <1>6 DEF Inv

-----------------------------------------------------------------------------
\* The rows that a claim, a result or a prune leaves are rows.
LEMMA RowFacts ==
    /\ NoRow \in Row /\ [NoRow EXCEPT !.status = "gone"] \in Row
    /\ \A x \in Row : /\ [x EXCEPT !.lease = "held"] \in Row /\ [x EXCEPT !.lease = "lapsed"] \in Row
                      /\ [x EXCEPT !.due = TRUE] \in Row
                      /\ [x EXCEPT !.status = "pending", !.due = TRUE] \in Row
<1>0. ASSUME NEW x \in Row PROVE [x EXCEPT !.status = "gone"] \in Row
  BY DEF Row
<1>1. NoRow \in Row /\ [NoRow EXCEPT !.status = "gone"] \in Row
  <2>1. NoRow \in Row
    BY DeliveryQueuesAssumption DEF NoRow, Row
  <2> QED
    BY <1>0, <2>1
<1>2. ASSUME NEW x \in Row
      PROVE  /\ [x EXCEPT !.lease = "held"] \in Row /\ [x EXCEPT !.lease = "lapsed"] \in Row
             /\ [x EXCEPT !.due = TRUE] \in Row /\ [x EXCEPT !.status = "pending"] \in Row
  BY DEF Row
<1>3. ASSUME NEW x \in Row PROVE [x EXCEPT !.status = "pending", !.due = TRUE] \in Row
  <2>1. PICK y \in Row : y = [x EXCEPT !.status = "pending"]
    BY <1>2
  <2>2. [y EXCEPT !.due = TRUE] \in Row
    BY <1>2
  <2> QED
    BY <2>1, <2>2
<1> QED
  BY <1>1, <1>2, <1>3

LEMMA ClaimFacts ==
    ASSUME Inv, NEW batch \in SUBSET Items, \A i \in batch : MayClaim(i)
    PROVE  /\ Leased(batch) \in [Items -> Row]
           /\ Claimed(batch) \in [Items -> (0..MaxAttempts - 1) \cup {None}]
<1>1. Leased(batch) \in [Items -> Row]
  BY RowFacts DEF Inv, TypeOK, Leased
<1>2. \A i \in batch : rows[i].attempts \in 0..MaxAttempts - 1
  BY DeliveryQueuesAssumption DEF Inv, TypeOK, Row, CountFits, RowCounts, MayClaim
<1> QED
  BY <1>1, <1>2 DEF Claimed

LEMMA ResultFacts ==
    ASSUME Inv, NEW p \in Passes, NEW i \in sending[p], NEW outcome \in Outcomes
    PROVE  /\ i \in Items /\ copies[p][i] \in 0..MaxAttempts - 1
           /\ Completed(i, copies[p][i] + 1, outcome) \in Row
<1>1. i \in Items /\ copies[p][i] \in 0..MaxAttempts - 1
  BY DEF Inv, TypeOK, CountFits, CopyCounts
<1>2. PICK n \in 1..MaxAttempts : n = copies[p][i] + 1
  BY <1>1, DeliveryQueuesAssumption
<1>3. Completed(i, n, outcome) \in Row
  <2>1. rows[i] \in Row
    BY <1>1 DEF Inv, TypeOK
  <2>2. PICK s \in {"delivered", "failed", "pending"} :
           s = IF outcome = "ok" THEN "delivered"
               ELSE IF outcome = "permanent" \/ IsLast(n) THEN "failed" ELSE "pending"
    OBVIOUS
  <2>3. PICK b \in BOOLEAN : b = (s # "pending")
    OBVIOUS
  <2>4. [status |-> s, attempts |-> n, due |-> b, lease |-> "none"] \in Row
    BY DEF Row, Finished
  <2>5. Completed(i, n, outcome) = IF rows[i].status = "gone" THEN rows[i]
                                   ELSE [status |-> s, attempts |-> n, due |-> b, lease |-> "none"]
    BY <2>2, <2>3 DEF Completed
  <2> QED
    BY <2>1, <2>4, <2>5
<1> QED
  BY <1>1, <1>2, <1>3

LEMMA PruneFacts ==
    ASSUME TypeOK, NEW kind, Prune(kind)
    PROVE  /\ rows' \in [Items -> Row]
           /\ \A i \in Items : \/ rows'[i] = rows[i]
                               \/ rows[i].status \in Finished /\ rows'[i] = [NoRow EXCEPT !.status = "gone"]
<1>1. PICK S : /\ S \subseteq {i \in kind : rows[i].status \in Finished}
               /\ rows' = [i \in Items |-> IF i \in S THEN [NoRow EXCEPT !.status = "gone"] ELSE rows[i]]
  BY DEF Prune
<1> QED
  BY <1>1, RowFacts DEF TypeOK

\* The parts of TypeOK a pass changes.
LEMMA PassTypes ==
    ASSUME TypeOK
    PROVE  /\ phase \in [Passes -> Phases] /\ copies \in [Passes -> [Items -> (0..MaxAttempts - 1) \cup {None}]]
           /\ sending \in [Passes -> SUBSET Items] /\ rows \in [Items -> Row] /\ tries \in [Items -> Nat]
           /\ lapses \in [Items -> Nat]
BY DEF TypeOK

LEMMA NextHasTypes == ASSUME Inv, Next PROVE TypeOK'
<1>0. TypeOK
  BY DEF Inv
<1>1. ASSUME NEW i \in Items, Enqueue(i) \/ BecomesDue(i) \/ Lapse(i) PROVE TypeOK'
  <2>1. rows' \in [Items -> Row]
    <3>1. rows[i] \in Row /\ rows \in [Items -> Row]
      BY <1>0, PassTypes
    <3>2. \/ rows' = [rows EXCEPT ![i] = [rows[i] EXCEPT !.status = "pending", !.due = TRUE]]
          \/ rows' = [rows EXCEPT ![i] = [rows[i] EXCEPT !.due = TRUE]]
          \/ rows' = [rows EXCEPT ![i] = [rows[i] EXCEPT !.lease = "lapsed"]]
      BY <1>1, <3>1 DEF Enqueue, BecomesDue, Lapse
    <3> QED
      BY <3>1, <3>2, RowFacts
  <2>2. kicked' \in BOOLEAN
    BY <1>0, <1>1, Zenon DEF Enqueue, BecomesDue, Lapse, procVars, TypeOK
  <2>3. lapses' \in [Items -> Nat]
    BY <1>0, <1>1 DEF Enqueue, BecomesDue, Lapse, bookVars, TypeOK
  <2>4. UNCHANGED <<lastDigest, phase, copies, sending, period, tries, refused, digests, crashes>>
    BY <1>1 DEF Enqueue, BecomesDue, Lapse, procVars, bookVars
  <2> QED
    BY <1>0, <2>1, <2>2, <2>3, <2>4 DEF TypeOK
<1>2. CASE DeleteHook
  <2>1. rows' \in [Items -> Row]
    BY <1>0, <1>2, RowFacts DEF DeleteHook, TypeOK
  <2> QED
    BY <1>0, <1>2, <2>1 DEF DeleteHook, TypeOK, procVars, bookVars
<1>3. CASE NextPeriod
  <2>1. period' \in 0..MaxPeriods
    BY <1>0, <1>3, DeliveryQueuesAssumption DEF NextPeriod, TypeOK
  <2> QED
    BY <1>0, <1>3, <2>1 DEF NextPeriod, TypeOK, dbVars, procVars, bookVars
<1>4. ASSUME NEW q \in Processes, Crash(q) PROVE TypeOK'
  <2>1. crashes' \in 0..MaxCrashes
    BY <1>0, <1>4, DeliveryQueuesAssumption DEF Crash, TypeOK
  <2>2. phase' \in [Passes -> Phases] /\ sending' \in [Passes -> SUBSET Items]
    BY <1>0, <1>4 DEF Crash, TypeOK, Phases
  <2>3. copies' \in [Passes -> [Items -> (0..MaxAttempts - 1) \cup {None}]]
    <3>1. NoCopies \in [Items -> (0..MaxAttempts - 1) \cup {None}]
      BY DEF NoCopies
    <3> QED
      BY <1>0, <1>4, <3>1 DEF Crash, TypeOK
  <2>4. kicked' \in BOOLEAN
    BY <1>4, Zenon DEF Crash
  <2> QED
    BY <1>0, <1>4, <2>1, <2>2, <2>3, <2>4 DEF Crash, TypeOK, dbVars
<1>5. ASSUME NEW p \in Passes, NEW next \in {"idle", "digests"}, StartWebhooks(p, next), kicked' \in BOOLEAN
      PROVE  TypeOK'
  <2> DEFINE batch == Claimable(Hooks)
  <2>1. /\ batch \in SUBSET Items /\ Leased(batch) \in [Items -> Row]
        /\ Claimed(batch) \in [Items -> (0..MaxAttempts - 1) \cup {None}]
    BY ClaimFacts DEF Claimable, Items
  <2> HIDE DEF batch
  <2>2. /\ rows' = Leased(batch) /\ copies' = [copies EXCEPT ![p] = Claimed(batch)]
        /\ sending' = [sending EXCEPT ![p] = batch]
        /\ phase' = [phase EXCEPT ![p] = IF batch = {} THEN next ELSE "webhooks"]
    BY <1>5 DEF StartWebhooks, batch
  <2>3. tries' \in [Items -> Nat]
    BY <1>0, <1>5 DEF StartWebhooks, Tried, TypeOK
  <2>4. phase' \in [Passes -> Phases]
    BY <1>0, <2>2, PassTypes DEF Phases
  <2>5. copies' \in [Passes -> [Items -> (0..MaxAttempts - 1) \cup {None}]] /\ sending' \in [Passes -> SUBSET Items]
    BY <1>0, <2>1, <2>2, PassTypes
  <2> QED
    BY <1>0, <1>5, <2>1, <2>2, <2>3, <2>4, <2>5 DEF StartWebhooks, Tried, TypeOK
<1>6. ASSUME NEW p \in Passes, Tick(p) \/ (p = Kick /\ RunKick) PROVE TypeOK'
  <2>1. kicked' \in BOOLEAN
    BY <1>0, <1>6 DEF Tick, RunKick, TypeOK
  <2> QED
    BY <1>5, <1>6, <2>1 DEF Tick, RunKick
<1>7. ASSUME NEW p \in Passes, EndWebhooks(p) \/ EndMails(p) PROVE TypeOK'
  <2>1. rows' \in [Items -> Row]
    BY <1>0, <1>7, PruneFacts DEF EndWebhooks, EndMails
  <2>2. phase' \in [Passes -> Phases]
    BY <1>0, <1>7 DEF EndWebhooks, EndMails, TypeOK, Phases
  <2>3. UNCHANGED <<lastDigest, kicked, copies, sending, period, bookVars>>
    BY <1>7 DEF EndWebhooks, EndMails
  <2> QED
    BY <1>0, <2>1, <2>2, <2>3 DEF TypeOK, bookVars
<1>8. ASSUME NEW p \in Passes, ReadDigests(p) \/ QueueDigest(p) \/ MarkDigest(p) PROVE TypeOK'
  <2>1. phase' \in [Passes -> Phases]
    BY <1>0, <1>8 DEF ReadDigests, QueueDigest, MarkDigest, TypeOK, Phases
  <2>2. lastDigest' \in 0..MaxPeriods
    BY <1>0, <1>8 DEF ReadDigests, QueueDigest, MarkDigest, TypeOK, dbVars
  <2>3. digests' \in [0..MaxPeriods -> Nat]
    BY <1>0, <1>8 DEF ReadDigests, QueueDigest, MarkDigest, TypeOK, bookVars
  <2>4. UNCHANGED <<rows, kicked, copies, sending, period, tries, refused, lapses, crashes>>
    BY <1>8 DEF ReadDigests, QueueDigest, MarkDigest, dbVars, bookVars
  <2> QED
    BY <1>0, <2>1, <2>2, <2>3, <2>4 DEF TypeOK
<1>9. ASSUME NEW p \in Passes, ClaimMails(p) PROVE TypeOK'
  <2> DEFINE batch == Claimable(Mails)
  <2>1. /\ batch \in SUBSET Items /\ Leased(batch) \in [Items -> Row]
        /\ Claimed(batch) \in [Items -> (0..MaxAttempts - 1) \cup {None}]
    BY ClaimFacts DEF Claimable, Items
  <2> HIDE DEF batch
  <2>2. /\ rows' = Leased(batch) /\ copies' = [copies EXCEPT ![p] = Claimed(batch)]
        /\ phase' = [phase EXCEPT ![p] = IF batch = {} THEN "idle" ELSE "mails"]
        /\ UNCHANGED <<lastDigest, kicked, sending, period, bookVars>>
    BY <1>9 DEF ClaimMails, batch
  <2>3. phase' \in [Passes -> Phases]
    BY <1>0, <2>2, PassTypes DEF Phases
  <2>4. copies' \in [Passes -> [Items -> (0..MaxAttempts - 1) \cup {None}]]
    BY <1>0, <2>1, <2>2, PassTypes
  <2> QED
    BY <1>0, <2>1, <2>2, <2>3, <2>4 DEF TypeOK, bookVars
<1>10. ASSUME NEW p \in Passes, NEW i \in Mails, SendMail(p, i) PROVE TypeOK'
  <2>1. sending' \in [Passes -> SUBSET Items] /\ tries' \in [Items -> Nat]
    BY <1>0, <1>10 DEF SendMail, Tried, TypeOK, Items
  <2> QED
    BY <1>0, <1>10, <2>1 DEF SendMail, Tried, TypeOK, dbVars
<1>11. ASSUME NEW p \in Passes, NEW i \in Items, NEW outcome \in Outcomes, Answers(p, i, outcome) PROVE TypeOK'
  <2>1. PICK x \in Row : rows' = [rows EXCEPT ![i] = x]
    BY <1>11, ResultFacts DEF Answers
  <2>2. refused' \subseteq Items
    BY <1>0, <1>11 DEF Answers, TypeOK
  <2>3. sending' \in [Passes -> SUBSET Items]
    BY <1>0, <1>11 DEF Answers, TypeOK
  <2>4. copies' \in [Passes -> [Items -> (0..MaxAttempts - 1) \cup {None}]]
    BY <1>0, <1>11 DEF Answers, TypeOK
  <2> QED
    BY <1>0, <1>11, <2>1, <2>2, <2>3, <2>4 DEF Answers, TypeOK
<1> QED
  BY <1>1, <1>2, <1>3, <1>4, <1>6, <1>7, <1>8, <1>9, <1>10, <1>11 DEF Next, Step, Passes

-----------------------------------------------------------------------------
(***************************************************************************)
(* The invariant is kept: first what most steps do to a row or a copy.     *)
(***************************************************************************)

\* A row keeps its attempts, is queued, or goes.
RowKeeps(i) ==
    \/ /\ rows'[i].attempts = rows[i].attempts /\ rows'[i].lease = rows[i].lease
       /\ \/ rows'[i].status = rows[i].status
          \/ rows[i].status = "absent" /\ rows'[i].status = "pending"
    \/ rows[i].status # "absent" /\ rows'[i] = [NoRow EXCEPT !.status = "gone"]

\* A pass keeps its copies and what it sends, or drops them.
CopiesKeep(p) ==
    \/ copies'[p] = copies[p] /\ sending'[p] = sending[p]
    \/ copies'[p] = NoCopies /\ sending'[p] = {}

LEMMA TriesFacts ==
    ASSUME Inv, TypeOK', NEW i \in Items
    PROVE  /\ tries[i] \in Nat /\ tries'[i] \in Nat /\ lapses[i] \in Nat /\ lapses'[i] \in Nat
           /\ rows[i] \in Row /\ rows'[i] \in Row
           /\ rows[i].attempts \in Nat /\ rows'[i].attempts \in Nat
           /\ RowCounts(i) /\ LeaseFits(i) /\ \A p \in Passes : CopyCounts(p, i)
<1>1. tries[i] \in Nat /\ tries'[i] \in Nat /\ lapses[i] \in Nat /\ lapses'[i] \in Nat
  BY DEF Inv, TypeOK
<1>2. rows[i] \in Row /\ rows'[i] \in Row
  BY DEF Inv, TypeOK
<1>3. rows[i].attempts \in Nat /\ rows'[i].attempts \in Nat
  BY <1>2 DEF Row
<1> QED
  BY <1>1, <1>2, <1>3 DEF Inv, CountFits

LEMMA RowCountsStay ==
    ASSUME Inv, TypeOK', NEW i \in Items, RowKeeps(i), tries'[i] >= tries[i], refused \subseteq refused'
    PROVE  RowCounts(i)'
<1>1. CASE rows'[i] = [NoRow EXCEPT !.status = "gone"]
  <2>1. rows'[i].status = "gone" /\ rows'[i].attempts = 0
    BY <1>1 DEF NoRow
  <2> QED
    BY <2>1, TriesFacts DEF RowCounts
<1>2. CASE rows'[i].attempts = rows[i].attempts /\ rows'[i].status = rows[i].status
  BY <1>2, TriesFacts, DeliveryQueuesAssumption DEF RowCounts
<1>3. CASE rows'[i].attempts = rows[i].attempts /\ rows[i].status = "absent" /\ rows'[i].status = "pending"
  BY <1>3, TriesFacts, DeliveryQueuesAssumption DEF RowCounts
<1> QED
  BY <1>1, <1>2, <1>3 DEF RowKeeps

LEMMA CopyCountsStay ==
    ASSUME Inv, TypeOK', NEW p \in Passes, NEW i \in Items, CopiesKeep(p), tries'[i] >= tries[i]
    PROVE  CopyCounts(p, i)'
<1>1. CopyCounts(p, i) /\ tries[i] \in Nat /\ tries'[i] \in Nat
  BY TriesFacts
<1>2. CASE copies'[p] = copies[p] /\ sending'[p] = sending[p]
  <2>1. copies[p][i] \in Nat \cup {None}
    BY DEF Inv, TypeOK
  <2> QED
    BY <1>1, <1>2, <2>1 DEF CopyCounts
<1>3. CASE copies'[p] = NoCopies /\ sending'[p] = {}
  BY <1>3 DEF CopyCounts, NoCopies
<1> QED
  BY <1>2, <1>3 DEF CopiesKeep

LEMMA LeaseStays ==
    ASSUME Inv, TypeOK', NEW i \in Items, RowKeeps(i), \A p \in Passes : CopiesKeep(p), lapses'[i] = lapses[i]
    PROVE  LeaseFits(i)'
<1>1. Holders(i)' \subseteq Holders(i) /\ Holders(i) \in SUBSET Passes
  BY DEF Holders, CopiesKeep, NoCopies
<1>2. Cardinality(Holders(i)') <= Cardinality(Holders(i))
  BY <1>1, FewerPasses
<1>3. Leases(i)' >= Leases(i) /\ Leases(i) \in 0..1 /\ Leases(i)' \in 0..1
  BY DEF RowKeeps, Leases, NoRow
<1>4. rows'[i].status \in Finished => rows'[i].lease = "none"
  BY TriesFacts DEF RowKeeps, LeaseFits, NoRow, Finished
<1>5. Cardinality(Holders(i)') \in Nat /\ Cardinality(Holders(i)) \in Nat
  BY <1>1, PassesAreFinite
<1> QED
  BY <1>2, <1>3, <1>4, <1>5, TriesFacts DEF LeaseFits

\* What the digests depend on.
DigestsKeep ==
    /\ UNCHANGED <<lastDigest, period, digests, crashes>>
    /\ \A p \in Passes : \/ phase'[p] = phase[p]
                         \/ /\ phase[p] \notin {"digest-queue", "digest-mark"}
                            /\ phase'[p] \notin {"digest-queue", "digest-mark"}

LEMMA DigestsStay ==
    ASSUME Inv, DigestsKeep
    PROVE  DigestFits'
<1>1. MayQueue' = MayQueue
  BY PassesAreFinite DEF DigestsKeep, MayQueue
<1>2. \A p \in Passes : phase'[p] \in {"digest-queue", "digest-mark"} => phase'[p] = phase[p]
  BY DEF DigestsKeep
<1> QED
  BY <1>1, <1>2 DEF Inv, DigestFits, DigestsKeep

\* Steps that send nothing and claim nothing.
LEMMA PlainFits ==
    ASSUME Inv, TypeOK', UNCHANGED <<tries, refused, lapses>>,
           \A i \in Items : RowKeeps(i), \A p \in Passes : CopiesKeep(p) /\ PassFits(p)', DigestFits'
    PROVE  Inv'
<1>1. ASSUME NEW i \in Items PROVE CountFits(i)' /\ LeaseFits(i)'
  <2>1. tries'[i] >= tries[i] /\ lapses'[i] = lapses[i] /\ refused \subseteq refused'
    BY TriesFacts
  <2>2. RowCounts(i)' /\ \A p \in Passes : CopyCounts(p, i)'
    BY <2>1, RowCountsStay, CopyCountsStay
  <2>3. LeaseFits(i)'
    BY <2>1, LeaseStays
  <2> QED
    BY <2>2, <2>3 DEF CountFits
<1> QED
  BY <1>1 DEF Inv

\* Queueing, a backoff that ends and a deletion leave what was counted of a row.
LEMMA RowStepKeeps ==
    ASSUME TypeOK, DeleteHook \/ \E i \in Items : Enqueue(i) \/ BecomesDue(i)
    PROVE  \A i \in Items : RowKeeps(i)
<1>1. rows \in [Items -> Row]
  BY DEF TypeOK
<1>2. CASE DeleteHook
  BY <1>1, <1>2 DEF DeleteHook, RowKeeps
<1>3. ASSUME NEW i \in Items, Enqueue(i) \/ BecomesDue(i) PROVE \A j \in Items : RowKeeps(j)
  <2>1. rows[i] \in Row
    BY <1>1
  <2>2. \/ /\ rows[i].status = "absent"
           /\ rows' = [rows EXCEPT ![i] = [rows[i] EXCEPT !.status = "pending", !.due = TRUE]]
        \/ rows' = [rows EXCEPT ![i] = [rows[i] EXCEPT !.due = TRUE]]
    BY <1>1, <1>3 DEF Enqueue, BecomesDue
  <2>3. /\ rows'[i].attempts = rows[i].attempts /\ rows'[i].lease = rows[i].lease
        /\ \/ rows'[i].status = rows[i].status
           \/ rows[i].status = "absent" /\ rows'[i].status = "pending"
    <3>1. CASE rows' = [rows EXCEPT ![i] = [rows[i] EXCEPT !.due = TRUE]]
      BY <1>1, <2>1, <3>1 DEF Row
    <3>2. CASE /\ rows[i].status = "absent"
               /\ rows' = [rows EXCEPT ![i] = [rows[i] EXCEPT !.status = "pending", !.due = TRUE]]
      BY <1>1, <2>1, <3>2 DEF Row
    <3> QED
      BY <2>2, <3>1, <3>2
  <2>4. \A j \in Items \ {i} : rows'[j] = rows[j]
    BY <1>1, <2>2
  <2> QED
    BY <2>3, <2>4 DEF RowKeeps
<1> QED
  BY <1>2, <1>3

LEMMA RowStepFits ==
    ASSUME Inv, TypeOK', DeleteHook \/ \E i \in Items : Enqueue(i) \/ BecomesDue(i)
    PROVE  Inv'
<1>1. UNCHANGED <<lastDigest, phase, copies, sending, period, bookVars>>
  BY DEF DeleteHook, Enqueue, BecomesDue, procVars
<1>2. \A i \in Items : RowKeeps(i)
  BY RowStepKeeps DEF Inv
<1>3. \A p \in Passes : CopiesKeep(p) /\ PassFits(p)'
  BY <1>1 DEF CopiesKeep, Inv, PassFits
<1>4. DigestFits'
  BY <1>1, DigestsStay DEF DigestsKeep, bookVars
<1> QED
  BY <1>1, <1>2, <1>3, <1>4, PlainFits DEF bookVars

\* A lease lapses.
LEMMA LapseFits ==
    ASSUME Inv, TypeOK', NEW i \in Items, Lapse(i)
    PROVE  Inv'
<1>1. /\ UNCHANGED <<lastDigest, phase, copies, sending, period, tries, refused, digests, crashes>>
      /\ rows' = [rows EXCEPT ![i] = [rows[i] EXCEPT !.lease = "lapsed"]]
      /\ lapses' = [lapses EXCEPT ![i] = lapses[i] + 1]
      /\ rows[i].lease = "held"
  BY DEF Lapse, procVars, Inv, TypeOK
<1>2. rows \in [Items -> Row] /\ rows[i] \in Row /\ lapses \in [Items -> Nat]
  BY DEF Inv, TypeOK
<1>3. /\ rows'[i].status = rows[i].status /\ rows'[i].attempts = rows[i].attempts
      /\ rows'[i].lease = "lapsed" /\ lapses'[i] = lapses[i] + 1
      /\ \A j \in Items \ {i} : rows'[j] = rows[j] /\ lapses'[j] = lapses[j]
  BY <1>1, <1>2 DEF Row
<1>4. \A p \in Passes : CopiesKeep(p) /\ PassFits(p)'
  BY <1>1 DEF CopiesKeep, Inv, PassFits
<1>5. DigestFits'
  BY <1>1, DigestsStay DEF DigestsKeep
<1>6. ASSUME NEW j \in Items PROVE CountFits(j)'
  <2>1. tries'[j] >= tries[j] /\ refused \subseteq refused'
    BY <1>1, TriesFacts
  <2>2. RowCounts(j)'
    <3>1. rows'[j].status = rows[j].status /\ rows'[j].attempts = rows[j].attempts
      BY <1>3
    <3> QED
      BY <1>1, <3>1, TriesFacts DEF RowCounts
  <2> QED
    BY <1>4, <2>1, <2>2, CopyCountsStay DEF CountFits
<1>7. ASSUME NEW j \in Items \ {i} PROVE LeaseFits(j)'
  <2>1. RowKeeps(j) /\ lapses'[j] = lapses[j]
    BY <1>3 DEF RowKeeps
  <2> QED
    BY <1>4, <2>1, LeaseStays
<1>8. LeaseFits(i)'
  <2>1. Holders(i)' = Holders(i)
    BY <1>1 DEF Holders
  <2>2. Cardinality(Holders(i)) \in Nat
    BY PassesAreFinite DEF Holders
  <2>3. Leases(i)' \in 0..1 /\ Leases(i) \in 0..1
    BY DEF Leases
  <2>4. rows[i].status \notin Finished
    BY <1>1, TriesFacts DEF LeaseFits
  <2> QED
    BY <1>2, <1>3, <2>1, <2>2, <2>3, <2>4, TriesFacts DEF LeaseFits
<1> QED
  BY <1>4, <1>5, <1>6, <1>7, <1>8 DEF Inv

-----------------------------------------------------------------------------
\* A claim: the rows of the batch are leased, and one pass more holds each.
LEMMA ClaimKeeps ==
    ASSUME Inv, TypeOK', NEW p \in Passes, NEW batch \in SUBSET Items, \A i \in batch : MayClaim(i),
           copies[p] = NoCopies,
           rows' = Leased(batch), copies' = [copies EXCEPT ![p] = Claimed(batch)],
           UNCHANGED <<refused, lapses>>,
           \A q \in Passes \ {p} : sending'[q] = sending[q],
           \A i \in sending'[p] : i \in batch /\ tries'[i] = tries[i] + 1,
           NEW i \in Items, tries'[i] >= tries[i]
    PROVE  CountFits(i)' /\ LeaseFits(i)'
<1>1. /\ rows'[i] = IF i \in batch THEN [rows[i] EXCEPT !.lease = "held"] ELSE rows[i]
      /\ copies'[p][i] = IF i \in batch THEN rows[i].attempts ELSE None
      /\ \A q \in Passes \ {p} : copies'[q] = copies[q]
  BY DEF Leased, Claimed, Inv, TypeOK
<1>2. rows'[i].status = rows[i].status /\ rows'[i].attempts = rows[i].attempts
  BY <1>1, TriesFacts DEF Row
<1>3. RowCounts(i)'
  BY <1>2, TriesFacts, DeliveryQueuesAssumption DEF RowCounts
<1>4. \A q \in Passes \ {p} : CopyCounts(q, i)'
  <2>1. \A q \in Passes \ {p} : CopiesKeep(q)
    BY <1>1 DEF CopiesKeep
  <2> QED
    BY <2>1, CopyCountsStay
<1>5. CopyCounts(p, i)'
  <2>1. rows[i].attempts \in Nat /\ rows[i].attempts <= tries[i] /\ None \notin Nat
    BY TriesFacts, DeliveryQueuesAssumption DEF RowCounts
  <2> QED
    BY <1>1, <2>1, TriesFacts DEF CopyCounts
<1>6. LeaseFits(i)'
  <2>1. Holders(i) \in SUBSET Passes /\ Holders(i)' \in SUBSET Passes
    BY DEF Holders
  <2>2. Cardinality(Holders(i)) \in Nat /\ Cardinality(Holders(i)') \in Nat
    BY <2>1, PassesAreFinite
  <2>3. CASE i \in batch
    <3>1. Holders(i)' \subseteq Holders(i) \cup {p}
      BY <1>1 DEF Holders
    <3>2. Cardinality(Holders(i)') <= Cardinality(Holders(i)) + 1
      BY <2>1, <3>1, OnePassMore
    <3>3. rows[i].status = "pending" /\ rows[i].lease # "held"
      BY <2>3 DEF MayClaim
    <3>4. rows'[i].lease = "held" /\ rows'[i].status = "pending"
      BY <1>1, <1>2, <2>3, <3>3, TriesFacts DEF Row
    <3>5. Leases(i) = 0 /\ Leases(i)' = 1
      BY <3>3, <3>4 DEF Leases
    <3> QED
      BY <2>2, <3>2, <3>4, <3>5, TriesFacts DEF LeaseFits, Finished
  <2>4. CASE i \notin batch
    <3>1. Holders(i)' \subseteq Holders(i)
      BY <1>1, <2>4 DEF Holders
    <3>2. Cardinality(Holders(i)') <= Cardinality(Holders(i))
      BY <2>1, <3>1, FewerPasses
    <3>3. Leases(i)' = Leases(i) /\ Leases(i) \in 0..1 /\ rows'[i] = rows[i]
      BY <1>1, <2>4 DEF Leases
    <3> QED
      BY <2>2, <3>2, <3>3, TriesFacts DEF LeaseFits
  <2> QED
    BY <2>3, <2>4
<1> QED
  BY <1>3, <1>4, <1>5, <1>6 DEF CountFits

LEMMA StartWebhooksFits ==
    ASSUME Inv, TypeOK', NEW p \in Passes, NEW next \in {"idle", "digests"}, StartWebhooks(p, next),
           p = Kick => next = "idle"
    PROVE  Inv'
<1>1. PICK batch \in SUBSET Items : batch = Claimable(Hooks)
  BY DEF Claimable, Items
<1>2. /\ phase[p] = "idle" /\ \A i \in batch : MayClaim(i)
      /\ rows' = Leased(batch) /\ copies' = [copies EXCEPT ![p] = Claimed(batch)]
      /\ sending' = [sending EXCEPT ![p] = batch]
      /\ phase' = [phase EXCEPT ![p] = IF batch = {} THEN next ELSE "webhooks"]
      /\ tries' = [i \in Items |-> IF i \in batch THEN tries[i] + 1 ELSE tries[i]]
      /\ UNCHANGED <<lastDigest, period, refused, digests, lapses, crashes>>
  BY <1>1 DEF StartWebhooks, Tried, Claimable
<1>3. /\ phase \in [Passes -> Phases] /\ sending \in [Passes -> SUBSET Items]
      /\ copies \in [Passes -> [Items -> (0..MaxAttempts - 1) \cup {None}]]
  BY DEF Inv, TypeOK
<1>4. copies[p] = NoCopies
  BY <1>2 DEF Inv, PassFits
<1>5. ASSUME NEW i \in Items PROVE CountFits(i)' /\ LeaseFits(i)'
  <2>1. tries'[i] >= tries[i] /\ \A j \in Items : j \in batch => tries'[j] = tries[j] + 1
    BY <1>2, TriesFacts
  <2>2. sending'[p] = batch /\ \A q \in Passes \ {p} : sending'[q] = sending[q]
    BY <1>2, <1>3
  <2> QED
    BY <1>2, <1>4, <2>1, <2>2, ClaimKeeps
<1>6. ASSUME NEW q \in Passes PROVE PassFits(q)'
  <2>1. CASE q = p
    <3>1. CASE batch = {}
      <4>1. phase'[p] = next /\ sending'[p] = {} /\ copies'[p] = NoCopies
        BY <1>2, <1>3, <3>1 DEF Claimed, NoCopies
      <4> QED
        BY <2>1, <4>1 DEF PassFits
    <3>2. CASE batch # {}
      <4>1. phase'[p] = "webhooks"
        BY <1>2, <1>3, <3>2
      <4> QED
        BY <2>1, <4>1 DEF PassFits
    <3> QED
      BY <3>1, <3>2
  <2>2. CASE q # p
    <3>1. phase'[q] = phase[q] /\ copies'[q] = copies[q] /\ sending'[q] = sending[q]
      BY <1>2, <1>3, <2>2
    <3> QED
      BY <3>1 DEF Inv, PassFits
  <2> QED
    BY <2>1, <2>2
<1>7. DigestFits'
  <2>1. DigestsKeep
    BY <1>2, <1>3 DEF DigestsKeep
  <2> QED
    BY <2>1, DigestsStay
<1> QED
  BY <1>5, <1>6, <1>7 DEF Inv

LEMMA ClaimMailsFits ==
    ASSUME Inv, TypeOK', NEW p \in Passes, ClaimMails(p)
    PROVE  Inv'
<1>1. PICK batch \in SUBSET Items : batch = Claimable(Mails)
  BY DEF Claimable, Items
<1>2. /\ phase[p] = "claim" /\ \A i \in batch : MayClaim(i)
      /\ rows' = Leased(batch) /\ copies' = [copies EXCEPT ![p] = Claimed(batch)]
      /\ phase' = [phase EXCEPT ![p] = IF batch = {} THEN "idle" ELSE "mails"]
      /\ UNCHANGED <<lastDigest, period, sending, tries, refused, digests, lapses, crashes>>
  BY <1>1 DEF ClaimMails, Claimable, bookVars
<1>3. /\ phase \in [Passes -> Phases]
      /\ copies \in [Passes -> [Items -> (0..MaxAttempts - 1) \cup {None}]]
  BY DEF Inv, TypeOK
<1>4. copies[p] = NoCopies /\ sending[p] = {} /\ p # Kick
  BY <1>2 DEF Inv, PassFits
<1>5. ASSUME NEW i \in Items PROVE CountFits(i)' /\ LeaseFits(i)'
  <2>1. tries'[i] >= tries[i] /\ sending'[p] = {}
    BY <1>2, <1>4, TriesFacts
  <2> QED
    BY <1>2, <1>4, <2>1, ClaimKeeps
<1>6. ASSUME NEW q \in Passes PROVE PassFits(q)'
  <2>1. CASE q = p
    <3>1. CASE batch = {}
      <4>1. copies'[p] = NoCopies /\ sending'[p] = {}
        BY <1>2, <1>3, <1>4, <3>1 DEF Claimed, NoCopies
      <4> QED
        BY <1>4, <2>1, <4>1 DEF PassFits
    <3>2. CASE batch # {}
      <4>1. phase'[p] = "mails"
        BY <1>2, <1>3, <3>2
      <4> QED
        BY <1>4, <2>1, <4>1 DEF PassFits
    <3> QED
      BY <3>1, <3>2
  <2>2. CASE q # p
    <3>1. phase'[q] = phase[q] /\ copies'[q] = copies[q] /\ sending'[q] = sending[q]
      BY <1>2, <1>3, <2>2
    <3> QED
      BY <3>1 DEF Inv, PassFits
  <2> QED
    BY <2>1, <2>2
<1>7. DigestFits'
  <2>1. DigestsKeep
    BY <1>2, <1>3 DEF DigestsKeep
  <2> QED
    BY <2>1, DigestsStay
<1> QED
  BY <1>5, <1>6, <1>7 DEF Inv

LEMMA EndFits ==
    ASSUME Inv, TypeOK', NEW p \in Passes, EndWebhooks(p) \/ EndMails(p)
    PROVE  Inv'
<1>1. /\ phase[p] \in {"webhooks", "mails"} /\ copies[p] = NoCopies
      /\ phase' = [phase EXCEPT ![p] = phase'[p]]
      /\ phase'[p] \in {"idle", "digests"} /\ (p = Kick => phase'[p] = "idle")
      /\ UNCHANGED <<lastDigest, copies, sending, period, bookVars>>
  <2>1. phase \in [Passes -> Phases] /\ (p = Kick => phase[p] # "mails")
    BY DEF Inv, TypeOK, PassFits
  <2> QED
    BY <2>1 DEF EndWebhooks, EndMails
<1>2. \A q \in Passes \ {p} : phase'[q] = phase[q]
  BY <1>1, PassTypes DEF Inv
<1>3. \A i \in Items : RowKeeps(i)
  <2>1. Prune(Hooks) \/ Prune(Mails)
    BY DEF EndWebhooks, EndMails
  <2>2. \A i \in Items : \/ rows'[i] = rows[i]
                         \/ rows[i].status \in Finished /\ rows'[i] = [NoRow EXCEPT !.status = "gone"]
    BY <2>1, PruneFacts DEF Inv
  <2> QED
    BY <2>2 DEF RowKeeps, Finished
<1>4. sending[p] = {}
  <2>1. \A i \in sending[p] : i \in Items /\ CopyCounts(p, i)
    BY DEF Inv, TypeOK, CountFits
  <2> QED
    BY <1>1, <2>1 DEF CopyCounts, NoCopies
<1>5. \A q \in Passes : CopiesKeep(q) /\ PassFits(q)'
  BY <1>1, <1>2, <1>4 DEF CopiesKeep, Inv, PassFits
<1>6. DigestFits'
  <2>1. DigestsKeep
    BY <1>1, <1>2 DEF DigestsKeep, bookVars
  <2> QED
    BY <2>1, DigestsStay
<1> QED
  BY <1>1, <1>3, <1>5, <1>6, PlainFits DEF bookVars

LEMMA SendMailFits ==
    ASSUME Inv, TypeOK', NEW p \in Passes, NEW i \in Mails, SendMail(p, i)
    PROVE  Inv'
<1>1. /\ i \in Items /\ phase[p] = "mails" /\ copies[p][i] # None
      /\ sending' = [sending EXCEPT ![p] = {i}]
      /\ tries' = [j \in Items |-> IF j \in {i} THEN tries[j] + 1 ELSE tries[j]]
      /\ UNCHANGED <<rows, lastDigest, phase, copies, period, refused, digests, lapses, crashes>>
  BY DEF SendMail, Tried, dbVars, Items
<1>2. sending \in [Passes -> SUBSET Items] /\ copies \in [Passes -> [Items -> (0..MaxAttempts - 1) \cup {None}]]
  BY DEF Inv, TypeOK
<1>3. \A q \in Passes \ {p} : CopiesKeep(q)
  BY <1>1, <1>2 DEF CopiesKeep
<1>4. ASSUME NEW j \in Items PROVE CountFits(j)' /\ LeaseFits(j)'
  <2>1. tries'[j] >= tries[j] /\ refused \subseteq refused' /\ lapses'[j] = lapses[j]
    BY <1>1, TriesFacts
  <2>2. RowKeeps(j)
    BY <1>1 DEF RowKeeps
  <2>3. RowCounts(j)'
    BY <2>1, <2>2, RowCountsStay
  <2>4. \A q \in Passes \ {p} : CopyCounts(q, j)'
    BY <1>3, <2>1, CopyCountsStay
  <2>5. CopyCounts(p, j)'
    <3>1. copies[p][j] \in Nat \cup {None} /\ None \notin Nat /\ copies'[p][j] = copies[p][j]
      BY <1>1, <1>2, DeliveryQueuesAssumption
    <3>2. copies[p][j] # None => copies[p][j] <= tries[j]
      BY TriesFacts DEF CopyCounts
    <3>3. sending'[p] = {i} /\ (j = i => tries'[j] = tries[j] + 1)
      BY <1>1, <1>2
    <3> QED
      BY <1>1, <2>1, <3>1, <3>2, <3>3, TriesFacts DEF CopyCounts
  <2>6. LeaseFits(j)'
    <3>1. Holders(j)' = Holders(j)
      BY <1>1 DEF Holders
    <3>2. Leases(j)' = Leases(j)
      BY <1>1 DEF Leases
    <3> QED
      BY <1>1, <2>1, <3>1, <3>2, TriesFacts DEF LeaseFits
  <2> QED
    BY <2>3, <2>4, <2>5, <2>6 DEF CountFits
<1>5. \A q \in Passes : PassFits(q)'
  BY <1>1, <1>2 DEF Inv, PassFits
<1>6. DigestFits'
  <2>1. DigestsKeep
    BY <1>1 DEF DigestsKeep
  <2> QED
    BY <2>1, DigestsStay
<1> QED
  BY <1>4, <1>5, <1>6 DEF Inv

LEMMA AnswersFits ==
    ASSUME Inv, TypeOK', NEW p \in Passes, NEW i \in Items, NEW outcome \in Outcomes, Answers(p, i, outcome)
    PROVE  Inv'
<1>1. /\ i \in sending[p]
      /\ rows' = [rows EXCEPT ![i] = Completed(i, copies[p][i] + 1, outcome)]
      /\ refused' = IF outcome = "permanent" THEN refused \cup {i} ELSE refused
      /\ copies' = [copies EXCEPT ![p][i] = None]
      /\ sending' = [sending EXCEPT ![p] = sending[p] \ {i}]
      /\ UNCHANGED <<lastDigest, phase, period, tries, digests, lapses, crashes>>
  BY DEF Answers, Inv, TypeOK
<1>2. /\ rows \in [Items -> Row] /\ sending \in [Passes -> SUBSET Items]
      /\ copies \in [Passes -> [Items -> (0..MaxAttempts - 1) \cup {None}]]
  BY DEF Inv, TypeOK
<1>3. PICK n \in 1..MaxAttempts : n = copies[p][i] + 1
  BY <1>1, ResultFacts, DeliveryQueuesAssumption
<1>4. n <= tries[i] /\ copies[p][i] # None /\ tries[i] \in Nat
  BY <1>1, <1>3, TriesFacts DEF CopyCounts
<1>5. rows'[i] = Completed(i, n, outcome)
  BY <1>1, <1>2, <1>3
<1>6. /\ copies'[p][i] = None /\ \A j \in Items \ {i} : copies'[p][j] = copies[p][j]
      /\ sending'[p] = sending[p] \ {i}
      /\ \A q \in Passes \ {p} : copies'[q] = copies[q] /\ sending'[q] = sending[q]
      /\ \A j \in Items \ {i} : rows'[j] = rows[j]
  BY <1>1, <1>2
<1>7. ASSUME NEW j \in Items PROVE CountFits(j)'
  <2>1. tries'[j] = tries[j] /\ refused \subseteq refused'
    BY <1>1
  <2>2. \A q \in Passes \ {p} : CopyCounts(q, j)'
    <3>1. \A q \in Passes \ {p} : CopiesKeep(q)
      BY <1>6 DEF CopiesKeep
    <3> QED
      BY <2>1, <3>1, TriesFacts, CopyCountsStay
  <2>3. CopyCounts(p, j)'
    BY <1>6, <2>1, TriesFacts DEF CopyCounts
  <2>4. RowCounts(j)'
    <3>1. CASE j # i
      <4>1. rows'[j] = rows[j]
        BY <1>6, <3>1
      <4> QED
        BY <2>1, <4>1, TriesFacts DEF RowCounts
    <3>2. CASE j = i /\ rows[i].status = "gone"
      <4>1. rows'[i] = rows[i]
        BY <1>5, <3>2 DEF Completed
      <4> QED
        BY <2>1, <3>2, <4>1, TriesFacts DEF RowCounts
    <3>3. CASE j = i /\ rows[i].status # "gone"
      <4>1. /\ rows'[i].attempts = n
            /\ rows'[i].status = IF outcome = "ok" THEN "delivered"
                                 ELSE IF outcome = "permanent" \/ IsLast(n) THEN "failed" ELSE "pending"
        BY <1>5, <3>3 DEF Completed
      <4>2. rows'[i].status \in {"absent", "pending"} => n < MaxAttempts
        BY <4>1, DeliveryQueuesAssumption DEF IsLast
      <4>3. rows'[i].status = "failed" => i \in refused' \/ tries[i] >= MaxAttempts
        BY <1>1, <1>4, <4>1, DeliveryQueuesAssumption DEF IsLast
      <4> QED
        BY <1>4, <2>1, <3>3, <4>1, <4>2, <4>3 DEF RowCounts
    <3> QED
      BY <3>1, <3>2, <3>3
  <2> QED
    BY <2>2, <2>3, <2>4 DEF CountFits
<1>8. ASSUME NEW j \in Items \ {i} PROVE LeaseFits(j)'
  <2>1. Holders(j)' = Holders(j)
    BY <1>6 DEF Holders
  <2>2. Leases(j)' = Leases(j) /\ rows'[j] = rows[j] /\ lapses'[j] = lapses[j]
    BY <1>1, <1>6 DEF Leases
  <2> QED
    BY <2>1, <2>2, TriesFacts DEF LeaseFits
<1>9. LeaseFits(i)'
  <2>1. Holders(i) \in SUBSET Passes /\ Holders(i)' \subseteq Holders(i) /\ p \in Holders(i) /\ p \notin Holders(i)'
    BY <1>4, <1>6 DEF Holders
  <2>2. Cardinality(Holders(i)') + 1 <= Cardinality(Holders(i))
    BY <2>1, OnePassFewer
  <2>3. Cardinality(Holders(i)) \in Nat /\ Cardinality(Holders(i)') \in Nat
    BY <2>1, PassesAreFinite
  <2>4. Leases(i) \in 0..1 /\ Leases(i)' \in 0..1 /\ lapses'[i] = lapses[i]
    BY <1>1 DEF Leases
  <2>5. rows'[i].status \in Finished => rows'[i].lease = "none"
    BY <1>5, TriesFacts DEF Completed, LeaseFits
  <2> QED
    BY <2>2, <2>3, <2>4, <2>5, TriesFacts DEF LeaseFits
<1>10. ASSUME NEW q \in Passes PROVE PassFits(q)'
  <2>1. PassFits(q)
    BY DEF Inv
  <2>2. CASE q # p
    BY <1>1, <1>6, <2>1, <2>2 DEF PassFits
  <2>3. CASE q = p
    <3>1. phase[p] \in {"webhooks", "mails"}
      BY <1>1, <2>1, <2>3 DEF PassFits
    <3> QED
      BY <1>1, <2>1, <2>3, <3>1 DEF PassFits
  <2> QED
    BY <2>2, <2>3
<1>11. DigestFits'
  <2>1. DigestsKeep
    BY <1>1 DEF DigestsKeep
  <2> QED
    BY <2>1, DigestsStay
<1> QED
  BY <1>7, <1>8, <1>9, <1>10, <1>11 DEF Inv

-----------------------------------------------------------------------------
\* The digests.
LEMMA DigestTypes ==
    ASSUME Inv, TypeOK'
    PROVE  /\ lastDigest \in Nat /\ period \in 0..MaxPeriods /\ period' \in 0..MaxPeriods /\ crashes \in Nat
           /\ digests \in [0..MaxPeriods -> Nat] /\ phase \in [Passes -> Phases]
           /\ Cardinality(MayQueue) \in Nat /\ Cardinality(MayQueue') \in Nat
           /\ MayQueue \in SUBSET Passes /\ MayQueue' \in SUBSET Passes
           /\ \A p \in Passes : PassFits(p)
           /\ DigestFits
<1>1. lastDigest \in Nat /\ period \in 0..MaxPeriods /\ period' \in 0..MaxPeriods /\ crashes \in Nat
  BY DeliveryQueuesAssumption DEF Inv, TypeOK
<1>2. digests \in [0..MaxPeriods -> Nat] /\ phase \in [Passes -> Phases]
  BY DEF Inv, TypeOK
<1>3. MayQueue \in SUBSET Passes /\ MayQueue' \in SUBSET Passes
  BY DEF MayQueue, Passes
<1>4. Cardinality(MayQueue) \in Nat /\ Cardinality(MayQueue') \in Nat
  BY <1>3, PassesAreFinite
<1> QED
  BY <1>1, <1>2, <1>3, <1>4 DEF Inv

LEMMA ReadDigestsFits ==
    ASSUME Inv, TypeOK', NEW p \in Passes, ReadDigests(p)
    PROVE  DigestFits'
<1>1. /\ phase[p] = "digests"
      /\ phase' = [phase EXCEPT ![p] = IF lastDigest < period THEN "digest-queue" ELSE "claim"]
      /\ UNCHANGED <<lastDigest, period, digests, crashes>>
  BY DEF ReadDigests, dbVars, bookVars
<1>2. phase'[p] = (IF lastDigest < period THEN "digest-queue" ELSE "claim") /\ \A q \in Passes \ {p} : phase'[q] = phase[q]
  BY <1>1, DigestTypes
<1>3. MayQueue' = MayQueue
  BY <1>1, <1>2 DEF MayQueue, Passes
<1>4. \A q \in Passes : phase'[q] \in {"digest-queue", "digest-mark"} => period > 0
  BY <1>2, DigestTypes DEF DigestFits
<1>5. \A q \in Passes : phase'[q] = "digest-mark" => digests[period] > 0
  BY <1>2, DigestTypes DEF DigestFits
<1> QED
  BY <1>1, <1>3, <1>4, <1>5, DigestTypes DEF DigestFits

LEMMA QueueDigestFits ==
    ASSUME Inv, TypeOK', NEW p \in Passes, QueueDigest(p)
    PROVE  DigestFits'
<1>1. /\ phase[p] = "digest-queue" /\ phase' = [phase EXCEPT ![p] = "digest-mark"]
      /\ digests' = [digests EXCEPT ![period] = digests[period] + 1]
      /\ UNCHANGED <<lastDigest, period, crashes>>
  BY DEF QueueDigest, dbVars
<1>2. /\ phase'[p] = "digest-mark" /\ \A q \in Passes \ {p} : phase'[q] = phase[q]
      /\ digests'[period] = digests[period] + 1 /\ \A k \in 0..MaxPeriods : k # period => digests'[k] = digests[k]
  BY <1>1, DigestTypes
<1>3. p \in MayQueue /\ p \notin MayQueue' /\ MayQueue' \subseteq MayQueue
  <2>1. p \in Processes
    BY <1>1, DigestTypes DEF PassFits, Passes
  <2> QED
    BY <1>1, <1>2, <2>1 DEF MayQueue, Passes
<1>4. Cardinality(MayQueue') + 1 <= Cardinality(MayQueue)
  BY <1>3, DigestTypes, OnePassFewer
<1>5. digests'[period] + Cardinality(MayQueue') <= Cardinality(Processes) + crashes
  BY <1>2, <1>4, DigestTypes, PassesAreFinite DEF DigestFits
<1>6. \A k \in 1..MaxPeriods : digests'[k] <= Cardinality(Processes) + crashes
  <2>1. digests'[period] <= Cardinality(Processes) + crashes
    BY <1>2, <1>5, DigestTypes, PassesAreFinite
  <2> QED
    BY <1>2, <2>1, DigestTypes DEF DigestFits
<1>7. \A k \in 1..MaxPeriods : lastDigest = k => digests'[k] > 0
  BY <1>2, DigestTypes DEF DigestFits
<1>8. \A k \in 0..MaxPeriods : k > period => digests'[k] = 0
  BY <1>2, DigestTypes DEF DigestFits
<1>9. \A q \in Passes : phase'[q] \in {"digest-queue", "digest-mark"} => period > 0
  BY <1>1, <1>2, DigestTypes DEF DigestFits
<1>10. digests'[period] > 0
  BY <1>2, DigestTypes
<1> QED
  BY <1>1, <1>5, <1>6, <1>7, <1>8, <1>9, <1>10, DigestTypes DEF DigestFits

LEMMA MarkDigestFits ==
    ASSUME Inv, TypeOK', NEW p \in Passes, MarkDigest(p)
    PROVE  DigestFits'
<1>1. /\ phase[p] = "digest-mark" /\ phase' = [phase EXCEPT ![p] = "claim"] /\ lastDigest' = period
      /\ UNCHANGED <<period, digests, crashes>>
  BY DEF MarkDigest, bookVars
<1>2. phase'[p] = "claim" /\ \A q \in Passes \ {p} : phase'[q] = phase[q]
  BY <1>1, DigestTypes
<1>3. MayQueue' \subseteq MayQueue
  BY <1>1, <1>2, DigestTypes DEF MayQueue, Passes
<1>4. Cardinality(MayQueue') <= Cardinality(MayQueue)
  BY <1>3, DigestTypes, FewerPasses
<1>5. digests[period] + Cardinality(MayQueue') <= Cardinality(Processes) + crashes
  BY <1>4, DigestTypes, PassesAreFinite DEF DigestFits
<1>6. digests[period] > 0
  BY <1>1, DigestTypes DEF DigestFits
<1>7. \A q \in Passes : phase'[q] \in {"digest-queue", "digest-mark"} => phase[q] = phase'[q]
  BY <1>2
<1> QED
  BY <1>1, <1>5, <1>6, <1>7, DigestTypes DEF DigestFits

\* Steps of the digests leave the rows alone.
LEMMA DigestStepFits ==
    ASSUME Inv, TypeOK', NEW p \in Passes, ReadDigests(p) \/ QueueDigest(p) \/ MarkDigest(p)
    PROVE  Inv'
<1>1. /\ UNCHANGED <<rows, copies, sending, tries, refused, lapses>>
      /\ phase[p] \in {"digests", "digest-queue", "digest-mark"}
      /\ phase'[p] \in {"digest-queue", "digest-mark", "claim"}
      /\ \A q \in Passes \ {p} : phase'[q] = phase[q]
  BY PassTypes DEF ReadDigests, QueueDigest, MarkDigest, dbVars, bookVars, Inv
<1>2. \A i \in Items : RowKeeps(i)
  BY <1>1 DEF RowKeeps
<1>3. \A q \in Passes : CopiesKeep(q) /\ PassFits(q)'
  BY <1>1 DEF CopiesKeep, Inv, PassFits
<1>4. DigestFits'
  BY ReadDigestsFits, QueueDigestFits, MarkDigestFits
<1> QED
  BY <1>1, <1>2, <1>3, <1>4, PlainFits

LEMMA NextPeriodFits ==
    ASSUME Inv, TypeOK', NextPeriod
    PROVE  Inv'
<1>1. /\ period' = period + 1 /\ UNCHANGED <<rows, lastDigest, phase, copies, sending, tries, refused, digests, lapses, crashes>>
      /\ \A p \in Passes : phase[p] \notin {"digest-queue", "digest-mark"}
  BY DEF NextPeriod, dbVars, procVars, bookVars
<1>2. \A i \in Items : RowKeeps(i)
  BY <1>1 DEF RowKeeps
<1>3. \A q \in Passes : CopiesKeep(q) /\ PassFits(q)'
  BY <1>1 DEF CopiesKeep, Inv, PassFits
<1>4. digests[period'] = 0 /\ period' > period
  BY <1>1, DigestTypes DEF DigestFits
<1>5. Cardinality(MayQueue') <= Cardinality(Processes)
  <2>1. MayQueue' \subseteq Processes
    BY DEF MayQueue
  <2> QED
    BY <2>1, PassesAreFinite, FewerPasses
<1>6. digests[period'] + Cardinality(MayQueue') <= Cardinality(Processes) + crashes
  BY <1>4, <1>5, DigestTypes, PassesAreFinite
<1>7. lastDigest <= period' /\ \A k \in 0..MaxPeriods : k > period' => k > period
  BY <1>1, DigestTypes DEF DigestFits
<1>8. DigestFits'
  BY <1>1, <1>6, <1>7, DigestTypes DEF DigestFits
<1> QED
  BY <1>1, <1>2, <1>3, <1>8, PlainFits

LEMMA CrashFits ==
    ASSUME Inv, TypeOK', NEW q \in Processes, Crash(q)
    PROVE  Inv'
<1>1. /\ crashes' = crashes + 1 /\ UNCHANGED <<rows, lastDigest, period, tries, refused, digests, lapses>>
      /\ \A p \in Passes : IF ProcessOf(p) = q THEN phase'[p] = "idle" /\ copies'[p] = NoCopies /\ sending'[p] = {}
                           ELSE phase'[p] = phase[p] /\ copies'[p] = copies[p] /\ sending'[p] = sending[p]
  BY DEF Crash, dbVars
<1>2. \A i \in Items : RowKeeps(i)
  BY <1>1 DEF RowKeeps
<1>3. \A p \in Passes : CopiesKeep(p) /\ PassFits(p)'
  <2>1. \A p \in Passes : CopiesKeep(p)
    BY <1>1 DEF CopiesKeep
  <2>2. ASSUME NEW p \in Passes PROVE PassFits(p)'
    <3>1. CASE ProcessOf(p) = q
      BY <1>1, <3>1 DEF PassFits
    <3>2. CASE ProcessOf(p) # q
      BY <1>1, <3>2, DigestTypes DEF PassFits
    <3> QED
      BY <3>1, <3>2
  <2> QED
    BY <2>1, <2>2
<1>4. MayQueue' \subseteq MayQueue \cup {q}
  <2>1. \A p \in Processes : p # q => ProcessOf(p) # q
    BY DeliveryQueuesAssumption DEF ProcessOf
  <2> QED
    BY <1>1, <2>1 DEF MayQueue, Passes
<1>5. Cardinality(MayQueue') <= Cardinality(MayQueue) + 1
  <2>1. q \in Passes
    BY DEF Passes
  <2> QED
    BY <1>4, <2>1, DigestTypes, OnePassMore
<1>6. digests[period] + Cardinality(MayQueue') <= Cardinality(Processes) + crashes'
  <2> DEFINE d == digests[period]
             m == Cardinality(MayQueue)
             n == Cardinality(MayQueue')
             all == Cardinality(Processes)
  <2>1. d + m <= all + crashes
    BY DigestTypes DEF DigestFits
  <2>2. d \in Nat /\ m \in Nat /\ n \in Nat /\ all \in Nat /\ crashes \in Nat
    BY DigestTypes, PassesAreFinite
  <2>3. n <= m + 1 /\ crashes' = crashes + 1
    BY <1>1, <1>5
  <2> HIDE DEF d, m, n, all
  <2>4. d + n <= all + crashes'
    BY <2>1, <2>2, <2>3
  <2> QED
    BY <2>4 DEF d, n, all
<1>7. \A k \in 1..MaxPeriods : digests[k] <= Cardinality(Processes) + crashes'
  <2> SUFFICES ASSUME NEW k \in 1..MaxPeriods PROVE digests[k] <= Cardinality(Processes) + crashes'
    OBVIOUS
  <2> DEFINE d == digests[k]
             all == Cardinality(Processes)
  <2>1. d <= all + crashes
    BY DigestTypes DEF DigestFits
  <2>2. d \in Nat /\ all \in Nat /\ crashes \in Nat /\ crashes' = crashes + 1
    BY <1>1, DigestTypes, PassesAreFinite, DeliveryQueuesAssumption
  <2> HIDE DEF d, all
  <2>3. d <= all + crashes'
    BY <2>1, <2>2
  <2> QED
    BY <2>3 DEF d, all
<1>8. \A p \in Passes : phase'[p] \in {"digest-queue", "digest-mark"} => phase'[p] = phase[p]
  BY <1>1
<1>9. DigestFits'
  BY <1>1, <1>6, <1>7, <1>8, DigestTypes DEF DigestFits
<1> QED
  BY <1>1, <1>2, <1>3, <1>9, PlainFits

-----------------------------------------------------------------------------
LEMMA StepKeepsInv == Inv /\ [Next]_vars => Inv'
<1> SUFFICES ASSUME Inv, [Next]_vars PROVE Inv'
  OBVIOUS
<1>1. CASE Next
  <2>0. TypeOK'
    BY <1>1, NextHasTypes
  <2>1. ASSUME NEW p \in Passes, Step(p) PROVE Inv'
    <3>1. CASE Tick(p)
      <4>1. StartWebhooks(p, "digests") /\ p # Kick
        BY <3>1, DeliveryQueuesAssumption DEF Tick
      <4> QED
        BY <2>0, <4>1, StartWebhooksFits
    <3>2. CASE EndWebhooks(p) \/ EndMails(p)
      BY <2>0, <3>2, EndFits
    <3>3. CASE ReadDigests(p) \/ QueueDigest(p) \/ MarkDigest(p)
      BY <2>0, <3>3, DigestStepFits
    <3>4. CASE ClaimMails(p)
      BY <2>0, <3>4, ClaimMailsFits
    <3>5. CASE \E i \in Mails : SendMail(p, i)
      BY <2>0, <3>5, SendMailFits
    <3> QED
      BY <2>1, <3>1, <3>2, <3>3, <3>4, <3>5 DEF Step
  <2>2. ASSUME NEW p \in Passes, NEW i \in Items, NEW outcome \in Outcomes, Answers(p, i, outcome) PROVE Inv'
    BY <2>0, <2>2, AnswersFits
  <2>3. CASE RunKick
    <3>1. StartWebhooks(Kick, "idle") /\ Kick \in Passes
      BY <2>3 DEF RunKick, Passes
    <3> QED
      BY <2>0, <3>1, StartWebhooksFits
  <2>4. ASSUME NEW i \in Items, Enqueue(i) \/ BecomesDue(i) \/ Lapse(i) PROVE Inv'
    BY <2>0, <2>4, RowStepFits, LapseFits
  <2>5. CASE DeleteHook
    BY <2>0, <2>5, RowStepFits
  <2>6. CASE NextPeriod
    BY <2>0, <2>6, NextPeriodFits
  <2>7. ASSUME NEW q \in Processes, Crash(q) PROVE Inv'
    BY <2>0, <2>7, CrashFits
  <2> QED
    BY <1>1, <2>1, <2>2, <2>3, <2>4, <2>5, <2>6, <2>7 DEF Next
<1>2. CASE UNCHANGED vars
  <2>1. UNCHANGED <<rows, lastDigest, kicked, phase, copies, sending, period, tries, refused, digests, lapses, crashes>>
    BY <1>2 DEF vars, dbVars, procVars, bookVars
  <2>2. TypeOK'
    BY <2>1 DEF Inv, TypeOK
  <2>3. \A i \in Items : RowKeeps(i)
    BY <2>1 DEF RowKeeps
  <2>4. \A p \in Passes : CopiesKeep(p) /\ PassFits(p)'
    BY <2>1 DEF CopiesKeep, Inv, PassFits
  <2>5. DigestFits'
    <3>1. DigestsKeep
      BY <2>1 DEF DigestsKeep
    <3> QED
      BY <3>1, DigestsStay
  <2> QED
    BY <2>1, <2>2, <2>3, <2>4, <2>5, PlainFits
<1> QED
  BY <1>1, <1>2

\* The inductive invariant of the queues.
THEOREM Invariant == Spec => []Inv
<1> QED
  BY InitFits, StepKeepsInv, PTL DEF Spec

\* Every variable has its type; a row that is pending has an attempt left
\* (webhooks.ts:226-243, mail.ts:343-351).
THEOREM TypeCorrect == Spec => []TypeOK
<1>1. Inv => TypeOK
  BY DEF Inv
<1> QED
  BY <1>1, Invariant, PTL

\* Two passes hold the same row only after one of its leases lapsed
\* (claimDueWebhookDeliveries and claimDueEmails, cloud-db.ts:2980 and 3080).
THEOREM LeasesKeepDrainersApart == Spec => []OneDrainerPerLease
<1>1. ASSUME Inv PROVE OneDrainerPerLease
  <2> SUFFICES ASSUME NEW i \in Items PROVE Cardinality(Holders(i)) <= 1 + lapses[i]
    BY DEF OneDrainerPerLease
  <2>1. Cardinality(Holders(i)) \in Nat
    BY PassesAreFinite DEF Holders
  <2>2. Leases(i) \in 0..1 /\ lapses[i] \in Nat
    BY <1>1 DEF Leases, Inv, TypeOK
  <2> QED
    BY <1>1, <2>1, <2>2 DEF Inv, LeaseFits
<1> QED
  BY <1>1, Invariant, PTL

\* No delivery and no mail fails before all of its attempts were made, unless refused for
\* good (sendDelivery, webhooks.ts:197-243, and drainEmailOutbox, mail.ts:331-355).
THEOREM FailedRowsWereTried == Spec => []NothingIsGivenUpEarly
<1>1. Inv => NothingIsGivenUpEarly
  BY DEF Inv, CountFits, RowCounts, NothingIsGivenUpEarly
<1> QED
  BY <1>1, Invariant, PTL

\* A digest that is marked as sent was queued, at most once by each process and once more
\* for every crash (buildDueDigests, mail.ts:361-387).
THEOREM DigestsReachTheOutbox == Spec => []DigestsAreQueued
<1>1. Inv => DigestsAreQueued
  BY DEF Inv, DigestFits, DigestsAreQueued
<1> QED
  BY <1>1, Invariant, PTL

\* What is delivered or failed is overwritten only after one of its leases lapsed
\* (completeWebhookDelivery and completeEmail, cloud-db.ts:2996 and 3096).
THEOREM FinishedRowsStay == Spec => FinishedIsFinal
<1>1. ASSUME Inv, [Next]_vars, NEW i \in Items, rows[i].status \in Finished
      PROVE  rows'[i].status \in {rows[i].status, "gone"} \/ lapses[i] > 0
  <2>1. TypeOK' /\ Inv' /\ rows[i] \in Row /\ rows \in [Items -> Row] /\ lapses[i] \in Nat
    BY <1>1, StepKeepsInv DEF Inv, TypeOK
  <2>2. rows[i].status \notin {"absent", "pending"}
    BY <1>1 DEF Finished
  <2>3. ASSUME NEW j \in Items, Enqueue(j) \/ BecomesDue(j) \/ Lapse(j) PROVE rows'[i].status = rows[i].status
    <3>1. rows[j] \in Row /\ (j = i => Lapse(j))
      BY <2>1, <2>2, <2>3 DEF Enqueue, BecomesDue
    <3>2. j # i => rows'[i] = rows[i]
      BY <2>1, <2>3 DEF Enqueue, BecomesDue, Lapse
    <3>3. j = i => rows' = [rows EXCEPT ![i] = [rows[i] EXCEPT !.lease = "lapsed"]]
      BY <2>1, <3>1 DEF Lapse
    <3> QED
      BY <2>1, <3>2, <3>3 DEF Row
  <2>4. CASE DeleteHook
    BY <2>1, <2>4 DEF DeleteHook, NoRow
  <2>5. ASSUME NEW p \in Passes, EndWebhooks(p) \/ EndMails(p) PROVE rows'[i].status \in {rows[i].status, "gone"}
    <3>1. \/ rows'[i] = rows[i]
          \/ rows'[i] = [NoRow EXCEPT !.status = "gone"]
      BY <1>1, <2>5, PruneFacts DEF Inv, EndWebhooks, EndMails
    <3> QED
      BY <3>1 DEF NoRow
  <2>6. ASSUME NEW p \in Passes, Tick(p) \/ RunKick \/ ClaimMails(p) PROVE rows'[i].status = rows[i].status
    <3>1. rows' = Leased(Claimable(Hooks)) \/ rows' = Leased(Claimable(Mails))
      BY <2>6 DEF Tick, RunKick, StartWebhooks, ClaimMails
    <3>2. rows'[i] = rows[i] \/ rows'[i] = [rows[i] EXCEPT !.lease = "held"]
      BY <3>1 DEF Leased
    <3> QED
      BY <2>1, <3>2 DEF Row
  <2>7. ASSUME NEW p \in Passes, NEW j \in Items, NEW outcome \in Outcomes, Answers(p, j, outcome)
        PROVE  rows'[i].status = rows[i].status \/ lapses[i] > 0
    <3>1. CASE j = i
      <4>1. p \in Holders(i) /\ Holders(i) \in SUBSET Passes
        BY <1>1, <2>7, <3>1, TriesFacts, <2>1 DEF Answers, Holders, CopyCounts
      <4>2. Cardinality({}) + 1 <= Cardinality(Holders(i))
        BY <4>1, OnePassFewer
      <4>3. Cardinality(Holders(i)) >= 1
        BY <4>1, <4>2, PassesAreFinite, FS_EmptySet
      <4>4. LeaseFits(i) /\ Leases(i) = 0
        BY <1>1, <2>1 DEF Inv, LeaseFits, Leases, Finished
      <4>5. Cardinality(Holders(i)) \in Nat
        BY <4>1, PassesAreFinite
      <4> QED
        BY <2>1, <4>3, <4>4, <4>5 DEF LeaseFits
    <3>2. CASE j # i
      BY <2>1, <2>7, <3>2 DEF Answers
    <3> QED
      BY <3>1, <3>2
  <2>8. ASSUME UNCHANGED rows PROVE rows'[i].status = rows[i].status
    BY <2>8
  <2>9. CASE Next
    <3>1. ASSUME NEW p \in Passes, Step(p) PROVE rows'[i].status \in {rows[i].status, "gone"}
      <4>1. \/ Tick(p) \/ EndWebhooks(p) \/ ClaimMails(p) \/ EndMails(p)
            \/ UNCHANGED rows
        BY <3>1 DEF Step, ReadDigests, QueueDigest, MarkDigest, SendMail, dbVars
      <4> QED
        BY <2>5, <2>6, <2>8, <4>1
    <3>2. ASSUME NextPeriod \/ \E q \in Processes : Crash(q) PROVE UNCHANGED rows
      BY <3>2 DEF NextPeriod, Crash, dbVars
    <3>3. Kick \in Passes
      BY DEF Passes
    <3> QED
      BY <2>3, <2>4, <2>6, <2>7, <2>8, <2>9, <3>1, <3>2, <3>3 DEF Next
  <2>10. CASE UNCHANGED vars
    BY <2>8, <2>10 DEF vars, dbVars
  <2> QED
    BY <1>1, <2>9, <2>10
<1>2. Inv /\ [Next]_vars
      => [\A i \in Items : rows[i].status \in Finished
                           => rows'[i].status \in {rows[i].status, "gone"} \/ lapses[i] > 0]_vars
  BY <1>1
<1> QED
  BY <1>2, Invariant, PTL DEF Spec, FinishedIsFinal

-----------------------------------------------------------------------------
(***************************************************************************)
(* How often a row is sent.  An attempt of a row that can still be made    *)
(* belongs to the row itself, or to a pass that has claimed it and counts  *)
(* from its own copy: together with the attempts made they never exceed    *)
(* MaxAttempts for each of the row's leases.                               *)
(***************************************************************************)

\* The attempts a pass knows to have begun: those of its copy, and the one under way.
Begun(cp, sd, i, p) == cp[p][i] + IF i \in sd[p] THEN 1 ELSE 0

\* The attempts that the passes may still make: of each pass, those after its copy.
CreditsOf(cp, sd, i) ==
    {x \in Passes \X (1..MaxAttempts) : cp[x[1]][i] # None /\ x[2] > Begun(cp, sd, i, x[1])}

\* The attempts of one pass, and those of the others.
CreditsOfOthers(cp, sd, i, p) == {x \in CreditsOf(cp, sd, i) : x[1] # p}
Own(cp, sd, i, p) == IF cp[p][i] = None THEN 0 ELSE MaxAttempts - Begun(cp, sd, i, p)

\* The attempts that a row may still be claimed for.
Left(i) ==
    IF rows[i].status \in {"absent", "pending"} /\ rows[i].lease # "held"
    THEN MaxAttempts - rows[i].attempts ELSE 0

RepeatFits(i) ==
    tries[i] + Left(i) + Cardinality(CreditsOf(copies, sending, i)) <= MaxAttempts * (1 + lapses[i])

Copying == [Passes -> [Items -> (0..MaxAttempts - 1) \cup {None}]]
Sending == [Passes -> SUBSET Items]

LEMMA CreditsAreFinite ==
    ASSUME NEW cp, NEW sd, NEW i
    PROVE  \A S \in SUBSET CreditsOf(cp, sd, i) :
              /\ IsFiniteSet(S) /\ Cardinality(S) \in Nat
              /\ Cardinality(S) <= Cardinality(CreditsOf(cp, sd, i))
<1>1. IsFiniteSet(1..MaxAttempts)
  BY DeliveryQueuesAssumption, FS_Interval
<1>2. IsFiniteSet(Passes \X (1..MaxAttempts))
  BY <1>1, PassesAreFinite, FS_Product
<1>3. CreditsOf(cp, sd, i) \subseteq Passes \X (1..MaxAttempts)
  BY DEF CreditsOf
<1>4. IsFiniteSet(CreditsOf(cp, sd, i))
  BY <1>2, <1>3, FS_Subset
<1> QED
  BY <1>4, FS_Subset, FS_CardinalityType

LEMMA AttemptsOfOne ==
    ASSUME NEW p, NEW n \in 0..MaxAttempts
    PROVE  /\ IsFiniteSet({p} \X ((n + 1)..MaxAttempts))
           /\ Cardinality({p} \X ((n + 1)..MaxAttempts)) = MaxAttempts - n
<1>1. MaxAttempts \in Nat
  BY DeliveryQueuesAssumption
<1>2. /\ IsFiniteSet((n + 1)..MaxAttempts)
      /\ Cardinality((n + 1)..MaxAttempts) = MaxAttempts - n
  <2>1. PICK m \in Int : m = n + 1
    BY <1>1
  <2>2. /\ IsFiniteSet(m..MaxAttempts)
        /\ Cardinality(m..MaxAttempts) = IF m > MaxAttempts THEN 0 ELSE MaxAttempts - m + 1
    BY <1>1, FS_Interval
  <2> QED
    BY <1>1, <2>1, <2>2
<1>3. IsFiniteSet({p}) /\ Cardinality({p}) = 1
  BY FS_Singleton
<1> QED
  BY <1>1, <1>2, <1>3, FS_Product

\* The attempts are those of one pass and those of the others.
LEMMA CreditsSplit ==
    ASSUME NEW cp \in Copying, NEW sd \in Sending, NEW i \in Items, NEW p \in Passes
    PROVE  /\ Cardinality(CreditsOfOthers(cp, sd, i, p)) \in Nat /\ Own(cp, sd, i, p) \in Nat
           /\ Cardinality(CreditsOf(cp, sd, i)) = Cardinality(CreditsOfOthers(cp, sd, i, p)) + Own(cp, sd, i, p)
<1> DEFINE others == CreditsOfOthers(cp, sd, i, p)
           own == {x \in CreditsOf(cp, sd, i) : x[1] = p}
<1>1. /\ IsFiniteSet(others) /\ Cardinality(others) \in Nat
      /\ IsFiniteSet(own) /\ Cardinality(own) \in Nat
  BY CreditsAreFinite DEF CreditsOfOthers
<1>2. CreditsOf(cp, sd, i) = others \cup own /\ others \cap own = {}
  BY DEF CreditsOfOthers
<1>3. Cardinality(CreditsOf(cp, sd, i)) = Cardinality(others) + Cardinality(own)
  <2> HIDE DEF others, own
  <2>1. Cardinality(others \cup own) = Cardinality(others) + Cardinality(own) - Cardinality(others \cap own)
    BY <1>1, FS_Union
  <2>2. Cardinality(others \cap own) = 0
    BY <1>2, FS_EmptySet
  <2> QED
    BY <1>1, <1>2, <2>1, <2>2
<1>4. Own(cp, sd, i, p) \in Nat /\ Cardinality(own) = Own(cp, sd, i, p)
  <2>1. MaxAttempts \in Nat \ {0} /\ None \notin Nat
    BY DeliveryQueuesAssumption
  <2>2. CASE cp[p][i] = None
    <3>1. own = {}
      BY <2>2 DEF CreditsOf
    <3> QED
      BY <2>2, <3>1, FS_EmptySet DEF Own
  <2>3. CASE cp[p][i] # None
    <3>1. PICK n \in 0..MaxAttempts : n = Begun(cp, sd, i, p)
      <4>1. cp[p][i] \in 0..MaxAttempts - 1
        BY <2>3 DEF Copying
      <4> QED
        BY <2>1, <4>1 DEF Begun
    <3>2. own = {p} \X ((n + 1)..MaxAttempts)
      <4>1. ASSUME NEW x \in own PROVE x \in {p} \X ((n + 1)..MaxAttempts)
        <5>1. x \in Passes \X (1..MaxAttempts) /\ x[1] = p /\ x[2] > n
          BY <3>1 DEF CreditsOf
        <5> QED
          BY <2>1, <5>1
      <4>2. ASSUME NEW x \in {p} \X ((n + 1)..MaxAttempts) PROVE x \in own
        <5>1. x \in Passes \X (1..MaxAttempts) /\ x[1] = p /\ x[2] > n
          BY <2>1
        <5> QED
          BY <2>3, <3>1, <5>1 DEF CreditsOf
      <4> QED
        BY <4>1, <4>2
    <3>3. Own(cp, sd, i, p) = MaxAttempts - n
      BY <2>3, <3>1 DEF Own
    <3>4. Cardinality(own) = MaxAttempts - n
      <4> HIDE DEF own
      <4> QED
        BY <3>2, AttemptsOfOne
    <3> QED
      BY <2>1, <3>3, <3>4
  <2> QED
    BY <2>2, <2>3
<1> QED
  BY <1>1, <1>3, <1>4

\* A step of one pass changes only the attempts of that pass.
LEMMA OnePassChanges ==
    ASSUME TypeOK, TypeOK', NEW p \in Passes, NEW i \in Items,
           \A q \in Passes \ {p} : /\ copies'[q][i] = copies[q][i]
                                   /\ i \in sending'[q] <=> i \in sending[q]
    PROVE  /\ Own(copies, sending, i, p) \in Nat /\ Own(copies', sending', i, p) \in Nat
           /\ Cardinality(CreditsOf(copies, sending, i)) \in Nat
           /\ Cardinality(CreditsOf(copies', sending', i)) \in Nat
           /\ Cardinality(CreditsOf(copies', sending', i)) + Own(copies, sending, i, p)
                = Cardinality(CreditsOf(copies, sending, i)) + Own(copies', sending', i, p)
<1>1. /\ copies \in Copying /\ sending \in Sending
      /\ copies' \in Copying /\ sending' \in Sending
  BY DEF TypeOK, Copying, Sending
<1>2. CreditsOfOthers(copies, sending, i, p) = CreditsOfOthers(copies', sending', i, p)
  BY DEF CreditsOfOthers, CreditsOf, Begun
<1>3. /\ Cardinality(CreditsOfOthers(copies, sending, i, p)) \in Nat /\ Own(copies, sending, i, p) \in Nat
      /\ Cardinality(CreditsOf(copies, sending, i))
           = Cardinality(CreditsOfOthers(copies, sending, i, p)) + Own(copies, sending, i, p)
  BY <1>1, CreditsSplit
<1>4. /\ Own(copies', sending', i, p) \in Nat
      /\ Cardinality(CreditsOf(copies', sending', i))
           = Cardinality(CreditsOfOthers(copies', sending', i, p)) + Own(copies', sending', i, p)
  BY <1>1, CreditsSplit
<1> QED
  BY <1>2, <1>3, <1>4

LEMMA RepeatTypes ==
    ASSUME Inv, TypeOK', NEW i \in Items
    PROVE  /\ tries[i] \in Nat /\ tries'[i] \in Nat /\ lapses[i] \in Nat /\ lapses'[i] \in Nat
           /\ rows[i] \in Row /\ rows'[i] \in Row
           /\ Left(i) \in Nat /\ Left(i)' \in Nat /\ Left(i)' <= MaxAttempts
           /\ MaxAttempts \in Nat /\ MaxAttempts * (1 + lapses[i]) \in Nat
           /\ Cardinality(CreditsOf(copies, sending, i)) \in Nat
           /\ Cardinality(CreditsOf(copies', sending', i)) \in Nat
<1>1. /\ tries[i] \in Nat /\ tries'[i] \in Nat /\ lapses[i] \in Nat /\ lapses'[i] \in Nat
      /\ rows[i] \in Row /\ rows'[i] \in Row
  BY TriesFacts
<1>2. MaxAttempts \in Nat
  BY DeliveryQueuesAssumption
<1>3. Left(i) \in Nat /\ Left(i)' \in Nat /\ Left(i)' <= MaxAttempts
  BY <1>1, <1>2 DEF Left, Row
<1>4. MaxAttempts * (1 + lapses[i]) \in Nat
  BY <1>1, <1>2
<1>5. /\ Cardinality(CreditsOf(copies, sending, i)) \in Nat
      /\ Cardinality(CreditsOf(copies', sending', i)) \in Nat
  BY CreditsAreFinite
<1> QED
  BY <1>1, <1>2, <1>3, <1>4, <1>5

\* Attempts move between a row and its passes, or are made.
LEMMA RepeatMoves ==
    ASSUME Inv, TypeOK', NEW i \in Items, RepeatFits(i), lapses'[i] = lapses[i],
           tries'[i] + Left(i)' + Cardinality(CreditsOf(copies', sending', i))
             <= tries[i] + Left(i) + Cardinality(CreditsOf(copies, sending, i))
    PROVE  RepeatFits(i)'
<1>1. PICK bound \in Nat : bound = MaxAttempts * (1 + lapses[i])
  BY RepeatTypes
<1>2. tries'[i] + Left(i)' + Cardinality(CreditsOf(copies', sending', i)) <= bound
  BY <1>1, RepeatTypes DEF RepeatFits
<1>3. bound = MaxAttempts * (1 + lapses'[i])
  BY <1>1
<1>4. CreditsOf(copies, sending, i)' = CreditsOf(copies', sending', i)
  BY DEF CreditsOf, Begun
<1> QED
  BY <1>2, <1>3, <1>4 DEF RepeatFits

\* Steps that send and claim nothing and lapse no lease.
LEMMA RepeatStays ==
    ASSUME Inv, TypeOK', NEW i \in Items, RepeatFits(i), tries'[i] = tries[i], lapses'[i] = lapses[i],
           RowKeeps(i), \A p \in Passes : CopiesKeep(p)
    PROVE  RepeatFits(i)'
<1>1. Left(i)' <= Left(i)
  BY RepeatTypes DEF RowKeeps, Left, NoRow
<1>2. CreditsOf(copies', sending', i) \subseteq CreditsOf(copies, sending, i)
  BY DEF CreditsOf, Begun, CopiesKeep, NoCopies
<1>3. Cardinality(CreditsOf(copies', sending', i)) <= Cardinality(CreditsOf(copies, sending, i))
  BY <1>2, CreditsAreFinite
<1> QED
  BY <1>1, <1>3, RepeatTypes, RepeatMoves

LEMMA RepeatLapse ==
    ASSUME Inv, TypeOK', NEW j \in Items, Lapse(j), NEW i \in Items, RepeatFits(i)
    PROVE  RepeatFits(i)'
<1>1. /\ UNCHANGED <<copies, sending, tries>> /\ rows \in [Items -> Row] /\ lapses \in [Items -> Nat]
      /\ rows' = [rows EXCEPT ![j] = [rows[j] EXCEPT !.lease = "lapsed"]]
      /\ lapses' = [lapses EXCEPT ![j] = lapses[j] + 1]
  BY DEF Lapse, procVars, Inv, TypeOK
<1>2. CreditsOf(copies', sending', i) = CreditsOf(copies, sending, i)
  BY <1>1 DEF CreditsOf, Begun
<1>3. CASE i # j
  <2>1. rows'[i] = rows[i] /\ lapses'[i] = lapses[i]
    BY <1>1, <1>3
  <2>2. Left(i)' = Left(i)
    BY <2>1 DEF Left
  <2> QED
    BY <1>1, <1>2, <2>1, <2>2, RepeatTypes, RepeatMoves
<1>4. CASE i = j
  <2>1. lapses'[i] = lapses[i] + 1 /\ tries'[i] = tries[i]
    BY <1>1, <1>4
  <2>2. MaxAttempts * (1 + (lapses[i] + 1)) = MaxAttempts * (1 + lapses[i]) + MaxAttempts
    BY RepeatTypes
  <2>3. CreditsOf(copies, sending, i)' = CreditsOf(copies', sending', i)
    BY DEF CreditsOf, Begun
  <2> QED
    BY <1>2, <2>1, <2>2, <2>3, RepeatTypes DEF RepeatFits
<1> QED
  BY <1>3, <1>4

\* A claim: what is left of a row goes to the pass, which may begin an attempt at once.
LEMMA RepeatClaim ==
    ASSUME Inv, TypeOK', NEW p \in Passes, NEW batch \in SUBSET Items, \A i \in batch : MayClaim(i),
           copies[p] = NoCopies,
           rows' = Leased(batch), copies' = [copies EXCEPT ![p] = Claimed(batch)], lapses' = lapses,
           \A q \in Passes \ {p} : sending'[q] = sending[q], sending'[p] \subseteq batch,
           NEW i \in Items, tries'[i] = IF i \in sending'[p] THEN tries[i] + 1 ELSE tries[i], RepeatFits(i)
    PROVE  RepeatFits(i)'
<1>0. /\ tries[i] \in Nat /\ tries'[i] \in Nat /\ Left(i) \in Nat /\ Left(i)' \in Nat
      /\ Cardinality(CreditsOf(copies, sending, i)) \in Nat
      /\ Cardinality(CreditsOf(copies', sending', i)) \in Nat
  BY RepeatTypes
<1>1. /\ rows'[i] = IF i \in batch THEN [rows[i] EXCEPT !.lease = "held"] ELSE rows[i]
      /\ copies'[p][i] = IF i \in batch THEN rows[i].attempts ELSE None
      /\ \A q \in Passes \ {p} : copies'[q] = copies[q]
      /\ copies[p][i] = None
  BY DEF Leased, Claimed, Inv, TypeOK, NoCopies
<1>2. Own(copies, sending, i, p) = 0
  BY <1>1 DEF Own
<1>3. /\ Own(copies', sending', i, p) \in Nat
      /\ Cardinality(CreditsOf(copies', sending', i))
           = Cardinality(CreditsOf(copies, sending, i)) + Own(copies', sending', i, p)
  <2>1. TypeOK
    BY DEF Inv
  <2>2. \A q \in Passes \ {p} : copies'[q][i] = copies[q][i] /\ (i \in sending'[q] <=> i \in sending[q])
    BY <1>1
  <2>3. /\ Own(copies', sending', i, p) \in Nat
        /\ Cardinality(CreditsOf(copies', sending', i)) + Own(copies, sending, i, p)
             = Cardinality(CreditsOf(copies, sending, i)) + Own(copies', sending', i, p)
    BY <2>1, <2>2, OnePassChanges
  <2> QED
    BY <1>0, <1>2, <2>3
<1>4. CASE i \notin batch
  <2>1. Own(copies', sending', i, p) = 0 /\ tries'[i] = tries[i] /\ lapses'[i] = lapses[i]
    BY <1>1, <1>4 DEF Own
  <2>2. Left(i)' = Left(i)
    BY <1>1, <1>4 DEF Left
  <2>3. tries'[i] + Left(i)' + Cardinality(CreditsOf(copies', sending', i))
          <= tries[i] + Left(i) + Cardinality(CreditsOf(copies, sending, i))
    BY <1>0, <1>3, <2>1, <2>2
  <2> QED
    BY <2>3, <1>1, RepeatMoves
<1>5. CASE i \in batch
  <2>1. rows[i].status = "pending" /\ rows[i].lease # "held"
    BY <1>5 DEF MayClaim
  <2>2. rows[i].attempts \in Nat /\ rows[i].attempts < MaxAttempts /\ None \notin Nat
    BY <2>1, TriesFacts, DeliveryQueuesAssumption DEF RowCounts
  <2>3. Left(i) = MaxAttempts - rows[i].attempts /\ Left(i)' = 0
    <3>1. rows'[i].lease = "held"
      BY <1>1, <1>5, RepeatTypes DEF Row
    <3> QED
      BY <2>1, <3>1 DEF Left
  <2>4. Own(copies', sending', i, p) = MaxAttempts - (rows[i].attempts + IF i \in sending'[p] THEN 1 ELSE 0)
    BY <1>1, <1>5, <2>2 DEF Own, Begun
  <2>5. tries'[i] + Own(copies', sending', i, p) = tries[i] + Left(i)
    <3> DEFINE own == Own(copies', sending', i, p)
               made == tries[i]
               left == Left(i)
               counted == rows[i].attempts
               begun == IF i \in sending'[p] THEN 1 ELSE 0
    <3>1. made \in Nat /\ counted \in Nat /\ begun \in Nat /\ MaxAttempts \in Nat
      BY <1>0, <2>2, RepeatTypes
    <3>2. tries'[i] = made + begun
      BY <1>0
    <3>3. own = MaxAttempts - (counted + begun)
      BY <2>4
    <3>4. left = MaxAttempts - counted
      BY <2>3
    <3> HIDE DEF own, made, left, counted, begun
    <3>5. (made + begun) + own = made + left
      BY <3>1, <3>3, <3>4
    <3> QED
      BY <3>2, <3>5 DEF own, made, left
  <2>6. tries'[i] + Left(i)' + Cardinality(CreditsOf(copies', sending', i))
          <= tries[i] + Left(i) + Cardinality(CreditsOf(copies, sending, i))
    BY <1>0, <1>3, <2>3, <2>5
  <2> QED
    BY <2>6, <1>1, RepeatMoves
<1> QED
  BY <1>4, <1>5

LEMMA RepeatSend ==
    ASSUME Inv, TypeOK', NEW p \in Passes, NEW j \in Mails, SendMail(p, j), NEW i \in Items, RepeatFits(i)
    PROVE  RepeatFits(i)'
<1>0. /\ tries[i] \in Nat /\ tries'[i] \in Nat /\ Left(i) \in Nat /\ Left(i)' \in Nat
      /\ Cardinality(CreditsOf(copies, sending, i)) \in Nat
      /\ Cardinality(CreditsOf(copies', sending', i)) \in Nat
  BY RepeatTypes
<1>1. /\ sending[p] = {} /\ copies[p][j] # None
      /\ sending' = [sending EXCEPT ![p] = {j}]
      /\ tries'[i] = IF i = j THEN tries[i] + 1 ELSE tries[i]
      /\ UNCHANGED <<rows, copies, lapses>>
  BY DEF SendMail, Tried, dbVars
<1>2. sending'[p] = {j} /\ \A q \in Passes \ {p} : sending'[q] = sending[q]
  BY <1>1 DEF Inv, TypeOK
<1>3. /\ Own(copies, sending, i, p) \in Nat /\ Own(copies', sending', i, p) \in Nat
      /\ Cardinality(CreditsOf(copies', sending', i)) + Own(copies, sending, i, p)
           = Cardinality(CreditsOf(copies, sending, i)) + Own(copies', sending', i, p)
  BY <1>1, <1>2, OnePassChanges DEF Inv
<1>4. Left(i)' = Left(i)
  BY <1>1 DEF Left
<1>5. CASE i # j
  <2>1. Own(copies', sending', i, p) = Own(copies, sending, i, p)
    BY <1>1, <1>2, <1>5 DEF Own, Begun
  <2>2. tries'[i] + Left(i)' + Cardinality(CreditsOf(copies', sending', i))
          <= tries[i] + Left(i) + Cardinality(CreditsOf(copies, sending, i))
    BY <1>0, <1>1, <1>3, <1>4, <1>5, <2>1
  <2> QED
    BY <2>2, <1>1, RepeatMoves
<1>6. CASE i = j
  <2>1. copies[p][i] \in Nat
    BY <1>1, <1>6 DEF Inv, TypeOK
  <2>2. Own(copies', sending', i, p) + 1 = Own(copies, sending, i, p)
    BY <1>1, <1>2, <1>6, <2>1, DeliveryQueuesAssumption DEF Own, Begun
  <2>3. tries'[i] + Left(i)' + Cardinality(CreditsOf(copies', sending', i))
          <= tries[i] + Left(i) + Cardinality(CreditsOf(copies, sending, i))
    BY <1>0, <1>1, <1>3, <1>4, <1>6, <2>2
  <2> QED
    BY <2>3, <1>1, RepeatMoves
<1> QED
  BY <1>5, <1>6

\* An answer: what the pass had left goes back to the row, at most.
LEMMA RepeatAnswer ==
    ASSUME Inv, TypeOK', NEW p \in Passes, NEW j \in Items, NEW outcome \in Outcomes,
           Answers(p, j, outcome), NEW i \in Items, RepeatFits(i)
    PROVE  RepeatFits(i)'
<1>0. /\ tries[i] \in Nat /\ tries'[i] \in Nat /\ Left(i) \in Nat /\ Left(i)' \in Nat
      /\ Cardinality(CreditsOf(copies, sending, i)) \in Nat
      /\ Cardinality(CreditsOf(copies', sending', i)) \in Nat
  BY RepeatTypes
<1>1. /\ j \in sending[p] /\ rows \in [Items -> Row]
      /\ rows' = [rows EXCEPT ![j] = Completed(j, copies[p][j] + 1, outcome)]
      /\ copies' = [copies EXCEPT ![p][j] = None]
      /\ sending' = [sending EXCEPT ![p] = sending[p] \ {j}]
      /\ UNCHANGED <<tries, lapses>>
  BY DEF Answers, Inv, TypeOK
<1>2. /\ copies'[p][j] = None /\ \A k \in Items \ {j} : copies'[p][k] = copies[p][k]
      /\ sending'[p] = sending[p] \ {j}
      /\ \A q \in Passes \ {p} : copies'[q] = copies[q] /\ sending'[q] = sending[q]
  BY <1>1 DEF Inv, TypeOK
<1>3. /\ Own(copies, sending, i, p) \in Nat /\ Own(copies', sending', i, p) \in Nat
      /\ Cardinality(CreditsOf(copies', sending', i)) + Own(copies, sending, i, p)
           = Cardinality(CreditsOf(copies, sending, i)) + Own(copies', sending', i, p)
  BY <1>2, OnePassChanges DEF Inv
<1>4. CASE i # j
  <2>1. Own(copies', sending', i, p) = Own(copies, sending, i, p)
    BY <1>2, <1>4 DEF Own, Begun
  <2>2. rows'[i] = rows[i]
    BY <1>1, <1>4
  <2>3. Left(i)' = Left(i)
    BY <2>2 DEF Left
  <2>4. tries'[i] + Left(i)' + Cardinality(CreditsOf(copies', sending', i))
          <= tries[i] + Left(i) + Cardinality(CreditsOf(copies, sending, i))
    BY <1>0, <1>1, <1>3, <2>1, <2>3
  <2> QED
    BY <2>4, <1>1, RepeatMoves
<1>5. CASE i = j
  <2>1. Own(copies', sending', i, p) = 0
    BY <1>2, <1>5 DEF Own
  <2>2. PICK n \in 1..MaxAttempts : n = copies[p][i] + 1
    BY <1>1, <1>5, ResultFacts, DeliveryQueuesAssumption
  <2>3. Own(copies, sending, i, p) = MaxAttempts - n
    <3>1. copies[p][i] # None
      BY <1>1, <1>5, TriesFacts DEF CopyCounts
    <3> QED
      BY <1>1, <1>5, <2>2, <3>1 DEF Own, Begun
  <2>4. rows'[i] = Completed(i, n, outcome)
    BY <1>1, <1>5, <2>2
  <2>5. Left(i)' <= Left(i) + MaxAttempts - n
    <3>1. CASE rows[i].status = "gone"
      <4>1. rows'[i] = rows[i]
        BY <2>4, <3>1 DEF Completed
      <4>2. Left(i)' = Left(i)
        BY <4>1 DEF Left
      <4> QED
        BY <4>2, RepeatTypes
    <3>2. CASE rows[i].status # "gone"
      <4>1. rows'[i].attempts = n
        BY <2>4, <3>2 DEF Completed
      <4>2. Left(i)' \in {0, MaxAttempts - n}
        BY <4>1 DEF Left
      <4> QED
        BY <4>2, RepeatTypes
    <3> QED
      BY <3>1, <3>2
  <2>6. tries'[i] + Left(i)' + Cardinality(CreditsOf(copies', sending', i))
          <= tries[i] + Left(i) + Cardinality(CreditsOf(copies, sending, i))
    BY <1>0, <1>1, <1>3, <2>1, <2>3, <2>5
  <2> QED
    BY <2>6, <1>1, RepeatMoves
<1> QED
  BY <1>4, <1>5

LEMMA StepKeepsRepeats ==
    ASSUME Inv, [Next]_vars, NEW i \in Items, RepeatFits(i)
    PROVE  RepeatFits(i)'
<1>0. TypeOK' /\ Inv'
  BY StepKeepsInv DEF Inv
<1>1. ASSUME NEW p \in Passes, NEW next, StartWebhooks(p, next) PROVE RepeatFits(i)'
  <2>1. PICK batch \in SUBSET Items : batch = Claimable(Hooks)
    BY DEF Claimable, Items
  <2>2. /\ phase[p] = "idle" /\ \A j \in batch : MayClaim(j)
        /\ rows' = Leased(batch) /\ copies' = [copies EXCEPT ![p] = Claimed(batch)]
        /\ sending' = [sending EXCEPT ![p] = batch] /\ lapses' = lapses
        /\ tries'[i] = IF i \in batch THEN tries[i] + 1 ELSE tries[i]
    BY <1>1, <2>1 DEF StartWebhooks, Tried, Claimable
  <2>3. copies[p] = NoCopies
    BY <2>2 DEF Inv, PassFits
  <2>4. sending'[p] = batch /\ \A q \in Passes \ {p} : sending'[q] = sending[q]
    BY <2>2 DEF Inv, TypeOK
  <2> QED
    BY <1>0, <2>2, <2>3, <2>4, RepeatClaim
<1>2. ASSUME NEW p \in Passes, ClaimMails(p) PROVE RepeatFits(i)'
  <2>1. PICK batch \in SUBSET Items : batch = Claimable(Mails)
    BY DEF Claimable, Items
  <2>2. /\ phase[p] = "claim" /\ \A j \in batch : MayClaim(j)
        /\ rows' = Leased(batch) /\ copies' = [copies EXCEPT ![p] = Claimed(batch)]
        /\ UNCHANGED <<sending, tries, lapses>>
    BY <1>2, <2>1 DEF ClaimMails, Claimable, bookVars
  <2>3. copies[p] = NoCopies /\ sending[p] = {}
    BY <2>2 DEF Inv, PassFits
  <2> QED
    BY <1>0, <2>2, <2>3, RepeatClaim
<1>3. ASSUME UNCHANGED <<tries, lapses>>, RowKeeps(i), \A p \in Passes : CopiesKeep(p) PROVE RepeatFits(i)'
  BY <1>0, <1>3, RepeatStays
<1>4. ASSUME DeleteHook \/ \E j \in Items : Enqueue(j) \/ BecomesDue(j) PROVE RepeatFits(i)'
  <2>1. UNCHANGED <<copies, sending, tries, lapses>>
    BY <1>4 DEF DeleteHook, Enqueue, BecomesDue, procVars, bookVars
  <2>2. RowKeeps(i)
    BY <1>4, RowStepKeeps DEF Inv
  <2> QED
    BY <1>3, <2>1, <2>2 DEF CopiesKeep
<1>5. ASSUME NEW p \in Passes, EndWebhooks(p) \/ EndMails(p) PROVE RepeatFits(i)'
  <2>1. UNCHANGED <<copies, sending, tries, lapses>> /\ (Prune(Hooks) \/ Prune(Mails))
    BY <1>5 DEF EndWebhooks, EndMails, bookVars
  <2>2. RowKeeps(i)
    BY <2>1, PruneFacts DEF Inv, RowKeeps, Finished
  <2> QED
    BY <1>3, <2>1, <2>2 DEF CopiesKeep
<1>6. ASSUME UNCHANGED <<rows, copies, sending, tries, lapses>> PROVE RepeatFits(i)'
  BY <1>3, <1>6 DEF CopiesKeep, RowKeeps
<1>7. ASSUME NEW q \in Processes, Crash(q) PROVE RepeatFits(i)'
  <2>1. UNCHANGED <<rows, tries, lapses>> /\ \A p \in Passes : CopiesKeep(p)
    BY <1>7 DEF Crash, dbVars, CopiesKeep
  <2> QED
    BY <1>3, <2>1 DEF RowKeeps
<1>8. ASSUME NEW p \in Passes, Step(p) PROVE RepeatFits(i)'
  <2>1. ASSUME NEW j \in Mails, SendMail(p, j) PROVE RepeatFits(i)'
    BY <1>0, <2>1, RepeatSend
  <2>2. ASSUME ReadDigests(p) \/ QueueDigest(p) \/ MarkDigest(p) PROVE RepeatFits(i)'
    BY <1>6, <2>2 DEF ReadDigests, QueueDigest, MarkDigest, dbVars, bookVars
  <2> QED
    BY <1>1, <1>2, <1>5, <1>8, <2>1, <2>2 DEF Step, Tick
<1>9. ASSUME NEW p \in Passes, NEW j \in Items, NEW outcome \in Outcomes, Answers(p, j, outcome)
      PROVE  RepeatFits(i)'
  BY <1>0, <1>9, RepeatAnswer
<1>10. ASSUME NEW j \in Items, Lapse(j) PROVE RepeatFits(i)'
  BY <1>0, <1>10, RepeatLapse
<1>11. ASSUME RunKick PROVE RepeatFits(i)'
  BY <1>1, <1>11 DEF RunKick, Passes
<1>12. ASSUME NextPeriod \/ UNCHANGED vars PROVE RepeatFits(i)'
  BY <1>6, <1>12 DEF NextPeriod, vars, dbVars, procVars, bookVars
<1> QED
  BY <1>4, <1>7, <1>8, <1>9, <1>10, <1>11, <1>12 DEF Next

\* The attempts made of a row, and those that it or a pass that holds it may still make,
\* never exceed MaxAttempts for the first lease and for each that lapsed.
THEOREM RepeatsFit == Spec => [](\A i \in Items : RepeatFits(i))
<1>1. Init => \A i \in Items : RepeatFits(i)
  <2> SUFFICES ASSUME Init, NEW i \in Items PROVE RepeatFits(i)
    OBVIOUS
  <2>1. CreditsOf(copies, sending, i) = {}
    BY DEF Init, CreditsOf, NoCopies
  <2>2. Cardinality(CreditsOf(copies, sending, i)) = 0
    BY <2>1, FS_EmptySet
  <2>3. tries[i] = 0 /\ lapses[i] = 0 /\ Left(i) = MaxAttempts
    BY DeliveryQueuesAssumption DEF Init, Left, NoRow
  <2> QED
    BY <2>2, <2>3, DeliveryQueuesAssumption DEF RepeatFits
<1>2. Inv /\ (\A i \in Items : RepeatFits(i)) /\ [Next]_vars => (\A i \in Items : RepeatFits(i))'
  BY StepKeepsRepeats
<1> QED
  BY <1>1, <1>2, Invariant, PTL DEF Spec

\* A row is sent at most MaxAttempts times, and as often again for every lease that
\* lapsed during an attempt (claimDueWebhookDeliveries and completeWebhookDelivery,
\* cloud-db.ts:2980 and 2996; claimDueEmails and completeEmail, cloud-db.ts:3080 and 3096).
THEOREM RepeatsBounded == Spec => []RepeatsAreBounded
<1>1. ASSUME Inv, \A i \in Items : RepeatFits(i) PROVE RepeatsAreBounded
  <2> SUFFICES ASSUME NEW i \in Items PROVE tries[i] <= MaxAttempts * (1 + lapses[i])
    BY DEF RepeatsAreBounded
  <2>1. /\ tries[i] \in Nat /\ lapses[i] \in Nat /\ rows[i] \in Row /\ MaxAttempts \in Nat
    BY <1>1, DeliveryQueuesAssumption DEF Inv, TypeOK
  <2>2. Left(i) \in Nat
    BY <2>1 DEF Left, Row
  <2>3. Cardinality(CreditsOf(copies, sending, i)) \in Nat
    BY CreditsAreFinite
  <2>4. MaxAttempts * (1 + lapses[i]) \in Nat
    BY <2>1
  <2> QED
    BY <1>1, <2>1, <2>2, <2>3, <2>4 DEF RepeatFits
<1>2. Inv /\ (\A i \in Items : RepeatFits(i)) => RepeatsAreBounded
  BY <1>1
<1> QED
  BY <1>2, Invariant, RepeatsFit, PTL

=============================================================================

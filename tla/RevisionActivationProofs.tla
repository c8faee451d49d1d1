---------------------- MODULE RevisionActivationProofs ----------------------
(***************************************************************************)
(* What holds of RevisionActivation for every set of requests and every    *)
(* bound on the revisions.                                                 *)
(***************************************************************************)
EXTENDS RevisionActivation, FiniteSetTheorems, TLAPS

\* The committed rows: revisions 1..mirror, of which the last is active and
\* counts the corrections before it.
Committed ==
    /\ revs = 1..mirror
    /\ active = IF mirror = 0 THEN {} ELSE {mirror}
    /\ mirror > 0 => count[mirror] = mirror - 1

\* Rows that are inserted and not committed belong to one request: the index
\* on (task_id, revision_number) keeps the others waiting.
OneInserter ==
    \A q, r \in Requests : q # r => txn[q].new = {} \/ txn[r].new = {}

\* What a transaction that corrects has inserted: the successor of the
\* revision it has read, or of the one it has backfilled.
Corrects(t) ==
    \/ mirror > 0 /\ t.seen = mirror /\ t.new = {mirror + 1}
    \/ mirror = 0 /\ t.seen = 1 /\ t.new = {1, 2}

\* What a transaction has done when it only awaits its commit.
Done(t) ==
    \/ t.kind # "correct" /\ t.new = {}
    \/ t.kind # "correct" /\ mirror = 0 /\ t.new = {1} /\ t.user = 0
    \/ Corrects(t) /\ t.cleared = active /\ t.user = t.seen

\* What a transaction knows and has done, by where it stands.
Standing(t) ==
    /\ t.pc \in {"idle", "read", "backfill", "raised"} => t.new = {}
    /\ t.pc \in {"lockBackfill", "refreshBackfill"} => mirror = 0 /\ t.new = {1}
    /\ t.pc = "refreshBackfill" => t.seen = 1
    /\ t.pc \in {"context", "refreshContext", "log", "insert"} =>
         /\ t.kind = "correct"
         /\ \/ t.new = {} /\ t.seen \in 1..mirror
            \/ mirror = 0 /\ t.new = {1} /\ t.seen = 1
    /\ t.pc = "lock" => Corrects(t)
    /\ t.pc = "refreshCorrection" =>
         Corrects(t) /\ t.cleared = active /\ t.user = t.seen
    /\ t.pc = "refreshOther" => t.kind = "other" /\ t.new = {}
    /\ t.pc = "end" => Done(t)
    /\ t.pc \notin {"refreshCorrection", "end"} => t.user = 0

Inv ==
    /\ TypeOK
    /\ Committed
    /\ OneInserter
    /\ \A r \in Requests : Standing(txn[r])
-----------------------------------------------------------------------------
\* Max of the sets of numbers that occur.
LEMMA MaxOfOne == ASSUME NEW k \in Nat PROVE Max({k}) = k
BY DEF Max

LEMMA MaxOfTwo == Max({1, 2}) = 2
<1>1. 2 \in {1, 2} /\ \A y \in {1, 2} : 2 >= y
  OBVIOUS
<1>2. \A x \in {1, 2} : (\A y \in {1, 2} : x >= y) => x = 2
  OBVIOUS
<1> QED
  BY <1>1, <1>2 DEF Max

LEMMA InitInv == Init => Inv
BY MaxRevisionAssumption
   DEF Init, Inv, TypeOK, Committed, OneInserter, Standing, Corrects,
       NoTransaction, Transaction, PCs, Refreshing, Kinds, Numbers

\* A step of one request that commits nothing keeps the invariant when its
\* own transaction stands where the invariant says, and it inserts only when
\* nobody else has.
LEMMA OwnStep ==
    ASSUME Inv, NEW r \in Requests, NEW t \in Transaction,
           txn' = [txn EXCEPT ![r] = t], UNCHANGED <<table, snapshot>>,
           shares' \subseteq Requests, updater' \subseteq Requests,
           holder' \subseteq Requests,
           Standing(t),
           t.new # {} => \A q \in Requests \ {r} : txn[q].new = {}
    PROVE  Inv'
<1> USE DEF Inv, table
<1>1. TypeOK'
  BY DEF TypeOK
<1>2. Committed'
  BY DEF Committed
<1>3. \A q \in Requests : txn'[q] = IF q = r THEN t ELSE txn[q]
  BY DEF TypeOK
<1>4. OneInserter'
  BY <1>3 DEF OneInserter
<1>5. \A q \in Requests : Standing(txn[q])'
  BY <1>3 DEF Standing, Corrects, Done
<1> QED
  BY <1>1, <1>2, <1>4, <1>5

\* A request that has rows nobody else can see keeps the others from having
\* such rows.
LEMMA Alone ==
    ASSUME Inv, NEW r \in Requests, txn[r].new # {}
    PROVE  \A q \in Requests \ {r} : txn[q].new = {}
BY DEF Inv, OneInserter

\* Rows not committed yet include the number that follows the history.
LEMMA PendingIsNext ==
    ASSUME Inv, NEW r \in Requests, txn[r].new # {}
    PROVE  mirror + 1 \in txn[r].new
<1>1. Standing(txn[r]) /\ txn[r] \in Transaction /\ mirror \in Nat
  BY DEF Inv, TypeOK
<1> QED
  BY <1>1 DEF Standing, Corrects, Done, Transaction, PCs, Refreshing

\* The locks of requests are theirs.
LEMMA ReleaseType ==
    ASSUME Inv, NEW r \in Requests, Release(r)
    PROVE  shares' \subseteq Requests /\ updater' \subseteq Requests
             /\ holder' \subseteq Requests
BY DEF Inv, TypeOK, Release

LEMMA NoTransactionType ==
    NoTransaction \in Transaction /\ Standing(NoTransaction)
BY MaxRevisionAssumption
   DEF NoTransaction, Transaction, PCs, Refreshing, Kinds, Standing

\* Ending a transaction without a commit takes its rows away.
LEMMA EndsWithoutCommit ==
    ASSUME Inv, NEW r \in Requests, Aborts(r) PROVE Inv'
<1>1. NoTransaction.new = {} /\ Release(r)
  BY DEF NoTransaction, Aborts
<1> QED
  BY <1>1, NoTransactionType, ReleaseType, OwnStep DEF Aborts

\* Reading the active revision keeps it, whether there is one or not.
LEMMA Finds ==
    ASSUME Inv, NEW r \in Requests, NEW otherwise \in {"backfill", "raised"},
           FindActive(r, otherwise), txn[r].user = 0,
           UNCHANGED <<table, snapshot>>, shares' \subseteq Requests,
           updater' \subseteq Requests, holder' \subseteq Requests
    PROVE  Inv'
<1> DEFINE t == txn'[r]
<1>1. txn \in [Requests -> Transaction] /\ txn[r] \in Transaction
  BY DEF Inv, TypeOK
<1>2. active \subseteq 1..mirror /\ active \subseteq 0..MaxRevision
      /\ 0 \in 0..MaxRevision
  BY MaxRevisionAssumption DEF Inv, TypeOK, Committed, Numbers
<1>3. \/ \E n \in active :
           t = [txn[r] EXCEPT !.seen = n, !.new = {}, !.cleared = {},
                              !.creates = FALSE, !.pc = AfterRead(r)]
      \/ t = [txn[r] EXCEPT !.seen = 0, !.new = {}, !.cleared = {},
                            !.creates = FALSE, !.pc = otherwise]
  BY <1>1 DEF FindActive
<1>4. AfterRead(r) \in {"context", "end"} /\ otherwise \in PCs
  BY DEF AfterRead, PCs
<1>5. t \in Transaction
  <2>1. AfterRead(r) \in PCs
    BY <1>4 DEF PCs
  <2> DEFINE Found(n, pc) == [txn[r] EXCEPT !.seen = n, !.new = {}, !.cleared = {},
                                            !.creates = FALSE, !.pc = pc]
  <2>2. \A n \in 0..MaxRevision, pc \in PCs : Found(n, pc) \in Transaction
    BY <1>1 DEF Transaction
  <2>3. (\E n \in active : t = Found(n, AfterRead(r))) \/ t = Found(0, otherwise)
    BY <1>3
  <2> HIDE DEF t, Found
  <2>4. CASE t = Found(0, otherwise)
    BY <1>2, <1>4, <2>2, <2>4
  <2>5. CASE \E n \in active : t = Found(n, AfterRead(r))
    <3>1. PICK n \in active : t = Found(n, AfterRead(r))
      BY <2>5
    <3>2. n \in 0..MaxRevision
      BY <1>2
    <3> QED
      BY <2>1, <2>2, <3>1, <3>2
  <2> QED
    BY <2>3, <2>4, <2>5
<1>6. /\ t.new = {} /\ t.user = 0 /\ t.kind = txn[r].kind
      /\ \/ t.pc = AfterRead(r) /\ t.seen \in 1..mirror
         \/ t.pc = otherwise
  BY <1>1, <1>2, <1>3 DEF Transaction
<1>7. Standing(t)
  BY <1>6 DEF Standing, Done, AfterRead
<1>8. txn' = [txn EXCEPT ![r] = t]
  BY <1>1 DEF FindActive
<1> QED
  BY <1>5, <1>6, <1>7, <1>8, OwnStep

\* Every step of a request, up to its commit, keeps the invariant.
LEMMA RequestStep ==
    ASSUME Inv, NEW r \in Requests,
           \/ \E kind \in Kinds : Start(r, kind)
           \/ ReadActive(r) \/ Backfill(r) \/ Reload(r) \/ ActivateBackfill(r)
           \/ BackfillLosesSnapshot(r) \/ Context(r) \/ Refresh(r)
           \/ Understand(r) \/ CreateCorrection(r) \/ ActivateCorrection(r)
    PROVE  Inv'
<1> DEFINE t == txn'[r]
<1>1. /\ txn[r] \in Transaction
      /\ Standing(txn[r])
      /\ txn \in [Requests -> Transaction]
      /\ mirror \in Nat
      /\ shares \subseteq Requests /\ updater \subseteq Requests
      /\ holder \subseteq Requests
      /\ active \subseteq Numbers
      /\ 1 \in Numbers /\ 1 \in 0..MaxRevision
      /\ FindsNoSnapshot(r) \in BOOLEAN
  BY MaxRevisionAssumption DEF Inv, TypeOK, Numbers, FindsNoSnapshot
<1>2. revs = 1..mirror /\ active = IF mirror = 0 THEN {} ELSE {mirror}
  BY DEF Inv, Committed
<1>3. ASSUME NEW kind \in Kinds, Start(r, kind) PROVE Inv'
  <2> DEFINE to == IF kind = "other" THEN "refreshOther" ELSE "read"
             finds == kind = "other" /\ FindsNoSnapshot(r)
  <2>1. t = [txn[r] EXCEPT !.kind = kind, !.creates = finds, !.pc = to]
    BY <1>1, <1>3 DEF Start
  <2>2. finds \in BOOLEAN
    OBVIOUS
  <2>3. to \in PCs
    BY DEF PCs, Refreshing
  <2>4. txn[r].new = {} /\ txn[r].user = 0
    BY <1>1, <1>3 DEF Start, Standing
  <2> HIDE DEF finds
  <2>5. t \in Transaction
    BY <1>1, <2>1, <2>2, <2>3 DEF Transaction
  <2>6. Standing(t) /\ t.new = {}
    BY <1>1, <2>1, <2>4 DEF Standing, Transaction
  <2>7. txn' = [txn EXCEPT ![r] = t]
    BY <1>1, <1>3 DEF Start
  <2> QED
    BY <1>1, <1>3, <2>5, <2>6, <2>7, OwnStep DEF Start, locks
<1>4. ASSUME ReadActive(r) \/ Reload(r) PROVE Inv'
  <2>1. txn[r].user = 0
    BY <1>1, <1>4 DEF ReadActive, Reload, Standing
  <2>2. FindActive(r, "backfill") \/ FindActive(r, "raised")
    BY <1>4 DEF ReadActive, Reload
  <2>3. UNCHANGED <<table, snapshot>> /\ UNCHANGED locks
    BY <1>4 DEF ReadActive, Reload
  <2> QED
    BY <1>1, <2>1, <2>2, <2>3, Finds DEF locks
<1>5. ASSUME BackfillLosesSnapshot(r) PROVE Inv'
  <2>1. txn[r].user = 0
    BY <1>1, <1>5 DEF BackfillLosesSnapshot, Standing
  <2> QED
    BY <1>5, <2>1, ReleaseType, Finds DEF BackfillLosesSnapshot
<1>6. ASSUME Backfill(r) PROVE Inv'
  <2>1. t = [txn[r] EXCEPT !.new = {1}, !.pc = "lockBackfill"]
    BY <1>1, <1>6 DEF Backfill
  <2>2. t \in Transaction
    <3>1. {1} \in SUBSET Numbers /\ "lockBackfill" \in PCs
      BY <1>1 DEF PCs
    <3> QED
      BY <1>1, <2>1, <3>1 DEF Transaction
  <2>3. mirror = 0
    BY <1>1, <1>2, <1>6 DEF Backfill
  <2>4. Standing(t)
    BY <1>1, <1>6, <2>1, <2>3 DEF Backfill, Standing, Transaction
  <2>5. \A q \in Requests \ {r} : txn[q].new = {}
    BY <1>6, <2>3, PendingIsNext DEF Backfill, Inserting
  <2>6. txn' = [txn EXCEPT ![r] = t]
    BY <1>1, <1>6 DEF Backfill
  <2>7. /\ shares' \subseteq Requests /\ updater' \subseteq Requests
        /\ holder' \subseteq Requests /\ UNCHANGED <<table, snapshot>>
    BY <1>1, <1>6 DEF Backfill
  <2> QED
    BY <2>2, <2>4, <2>5, <2>6, <2>7, OwnStep
<1>7. ASSUME ActivateBackfill(r) PROVE Inv'
  <2>1. t = [txn[r] EXCEPT !.cleared = active, !.seen = 1,
                           !.creates = FindsNoSnapshot(r),
                           !.pc = "refreshBackfill"]
    BY <1>1, <1>7 DEF ActivateBackfill
  <2>2. t \in Transaction
    BY <1>1, <2>1 DEF Transaction, PCs, Refreshing
  <2>3. /\ t.new = {1} /\ t.user = 0 /\ t.seen = 1
        /\ t.pc = "refreshBackfill" /\ mirror = 0 /\ txn[r].new = {1}
    BY <1>1, <1>7, <2>1 DEF ActivateBackfill, Standing, Transaction
  <2>4. Standing(t)
    BY <2>3 DEF Standing
  <2>5. txn' = [txn EXCEPT ![r] = t]
    BY <1>1, <1>7 DEF ActivateBackfill
  <2>6. /\ shares' \subseteq Requests /\ updater' \subseteq Requests
        /\ holder' \subseteq Requests /\ UNCHANGED <<table, snapshot>>
    BY <1>1, <1>7 DEF ActivateBackfill
  <2> QED
    BY <2>2, <2>3, <2>4, <2>5, <2>6, Alone, OwnStep
<1>8. ASSUME Context(r) PROVE Inv'
  <2>1. \/ t = [txn[r] EXCEPT !.pc = "log"]
        \/ t = [txn[r] EXCEPT !.creates = FindsNoSnapshot(r),
                              !.pc = "refreshContext"]
    BY <1>1, <1>8 DEF Context
  <2>2. t \in Transaction /\ t.new = txn[r].new
    BY <1>1, <2>1 DEF Transaction, PCs, Refreshing
  <2>3. /\ t.kind = txn[r].kind /\ t.seen = txn[r].seen /\ t.user = txn[r].user
        /\ t.pc \in {"log", "refreshContext"}
    BY <1>1, <2>1 DEF Transaction
  <2>4. Standing(t)
    BY <1>1, <1>8, <2>2, <2>3 DEF Context, Standing
  <2>5. txn' = [txn EXCEPT ![r] = t]
    BY <1>1, <1>8 DEF Context
  <2>6. UNCHANGED <<table, snapshot>> /\ UNCHANGED locks
    BY <1>8 DEF Context
  <2> QED
    BY <1>1, <2>2, <2>4, <2>5, <2>6, Alone, OwnStep DEF locks
<1>9. ASSUME Refresh(r) PROVE Inv'
  <2>1. t = [txn[r] EXCEPT !.creates = FALSE, !.pc = AfterRefresh(r)]
    BY <1>1, <1>9 DEF Refresh
  <2>2. /\ txn[r].pc = "refreshBackfill" => AfterRefresh(r) = AfterRead(r)
        /\ txn[r].pc = "refreshContext" => AfterRefresh(r) = "log"
        /\ txn[r].pc \in {"refreshCorrection", "refreshOther"} =>
             AfterRefresh(r) = "end"
    BY DEF AfterRefresh
  <2>3. txn[r].pc \in Refreshing
    BY <1>9 DEF Refresh
  <2>4. AfterRefresh(r) \in PCs
    BY <2>2, <2>3 DEF PCs, Refreshing, AfterRead
  <2>5. t \in Transaction /\ t.pc = AfterRefresh(r)
    BY <1>1, <2>1, <2>4 DEF Transaction
  <2>6. /\ t.new = txn[r].new /\ t.kind = txn[r].kind /\ t.seen = txn[r].seen
        /\ t.user = txn[r].user /\ t.cleared = txn[r].cleared
    BY <1>1, <2>1 DEF Transaction
  <2>7. Standing(t)
    <3>1. CASE txn[r].pc = "refreshBackfill"
      BY <1>1, <2>2, <2>5, <2>6, <3>1 DEF Standing, Done, AfterRead
    <3>2. CASE txn[r].pc = "refreshContext"
      BY <1>1, <2>2, <2>5, <2>6, <3>2 DEF Standing
    <3>3. CASE txn[r].pc = "refreshCorrection"
      BY <1>1, <2>2, <2>5, <2>6, <3>3 DEF Standing, Done, Corrects
    <3>4. CASE txn[r].pc = "refreshOther"
      BY <1>1, <2>2, <2>5, <2>6, <3>4 DEF Standing, Done
    <3> QED
      BY <2>3, <3>1, <3>2, <3>3, <3>4 DEF Refreshing
  <2>8. txn' = [txn EXCEPT ![r] = t]
    BY <1>1, <1>9 DEF Refresh
  <2>9. /\ shares' \subseteq Requests /\ updater' \subseteq Requests
        /\ holder' \subseteq Requests /\ UNCHANGED <<table, snapshot>>
    BY <1>1, <1>9 DEF Refresh
  <2> QED
    BY <2>5, <2>6, <2>7, <2>8, <2>9, Alone, OwnStep
<1>10. ASSUME Understand(r) PROVE Inv'
  <2>1. t = [txn[r] EXCEPT !.pc = "insert"]
    BY <1>1, <1>10 DEF Understand
  <2>2. t \in Transaction /\ t.new = txn[r].new
    BY <1>1, <2>1 DEF Transaction, PCs
  <2>3. Standing(t)
    BY <1>1, <1>10, <2>1 DEF Understand, Standing, Transaction
  <2>4. txn' = [txn EXCEPT ![r] = t]
    BY <1>1, <1>10 DEF Understand
  <2>5. /\ shares' \subseteq Requests /\ updater' \subseteq Requests
        /\ holder' \subseteq Requests /\ UNCHANGED <<table, snapshot>>
    BY <1>1, <1>10 DEF Understand
  <2> QED
    BY <2>2, <2>3, <2>4, <2>5, Alone, OwnStep
<1>11. ASSUME CreateCorrection(r) PROVE Inv'
  <2> DEFINE n == txn[r].seen + 1
  <2>1. t = [txn[r] EXCEPT !.new = @ \cup {n}, !.pc = "lock"]
    BY <1>1, <1>11 DEF CreateCorrection
  <2>2. t \in Transaction
    BY <1>1, <1>11, <2>1 DEF CreateCorrection, Transaction, PCs
  <2>3. \/ txn[r].new = {} /\ txn[r].seen = mirror /\ mirror > 0
        \/ mirror = 0 /\ txn[r].new = {1} /\ txn[r].seen = 1
    <3>1. n \notin 1..mirror /\ txn[r].seen \in Nat
      BY <1>1, <1>2, <1>11 DEF CreateCorrection, Transaction
    <3> QED
      BY <1>1, <1>11, <3>1 DEF CreateCorrection, Standing
  <2>4. Corrects(t)
    BY <1>1, <2>1, <2>3 DEF Corrects, Transaction
  <2>5. Standing(t)
    BY <1>1, <1>11, <2>1, <2>4 DEF CreateCorrection, Standing, Transaction
  <2>6. \A q \in Requests \ {r} : txn[q].new = {}
    BY <1>11, <2>3, PendingIsNext, Alone DEF CreateCorrection, Inserting
  <2>7. txn' = [txn EXCEPT ![r] = t]
    BY <1>1, <1>11 DEF CreateCorrection
  <2>8. /\ shares' \subseteq Requests /\ updater' \subseteq Requests
        /\ holder' \subseteq Requests /\ UNCHANGED <<table, snapshot>>
    BY <1>1, <1>11 DEF CreateCorrection
  <2> QED
    BY <2>2, <2>5, <2>6, <2>7, <2>8, OwnStep
<1>12. ASSUME ActivateCorrection(r) PROVE Inv'
  <2> DEFINE user == IF active = {} THEN 1 ELSE count[Max(active)] + 1
  <2>1. t = [txn[r] EXCEPT !.cleared = active, !.user = user,
                           !.creates = FindsNoSnapshot(r),
                           !.pc = "refreshCorrection"]
    BY <1>1, <1>12 DEF ActivateCorrection
  <2>2. Corrects(txn[r])
    BY <1>1, <1>12 DEF ActivateCorrection, Standing
  <2>3. user = txn[r].seen
    <3>1. CASE mirror = 0
      BY <1>2, <2>2, <3>1 DEF Corrects
    <3>2. CASE mirror > 0
      <4>1. active = {mirror} /\ Max(active) = mirror
        <5>1. mirror \in Nat /\ active = {mirror}
          BY <1>1, <1>2, <3>2
        <5>2. Max({mirror}) = mirror
          BY <5>1, MaxOfOne
        <5> QED
          BY <5>1, <5>2
      <4>2. count[mirror] = mirror - 1
        BY <3>2 DEF Inv, Committed
      <4> QED
        BY <1>1, <2>2, <3>2, <4>1, <4>2 DEF Corrects
    <3> QED
      BY <1>1, <3>1, <3>2
  <2> HIDE DEF user
  <2>4. t \in Transaction
    BY <1>1, <2>1, <2>3 DEF Transaction, PCs, Refreshing
  <2>5. /\ t.pc = "refreshCorrection" /\ t.cleared = active /\ t.user = t.seen
        /\ t.new = txn[r].new /\ t.seen = txn[r].seen
    BY <1>1, <2>1, <2>3 DEF Transaction
  <2>6. Corrects(t)
    BY <2>2, <2>5 DEF Corrects
  <2>7. Standing(t)
    BY <2>5, <2>6 DEF Standing
  <2>8. txn' = [txn EXCEPT ![r] = t]
    BY <1>1, <1>12 DEF ActivateCorrection
  <2>9. /\ shares' \subseteq Requests /\ updater' \subseteq Requests
        /\ holder' \subseteq Requests /\ UNCHANGED <<table, snapshot>>
    BY <1>1, <1>12 DEF ActivateCorrection
  <2> QED
    BY <2>4, <2>5, <2>7, <2>8, <2>9, Alone, OwnStep
<1> QED
  BY <1>3, <1>4, <1>5, <1>6, <1>7, <1>8, <1>9, <1>10, <1>11, <1>12

\* What a commit that inserted rows leaves: the history up to the last of
\* them, which alone is active and counts one correction less than its number.
Extends(r, n) ==
    /\ \/ txn[r].new = {n} /\ n = mirror + 1
       \/ txn[r].new = {1, 2} /\ mirror = 0 /\ n = 2
    /\ revs' = 1..n
    /\ active' = {n}
    /\ mirror' = n
    /\ count' = [count EXCEPT ![n] = n - 1]

LEMMA CommitEffect ==
    ASSUME Inv, NEW r \in Requests, Commit(r)
    PROVE  \/ txn[r].new = {} /\ UNCHANGED table
           \/ \E n \in Numbers : Extends(r, n)
<1>1. /\ txn[r] \in Transaction /\ Standing(txn[r]) /\ txn[r].pc = "end"
      /\ mirror \in Nat /\ txn[r].new \subseteq Numbers
  BY DEF Inv, TypeOK, Commit, Transaction
<1>2. revs = 1..mirror /\ active = IF mirror = 0 THEN {} ELSE {mirror}
  BY DEF Inv, Committed
<1>3. CASE txn[r].new = {}
  BY <1>3 DEF Commit
<1>4. CASE txn[r].new # {}
  <2> DEFINE n == Max(txn[r].new)
  <2>1. /\ \/ txn[r].new = {mirror + 1}
           \/ txn[r].new = {1, 2} /\ mirror = 0
        /\ active \ txn[r].cleared = {}
        /\ txn[r].user = IF txn[r].new = {1, 2} THEN 1 ELSE mirror
    BY <1>1, <1>2, <1>4 DEF Standing, Corrects, Done
  <2>2. CASE txn[r].new = {mirror + 1}
    <3>1. n = mirror + 1
      <4>1. mirror + 1 \in Nat
        BY <1>1
      <4>2. Max({mirror + 1}) = mirror + 1
        BY <4>1, MaxOfOne
      <4> QED
        BY <2>2, <4>2
    <3>2. txn[r].new # {1, 2}
      BY <2>2
    <3> HIDE DEF n
    <3>3. n \in Numbers /\ n - 1 = mirror
      BY <1>1, <2>2, <3>1
    <3>4. /\ revs' = revs \cup {n} /\ active' = {n} /\ mirror' = n
          /\ count' = [count EXCEPT ![n] = n - 1]
      BY <1>4, <2>1, <2>2, <3>1, <3>2, <3>3 DEF Commit, n
    <3>5. revs' = 1..n
      BY <1>1, <1>2, <3>1, <3>4
    <3> QED
      BY <2>2, <3>1, <3>3, <3>4, <3>5 DEF Extends
  <2>3. CASE txn[r].new = {1, 2} /\ mirror = 0
    <3>1. n = 2
      BY <2>3, MaxOfTwo
    <3> HIDE DEF n
    <3>2. n \in Numbers
      BY <1>1, <2>3, <3>1
    <3>3. /\ revs' = revs \cup {1, 2} /\ active' = {n} /\ mirror' = n
          /\ count' = [count EXCEPT ![n] = n - 1]
      BY <1>4, <2>1, <2>3, <3>1 DEF Commit, n
    <3>4. revs' = 1..n
      BY <1>2, <2>3, <3>1, <3>3
    <3> QED
      BY <2>3, <3>1, <3>2, <3>3, <3>4 DEF Extends
  <2> QED
    BY <2>1, <2>2, <2>3
<1> QED
  BY <1>3, <1>4

LEMMA CommitStep ==
    ASSUME Inv, NEW r \in Requests, Commit(r) PROVE Inv'
<1>1. CASE txn[r].new = {} /\ UNCHANGED table
  <2>1. \A q \in Requests :
          txn'[q] = IF q = r THEN NoTransaction ELSE txn[q]
    BY DEF Commit, Inv, TypeOK
  <2>2. TypeOK'
    <3>1. txn' \in [Requests -> Transaction]
      BY NoTransactionType DEF Commit, Inv, TypeOK
    <3> QED
      BY <1>1, <3>1, ReleaseType DEF Inv, TypeOK, Commit, table
  <2>3. Committed'
    BY <1>1 DEF Inv, Committed, table
  <2>4. OneInserter'
    BY <2>1 DEF Inv, OneInserter, NoTransaction
  <2>5. \A q \in Requests : Standing(txn[q])'
    BY <1>1, <2>1 DEF Inv, Standing, Corrects, Done, NoTransaction, table
  <2> QED
    BY <2>2, <2>3, <2>4, <2>5 DEF Inv
<1>2. ASSUME NEW n \in Numbers, Extends(r, n) PROVE Inv'
  <2>1. /\ txn \in [Requests -> Transaction] /\ mirror \in Nat
        /\ count \in [Numbers -> 0..MaxRevision] /\ n \in 1..MaxRevision
        /\ MaxRevision \in Nat
        /\ \A q \in Requests : Standing(txn[q])
    BY MaxRevisionAssumption DEF Inv, TypeOK, Numbers
  <2>2. \A q \in Requests \ {r} : txn[q].new = {}
    BY <1>2, Alone DEF Extends
  <2>3. \A q \in Requests :
          txn'[q] = IF q = r THEN NoTransaction ELSE txn[q]
    BY <2>1 DEF Commit
  <2>4. TypeOK'
    <3>2. txn' \in [Requests -> Transaction]
      BY <2>1, NoTransactionType DEF Commit
    <3>3. count' \in [Numbers -> 0..MaxRevision]
      BY <1>2, <2>1 DEF Extends
    <3> QED
      BY <1>2, <2>1, <3>2, <3>3, ReleaseType
         DEF Extends, TypeOK, Inv, Commit, Numbers
  <2>5. Committed'
    BY <1>2, <2>1 DEF Extends, Committed
  <2>6. OneInserter'
    BY <2>2, <2>3 DEF OneInserter, NoTransaction
  <2>7. ASSUME NEW q \in Requests PROVE Standing(txn[q])'
    <3>1. CASE q = r
      BY <2>3, <3>1 DEF Standing, NoTransaction
    <3>2. CASE q # r
      <4>1. txn'[q] = txn[q] /\ txn[q].new = {} /\ mirror' >= mirror /\ mirror' \in Nat
        BY <1>2, <2>1, <2>2, <2>3, <3>2 DEF Extends
      <4>2. /\ txn[q].pc \notin {"lockBackfill", "refreshBackfill", "lock",
                                 "refreshCorrection"}
            /\ txn[q].pc \in {"context", "refreshContext", "log", "insert"} =>
                 txn[q].seen \in 1..mirror /\ txn[q].kind = "correct"
            /\ txn[q].pc = "refreshOther" => txn[q].kind = "other"
            /\ txn[q].pc = "end" => txn[q].kind # "correct"
            /\ txn[q].pc # "end" => txn[q].user = 0
        BY <2>1, <4>1 DEF Standing, Corrects, Done
      <4>3. txn[q].seen \in 1..mirror => txn[q].seen \in 1..mirror'
        BY <2>1, <4>1
      <4> QED
        BY <4>1, <4>2, <4>3 DEF Standing, Done
    <3> QED
      BY <3>1, <3>2
  <2> QED
    BY <2>4, <2>5, <2>6, <2>7 DEF Inv
<1> QED
  BY <1>1, <1>2, CommitEffect

LEMMA NextInv == Inv /\ [Next]_vars => Inv'
<1> SUFFICES ASSUME Inv, [Next]_vars PROVE Inv'
  OBVIOUS
<1>1. CASE UNCHANGED vars
  <2>1. TypeOK'
    BY <1>1 DEF Inv, TypeOK, vars
  <2>2. Committed' /\ OneInserter'
    BY <1>1 DEF Inv, Committed, OneInserter, vars
  <2>3. \A r \in Requests : Standing(txn[r])'
    BY <1>1 DEF Inv, Standing, Corrects, Done, vars
  <2> QED
    BY <2>1, <2>2, <2>3 DEF Inv
<1>2. ASSUME NEW r \in Requests,
             \/ CorrectionRefused(r) \/ RefreshFails(r) \/ Raise(r)
             \/ Rollback(r) \/ DeadlockVictim(r)
      PROVE  Inv'
  BY <1>2, EndsWithoutCommit
     DEF CorrectionRefused, RefreshFails, Raise, Rollback, DeadlockVictim
<1>3. CASE Next
  BY <1>2, <1>3, RequestStep, CommitStep DEF Next, Proceed
<1> QED
  BY <1>1, <1>3

LEMMA InvAlways == Spec => []Inv
BY InitInv, NextInv, PTL DEF Spec
-----------------------------------------------------------------------------
\* The committed rows, the transactions and the locks stay typed.
THEOREM TypeCorrect == Spec => []TypeOK
<1>1. Inv => TypeOK
  BY DEF Inv
<1> QED
  BY <1>1, InvAlways, PTL

\* Among any number of concurrent corrections and backfills exactly one
\* revision is active, it is the latest and task_specs mirrors it.
THEOREM OneRevisionActive == Spec => []OneActive
<1>1. Inv => OneActive
  <2> SUFFICES ASSUME Inv PROVE OneActive
    OBVIOUS
  <2>1. mirror \in Nat /\ revs = 1..mirror
        /\ active = IF mirror = 0 THEN {} ELSE {mirror}
    BY DEF Inv, TypeOK, Committed
  <2>2. mirror > 0 => Max(1..mirror) = mirror
    BY <2>1 DEF Max
  <2> QED
    BY <2>1, <2>2 DEF OneActive
<1> QED
  BY <1>1, InvAlways, PTL

\* The counter of the active revision is the number of corrections.
THEOREM NoCorrectionLost == Spec => []CorrectionsCounted
<1>1. Inv => CorrectionsCounted
  <2> SUFFICES ASSUME Inv, NEW k \in active
               PROVE  count[k] = Cardinality(revs) - 1
    BY DEF CorrectionsCounted
  <2>1. mirror \in Nat /\ mirror > 0 /\ k = mirror /\ revs = 1..mirror
        /\ count[mirror] = mirror - 1
    BY DEF Inv, TypeOK, Committed
  <2>2. Cardinality(1..mirror) = mirror
    BY <2>1, FS_Interval
  <2> QED
    BY <2>1, <2>2
<1> QED
  BY <1>1, InvAlways, PTL

\* The request that loses the race for revision 1 finds the winner's.
THEOREM LosersFindTheWinner == Spec => ReadersAgree
<1>1. Inv /\ [Next]_vars =>
        [\A r \in Requests : Reload(r) => txn'[r].pc # "raised"]_vars
  <2> SUFFICES ASSUME Inv, NEW r \in Requests, Reload(r)
               PROVE  txn'[r].pc # "raised"
    OBVIOUS
  <2>1. active # {}
    BY DEF Inv, TypeOK, Committed, Reload
  <2>2. PICK n \in active :
          txn' = [txn EXCEPT ![r].seen = n, ![r].new = {}, ![r].cleared = {},
                             ![r].creates = FALSE, ![r].pc = AfterRead(r)]
    BY <2>1 DEF Reload, FindActive
  <2>3. txn \in [Requests -> Transaction] /\ txn[r] \in Transaction
    BY DEF Inv, TypeOK
  <2>4. txn'[r] = [txn[r] EXCEPT !.seen = n, !.new = {}, !.cleared = {},
                                 !.creates = FALSE, !.pc = AfterRead(r)]
    BY <2>2, <2>3
  <2>5. txn'[r].pc = AfterRead(r)
    BY <2>3, <2>4 DEF Transaction
  <2> QED
    BY <2>5 DEF AfterRead
<1> QED
  BY <1>1, InvAlways, PTL DEF Spec, ReadersAgree

\* No correction of a stale revision is committed.
THEOREM HistoryIsLinear == Spec => Linear
<1>1. Inv /\ [Next]_vars =>
        [\A r \in Requests :
           Commit(r) /\ txn[r].kind = "correct" /\ txn[r].new # {} =>
             active = IF 1 \in txn[r].new THEN {} ELSE {txn[r].seen}]_vars
  <2> SUFFICES ASSUME Inv, NEW r \in Requests, Commit(r),
                      txn[r].kind = "correct", txn[r].new # {}
               PROVE  active = IF 1 \in txn[r].new THEN {} ELSE {txn[r].seen}
    OBVIOUS
  <2>1. Corrects(txn[r]) /\ mirror \in Nat
        /\ active = IF mirror = 0 THEN {} ELSE {mirror}
    BY DEF Inv, TypeOK, Committed, Standing, Done, Commit
  <2> QED
    BY <2>1 DEF Corrects
<1> QED
  BY <1>1, InvAlways, PTL DEF Spec, Linear

\* The locks and the savepoint make the transactions one line of revisions.
THEOREM ImplementsHistory == Spec => Implements
<1> DEFINE Corrections == IF active = {} THEN 0 ELSE count[Max(active)]
<1>1. Inv => /\ Current = mirror
             /\ mirror = 0 => Corrections = 0
             /\ mirror > 0 => Corrections = mirror - 1
  <2> SUFFICES ASSUME Inv
               PROVE  /\ Current = mirror
                      /\ mirror = 0 => Corrections = 0
                      /\ mirror > 0 => Corrections = mirror - 1
    OBVIOUS
  <2>1. /\ mirror \in Nat
        /\ mirror > 0 => count[mirror] = mirror - 1
        /\ active = IF mirror = 0 THEN {} ELSE {mirror}
    BY DEF Inv, TypeOK, Committed
  <2>2. Max({mirror}) = mirror
    BY <2>1, MaxOfOne
  <2> QED
    BY <2>1, <2>2 DEF Current
<1>2. Init => History!HistoryInit
  BY DEF Init, History!HistoryInit, Current
<1>3. Inv /\ Inv' /\ [Next]_vars => [History!HistoryNext]_(History!historyVars)
  <2> SUFFICES ASSUME Inv, Inv', [Next]_vars
               PROVE  [History!HistoryNext]_(History!historyVars)
    OBVIOUS
  <2>1. CASE UNCHANGED table
    BY <2>1 DEF table, Current, History!historyVars
  <2>2. ASSUME NEW r \in Requests, NEW n \in Numbers, Extends(r, n)
        PROVE  History!HistoryNext
    <3>1. /\ Current = mirror
          /\ mirror \in Nat
          /\ mirror = 0 => Corrections = 0
          /\ mirror > 0 => Corrections = mirror - 1
      BY <1>1 DEF Inv, TypeOK
    <3>3. Current' = n /\ Corrections' = n - 1
      <4>1. Max({n}) = n
        BY MaxOfOne DEF Numbers
      <4>2. count' = [count EXCEPT ![n] = n - 1] /\ active' = {n}
        BY <2>2 DEF Extends
      <4>3. count'[n] = n - 1
        BY <4>2 DEF Inv, TypeOK
      <4> QED
        BY <4>1, <4>2, <4>3 DEF Current
    <3>2. n = mirror + 1 \/ (mirror = 0 /\ n = 2)
      BY <2>2 DEF Extends
    <3> HIDE DEF Corrections
    <3> QED
      BY <3>1, <3>2, <3>3
         DEF History!HistoryNext, History!Backfilled, History!Corrected,
             History!BackfilledAndCorrected, Corrections
  <2>3. ASSUME NEW r \in Requests, Commit(r)
        PROVE  [History!HistoryNext]_(History!historyVars)
    BY <2>1, <2>2, <2>3, CommitEffect
  <2>4. CASE UNCHANGED vars
    BY <2>1, <2>4 DEF vars, table
  <2>5. ASSUME NEW r \in Requests, ~Commit(r),
               \/ \E kind \in Kinds : Start(r, kind)
               \/ Proceed(r)
               \/ Rollback(r)
        PROVE  UNCHANGED table
    BY <2>5 DEF Proceed, Start, ReadActive, Backfill, Reload, ActivateBackfill,
                BackfillLosesSnapshot, Context, Refresh, RefreshFails, Understand,
                CreateCorrection, CorrectionRefused, ActivateCorrection, Raise,
                DeadlockVictim, Rollback, Aborts
  <2> QED
    BY <2>1, <2>3, <2>4, <2>5 DEF Next
<1> QED
  BY <1>2, <1>3, InvAlways, PTL DEF Spec, Implements, History!HistorySpec
=============================================================================
